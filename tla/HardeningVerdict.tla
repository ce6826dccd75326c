-------------------------- MODULE HardeningVerdict --------------------------
(***************************************************************************)
(* What a WorkloadHardeningCheck promises to whoever reads its status: a   *)
(* recommendation that rests on recordings and on an accepted analysis,    *)
(* and a verdict that is given once and stands, after which nothing is     *)
(* recommended any more.  WorkloadCheck, with its runs, its copies of the  *)
(* status and its failures, implements this.                               *)
(***************************************************************************)

CONSTANTS Check,               \* the checks the target's pod spec requires
          Baseline,            \* the runs without any security context
          BaselineGiven,       \* whether the baseline recordings are given
          NoRec                \* no recommendation

VARIABLES recorded,            \* the runs whose recording is stored
          vetted,              \* the checks whose recording was found good
          recommendation,      \* the checks that are recommended
          verdict              \* how the check ended, "no" before it has

vvars == <<recorded, vetted, recommendation, verdict>>

VInit == /\ recorded = {} /\ vetted = {}
         /\ recommendation = NoRec
         /\ verdict = "no"

BaselinesKnown == BaselineGiven \/ Baseline \subseteq recorded

\* Runs go on after the verdict.
StoreRecordingOf(r) == /\ recorded' = recorded \cup {r}
                       /\ UNCHANGED <<vetted, recommendation, verdict>>

Vet(C) == /\ verdict = "no"
          /\ BaselinesKnown /\ C \subseteq recorded
          /\ vetted' = vetted \cup C
          /\ UNCHANGED <<recorded, recommendation, verdict>>

\* A recommendation may be replaced until the verdict.
Recommend(C) == /\ verdict = "no"
                /\ BaselinesKnown /\ C \subseteq vetted
                /\ recommendation' = C
                /\ UNCHANGED <<recorded, vetted, verdict>>

Succeed == /\ verdict = "no"
           /\ recommendation # NoRec
           /\ "Final" \in recorded
           /\ verdict' = "recommended"
           /\ UNCHANGED <<recorded, vetted, recommendation>>

\* A bad baseline was recorded too; an analysis may fail for any reason.
Fail(how) == /\ verdict = "no"
             /\ how = "baselineFailed" => \E b \in Baseline : b \in recorded
             /\ verdict' = how
             /\ UNCHANGED <<recorded, vetted, recommendation>>

VNext == \/ \E r \in Baseline \cup Check \cup {"Final"} : StoreRecordingOf(r)
         \/ \E C \in SUBSET Check : Vet(C) \/ Recommend(C)
         \/ Succeed
         \/ \E how \in {"analysisFailed", "baselineFailed"} : Fail(how)

VSpec == VInit /\ [][VNext]_vvars
=============================================================================
