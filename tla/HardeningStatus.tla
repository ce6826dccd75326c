-------------------------- MODULE HardeningStatus ---------------------------
(***************************************************************************)
(* The status of one WorkloadHardeningCheck, which the reconciler and the  *)
(* runs of its checks share through the API server, and the ways they read *)
(* and write it (pkg/workloadhardeningcheck, api/v1alpha1).                *)
(*                                                                         *)
(* Abstracted: a condition is one value for its status and reason, "late"  *)
(* for the status False whose last transition is older than the recording  *)
(* duration plus one minute.  The condition Finished is "no" as long as it *)
(* is not True.  Of a CheckRun only whether the check was successful is    *)
(* kept, of the list BaselineRuns the set of its outcomes, and of a        *)
(* recommendation, as of the security context of the final run, the set of *)
(* the checks whose security contexts it merges.                           *)
(***************************************************************************)
EXTENDS Naturals, FiniteSets

CONSTANTS Check,               \* the checks the target's pod spec requires
          Baseline,            \* the runs "baseline" and "baseline-2"
          BaselineGiven,       \* whether spec.baselineRecordingReference is set
          Faults,              \* the kinds of failures considered
          MaxFaults,           \* how many failures happen at most
          NoRec                \* no recommendation

RunName == Baseline \cup Check \cup {"Final"}
CondType == {"Baseline", "FinalCheck"} \cup Check
Recommendation == {NoRec} \cup SUBSET Check
FaultKinds == {"write", "fetch", "clone", "delete", "run", "panic", "hang", "slow",
               "restart"}

ASSUME StatusAssumption ==
  /\ Baseline \cap Check = {}
  /\ (Baseline \cup Check) \cap {"Baseline", "FinalCheck", "Final"} = {}
  /\ BaselineGiven \in BOOLEAN
  /\ Faults \subseteq FaultKinds
  /\ MaxFaults \in Nat
  /\ \A C \in SUBSET Check : NoRec # C

VARIABLES status,              \* the stored status
          faults               \* how many failures happened

\* The condition a run reports to: both baselines share one.
CondOf(run) == IF run \in Baseline THEN "Baseline"
               ELSE IF run = "Final" THEN "FinalCheck" ELSE run

CondVal == {"none", "unknown", "running", "late", "recorded"}
Outcome == {"none", "ok", "bad"}

Status == [cond : [CondType -> CondVal],
           finished : {"no", "recommended", "analysisFailed", "baselineFailed"},
           analysis : {"none", "running", "done"},
           rec : Recommendation,
           checkRuns : [Check -> Outcome],
           baselineRuns : SUBSET {"ok", "bad"},
           finalRun : [result : Outcome, sc : Recommendation]]

NoChecks == [c \in Check |-> "none"]
NoConditions == [t \in CondType |-> "none"]
InitStatus == [cond |-> NoConditions, finished |-> "no", analysis |-> "none",
               rec |-> NoRec, checkRuns |-> NoChecks, baselineRuns |-> {},
               finalRun |-> [result |-> "none", sc |-> NoRec]]

-----------------------------------------------------------------------------
(* Predicates on a copy of the status.  Each of them first refreshes the   *)
(* copy, but asks the client for the wrapper type WorkloadHardeningCheck,  *)
(* which no scheme knows: the call fails, its error is dropped, and the    *)
(* copy stays what it was.                                                 *)

IsRecorded(s, t) == s.cond[t] = "recorded"
IsInProgress(s, t) == s.cond[t] \in {"running", "late"}
NeverOverdue(s, t) == FALSE
IsOverdue(s, t) == s.cond[t] = "late"
IsUnknown(s, t) == s.cond[t] = "unknown"
RecommendationExists(s) == s.rec # NoRec

-----------------------------------------------------------------------------
\* A failure of one kind, while the bound MaxFaults allows another.
Fault(kind) == /\ kind \in Faults
               /\ faults < MaxFaults
               /\ faults' = faults + 1
NoFault == UNCHANGED faults

\* meta.SetStatusCondition moves the transition time only with the status: a
\* condition that is overdue stays so when it is set to False again.
Stamp(old, new) == IF new = "running" /\ old = "late" THEN "late" ELSE new
WithCondition(s, t, v) == [s EXCEPT !.cond[t] = Stamp(@, v)]

\* Every writer re-fetches the object, changes it and updates it, again when
\* the update conflicts: a change of the latest stored status, or, when the API
\* or all retries fail, none.
Write(s) == \/ status' = s /\ NoFault
            \/ UNCHANGED status /\ Fault("write")

SetCondition(t, v) == Write(WithCondition(status, t, v))
=============================================================================
