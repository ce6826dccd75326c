------------------------ MODULE NamespaceCheckProofs ------------------------
(***************************************************************************)
(* What NamespaceCheck guarantees for all sets of workloads and of checks  *)
(* that users made, with and without webhooks, and any failures: type      *)
(* correctness, the baselines of the checks that are created, that only    *)
(* what a finished check recommends is recommended, and that a settled     *)
(* verdict stands.                                                         *)
(*                                                                         *)
(* What is stored was collected in one invocation and travelled through    *)
(* its copy of the status, so that IInv says of all three what the         *)
(* property says of the stored recommendations.  It stays true because     *)
(* the end of a workload check is never taken back.                        *)
(***************************************************************************)
EXTENDS NamespaceCheck, TLAPS

CheckType == [Check -> {"absent", "created", "running", "recommended", "failed"}]
View == [baseline : {"none", "recording", "late", "recorded"}, recs : Recs]

Reported(recs) == \A w \in Workload : recs[w] # NoCheck => recs[w] \in RecommendedFor(w)
RecsAreReported == Reported(status.recs) /\ Reported(view.recs) /\ Reported(collected)

IInv == TypeOK /\ ChecksHaveBaselines /\ RecsAreReported

-----------------------------------------------------------------------------
(* Failures, statuses and the end of an invocation.                        *)

FaultsTyped == faults \in 0..MaxFaults /\ seen \in SUBSET (Faults \cup {"hollow", "stale"})

LEMMA FaultType ==
  ASSUME TypeOK, NEW kind, Fault(kind) \/ NoFault
  PROVE  FaultsTyped'
BY NamespaceAssumption DEF TypeOK, Fault, NoFault, FaultsTyped

LEMMA StatusTypes ==
  /\ NoRecs \in Recs /\ InitStatus \in Status
  /\ \A s \in Status : /\ Copy(s) \in View
                       /\ \A f \in {"none", "working", "noTarget"} \cup Verdict :
                            [s EXCEPT !.finished = f] \in Status
                       /\ \A b \in {"none", "recording", "late", "recorded"} :
                            [s EXCEPT !.baseline = b] \in Status
                       /\ \A recs \in Recs : [s EXCEPT !.recs = recs] \in Status
                       /\ Working(s) \in Status
BY DEF NoRecs, Recs, InitStatus, Status, Copy, View, Working

\* What an invocation may do to the object and to its own variables.
InvocationEffect ==
  /\ status' \in Status /\ pc' \in ReconcilerPC /\ view' \in View
  /\ resources' \in SUBSET Workload /\ collected' \in Recs /\ queued' \in BOOLEAN
  /\ FaultsTyped'
  /\ Reported(status'.recs) /\ Reported(view'.recs) /\ Reported(collected')

LEMMA InvocationEffectKeepsInvariant ==
  ASSUME IInv, InvocationEffect, UNCHANGED <<check, result, clones, recordings, tested>>,
         run' \in [Run -> RunPC], final' \in [recs : Recs, applied : Recs, verdict : Verdict]
  PROVE  IInv'
<1>1. TypeOK'
  BY DEF IInv, TypeOK, InvocationEffect, FaultsTyped, View, clones
<1>2. ChecksHaveBaselines'
  BY DEF IInv, ChecksHaveBaselines
<1>3. RecsAreReported'
  BY DEF InvocationEffect, RecsAreReported, Reported, RecommendedFor
<1>4. QED
  BY <1>1, <1>2, <1>3 DEF IInv

LEMMA SetStatusEffect ==
  ASSUME IInv, NEW s \in Status, Reported(s.recs), NEW label \in ReconcilerPC,
         SetStatus(s, label)
  PROVE  InvocationEffect
<1>1. FaultsTyped'
  BY FaultType DEF IInv, SetStatus
<1>2. status' \in {status, s} /\ view' \in {view, Copy(s)} /\ pc' = label
      /\ UNCHANGED <<resources, collected, queued>>
  BY DEF SetStatus, Goto
<1>3. Copy(s) \in View /\ Copy(s).recs = s.recs
  BY StatusTypes DEF Copy
<1>4. QED
  BY <1>1, <1>2, <1>3 DEF IInv, TypeOK, View, InvocationEffect, RecsAreReported

LEMMA LeaveEffect ==
  ASSUME IInv, Leave, queued' \in BOOLEAN, FaultsTyped',
         status' \in Status, Reported(status'.recs)
  PROVE  InvocationEffect
<1>1. Copy(InitStatus) \in View /\ Copy(InitStatus).recs = NoRecs /\ NoRecs \in Recs
  BY StatusTypes DEF Copy, InitStatus
<1>2. Reported(NoRecs)
  BY DEF Reported, NoRecs
<1>3. QED
  BY <1>1, <1>2 DEF Leave, InvocationEffect, ReconcilerPC

LEMMA InitInvariant == Init => IInv
<1> SUFFICES ASSUME Init PROVE IInv
  OBVIOUS
<1>1. NoRecs \in Recs /\ InitStatus \in Status /\ Copy(InitStatus) \in View
  BY StatusTypes
<1>2. TypeOK
  <2>1. check \in CheckType
    BY DEF Init, CheckType
  <2>2. final \in [recs : Recs, applied : Recs, verdict : Verdict]
    BY <1>1 DEF Init, NoFinal, Verdict
  <2>3. result \in [Baseline -> [Workload -> Result]]
    BY DEF Init, NoResults, Result
  <2>4. QED
    BY <1>1, <2>1, <2>2, <2>3, NamespaceAssumption
       DEF Init, TypeOK, View, CheckType, ReconcilerPC, RunPC
<1>3. ChecksHaveBaselines
  BY NamespaceAssumption DEF Init, ChecksHaveBaselines, Check
<1>4. RecsAreReported
  BY DEF Init, RecsAreReported, Reported, InitStatus, Copy, NoRecs
<1>5. QED
  BY <1>2, <1>3, <1>4 DEF IInv

-----------------------------------------------------------------------------
(* The invocations that leave the workload checks and the runs alone.      *)

LEMMA QuietSteps ==
  ASSUME IInv,
         Skip \/ Start \/ StartFails \/ Survey \/ StillRecording \/ ListWorkloadChecks
  PROVE  IInv'
<1>1. UNCHANGED <<status, check, run, result, final, clones, recordings, tested>>
  BY DEF Skip, Start, StartFails, Survey, StillRecording, ListWorkloadChecks, NoRunSteps,
         runVars
<1>2. FaultsTyped'
  <2>1. CASE UNCHANGED faults /\ seen' \in {seen, seen \cup {"stale"}}
    BY <2>1 DEF IInv, TypeOK, FaultsTyped
  <2>2. CASE \E kind : Fault(kind) \/ NoFault
    BY <2>2, FaultType DEF IInv
  <2>3. QED
    BY <2>1, <2>2 DEF Skip, Start, StartFails, Survey, StillRecording, ListWorkloadChecks
<1>3. status \in Status /\ Reported(status.recs) /\ TypeOK
  BY DEF IInv, TypeOK, RecsAreReported
<1>4. InvocationEffect
  <2>1. CASE Skip
    BY <1>1, <1>2, <1>3, <2>1, LeaveEffect DEF Skip, Done
  <2>2. CASE StartFails
    BY <1>1, <1>2, <1>3, <2>2, LeaveEffect DEF StartFails, Requeue
  <2>3. CASE StillRecording
    BY <1>1, <1>2, <1>3, <2>3, LeaveEffect DEF StillRecording, Requeue
  <2>4. CASE Start
    <3>1. view' = Copy(status) /\ pc' \in {"prepare", "survey", "noTarget"}
          /\ UNCHANGED <<resources, collected, queued>>
      BY <2>4 DEF Start, Goto
    <3>2. Copy(status) \in View /\ Copy(status).recs = status.recs
      BY <1>3, StatusTypes DEF Copy
    <3>3. QED
      BY <1>1, <1>2, <1>3, <3>1, <3>2
         DEF IInv, TypeOK, InvocationEffect, RecsAreReported, ReconcilerPC
  <2>5. CASE Survey
    <3>1. resources' \in SUBSET Workload /\ UNCHANGED <<view, collected, queued>>
      BY <2>5 DEF Survey
    <3>2. pc' \in ReconcilerPC
      BY <2>5 DEF Survey, AfterSurvey, ReconcilerPC
    <3>3. QED
      BY <1>1, <1>2, <1>3, <3>1, <3>2 DEF IInv, TypeOK, View, InvocationEffect, RecsAreReported
  <2>6. CASE ListWorkloadChecks
    <3>1. CASE Requeue
      BY <1>1, <1>2, <1>3, <3>1, LeaveEffect DEF Requeue
    <3>2. CASE Goto("inProgress") /\ UNCHANGED view
      BY <1>1, <1>2, <1>3, <3>2
         DEF IInv, TypeOK, View, InvocationEffect, RecsAreReported, Goto, ReconcilerPC
    <3>3. CASE /\ pc' = "recommend" /\ UNCHANGED <<view, resources, queued>>
               /\ \E recs \in Recs : Collects(recs) /\ collected' = recs
      <4>1. collected' \in Recs /\ Reported(collected')
        BY <3>3 DEF Collects, Reported
      <4>2. QED
        BY <1>1, <1>2, <1>3, <3>3, <4>1
           DEF IInv, TypeOK, View, InvocationEffect, RecsAreReported, ReconcilerPC
    <3>4. QED
      BY <2>6, <3>1, <3>2, <3>3 DEF ListWorkloadChecks
  <2>7. QED
    BY <2>1, <2>2, <2>3, <2>4, <2>5, <2>6
<1>5. QED
  BY <1>1, <1>3, <1>4, InvocationEffectKeepsInvariant DEF TypeOK

LEMMA WritingSteps ==
  ASSUME IInv,
         Prepare \/ StartBaseline \/ BaselineRecorded \/ AnnounceChecks \/ Recommend
  PROVE  IInv'
<1>1. status \in Status /\ Reported(status.recs) /\ collected \in Recs /\ Reported(collected)
  BY DEF IInv, TypeOK, RecsAreReported
<1>2. UNCHANGED <<check, run, result, final, clones, recordings, tested>>
  BY DEF Prepare, StartBaseline, BaselineRecorded, AnnounceChecks, Recommend, NoRunSteps, runVars
<1>3. Working(status) \in Status /\ Working(status).recs = status.recs
  BY <1>1, StatusTypes DEF Working, Status
<1>4. PICK s \in Status, label \in ReconcilerPC : SetStatus(s, label) /\ Reported(s.recs)
  <2>1. CASE Prepare
    BY <1>1, <1>3, <2>1 DEF Prepare, ReconcilerPC
  <2>2. CASE StartBaseline
    <3>1. [status EXCEPT !.baseline = "recording"] \in Status
          /\ [status EXCEPT !.baseline = "recording"].recs = status.recs
      BY <1>1 DEF Status
    <3>2. QED
      BY <1>1, <2>2, <3>1 DEF StartBaseline, ReconcilerPC
  <2>3. CASE BaselineRecorded
    <3>1. [status EXCEPT !.baseline = "recorded"] \in Status
          /\ [status EXCEPT !.baseline = "recorded"].recs = status.recs
      BY <1>1 DEF Status
    <3>2. QED
      BY <1>1, <2>3, <3>1 DEF BaselineRecorded, ReconcilerPC
  <2>4. CASE AnnounceChecks
    BY <1>1, <1>3, <2>4 DEF AnnounceChecks, ReconcilerPC
  <2>5. CASE Recommend
    <3>1. [Working(status) EXCEPT !.recs = collected] \in Status
          /\ [Working(status) EXCEPT !.recs = collected].recs = collected
      BY <1>1, <1>3 DEF Status
    <3>2. QED
      BY <1>1, <2>5, <3>1 DEF Recommend, ReconcilerPC
  <2>6. QED
    BY <2>1, <2>2, <2>3, <2>4, <2>5
<1>5. InvocationEffect
  BY <1>4, SetStatusEffect
<1>6. QED
  BY <1>2, <1>5, InvocationEffectKeepsInvariant DEF IInv, TypeOK

LEMMA LastSteps ==
  ASSUME IInv,
         TargetNotFound \/ NothingToCheck \/ BaselineTooLate \/ ChecksInProgress
  PROVE  IInv'
<1>1. status \in Status /\ Reported(status.recs)
  BY DEF IInv, TypeOK, RecsAreReported
<1>2. UNCHANGED <<check, run, result, final, clones, recordings, tested>>
  BY DEF TargetNotFound, NothingToCheck, BaselineTooLate, ChecksInProgress, NoRunSteps, runVars
<1>3. PICK f \in {"noTarget", "empty", "failed", "working"} :
        LastSetStatus([status EXCEPT !.finished = f])
  BY DEF TargetNotFound, NothingToCheck, BaselineTooLate, ChecksInProgress, Working
<1>4. FaultsTyped'
  BY <1>3, FaultType DEF IInv, LastSetStatus
<1>5. status' \in Status /\ status'.recs = status.recs
  BY <1>1, <1>3 DEF LastSetStatus, Status, Verdict
<1>6. Leave /\ queued' \in BOOLEAN
  BY DEF TargetNotFound, NothingToCheck, BaselineTooLate, ChecksInProgress, Done, Requeue
<1>7. InvocationEffect
  BY <1>1, <1>4, <1>5, <1>6, LeaveEffect
<1>8. QED
  BY <1>2, <1>7, InvocationEffectKeepsInvariant DEF IInv, TypeOK

LEMMA SubmittingSteps ==
  ASSUME IInv, SubmitBaselines \/ SubmitFinal
  PROVE  IInv'
<1>1. status \in Status /\ Reported(status.recs) /\ view \in View /\ TypeOK
  BY DEF IInv, TypeOK, View, RecsAreReported
<1>2. UNCHANGED <<status, check, result, clones, recordings, tested>> /\ NoFault
      /\ Leave /\ queued' \in BOOLEAN
  BY DEF SubmitBaselines, SubmitFinal, Requeue
<1>3. FaultsTyped'
  BY <1>1, <1>2, FaultType
<1>4. InvocationEffect
  BY <1>1, <1>2, <1>3, LeaveEffect
<1>5. run' \in [Run -> RunPC]
  BY <1>1 DEF TypeOK, SubmitBaselines, SubmitFinal, RunPC
<1>6. final' \in [recs : Recs, applied : Recs, verdict : Verdict]
  <2>1. [NoFinal EXCEPT !.recs = view.recs] \in [recs : Recs, applied : Recs, verdict : Verdict]
    BY <1>1, StatusTypes DEF View, NoFinal, Verdict
  <2>2. QED
    BY <1>1, <2>1 DEF TypeOK, SubmitBaselines, SubmitFinal
<1>7. QED
  BY <1>2, <1>4, <1>5, <1>6, InvocationEffectKeepsInvariant

-----------------------------------------------------------------------------
(* The workload checks: a check that has ended remains as it is.           *)

LEMMA CheckEffect ==
  ASSUME IInv, check' \in CheckType,
         \A c \in Check : check[c] = "recommended" => check'[c] = "recommended",
         \A w \in Workload : check[w] = "absent" /\ check'[w] # "absent" => Admitted(w),
         UNCHANGED <<status, view, resources, runVars, clones, recordings, tested>>,
         collected' = collected, queued' = queued, pc' \in ReconcilerPC, FaultsTyped'
  PROVE  IInv'
<1>1. TypeOK'
  BY DEF IInv, TypeOK, CheckType, FaultsTyped, runVars, clones
<1>2. ChecksHaveBaselines'
  BY DEF IInv, ChecksHaveBaselines, Admitted
<1>3. \A w \in Workload : RecommendedFor(w) \subseteq RecommendedFor(w)'
  BY DEF RecommendedFor
<1>4. RecsAreReported'
  BY <1>3 DEF IInv, RecsAreReported, Reported
<1>5. QED
  BY <1>1, <1>2, <1>4 DEF IInv

LEMMA CreateStep ==
  ASSUME IInv, CreateWorkloadChecks
  PROVE  IInv'
<1>1. PICK made \in SUBSET ToCreate : check' = WithChecks(made)
  BY DEF CreateWorkloadChecks
<1>2. \A w \in made : w \in Check /\ check[w] = "absent" /\ Admitted(w)
  BY <1>1 DEF ToCreate, IInv, TypeOK, Check
<1>3. check' \in CheckType
  BY <1>1 DEF WithChecks, CheckType, IInv, TypeOK
<1>4. \A c \in Check : check[c] = "recommended" => check'[c] = "recommended"
  BY <1>1, <1>2 DEF WithChecks
<1>5. \A w \in Workload : check[w] = "absent" /\ check'[w] # "absent" => Admitted(w)
  BY <1>1, <1>2 DEF WithChecks, Check
<1>6. FaultsTyped'
  BY FaultType DEF IInv, CreateWorkloadChecks
<1>7. UNCHANGED <<status, view, resources, runVars, clones, recordings, tested>>
      /\ collected' = collected /\ queued' = queued /\ pc' \in ReconcilerPC
  BY DEF CreateWorkloadChecks, Goto, NoRunSteps, ReconcilerPC
<1>8. QED
  BY <1>3, <1>4, <1>5, <1>6, <1>7, CheckEffect

LEMMA CheckStep ==
  ASSUME IInv, NEW c \in Check, CacheCatchesUp(c) \/ CheckFinishes(c)
  PROVE  IInv'
<1>1. PICK outcome \in {"running", "recommended", "failed"} : check' = [check EXCEPT ![c] = outcome]
  BY DEF CacheCatchesUp, CheckFinishes
<1>2. check[c] \in {"created", "running"}
  BY DEF CacheCatchesUp, CheckFinishes
<1>3. TypeOK
  BY DEF IInv
<1>4. check' \in CheckType
      /\ \A d \in Check : check[d] \in {"absent", "recommended"} => check'[d] = check[d]
  BY <1>1, <1>2, <1>3 DEF TypeOK, CheckType
<1>5. \A w \in Workload : check[w] = "absent" => check'[w] = "absent"
  BY <1>4 DEF Check
<1>6. FaultsTyped'
  BY <1>3, FaultType DEF CacheCatchesUp, CheckFinishes
<1>7. UNCHANGED <<status, view, resources, runVars, clones, recordings, tested>>
      /\ collected' = collected /\ queued' = queued /\ pc' \in ReconcilerPC
  BY <1>3 DEF CacheCatchesUp, CheckFinishes, NoRunSteps, reconcilerVars, TypeOK
<1>8. QED
  BY <1>4, <1>5, <1>6, <1>7, CheckEffect

-----------------------------------------------------------------------------
(* The runs, the cluster, the clock and restarts.                          *)

FinalType == [recs : Recs, applied : Recs, verdict : Verdict]

\* What they may do: nothing to the workload checks, and what is recorded remains.
RunEffect ==
  /\ UNCHANGED check
  /\ status' \in Status /\ status'.recs = status.recs
  /\ run' \in [Run -> RunPC] /\ result' \in [Baseline -> [Workload -> Result]]
  /\ final' \in FinalType /\ tested' \in Recs
  /\ ns' \in [Run -> {"absent", "active", "hollow", "terminating"}] /\ bound' \in SUBSET Run
  /\ recordings' \in SUBSET (Baseline \X Workload) /\ recordings \subseteq recordings'
  /\ FaultsTyped'

LEMMA RunEffectKeepsInvariant ==
  ASSUME IInv, RunEffect, UNCHANGED reconcilerVars
  PROVE  IInv'
<1>1. TypeOK'
  BY DEF IInv, TypeOK, RunEffect, FaultsTyped, FinalType, reconcilerVars
<1>2. ChecksHaveBaselines'
  BY DEF IInv, ChecksHaveBaselines, RunEffect
<1>3. RecsAreReported'
  BY DEF IInv, RunEffect, RecsAreReported, Reported, RecommendedFor, reconcilerVars
<1>4. QED
  BY <1>1, <1>2, <1>3 DEF IInv

LEMMA CloneEffect ==
  ASSUME TypeOK, NEW r \in Run, NEW ok \in RunPC, NEW failed \in RunPC, CloneTo(r, ok, failed)
  PROVE  /\ run' \in [Run -> RunPC] /\ FaultsTyped'
         /\ ns' \in [Run -> {"absent", "active", "hollow", "terminating"}]
         /\ bound' \in SUBSET Run
<1>1. FaultsTyped'
  <2>1. CASE UNCHANGED faults /\ seen' = seen \cup {"hollow"}
    BY <2>1 DEF TypeOK, FaultsTyped
  <2>2. CASE NoFault \/ Fault("clone")
    BY <2>2, FaultType
  <2>3. QED
    BY <2>1, <2>2 DEF CloneTo
<1>2. run' \in [Run -> RunPC]
  BY DEF CloneTo, Move, TypeOK
<1>3. ns' \in {ns, [ns EXCEPT ![r] = "active"], [ns EXCEPT ![r] = "hollow"]}
      /\ bound' \in {bound, bound \cup {r}}
  BY DEF CloneTo, clones
<1>4. QED
  BY <1>1, <1>2, <1>3 DEF TypeOK

LEMMA BaselineSteps ==
  ASSUME IInv, NEW b \in Baseline, BaselineStep(b)
  PROVE  IInv'
<1>1. TypeOK /\ status \in Status /\ b \in Run
  BY DEF IInv, TypeOK, Run
<1>2. UNCHANGED <<check, status, final, tested>> /\ UNCHANGED reconcilerVars
  BY DEF BaselineStep, CloneForBaseline, BaselineReturns, RecorderReturns, Collect, NoReconcile
<1>3. RunEffect
  <2>1. CASE CloneForBaseline(b)
    <3>1. CloneTo(b, "record", "none") /\ UNCHANGED <<result, recordings>>
      BY <2>1 DEF CloneForBaseline
    <3>2. /\ run' \in [Run -> RunPC] /\ FaultsTyped'
          /\ ns' \in [Run -> {"absent", "active", "hollow", "terminating"}]
          /\ bound' \in SUBSET Run
      BY <1>1, <3>1, CloneEffect DEF RunPC
    <3>3. QED
      BY <1>1, <1>2, <3>1, <3>2 DEF TypeOK, RunEffect, FinalType
  <2>2. CASE BaselineReturns(b)
    <3>1. run' = [run EXCEPT ![b] = "none"] /\ UNCHANGED recordings /\ FaultsTyped'
      BY <1>1, <2>2, FaultType DEF BaselineReturns, Move
    <3>2. result' \in [Baseline -> [Workload -> Result]]
      <4>1. [w \in Workload |-> "none"] \in [Workload -> Result]
        BY DEF Result
      <4>2. QED
        BY <1>1, <2>2, <4>1 DEF BaselineReturns, TypeOK
    <3>3. ns' \in [Run -> {"absent", "active", "hollow", "terminating"}] /\ bound' \in SUBSET Run
      BY <1>1, <2>2 DEF BaselineReturns, DeleteAll, DeleteHalf, clones, TypeOK
    <3>4. QED
      BY <1>1, <1>2, <3>1, <3>2, <3>3 DEF TypeOK, RunEffect, RunPC, FinalType
  <2>3. ASSUME NEW w \in Workload, RecorderReturns(b, w)
        PROVE  RunEffect
    <3>1. PICK outcome \in {"ok", "error", "silent", "hung"} :
            result' = [result EXCEPT ![b][w] = outcome]
      BY <2>3 DEF RecorderReturns
    <3>2. result' \in [Baseline -> [Workload -> Result]]
      BY <1>1, <3>1 DEF TypeOK, Result
    <3>3. FaultsTyped' /\ UNCHANGED <<run, clones, recordings>>
      BY <1>1, <2>3, FaultType DEF RecorderReturns
    <3>4. QED
      BY <1>1, <1>2, <3>2, <3>3 DEF TypeOK, RunEffect, clones, FinalType
  <2>4. ASSUME NEW w \in Workload, Collect(b, w)
        PROVE  RunEffect
    <3>1. result' \in [Baseline -> [Workload -> Result]]
      BY <1>1, <2>4 DEF Collect, TypeOK, Result
    <3>2. recordings' \in {recordings, recordings \cup {<<b, w>>}}
      BY <2>4 DEF Collect
    <3>3. FaultsTyped' /\ UNCHANGED <<run, clones>>
      BY <1>1, <2>4, FaultType DEF Collect
    <3>4. QED
      BY <1>1, <1>2, <3>1, <3>2, <3>3 DEF TypeOK, RunEffect, clones, FinalType
  <2>5. QED
    BY <2>1, <2>2, <2>3, <2>4 DEF BaselineStep
<1>4. QED
  BY <1>2, <1>3, RunEffectKeepsInvariant

LEMMA FinalSteps ==
  ASSUME IInv, FinalStep
  PROVE  IInv'
<1>1. TypeOK /\ status \in Status /\ "final" \in Run /\ final \in FinalType
  BY DEF IInv, TypeOK, Run, FinalType
<1>2. UNCHANGED <<check, result, recordings>> /\ UNCHANGED reconcilerVars
  BY DEF FinalStep, CloneForFinal, ApplyRecommendations, AwaitReadiness, DeleteFinal, ReportFinal,
         FinalReturns, NoReconcile
<1>3. FaultsTyped' /\ run' \in [Run -> RunPC]
      /\ ns' \in [Run -> {"absent", "active", "hollow", "terminating"}] /\ bound' \in SUBSET Run
  <2>1. CASE CloneForFinal
    BY <1>1, <2>1, CloneEffect DEF CloneForFinal, RunPC
  <2>2. CASE ApplyRecommendations
    <3>1. PICK label \in {"ready", "delete", "report", "hung"} : Move("final", label)
      BY <2>2 DEF ApplyRecommendations
    <3>2. QED
      BY <1>1, <2>2, <3>1, FaultType DEF ApplyRecommendations, Move, RunPC, clones, TypeOK
  <2>3. CASE AwaitReadiness
    BY <1>1, <2>3, FaultType DEF AwaitReadiness, Move, RunPC, clones, TypeOK
  <2>4. CASE DeleteFinal
    <3>1. ns' \in {ns, [ns EXCEPT !["final"] = "terminating"]} /\ bound' \in {bound, bound \ {"final"}}
      BY <2>4 DEF DeleteFinal, DeleteAll, DeleteHalf, clones
    <3>2. QED
      BY <1>1, <2>4, <3>1, FaultType DEF DeleteFinal, Move, RunPC, TypeOK
  <2>5. CASE ReportFinal
    BY <1>1, <2>5, FaultType DEF ReportFinal, Move, RunPC, clones, TypeOK
  <2>6. CASE FinalReturns
    BY <1>1, <2>6, FaultType DEF FinalReturns, Move, RunPC, clones, TypeOK
  <2>7. QED
    BY <2>1, <2>2, <2>3, <2>4, <2>5, <2>6 DEF FinalStep
<1>4. final' \in FinalType
  <2>1. CASE CloneForFinal \/ ReportFinal
    BY <1>1, <2>1 DEF CloneForFinal, ReportFinal
  <2>2. CASE ApplyRecommendations
    <3>1. \A found \in SUBSET Workload :
            [w \in Workload |-> IF w \in found THEN final.recs[w] ELSE NoCheck] \in Recs
      BY <1>1 DEF FinalType, Recs
    <3>2. QED
      BY <1>1, <2>2, <3>1 DEF ApplyRecommendations, FinalType, Verdict
  <2>3. CASE AwaitReadiness \/ DeleteFinal
    BY <1>1, <2>3 DEF AwaitReadiness, DeleteFinal, FinalType, Verdict
  <2>4. CASE FinalReturns
    BY <2>4, StatusTypes DEF FinalReturns, NoFinal, FinalType, Verdict
  <2>5. QED
    BY <2>1, <2>2, <2>3, <2>4 DEF FinalStep
<1>5. status' \in Status /\ status'.recs = status.recs /\ tested' \in Recs
  <2>1. CASE ReportFinal
    BY <1>1, <2>1 DEF ReportFinal, Status, FinalType, TypeOK
  <2>2. CASE UNCHANGED <<status, tested>>
    BY <1>1, <2>2 DEF TypeOK
  <2>3. QED
    BY <2>1, <2>2 DEF FinalStep, CloneForFinal, ApplyRecommendations, AwaitReadiness,
       DeleteFinal, FinalReturns, NoReconcile
<1>6. RunEffect
  BY <1>1, <1>2, <1>3, <1>4, <1>5 DEF RunEffect, TypeOK
<1>7. QED
  BY <1>2, <1>6, RunEffectKeepsInvariant

LEMMA OtherSteps ==
  ASSUME IInv, (\E r \in Run : NamespaceGone(r)) \/ StuckBaselineOverdue \/ SlowBaselineOverdue
  PROVE  IInv'
<1>1. TypeOK /\ status \in Status
  BY DEF IInv, TypeOK
<1>2. UNCHANGED <<check, runVars, recordings, tested>> /\ UNCHANGED reconcilerVars
  BY DEF NamespaceGone, NoReconcile, StuckBaselineOverdue, SlowBaselineOverdue, TimePasses,
         NoRunSteps
<1>3. FaultsTyped'
  BY <1>1, FaultType DEF NamespaceGone, StuckBaselineOverdue, SlowBaselineOverdue
<1>4. status' \in Status /\ status'.recs = status.recs
  BY <1>1 DEF NamespaceGone, StuckBaselineOverdue, SlowBaselineOverdue, TimePasses, Status
<1>5. ns' \in [Run -> {"absent", "active", "hollow", "terminating"}] /\ bound' \in SUBSET Run
  BY <1>1 DEF NamespaceGone, StuckBaselineOverdue, SlowBaselineOverdue, TimePasses, NoRunSteps,
              clones, TypeOK
<1>6. RunEffect
  BY <1>1, <1>2, <1>3, <1>4, <1>5 DEF RunEffect, runVars, FinalType, TypeOK
<1>7. QED
  BY <1>2, <1>6, RunEffectKeepsInvariant

LEMMA RestartStep ==
  ASSUME IInv, Restart
  PROVE  IInv'
<1>1. TypeOK /\ status \in Status /\ Reported(status.recs)
  BY DEF IInv, TypeOK, RecsAreReported
<1>2. FaultsTyped'
  BY <1>1, FaultType DEF Restart
<1>3. InvocationEffect
  BY <1>1, <1>2, LeaveEffect DEF Restart, Requeue
<1>4. run' \in [Run -> RunPC] /\ result' \in [Baseline -> [Workload -> Result]]
      /\ final' \in FinalType
  BY StatusTypes DEF Restart, RunPC, NoResults, Result, NoFinal, FinalType, Verdict
<1>5. /\ check' \in CheckType
      /\ \A c \in Check : check[c] \in {"absent", "recommended"} => check'[c] = check[c]
      /\ \A c \in Check : check'[c] # "absent" => check[c] # "absent"
  BY <1>1 DEF TypeOK, CheckType, Restart
<1>6. TypeOK'
  BY <1>1, <1>3, <1>4, <1>5
  DEF TypeOK, CheckType, InvocationEffect, FaultsTyped, View, FinalType, Restart, clones
<1>7. ChecksHaveBaselines'
  BY <1>5 DEF IInv, ChecksHaveBaselines, Restart, Check
<1>8. RecsAreReported'
  <2>1. \A w \in Workload : RecommendedFor(w) \subseteq RecommendedFor(w)'
    BY <1>5 DEF RecommendedFor
  <2>2. Reported(status'.recs) /\ Reported(view'.recs) /\ Reported(collected')
    BY <1>3 DEF InvocationEffect
  <2>3. QED
    BY <2>1, <2>2 DEF RecsAreReported, Reported
<1>9. QED
  BY <1>6, <1>7, <1>8 DEF IInv

-----------------------------------------------------------------------------
LEMMA NextInvariant == IInv /\ [Next]_vars => IInv'
<1> SUFFICES ASSUME IInv, [Next]_vars PROVE IInv'
  OBVIOUS
<1>1. CASE UNCHANGED vars
  <2>1. InvocationEffect
    BY <1>1 DEF vars, reconcilerVars, IInv, TypeOK, InvocationEffect, FaultsTyped, View,
                RecsAreReported
  <2>2. QED
    BY <1>1, <2>1, InvocationEffectKeepsInvariant DEF vars, runVars, IInv, TypeOK
<1>2. CASE ReconcileStep
  BY <1>2, QuietSteps, WritingSteps, LastSteps, SubmittingSteps, CreateStep DEF ReconcileStep
<1>3. CASE \E b \in Baseline : BaselineStep(b)
  BY <1>3, BaselineSteps
<1>4. CASE FinalStep
  BY <1>4, FinalSteps
<1>5. CASE \E c \in Check : CacheCatchesUp(c) \/ CheckFinishes(c)
  BY <1>5, CheckStep
<1>6. CASE (\E r \in Run : NamespaceGone(r)) \/ StuckBaselineOverdue \/ SlowBaselineOverdue
  BY <1>6, OtherSteps
<1>7. CASE Restart
  BY <1>7, RestartStep
<1>8. QED
  BY <1>1, <1>2, <1>3, <1>4, <1>5, <1>6, <1>7 DEF Next

LEMMA Invariant == Spec => []IInv
BY InitInvariant, NextInvariant, PTL DEF Spec

\* The variables keep their types, for any workloads, checks and failures.
THEOREM TypeCorrect == Spec => []TypeOK
BY Invariant, PTL DEF IInv

\* However wrong the conclusion from the executor to "recorded" is, with the webhooks
\* enabled no workload check is created without its two baselines.
THEOREM CreatedChecksHaveBaselines == Spec => []ChecksHaveBaselines
BY Invariant, PTL DEF IInv

\* What is stored as the recommendation for a workload is that of a check of it that
\* has ended with one, although it is collected long before it is stored.
THEOREM OnlyReportedIsRecommended == Spec => []RecommendationsOfFinishedChecks
<1>1. IInv => RecommendationsOfFinishedChecks
  BY DEF IInv, RecsAreReported, Reported, RecommendationsOfFinishedChecks
<1>2. QED
  BY <1>1, Invariant, PTL

\* No step of the program changes a verdict once neither an invocation nor a final
\* run is under way: Reconcile skips the object, and nothing else starts one.
LEMMA SettledStep ==
  IInv /\ [Next]_vars => [Settled => Settled' /\ status'.finished = status.finished]_vars
<1> SUFFICES ASSUME IInv, Next, Settled
             PROVE  Settled' /\ status'.finished = status.finished
  BY DEF vars, Settled
<1> USE DEF Settled, IsRunning
<1>1. TypeOK /\ status \in Status
  BY DEF IInv, TypeOK
<1>2. CASE ReconcileStep
  <2>1. Skip \/ StartFails
    BY <1>2 DEF ReconcileStep, Start, TargetNotFound, Prepare, Survey, StillRecording,
       NothingToCheck, StartBaseline, SubmitBaselines, BaselineRecorded, BaselineTooLate,
       CreateWorkloadChecks, AnnounceChecks, ListWorkloadChecks, ChecksInProgress, Recommend,
       SubmitFinal
  <2>2. QED
    BY <2>1 DEF Skip, StartFails, Done, Requeue, Leave, NoRunSteps, runVars
<1>3. ASSUME NEW b \in Baseline, BaselineStep(b)
      PROVE  Settled' /\ status'.finished = status.finished
  <2>1. run' \in {run, [run EXCEPT ![b] = "record"], [run EXCEPT ![b] = "none"]}
    BY <1>3 DEF BaselineStep, CloneForBaseline, CloneTo, BaselineReturns, RecorderReturns, Collect, Move
  <2>2. UNCHANGED <<status, pc>>
    BY <1>3 DEF BaselineStep, CloneForBaseline, BaselineReturns, RecorderReturns, Collect,
                NoReconcile, reconcilerVars
  <2>3. b # "final"
    BY DEF Baseline
  <2>4. run'["final"] = run["final"]
    BY <1>1, <2>1, <2>3 DEF TypeOK, Run
  <2>5. QED
    BY <2>2, <2>4
<1>4. ~FinalStep
  BY DEF FinalStep, CloneForFinal, ApplyRecommendations, AwaitReadiness, DeleteFinal, ReportFinal,
         FinalReturns
<1>5. CASE \E c \in Check : CacheCatchesUp(c) \/ CheckFinishes(c)
  BY <1>5 DEF CacheCatchesUp, CheckFinishes, NoRunSteps, runVars, reconcilerVars
<1>6. CASE \E r \in Run : NamespaceGone(r)
  BY <1>6 DEF NamespaceGone, NoReconcile, runVars, reconcilerVars
<1>7. CASE StuckBaselineOverdue \/ SlowBaselineOverdue
  BY <1>1, <1>7 DEF StuckBaselineOverdue, SlowBaselineOverdue, TimePasses, NoRunSteps, runVars,
                    reconcilerVars, Status
<1>8. CASE Restart
  BY <1>8 DEF Restart, Requeue, Leave, Run
<1>9. QED
  BY <1>2, <1>3, <1>4, <1>5, <1>6, <1>7, <1>8 DEF Next

\* A verdict that is settled stands for ever, whatever baseline runs go on, whatever
\* fails and however often the operator restarts.
THEOREM SettledVerdictStands == Spec => VerdictStands
BY Invariant, SettledStep, PTL DEF Spec, VerdictStands
=============================================================================
