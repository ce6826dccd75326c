----------------------- MODULE NamespaceSuccessProofs -----------------------
(***************************************************************************)
(* What a success of a namespace check means, for all sets of workloads    *)
(* and of checks that users made, with and without webhooks: what a final  *)
(* run reported to have applied stays stored, whatever lists of checks     *)
(* miss; it is all of what is stored if no list was taken for complete     *)
(* that missed a check and no failure of five kinds happened; and if       *)
(* nothing failed, every workload was checked to the end.                  *)
(*                                                                         *)
(* Several final runs may report and several invocations store what they   *)
(* collected.  They agree since from the first time that all checks were   *)
(* found to be finished nothing is recorded or created any more and so no  *)
(* check begins (Complete, Underway): for this it matters that baselines   *)
(* are submitted only once (BaselinesOnce), which in turn the copy of the  *)
(* invocation guarantees as no other writes these fields (ViewIsCurrent).  *)
(***************************************************************************)
EXTENDS NamespaceCheckProofs

\* No baseline is recorded and no check created any more.
Complete == /\ status.baseline = "recorded" /\ NoBaselineRunning
            /\ \A w \in Workload : check[w] # "absent" \/ ~Admitted(w)
AllEnded == \A c \in Check : check[c] \notin {"created", "running"}
Ready == Complete /\ AllEnded

ViewIsCurrent ==
  pc # "idle" => /\ view.recs = status.recs
                 /\ \/ view.baseline = status.baseline
                    \/ view.baseline = "recording" /\ status.baseline = "late"

BaselinesOnce ==
  /\ pc = "startBaseline" => status.baseline = "none"
  /\ pc = "submitBaselines" => status.baseline \in {"recording", "late"}
  /\ pc = "baselineRecorded" => NoBaselineRunning /\ status.baseline # "none"
  /\ pc = "createChecks" => status.baseline = "recorded"
  /\ pc \in {"baselineRecorded", "createChecks"} => resources = Workload
  /\ status.baseline = "recorded" => NoBaselineRunning

Collecting ==
  /\ pc \in {"announce", "list", "inProgress"} => Complete
  /\ pc = "recommend" => Ready /\ Collects(collected)
  /\ pc = "submitFinal" => Ready /\ Collects(status.recs)

Underway == IsRunning("final") \/ status.finished = "success"
UnderwayIsReady == Underway => Ready /\ Collects(status.recs)

FinalApplies ==
  IsRunning("final") =>
    /\ Collects(final.recs)
    /\ run["final"] \in {"submitted", "apply"} => final.verdict # "success"
    /\ run["final"] = "apply" => ns["final"] = "active"
    /\ run["final"] \in {"ready", "delete"} \/ final.verdict = "success"
         => final.applied = final.recs

SuccessCollected == status.finished = "success" => Collects(tested)

SInv == ViewIsCurrent /\ BaselinesOnce /\ Collecting /\ UnderwayIsReady /\ FinalApplies
        /\ SuccessCollected
CleanInv == NoWorkloadLeftOut => SInv

-----------------------------------------------------------------------------
(* Failures.                                                               *)

LEMMA SeenGrows ==
  ASSUME [Next]_vars
  PROVE  seen \subseteq seen'
<1>1. \A kind : Fault(kind) \/ NoFault => seen \subseteq seen'
  BY DEF Fault, NoFault
<1>2. CASE ReconcileStep
  <2>1. seen' = seen \cup {"stale"} \/ \E kind : Fault(kind) \/ NoFault
    BY <1>2
    DEF ReconcileStep, Skip, Start, StartFails, TargetNotFound, Prepare, Survey, StillRecording,
        NothingToCheck, StartBaseline, SubmitBaselines, BaselineRecorded, BaselineTooLate,
        CreateWorkloadChecks, AnnounceChecks, ListWorkloadChecks, ChecksInProgress, Recommend,
        SubmitFinal, SetStatus, LastSetStatus, NoFault
  <2>2. QED
    BY <1>1, <2>1
<1>3. ASSUME NEW r, NEW ok, NEW failed, CloneTo(r, ok, failed)
      PROVE  seen \subseteq seen'
  BY <1>1, <1>3 DEF CloneTo
<1>4. CASE \E b \in Baseline : BaselineStep(b)
  BY <1>1, <1>3, <1>4
  DEF BaselineStep, CloneForBaseline, BaselineReturns, RecorderReturns, Collect
<1>5. CASE FinalStep
  BY <1>1, <1>3, <1>5
  DEF FinalStep, CloneForFinal, ApplyRecommendations, AwaitReadiness, DeleteFinal, ReportFinal,
      FinalReturns
<1>6. CASE \/ \E c \in Check : CacheCatchesUp(c) \/ CheckFinishes(c)
           \/ \E r \in Run : NamespaceGone(r)
           \/ StuckBaselineOverdue \/ SlowBaselineOverdue \/ Restart
  BY <1>1, <1>6
  DEF CacheCatchesUp, CheckFinishes, NamespaceGone, StuckBaselineOverdue, SlowBaselineOverdue, Restart
<1>7. CASE UNCHANGED vars
  BY <1>7 DEF vars
<1>8. QED
  BY <1>2, <1>4, <1>5, <1>6, <1>7 DEF Next

\* A step after which none of these failures has happened, and no list missed a check,
\* does not have them.
LEMMA CleanStep ==
  ASSUME NoWorkloadLeftOut', [Next]_vars
  PROVE  /\ NoWorkloadLeftOut
         /\ \A kind \in {"write", "resource", "list", "create"} : ~Fault(kind)
         /\ "hollow" \notin seen' /\ "stale" \notin seen'
BY SeenGrows DEF NoWorkloadLeftOut, Fault

-----------------------------------------------------------------------------
(* Reconcile.                                                              *)

\* What the checks, the baselines and the recordings say, while they stay as they are.
LEMMA SameChecks ==
  ASSUME UNCHANGED <<check, recordings>>,
         \A b \in Baseline : IsRunning(b)' => IsRunning(b),
         status.baseline = "recorded" => status'.baseline = "recorded"
  PROVE  /\ Complete => Complete'
         /\ AllEnded => AllEnded'
         /\ \A recs : Collects(recs) => Collects(recs)'
         /\ NoBaselineRunning => NoBaselineRunning'
BY DEF Complete, NoBaselineRunning, Admitted, AllEnded, Collects, RecommendedFor

\* A step of an invocation, by what it has to show: nothing that is under way is
\* disturbed, and its copy and its new place are as they should be.
LEMMA InvocationKeepsSuccess ==
  ASSUME SInv, UNCHANGED <<check, recordings, run, final, ns, tested>>,
         status.baseline = "recorded" => status'.baseline = "recorded",
         status'.finished = "success" => status.finished = "success",
         status'.recs = status.recs \/ Collects(status'.recs),
         ViewIsCurrent', BaselinesOnce', Collecting'
  PROVE  SInv'
<1>1. /\ Complete => Complete'
      /\ AllEnded => AllEnded'
      /\ \A recs : Collects(recs) => Collects(recs)'
  BY SameChecks DEF IsRunning
<1>2. Underway' => Underway
  BY DEF Underway, IsRunning
<1>3. Underway => Ready /\ Collects(status.recs)
  BY DEF SInv, UnderwayIsReady
<1>4. Underway => Collects(status'.recs)
  BY <1>3
<1>5. Collects(status'.recs) => Collects(status.recs)'
  BY DEF Collects, RecommendedFor
<1>6. UnderwayIsReady'
  BY <1>1, <1>2, <1>3, <1>4, <1>5 DEF UnderwayIsReady, Ready
<1>7. FinalApplies'
  <2>1. Collects(final.recs) => Collects(final.recs)'
    BY DEF Collects, RecommendedFor
  <2>2. QED
    BY <2>1 DEF SInv, FinalApplies, IsRunning
<1>8. SuccessCollected'
  <2>1. Collects(tested) => Collects(tested)'
    BY DEF Collects, RecommendedFor
  <2>2. QED
    BY <2>1 DEF SInv, SuccessCollected
<1>9. QED
  BY <1>6, <1>7, <1>8 DEF SInv

\* The fields of a status that is written.
LEMMA StatusFields ==
  ASSUME NEW s \in Status
  PROVE  /\ \A f : [s EXCEPT !.finished = f].finished = f
                   /\ [s EXCEPT !.finished = f].baseline = s.baseline
                   /\ [s EXCEPT !.finished = f].recs = s.recs
         /\ \A b : [s EXCEPT !.baseline = b].finished = s.finished
                   /\ [s EXCEPT !.baseline = b].baseline = b
                   /\ [s EXCEPT !.baseline = b].recs = s.recs
         /\ Working(s).finished = "working" /\ Working(s).baseline = s.baseline
         /\ Working(s).recs = s.recs
         /\ \A r : LET t == [Working(s) EXCEPT !.recs = r]
                   IN t.finished = "working" /\ t.baseline = s.baseline /\ t.recs = r
         /\ Copy(s).recs = s.recs /\ Copy(s).baseline = s.baseline
BY DEF Status, Working, Copy

\* The end of an invocation that has written at most a result.
LEMMA LeavingSteps ==
  ASSUME IInv, SInv, NoWorkloadLeftOut', [Next]_vars,
         \/ Skip \/ StartFails \/ TargetNotFound \/ StillRecording \/ NothingToCheck
         \/ BaselineTooLate \/ ChecksInProgress \/ (ListWorkloadChecks /\ Leave)
  PROVE  SInv'
<1>1. UNCHANGED <<check, recordings, run, final, ns, tested>> /\ pc' = "idle"
  BY DEF Skip, StartFails, TargetNotFound, StillRecording, NothingToCheck, BaselineTooLate,
         ChecksInProgress, ListWorkloadChecks, NoRunSteps, runVars, clones, Done, Requeue,
         Leave
<1>2. status' = status \/ \E f \in {"noTarget", "empty", "failed", "working"} :
                            status' = [status EXCEPT !.finished = f]
  BY CleanStep
  DEF Skip, StartFails, TargetNotFound, StillRecording, NothingToCheck, BaselineTooLate,
      ChecksInProgress, ListWorkloadChecks, LastSetStatus, Working
<1>3. /\ status'.baseline = status.baseline /\ status'.recs = status.recs
      /\ status'.finished = "success" => status.finished = "success"
  BY <1>2 DEF IInv, TypeOK, Status
<1>4. ViewIsCurrent' /\ BaselinesOnce' /\ Collecting'
  BY <1>1, <1>3
  DEF SInv, ViewIsCurrent, BaselinesOnce, Collecting, NoBaselineRunning, IsRunning
<1>5. QED
  BY <1>1, <1>3, <1>4, InvocationKeepsSuccess

\* The invocation begins, lists the workloads and decides.
LEMMA BeginningSteps ==
  ASSUME IInv, SInv, NoWorkloadLeftOut', [Next]_vars, Start \/ Survey
  PROVE  SInv'
<1>1. /\ UNCHANGED <<check, recordings, run, final, ns, tested, status>>
      /\ NoBaselineRunning' <=> NoBaselineRunning
  BY DEF Start, Survey, NoRunSteps, runVars, clones, NoBaselineRunning, IsRunning
<1>2. CASE Start
  <2>1. pc' \in {"prepare", "survey", "noTarget"} /\ view' = Copy(status)
    BY <1>2 DEF Start, Goto
  <2>2. ViewIsCurrent' /\ BaselinesOnce' /\ Collecting'
    BY <1>1, <2>1 DEF SInv, ViewIsCurrent, BaselinesOnce, Collecting, Copy
  <2>3. QED
    BY <1>1, <2>2, InvocationKeepsSuccess
<1>3. CASE Survey
  <2>1. /\ resources' = Workload /\ pc' = AfterSurvey(resources') /\ view' = view
        /\ view.recs = status.recs
        /\ \/ view.baseline = status.baseline
           \/ view.baseline = "recording" /\ status.baseline = "late"
    BY <1>3, CleanStep DEF Survey, SInv, ViewIsCurrent
  <2>2. /\ pc' \in {"empty", "startBaseline", "createChecks", "baselineRecorded",
                    "baselineLate", "requeue"}
        /\ pc' = "startBaseline" => view.baseline = "none"
        /\ pc' = "createChecks" => view.baseline = "recorded"
        /\ pc' = "baselineRecorded" => view.baseline # "none" /\ NoBaselineRunning
    BY <2>1 DEF AfterSurvey
  <2>3. ViewIsCurrent' /\ BaselinesOnce' /\ Collecting'
    BY <1>1, <2>1, <2>2 DEF SInv, ViewIsCurrent, BaselinesOnce, Collecting
  <2>4. QED
    BY <1>1, <2>3, InvocationKeepsSuccess
<1>4. QED
  BY <1>2, <1>3

\* The writes after which the invocation goes on with the copy of what it wrote.
LEMMA GoingOnSteps ==
  ASSUME IInv, SInv, NoWorkloadLeftOut', [Next]_vars,
         Prepare \/ StartBaseline \/ BaselineRecorded \/ AnnounceChecks \/ Recommend
  PROVE  SInv'
<1>1. /\ UNCHANGED <<check, recordings, run, final, ns, tested, resources>>
      /\ NoBaselineRunning' <=> NoBaselineRunning
  BY DEF Prepare, StartBaseline, BaselineRecorded, AnnounceChecks, Recommend, SetStatus, Goto,
         NoRunSteps, runVars, clones, NoBaselineRunning, IsRunning
<1>2. status \in Status
  BY DEF IInv, TypeOK
<1>3. ASSUME NEW s, NEW label, SetStatus(s, label)
      PROVE  /\ status' = s /\ pc' = label
             /\ view'.recs = status'.recs /\ view'.baseline = status'.baseline
  BY <1>3, CleanStep DEF SetStatus, Goto, Copy
<1>4. CASE Prepare \/ AnnounceChecks
  <2>1. /\ status' = Working(status) /\ pc' \in {"survey", "list"}
        /\ view'.recs = status'.recs /\ view'.baseline = status'.baseline
        /\ pc' = "list" => Complete
    BY <1>3, <1>4 DEF Prepare, AnnounceChecks, SInv, Collecting
  <2>2. /\ status'.baseline = status.baseline /\ status'.recs = status.recs
        /\ status'.finished # "success"
    BY <1>2, <2>1, StatusFields
  <2>3. Complete => Complete'
    BY <1>1, <2>2 DEF Complete, Admitted
  <2>4. ViewIsCurrent' /\ BaselinesOnce' /\ Collecting'
    BY <1>1, <2>1, <2>2, <2>3 DEF SInv, ViewIsCurrent, BaselinesOnce, Collecting
  <2>5. QED
    BY <1>1, <2>2, <2>4, InvocationKeepsSuccess
<1>5. CASE StartBaseline
  <2>1. /\ status' = [status EXCEPT !.baseline = "recording"] /\ pc' = "submitBaselines"
        /\ view'.recs = status'.recs /\ view'.baseline = status'.baseline
        /\ status.baseline = "none"
    BY <1>3, <1>5 DEF StartBaseline, SInv, BaselinesOnce
  <2>2. /\ status'.baseline = "recording" /\ status'.recs = status.recs
        /\ status'.finished = status.finished
    BY <1>2, <2>1, StatusFields
  <2>3. ViewIsCurrent' /\ BaselinesOnce' /\ Collecting'
    BY <2>1, <2>2 DEF ViewIsCurrent, BaselinesOnce, Collecting
  <2>4. QED
    BY <1>1, <2>1, <2>2, <2>3, InvocationKeepsSuccess
<1>6. CASE BaselineRecorded
  <2>1. /\ status' = [status EXCEPT !.baseline = "recorded"] /\ pc' = "createChecks"
        /\ view'.recs = status'.recs /\ view'.baseline = status'.baseline
        /\ NoBaselineRunning /\ resources = Workload
    BY <1>3, <1>6 DEF BaselineRecorded, SInv, BaselinesOnce
  <2>2. /\ status'.baseline = "recorded" /\ status'.recs = status.recs
        /\ status'.finished = status.finished
    BY <1>2, <2>1, StatusFields
  <2>3. ViewIsCurrent' /\ BaselinesOnce' /\ Collecting'
    BY <1>1, <2>1, <2>2 DEF ViewIsCurrent, BaselinesOnce, Collecting
  <2>4. QED
    BY <1>1, <2>1, <2>2, <2>3, InvocationKeepsSuccess
<1>7. CASE Recommend
  <2>1. /\ status' = [Working(status) EXCEPT !.recs = collected] /\ pc' = "submitFinal"
        /\ view'.recs = status'.recs /\ view'.baseline = status'.baseline
        /\ Ready /\ Collects(collected)
    BY <1>3, <1>7 DEF Recommend, SInv, Collecting
  <2>2. /\ status'.baseline = status.baseline /\ status'.recs = collected
        /\ status'.finished # "success"
    BY <1>2, <2>1, StatusFields
  <2>3. Ready' /\ Collects(status.recs)'
    BY <1>1, <2>1, <2>2
    DEF Ready, Complete, Admitted, AllEnded, Collects, RecommendedFor
  <2>4. ViewIsCurrent' /\ BaselinesOnce' /\ Collecting'
    BY <1>1, <2>1, <2>2, <2>3 DEF SInv, ViewIsCurrent, BaselinesOnce, Collecting
  <2>5. QED
    BY <1>1, <2>1, <2>2, <2>4, InvocationKeepsSuccess
<1>8. QED
  BY <1>4, <1>5, <1>6, <1>7

LEMMA ListStep ==
  ASSUME SInv, NoWorkloadLeftOut', [Next]_vars, ListWorkloadChecks, ~Leave
  PROVE  SInv'
<1>1. /\ UNCHANGED <<check, recordings, run, final, ns, tested, status, view, resources>>
      /\ NoBaselineRunning' <=> NoBaselineRunning
      /\ Complete => Complete'
      /\ AllEnded => AllEnded'
  BY DEF ListWorkloadChecks, Goto, Requeue, NoRunSteps, runVars, clones, NoBaselineRunning,
         IsRunning, Complete, Admitted, AllEnded
<1>2. Complete /\ pc # "idle"
  BY DEF ListWorkloadChecks, SInv, Collecting
<1>3. \/ pc' = "inProgress"
      \/ pc' = "recommend" /\ AllEnded /\ Collects(collected')
  BY CleanStep DEF ListWorkloadChecks, Goto, Requeue, AllFinished, AllEnded, Cached, NotYetCached
<1>4. Collects(collected') => Collects(collected)'
  BY <1>1 DEF Collects, RecommendedFor
<1>5. ViewIsCurrent' /\ BaselinesOnce' /\ Collecting'
  BY <1>1, <1>2, <1>3, <1>4 DEF SInv, ViewIsCurrent, BaselinesOnce, Collecting, Ready
<1>6. QED
  BY <1>1, <1>5, InvocationKeepsSuccess

\* Baselines are submitted while they are not yet recorded.
LEMMA SubmitBaselinesStep ==
  ASSUME IInv, SInv, SubmitBaselines
  PROVE  SInv'
<1>1. /\ UNCHANGED <<status, check, final, tested>> /\ pc = "submitBaselines" /\ pc' = "idle"
      /\ status.baseline # "recorded"
  BY DEF SubmitBaselines, Requeue, Leave, SInv, BaselinesOnce
<1>2. run'["final"] = run["final"]
  BY DEF SubmitBaselines, Run, Baseline
<1>3. ~Underway /\ ~Underway'
  BY <1>1, <1>2 DEF SInv, UnderwayIsReady, Ready, Complete, Underway, IsRunning
<1>4. QED
  BY <1>1, <1>3
  DEF SInv, ViewIsCurrent, BaselinesOnce, Collecting, UnderwayIsReady, FinalApplies,
      SuccessCollected, Underway, IsRunning

\* The final run is given what is stored.
LEMMA SubmitFinalStep ==
  ASSUME IInv, SInv, SubmitFinal
  PROVE  SInv'
<1>1. /\ UNCHANGED <<status, check, recordings, ns, tested>>
      /\ pc = "submitFinal" /\ pc' = "idle"
      /\ Ready /\ Collects(status.recs) /\ view.recs = status.recs
  BY DEF SubmitFinal, Requeue, Leave, SInv, Collecting, ViewIsCurrent, clones
<1>2. /\ \A b \in Baseline : run'[b] = run[b]
      /\ \/ IsRunning("final") /\ run' = run /\ final' = final
         \/ run'["final"] = "submitted" /\ final' = [NoFinal EXCEPT !.recs = view.recs]
  <2>1. run \in [Run -> RunPC] /\ "final" \in Run /\ \A b \in Baseline : b \in Run /\ b # "final"
    BY DEF IInv, TypeOK, Run, Baseline
  <2>2. QED
    BY <2>1 DEF SubmitFinal
<1>3. /\ Complete => Complete'
      /\ AllEnded => AllEnded'
      /\ \A recs : Collects(recs) => Collects(recs)'
      /\ NoBaselineRunning => NoBaselineRunning'
  BY <1>1, <1>2, SameChecks DEF IsRunning
<1>4. Ready' /\ Collects(status.recs)'
  BY <1>1, <1>3 DEF Ready, Collects, RecommendedFor
<1>5. FinalApplies'
  <2>1. CASE IsRunning("final") /\ run' = run /\ final' = final
    <3>1. Collects(final.recs) => Collects(final.recs)'
      BY <1>1, <2>1 DEF Collects, RecommendedFor
    <3>2. QED
      BY <1>1, <2>1, <3>1 DEF SInv, FinalApplies, IsRunning
  <2>2. CASE run'["final"] = "submitted" /\ final' = [NoFinal EXCEPT !.recs = view.recs]
    <3>1. final'.recs = status.recs /\ final'.verdict = "error"
      BY <1>1, <2>2 DEF NoFinal
    <3>2. Collects(final.recs)'
      BY <1>1, <3>1 DEF Collects, RecommendedFor
    <3>3. QED
      BY <2>2, <3>1, <3>2 DEF FinalApplies
  <2>3. QED
    BY <1>2, <2>1, <2>2
<1>6. SuccessCollected'
  BY <1>1 DEF SInv, SuccessCollected, Collects, RecommendedFor
<1>7. ViewIsCurrent' /\ BaselinesOnce' /\ Collecting'
  BY <1>1, <1>3 DEF SInv, ViewIsCurrent, BaselinesOnce, Collecting
<1>8. QED
  BY <1>4, <1>5, <1>6, <1>7 DEF SInv, UnderwayIsReady

\* All checks that will ever be created are created at once.
LEMMA CreateChecksStep ==
  ASSUME IInv, SInv, NoWorkloadLeftOut', [Next]_vars, CreateWorkloadChecks
  PROVE  SInv'
<1>1. /\ UNCHANGED <<status, view, recordings, run, final, ns, tested>>
      /\ pc = "createChecks" /\ pc' \in {"announce", "list"}
      /\ check' = WithChecks(ToCreate)
  BY CleanStep DEF CreateWorkloadChecks, Goto, NoRunSteps, runVars, clones
<1>2. status.baseline = "recorded" /\ NoBaselineRunning /\ resources = Workload
  BY <1>1 DEF SInv, BaselinesOnce
<1>3. check \in CheckType
  BY DEF IInv, TypeOK, CheckType
<1>4. Complete'
  <2>1. \A w \in Workload : check'[w] # "absent" \/ ~Admitted(w)
    BY <1>1, <1>2, <1>3 DEF WithChecks, ToCreate, Check, CheckType
  <2>2. NoBaselineRunning'
    BY <1>1, <1>2 DEF NoBaselineRunning, IsRunning
  <2>3. QED
    BY <1>1, <1>2, <2>1, <2>2 DEF Complete, Admitted
<1>5. ViewIsCurrent' /\ BaselinesOnce' /\ Collecting'
  BY <1>1, <1>2, <1>4 DEF SInv, ViewIsCurrent, BaselinesOnce, Collecting, Complete
<1>6. CASE Complete
  <2>1. ToCreate = {}
    BY <1>2, <1>6 DEF Complete, ToCreate
  <2>2. check' = check
    BY <1>1, <1>3, <2>1 DEF WithChecks, CheckType
  <2>3. QED
    BY <1>1, <1>5, <2>2, InvocationKeepsSuccess
<1>7. CASE ~Complete
  <2>1. ~Underway /\ ~Underway'
    BY <1>1, <1>7 DEF SInv, UnderwayIsReady, Ready, Underway, IsRunning
  <2>2. QED
    BY <1>5, <2>1 DEF SInv, UnderwayIsReady, FinalApplies, SuccessCollected, Underway
<1>8. QED
  BY <1>6, <1>7

-----------------------------------------------------------------------------
(* The runs, the workload checks, the clock and restarts.                  *)

LEMMA BaselineRunSteps ==
  ASSUME IInv, SInv, NEW b \in Baseline, BaselineStep(b)
  PROVE  SInv'
<1>1. /\ UNCHANGED <<status, check, final, tested>> /\ UNCHANGED reconcilerVars
      /\ run' \in {run, [run EXCEPT ![b] = "record"], [run EXCEPT ![b] = "none"]}
      /\ IsRunning(b)
  BY DEF BaselineStep, CloneForBaseline, CloneTo, BaselineReturns, RecorderReturns, Collect,
         NoReconcile, Move, IsRunning
<1>2. run'["final"] = run["final"]
  BY <1>1 DEF Baseline, IInv, TypeOK, Run
<1>3. status.baseline # "recorded" /\ pc # "baselineRecorded"
  BY <1>1 DEF SInv, BaselinesOnce, NoBaselineRunning
<1>4. ~Underway /\ ~Underway'
  BY <1>1, <1>2, <1>3 DEF SInv, UnderwayIsReady, Ready, Complete, Underway, IsRunning
<1>5. ViewIsCurrent' /\ BaselinesOnce' /\ Collecting'
  BY <1>1, <1>3
  DEF SInv, ViewIsCurrent, BaselinesOnce, Collecting, Ready, Complete, reconcilerVars
<1>6. QED
  BY <1>4, <1>5 DEF SInv, UnderwayIsReady, FinalApplies, SuccessCollected, Underway

\* The final run applies what it was given to all workloads, or is no success.
LEMMA FinalRunSteps ==
  ASSUME IInv, SInv, NoWorkloadLeftOut', [Next]_vars, FinalStep
  PROVE  SInv'
<1>1. /\ UNCHANGED <<check, recordings>> /\ UNCHANGED reconcilerVars
      /\ IsRunning("final")
      /\ \E label : run' = [run EXCEPT !["final"] = label]
  BY DEF FinalStep, CloneForFinal, CloneTo, ApplyRecommendations, AwaitReadiness, DeleteFinal,
         ReportFinal, FinalReturns, NoReconcile, Move, IsRunning
<1>2. TypeOK /\ status \in Status /\ final \in FinalType /\ "final" \in Run
  BY DEF IInv, TypeOK, FinalType, Run
<1>3. \A b \in Baseline : run'[b] = run[b]
  BY <1>1, <1>2 DEF TypeOK, Baseline, Run
<1>4. Ready /\ Collects(status.recs) /\ Collects(final.recs)
  BY <1>1 DEF SInv, UnderwayIsReady, Underway, FinalApplies
<1>5. /\ status'.baseline = status.baseline /\ status'.recs = status.recs
      /\ \/ status'.finished = status.finished /\ tested' = tested
         \/ /\ status'.finished = final.verdict /\ tested' = final.applied
  <2>1. CASE UNCHANGED <<status, tested>>
    BY <2>1
  <2>2. CASE /\ status' = [status EXCEPT !.finished = final.verdict]
             /\ tested' = final.applied
    BY <1>2, <2>2 DEF Status
  <2>3. QED
    BY <2>1, <2>2
    DEF FinalStep, CloneForFinal, ApplyRecommendations, AwaitReadiness, DeleteFinal,
        ReportFinal, FinalReturns, NoReconcile
<1>6. Complete' /\ AllEnded' /\ \A recs : Collects(recs) => Collects(recs)'
  BY <1>1, <1>3, <1>4, <1>5, SameChecks DEF Ready, IsRunning
<1>7. Ready' /\ Collects(status.recs)'
  BY <1>1, <1>4, <1>5, <1>6 DEF Ready, Collects, RecommendedFor
<1>8. ViewIsCurrent' /\ BaselinesOnce' /\ Collecting'
  <2>1. Collects(collected) => Collects(collected)'
    BY <1>1 DEF Collects, RecommendedFor, reconcilerVars
  <2>2. NoBaselineRunning'
    BY <1>6 DEF Complete
  <2>3. QED
    BY <1>1, <1>5, <1>6, <1>7, <2>1, <2>2
    DEF SInv, ViewIsCurrent, BaselinesOnce, Collecting, reconcilerVars
<1>9. SuccessCollected'
  <2>1. final.verdict = "success" => Collects(final.applied)
    BY <1>1, <1>4 DEF SInv, FinalApplies
  <2>2. status'.finished = "success" => Collects(tested')
    BY <1>5, <2>1 DEF SInv, SuccessCollected
  <2>3. QED
    BY <1>1, <2>2 DEF SuccessCollected, Collects, RecommendedFor
<1>10. /\ final'.recs = final.recs \/ run'["final"] = "none"
       /\ run'["final"] \in {"submitted", "apply"} => final'.verdict # "success"
       /\ run'["final"] = "apply" => ns'["final"] = "active"
       /\ run'["final"] \in {"ready", "delete"} \/ final'.verdict = "success"
            => final'.applied = final'.recs \/ run'["final"] = "none"
  <2>1. CASE CloneForFinal
    <3>1. /\ final' = final /\ run["final"] = "submitted" /\ final.verdict # "success"
      BY <2>1 DEF CloneForFinal, SInv, FinalApplies, IsRunning
    <3>2. \/ ns' = [ns EXCEPT !["final"] = "active"] /\ run' = [run EXCEPT !["final"] = "apply"]
          \/ run' = [run EXCEPT !["final"] = "report"]
      BY <2>1, CleanStep DEF CloneForFinal, CloneTo, Move
    <3>3. QED
      BY <1>2, <3>1, <3>2 DEF TypeOK
  <2>2. CASE ApplyRecommendations
    <3>1. ns["final"] = "active" /\ final.verdict # "success"
      BY <2>2 DEF ApplyRecommendations, SInv, FinalApplies, IsRunning
    <3>2. [w \in Workload |-> IF w \in Workload THEN final.recs[w] ELSE NoCheck] = final.recs
      BY <1>2 DEF FinalType, Recs
    <3>3. \/ /\ final' = [final EXCEPT !.applied = final.recs, !.verdict = "success"]
             /\ run'["final"] \in {"ready", "delete", "report"}
          \/ final' = final /\ run'["final"] = "hung"
      <4>1. CASE Move("final", "hung") /\ UNCHANGED final
        BY <1>2, <4>1 DEF Move, TypeOK
      <4>2. ASSUME NEW found \in SUBSET Workload, found = Workload,
                   final' = [final EXCEPT
                      !.applied = [w \in Workload |->
                                     IF w \in found THEN final.recs[w] ELSE NoCheck],
                      !.verdict = "success"],
                   \E label \in {"ready", "delete", "report"} : Move("final", label)
            PROVE  <3>3
        BY <1>2, <3>2, <4>2 DEF Move, TypeOK
      <4>3. QED
        BY <2>2, <3>1, <4>1, <4>2, CleanStep DEF ApplyRecommendations
    <3>4. QED
      BY <1>2, <3>1, <3>3 DEF FinalType
  <2>3. CASE AwaitReadiness
    <3>1. /\ final.applied = final.recs /\ run'["final"] = "delete"
          /\ \E verdict : final' = [final EXCEPT !.verdict = verdict]
      BY <1>2, <2>3 DEF AwaitReadiness, Move, SInv, FinalApplies, IsRunning, TypeOK
    <3>2. QED
      BY <1>2, <3>1 DEF FinalType
  <2>4. CASE DeleteFinal
    <3>1. /\ final.applied = final.recs /\ run'["final"] = "report"
          /\ final' = final \/ final' = [final EXCEPT !.verdict = "error"]
      BY <1>2, <2>4 DEF DeleteFinal, Move, SInv, FinalApplies, IsRunning, TypeOK
    <3>2. QED
      BY <1>2, <3>1 DEF FinalType
  <2>5. CASE ReportFinal
    <3>1. final' = final /\ run'["final"] = "return"
      BY <1>2, <2>5 DEF ReportFinal, Move, TypeOK
    <3>2. QED
      BY <1>1, <3>1 DEF SInv, FinalApplies
  <2>6. CASE FinalReturns
    BY <1>2, <2>6 DEF FinalReturns, Move, TypeOK
  <2>7. QED
    BY <2>1, <2>2, <2>3, <2>4, <2>5, <2>6 DEF FinalStep
<1>11. FinalApplies'
  <2>1. final'.recs = final.recs => Collects(final.recs)'
    BY <1>1, <1>4 DEF Collects, RecommendedFor
  <2>2. QED
    BY <1>10, <2>1 DEF FinalApplies, IsRunning
<1>12. QED
  BY <1>7, <1>8, <1>9, <1>11 DEF SInv, UnderwayIsReady

\* A workload check is found and ends before all of them have ended.
LEMMA CheckSteps ==
  ASSUME IInv, SInv, NEW c \in Check, CacheCatchesUp(c) \/ CheckFinishes(c)
  PROVE  SInv'
<1>1. /\ UNCHANGED <<status, recordings, run, final, ns, tested>> /\ UNCHANGED reconcilerVars
      /\ check[c] \in {"created", "running"}
      /\ \E outcome \in {"running", "recommended", "failed"} :
           check' = [check EXCEPT ![c] = outcome]
  BY DEF CacheCatchesUp, CheckFinishes, NoRunSteps, runVars, clones
<1>2. ~AllEnded
  BY <1>1 DEF AllEnded
<1>3. ~Underway /\ ~Underway'
  BY <1>1, <1>2 DEF SInv, UnderwayIsReady, Ready, Underway, IsRunning
<1>4. Complete => Complete'
  BY <1>1 DEF Complete, Admitted, NoBaselineRunning, IsRunning, Check, IInv, TypeOK
<1>5. ViewIsCurrent' /\ BaselinesOnce' /\ Collecting'
  BY <1>1, <1>2, <1>4
  DEF SInv, ViewIsCurrent, BaselinesOnce, Collecting, Ready, reconcilerVars,
      NoBaselineRunning, IsRunning
<1>6. QED
  BY <1>3, <1>5 DEF SInv, UnderwayIsReady, FinalApplies, SuccessCollected, Underway

LEMMA ClusterSteps ==
  ASSUME IInv, SInv, NEW r \in Run, NamespaceGone(r)
  PROVE  SInv'
<1>1. /\ UNCHANGED <<status, check, recordings, run, final, tested>> /\ UNCHANGED reconcilerVars
      /\ run[r] = "submitted" /\ ns' = [ns EXCEPT ![r] = "absent"]
  BY DEF NamespaceGone, NoReconcile, runVars
<1>2. run["final"] = "apply" => ns'["final"] = ns["final"]
  BY <1>1 DEF IInv, TypeOK, Run
<1>3. QED
  BY <1>1, <1>2
  DEF SInv, ViewIsCurrent, BaselinesOnce, Collecting, UnderwayIsReady, Underway, Ready, Complete,
      FinalApplies, SuccessCollected, reconcilerVars, NoBaselineRunning, IsRunning, Admitted,
      AllEnded, Collects, RecommendedFor

LEMMA ClockSteps ==
  ASSUME IInv, SInv, TimePasses
  PROVE  SInv'
<1>1. /\ UNCHANGED <<check, recordings, run, final, ns, tested>> /\ UNCHANGED reconcilerVars
      /\ status.baseline = "recording" /\ status'.baseline = "late"
      /\ status'.recs = status.recs /\ status'.finished = status.finished
  BY DEF TimePasses, NoRunSteps, runVars, clones, IInv, TypeOK, Status
<1>2. ~Complete
  BY <1>1 DEF Complete
<1>3. ViewIsCurrent' /\ BaselinesOnce' /\ Collecting'
  BY <1>1, <1>2
  DEF SInv, ViewIsCurrent, BaselinesOnce, Collecting, Ready, reconcilerVars,
      NoBaselineRunning, IsRunning
<1>4. ~Underway /\ ~Underway'
  BY <1>1, <1>2 DEF SInv, UnderwayIsReady, Ready, Underway, IsRunning
<1>5. QED
  BY <1>3, <1>4 DEF SInv, UnderwayIsReady, FinalApplies, SuccessCollected, Underway

\* A restart makes the cache complete: checks that were created are found.
LEMMA RestartsKeepSuccess ==
  ASSUME IInv, SInv, Restart
  PROVE  SInv'
<1>1. /\ UNCHANGED <<status, recordings, tested>> /\ pc' = "idle"
      /\ \A r \in Run : ~IsRunning(r)'
      /\ check' = [c \in Check |-> IF check[c] = "created" THEN "running" ELSE check[c]]
  BY DEF Restart, Requeue, Leave, IsRunning
<1>2. ~IsRunning("final")' /\ NoBaselineRunning'
  BY <1>1 DEF NoBaselineRunning, Run
<1>3. ViewIsCurrent' /\ BaselinesOnce' /\ Collecting' /\ FinalApplies'
  BY <1>1, <1>2 DEF ViewIsCurrent, BaselinesOnce, Collecting, FinalApplies
<1>4. CASE AllEnded
  <2>1. check' = check
    BY <1>1, <1>4 DEF AllEnded, IInv, TypeOK
  <2>2. QED
    BY <1>1, <1>2, <1>3, <2>1
    DEF SInv, UnderwayIsReady, Underway, Ready, Complete, SuccessCollected, Admitted, AllEnded,
        Collects, RecommendedFor
<1>5. CASE ~AllEnded
  <2>1. status.finished # "success"
    BY <1>5 DEF SInv, UnderwayIsReady, Underway, Ready
  <2>2. QED
    BY <1>1, <1>2, <1>3, <2>1 DEF SInv, UnderwayIsReady, Underway, SuccessCollected
<1>6. QED
  BY <1>4, <1>5

-----------------------------------------------------------------------------
(* The theorems.                                                           *)

LEMMA InitClean == Init => CleanInv
<1> SUFFICES ASSUME Init PROVE SInv
  BY DEF CleanInv
<1>1. /\ status.finished = "none" /\ status.baseline = "none" /\ pc = "idle"
      /\ \A r \in Run : ~IsRunning(r)
  BY DEF Init, InitStatus, IsRunning
<1>2. ~IsRunning("final") /\ NoBaselineRunning
  BY <1>1 DEF NoBaselineRunning, Run
<1>3. QED
  BY <1>1, <1>2
  DEF SInv, ViewIsCurrent, BaselinesOnce, Collecting, UnderwayIsReady, Underway, FinalApplies,
      SuccessCollected

LEMMA NextClean == IInv /\ CleanInv /\ [Next]_vars => CleanInv'
<1> SUFFICES ASSUME IInv, CleanInv, [Next]_vars, NoWorkloadLeftOut' PROVE SInv'
  BY DEF CleanInv
<1>1. SInv
  BY CleanStep DEF CleanInv
<1>2. CASE ReconcileStep
  BY <1>1, <1>2, LeavingSteps, BeginningSteps, GoingOnSteps, ListStep, SubmitBaselinesStep,
     SubmitFinalStep, CreateChecksStep DEF ReconcileStep
<1>3. CASE \/ \E b \in Baseline : BaselineStep(b)
           \/ FinalStep
           \/ \E c \in Check : CacheCatchesUp(c) \/ CheckFinishes(c)
           \/ \E r \in Run : NamespaceGone(r)
           \/ StuckBaselineOverdue \/ SlowBaselineOverdue
           \/ Restart
  BY <1>1, <1>3, BaselineRunSteps, FinalRunSteps, CheckSteps, ClusterSteps, ClockSteps,
     RestartsKeepSuccess DEF StuckBaselineOverdue, SlowBaselineOverdue
<1>4. CASE UNCHANGED vars
  BY <1>1, <1>4
  DEF vars, runVars, clones, reconcilerVars, SInv, ViewIsCurrent, BaselinesOnce, Collecting,
      UnderwayIsReady, Underway, Ready, Complete, FinalApplies, SuccessCollected,
      NoBaselineRunning, IsRunning, Admitted, AllEnded, Collects, RecommendedFor
<1>5. QED
  BY <1>2, <1>3, <1>4 DEF Next

LEMMA CleanInvariant == Spec => [](IInv /\ CleanInv)
BY InitInvariant, NextInvariant, InitClean, NextClean, PTL DEF Spec

LEMMA CollectedAgree ==
  ASSUME Unambiguous, NEW r \in Recs, NEW q \in Recs, Collects(r), Collects(q)
  PROVE  r = q
<1>1. \A w \in Workload : r[w] = q[w]
  BY DEF Unambiguous, Collects
<1>2. QED
  BY <1>1 DEF Recs

\* If there is only one recommendation to take for each workload, no write was lost,
\* no list of workloads or of checks incomplete, no check too late and no clone hollow,
\* a success says that what is stored is all that was tested, though another final run
\* and another invocation may have come between (Reconcile, createFinalCheckRun).
THEOREM SuccessSaysTested == Spec => []SuccessIsTested
<1>1. IInv /\ CleanInv => SuccessIsTested
  <2> SUFFICES ASSUME IInv, CleanInv, status.finished = "success", Unambiguous,
                      NoWorkloadLeftOut
               PROVE  tested = status.recs
    BY DEF SuccessIsTested
  <2>1. Collects(tested) /\ Collects(status.recs)
    BY DEF CleanInv, SInv, SuccessCollected, UnderwayIsReady, Underway
  <2>2. tested \in Recs /\ status.recs \in Recs
    BY DEF IInv, TypeOK, Status
  <2>3. QED
    BY <2>1, <2>2, CollectedAgree
<1>2. QED
  BY <1>1, CleanInvariant, PTL

-----------------------------------------------------------------------------
(* When nothing fails.  Until the baselines are begun there is no trace of *)
(* them, and from then on what they recorded is stored before they are     *)
(* done: "not running" can be taken for "recorded".                        *)

NotBegun == status.baseline = "none" \/ pc = "submitBaselines"
Fresh(b) == /\ ns[b] = "absent" /\ b \notin bound
            /\ \A w \in Workload : result[b][w] = "none"
AllStored(b) == \A w \in Workload : <<b, w>> \in recordings
Recording(b) ==
  /\ ns[b] = "active"
  /\ \A w \in Workload : /\ result[b][w] \in {"none", "ok", "taken"}
                         /\ result[b][w] = "taken" => <<b, w>> \in recordings
Progress(b) == \/ NotBegun /\ run[b] = "none" /\ Fresh(b)
               \/ ~NotBegun /\ \/ run[b] = "submitted" /\ Fresh(b)
                               \/ run[b] = "record" /\ Recording(b)
                               \/ run[b] = "none" /\ AllStored(b)
ProgressInv == seen = {} => \A b \in Baseline : Progress(b)

LEMMA NothingFails ==
  ASSUME seen' = {}, [Next]_vars
  PROVE  /\ seen = {} /\ NoWorkloadLeftOut
         /\ \A kind : ~Fault(kind)
BY SeenGrows DEF Fault, NoWorkloadLeftOut

\* What has no part in the baselines.
LEMMA ProgressStays ==
  ASSUME NEW b \in Baseline, Progress(b), NotBegun' <=> NotBegun,
         run'[b] = run[b], ns'[b] = ns[b], b \in bound' <=> b \in bound,
         result'[b] = result[b], recordings \subseteq recordings'
  PROVE  Progress(b)'
BY DEF Progress, Fresh, AllStored, Recording

LEMMA InvocationsProgress ==
  ASSUME IInv, SInv, seen' = {}, [Next]_vars, ReconcileStep, NEW b \in Baseline, Progress(b)
  PROVE  Progress(b)'
<1>1. status \in Status /\ \A kind : ~Fault(kind)
  BY NothingFails DEF IInv, TypeOK
<1>2. UNCHANGED <<result, clones, recordings>>
  BY DEF ReconcileStep, Skip, Start, StartFails, TargetNotFound, Prepare, Survey,
         StillRecording, NothingToCheck, StartBaseline, SubmitBaselines, BaselineRecorded,
         BaselineTooLate, CreateWorkloadChecks, AnnounceChecks, ListWorkloadChecks,
         ChecksInProgress, Recommend, SubmitFinal, NoRunSteps, runVars
<1>3. CASE SubmitBaselines
  <2>1. /\ pc = "submitBaselines" /\ pc' = "idle" /\ status' = status
        /\ status.baseline # "none"
    BY <1>3 DEF SubmitBaselines, Requeue, Leave, SInv, BaselinesOnce
  <2>2. run[b] = "none" /\ Fresh(b)
    BY <2>1 DEF Progress, NotBegun
  <2>3. run'[b] = "submitted"
    BY <1>3, <2>2 DEF SubmitBaselines, IsRunning, Run
  <2>4. QED
    BY <1>2, <2>1, <2>2, <2>3 DEF Progress, NotBegun, Fresh, clones
<1>4. CASE ~SubmitBaselines
  <2>1. run'[b] = run[b]
    BY <1>4
    DEF ReconcileStep, Skip, Start, StartFails, TargetNotFound, Prepare, Survey,
        StillRecording, NothingToCheck, StartBaseline, BaselineRecorded,
        BaselineTooLate, CreateWorkloadChecks, AnnounceChecks, ListWorkloadChecks,
        ChecksInProgress, Recommend, SubmitFinal, NoRunSteps, runVars, IInv, TypeOK, Baseline, Run
  <2>2. NotBegun' <=> NotBegun
    <3>1. CASE StartBaseline
      <4>1. NotBegun
        BY <3>1 DEF StartBaseline, SInv, BaselinesOnce, NotBegun
      <4>2. NotBegun'
        BY <3>1 DEF StartBaseline, SetStatus, Goto, NotBegun
      <4>3. QED
        BY <4>1, <4>2
    <3>2. CASE BaselineRecorded
      <4>1. pc = "baselineRecorded" /\ status.baseline # "none"
        BY <3>2 DEF BaselineRecorded, SInv, BaselinesOnce
      <4>2. pc' = "createChecks" /\ status'.baseline = "recorded"
        BY <1>1, <3>2 DEF BaselineRecorded, SetStatus, Goto, Status
      <4>3. QED
        BY <4>1, <4>2 DEF NotBegun
    <3>3. CASE ~StartBaseline /\ ~BaselineRecorded
      <4>1. pc # "submitBaselines" /\ pc' # "submitBaselines"
        BY <1>4, <3>3
        DEF ReconcileStep, Skip, Start, StartFails, TargetNotFound, Prepare, Survey,
            StillRecording, NothingToCheck, BaselineTooLate, CreateWorkloadChecks,
            AnnounceChecks, ListWorkloadChecks, ChecksInProgress, Recommend, SubmitFinal,
            SetStatus, Goto, Done, Requeue, Leave, AfterSurvey
      <4>2. \/ status' = status \/ status' = Working(status)
            \/ \E f \in {"noTarget", "empty", "failed"} :
                 status' = [status EXCEPT !.finished = f]
            \/ status' = [Working(status) EXCEPT !.recs = collected]
        BY <1>4, <3>3
        DEF ReconcileStep, Skip, Start, StartFails, TargetNotFound, Prepare, Survey,
            StillRecording, NothingToCheck, BaselineTooLate, CreateWorkloadChecks,
            AnnounceChecks, ListWorkloadChecks, ChecksInProgress, Recommend, SubmitFinal,
            SetStatus, LastSetStatus
      <4>3. status'.baseline = status.baseline
        BY <1>1, <4>2 DEF Status, Working
      <4>4. QED
        BY <4>1, <4>3 DEF NotBegun
    <3>4. QED
      BY <3>1, <3>2, <3>3
  <2>3. QED
    BY <1>2, <2>1, <2>2, ProgressStays DEF clones
<1>5. QED
  BY <1>3, <1>4

LEMMA BaselinesProgress ==
  ASSUME IInv, seen' = {}, [Next]_vars, NEW b \in Baseline, Progress(b),
         NEW c \in Baseline, BaselineStep(c)
  PROVE  Progress(b)'
<1>1. TypeOK /\ b \in Run /\ c \in Run
  BY DEF IInv, Run
<1>2. /\ ~\E kind : Fault(kind) /\ "hollow" \notin seen'
      /\ NotBegun' <=> NotBegun
  BY NothingFails
  DEF BaselineStep, CloneForBaseline, BaselineReturns, RecorderReturns, Collect, NoReconcile,
      reconcilerVars, NotBegun
<1>3. CASE b # c
  <2>1. /\ \E label : run' = run \/ run' = [run EXCEPT ![c] = label]
        /\ \E label : ns' = ns \/ ns' = [ns EXCEPT ![c] = label]
        /\ bound' \in {bound, bound \cup {c}, bound \ {c}}
        /\ \E x : result' = result \/ result' = [result EXCEPT ![c] = x]
        /\ recordings \subseteq recordings'
    <3>1. CASE CloneForBaseline(c)
      BY <3>1 DEF CloneForBaseline, CloneTo, Move, clones
    <3>2. CASE BaselineReturns(c)
      BY <3>2 DEF BaselineReturns, Move, clones, DeleteAll, DeleteHalf
    <3>3. CASE \E w \in Workload : RecorderReturns(c, w) \/ Collect(c, w)
      BY <3>3 DEF RecorderReturns, Collect, clones
    <3>4. QED
      BY <3>1, <3>2, <3>3 DEF BaselineStep
  <2>2. run'[b] = run[b] /\ ns'[b] = ns[b] /\ (b \in bound' <=> b \in bound)
        /\ result'[b] = result[b]
    BY <1>1, <1>3, <2>1 DEF TypeOK
  <2>3. QED
    BY <1>2, <2>1, <2>2, ProgressStays
<1>4. CASE b = c
  <2>1. /\ ~NotBegun
        /\ \/ run[b] = "submitted" /\ Fresh(b)
           \/ run[b] = "record" /\ Recording(b)
    BY <1>4 DEF BaselineStep, CloneForBaseline, BaselineReturns, RecorderReturns, Collect, Progress
  <2>2. CASE CloneForBaseline(b)
    <3>1. /\ run' = [run EXCEPT ![b] = "record"] /\ ns' = [ns EXCEPT ![b] = "active"]
          /\ UNCHANGED <<result, recordings>> /\ Fresh(b)
      BY <1>2, <2>1, <2>2 DEF CloneForBaseline, CloneTo, Move, Fresh
    <3>2. run'[b] = "record" /\ Recording(b)'
      BY <1>1, <3>1 DEF TypeOK, Fresh, Recording
    <3>3. QED
      BY <1>2, <2>1, <3>2 DEF Progress
  <2>3. CASE BaselineReturns(b)
    <3>1. /\ run'[b] = "none" /\ UNCHANGED recordings /\ Recording(b)
          /\ \A w \in Workload : result[b][w] = "taken"
      BY <1>1, <2>1, <2>3 DEF BaselineReturns, Move, TypeOK
    <3>2. AllStored(b)'
      BY <3>1 DEF Recording, AllStored
    <3>3. QED
      BY <1>2, <2>1, <3>1, <3>2 DEF Progress
  <2>4. ASSUME NEW w \in Workload, RecorderReturns(b, w) PROVE Progress(b)'
    <3>1. /\ run'[b] = "record" /\ UNCHANGED <<ns, recordings>> /\ Recording(b)
          /\ result' = [result EXCEPT ![b][w] = "ok"]
      BY <1>2, <2>1, <2>4 DEF RecorderReturns, Recording, clones
    <3>2. Recording(b)'
      BY <1>1, <3>1 DEF Recording, TypeOK
    <3>3. QED
      BY <1>2, <2>1, <3>1, <3>2 DEF Progress
  <2>5. ASSUME NEW w \in Workload, Collect(b, w) PROVE Progress(b)'
    <3>1. /\ run'[b] = "record" /\ UNCHANGED ns /\ Recording(b)
          /\ result' = [result EXCEPT ![b][w] = "taken"]
          /\ recordings' = recordings \cup {<<b, w>>}
      BY <1>2, <2>1, <2>5 DEF Collect, Recording, clones
    <3>2. Recording(b)'
      BY <1>1, <3>1 DEF Recording, TypeOK
    <3>3. QED
      BY <1>2, <2>1, <3>1, <3>2 DEF Progress
  <2>6. QED
    BY <1>4, <2>2, <2>3, <2>4, <2>5 DEF BaselineStep
<1>5. QED
  BY <1>3, <1>4

\* The final run works in a namespace of its own.
LEMMA FinalLeavesBaselines ==
  ASSUME IInv, FinalStep, NEW b \in Baseline, Progress(b)
  PROVE  Progress(b)'
<1>1. /\ \E label : run' = [run EXCEPT !["final"] = label]
      /\ \E label : ns' = ns \/ ns' = [ns EXCEPT !["final"] = label]
      /\ bound' \in {bound, bound \cup {"final"}, bound \ {"final"}}
      /\ UNCHANGED <<result, recordings, pc>>
      /\ status' = status \/ \E f : status' = [status EXCEPT !.finished = f]
  <2>1. CASE CloneForFinal
    BY <2>1 DEF CloneForFinal, CloneTo, Move, clones, NoReconcile, reconcilerVars
  <2>2. CASE DeleteFinal
    BY <2>2 DEF DeleteFinal, DeleteAll, DeleteHalf, Move, clones, NoReconcile, reconcilerVars
  <2>3. CASE ApplyRecommendations \/ AwaitReadiness \/ ReportFinal \/ FinalReturns
    BY <2>3 DEF ApplyRecommendations, AwaitReadiness, ReportFinal, FinalReturns, Move, clones,
                NoReconcile, reconcilerVars
  <2>4. QED
    BY <2>1, <2>2, <2>3 DEF FinalStep
<1>2. TypeOK /\ status \in Status /\ b # "final" /\ b \in Run
  BY DEF IInv, TypeOK, Baseline, Run
<1>3. run'[b] = run[b] /\ ns'[b] = ns[b] /\ (b \in bound' <=> b \in bound)
  BY <1>1, <1>2 DEF TypeOK
<1>4. status'.baseline = status.baseline
  BY <1>1, <1>2 DEF Status
<1>5. QED
  BY <1>1, <1>3, <1>4, ProgressStays DEF NotBegun

LEMMA OthersLeaveBaselines ==
  ASSUME IInv, seen' = {}, [Next]_vars, NEW b \in Baseline, Progress(b),
         \/ \E c \in Check : CacheCatchesUp(c) \/ CheckFinishes(c)
         \/ \E r \in Run : NamespaceGone(r)
         \/ StuckBaselineOverdue \/ SlowBaselineOverdue \/ Restart \/ UNCHANGED vars
  PROVE  Progress(b)'
<1>1. ~Restart
  BY NothingFails DEF Restart
<1>2. UNCHANGED <<run, bound, result, recordings, pc>>
  BY <1>1
  DEF CacheCatchesUp, CheckFinishes, NamespaceGone, StuckBaselineOverdue, SlowBaselineOverdue, TimePasses,
      NoRunSteps, NoReconcile, runVars, clones, reconcilerVars, vars
<1>3. ns'[b] = ns[b]
  <2>1. ASSUME NEW r \in Run, NamespaceGone(r) PROVE ns'[b] = ns[b]
    <3>1. b # r
      BY <2>1 DEF NamespaceGone, Progress, Fresh
    <3>2. QED
      BY <2>1, <3>1 DEF NamespaceGone, IInv, TypeOK, Run
  <2>2. QED
    BY <1>1, <2>1
    DEF CacheCatchesUp, CheckFinishes, StuckBaselineOverdue, SlowBaselineOverdue, TimePasses, NoRunSteps, clones,
        vars
<1>4. status'.baseline = "none" <=> status.baseline = "none"
  BY <1>1
  DEF CacheCatchesUp, CheckFinishes, NamespaceGone, StuckBaselineOverdue, SlowBaselineOverdue, TimePasses, vars,
      IInv, TypeOK, Status
<1>5. QED
  BY <1>2, <1>3, <1>4, ProgressStays DEF NotBegun

LEMMA ProgressInvariant == Spec => []ProgressInv
<1>1. Init => ProgressInv
  BY DEF Init, InitStatus, ProgressInv, Progress, NotBegun, Fresh, NoResults, Run
<1>2. IInv /\ CleanInv /\ ProgressInv /\ [Next]_vars => ProgressInv'
  <2> SUFFICES ASSUME IInv, CleanInv, ProgressInv, [Next]_vars, seen' = {}, NEW b \in Baseline
               PROVE  Progress(b)'
    BY DEF ProgressInv
  <2>1. SInv /\ Progress(b)
    BY NothingFails DEF CleanInv, ProgressInv
  <2>2. QED
    BY <2>1, InvocationsProgress, BaselinesProgress, FinalLeavesBaselines, OthersLeaveBaselines
    DEF Next
<1>3. QED
  BY <1>1, <1>2, CleanInvariant, PTL DEF Spec

\* When nothing fails and no list of checks misses one that was just created, no workload
\* is left without a check, and none of them without an end: that "executor not running"
\* is taken for "recorded" does no harm then (Reconcile).
THEOREM SuccessCoversAll == Spec => []SuccessCoversWorkloads
<1>1. IInv /\ CleanInv /\ ProgressInv => SuccessCoversWorkloads
  <2> SUFFICES ASSUME IInv, CleanInv, ProgressInv, status.finished = "success", seen = {},
                      NEW w \in Workload
               PROVE  check[w] \in {"recommended", "failed"}
    BY DEF SuccessCoversWorkloads
  <2>1. SInv
    BY DEF CleanInv, NoWorkloadLeftOut
  <2>2. Complete /\ AllEnded /\ ~NotBegun
    BY <2>1 DEF SInv, UnderwayIsReady, Underway, Ready, Complete, BaselinesOnce, NotBegun
  <2>3. \A b \in Baseline : AllStored(b)
    BY <2>2 DEF Complete, NoBaselineRunning, IsRunning, ProgressInv, Progress
  <2>4. check[w] \notin {"absent", "created", "running"}
    BY <2>2, <2>3 DEF Complete, Admitted, AllStored, AllEnded, Check
  <2>5. QED
    BY <2>4 DEF IInv, TypeOK, Check
<1>2. QED
  BY <1>1, Invariant, CleanInvariant, ProgressInvariant, PTL
-----------------------------------------------------------------------------
(* What was tested, whatever lists of checks miss and whatever fails, but  *)
(* for writes.  What a final run was given, applied or reported is there   *)
(* for workloads only for which something is stored, and since all of it   *)
(* was reported by checks of these workloads, it is the same if there is   *)
(* one recommendation to take.                                             *)

Covers(recs, part) == \A w \in Workload : part[w] # NoCheck => recs[w] # NoCheck

FinalIsReported == Reported(final.recs) /\ Reported(final.applied) /\ Reported(tested)
StoredCovers ==
  /\ pc = "submitFinal" => view.recs = status.recs
  /\ pc = "recommend" => Covers(collected, status.recs)
  /\ IsRunning("final") => Covers(status.recs, final.recs) /\ Covers(status.recs, final.applied)
  /\ Covers(status.recs, tested)
TestedInv == FinalIsReported /\ ("write" \notin seen => StoredCovers)

\* What is recommended once is recommended for ever.
LEMMA RecommendedStays ==
  ASSUME IInv, [Next]_vars
  PROVE  \A w \in Workload : RecommendedFor(w) \subseteq RecommendedFor(w)'
<1>1. check \in CheckType
  BY DEF IInv, TypeOK, CheckType
<1>2. \/ UNCHANGED check
      \/ CreateWorkloadChecks
      \/ \E c \in Check : CacheCatchesUp(c) \/ CheckFinishes(c)
      \/ Restart
  BY DEF Next, ReconcileStep, Skip, Start, StartFails, TargetNotFound, Prepare, Survey,
         StillRecording, NothingToCheck, StartBaseline, SubmitBaselines, BaselineRecorded,
         BaselineTooLate, AnnounceChecks, ListWorkloadChecks, ChecksInProgress, Recommend,
         SubmitFinal, BaselineStep, CloneForBaseline, BaselineReturns, RecorderReturns, Collect,
         FinalStep, CloneForFinal, ApplyRecommendations, AwaitReadiness, DeleteFinal,
         ReportFinal, FinalReturns, NamespaceGone, StuckBaselineOverdue, SlowBaselineOverdue,
         TimePasses, vars
<1>3. \A c \in Check : check[c] = "recommended" => check'[c] = "recommended"
  <2>1. CASE CreateWorkloadChecks
    <3>1. PICK made \in SUBSET ToCreate : check' = WithChecks(made)
      BY <2>1 DEF CreateWorkloadChecks
    <3>2. QED
      BY <3>1 DEF WithChecks, ToCreate
  <2>2. CASE \E c \in Check : CacheCatchesUp(c) \/ CheckFinishes(c)
    BY <1>1, <2>2 DEF CacheCatchesUp, CheckFinishes, CheckType
  <2>3. CASE Restart
    BY <2>3 DEF Restart
  <2>4. QED
    BY <1>2, <2>1, <2>2, <2>3
<1>4. QED
  BY <1>3 DEF RecommendedFor

\* What a step may do to the final run and to what is known of its result.
LEMMA FinalEffects ==
  ASSUME IInv, [Next]_vars
  PROVE  /\ \/ final'.recs = final.recs /\ (IsRunning("final")' => IsRunning("final"))
            \/ final'.recs = NoRecs /\ ~IsRunning("final")'
            \/ pc = "submitFinal" /\ final'.recs = view.recs
         /\ \/ /\ \A w \in Workload :
                    final'.applied[w] \in {NoCheck, final.applied[w], final.recs[w]}
               /\ IsRunning("final")' => IsRunning("final")
            \/ final'.applied = NoRecs
         /\ \/ tested' = tested
            \/ tested' = final.applied /\ IsRunning("final")
<1>1. TypeOK /\ final \in FinalType /\ "final" \in Run
  BY DEF IInv, TypeOK, FinalType, Run
<1>2. NoFinal.recs = NoRecs /\ NoFinal.applied = NoRecs
  BY DEF NoFinal
<1>3. CASE UNCHANGED <<final, tested>> /\ run'["final"] = run["final"]
  BY <1>3 DEF IsRunning
<1>4. CASE ReconcileStep
  <2>1. CASE SubmitFinal
    <3>1. \/ UNCHANGED <<run, final>>
          \/ final' = [NoFinal EXCEPT !.recs = view.recs]
      BY <2>1 DEF SubmitFinal
    <3>2. pc = "submitFinal" /\ tested' = tested
      BY <2>1 DEF SubmitFinal
    <3>3. QED
      BY <3>1, <3>2 DEF NoFinal, IsRunning
  <2>2. CASE ~SubmitFinal
    <3>1. UNCHANGED <<final, tested>>
      BY <1>4, <2>2
      DEF ReconcileStep, Skip, Start, StartFails, TargetNotFound, Prepare, Survey,
          StillRecording, NothingToCheck, StartBaseline, SubmitBaselines, BaselineRecorded,
          BaselineTooLate, CreateWorkloadChecks, AnnounceChecks, ListWorkloadChecks,
          ChecksInProgress, Recommend, NoRunSteps, runVars
    <3>2. run'["final"] = run["final"]
      <4>1. CASE SubmitBaselines
        BY <1>1, <4>1 DEF SubmitBaselines, Baseline
      <4>2. CASE ~SubmitBaselines
        BY <1>4, <2>2, <4>2
        DEF ReconcileStep, Skip, Start, StartFails, TargetNotFound, Prepare, Survey,
            StillRecording, NothingToCheck, StartBaseline, BaselineRecorded,
            BaselineTooLate, CreateWorkloadChecks, AnnounceChecks, ListWorkloadChecks,
            ChecksInProgress, Recommend, NoRunSteps, runVars
      <4>3. QED
        BY <4>1, <4>2
    <3>3. QED
      BY <1>3, <3>1, <3>2
  <2>3. QED
    BY <2>1, <2>2
<1>5. ASSUME NEW b \in Baseline, BaselineStep(b)
      PROVE  UNCHANGED <<final, tested>> /\ run'["final"] = run["final"]
  <2>1. /\ UNCHANGED <<final, tested>>
        /\ run' \in {run, [run EXCEPT ![b] = "record"], [run EXCEPT ![b] = "none"]}
    BY <1>5 DEF BaselineStep, CloneForBaseline, CloneTo, BaselineReturns, RecorderReturns,
                Collect, NoReconcile, Move
  <2>2. QED
    BY <1>1, <2>1 DEF Baseline, TypeOK
<1>6. CASE FinalStep
  <2>1. IsRunning("final")
    BY <1>6 DEF FinalStep, CloneForFinal, ApplyRecommendations, AwaitReadiness, DeleteFinal,
                ReportFinal, FinalReturns, IsRunning
  <2>2. tested' = tested \/ tested' = final.applied
    BY <1>6 DEF FinalStep, CloneForFinal, ApplyRecommendations, AwaitReadiness, DeleteFinal,
                ReportFinal, FinalReturns, NoReconcile
  <2>3. CASE FinalReturns
    <3>1. final' = NoFinal /\ run'["final"] = "none"
      BY <1>1, <2>3 DEF FinalReturns, Move, TypeOK
    <3>2. QED
      BY <1>2, <2>1, <2>2, <3>1 DEF IsRunning
  <2>4. CASE ApplyRecommendations
    <3>1. /\ final'.recs = final.recs
          /\ \A w \in Workload : final'.applied[w] \in {NoCheck, final.applied[w], final.recs[w]}
      <4>1. CASE final' = final
        BY <4>1
      <4>2. ASSUME NEW found,
                   final' = [final EXCEPT
                      !.applied = [w \in Workload |->
                                     IF w \in found THEN final.recs[w] ELSE NoCheck],
                      !.verdict = "success"]
            PROVE  <3>1
        BY <1>1, <4>2 DEF FinalType
      <4>3. QED
        BY <2>4, <4>1, <4>2 DEF ApplyRecommendations
    <3>2. QED
      BY <2>1, <2>2, <3>1
  <2>5. CASE CloneForFinal \/ AwaitReadiness \/ DeleteFinal \/ ReportFinal
    <3>1. final'.recs = final.recs /\ final'.applied = final.applied
      BY <1>1, <2>5 DEF CloneForFinal, AwaitReadiness, DeleteFinal, ReportFinal, FinalType
    <3>2. QED
      BY <2>1, <2>2, <3>1
  <2>6. QED
    BY <1>6, <2>3, <2>4, <2>5 DEF FinalStep
<1>7. CASE Restart
  BY <1>2, <1>7 DEF Restart, IsRunning, Run
<1>8. CASE \/ \E c \in Check : CacheCatchesUp(c) \/ CheckFinishes(c)
           \/ \E r \in Run : NamespaceGone(r)
           \/ StuckBaselineOverdue \/ SlowBaselineOverdue \/ UNCHANGED vars
  BY <1>3, <1>8
  DEF CacheCatchesUp, CheckFinishes, NamespaceGone, StuckBaselineOverdue, SlowBaselineOverdue,
      TimePasses, NoRunSteps, NoReconcile, runVars, vars
<1>9. QED
  BY <1>3, <1>4, <1>5, <1>6, <1>7, <1>8 DEF Next

\* Only Recommend changes what is stored, to what was collected before.
LEMMA StoredEffects ==
  ASSUME IInv, "write" \notin seen', [Next]_vars
  PROVE  /\ \/ status'.recs = status.recs
            \/ pc = "recommend" /\ status'.recs = collected
         /\ \/ pc' # "submitFinal" \/ view'.recs = status'.recs
            \/ pc' = pc /\ view' = view /\ status'.recs = status.recs
         /\ \/ pc' # "recommend"
            \/ status'.recs = status.recs /\ pc' = pc /\ collected' = collected
            \/ status' = status /\ Collects(collected')
<1>1. status \in Status /\ ~Fault("write")
  BY DEF IInv, TypeOK, Fault
<1>2. CASE ReconcileStep
  <2>1. CASE Recommend
    <3>1. /\ pc = "recommend" /\ pc' = "submitFinal"
          /\ status' = [Working(status) EXCEPT !.recs = collected] /\ view' = Copy(status')
      BY <1>1, <2>1 DEF Recommend, SetStatus, Goto
    <3>2. status'.recs = collected /\ view'.recs = status'.recs
      BY <1>1, <3>1, StatusFields DEF Copy
    <3>3. QED
      BY <3>1, <3>2
  <2>2. CASE ListWorkloadChecks
    BY <2>2 DEF ListWorkloadChecks, Goto, Requeue, Leave
  <2>3. CASE ~Recommend /\ ~ListWorkloadChecks
    <3>1. pc' \notin {"submitFinal", "recommend"}
      BY <1>2, <2>3
      DEF ReconcileStep, Skip, Start, StartFails, TargetNotFound, Prepare, Survey,
          StillRecording, NothingToCheck, StartBaseline, SubmitBaselines, BaselineRecorded,
          BaselineTooLate, CreateWorkloadChecks, AnnounceChecks, ChecksInProgress, SubmitFinal,
          SetStatus, Goto, Done, Requeue, Leave, AfterSurvey
    <3>2. \/ status' = status \/ status' = Working(status)
          \/ \E f : status' = [status EXCEPT !.finished = f]
          \/ \E b : status' = [status EXCEPT !.baseline = b]
      BY <1>2, <2>3
      DEF ReconcileStep, Skip, Start, StartFails, TargetNotFound, Prepare, Survey,
          StillRecording, NothingToCheck, StartBaseline, SubmitBaselines, BaselineRecorded,
          BaselineTooLate, CreateWorkloadChecks, AnnounceChecks, ChecksInProgress, SubmitFinal,
          SetStatus, LastSetStatus
    <3>3. status'.recs = status.recs
      BY <1>1, <3>2 DEF Status, Working
    <3>4. QED
      BY <3>1, <3>3
  <2>4. QED
    BY <2>1, <2>2, <2>3
<1>3. CASE Restart
  BY <1>3 DEF Restart, Requeue, Leave
<1>4. CASE ~ReconcileStep /\ ~Restart
  <2>1. UNCHANGED reconcilerVars
    BY <1>4
    DEF Next, BaselineStep, CloneForBaseline, BaselineReturns, RecorderReturns, Collect,
        FinalStep, CloneForFinal, ApplyRecommendations, AwaitReadiness, DeleteFinal,
        ReportFinal, FinalReturns, CacheCatchesUp, CheckFinishes, NamespaceGone,
        StuckBaselineOverdue, SlowBaselineOverdue, TimePasses, NoReconcile, vars
  <2>2. \/ status' = status
        \/ \E f : status' = [status EXCEPT !.finished = f]
        \/ \E b : status' = [status EXCEPT !.baseline = b]
    BY <1>4
    DEF Next, BaselineStep, CloneForBaseline, BaselineReturns, RecorderReturns, Collect,
        FinalStep, CloneForFinal, ApplyRecommendations, AwaitReadiness, DeleteFinal,
        ReportFinal, FinalReturns, CacheCatchesUp, CheckFinishes, NamespaceGone,
        StuckBaselineOverdue, SlowBaselineOverdue, TimePasses, vars
  <2>3. status'.recs = status.recs
    BY <1>1, <2>2 DEF Status
  <2>4. QED
    BY <2>1, <2>3 DEF reconcilerVars
<1>5. QED
  BY <1>2, <1>3, <1>4

\* A list of checks brings all that an earlier one brought.
LEMMA CollectedCovers ==
  ASSUME IInv, NEW recs, Collects(recs)
  PROVE  Covers(recs, status.recs)
BY NamespaceAssumption DEF IInv, RecsAreReported, Reported, Collects, Covers, RecommendedFor

LEMMA TestedInvariant == Spec => [](IInv /\ TestedInv)
<1>1. Init => TestedInv
  BY DEF Init, InitStatus, NoFinal, NoRecs, TestedInv, FinalIsReported, Reported, StoredCovers,
         Covers, IsRunning, Run
<1>2. IInv /\ TestedInv /\ [Next]_vars => TestedInv'
  <2> SUFFICES ASSUME IInv, TestedInv, [Next]_vars PROVE TestedInv'
    OBVIOUS
  <2>1. FinalIsReported'
    <3>1. \A w \in Workload : RecommendedFor(w) \subseteq RecommendedFor(w)'
      BY RecommendedStays
    <3>2. /\ \A w \in Workload : final'.recs[w] \in {NoCheck, final.recs[w], view.recs[w]}
          /\ \A w \in Workload : final'.applied[w] \in {NoCheck, final.applied[w], final.recs[w]}
          /\ tested' \in {tested, final.applied}
      BY FinalEffects DEF NoRecs
    <3>3. Reported(view.recs) /\ FinalIsReported
      BY DEF IInv, RecsAreReported, TestedInv
    <3>4. QED
      BY <3>1, <3>2, <3>3 DEF FinalIsReported, Reported
  <2>2. ASSUME "write" \notin seen' PROVE StoredCovers'
    <3>1. StoredCovers
      BY <2>2, SeenGrows DEF TestedInv
    <3>2. Covers(status'.recs, status.recs)
      BY <2>2, <3>1, StoredEffects DEF StoredCovers, Covers
    <3>3. pc' = "submitFinal" => view'.recs = status'.recs
      BY <2>2, <3>1, StoredEffects DEF StoredCovers
    <3>4. pc' = "recommend" => Covers(collected', status'.recs)
      BY <2>2, <3>1, StoredEffects, CollectedCovers DEF StoredCovers
    <3>5. IsRunning("final")' => Covers(status.recs, final'.recs) /\ Covers(status.recs, final'.applied)
      BY <3>1, FinalEffects DEF StoredCovers, Covers, NoRecs
    <3>6. Covers(status.recs, tested')
      BY <3>1, FinalEffects DEF StoredCovers
    <3>7. QED
      BY <3>2, <3>3, <3>4, <3>5, <3>6 DEF StoredCovers, Covers
  <2>3. QED
    BY <2>1, <2>2 DEF TestedInv
<1>3. QED
  BY <1>1, <1>2, InitInvariant, NextInvariant, PTL DEF Spec

\* What a final run reported to have tested is what is stored, in any state and also
\* when lists miss checks, workloads are left out and clones are hollow, if there is
\* one recommendation to take and no write was lost (Reconcile, createFinalCheckRun).
THEOREM TestedRemainsStored == Spec => []TestedIsStored
<1>1. IInv /\ TestedInv => TestedIsStored
  BY DEF IInv, RecsAreReported, Reported, TestedInv, FinalIsReported, StoredCovers, Covers,
         TestedIsStored, Unambiguous
<1>2. QED
  BY <1>1, TestedInvariant, PTL
=============================================================================
