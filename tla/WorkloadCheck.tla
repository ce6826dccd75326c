--------------------------- MODULE WorkloadCheck ----------------------------
(***************************************************************************)
(* internal/controller/workload: the reconciler of one                     *)
(* WorkloadHardeningCheck, and internal/workload, its check manager,       *)
(* composed with the runs they submit (CheckRunner), the passing of time,  *)
(* the cluster, and restarts of the operator.                              *)
(*                                                                         *)
(* Reconcile reads the object once.  What it compares against later is     *)
(* that first snapshot (`snap`, the variable workloadHardening) or the     *)
(* copy of the check manager (`view`), which is brought up to date by each *)
(* write the manager makes.  Meanwhile the runs write to the stored        *)
(* status.  Invocations for one object are never concurrent.               *)
(*                                                                         *)
(* An invocation is cut where it writes the status, reads it again or      *)
(* submits runs; what it decides in between from its copies is part of the *)
(* next such step.  The condition Finished is False while it works; the    *)
(* writes that only change that condition's reason appear as the refresh   *)
(* of the copy that they also are.                                         *)
(***************************************************************************)
EXTENDS CheckRunner

CONSTANT Parallel              \* spec.runMode = parallel

ASSUME WorkloadAssumption == Parallel \in BOOLEAN

VARIABLES pc,                  \* where Reconcile is
          snap,                \* what it looks at in its first snapshot
          view,                \* the check manager's copy
          analyzed,            \* updatedCheckRuns of the analysis
          queued,              \* whether the object will be reconciled again
          accepted             \* history: the checks an analysis accepted

reconcilerVars == <<pc, snap, view, analyzed, queued>>
vars == <<status, faults, runnerVars, reconcilerVars, accepted>>

ReconcilerPC == {"idle", "finish", "removeConditions", "fillConditions", "analysis",
                 "analyze", "storeAnalysis", "analysisFailed", "finishFailed",
                 "recommend", "announceResult", "submitFinal", "finalOverdue",
                 "baselineOverdue", "giveBaseline", "baselineRuns", "recordBaseline",
                 "baselineFailed", "recordChecks", "checkLoop"}

Snapshot(s) == [analyzed |-> s.analysis = "done",
                unknown |-> {t \in CondType : IsUnknown(s, t)},
                baselineFailed |-> "bad" \in s.baselineRuns]
Copy(s) == [cond |-> s.cond, rec |-> s.rec]

TypeOK == /\ status \in Status
          /\ faults \in 0..MaxFaults
          /\ RunnerTypeOK
          /\ pc \in ReconcilerPC
          /\ snap \in [analyzed : BOOLEAN, unknown : SUBSET CondType,
                       baselineFailed : BOOLEAN]
          /\ view \in [cond : [CondType -> CondVal], rec : Recommendation]
          /\ analyzed \in [Check -> Outcome]
          /\ queued \in BOOLEAN
          /\ accepted \in SUBSET Check

Init == /\ status = InitStatus
        /\ faults = 0
        /\ RunnerInit
        /\ pc = "idle"
        /\ snap = Snapshot(InitStatus)
        /\ view = Copy(InitStatus)
        /\ analyzed = NoChecks
        /\ queued = TRUE
        /\ accepted = {}

-----------------------------------------------------------------------------
(* What Reconcile decides from a copy v of the status and its snapshot n,  *)
(* in the order of its code: the next step that has an effect, "requeue"   *)
(* where it returns to be called again, "done" where it just returns.      *)

Unrecorded(v) == {c \in Check : ~IsRecorded(v, c)}
Missing(v) == {c \in Check : v.cond[c] = "none"}

\* Mutant: the final run is not waited for.
FinishableUntested(v) == RecommendationExists(v)

Finishable(v) == RecommendationExists(v) /\ IsRecorded(v, "FinalCheck")

\* Lines 278-304: record the baselines, give up without them, record the checks.
AfterBaseline(v, n) ==
  IF ~IsRecorded(v, "Baseline") THEN "recordBaseline"
  ELSE IF n.baselineFailed THEN "baselineFailed"
  ELSE IF Unrecorded(v) # {} THEN "recordChecks" ELSE "done"

\* Lines 250-276: wait for the baselines, or take the given ones.
AfterFinal(v, n) ==
  IF IsOverdue(v, "Baseline") THEN "baselineOverdue"
  ELSE IF IsInProgress(v, "Baseline") THEN "requeue"
  ELSE IF BaselineGiven /\ ~IsRecorded(v, "Baseline") THEN "giveBaseline"
  ELSE AfterBaseline(v, n)

\* Lines 186-247: a final run is due, or one failed or was overdue, which an
\* Unknown condition of the first snapshot tells.
Decide(v, n) ==
  IF "FinalCheck" \in n.unknown THEN "submitFinal"
  ELSE IF IsOverdue(v, "FinalCheck") THEN "finalOverdue"
  ELSE IF IsInProgress(v, "FinalCheck") THEN "requeue"
  ELSE IF RecommendationExists(v) /\ ~IsRecorded(v, "FinalCheck") THEN "submitFinal"
  ELSE AfterFinal(v, n)

\* Lines 111-130; GetRequiredCheckRuns gives new checks a condition first.
Enter(v, n) ==
  IF Finishable(v) THEN "finish"
  ELSE IF IsRecorded(v, "Baseline") /\ Missing(v) # {} THEN "fillConditions"
  ELSE IF IsRecorded(v, "Baseline") /\ Unrecorded(v) = {} /\ ~n.analyzed THEN "analysis"
  ELSE Decide(v, n)

-----------------------------------------------------------------------------
(* How an invocation goes on, and how it ends: with a result that          *)
(* schedules another one (after a while, or because of an error), or with  *)
(* one that does not.                                                      *)

Leave == /\ pc' = "idle"
         /\ snap' = Snapshot(InitStatus)
         /\ view' = Copy(InitStatus)
         /\ analyzed' = NoChecks
Requeue == Leave /\ queued' = TRUE
Done == Leave /\ queued' = FALSE

\* The steps after which Reconcile returns without another look at its copy.
LastLook == {"finish", "finalOverdue", "recordBaseline", "baselineOverdue", "baselineFailed"}

Target(next, v, n) == IF next = "decide" THEN Decide(v, n)
                      ELSE IF next = "afterBaseline" THEN AfterBaseline(v, n)
                      ELSE next

Proceed(next, v, n) ==
  LET target == Target(next, v, n)
  IN \/ target = "requeue" /\ Requeue
     \/ target = "done" /\ Done
     \/ /\ target \in ReconcilerPC
        /\ pc' = target
        /\ view' = IF target \in LastLook THEN Copy(InitStatus) ELSE v
        /\ snap' = n
        /\ UNCHANGED <<queued, analyzed>>

\* A write of s whose error is dropped: the copy becomes the stored status with
\* the change; when the write fails, it is what it was, or what was to be written.
WriteOr(s, ok, failed) ==
  \/ status' = s /\ NoFault /\ Proceed(ok, Copy(s), snap)
  \/ /\ UNCHANGED status
     /\ Fault("write")
     /\ \E v \in {view, Copy(s)} : Proceed(failed, v, snap)
WriteThen(s, next) == WriteOr(s, next, next)

Keeps == UNCHANGED <<ns, recordings, accepted>>
NoSubmit == UNCHANGED runner /\ Keeps

-----------------------------------------------------------------------------
(* Reconcile.                                                              *)

\* A check that is finished is skipped and not scheduled again.
Skip ==
  /\ pc = "idle" /\ queued
  /\ status.finished # "no"
  /\ Done
  /\ UNCHANGED <<status, faults>> /\ NoSubmit

\* An invocation that returns without any effect is not a step. When the
\* workload cannot be read no check is required, and all of none are finished.
Fetch ==
  /\ pc = "idle" /\ queued
  /\ status.finished = "no"
  /\ LET v == Copy(status)
         n == Snapshot(status)
     IN \/ Enter(v, n) # "requeue" /\ Proceed(Enter(v, n), v, n) /\ NoFault
        \/ /\ ~Finishable(v) /\ IsRecorded(v, "Baseline") /\ ~n.analyzed
           /\ Fault("fetch")
           /\ Proceed("analysis", v, n)
  /\ UNCHANGED status /\ NoSubmit

FinishRecommended ==
  /\ pc = "finish"
  /\ \/ /\ status' = [status EXCEPT !.finished = "recommended"]
        /\ NoFault
        /\ Proceed("removeConditions", view, snap)
     \/ UNCHANGED status /\ Fault("write") /\ Requeue
  /\ NoSubmit

RemoveCheckConditions ==
  /\ pc = "removeConditions"
  /\ \/ status' = [status EXCEPT !.cond = NoConditions] /\ NoFault /\ Done
     \/ UNCHANGED status /\ Fault("write") /\ Requeue
  /\ NoSubmit

WithMissing(s) ==
  [s EXCEPT !.cond = [t \in CondType |->
     IF t \in Missing(view) THEN "unknown" ELSE s.cond[t]]]

FillConditions ==
  /\ pc = "fillConditions"
  /\ WriteThen(WithMissing(status), "decide")
  /\ NoSubmit

AnnounceAnalysis ==
  /\ pc = "analysis"
  /\ WriteThen([status EXCEPT !.analysis = "running"], "analyze")
  /\ NoSubmit

\* AnalyzeCheckRuns reads the status and the recordings again. Without one of
\* the baselines, or the recording of a check run, it fails. `good` are the
\* checks whose logs the oracle finds no anomaly in.
OneBaselineStored == BaselineGiven \/ Baseline \cap recordings # {}
BaselinesStored == BaselineGiven \/ Baseline \subseteq recordings
WithRun(s) == {c \in Check : s.checkRuns[c] # "none"}
Recorded(runs) == {c \in Check : runs[c] # "none"}
Successful(runs) == {c \in Check : runs[c] = "ok"}
Verdicts(good) ==
  [c \in Check |-> IF status.checkRuns[c] = "ok" /\ c \notin good
                   THEN "bad" ELSE status.checkRuns[c]]

Analyze ==
  /\ pc = "analyze"
  /\ BaselinesStored
  /\ WithRun(status) \subseteq recordings
  /\ \E good \in SUBSET WithRun(status) :
       /\ analyzed' = Verdicts(good)
       /\ accepted' = accepted \cup {c \in good : status.checkRuns[c] = "ok"}
  /\ pc' = IF WithRun(status) = {} THEN "recommend" ELSE "storeAnalysis"
  /\ view' = Copy(status)
  /\ UNCHANGED <<status, faults, runner, ns, recordings, snap, queued>>

AnalyzeFails ==
  /\ pc = "analyze"
  /\ \/ ~(BaselinesStored /\ WithRun(status) \subseteq recordings) /\ NoFault
     \/ Fault("fetch")
  /\ \E v \in {view, Copy(status)} : Proceed("analysisFailed", v, snap)
  /\ UNCHANGED status /\ NoSubmit

\* The map that was read before the analysis replaces the stored one.
StoreAnalysis ==
  /\ pc = "storeAnalysis"
  /\ WriteOr([status EXCEPT !.checkRuns = analyzed], "recommend", "analysisFailed")
  /\ NoSubmit

AnalysisFailed ==
  /\ pc = "analysisFailed"
  /\ WriteThen([status EXCEPT !.analysis = "done"], "finishFailed")
  /\ NoSubmit

FinishAnalysisFailed ==
  /\ pc = "finishFailed"
  /\ Write([status EXCEPT !.finished = "analysisFailed"])
  /\ Done
  /\ NoSubmit

\* SetRecommendation merges the security contexts of the successful checks. Its
\* error, also that of reading the workload, is dropped.
SetRecommendation ==
  /\ pc = "recommend"
  /\ \/ WriteThen([status EXCEPT !.rec = Successful(analyzed)], "announceResult")
     \/ UNCHANGED status /\ Fault("fetch") /\ Proceed("announceResult", view, snap)
  /\ NoSubmit

AnnounceResult ==
  /\ pc = "announceResult"
  /\ WriteThen([status EXCEPT !.analysis = "done"], "decide")
  /\ NoSubmit

SpecContext == {}
FinalContext == view.rec

SubmitFinal ==
  /\ pc = "submitFinal"
  /\ Submit({"Final"}, snap.unknown, FinalContext)
  /\ Requeue
  /\ UNCHANGED <<status, faults>> /\ Keeps

\* A run in progress for too long is marked to be run again.
MarkOverdue ==
  /\ \/ pc = "finalOverdue" /\ SetCondition("FinalCheck", "unknown")
     \/ pc = "baselineOverdue" /\ SetCondition("Baseline", "unknown")
  /\ Requeue
  /\ NoSubmit

\* SetBaselineRecorded, two writes.
SetBaselineRecorded ==
  /\ pc = "giveBaseline"
  /\ WriteOr(WithCondition(status, "Baseline", "recorded"), "baselineRuns", "afterBaseline")
  /\ NoSubmit

SetBaselineRuns ==
  /\ pc = "baselineRuns"
  /\ WriteThen([status EXCEPT !.baselineRuns = {"ok"}], "afterBaseline")
  /\ NoSubmit

RecordBaseline ==
  /\ pc = "recordBaseline"
  /\ Submit(Baseline, snap.unknown, NoRec)
  /\ Requeue
  /\ UNCHANGED <<status, faults>> /\ Keeps

FinishBaselineFailed ==
  /\ pc = "baselineFailed"
  /\ Write([status EXCEPT !.finished = "baselineFailed"])
  /\ Done
  /\ NoSubmit

\* recordChecks: conditions for new checks, and the announcement. When the
\* workload cannot be read, no check is left to record.
RecordChecks ==
  /\ pc = "recordChecks"
  /\ \/ WriteThen(WithMissing(status), "checkLoop")
     \/ UNCHANGED status /\ Fault("fetch") /\ (Done \/ Requeue)
  /\ NoSubmit

\* ... then the loop over the required checks in the random order of a map. A
\* run that is overdue is marked, and submitted again, which the executor ignores.
OverdueRuns(C) == {c \in C : IsRunning(c) /\ IsOverdue(view, c)}
MarkOverdueRuns(C) ==
  IF OverdueRuns(C) = {} THEN UNCHANGED <<status, faults>>
  ELSE Write([status EXCEPT !.cond = [t \in CondType |->
                IF t \in OverdueRuns(C) THEN "unknown" ELSE status.cond[t]]])

ParallelLoop ==
  /\ pc = "checkLoop" /\ Parallel
  /\ Submit(Unrecorded(view), snap.unknown, NoRec)
  /\ MarkOverdueRuns(Unrecorded(view))
  /\ Requeue
  /\ Keeps

\* The first unrecorded check of the order decides: wait for it or submit it.
SequentialLoop ==
  /\ pc = "checkLoop" /\ ~Parallel
  /\ \/ \E c \in Unrecorded(view) : Submit({c}, snap.unknown, NoRec) /\ MarkOverdueRuns({c})
     \/ Unrecorded(view) = {} /\ UNCHANGED <<status, faults, runner>>
  /\ Requeue
  /\ Keeps

ReconcileStep ==
  \/ Skip \/ Fetch \/ FinishRecommended \/ RemoveCheckConditions \/ FillConditions
  \/ AnnounceAnalysis \/ Analyze \/ AnalyzeFails \/ StoreAnalysis
  \/ AnalysisFailed \/ FinishAnalysisFailed \/ SetRecommendation \/ AnnounceResult
  \/ SubmitFinal \/ MarkOverdue \/ SetBaselineRecorded \/ SetBaselineRuns
  \/ RecordBaseline \/ FinishBaselineFailed
  \/ RecordChecks \/ ParallelLoop \/ SequentialLoop

-----------------------------------------------------------------------------
(* The runs, the cluster, the clock and restarts around the reconciler.    *)

NoReconcile == UNCHANGED <<reconcilerVars, accepted>>

RunSteps(r) == RunCheckStep(r) /\ NoReconcile
Terminated(r) == NamespaceGone(r) /\ NoReconcile

\* More than the recording duration and a minute pass since a condition became
\* False: for sure when its run is gone or hangs, else only if it is slow.
Overdue(t) ==
  /\ status.cond[t] = "running"
  /\ status' = [status EXCEPT !.cond[t] = "late"]
  /\ IF \E r \in RunName : CondOf(r) = t /\ IsRunning(r) /\ ~At(r, "hung")
     THEN Fault("slow") ELSE NoFault
  /\ UNCHANGED runnerVars /\ NoReconcile

\* The operator stops or crashes and starts again: its goroutines, the registry
\* of the executor and the work queue are gone, and every object is queued.
\* What resume.go would resume it does not find: it skips namespaces without
\* LabelCheckRunID, and nothing sets that label.
Restart ==
  /\ Fault("restart")
  /\ runner' = [r \in RunName |-> NoRunner]
  /\ Requeue
  /\ UNCHANGED <<status, ns, recordings, accepted>>

Next ==
  \/ ReconcileStep
  \/ \E r \in RunName : RunSteps(r) \/ Terminated(r)
  \/ \E t \in CondType : Overdue(t)
  \/ Restart

\* The work queue hands out the object again, goroutines are scheduled (a hung
\* one waits for pods that never come), time passes, and the cluster finishes
\* deletions, however many runs come and go meanwhile. The last conjunct: an
\* invocation does not forever read the status just before a run finishes and act
\* on it just after, which would start that run again each time; once in a while
\* one sees that every check, or the final check, is recorded.
Fairness ==
  /\ WF_vars(ReconcileStep)
  /\ \A r \in RunName : WF_vars(RunSteps(r)) /\ SF_vars(Terminated(r))
  /\ \A t \in CondType : WF_vars(Overdue(t) /\ NoFault)
  /\ SF_vars(Fetch /\ Enter(Copy(status), Snapshot(status)) \in {"analysis", "finish"})

Spec == Init /\ [][Next]_vars /\ Fairness

-----------------------------------------------------------------------------
(* What the check of a workload promises.                                  *)

\* A recommendation is made only of security contexts whose check was recorded
\* as successful and whose logs an analysis found no anomaly in, however often
\* checks are recorded again meanwhile (AnalyzeCheckRuns, SetRecommendation).
RecommendationVetted == status.rec # NoRec => status.rec \subseteq accepted

\* No recommendation without a recording of both baselines to compare with, even
\* if the shared Baseline condition was set by one of them (AnalyzeCheckRuns).
RecommendationNeedsBaselines ==
  status.rec # NoRec => BaselineGiven \/ Baseline \subseteq recordings

\* What the final run reports is a test of the recommendation that stands in the
\* status, not of an earlier one or of none (Reconcile hands the recommendation to
\* the run, which reports minutes later).
FinalRunTestsRecommendation ==
  status.finalRun.result # "none" => status.finalRun.sc = status.rec

\* A check run in the status has a recording in ValKey, without which the analysis
\* fails for good: also when runs crash or fail between their steps (RunCheck).
EvidenceStored == WithRun(status) \subseteq recordings

\* The verdict a reader of the status relies on: HardeningVerdict, with the
\* recordings in ValKey, the accepted checks and the stored recommendation.
Verdict == INSTANCE HardeningVerdict WITH recorded <- recordings,
                                          vetted <- accepted,
                                          recommendation <- status.rec,
                                          verdict <- status.finished

\* However invocations, runs, failures and restarts interleave: nothing is
\* recommended without its evidence or after the verdict, and the verdict is given
\* once, "recommended" only after a final run was recorded (Reconcile).
ImplementsVerdict == Verdict!VSpec

\* Every check comes to an end, with a recommendation or a failure, also when the
\* operator restarts or runs fail (Reconcile).
EventuallyFinished == <>(status.finished # "no")

-----------------------------------------------------------------------------
(* What comments of the code say, and the code does not do.                *)

\* "If the RunMode is set to Sequential, the checks are started one after another"
\* (recordChecks): two of them are never being recorded at a time.
SequentialOneAtATime ==
  ~Parallel => \A c, d \in Check : IsRunning(c) /\ IsRunning(d) => c = d

\* "If we are here, it means that the baseline recording is done successfully"
\* (Reconcile, before recordChecks).
ChecksAfterBaselines == pc = "recordChecks" => BaselinesStored

\* "Based on the successful checkRuns, merges their security contexts into a final
\* recommendation" (SetRecommendation): what was recommended in the end is based
\* on every check run that the status calls successful.
RecommendationComplete ==
  status.finished = "recommended" => Successful(status.checkRuns) \subseteq status.rec
=============================================================================
