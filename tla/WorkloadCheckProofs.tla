------------------------ MODULE WorkloadCheckProofs -------------------------
(***************************************************************************)
(* What WorkloadCheck guarantees for every set of checks and baselines,    *)
(* every kind and number of failures and both run modes: type correctness  *)
(* and its three safety invariants, from one inductive invariant.          *)
(*                                                                         *)
(* The invariants about the status are not inductive, because what is      *)
(* written to it was computed before: by a run that is about to report, or *)
(* by an analysis whose result is about to be stored.  IInv says the same  *)
(* of these (RunsLeaveEvidence, and the three facts about the analysis).   *)
(***************************************************************************)
EXTENDS WorkloadCheck, TLAPS

RunsLeaveEvidence ==
  \A r \in RunName : runner[r].pc \in {"finish", "append"} => r \in recordings
AnalysisHasEvidence == Recorded(analyzed) \subseteq recordings
AnalysisVetted == Successful(analyzed) \subseteq accepted
AnalysisHasBaselines == pc \in {"storeAnalysis", "recommend"} => BaselinesStored

Evidence == EvidenceStored /\ RunsLeaveEvidence /\ AnalysisHasEvidence
Vetted == RecommendationVetted /\ AnalysisVetted
BaselinesCover == RecommendationNeedsBaselines /\ AnalysisHasBaselines

IInv == TypeOK /\ Evidence /\ Vetted /\ BaselinesCover

CopyType == [cond : [CondType -> CondVal], rec : Recommendation]
SnapshotType == [analyzed : BOOLEAN, unknown : SUBSET CondType, baselineFailed : BOOLEAN]

-----------------------------------------------------------------------------
(* The operators that the actions are built from.                          *)

\* A condition changes nothing else in the status.
LEMMA WithConditionType ==
  ASSUME NEW s \in Status, NEW t \in CondType, NEW v \in CondVal
  PROVE  /\ WithCondition(s, t, v) \in Status
         /\ WithCondition(s, t, v).rec = s.rec
         /\ WithCondition(s, t, v).checkRuns = s.checkRuns
BY DEF WithCondition, Stamp, Status, CondVal

\* Faults are counted up to their bound.
LEMMA FaultType ==
  ASSUME faults \in 0..MaxFaults,
         (\E k \in FaultKinds : Fault(k)) \/ NoFault
  PROVE  faults' \in 0..MaxFaults
BY StatusAssumption DEF Fault, NoFault

\* A write leaves the old status or the new one.
LEMMA WriteType ==
  ASSUME status \in Status, faults \in 0..MaxFaults, NEW s \in Status, Write(s)
  PROVE  status' \in {status, s} /\ status' \in Status /\ faults' \in 0..MaxFaults
BY FaultType DEF Write, FaultKinds

LEMMA InitStatusType ==
  /\ InitStatus \in Status
  /\ InitStatus.rec = NoRec
  /\ InitStatus.checkRuns = NoChecks
BY DEF InitStatus, Status, NoConditions, NoChecks, CondVal, Outcome, Recommendation

LEMMA CopyTypes ==
  ASSUME NEW s \in Status
  PROVE  Copy(s) \in CopyType /\ Snapshot(s) \in SnapshotType
BY DEF Copy, Snapshot, CopyType, SnapshotType, Status

\* A run reports to a condition that exists.
LEMMA CondOfType ==
  ASSUME NEW r \in RunName
  PROVE  CondOf(r) \in CondType
BY DEF CondOf, CondType, RunName

-----------------------------------------------------------------------------
(* The steps of the runs.                                                  *)

\* What a step of run r may do: record, never forget a recording; add its own
\* CheckRun when it has come to that; come to that only with a recording.
RunEffect(r) ==
  /\ status' \in Status /\ faults' \in 0..MaxFaults /\ RunnerTypeOK'
  /\ recordings \subseteq recordings'
  /\ status'.rec = status.rec
  /\ \A c \in Check : status'.checkRuns[c] # status.checkRuns[c]
                        => c = r /\ runner[r].pc = "append"
  /\ \A q \in RunName : runner'[q].pc \in {"finish", "append"}
                          => runner[q].pc \in {"finish", "append"} \/ q \in recordings'

\* The ways in which a step moves the goroutine of its run keep its type, and move
\* no other.
Moves(r) ==
  \/ Return(r) \/ Begin(r) \/ \E p \in RunnerPC : Goto(r, p)
  \/ \E ok \in BOOLEAN : runner' = [runner EXCEPT ![r].pc = "finish", ![r].ok = ok]

LEMMA MoveType ==
  ASSUME RunnerTypeOK, NEW r \in RunName, Moves(r)
  PROVE  /\ runner' \in [RunName -> Runner]
         /\ \A q \in RunName \ {r} : runner'[q] = runner[q]
<1>1. runner \in [RunName -> Runner] /\ runner[r] \in Runner
  BY DEF RunnerTypeOK
<1>2. CASE Return(r)
  <2>1. NoRunner \in Runner
    BY DEF NoRunner, Runner, RunnerPC, Recommendation
  <2>2. QED
    BY <1>1, <1>2, <2>1 DEF Return
<1>3. CASE Begin(r)
  <2>1. [runner[r] EXCEPT !.pc = "mark", !.retry = FALSE] \in Runner
    BY <1>1 DEF Runner, RunnerPC
  <2>2. QED
    BY <1>1, <1>3, <2>1 DEF Begin
<1>4. ASSUME NEW p \in RunnerPC, Goto(r, p)
      PROVE  /\ runner' \in [RunName -> Runner]
             /\ \A q \in RunName \ {r} : runner'[q] = runner[q]
  <2>1. [runner[r] EXCEPT !.pc = p] \in Runner
    BY <1>1 DEF Runner
  <2>2. QED
    BY <1>1, <1>4, <2>1 DEF Goto
<1>5. ASSUME NEW ok \in BOOLEAN,
             runner' = [runner EXCEPT ![r].pc = "finish", ![r].ok = ok]
      PROVE  /\ runner' \in [RunName -> Runner]
             /\ \A q \in RunName \ {r} : runner'[q] = runner[q]
  <2>1. [runner[r] EXCEPT !.pc = "finish", !.ok = ok] \in Runner
    BY <1>1 DEF Runner, RunnerPC
  <2>2. QED
    BY <1>1, <1>5, <2>1
<1>6. QED
  BY <1>2, <1>3, <1>4, <1>5 DEF Moves

\* Steps that do not write the status.
LEMMA SilentSteps ==
  ASSUME TypeOK, NEW r \in RunName,
         \/ DeleteLeftover(r) \/ CreateCheckNamespace(r) \/ ReuseNamespace(r)
         \/ ApplyFails(r) \/ RecordLastLogs(r) \/ Record(r) \/ RecordFails(r)
  PROVE  RunEffect(r)
<1>1. UNCHANGED status
  BY DEF DeleteLeftover, CreateCheckNamespace, ReuseNamespace, ApplyFails, RecordLastLogs,
         Record, RecordFails
<1>2. recordings \subseteq recordings'
  BY DEF DeleteLeftover, CreateCheckNamespace, ReuseNamespace, ApplyFails, RecordLastLogs,
         Record, RecordFails
<1>3. faults' \in 0..MaxFaults
  <2>1. (\E k \in FaultKinds : Fault(k)) \/ NoFault
    BY DEF DeleteLeftover, CreateCheckNamespace, ReuseNamespace, ApplyFails, RecordLastLogs,
           Record, RecordFails, DeleteNamespace, Broken, FaultKinds, NoFault
  <2>2. QED
    BY <2>1, FaultType DEF TypeOK
<1>4. RunnerTypeOK'
  <2>1. Moves(r)
    BY DEF DeleteLeftover, CreateCheckNamespace, ReuseNamespace, ApplyFails, RecordLastLogs,
           Record, RecordFails, Moves, RunnerPC
  <2>2. ns' \in [RunName -> {"absent", "active", "terminating"}]
    BY DEF DeleteLeftover, CreateCheckNamespace, ReuseNamespace, ApplyFails, RecordLastLogs,
           Record, RecordFails, TypeOK, RunnerTypeOK, DeleteNamespace
  <2>3. recordings' \in SUBSET RunName
    BY DEF DeleteLeftover, CreateCheckNamespace, ReuseNamespace, ApplyFails, RecordLastLogs,
           Record, RecordFails, TypeOK, RunnerTypeOK
  <2>4. QED
    BY <2>1, <2>2, <2>3, MoveType DEF RunnerTypeOK, TypeOK
<1>5. ASSUME NEW q \in RunName, runner'[q].pc \in {"finish", "append"}
      PROVE  runner[q].pc \in {"finish", "append"} \/ q \in recordings'
  BY <1>5 DEF DeleteLeftover, CreateCheckNamespace, ReuseNamespace, ApplyFails,
              RecordLastLogs, Record, RecordFails, TypeOK, RunnerTypeOK, Runner, NoRunner,
              Goto, Begin, Return
<1>6. QED
  BY <1>1, <1>2, <1>3, <1>4, <1>5 DEF RunEffect, TypeOK

\* Steps that set a condition.
LEMMA ReportingSteps ==
  ASSUME TypeOK, NEW r \in RunName,
         \/ MarkStarted(r) \/ Apply(r) \/ ReportTimeout(r) \/ ReportFailed(r)
         \/ FinishCondition(r)
  PROVE  RunEffect(r)
<1>1. PICK v \in CondVal : SetCondition(CondOf(r), v)
  BY DEF MarkStarted, Apply, ReportTimeout, ReportFailed, FinishCondition, CondVal
<1>2. /\ status' \in Status /\ faults' \in 0..MaxFaults
      /\ status'.rec = status.rec /\ status'.checkRuns = status.checkRuns
  <2> DEFINE s == WithCondition(status, CondOf(r), v)
  <2>1. s \in Status /\ s.rec = status.rec /\ s.checkRuns = status.checkRuns
    BY CondOfType, WithConditionType DEF TypeOK
  <2>2. Write(s)
    BY <1>1 DEF SetCondition
  <2> HIDE DEF s
  <2>3. status' \in {status, s} /\ status' \in Status /\ faults' \in 0..MaxFaults
    BY <2>1, <2>2, WriteType DEF TypeOK
  <2>4. QED
    BY <2>1, <2>3
<1>3. UNCHANGED <<ns, recordings>>
  BY DEF MarkStarted, Apply, ReportTimeout, ReportFailed, FinishCondition
<1>4. Moves(r)
  BY DEF MarkStarted, Apply, ReportTimeout, ReportFailed, FinishCondition, Moves, RunnerPC
<1>5. ASSUME NEW q \in RunName, runner'[q].pc \in {"finish", "append"}
      PROVE  runner[q].pc \in {"finish", "append"}
  BY <1>5 DEF MarkStarted, Apply, ReportTimeout, ReportFailed, FinishCondition, TypeOK,
              RunnerTypeOK, Runner, NoRunner, Goto, Return, At
<1>6. RunnerTypeOK'
  BY <1>3, <1>4, MoveType DEF TypeOK, RunnerTypeOK
<1>7. QED
  BY <1>2, <1>3, <1>5, <1>6 DEF RunEffect

\* The CheckRun of a run.
LEMMA AppendStep ==
  ASSUME TypeOK, NEW r \in RunName, AppendCheckRun(r)
  PROVE  RunEffect(r)
<1>1. WithCheckRun(status, r) \in Status
  BY DEF TypeOK, RunnerTypeOK, Runner, WithCheckRun, Status, Outcome, RunName
<1>2. WithCheckRun(status, r).rec = status.rec
  BY DEF TypeOK, WithCheckRun, Status
<1>3. \A c \in Check : WithCheckRun(status, r).checkRuns[c] # status.checkRuns[c] => c = r
  BY DEF TypeOK, WithCheckRun, Status
<1>4. status' \in {status, WithCheckRun(status, r)} /\ status' \in Status
      /\ faults' \in 0..MaxFaults
  BY <1>1, WriteType DEF AppendCheckRun, TypeOK
<1>5. RunnerTypeOK'
  BY DEF AppendCheckRun, TypeOK, RunnerTypeOK, Runner, RunnerPC, Goto
<1>6. \A q \in RunName : runner'[q].pc \in {"finish", "append"}
                         => runner[q].pc \in {"finish", "append"}
  BY DEF AppendCheckRun, TypeOK, RunnerTypeOK, Runner, Goto, At
<1>7. QED
  BY <1>2, <1>3, <1>4, <1>5, <1>6 DEF RunEffect, AppendCheckRun, At

LEMMA CleanUpStep ==
  ASSUME TypeOK, NEW r \in RunName, CleanUp(r) \/ NamespaceGone(r)
  PROVE  RunEffect(r)
<1>1. UNCHANGED <<status, recordings>>
  BY DEF CleanUp, NamespaceGone
<1>2. faults' \in 0..MaxFaults
  <2>1. (\E k \in FaultKinds : Fault(k)) \/ NoFault
    BY DEF CleanUp, NamespaceGone, DeleteNamespace, FaultKinds, NoFault
  <2>2. QED
    BY <2>1, FaultType DEF TypeOK
<1>3. RunnerTypeOK'
  <2>1. Moves(r) \/ UNCHANGED runner
    BY DEF CleanUp, NamespaceGone, Moves
  <2>2. ns' \in [RunName -> {"absent", "active", "terminating"}] /\ UNCHANGED recordings
    BY DEF CleanUp, NamespaceGone, DeleteNamespace, TypeOK, RunnerTypeOK
  <2>3. QED
    BY <2>1, <2>2, MoveType DEF TypeOK, RunnerTypeOK
<1>4. ASSUME NEW q \in RunName, runner'[q].pc \in {"finish", "append"}
      PROVE  runner[q].pc \in {"finish", "append"}
  <2>1. CASE NamespaceGone(r)
    BY <1>4, <2>1 DEF NamespaceGone
  <2>2. CASE CleanUp(r)
    <3>1. runner' = [runner EXCEPT ![r] = NoRunner]
      BY <2>2 DEF CleanUp, Return
    <3>2. NoRunner.pc = "none"
      BY DEF NoRunner
    <3>3. QED
      BY <1>4, <3>1, <3>2 DEF TypeOK, RunnerTypeOK
  <2>3. QED
    BY <2>1, <2>2
<1>5. QED
  BY <1>1, <1>2, <1>3, <1>4 DEF RunEffect, TypeOK

\* A step of a run keeps the whole invariant.
LEMMA RunStep ==
  ASSUME IInv, NEW r \in RunName, RunSteps(r) \/ Terminated(r)
  PROVE  IInv'
<1>1. RunEffect(r) /\ UNCHANGED <<reconcilerVars, accepted>>
  BY SilentSteps, ReportingSteps, AppendStep, CleanUpStep
  DEF IInv, RunSteps, Terminated, RunCheckStep, NoReconcile
<1>2. TypeOK'
  BY <1>1 DEF IInv, TypeOK, RunEffect, reconcilerVars
<1>3. Evidence'
  <2>1. ASSUME NEW c \in Check, status'.checkRuns[c] # "none"
        PROVE  c \in recordings'
    <3>1. CASE status'.checkRuns[c] = status.checkRuns[c]
      BY <1>1, <2>1, <3>1 DEF RunEffect, IInv, Evidence, EvidenceStored, WithRun
    <3>2. CASE status'.checkRuns[c] # status.checkRuns[c]
      BY <1>1, <3>2 DEF RunEffect, IInv, Evidence, RunsLeaveEvidence
    <3>3. QED
      BY <3>1, <3>2
  <2>2. RunsLeaveEvidence'
    BY <1>1 DEF RunEffect, IInv, Evidence, RunsLeaveEvidence
  <2>3. AnalysisHasEvidence'
    BY <1>1 DEF RunEffect, IInv, Evidence, AnalysisHasEvidence, Recorded, reconcilerVars
  <2>4. QED
    BY <2>1, <2>2, <2>3 DEF Evidence, EvidenceStored, WithRun
<1>4. Vetted'
  BY <1>1 DEF RunEffect, IInv, Vetted, RecommendationVetted, AnalysisVetted, Successful,
              reconcilerVars
<1>5. BaselinesCover'
  BY <1>1 DEF RunEffect, IInv, BaselinesCover, RecommendationNeedsBaselines,
              AnalysisHasBaselines, BaselinesStored, reconcilerVars
<1>6. QED
  BY <1>2, <1>3, <1>4, <1>5 DEF IInv
-----------------------------------------------------------------------------
(* The steps of the reconciler.                                            *)

Reconciling == /\ pc \in ReconcilerPC
               /\ snap \in SnapshotType
               /\ view \in CopyType
               /\ queued \in BOOLEAN

\* Where an invocation goes from here it does not analyse any more, unless its
\* code names that as the next thing to do.
LEMMA Targets ==
  ASSUME NEW next, NEW v, NEW n, Target(next, v, n) \in {"storeAnalysis", "recommend"}
  PROVE  next = Target(next, v, n)
BY DEF Target, Decide, AfterFinal, AfterBaseline

LEMMA EnterTargets ==
  ASSUME NEW v, NEW n
  PROVE  Enter(v, n) \notin {"storeAnalysis", "recommend"}
BY DEF Enter, Decide, AfterFinal, AfterBaseline

LEMMA LeaveType ==
  ASSUME queued \in BOOLEAN, Requeue \/ Done
  PROVE  Reconciling' /\ analyzed' = NoChecks /\ pc' = "idle"
BY InitStatusType, CopyTypes DEF Requeue, Done, Leave, Reconciling, ReconcilerPC

LEMMA ProceedType ==
  ASSUME queued \in BOOLEAN, NEW next, NEW v \in CopyType, NEW n \in SnapshotType,
         Proceed(next, v, n)
  PROVE  /\ Reconciling' /\ analyzed' \in {analyzed, NoChecks}
         /\ pc' \in {"storeAnalysis", "recommend"} => pc' = next
<1> DEFINE target == Target(next, v, n)
<1>1. CASE target = "requeue" /\ Requeue
  BY <1>1, LeaveType
<1>2. CASE target = "done" /\ Done
  BY <1>2, LeaveType
<1>3. CASE /\ target \in ReconcilerPC
           /\ pc' = target
           /\ view' = IF target \in LastLook THEN Copy(InitStatus) ELSE v
           /\ snap' = n
           /\ UNCHANGED <<queued, analyzed>>
  <2>1. Copy(InitStatus) \in CopyType
    BY InitStatusType, CopyTypes
  <2>2. Reconciling'
    BY <1>3, <2>1 DEF Reconciling
  <2>3. QED
    BY <1>3, <2>2, Targets
<1>4. QED
  BY <1>1, <1>2, <1>3 DEF Proceed

\* A write whose error is dropped.
LEMMA WriteOrType ==
  ASSUME TypeOK, NEW s \in Status, NEW ok, NEW failed, WriteOr(s, ok, failed)
  PROVE  /\ status' \in {status, s} /\ status' \in Status /\ faults' \in 0..MaxFaults
         /\ Reconciling' /\ analyzed' \in {analyzed, NoChecks}
         /\ pc' \in {"storeAnalysis", "recommend"} => pc' \in {ok, failed}
<1>1. faults' \in 0..MaxFaults
  BY FaultType DEF WriteOr, FaultKinds, TypeOK
<1>2. Copy(s) \in CopyType /\ view \in CopyType /\ snap \in SnapshotType
  BY CopyTypes DEF TypeOK, CopyType, SnapshotType
<1>3. CASE status' = s /\ NoFault /\ Proceed(ok, Copy(s), snap)
  BY <1>1, <1>2, <1>3, ProceedType DEF TypeOK
<1>4. CASE /\ UNCHANGED status
           /\ \E v \in {view, Copy(s)} : Proceed(failed, v, snap)
  <2>1. PICK v \in {view, Copy(s)} : Proceed(failed, v, snap)
    BY <1>4
  <2>2. QED
    BY <1>1, <1>2, <1>4, <2>1, ProceedType DEF TypeOK
<1>5. QED
  BY <1>3, <1>4 DEF WriteOr

\* The executor: what is submitted has not come to reporting.
LEMMA SubmitType ==
  ASSUME RunnerTypeOK, NEW R, NEW unknown, NEW sc \in Recommendation,
         Submit(R, unknown, sc)
  PROVE  /\ runner' \in [RunName -> Runner]
         /\ \A q \in RunName : runner'[q].pc \in {"finish", "append"}
                               => runner[q].pc \in {"finish", "append"}
BY DEF Submit, RunnerTypeOK, Runner, RunnerPC

\* What a step of an invocation may do that is not the analysis itself: it stores
\* the result of one, and recommends what one found successful; it goes on to that
\* only from the analysis.
ReconcileEffect ==
  /\ status' \in Status /\ faults' \in 0..MaxFaults
  /\ runner' \in [RunName -> Runner]
  /\ UNCHANGED <<ns, recordings, accepted>>
  /\ Reconciling' /\ analyzed' \in {analyzed, NoChecks}
  /\ \A q \in RunName : runner'[q].pc \in {"finish", "append"}
                          => runner[q].pc \in {"finish", "append"}
  /\ status'.checkRuns \in {status.checkRuns, analyzed}
  /\ \/ status'.rec = status.rec
     \/ pc = "recommend" /\ status'.rec = Successful(analyzed)
  /\ pc' \in {"storeAnalysis", "recommend"} => pc = "storeAnalysis"

\* Any step that keeps to this keeps the invariant.
LEMMA EffectPreserves ==
  ASSUME IInv, ReconcileEffect
  PROVE  IInv'
<1>1. TypeOK'
  <2>1. NoChecks \in [Check -> Outcome]
    BY DEF NoChecks, Outcome
  <2>2. QED
    BY <2>1 DEF IInv, TypeOK, RunnerTypeOK, ReconcileEffect, Reconciling, SnapshotType,
                CopyType
<1>2. Evidence'
  <2>1. Recorded(NoChecks) = {}
    BY DEF Recorded, NoChecks
  <2>2. AnalysisHasEvidence'
    BY <2>1 DEF IInv, Evidence, AnalysisHasEvidence, ReconcileEffect, Recorded
  <2>3. WithRun(status') \subseteq recordings
    BY DEF IInv, Evidence, EvidenceStored, AnalysisHasEvidence, ReconcileEffect, WithRun,
           Recorded
  <2>4. QED
    BY <2>2, <2>3 DEF IInv, Evidence, EvidenceStored, RunsLeaveEvidence, ReconcileEffect,
                      WithRun
<1>3. Vetted'
  <2>1. Successful(NoChecks) = {}
    BY DEF Successful, NoChecks
  <2>2. AnalysisVetted'
    BY <2>1 DEF IInv, Vetted, AnalysisVetted, ReconcileEffect, Successful
  <2>3. RecommendationVetted'
    BY DEF IInv, Vetted, RecommendationVetted, AnalysisVetted, ReconcileEffect
  <2>4. QED
    BY <2>2, <2>3 DEF Vetted
<1>4. BaselinesCover'
  BY DEF IInv, BaselinesCover, RecommendationNeedsBaselines, AnalysisHasBaselines,
         BaselinesStored, ReconcileEffect
<1>5. QED
  BY <1>1, <1>2, <1>3, <1>4 DEF IInv

\* Writes with which an invocation goes on.
LEMMA WriteSteps ==
  ASSUME IInv,
         \/ FillConditions \/ AnnounceAnalysis \/ AnalysisFailed \/ AnnounceResult
         \/ SetBaselineRecorded \/ SetBaselineRuns
  PROVE  ReconcileEffect
<1>1. PICK s \in Status : \E ok, failed :
        /\ WriteOr(s, ok, failed)
        /\ s.rec = status.rec /\ s.checkRuns = status.checkRuns
        /\ {ok, failed} \cap {"storeAnalysis", "recommend"} = {}
  <2>1. CASE FillConditions
    <3>1. WithMissing(status) \in Status
      BY DEF IInv, TypeOK, WithMissing, Status, CondVal
    <3>2. /\ WithMissing(status).rec = status.rec
          /\ WithMissing(status).checkRuns = status.checkRuns
      BY DEF IInv, TypeOK, WithMissing, Status
    <3>3. QED
      BY <2>1, <3>1, <3>2 DEF FillConditions, WriteThen
  <2>2. CASE AnnounceAnalysis
    BY <2>2 DEF AnnounceAnalysis, WriteThen, IInv, TypeOK, Status
  <2>3. CASE AnalysisFailed \/ AnnounceResult
    BY <2>3 DEF AnalysisFailed, AnnounceResult, WriteThen, IInv, TypeOK, Status
  <2>4. CASE SetBaselineRecorded
    BY <2>4, WithConditionType
    DEF SetBaselineRecorded, IInv, TypeOK, CondType, CondVal
  <2>5. CASE SetBaselineRuns
    BY <2>5 DEF SetBaselineRuns, WriteThen, IInv, TypeOK, Status
  <2>6. QED
    BY <2>1, <2>2, <2>3, <2>4, <2>5
<1>2. UNCHANGED <<runner, ns, recordings, accepted>>
  BY DEF FillConditions, AnnounceAnalysis, AnalysisFailed, AnnounceResult,
         SetBaselineRecorded, SetBaselineRuns, NoSubmit, Keeps
<1>3. runner' \in [RunName -> Runner]
  BY <1>2 DEF IInv, TypeOK, RunnerTypeOK
<1>4. /\ status' \in {status, s} /\ status' \in Status /\ faults' \in 0..MaxFaults
      /\ Reconciling' /\ analyzed' \in {analyzed, NoChecks}
      /\ pc' \notin {"storeAnalysis", "recommend"}
  <2>1. PICK ok, failed : /\ WriteOr(s, ok, failed)
                          /\ {ok, failed} \cap {"storeAnalysis", "recommend"} = {}
    BY <1>1
  <2>2. QED
    BY <2>1, WriteOrType DEF IInv
<1>5. QED
  BY <1>1, <1>2, <1>3, <1>4 DEF ReconcileEffect

\* The analysis is stored, and what it found is recommended.
LEMMA StoreSteps ==
  ASSUME IInv, StoreAnalysis \/ SetRecommendation
  PROVE  ReconcileEffect
<1>1. UNCHANGED <<runner, ns, recordings, accepted>> /\ runner' \in [RunName -> Runner]
  BY DEF StoreAnalysis, SetRecommendation, NoSubmit, Keeps, IInv, TypeOK, RunnerTypeOK
<1>2. CASE StoreAnalysis
  <2> DEFINE s == [status EXCEPT !.checkRuns = analyzed]
  <2>1. s \in Status /\ s.rec = status.rec /\ s.checkRuns = analyzed
    BY DEF IInv, TypeOK, Status
  <2>2. WriteOr(s, "recommend", "analysisFailed") /\ pc = "storeAnalysis"
    BY <1>2 DEF StoreAnalysis
  <2> HIDE DEF s
  <2>3. /\ status' \in {status, s} /\ status' \in Status /\ faults' \in 0..MaxFaults
        /\ Reconciling' /\ analyzed' \in {analyzed, NoChecks}
    BY <2>1, <2>2, WriteOrType DEF IInv
  <2>4. QED
    BY <1>1, <2>1, <2>2, <2>3 DEF ReconcileEffect
<1>3. CASE /\ pc = "recommend"
           /\ WriteThen([status EXCEPT !.rec = Successful(analyzed)], "announceResult")
  <2> DEFINE s == [status EXCEPT !.rec = Successful(analyzed)]
  <2>1. s \in Status /\ s.rec = Successful(analyzed) /\ s.checkRuns = status.checkRuns
    BY DEF IInv, TypeOK, Status, Recommendation, Successful
  <2>2. WriteOr(s, "announceResult", "announceResult")
    BY <1>3 DEF WriteThen
  <2> HIDE DEF s
  <2>3. /\ status' \in {status, s} /\ status' \in Status /\ faults' \in 0..MaxFaults
        /\ Reconciling' /\ analyzed' \in {analyzed, NoChecks}
        /\ pc' \notin {"storeAnalysis", "recommend"}
    BY <2>1, <2>2, WriteOrType DEF IInv
  <2>4. QED
    BY <1>1, <1>3, <2>1, <2>3 DEF ReconcileEffect
<1>4. CASE UNCHANGED status /\ Fault("fetch") /\ Proceed("announceResult", view, snap)
  <2>1. faults' \in 0..MaxFaults
    BY <1>4, FaultType DEF FaultKinds, IInv, TypeOK
  <2>2. /\ Reconciling' /\ analyzed' \in {analyzed, NoChecks}
        /\ pc' \notin {"storeAnalysis", "recommend"}
    BY <1>4, ProceedType DEF IInv, TypeOK, CopyType, SnapshotType
  <2>3. QED
    BY <1>1, <1>4, <2>1, <2>2 DEF ReconcileEffect, IInv, TypeOK
<1>5. QED
  BY <1>2, <1>3, <1>4 DEF SetRecommendation

\* Steps that go on from what was read.
LEMMA ReadSteps ==
  ASSUME IInv, Fetch \/ AnalyzeFails
  PROVE  ReconcileEffect
<1>1. /\ UNCHANGED <<status, runner, ns, recordings, accepted>>
      /\ runner' \in [RunName -> Runner]
  BY DEF Fetch, AnalyzeFails, NoSubmit, Keeps, IInv, TypeOK, RunnerTypeOK
<1>2. faults' \in 0..MaxFaults
  BY FaultType DEF Fetch, AnalyzeFails, FaultKinds, IInv, TypeOK
<1>3. /\ Copy(status) \in CopyType /\ Snapshot(status) \in SnapshotType
      /\ view \in CopyType /\ snap \in SnapshotType /\ queued \in BOOLEAN
  BY CopyTypes DEF IInv, TypeOK, CopyType, SnapshotType
<1>4. /\ Reconciling' /\ analyzed' \in {analyzed, NoChecks}
      /\ pc' \notin {"storeAnalysis", "recommend"}
  <2>1. CASE Fetch
    <3> DEFINE next == Enter(Copy(status), Snapshot(status))
    <3>1. next \notin {"storeAnalysis", "recommend"}
      BY EnterTargets
    <3>2. CASE Proceed(next, Copy(status), Snapshot(status))
      <4> HIDE DEF next
      <4>1. QED
        BY <1>3, <3>1, <3>2, ProceedType
    <3>3. CASE Proceed("analysis", Copy(status), Snapshot(status))
      BY <1>3, <3>3, ProceedType
    <3>4. QED
      BY <2>1, <3>2, <3>3 DEF Fetch
  <2>2. CASE AnalyzeFails
    <3>1. PICK v \in {view, Copy(status)} : Proceed("analysisFailed", v, snap)
      BY <2>2 DEF AnalyzeFails
    <3>2. QED
      BY <1>3, <3>1, ProceedType
  <2>3. QED
    BY <2>1, <2>2
<1>5. QED
  BY <1>1, <1>2, <1>4 DEF ReconcileEffect, IInv, TypeOK

\* The last write of an invocation, and the two that may be.
LEMMA LastWrites ==
  ASSUME IInv,
         \/ FinishRecommended \/ RemoveCheckConditions \/ FinishAnalysisFailed
         \/ MarkOverdue \/ FinishBaselineFailed \/ RecordChecks \/ Skip
  PROVE  ReconcileEffect
<1>1. /\ UNCHANGED <<runner, ns, recordings, accepted>>
      /\ runner' \in [RunName -> Runner]
  BY DEF FinishRecommended, RemoveCheckConditions, FinishAnalysisFailed, MarkOverdue,
         FinishBaselineFailed, RecordChecks, Skip, NoSubmit, Keeps, IInv, TypeOK, RunnerTypeOK
<1>2. /\ status' \in Status /\ faults' \in 0..MaxFaults
      /\ status'.rec = status.rec /\ status'.checkRuns = status.checkRuns
  <2>1. CASE UNCHANGED status /\ ((\E k \in FaultKinds : Fault(k)) \/ NoFault)
    BY <2>1, FaultType DEF IInv, TypeOK
  <2>2. CASE \E s \in Status : /\ s.rec = status.rec /\ s.checkRuns = status.checkRuns
                               /\ Write(s) \/ (status' = s /\ NoFault)
    BY <2>2, WriteType DEF IInv, TypeOK, Write, NoFault
  <2>3. CASE FinishRecommended \/ RemoveCheckConditions
    <3>1. [status EXCEPT !.finished = "recommended"] \in Status
      BY DEF IInv, TypeOK, Status
    <3>2. [status EXCEPT !.cond = NoConditions] \in Status
      BY DEF IInv, TypeOK, Status, NoConditions, CondVal
    <3>3. QED
      BY <2>1, <2>2, <2>3, <3>1, <3>2
      DEF FinishRecommended, RemoveCheckConditions, FaultKinds, IInv, TypeOK, Status
  <2>4. CASE FinishAnalysisFailed \/ FinishBaselineFailed
    <3>1. \A f \in {"analysisFailed", "baselineFailed"} :
            [status EXCEPT !.finished = f] \in Status
      BY DEF IInv, TypeOK, Status
    <3>2. QED
      BY <2>2, <2>4, <3>1 DEF FinishAnalysisFailed, FinishBaselineFailed, IInv, TypeOK, Status
  <2>5. CASE MarkOverdue
    BY <2>2, <2>5, WithConditionType
    DEF MarkOverdue, SetCondition, IInv, TypeOK, CondType, CondVal
  <2>6. CASE RecordChecks
    <3>1. WithMissing(status) \in Status
      BY DEF IInv, TypeOK, WithMissing, Status, CondVal
    <3>2. /\ WithMissing(status).rec = status.rec
          /\ WithMissing(status).checkRuns = status.checkRuns
      BY DEF IInv, TypeOK, WithMissing, Status
    <3>3. CASE WriteThen(WithMissing(status), "checkLoop")
      BY <3>1, <3>2, <3>3, WriteOrType DEF WriteThen, IInv
    <3>4. CASE UNCHANGED status /\ Fault("fetch")
      BY <2>1, <3>4 DEF FaultKinds
    <3>5. QED
      BY <2>6, <3>3, <3>4 DEF RecordChecks
  <2>7. CASE Skip
    BY <2>1, <2>7 DEF Skip, NoFault
  <2>8. QED
    BY <2>3, <2>4, <2>5, <2>6, <2>7
<1>3. /\ Reconciling' /\ analyzed' \in {analyzed, NoChecks}
      /\ pc' \notin {"storeAnalysis", "recommend"}
  <2>1. CASE Requeue \/ Done
    BY <2>1, LeaveType DEF IInv, TypeOK
  <2>2. CASE Proceed("removeConditions", view, snap)
    BY <2>2, ProceedType DEF IInv, TypeOK, CopyType, SnapshotType
  <2>3. CASE WriteThen(WithMissing(status), "checkLoop")
    <3>1. WithMissing(status) \in Status
      BY DEF IInv, TypeOK, WithMissing, Status, CondVal
    <3>2. QED
      BY <2>3, <3>1, WriteOrType DEF WriteThen, IInv
  <2>4. QED
    BY <2>1, <2>2, <2>3
    DEF FinishRecommended, RemoveCheckConditions, FinishAnalysisFailed, MarkOverdue,
        FinishBaselineFailed, RecordChecks, Skip
<1>4. QED
  BY <1>1, <1>2, <1>3 DEF ReconcileEffect

\* Submissions, after which an invocation ends; and a restart, which ends it too.
LEMMA SubmitSteps ==
  ASSUME IInv,
         \/ SubmitFinal \/ RecordBaseline \/ ParallelLoop \/ SequentialLoop \/ Restart
  PROVE  ReconcileEffect
<1>1. UNCHANGED <<ns, recordings, accepted>>
  BY DEF SubmitFinal, RecordBaseline, ParallelLoop, SequentialLoop, Restart, Keeps
<1>2. /\ Reconciling' /\ analyzed' \in {analyzed, NoChecks}
      /\ pc' \notin {"storeAnalysis", "recommend"}
  BY LeaveType DEF SubmitFinal, RecordBaseline, ParallelLoop, SequentialLoop, Restart, IInv,
                   TypeOK
<1>3. /\ runner' \in [RunName -> Runner]
      /\ \A q \in RunName : runner'[q].pc \in {"finish", "append"}
                           => runner[q].pc \in {"finish", "append"}
  <2>1. CASE UNCHANGED runner
    BY <2>1 DEF IInv, TypeOK, RunnerTypeOK
  <2>2. CASE \E R, unknown : \E sc \in {NoRec, view.rec} : Submit(R, unknown, sc)
    BY <2>2, SubmitType DEF IInv, TypeOK, Recommendation
  <2>3. CASE Restart
    BY <2>3 DEF Restart, NoRunner, Runner, RunnerPC, Recommendation
  <2>4. QED
    BY <2>1, <2>2, <2>3
    DEF SubmitFinal, RecordBaseline, ParallelLoop, SequentialLoop, FinalContext
<1>4. /\ status' \in Status /\ faults' \in 0..MaxFaults
      /\ status'.rec = status.rec /\ status'.checkRuns = status.checkRuns
  <2>1. CASE UNCHANGED status /\ (Fault("restart") \/ UNCHANGED faults)
    BY <2>1, FaultType DEF IInv, TypeOK, FaultKinds
  <2>2. ASSUME NEW C, MarkOverdueRuns(C)
        PROVE  /\ status' \in Status /\ faults' \in 0..MaxFaults
               /\ status'.rec = status.rec /\ status'.checkRuns = status.checkRuns
    <3> DEFINE s == [status EXCEPT !.cond = [t \in CondType |->
                       IF t \in OverdueRuns(C) THEN "unknown" ELSE status.cond[t]]]
    <3>1. s \in Status /\ s.rec = status.rec /\ s.checkRuns = status.checkRuns
      BY DEF IInv, TypeOK, Status, CondVal
    <3>2. CASE Write(s)
      BY <3>1, <3>2, WriteType DEF IInv, TypeOK
    <3>3. QED
      BY <2>1, <2>2, <3>2 DEF MarkOverdueRuns
  <2>3. QED
    BY <2>1, <2>2 DEF SubmitFinal, RecordBaseline, ParallelLoop, SequentialLoop, Restart
<1>5. QED
  BY <1>1, <1>2, <1>3, <1>4 DEF ReconcileEffect

\* The analysis accepts only what it has a recording of, and only with baselines.
LEMMA AnalyzeStep ==
  ASSUME IInv, Analyze
  PROVE  IInv'
<1>1. PICK good \in SUBSET WithRun(status) :
        /\ analyzed' = Verdicts(good)
        /\ accepted' = accepted \cup {c \in good : status.checkRuns[c] = "ok"}
  BY DEF Analyze
<1>2. UNCHANGED <<status, faults, runnerVars, snap, queued>>
  BY DEF Analyze, runnerVars
<1>3. TypeOK'
  <2>1. Verdicts(good) \in [Check -> Outcome]
    BY DEF Verdicts, Outcome, IInv, TypeOK, Status
  <2>2. accepted' \in SUBSET Check /\ pc' \in ReconcilerPC
    BY <1>1 DEF Analyze, WithRun, ReconcilerPC, IInv, TypeOK
  <2>3. view' \in CopyType
    BY CopyTypes DEF Analyze, IInv, TypeOK
  <2>4. QED
    BY <1>1, <1>2, <2>1, <2>2, <2>3
    DEF runnerVars, IInv, TypeOK, RunnerTypeOK, CopyType
<1>4. Evidence'
  <2>1. Recorded(Verdicts(good)) \subseteq recordings
    BY DEF Recorded, Verdicts, WithRun, IInv, Evidence, EvidenceStored
  <2>2. AnalysisHasEvidence'
    BY <1>1, <1>2, <2>1 DEF AnalysisHasEvidence, runnerVars, Recorded
  <2>3. QED
    BY <1>2, <2>2
    DEF IInv, Evidence, EvidenceStored, RunsLeaveEvidence, runnerVars, WithRun
<1>5. Vetted'
  <2>1. Successful(Verdicts(good)) \subseteq accepted'
    BY <1>1 DEF Successful, Verdicts
  <2>2. AnalysisVetted'
    BY <1>1, <2>1 DEF AnalysisVetted, Successful
  <2>3. QED
    BY <1>1, <1>2, <2>2 DEF IInv, Vetted, RecommendationVetted
<1>6. BaselinesCover'
  BY <1>2 DEF Analyze, IInv, BaselinesCover, RecommendationNeedsBaselines,
              AnalysisHasBaselines, BaselinesStored, runnerVars
<1>7. QED
  BY <1>3, <1>4, <1>5, <1>6 DEF IInv

\* Time passes.
LEMMA OverdueStep ==
  ASSUME IInv, NEW t \in CondType, Overdue(t)
  PROVE  IInv'
<1>1. /\ status' \in Status
      /\ status'.rec = status.rec /\ status'.checkRuns = status.checkRuns
  BY DEF Overdue, IInv, TypeOK, Status, CondVal
<1>2. faults' \in 0..MaxFaults
  BY FaultType DEF Overdue, FaultKinds, IInv, TypeOK
<1>3. UNCHANGED <<runnerVars, reconcilerVars, accepted>>
  BY DEF Overdue, NoReconcile
<1>4. TypeOK'
  BY <1>1, <1>2, <1>3 DEF IInv, TypeOK, RunnerTypeOK, runnerVars, reconcilerVars
<1>5. Evidence'
  BY <1>1, <1>3 DEF IInv, Evidence, EvidenceStored, RunsLeaveEvidence, AnalysisHasEvidence,
                    WithRun, Recorded, runnerVars, reconcilerVars
<1>6. Vetted' /\ BaselinesCover'
  BY <1>1, <1>3 DEF IInv, Vetted, RecommendationVetted, AnalysisVetted, Successful,
                    BaselinesCover, RecommendationNeedsBaselines, AnalysisHasBaselines,
                    BaselinesStored, runnerVars, reconcilerVars
<1>7. QED
  BY <1>4, <1>5, <1>6 DEF IInv

-----------------------------------------------------------------------------
(* The theorems.                                                           *)

LEMMA InitInvariant == Init => IInv
<1> SUFFICES ASSUME Init PROVE IInv
  OBVIOUS
<1>1. /\ runner \in [RunName -> Runner]
      /\ \A r \in RunName : runner[r].pc = "none"
  BY DEF Init, RunnerInit, NoRunner, Runner, RunnerPC, Recommendation
<1>2. TypeOK
  <2>1. NoChecks \in [Check -> Outcome]
    BY DEF NoChecks, Outcome
  <2>2. RunnerTypeOK
    BY <1>1 DEF Init, RunnerInit, RunnerTypeOK
  <2>3. faults \in 0..MaxFaults
    BY StatusAssumption DEF Init
  <2>4. QED
    BY <2>1, <2>2, <2>3, InitStatusType, CopyTypes
    DEF Init, TypeOK, CopyType, SnapshotType, ReconcilerPC
<1>3. Evidence
  BY <1>1, InitStatusType DEF Init, Evidence, EvidenceStored, RunsLeaveEvidence,
     AnalysisHasEvidence, WithRun, Recorded, NoChecks
<1>4. Vetted
  BY InitStatusType DEF Init, Vetted, RecommendationVetted, AnalysisVetted, Successful,
     NoChecks
<1>5. BaselinesCover
  BY InitStatusType
  DEF Init, BaselinesCover, RecommendationNeedsBaselines, AnalysisHasBaselines
<1>6. QED
  BY <1>2, <1>3, <1>4, <1>5 DEF IInv

LEMMA NextInvariant == IInv /\ [Next]_vars => IInv'
<1> SUFFICES ASSUME IInv, [Next]_vars PROVE IInv'
  OBVIOUS
<1>1. CASE ReconcileStep \/ Restart
  BY <1>1, EffectPreserves, WriteSteps, StoreSteps, ReadSteps, LastWrites, SubmitSteps,
     AnalyzeStep DEF ReconcileStep
<1>2. CASE \E r \in RunName : RunSteps(r) \/ Terminated(r)
  BY <1>2, RunStep
<1>3. CASE \E t \in CondType : Overdue(t)
  BY <1>3, OverdueStep
<1>4. CASE UNCHANGED vars
  BY <1>4 DEF vars, runnerVars, reconcilerVars, IInv, TypeOK, RunnerTypeOK, Evidence,
     EvidenceStored, RunsLeaveEvidence, AnalysisHasEvidence, WithRun, Recorded, Vetted,
     RecommendationVetted, AnalysisVetted, Successful, BaselinesCover,
     RecommendationNeedsBaselines, AnalysisHasBaselines, BaselinesStored
<1>5. QED
  BY <1>1, <1>2, <1>3, <1>4 DEF Next

LEMMA Invariant == Spec => []IInv
  BY InitInvariant, NextInvariant, PTL DEF Spec

\* The stored status, the runs, the namespaces and what an invocation holds keep
\* their types, whatever fails (Reconcile, RunCheck).
THEOREM TypeCorrect == Spec => []TypeOK
<1>1. IInv => TypeOK
  BY DEF IInv
<1>2. QED
  BY <1>1, Invariant, PTL

\* A check run in the status always has a recording: RunCheck stores it before it
\* reports, and an analysis that overwrites the check runs had them all.
THEOREM EvidenceAlwaysStored == Spec => []EvidenceStored
<1>1. IInv => EvidenceStored
  BY DEF IInv, Evidence
<1>2. QED
  BY <1>1, Invariant, PTL

\* Whatever is recorded again, retried or lost, a recommendation merges only
\* security contexts that an analysis accepted (AnalyzeCheckRuns,
\* SetRecommendation).
THEOREM RecommendationsAreVetted == Spec => []RecommendationVetted
<1>1. IInv => RecommendationVetted
  BY DEF IInv, Vetted
<1>2. QED
  BY <1>1, Invariant, PTL

\* No recommendation without both baselines, although one condition reports for
\* both of them (AnalyzeCheckRuns).
THEOREM RecommendationsHaveBaselines == Spec => []RecommendationNeedsBaselines
<1>1. IInv => RecommendationNeedsBaselines
  BY DEF IInv, BaselinesCover
<1>2. QED
  BY <1>1, Invariant, PTL

-----------------------------------------------------------------------------
(* WorkloadCheck implements HardeningVerdict.                              *)

\* Some baseline has a recording.
BaselineStored == \E b \in Baseline : b \in recordings

\* The status claims nothing about final runs and bad baselines without a recording.
ClaimsHaveEvidence ==
  /\ status.cond["FinalCheck"] = "recorded" => "Final" \in recordings
  /\ "bad" \in status.baselineRuns => BaselineStored
  /\ snap.baselineFailed => BaselineStored
\* An invocation works on a check without a verdict.
VerdictIsOpen == pc \notin {"idle", "removeConditions"} => status.finished = "no"
\* What it has to know before it gives one.
VerdictIsDue == /\ pc = "finish" => status.rec # NoRec /\ "Final" \in recordings
                /\ pc = "baselineFailed" => BaselineStored

VInv == ClaimsHaveEvidence /\ VerdictIsOpen /\ VerdictIsDue

\* s claims no more than the stored status.
NoNewClaim(s) == /\ s.cond["FinalCheck"] = "recorded" => status.cond["FinalCheck"] = "recorded"
                 /\ "bad" \in s.baselineRuns => "bad" \in status.baselineRuns

LEMMA FinalNames ==
  /\ "Final" \in RunName /\ "FinalCheck" \in CondType
  /\ "FinalCheck" \notin Check
  /\ \A r \in RunName : CondOf(r) = "FinalCheck" => r = "Final"
BY StatusAssumption DEF RunName, CondType, CondOf

LEMMA ConditionClaims ==
  ASSUME status \in Status, NEW t \in CondType, NEW v \in CondVal
  PROVE  /\ WithCondition(status, t, v).finished = status.finished
         /\ WithCondition(status, t, v).baselineRuns = status.baselineRuns
         /\ t # "FinalCheck" \/ v # "recorded" => NoNewClaim(WithCondition(status, t, v))
<1>1. /\ WithCondition(status, t, v).finished = status.finished
      /\ WithCondition(status, t, v).baselineRuns = status.baselineRuns
      /\ WithCondition(status, t, v).cond["FinalCheck"]
           \in {status.cond["FinalCheck"], Stamp(status.cond["FinalCheck"], v)}
      /\ t # "FinalCheck"
           => WithCondition(status, t, v).cond["FinalCheck"] = status.cond["FinalCheck"]
  BY FinalNames DEF WithCondition, Status
<1>2. v # "recorded" => Stamp(status.cond["FinalCheck"], v) # "recorded"
  BY DEF Stamp
<1>3. QED
  BY <1>1, <1>2 DEF NoNewClaim

LEMMA MissingClaims ==
  ASSUME status \in Status
  PROVE  /\ WithMissing(status) \in Status
         /\ WithMissing(status).finished = status.finished
         /\ NoNewClaim(WithMissing(status))
<1>1. WithMissing(status) \in Status
  BY DEF WithMissing, Status, CondVal
<1>2. WithMissing(status).finished = status.finished
  BY DEF WithMissing, Status
<1>3. WithMissing(status).baselineRuns = status.baselineRuns
  BY DEF WithMissing, Status
<1>4. WithMissing(status).cond["FinalCheck"] \in {"unknown", status.cond["FinalCheck"]}
  BY FinalNames DEF WithMissing, Status
<1>5. QED
  BY <1>1, <1>2, <1>3, <1>4 DEF NoNewClaim

\* What a step of run r may claim: that it was recorded, once it was; and it gives
\* no verdict.
RunClaims(r) ==
  /\ status'.finished = status.finished
  /\ \/ NoNewClaim(status')
     \/ runner[r].pc = "finish" /\ r = "Final" /\ status'.baselineRuns = status.baselineRuns
     \/ runner[r].pc = "append" /\ r \in Baseline
        /\ status'.cond["FinalCheck"] = status.cond["FinalCheck"]
  /\ recordings' \in {recordings, recordings \cup {r}}

LEMMA RunStepClaims ==
  ASSUME TypeOK, NEW r \in RunName, RunCheckStep(r) \/ NamespaceGone(r)
  PROVE  RunClaims(r)
<1>1. CASE \/ DeleteLeftover(r) \/ CreateCheckNamespace(r) \/ ReuseNamespace(r)
           \/ ApplyFails(r) \/ RecordLastLogs(r) \/ Record(r) \/ RecordFails(r)
           \/ CleanUp(r) \/ NamespaceGone(r)
  <2>1. status' = status /\ recordings' \in {recordings, recordings \cup {r}}
    BY <1>1 DEF DeleteLeftover, CreateCheckNamespace, ReuseNamespace, ApplyFails,
                RecordLastLogs, Record, RecordFails, CleanUp, NamespaceGone
  <2>2. QED
    BY <2>1 DEF RunClaims, NoNewClaim
<1>2. CASE MarkStarted(r) \/ Apply(r) \/ ReportTimeout(r) \/ ReportFailed(r)
  <2>1. recordings' = recordings
    BY <1>2 DEF MarkStarted, Apply, ReportTimeout, ReportFailed
  <2>2. PICK v \in {"running", "unknown"} : SetCondition(CondOf(r), v)
    BY <1>2 DEF MarkStarted, Apply, ReportTimeout, ReportFailed
  <2>3. status' \in {status, WithCondition(status, CondOf(r), v)}
    BY <2>2 DEF SetCondition, Write
  <2>4. QED
    BY <2>1, <2>3, CondOfType, ConditionClaims DEF RunClaims, NoNewClaim, TypeOK, CondVal
<1>3. CASE FinishCondition(r)
  <2>1. recordings' = recordings /\ runner[r].pc = "finish"
    BY <1>3 DEF FinishCondition, At
  <2>2. status' \in {status, WithCondition(status, CondOf(r), "recorded")}
    BY <1>3 DEF FinishCondition, SetCondition, Write
  <2>3. QED
    BY <2>1, <2>2, CondOfType, ConditionClaims, FinalNames
    DEF RunClaims, NoNewClaim, TypeOK, CondVal
<1>4. CASE AppendCheckRun(r)
  <2>1. recordings' = recordings /\ runner[r].pc = "append"
    BY <1>4 DEF AppendCheckRun, At
  <2>2. status' \in {status, WithCheckRun(status, r)}
    BY <1>4 DEF AppendCheckRun, Write
  <2>3. /\ WithCheckRun(status, r).finished = status.finished
        /\ WithCheckRun(status, r).cond = status.cond
        /\ r \notin Baseline => WithCheckRun(status, r).baselineRuns = status.baselineRuns
    BY DEF WithCheckRun, TypeOK, Status
  <2>4. QED
    BY <2>1, <2>2, <2>3 DEF RunClaims, NoNewClaim
<1>5. QED
  BY <1>1, <1>2, <1>3, <1>4 DEF RunCheckStep

LEMMA RunKeepsClaims ==
  ASSUME IInv, VInv, NEW r \in RunName, RunSteps(r) \/ Terminated(r)
  PROVE  VInv' /\ [Verdict!VNext]_(Verdict!vvars)
<1>1. RunClaims(r) /\ UNCHANGED <<reconcilerVars, accepted>>
  BY RunStepClaims DEF RunSteps, Terminated, NoReconcile, IInv
<1>2. status'.rec = status.rec
  BY SilentSteps, ReportingSteps, AppendStep, CleanUpStep
  DEF RunSteps, Terminated, RunCheckStep, RunEffect, IInv
<1>3. runner[r].pc \in {"finish", "append"} => r \in recordings
  BY DEF IInv, Evidence, RunsLeaveEvidence
<1>4. recordings \subseteq recordings' /\ (BaselineStored => BaselineStored')
  BY <1>1 DEF RunClaims, BaselineStored
<1>5. r \in Baseline /\ runner[r].pc = "append" => BaselineStored'
  BY <1>3, <1>4 DEF BaselineStored
<1>6. ClaimsHaveEvidence'
  BY <1>1, <1>3, <1>4, <1>5
  DEF VInv, ClaimsHaveEvidence, RunClaims, NoNewClaim, reconcilerVars
<1>7. VerdictIsOpen' /\ VerdictIsDue'
  BY <1>1, <1>2, <1>4 DEF VInv, VerdictIsOpen, VerdictIsDue, RunClaims, reconcilerVars
<1>8. Verdict!StoreRecordingOf(r) \/ UNCHANGED Verdict!vvars
  BY <1>1, <1>2 DEF RunClaims, Verdict!StoreRecordingOf, Verdict!vvars
<1>9. QED
  BY <1>6, <1>7, <1>8 DEF VInv, Verdict!VNext, RunName

\* What a step of an invocation may do about the verdict: give the one that it has
\* come to, in the last write but one; it begins only without a verdict.
VerdictEffect ==
  /\ NoNewClaim(status')
  /\ \/ status'.finished = status.finished
     \/ /\ <<pc, status'.finished>> \in {<<"finish", "recommended">>,
                                         <<"finishFailed", "analysisFailed">>,
                                         <<"baselineFailed", "baselineFailed">>}
        /\ pc' \in {"idle", "removeConditions"}
  /\ pc' \in {"idle", "removeConditions"}
       \/ (status.finished = "no" /\ status'.finished = "no")
  /\ snap'.baselineFailed => snap.baselineFailed \/ "bad" \in status.baselineRuns
  /\ pc' = "finish" => /\ status.rec # NoRec /\ status'.rec = status.rec
                       /\ status.cond["FinalCheck"] = "recorded"
  /\ pc' = "baselineFailed" => snap'.baselineFailed

LEMMA LeaveVerdict ==
  ASSUME Requeue \/ Done
  PROVE  pc' = "idle" /\ ~snap'.baselineFailed
<1>1. ~Snapshot(InitStatus).baselineFailed
  BY DEF Snapshot, InitStatus
<1>2. QED
  BY <1>1 DEF Requeue, Done, Leave

\* Only an invocation that begins goes to a successful end.
LEMMA ProceedVerdict ==
  ASSUME NEW next, NEW v, NEW n, Proceed(next, v, n)
  PROVE  /\ pc' \in {"finish", "removeConditions"} => pc' = next
         /\ pc' = "baselineFailed" => snap' = n /\ (n.baselineFailed \/ next = "baselineFailed")
         /\ snap'.baselineFailed => n.baselineFailed
<1>1. Target(next, v, n) \in {"finish", "removeConditions"} => next = Target(next, v, n)
  BY DEF Target, Decide, AfterFinal, AfterBaseline
<1>2. Target(next, v, n) = "baselineFailed" => n.baselineFailed \/ next = "baselineFailed"
  BY DEF Target, Decide, AfterFinal, AfterBaseline
<1>3. QED
  BY <1>1, <1>2, LeaveVerdict DEF Proceed

\* A write with which the invocation goes on, to something other than an end.
LEMMA GoingOn ==
  ASSUME VInv, pc \notin {"idle", "removeConditions"},
         NEW s, s.finished = status.finished, NoNewClaim(s),
         NEW ok, NEW failed,
         {ok, failed} \cap {"finish", "removeConditions", "baselineFailed"} = {},
         WriteOr(s, ok, failed)
  PROVE  VerdictEffect
<1>1. status' \in {status, s} /\ \E next \in {ok, failed} : \E v : Proceed(next, v, snap)
  BY DEF WriteOr
<1>2. /\ pc' \notin {"finish", "removeConditions"}
      /\ pc' = "baselineFailed" => snap'.baselineFailed
      /\ snap'.baselineFailed => snap.baselineFailed
  BY <1>1, ProceedVerdict
<1>3. status'.finished = status.finished /\ NoNewClaim(status')
  BY <1>1 DEF NoNewClaim
<1>4. status.finished = "no"
  BY DEF VInv, VerdictIsOpen
<1>5. QED
  BY <1>2, <1>3, <1>4 DEF VerdictEffect

\* A step that ends the invocation without a verdict.
LEMMA Ending ==
  ASSUME Requeue \/ Done, status'.finished = status.finished, NoNewClaim(status')
  PROVE  VerdictEffect
BY LeaveVerdict DEF VerdictEffect

LEMMA GoingOnSteps ==
  ASSUME TypeOK, VInv,
         \/ FillConditions \/ AnnounceAnalysis \/ AnalysisFailed \/ AnnounceResult
         \/ SetBaselineRecorded \/ SetBaselineRuns \/ StoreAnalysis \/ SetRecommendation
         \/ RecordChecks
  PROVE  VerdictEffect
<1>1. pc \notin {"idle", "removeConditions"}
  BY DEF FillConditions, AnnounceAnalysis, AnalysisFailed, AnnounceResult,
         SetBaselineRecorded, SetBaselineRuns, StoreAnalysis, SetRecommendation, RecordChecks
<1>2. status \in Status
  BY DEF TypeOK
<1>3. CASE FillConditions \/ WriteThen(WithMissing(status), "checkLoop")
  BY <1>1, <1>2, <1>3, MissingClaims, GoingOn DEF FillConditions, WriteThen
<1>4. CASE AnnounceAnalysis \/ AnalysisFailed \/ AnnounceResult
  <2>1. PICK a \in {"running", "done"} : \E next \in {"analyze", "finishFailed", "decide"} :
          WriteOr([status EXCEPT !.analysis = a], next, next)
    BY <1>4 DEF AnnounceAnalysis, AnalysisFailed, AnnounceResult, WriteThen
  <2> DEFINE s == [status EXCEPT !.analysis = a]
  <2>2. s.finished = status.finished /\ NoNewClaim(s)
    BY <1>2 DEF NoNewClaim, Status
  <2> HIDE DEF s
  <2>3. QED
    BY <1>1, <2>1, <2>2, GoingOn DEF s
<1>5. CASE SetBaselineRecorded
  <2>1. /\ "Baseline" \in CondType /\ "recorded" \in CondVal /\ "Baseline" # "FinalCheck"
    BY DEF CondType, CondVal
  <2>2. WriteOr(WithCondition(status, "Baseline", "recorded"), "baselineRuns", "afterBaseline")
    BY <1>5 DEF SetBaselineRecorded
  <2>3. QED
    BY <1>1, <1>2, <2>1, <2>2, ConditionClaims, GoingOn
<1>6. CASE SetBaselineRuns
  <2> DEFINE s == [status EXCEPT !.baselineRuns = {"ok"}]
  <2>1. s.finished = status.finished /\ NoNewClaim(s)
    BY <1>2 DEF NoNewClaim, Status
  <2>2. WriteOr(s, "afterBaseline", "afterBaseline")
    BY <1>6 DEF SetBaselineRuns, WriteThen
  <2> HIDE DEF s
  <2>3. QED
    BY <1>1, <2>1, <2>2, GoingOn
<1>7. CASE StoreAnalysis
  <2> DEFINE s == [status EXCEPT !.checkRuns = analyzed]
  <2>1. s.finished = status.finished /\ NoNewClaim(s)
    BY <1>2 DEF NoNewClaim, Status
  <2>2. WriteOr(s, "recommend", "analysisFailed")
    BY <1>7 DEF StoreAnalysis
  <2> HIDE DEF s
  <2>3. QED
    BY <1>1, <2>1, <2>2, GoingOn
<1>8. CASE WriteThen([status EXCEPT !.rec = Successful(analyzed)], "announceResult")
  <2> DEFINE s == [status EXCEPT !.rec = Successful(analyzed)]
  <2>1. s.finished = status.finished /\ NoNewClaim(s)
    BY <1>2 DEF NoNewClaim, Status
  <2>2. WriteOr(s, "announceResult", "announceResult")
    BY <1>8 DEF WriteThen
  <2> HIDE DEF s
  <2>3. QED
    BY <1>1, <2>1, <2>2, GoingOn
<1>9. CASE UNCHANGED status /\ Proceed("announceResult", view, snap)
  BY <1>1, <1>9, ProceedVerdict DEF VerdictEffect, NoNewClaim, VInv, VerdictIsOpen
<1>10. CASE UNCHANGED status /\ (Done \/ Requeue)
  BY <1>10, Ending DEF NoNewClaim
<1>11. QED
  BY <1>3, <1>4, <1>5, <1>6, <1>7, <1>8, <1>9, <1>10 DEF SetRecommendation, RecordChecks

LEMMA FetchVerdict ==
  ASSUME Fetch
  PROVE  VerdictEffect
<1> DEFINE v == Copy(status)
           n == Snapshot(status)
<1>1. PICK next \in {Enter(v, n), "analysis"} : Proceed(next, v, n)
  BY DEF Fetch
<1>2. /\ status' = status /\ status.finished = "no"
  BY DEF Fetch
<1>3. n.baselineFailed <=> "bad" \in status.baselineRuns
  BY DEF Snapshot
<1>4. Enter(v, n) # "removeConditions"
  BY DEF Enter, Decide, AfterFinal, AfterBaseline
<1>5. Enter(v, n) = "finish" => Finishable(v)
  BY DEF Enter, Decide, AfterFinal, AfterBaseline
<1>6. Finishable(v) => status.rec # NoRec /\ status.cond["FinalCheck"] = "recorded"
  BY DEF Finishable, RecommendationExists, IsRecorded, Copy
<1>7. Enter(v, n) = "baselineFailed" => n.baselineFailed
  BY DEF Enter, Decide, AfterFinal, AfterBaseline
<1>8. pc' = "baselineFailed" => snap'.baselineFailed
  BY <1>1, <1>7, ProceedVerdict
<1>9. QED
  BY <1>1, <1>2, <1>3, <1>4, <1>5, <1>6, <1>8, ProceedVerdict DEF VerdictEffect, NoNewClaim

\* The analysis is read and made; it gives no verdict.
LEMMA AnalyzeVerdict ==
  ASSUME VInv, Analyze \/ AnalyzeFails
  PROVE  VerdictEffect
<1>1. status' = status /\ status.finished = "no"
  BY DEF Analyze, AnalyzeFails, VInv, VerdictIsOpen
<1>2. CASE Analyze
  BY <1>1, <1>2 DEF Analyze, VerdictEffect, NoNewClaim
<1>3. CASE AnalyzeFails
  <2>1. PICK v : Proceed("analysisFailed", v, snap)
    BY <1>3 DEF AnalyzeFails
  <2>2. QED
    BY <1>1, <2>1, ProceedVerdict DEF VerdictEffect, NoNewClaim
<1>4. QED
  BY <1>2, <1>3

\* Steps with which an invocation ends: those that give the verdict and the others.
LEMMA EndingSteps ==
  ASSUME TypeOK, VInv,
         \/ Skip \/ RemoveCheckConditions \/ SubmitFinal \/ MarkOverdue \/ RecordBaseline
         \/ ParallelLoop \/ SequentialLoop \/ Restart
  PROVE  VerdictEffect
<1>1. Requeue \/ Done
  BY DEF Skip, RemoveCheckConditions, SubmitFinal, MarkOverdue, RecordBaseline, ParallelLoop,
         SequentialLoop, Restart
<1>2. status \in Status
  BY DEF TypeOK
<1>3. CASE UNCHANGED status
  BY <1>1, <1>3, Ending DEF NoNewClaim
<1>4. CASE status' = [status EXCEPT !.cond = NoConditions]
  <2>1. status'.finished = status.finished /\ status'.cond["FinalCheck"] = "none"
        /\ status'.baselineRuns = status.baselineRuns
    BY <1>2, <1>4, FinalNames DEF Status, NoConditions
  <2>2. QED
    BY <1>1, <2>1, Ending DEF NoNewClaim
<1>5. CASE MarkOverdue
  <2>1. PICK t \in {"FinalCheck", "Baseline"} :
          status' \in {status, WithCondition(status, t, "unknown")}
    BY <1>5 DEF MarkOverdue, SetCondition, Write
  <2>2. t \in CondType /\ "unknown" \in CondVal
    BY DEF CondType, CondVal
  <2>3. QED
    BY <1>1, <1>2, <2>1, <2>2, ConditionClaims, Ending DEF NoNewClaim
<1>6. ASSUME NEW C, MarkOverdueRuns(C)
      PROVE  VerdictEffect
  <2> DEFINE s == [status EXCEPT !.cond = [t \in CondType |->
                     IF t \in OverdueRuns(C) THEN "unknown" ELSE status.cond[t]]]
  <2>1. s.finished = status.finished /\ NoNewClaim(s)
    BY <1>2, FinalNames DEF Status, NoNewClaim
  <2>2. status' \in {status, s}
    BY <1>6 DEF MarkOverdueRuns, Write
  <2> HIDE DEF s
  <2>3. QED
    BY <1>1, <2>1, <2>2, Ending DEF NoNewClaim
<1>7. QED
  BY <1>3, <1>4, <1>5, <1>6 DEF Skip, RemoveCheckConditions, SubmitFinal, RecordBaseline,
                               ParallelLoop, SequentialLoop, Restart

LEMMA VerdictSteps ==
  ASSUME TypeOK, VInv, FinishRecommended \/ FinishAnalysisFailed \/ FinishBaselineFailed
  PROVE  VerdictEffect
<1>1. status \in Status
  BY DEF TypeOK
<1>2. CASE UNCHANGED status /\ (Requeue \/ Done)
  BY <1>2, Ending DEF NoNewClaim
<1>3. ASSUME NEW how, status' = [status EXCEPT !.finished = how],
             <<pc, how>> \in {<<"finish", "recommended">>,
                              <<"finishFailed", "analysisFailed">>,
                              <<"baselineFailed", "baselineFailed">>}
      PROVE  VerdictEffect
  <2>1. status'.finished = how /\ NoNewClaim(status')
    BY <1>1, <1>3 DEF Status, NoNewClaim
  <2>2. pc' \in {"idle", "removeConditions"} /\ (snap'.baselineFailed => snap.baselineFailed)
    <3>1. CASE Requeue \/ Done
      BY <3>1, LeaveVerdict
    <3>2. CASE Proceed("removeConditions", view, snap)
      <4>1. Target("removeConditions", view, snap) = "removeConditions"
        BY DEF Target
      <4>2. pc' \in {"idle", "removeConditions"}
        BY <3>2, <4>1, LeaveVerdict DEF Proceed
      <4>3. QED
        BY <3>2, <4>2, ProceedVerdict
    <3>3. QED
      BY <3>1, <3>2 DEF FinishRecommended, FinishAnalysisFailed, FinishBaselineFailed
  <2>3. QED
    BY <1>3, <2>1, <2>2 DEF VerdictEffect
<1>4. CASE FinishRecommended
  BY <1>2, <1>3, <1>4 DEF FinishRecommended
<1>5. CASE FinishAnalysisFailed \/ FinishBaselineFailed
  BY <1>2, <1>3, <1>5 DEF FinishAnalysisFailed, FinishBaselineFailed, Write
<1>6. QED
  BY <1>4, <1>5

LEMMA EffectKeepsClaims ==
  ASSUME VInv, VerdictEffect, recordings' = recordings,
         status'.rec # status.rec => pc = "recommend"
  PROVE  VInv'
<1>1. BaselineStored' = BaselineStored
  BY DEF BaselineStored
<1>2. ClaimsHaveEvidence'
  BY <1>1 DEF VInv, ClaimsHaveEvidence, VerdictEffect, NoNewClaim
<1>3. VerdictIsOpen'
  BY DEF VerdictIsOpen, VerdictEffect
<1>4. VerdictIsDue'
  BY <1>1, <1>2 DEF VInv, VerdictIsDue, ClaimsHaveEvidence, VerdictEffect
<1>5. QED
  BY <1>2, <1>3, <1>4 DEF VInv

\* A step of an invocation, and a restart, gives a verdict or recommends.
LEMMA EffectMaps ==
  ASSUME IInv, VInv, ReconcileEffect, VerdictEffect
  PROVE  VInv' /\ [Verdict!VNext]_(Verdict!vvars)
<1>1. UNCHANGED <<recordings, accepted>>
  BY DEF ReconcileEffect
<1>2. VInv'
  BY <1>1, EffectKeepsClaims DEF ReconcileEffect
<1>3. CASE status'.finished = status.finished /\ status'.rec = status.rec
  BY <1>1, <1>2, <1>3 DEF Verdict!vvars
<1>4. CASE status'.rec # status.rec
  <2>1. pc = "recommend" /\ status'.rec = Successful(analyzed)
    BY <1>4 DEF ReconcileEffect
  <2>2. status.finished = "no" /\ status'.finished = "no"
    BY <2>1 DEF VInv, VerdictIsOpen, VerdictEffect
  <2>3. Successful(analyzed) \in SUBSET Check /\ Successful(analyzed) \subseteq accepted
    BY DEF Successful, IInv, Vetted, AnalysisVetted
  <2>4. Verdict!BaselinesKnown
    BY <2>1 DEF IInv, BaselinesCover, AnalysisHasBaselines, BaselinesStored,
                Verdict!BaselinesKnown
  <2>5. Verdict!Recommend(Successful(analyzed))
    BY <1>1, <2>1, <2>2, <2>3, <2>4 DEF Verdict!Recommend
  <2>6. QED
    BY <1>2, <2>3, <2>5 DEF Verdict!VNext
<1>5. CASE status'.finished # status.finished /\ status'.rec = status.rec
  <2>1. <<pc, status'.finished>> \in {<<"finish", "recommended">>,
                                      <<"finishFailed", "analysisFailed">>,
                                      <<"baselineFailed", "baselineFailed">>}
    BY <1>5 DEF VerdictEffect
  <2>2. status.finished = "no"
    BY <2>1 DEF VInv, VerdictIsOpen
  <2>3. CASE pc = "finish" /\ status'.finished = "recommended"
    <3>1. Verdict!Succeed
      BY <1>1, <1>5, <2>2, <2>3 DEF VInv, VerdictIsDue, Verdict!Succeed
    <3>2. QED
      BY <1>2, <3>1 DEF Verdict!VNext
  <2>4. CASE pc # "finish" /\ status'.finished \in {"analysisFailed", "baselineFailed"}
    <3>1. status'.finished = "baselineFailed" => \E b \in Baseline : b \in recordings
      BY <2>1, <2>4 DEF VInv, VerdictIsDue, BaselineStored
    <3>2. Verdict!Fail(status'.finished)
      BY <1>1, <1>5, <2>2, <3>1 DEF Verdict!Fail
    <3>3. QED
      BY <1>2, <2>4, <3>2 DEF Verdict!VNext
  <2>5. QED
    BY <2>1, <2>3, <2>4
<1>6. QED
  BY <1>3, <1>4, <1>5

LEMMA AnalyzeMaps ==
  ASSUME IInv, VInv, Analyze
  PROVE  VInv' /\ [Verdict!VNext]_(Verdict!vvars)
<1>1. UNCHANGED <<status, recordings>> /\ status.finished = "no"
  BY DEF Analyze, VInv, VerdictIsOpen
<1>2. VInv'
  BY <1>1, AnalyzeVerdict, EffectKeepsClaims
<1>3. PICK good \in SUBSET WithRun(status) :
        accepted' = accepted \cup {c \in good : status.checkRuns[c] = "ok"}
  BY DEF Analyze
<1> DEFINE C == {c \in good : status.checkRuns[c] = "ok"}
<1>4. C \in SUBSET Check /\ C \subseteq recordings
  BY DEF WithRun, Analyze
<1>5. Verdict!BaselinesKnown
  BY DEF Analyze, BaselinesStored, Verdict!BaselinesKnown
<1>6. Verdict!Vet(C)
  BY <1>1, <1>3, <1>4, <1>5 DEF Verdict!Vet
<1> HIDE DEF C
<1>7. QED
  BY <1>2, <1>4, <1>6 DEF Verdict!VNext

LEMMA OverdueMaps ==
  ASSUME IInv, VInv, NEW t \in CondType, Overdue(t)
  PROVE  VInv' /\ [Verdict!VNext]_(Verdict!vvars)
<1>1. UNCHANGED <<runnerVars, reconcilerVars, accepted>>
  BY DEF Overdue, NoReconcile
<1>2. /\ status'.finished = status.finished /\ status'.rec = status.rec
      /\ NoNewClaim(status')
  BY FinalNames DEF Overdue, NoNewClaim, IInv, TypeOK, Status
<1>3. BaselineStored' = BaselineStored /\ recordings' = recordings
  BY <1>1 DEF BaselineStored, runnerVars
<1>4. VInv'
  BY <1>1, <1>2, <1>3 DEF VInv, ClaimsHaveEvidence, VerdictIsOpen, VerdictIsDue, NoNewClaim,
                          reconcilerVars
<1>5. QED
  BY <1>1, <1>2, <1>3, <1>4 DEF Verdict!vvars

LEMMA StepMaps == IInv /\ VInv /\ [Next]_vars => VInv' /\ [Verdict!VNext]_(Verdict!vvars)
<1> SUFFICES ASSUME IInv, VInv, [Next]_vars
             PROVE  VInv' /\ [Verdict!VNext]_(Verdict!vvars)
  OBVIOUS
<1>1. TypeOK
  BY DEF IInv
<1>2. CASE (ReconcileStep /\ ~Analyze) \/ Restart
  <2>1. ReconcileEffect
    BY <1>2, WriteSteps, StoreSteps, ReadSteps, LastWrites, SubmitSteps DEF ReconcileStep
  <2>2. VerdictEffect
    BY <1>1, <1>2, GoingOnSteps, FetchVerdict, AnalyzeVerdict, EndingSteps, VerdictSteps
    DEF ReconcileStep
  <2>3. QED
    BY <2>1, <2>2, EffectMaps
<1>3. CASE Analyze
  BY <1>3, AnalyzeMaps
<1>4. CASE \E r \in RunName : RunSteps(r) \/ Terminated(r)
  BY <1>4, RunKeepsClaims
<1>5. CASE \E t \in CondType : Overdue(t)
  BY <1>5, OverdueMaps
<1>6. CASE UNCHANGED vars
  BY <1>6 DEF vars, runnerVars, reconcilerVars, VInv, ClaimsHaveEvidence, VerdictIsOpen,
              VerdictIsDue, BaselineStored, Verdict!vvars
<1>7. QED
  BY <1>2, <1>3, <1>4, <1>5, <1>6 DEF Next

LEMMA InitVerdict == Init => VInv /\ Verdict!VInit
<1>1. ~Snapshot(InitStatus).baselineFailed
  BY DEF Snapshot, InitStatus
<1>2. /\ InitStatus.cond["FinalCheck"] = "none" /\ InitStatus.baselineRuns = {}
      /\ InitStatus.finished = "no" /\ InitStatus.rec = NoRec
  BY FinalNames DEF InitStatus, NoConditions
<1>3. QED
  BY <1>1, <1>2 DEF Init, RunnerInit, VInv, ClaimsHaveEvidence, VerdictIsOpen, VerdictIsDue,
                    Verdict!VInit

\* The workload check implements HardeningVerdict: every step of an invocation, a
\* run, the clock or a restart is one of its steps or invisible to a reader of the
\* status.
THEOREM WorkloadCheckImplementsVerdict == Spec => ImplementsVerdict
  BY InitVerdict, StepMaps, Invariant, PTL DEF Spec, ImplementsVerdict, Verdict!VSpec

\* Once the status says how the check ended, neither that nor the recommendation
\* changes any more, although runs may still go on (Reconcile returns early for a
\* finished check, and only its own invocations write either).
THEOREM VerdictIsFinal ==
  Spec => [][status.finished # "no" => status'.finished = status.finished
                                       /\ status'.rec = status.rec]_vars
<1>1. Init => VInv
  BY InitVerdict
<1>2. IInv /\ VInv /\ [Next]_vars =>
        [status.finished # "no" => status'.finished = status.finished
                                   /\ status'.rec = status.rec]_vars
  <2> SUFFICES ASSUME IInv, VInv, [Next]_vars, status.finished # "no"
               PROVE  status'.finished = status.finished /\ status'.rec = status.rec
    OBVIOUS
  <2>1. [Verdict!VNext]_(Verdict!vvars)
    BY StepMaps
  <2>2. QED
    BY <2>1 DEF Verdict!VNext, Verdict!vvars, Verdict!StoreRecordingOf, Verdict!Vet,
                Verdict!Recommend, Verdict!Succeed, Verdict!Fail
<1>3. QED
  BY <1>1, <1>2, StepMaps, Invariant, PTL DEF Spec
=============================================================================
