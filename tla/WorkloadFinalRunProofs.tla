----------------------- MODULE WorkloadFinalRunProofs -----------------------
(***************************************************************************)
(* What the final run of a workload check reports is a test of the         *)
(* recommendation that stands in the status: proved for every set of       *)
(* checks, any number of failures and both run modes, if no status write   *)
(* is lost, and if not both the reads of the workload fail and the         *)
(* operator restarts.  With either, one recommendation may be tested and   *)
(* another one be stored.                                                  *)
(*                                                                         *)
(* A final run works for minutes, so the proof is about why nobody can     *)
(* recommend anew meanwhile (Settled): the analysis is marked as done, or  *)
(* an earlier invocation was cut off between its recommendation and that   *)
(* mark, and then a check or the baseline it was short of can never be     *)
(* recorded any more, since all runs are over and none but the final run   *)
(* is submitted (Interrupted, PreparingFirst).                             *)
(***************************************************************************)
EXTENDS WorkloadCheckProofs

FinalRunPremise == /\ "write" \notin Faults
                   /\ ~({"fetch", "restart"} \subseteq Faults)

\* Where Reconcile may be on its way to a recommendation, and to other runs.
Analysing == {"analysis", "analyze", "storeAnalysis", "recommend", "announceResult"}
Preparing == {"baselineOverdue", "giveBaseline", "baselineRuns", "recordBaseline",
              "baselineFailed", "recordChecks", "checkLoop"}

FinalBegun == \/ IsRunning("Final")
              \/ status.cond["FinalCheck"] # "none"
              \/ status.finalRun.result # "none"
RunsOver == \A r \in RunName \ {"Final"} : ~IsRunning(r)
\* A status with which Reconcile does not begin an analysis.
Incomplete(s) == \/ ~IsRecorded(s, "Baseline")
                 \/ Missing(s) = {} /\ Unrecorded(s) # {}

\* The recommendation will not be replaced.
Settled == /\ status.rec # NoRec
           /\ \/ status.analysis = "done"
              \/ RunsOver /\ Incomplete(status) /\ pc \notin Analysing

Interrupted ==
  status.rec # NoRec /\ status.analysis # "done"
    => pc = "announceResult" \/ ("restart" \in Faults /\ RunsOver)

AnalysisIsOpen == pc \in Analysing => status.analysis # "done"
SubmitsRec == pc = "submitFinal" => view.rec = status.rec
PreparingFirst == pc \in Preparing => status.rec = NoRec \/ status.analysis = "done"
FillsFirst ==
  pc = "fillConditions" =>
    /\ Missing(status) \subseteq Missing(view) /\ Missing(view) # {}
    /\ status.rec # NoRec /\ status.analysis # "done" => ~FinalBegun
AimsAtSettled ==
  pc \in {"submitFinal", "finalOverdue"} \/ "FinalCheck" \in snap.unknown => Settled
\* What holds of where an invocation has come to.
Position == AnalysisIsOpen /\ SubmitsRec /\ PreparingFirst /\ FillsFirst /\ AimsAtSettled

FinalIsSettled == FinalBegun => Settled
FinalHasRec == IsRunning("Final") => runner["Final"].sc = status.rec

FInv == Position /\ Interrupted /\ FinalIsSettled /\ FinalHasRec
        /\ FinalRunTestsRecommendation

-----------------------------------------------------------------------------
(* The operators, when no write is lost.                                   *)

LEMMA Names ==
  /\ "Final" \in RunName /\ "FinalCheck" \in CondType /\ "Baseline" \in CondType
  /\ "FinalCheck" \notin Check /\ "Baseline" \notin Check /\ "Final" \notin Baseline \cup Check
  /\ Check \subseteq CondType
  /\ CondOf("Final") = "FinalCheck"
  /\ \A r \in RunName \ {"Final"} : CondOf(r) # "FinalCheck"
BY StatusAssumption DEF RunName, CondType, CondOf

LEMMA WritesHappen ==
  ASSUME FinalRunPremise, NEW s
  PROVE  /\ ~Fault("write")
         /\ Write(s) => status' = s
         /\ \A ok, failed : WriteOr(s, ok, failed) => status' = s /\ Proceed(ok, Copy(s), snap)
         /\ \A ok : WriteThen(s, ok) => status' = s /\ Proceed(ok, Copy(s), snap)
BY DEF FinalRunPremise, Fault, Write, WriteOr, WriteThen

LEMMA LeaveSnap ==
  ASSUME Leave
  PROVE  pc' = "idle" /\ snap'.unknown = {}
<1>1. \A t \in CondType : InitStatus.cond[t] = "none"
  BY DEF InitStatus, NoConditions
<1>2. Snapshot(InitStatus).unknown = {}
  BY <1>1 DEF Snapshot, IsUnknown
<1>3. QED
  BY <1>2 DEF Leave

LEMMA ProceedCases ==
  ASSUME NEW next, NEW v, NEW n, Proceed(next, v, n)
  PROVE  \/ pc' = "idle" /\ snap'.unknown = {}
         \/ /\ pc' = Target(next, v, n) /\ snap' = n
            /\ pc' \notin LastLook => view' = v
BY LeaveSnap DEF Proceed, Requeue, Done

\* The same for a step that is named.
LEMMA ProceedDirectly ==
  ASSUME NEW next, next \notin {"decide", "afterBaseline", "requeue", "done"},
         NEW v, NEW n, Proceed(next, v, n)
  PROVE  pc' = next /\ snap' = n
BY DEF Proceed, Target

LEMMA CopyFields ==
  ASSUME NEW s
  PROVE  /\ Copy(s).cond = s.cond /\ Copy(s).rec = s.rec
         /\ Missing(Copy(s)) = Missing(s) /\ Unrecorded(Copy(s)) = Unrecorded(s)
         /\ Snapshot(s).unknown = {t \in CondType : s.cond[t] = "unknown"}
         /\ Snapshot(s).analyzed <=> s.analysis = "done"
BY DEF Copy, Missing, Unrecorded, IsRecorded, Snapshot, IsUnknown

\* Where Reconcile goes from a copy.
LEMMA DecideFacts ==
  ASSUME NEW v, NEW n
  PROVE  /\ Decide(v, n) \notin Analysing \cup {"fillConditions"}
         /\ Decide(v, n) = "submitFinal" =>
              \/ "FinalCheck" \in n.unknown
              \/ v.rec # NoRec /\ v.cond["FinalCheck"] # "recorded"
         /\ Decide(v, n) = "finalOverdue" => v.cond["FinalCheck"] = "late"
         /\ Decide(v, n) \in Preparing => v.rec = NoRec \/ v.cond["FinalCheck"] = "recorded"
BY DEF Decide, AfterFinal, AfterBaseline, Analysing, Preparing, RecommendationExists, IsRecorded,
       IsOverdue

LEMMA EnterFacts ==
  ASSUME NEW s
  PROVE  LET next == Enter(Copy(s), Snapshot(s))
         IN /\ next \in Analysing =>
                 next = "analysis" /\ ~Incomplete(s) /\ s.analysis # "done"
            /\ next = "fillConditions" => ~Incomplete(s) /\ Missing(s) # {}
            /\ next \in {"submitFinal", "finalOverdue"} \cup Preparing =>
                 /\ next = Decide(Copy(s), Snapshot(s))
                 /\ ~(s.rec # NoRec /\ s.cond["FinalCheck"] = "recorded")
                 /\ Incomplete(s) \/ s.analysis = "done"
<1> DEFINE v == Copy(s)
           n == Snapshot(s)
<1>1. /\ IsRecorded(v, "Baseline") <=> IsRecorded(s, "Baseline")
      /\ Missing(v) = Missing(s) /\ Unrecorded(v) = Unrecorded(s)
      /\ n.analyzed <=> s.analysis = "done"
      /\ Finishable(v) <=> (s.rec # NoRec /\ s.cond["FinalCheck"] = "recorded")
  BY CopyFields DEF IsRecorded, Finishable, RecommendationExists
<1>2. Decide(v, n) \notin Analysing \cup {"fillConditions"}
  BY DecideFacts
<1>3. Enter(v, n) = IF Finishable(v) THEN "finish"
                    ELSE IF IsRecorded(v, "Baseline") /\ Missing(v) # {} THEN "fillConditions"
                    ELSE IF IsRecorded(v, "Baseline") /\ Unrecorded(v) = {} /\ ~n.analyzed
                         THEN "analysis" ELSE Decide(v, n)
  BY DEF Enter
<1> HIDE DEF v, n
<1>4. QED
  BY <1>1, <1>2, <1>3 DEF Analysing, Preparing, Incomplete, v, n

-----------------------------------------------------------------------------
(* The runs and the clock: they leave the recommendation and the           *)
(* invocation alone, and only the final run touches what is said of it.    *)

WorldEffect ==
  /\ UNCHANGED reconcilerVars
  /\ status'.rec = status.rec /\ status'.analysis = status.analysis
  /\ \A q \in RunName : ~IsRunning(q) => ~IsRunning(q)'
  /\ IsRunning("Final")' => runner'["Final"].sc = runner["Final"].sc
  /\ \A t \in CondType : status'.cond[t] = "none" => status.cond[t] = "none"
  /\ RunsOver => \A t \in Check \cup {"Baseline"} :
                   /\ IsRecorded(status', t) <=> IsRecorded(status, t)
                   /\ status.cond[t] = "none" => status'.cond[t] = "none"
  /\ ~IsRunning("Final") => /\ status'.finalRun = status.finalRun
                            /\ status.cond["FinalCheck"] = "none"
                                 => status'.cond["FinalCheck"] = "none"
  /\ \/ status'.finalRun = status.finalRun
     \/ status'.finalRun.sc = runner["Final"].sc

LEMMA WorldKeeps ==
  ASSUME FInv, WorldEffect
  PROVE  FInv'
<1>1. RunsOver => RunsOver'
  BY DEF WorldEffect, RunsOver
<1>2. RunsOver /\ Incomplete(status) => Incomplete(status')
  <2> SUFFICES ASSUME RunsOver, Incomplete(status) PROVE Incomplete(status')
    OBVIOUS
  <2>1. \A t \in Check \cup {"Baseline"} :
          /\ IsRecorded(status', t) <=> IsRecorded(status, t)
          /\ status'.cond[t] = "none" <=> status.cond[t] = "none"
    BY Names DEF WorldEffect
  <2>2. Missing(status') = Missing(status) /\ Unrecorded(status') = Unrecorded(status)
    BY <2>1 DEF Missing, Unrecorded
  <2>3. QED
    BY <2>1, <2>2 DEF Incomplete
<1>3. Settled => Settled'
  BY <1>1, <1>2 DEF Settled, WorldEffect, reconcilerVars
<1>4. FinalBegun' => FinalBegun
  BY Names DEF FinalBegun, WorldEffect
<1>5. Position'
  <2>1. Missing(status') \subseteq Missing(status)
    BY Names DEF Missing, WorldEffect
  <2>2. QED
    BY <1>3, <1>4, <2>1
       DEF FInv, Position, AnalysisIsOpen, SubmitsRec, PreparingFirst, FillsFirst,
           AimsAtSettled, WorldEffect, reconcilerVars, Missing
<1>6. Interrupted'
  BY <1>1 DEF FInv, Interrupted, WorldEffect, reconcilerVars
<1>7. FinalIsSettled'
  BY <1>3, <1>4 DEF FInv, FinalIsSettled
<1>8. FinalHasRec'
  BY Names DEF FInv, FinalHasRec, WorldEffect
<1>9. FinalRunTestsRecommendation'
  BY Names DEF FInv, FinalHasRec, FinalRunTestsRecommendation, WorldEffect
<1>10. QED
  BY <1>5, <1>6, <1>7, <1>8, <1>9 DEF FInv

\* How a run moves: none but itself, and it does not change what it applies.
LEMMA RunMoves ==
  ASSUME RunnerTypeOK, NEW r \in RunName, Moves(r) \/ UNCHANGED runner, IsRunning(r)
  PROVE  /\ \A q \in RunName : ~IsRunning(q) => ~IsRunning(q)'
         /\ IsRunning("Final")' => runner'["Final"].sc = runner["Final"].sc
<1>1. CASE Moves(r)
  <2>1. \A q \in RunName \ {r} : runner'[q] = runner[q]
    BY <1>1, MoveType
  <2>2. NoRunner.pc = "none"
    BY DEF NoRunner
  <2>3. runner'[r].sc = runner[r].sc \/ runner'[r].pc = "none"
    BY <1>1, <2>2 DEF Moves, Return, Begin, Goto, RunnerTypeOK, Runner
  <2>4. QED
    BY <2>1, <2>3, Names DEF IsRunning
<1>2. QED
  BY <1>1 DEF IsRunning

\* A condition that is set: only that of the run, to a value that is not "none".
LEMMA SetConditionKeeps ==
  ASSUME FinalRunPremise, status \in Status, NEW t \in CondType, NEW v \in CondVal \ {"none"},
         SetCondition(t, v)
  PROVE  /\ status'.rec = status.rec /\ status'.analysis = status.analysis
         /\ status'.finalRun = status.finalRun
         /\ \A u \in CondType \ {t} : status'.cond[u] = status.cond[u]
         /\ status'.cond[t] # "none"
<1>1. status' = WithCondition(status, t, v)
  BY WritesHappen DEF SetCondition
<1>2. QED
  BY <1>1 DEF WithCondition, Stamp, Status

LEMMA RunsAreWorld ==
  ASSUME FinalRunPremise, IInv, NEW r \in RunName, RunSteps(r) \/ Terminated(r)
  PROVE  WorldEffect
<1>1. TypeOK /\ RunnerTypeOK /\ status \in Status
  BY DEF IInv, TypeOK
<1>2. UNCHANGED reconcilerVars /\ IsRunning(r)
  BY DEF RunSteps, Terminated, NoReconcile, RunCheckStep, NamespaceGone, IsRunning, At,
         DeleteLeftover, CreateCheckNamespace, ReuseNamespace, MarkStarted, Apply, ApplyFails,
         ReportTimeout, RecordLastLogs, ReportFailed, Record, RecordFails, FinishCondition,
         AppendCheckRun, CleanUp
<1>3. Moves(r) \/ UNCHANGED runner
  BY DEF RunSteps, Terminated, RunCheckStep, NamespaceGone, Moves, RunnerPC,
         DeleteLeftover, CreateCheckNamespace, ReuseNamespace, MarkStarted, Apply, ApplyFails,
         ReportTimeout, RecordLastLogs, ReportFailed, Record, RecordFails, FinishCondition,
         AppendCheckRun, CleanUp
<1>4. /\ \A q \in RunName : ~IsRunning(q) => ~IsRunning(q)'
      /\ IsRunning("Final")' => runner'["Final"].sc = runner["Final"].sc
  BY <1>1, <1>2, <1>3, RunMoves
<1>5. CASE UNCHANGED status
  BY <1>2, <1>4, <1>5 DEF WorldEffect
<1>6. CASE \E v \in CondVal \ {"none"} : SetCondition(CondOf(r), v)
  <2>1. /\ status'.rec = status.rec /\ status'.analysis = status.analysis
        /\ status'.finalRun = status.finalRun
        /\ \A u \in CondType \ {CondOf(r)} : status'.cond[u] = status.cond[u]
        /\ status'.cond[CondOf(r)] # "none"
    BY <1>1, <1>6, SetConditionKeeps, CondOfType
  <2>2. RunsOver => r = "Final"
    BY <1>2 DEF RunsOver
  <2>3. ~IsRunning("Final") => CondOf(r) # "FinalCheck"
    BY <1>2, Names
  <2>4. QED
    BY <1>2, <1>4, <2>1, <2>2, <2>3, Names DEF WorldEffect, IsRecorded
<1>7. CASE AppendCheckRun(r)
  <2>1. status' = WithCheckRun(status, r)
    BY <1>7, WritesHappen DEF AppendCheckRun
  <2>2. /\ status'.rec = status.rec /\ status'.analysis = status.analysis
        /\ status'.cond = status.cond
        /\ r # "Final" => status'.finalRun = status.finalRun
        /\ r = "Final" => status'.finalRun.sc = runner[r].sc
    BY <1>1, <2>1, Names DEF WithCheckRun, Status
  <2>3. QED
    BY <1>2, <1>4, <2>2, Names DEF WorldEffect, IsRecorded
<1>8. UNCHANGED status \/ AppendCheckRun(r)
      \/ \E v \in CondVal \ {"none"} : SetCondition(CondOf(r), v)
  BY DEF RunSteps, Terminated, RunCheckStep, NamespaceGone, CondVal,
         DeleteLeftover, CreateCheckNamespace, ReuseNamespace, MarkStarted, Apply, ApplyFails,
         ReportTimeout, RecordLastLogs, ReportFailed, Record, RecordFails, FinishCondition,
         CleanUp
<1>9. QED
  BY <1>5, <1>6, <1>7, <1>8

LEMMA TimeIsWorld ==
  ASSUME IInv, NEW t \in CondType, Overdue(t)
  PROVE  WorldEffect
<1>1. status \in Status
  BY DEF IInv, TypeOK
<1>2. /\ status' = [status EXCEPT !.cond[t] = "late"] /\ status.cond[t] = "running"
      /\ UNCHANGED <<runner, reconcilerVars>>
  BY DEF Overdue, runnerVars, NoReconcile
<1>3. /\ status'.rec = status.rec /\ status'.analysis = status.analysis
      /\ status'.finalRun = status.finalRun
      /\ \A u \in CondType : /\ status'.cond[u] = "none" <=> status.cond[u] = "none"
                             /\ status'.cond[u] = "recorded" <=> status.cond[u] = "recorded"
  BY <1>1, <1>2 DEF Status
<1>4. QED
  BY <1>2, <1>3, Names DEF WorldEffect, IsRecorded, IsRunning

-----------------------------------------------------------------------------
(* Reconcile.                                                              *)

\* A step of an invocation that does not recommend, by what it has to show: that
\* what was settled remains so, and that its new position is one of Position.
LEMMA InvocationKeeps ==
  ASSUME FInv,
         status'.rec = status.rec, status'.finalRun = status.finalRun,
         runner'["Final"] = runner["Final"],
         status'.cond["FinalCheck"] # "none" => Settled \/ status.cond["FinalCheck"] # "none",
         Settled => Settled', Interrupted', Position'
  PROVE  FInv'
<1>1. FinalBegun' => FinalBegun \/ Settled
  BY DEF FinalBegun, IsRunning
<1>2. FinalIsSettled'
  BY <1>1 DEF FInv, FinalIsSettled
<1>3. FinalHasRec' /\ FinalRunTestsRecommendation'
  BY DEF FInv, FinalHasRec, FinalRunTestsRecommendation, IsRunning
<1>4. QED
  BY <1>2, <1>3 DEF FInv

\* An invocation that has come to neither of the places Position speaks of.
LEMMA OtherPositions ==
  ASSUME FInv, Settled => Settled', snap'.unknown = {} \/ snap' = snap,
         pc' \notin Analysing \cup Preparing \cup {"submitFinal", "finalOverdue", "fillConditions"}
  PROVE  Position'
BY DEF FInv, Position, AnalysisIsOpen, SubmitsRec, PreparingFirst, FillsFirst, AimsAtSettled

\* The end of an invocation in which it sets a condition or a result.
LEMMA EndSteps ==
  ASSUME FinalRunPremise, IInv, FInv,
         \/ Skip \/ FinishRecommended \/ RemoveCheckConditions \/ FinishAnalysisFailed
         \/ MarkOverdue \/ FinishBaselineFailed
  PROVE  FInv'
<1>1. status \in Status /\ UNCHANGED runner
  BY DEF IInv, TypeOK, Skip, FinishRecommended, RemoveCheckConditions, FinishAnalysisFailed,
         MarkOverdue, FinishBaselineFailed, NoSubmit
<1>2. /\ status'.rec = status.rec /\ status'.finalRun = status.finalRun
      /\ status'.analysis = status.analysis
      /\ \/ status'.cond = status.cond \/ status'.cond = NoConditions
         \/ \E t \in {"Baseline", "FinalCheck"} :
              /\ status'.cond[t] # "recorded" /\ (t = "FinalCheck" => pc = "finalOverdue")
              /\ \A u \in CondType \ {t} : status'.cond[u] = status.cond[u]
  <2>1. CASE Skip
    BY <2>1 DEF Skip
  <2>2. CASE FinishRecommended \/ RemoveCheckConditions
    BY <1>1, <2>2, WritesHappen DEF FinishRecommended, RemoveCheckConditions, Status
  <2>3. CASE FinishAnalysisFailed \/ FinishBaselineFailed
    <3>1. \E f : status' = [status EXCEPT !.finished = f]
      BY <2>3, WritesHappen DEF FinishAnalysisFailed, FinishBaselineFailed
    <3>2. QED
      BY <1>1, <3>1 DEF Status
  <2>4. CASE MarkOverdue
    <3>1. PICK t \in {"Baseline", "FinalCheck"} :
            /\ status' = WithCondition(status, t, "unknown")
            /\ t = "FinalCheck" => pc = "finalOverdue"
      BY <2>4, WritesHappen DEF MarkOverdue, SetCondition
    <3>2. QED
      BY <1>1, <3>1, Names DEF WithCondition, Stamp, Status
  <2>5. QED
    BY <2>1, <2>2, <2>3, <2>4
<1>3. pc' \in {"idle", "removeConditions"} /\ (snap'.unknown = {} \/ snap' = snap)
  <2>1. CASE FinishRecommended
    BY <2>1, WritesHappen, ProceedDirectly DEF FinishRecommended
  <2>2. CASE Leave
    BY <2>2, LeaveSnap
  <2>3. QED
    BY <2>1, <2>2 DEF Skip, RemoveCheckConditions, FinishAnalysisFailed, MarkOverdue,
       FinishBaselineFailed, Requeue, Done
<1>4. Incomplete(status) => Incomplete(status')
  <2>1. CASE status'.cond = status.cond
    BY <2>1 DEF Incomplete, Missing, Unrecorded, IsRecorded
  <2>2. CASE status'.cond = NoConditions
    BY <2>2, Names DEF Incomplete, IsRecorded, NoConditions
  <2>3. CASE \E t \in {"Baseline", "FinalCheck"} :
               /\ status'.cond[t] # "recorded"
               /\ \A u \in CondType \ {t} : status'.cond[u] = status.cond[u]
    <3>1. \A c \in Check : status'.cond[c] = status.cond[c]
      BY <2>3, Names
    <3>2. Missing(status') = Missing(status) /\ Unrecorded(status') = Unrecorded(status)
      BY <3>1 DEF Missing, Unrecorded, IsRecorded
    <3>3. QED
      BY <2>3, <3>2, Names DEF Incomplete, IsRecorded
  <2>4. QED
    BY <1>2, <2>1, <2>2, <2>3
<1>5. Settled => Settled'
  BY <1>1, <1>2, <1>3, <1>4 DEF Settled, RunsOver, IsRunning, Analysing
<1>6. status'.cond["FinalCheck"] # "none" => Settled \/ status.cond["FinalCheck"] # "none"
  BY <1>2, Names DEF FInv, Position, AimsAtSettled, NoConditions
<1>7. pc # "announceResult"
  BY DEF Skip, FinishRecommended, RemoveCheckConditions, FinishAnalysisFailed, MarkOverdue,
         FinishBaselineFailed
<1>8. Interrupted'
  BY <1>1, <1>2, <1>7 DEF FInv, Interrupted, RunsOver, IsRunning
<1>9. Position'
  BY <1>3, <1>5, OtherPositions DEF Analysing, Preparing
<1>10. QED
  BY <1>1, <1>2, <1>5, <1>6, <1>8, <1>9, InvocationKeeps

\* The analysis: while it is going on, nothing is settled and so no final run has
\* begun.
LEMMA NothingSettled ==
  ASSUME FInv, pc \in Analysing
  PROVE  ~Settled /\ ~FinalBegun /\ "FinalCheck" \notin snap.unknown
BY DEF FInv, Position, AnalysisIsOpen, Settled, FinalIsSettled, AimsAtSettled

LEMMA AnalysisSteps ==
  ASSUME FinalRunPremise, IInv, FInv,
         AnnounceAnalysis \/ Analyze \/ AnalyzeFails \/ StoreAnalysis
  PROVE  FInv'
<1>1. status \in Status /\ UNCHANGED runner
  BY DEF IInv, TypeOK, AnnounceAnalysis, Analyze, AnalyzeFails, StoreAnalysis, NoSubmit
<1>2. pc \in Analysing \ {"announceResult"} /\ status.analysis # "done"
  BY DEF AnnounceAnalysis, Analyze, AnalyzeFails, StoreAnalysis, Analysing,
         FInv, Position, AnalysisIsOpen
<1>3. /\ status'.rec = status.rec /\ status'.finalRun = status.finalRun
      /\ status'.cond = status.cond /\ status'.analysis # "done"
  <2>1. CASE UNCHANGED status
    BY <1>2, <2>1
  <2>2. CASE AnnounceAnalysis
    <3>1. status' = [status EXCEPT !.analysis = "running"]
      BY <2>2, WritesHappen DEF AnnounceAnalysis
    <3>2. QED
      BY <1>1, <3>1 DEF Status
  <2>3. CASE StoreAnalysis
    <3>1. status' = [status EXCEPT !.checkRuns = analyzed]
      BY <2>3, WritesHappen DEF StoreAnalysis
    <3>2. QED
      BY <1>1, <1>2, <3>1 DEF Status
  <2>4. QED
    BY <2>1, <2>2, <2>3 DEF Analyze, AnalyzeFails
<1>4. snap' = snap /\ pc' \in Analysing \cup {"analysisFailed"}
  <2>1. CASE AnnounceAnalysis
    BY <2>1, WritesHappen, ProceedDirectly DEF AnnounceAnalysis, Analysing
  <2>2. CASE Analyze
    BY <2>2 DEF Analyze, Analysing
  <2>3. CASE AnalyzeFails
    BY <2>3, ProceedDirectly DEF AnalyzeFails
  <2>4. CASE StoreAnalysis
    BY <2>4, WritesHappen, ProceedDirectly DEF StoreAnalysis, Analysing
  <2>5. QED
    BY <2>1, <2>2, <2>3, <2>4
<1>5. ~Settled /\ "FinalCheck" \notin snap.unknown
  BY <1>2, NothingSettled
<1>6. Interrupted'
  BY <1>1, <1>2, <1>3 DEF FInv, Interrupted, RunsOver, IsRunning
<1>7. Position'
  BY <1>3, <1>4, <1>5
  DEF Position, AnalysisIsOpen, SubmitsRec, PreparingFirst, FillsFirst, AimsAtSettled,
      Analysing, Preparing
<1>8. QED
  BY <1>1, <1>3, <1>5, <1>6, <1>7, InvocationKeeps

LEMMA AnalysisFailedStep ==
  ASSUME FinalRunPremise, IInv, FInv, AnalysisFailed
  PROVE  FInv'
<1>1. status' = [status EXCEPT !.analysis = "done"] /\ UNCHANGED runner
  BY WritesHappen DEF AnalysisFailed, NoSubmit
<1>2. /\ status'.rec = status.rec /\ status'.finalRun = status.finalRun
      /\ status'.cond = status.cond /\ status'.analysis = "done"
  BY <1>1 DEF IInv, TypeOK, Status
<1>3. pc' = "finishFailed" /\ snap' = snap
  BY WritesHappen, ProceedDirectly DEF AnalysisFailed
<1>4. (Settled => Settled') /\ Interrupted'
  BY <1>2 DEF Settled, Interrupted
<1>5. Position'
  BY <1>3, <1>4, OtherPositions DEF Analysing, Preparing
<1>6. QED
  BY <1>1, <1>2, <1>4, <1>5, InvocationKeeps

\* The only step that replaces a recommendation: no final run has begun.
LEMMA RecommendStep ==
  ASSUME FinalRunPremise, IInv, FInv, SetRecommendation
  PROVE  FInv' /\ ~FinalBegun
<1>1. status \in Status /\ UNCHANGED runner /\ pc \in Analysing
  BY DEF IInv, TypeOK, SetRecommendation, NoSubmit, Analysing
<1>2. /\ status'.finalRun = status.finalRun /\ status'.cond = status.cond
      /\ status'.analysis = status.analysis
  <2>1. status' = status \/ status' = [status EXCEPT !.rec = Successful(analyzed)]
    BY WritesHappen DEF SetRecommendation
  <2>2. QED
    BY <1>1, <2>1 DEF Status
<1>3. pc' = "announceResult" /\ snap' = snap
  BY WritesHappen, ProceedDirectly DEF SetRecommendation
<1>4. ~FinalBegun /\ "FinalCheck" \notin snap.unknown
  BY <1>1, NothingSettled
<1>5. ~FinalBegun'
  BY <1>1, <1>2, <1>4 DEF FinalBegun, IsRunning
<1>6. FinalIsSettled' /\ FinalHasRec' /\ FinalRunTestsRecommendation'
  BY <1>5 DEF FinalIsSettled, FinalHasRec, FinalRunTestsRecommendation, FinalBegun
<1>7. Interrupted'
  BY <1>3 DEF Interrupted
<1>8. Position'
  BY <1>1, <1>2, <1>3, <1>4
  DEF FInv, Position, AnalysisIsOpen, SubmitsRec, PreparingFirst, FillsFirst, AimsAtSettled,
      Analysing, Preparing
<1>9. QED
  BY <1>4, <1>6, <1>7, <1>8 DEF FInv

\* With the analysis done, the recommendation is settled, and a run may be submitted.
LEMMA AnnounceStep ==
  ASSUME FinalRunPremise, IInv, FInv, AnnounceResult
  PROVE  FInv'
<1>1. /\ status' = [status EXCEPT !.analysis = "done"] /\ UNCHANGED runner
      /\ Proceed("decide", Copy(status'), snap)
  BY WritesHappen DEF AnnounceResult, NoSubmit
<1>2. /\ status'.rec = status.rec /\ status'.finalRun = status.finalRun
      /\ status'.cond = status.cond /\ status'.analysis = "done"
  BY <1>1 DEF IInv, TypeOK, Status
<1>3. status.cond["FinalCheck"] = "none" /\ "FinalCheck" \notin snap.unknown
  BY NothingSettled DEF AnnounceResult, Analysing, FinalBegun
<1>4. (Settled => Settled') /\ Interrupted'
  BY <1>2 DEF Settled, Interrupted
<1>5. Position'
  <2> DEFINE next == Decide(Copy(status'), snap)
  <2>1. \/ pc' = "idle" /\ snap'.unknown = {}
        \/ pc' = next /\ snap' = snap /\ (pc' \notin LastLook => view' = Copy(status'))
    BY <1>1, ProceedCases DEF Target
  <2>2. CASE pc' = "idle" /\ snap'.unknown = {}
    BY <1>4, <2>2, OtherPositions DEF Analysing, Preparing
  <2>3. CASE /\ pc' = next /\ snap' = snap /\ (pc' \notin LastLook => view' = Copy(status'))
    <3>1. Copy(status').rec = status'.rec /\ Copy(status').cond = status'.cond
      BY CopyFields
    <3>2. /\ next \notin Analysing \cup {"fillConditions", "finalOverdue"}
          /\ next = "submitFinal" => status'.rec # NoRec
      BY <1>2, <1>3, <3>1, DecideFacts
    <3>3. "submitFinal" \notin LastLook
      BY DEF LastLook
    <3> HIDE DEF next
    <3>4. QED
      BY <1>2, <1>3, <2>3, <3>1, <3>2, <3>3
      DEF Position, AnalysisIsOpen, SubmitsRec, PreparingFirst, FillsFirst, AimsAtSettled,
          Settled
  <2>4. QED
    BY <2>1, <2>2, <2>3
<1>6. QED
  BY <1>1, <1>2, <1>4, <1>5, InvocationKeeps

\* New checks get a condition, and so are there to be recorded: no analysis begins
\* until they are, and an older recommendation is tested as it stands.
LEMMA FillStep ==
  ASSUME FinalRunPremise, IInv, FInv, FillConditions
  PROVE  FInv'
<1>1. /\ status' = WithMissing(status) /\ UNCHANGED runner
      /\ Proceed("decide", Copy(status'), snap)
  BY WritesHappen DEF FillConditions, NoSubmit
<1>2. /\ status'.rec = status.rec /\ status'.finalRun = status.finalRun
      /\ status'.analysis = status.analysis
      /\ \A t \in CondType :
           status'.cond[t] = IF t \in Missing(view) THEN "unknown" ELSE status.cond[t]
  BY <1>1 DEF IInv, TypeOK, Status, WithMissing
<1>3. /\ Missing(status) \subseteq Missing(view) /\ Missing(view) # {}
      /\ status.rec # NoRec /\ status.analysis # "done" => ~FinalBegun
  BY DEF FillConditions, FInv, Position, FillsFirst
<1>4. Incomplete(status')
  <2>1. Missing(status') = {}
    BY <1>2, <1>3, Names DEF Missing
  <2>2. Unrecorded(status') # {}
    BY <1>2, <1>3, Names DEF Missing, Unrecorded, IsRecorded
  <2>3. QED
    BY <2>1, <2>2 DEF Incomplete
<1>5. status'.cond["FinalCheck"] = status.cond["FinalCheck"]
  BY <1>2, Names DEF Missing
<1>6. RunsOver' <=> RunsOver
  BY <1>1 DEF RunsOver, IsRunning
<1>7. Interrupted'
  BY <1>2, <1>6 DEF FInv, Interrupted, FillConditions
<1> DEFINE next == Decide(Copy(status'), snap)
<1>8. \/ pc' = "idle" /\ snap'.unknown = {}
      \/ pc' = next /\ snap' = snap /\ (pc' \notin LastLook => view' = Copy(status'))
  BY <1>1, ProceedCases DEF Target
<1>9. /\ next \notin Analysing \cup {"fillConditions"}
      /\ next = "submitFinal" => "FinalCheck" \in snap.unknown \/ status.rec # NoRec
      /\ next = "finalOverdue" => FinalBegun
      /\ next \in Preparing => status.rec = NoRec \/ FinalBegun
  <2>1. Copy(status').rec = status.rec /\ Copy(status').cond = status'.cond
    BY <1>2, CopyFields
  <2>2. QED
    BY <1>5, <2>1, DecideFacts DEF FinalBegun
<1> HIDE DEF next
<1>10. status.rec # NoRec => Settled'
  BY <1>2, <1>4, <1>6, <1>8, <1>9
  DEF Settled, FInv, Interrupted, FillConditions, Analysing
<1>11. Settled => Settled'
  BY <1>10 DEF Settled
<1>12. FinalBegun => Settled
  BY DEF FInv, FinalIsSettled
<1>13. Position'
  <2>1. CASE pc' = "idle" /\ snap'.unknown = {}
    BY <1>11, <2>1, OtherPositions DEF Analysing, Preparing
  <2>2. CASE pc' = next /\ snap' = snap /\ (pc' \notin LastLook => view' = Copy(status'))
    <3>1. SubmitsRec'
      BY <2>2, CopyFields DEF SubmitsRec, LastLook
    <3>2. PreparingFirst'
      BY <1>2, <1>3, <1>9, <2>2 DEF PreparingFirst
    <3>3. AimsAtSettled'
      BY <1>9, <1>10, <1>11, <1>12, <2>2 DEF AimsAtSettled, FInv, Position
    <3>4. QED
      BY <1>9, <2>2, <3>1, <3>2, <3>3 DEF Position, AnalysisIsOpen, FillsFirst
  <2>3. QED
    BY <1>8, <2>1, <2>2
<1>14. QED
  BY <1>1, <1>2, <1>5, <1>7, <1>11, <1>13, InvocationKeeps

\* The baselines and checks are prepared and submitted before anything is
\* recommended, or not to recommend any more.
LEMMA PreparingSteps ==
  ASSUME FinalRunPremise, IInv, FInv,
         \/ SetBaselineRecorded \/ SetBaselineRuns \/ RecordChecks
         \/ RecordBaseline \/ ParallelLoop \/ SequentialLoop
  PROVE  FInv'
<1>1. status \in Status /\ pc \in Preparing
  BY DEF IInv, TypeOK, SetBaselineRecorded, SetBaselineRuns, RecordChecks, RecordBaseline,
         ParallelLoop, SequentialLoop, Preparing
<1>2. status.rec = NoRec \/ status.analysis = "done"
  BY <1>1 DEF FInv, Position, PreparingFirst
<1> DEFINE Kept == /\ status'.rec = status.rec /\ status'.finalRun = status.finalRun
                   /\ status'.analysis = status.analysis
                   /\ status'.cond["FinalCheck"] = status.cond["FinalCheck"]
<1>3. Kept
  <2>1. CASE SetBaselineRecorded
    <3>1. status' = WithCondition(status, "Baseline", "recorded")
      BY <2>1, WritesHappen DEF SetBaselineRecorded
    <3>2. QED
      BY <1>1, <3>1, Names DEF WithCondition, Status
  <2>2. CASE SetBaselineRuns
    <3>1. status' = [status EXCEPT !.baselineRuns = {"ok"}]
      BY <2>2, WritesHappen DEF SetBaselineRuns
    <3>2. QED
      BY <1>1, <3>1 DEF Status
  <2>3. CASE RecordChecks
    <3>1. status' = status \/ status' = WithMissing(status)
      BY <2>3, WritesHappen DEF RecordChecks
    <3>2. QED
      BY <1>1, <3>1, Names DEF WithMissing, Status, Missing
  <2>4. ASSUME NEW C, MarkOverdueRuns(C), C \subseteq Check
        PROVE  Kept
    <3>1. \/ status' = status
          \/ status' = [status EXCEPT !.cond = [t \in CondType |->
                          IF t \in OverdueRuns(C) THEN "unknown" ELSE status.cond[t]]]
      BY <2>4, WritesHappen DEF MarkOverdueRuns
    <3>2. QED
      BY <1>1, <2>4, <3>1, Names DEF Status, OverdueRuns
  <2>5. CASE ParallelLoop \/ SequentialLoop
    <3>1. \/ UNCHANGED status
          \/ \E C \in SUBSET Check : MarkOverdueRuns(C)
      BY <2>5 DEF ParallelLoop, SequentialLoop, Unrecorded
    <3>2. QED
      BY <2>4, <3>1
  <2>6. QED
    BY <2>1, <2>2, <2>3, <2>5 DEF RecordBaseline
<1>4. runner'["Final"] = runner["Final"]
  <2>1. ASSUME NEW R, NEW u, NEW sc, Submit(R, u, sc), "Final" \notin R
        PROVE  runner'["Final"] = runner["Final"]
    BY <2>1, Names DEF Submit
  <2>2. "Final" \notin Baseline /\ "Final" \notin Check
    BY Names
  <2>3. QED
    BY <2>1, <2>2 DEF SetBaselineRecorded, SetBaselineRuns, RecordChecks, RecordBaseline,
       ParallelLoop, SequentialLoop, NoSubmit, Unrecorded
<1>5. (Settled => Settled') /\ Interrupted'
  BY <1>2, <1>3 DEF Settled, Interrupted
<1> DEFINE Goes == \/ pc' = "idle" /\ snap'.unknown = {}
                   \/ /\ pc' \in {"baselineRuns", "recordBaseline", "baselineFailed",
                                  "recordChecks", "checkLoop"}
                      /\ snap' = snap
<1>6. Goes
  <2>1. ASSUME NEW next \in {"baselineRuns", "afterBaseline", "checkLoop"}, NEW v,
               Proceed(next, v, snap)
        PROVE  Goes
    BY <2>1, ProceedCases DEF Target, AfterBaseline, Proceed, ReconcilerPC
  <2>2. CASE Leave
    BY <2>2, LeaveSnap
  <2>3. QED
    BY <2>1, <2>2, WritesHappen
    DEF SetBaselineRecorded, SetBaselineRuns, RecordChecks, RecordBaseline,
        ParallelLoop, SequentialLoop, Requeue, Done
<1>7. Position'
  BY <1>2, <1>3, <1>5, <1>6
  DEF FInv, Position, AnalysisIsOpen, SubmitsRec, PreparingFirst, FillsFirst, AimsAtSettled,
      Analysing, Preparing
<1>8. QED
  BY <1>3, <1>4, <1>5, <1>7, InvocationKeeps

\* A new invocation. With a recommendation and the analysis not marked as done,
\* an earlier one was cut off: then no fetch fails, by the premise.
LEMMA FetchStep ==
  ASSUME FinalRunPremise, IInv, FInv, Fetch
  PROVE  FInv'
<1> DEFINE v == Copy(status)
           n == Snapshot(status)
           next == Enter(v, n)
<1>1. UNCHANGED <<status, runner>> /\ pc = "idle"
  BY DEF Fetch, NoSubmit
<1>2. \/ pc' = "idle" /\ snap'.unknown = {}
      \/ pc' = next /\ snap' = n /\ (pc' \notin LastLook => view' = v)
      \/ /\ pc' = "analysis" /\ snap' = n
         /\ "fetch" \in Faults /\ ~n.analyzed
  <2>1. CASE Proceed(next, v, n)
    <3>1. next \notin {"decide", "afterBaseline"}
      BY DEF Enter, Decide, AfterFinal, AfterBaseline
    <3>2. Target(next, v, n) = next
      BY <3>1 DEF Target
    <3> HIDE DEF next, v, n
    <3>3. QED
      BY <2>1, <3>2, ProceedCases
  <2>2. CASE Proceed("analysis", v, n) /\ Fault("fetch") /\ ~n.analyzed
    BY <2>2, ProceedDirectly DEF Fault
  <2>3. QED
    BY <2>1, <2>2 DEF Fetch
<1>3. /\ n.unknown = {t \in CondType : status.cond[t] = "unknown"}
      /\ n.analyzed <=> status.analysis = "done"
      /\ v.rec = status.rec /\ v.cond = status.cond /\ Missing(v) = Missing(status)
  BY CopyFields
<1>4. /\ next \in Analysing => ~Incomplete(status) /\ status.analysis # "done"
      /\ next = "fillConditions" => ~Incomplete(status) /\ Missing(status) # {}
      /\ next \in {"submitFinal", "finalOverdue"} \cup Preparing =>
           /\ next = Decide(v, n)
           /\ ~(status.rec # NoRec /\ status.cond["FinalCheck"] = "recorded")
           /\ Incomplete(status) \/ status.analysis = "done"
  BY EnterFacts
<1>5. /\ Decide(v, n) = "submitFinal" => "FinalCheck" \in n.unknown \/ status.rec # NoRec
      /\ Decide(v, n) = "finalOverdue" => FinalBegun
      /\ Decide(v, n) \in Preparing =>
           status.rec = NoRec \/ status.cond["FinalCheck"] = "recorded"
  BY <1>3, DecideFacts DEF FinalBegun
<1> HIDE DEF next, v, n
<1>6. "FinalCheck" \in n.unknown => FinalBegun
  BY <1>3 DEF FinalBegun
<1>7. FinalBegun => Settled
  BY DEF FInv, FinalIsSettled
<1>8. status.rec # NoRec /\ status.analysis # "done" => "restart" \in Faults /\ RunsOver
  BY <1>1 DEF FInv, Interrupted
<1>9. RunsOver' <=> RunsOver
  BY <1>1 DEF RunsOver, IsRunning
<1>10. Interrupted'
  BY <1>1, <1>8, <1>9 DEF Interrupted
<1>11. CASE pc' = "analysis" /\ snap' = n /\ "fetch" \in Faults /\ ~n.analyzed
  <2>1. ~Settled
    BY <1>3, <1>8, <1>11 DEF Settled, FinalRunPremise
  <2>2. Position'
    BY <1>1, <1>3, <1>6, <1>7, <1>11, <2>1
    DEF Position, AnalysisIsOpen, SubmitsRec, PreparingFirst, FillsFirst, AimsAtSettled,
        Preparing
  <2>3. QED
    BY <1>1, <1>10, <2>1, <2>2, InvocationKeeps
<1>12. CASE \/ pc' = "idle" /\ snap'.unknown = {}
            \/ pc' = next /\ snap' = n /\ (pc' \notin LastLook => view' = v)
  <2>1. pc' \in Analysing => status.analysis # "done" /\ ~Incomplete(status)
    BY <1>4, <1>12 DEF Analysing
  <2>2. Settled => Settled'
    BY <1>1, <1>9, <2>1 DEF Settled
  <2>3. CASE pc' = "idle" /\ snap'.unknown = {}
    <3>1. Position'
      BY <2>2, <2>3, OtherPositions DEF Analysing, Preparing
    <3>2. QED
      BY <1>1, <1>10, <2>2, <3>1, InvocationKeeps
  <2>4. CASE pc' = next /\ snap' = n /\ (pc' \notin LastLook => view' = v)
    <3>1. AnalysisIsOpen'
      BY <1>1, <2>1 DEF AnalysisIsOpen
    <3>2. SubmitsRec'
      BY <1>1, <1>3, <2>4 DEF SubmitsRec, LastLook
    <3>3. PreparingFirst'
      BY <1>1, <1>4, <1>5, <2>4 DEF PreparingFirst
    <3>4. FillsFirst'
      <4> SUFFICES ASSUME pc' = "fillConditions"
                   PROVE  /\ Missing(status') \subseteq Missing(view') /\ Missing(view') # {}
                          /\ status'.rec # NoRec /\ status'.analysis # "done"
                               => ~FinalBegun'
        BY DEF FillsFirst
      <4>1. ~Incomplete(status) /\ Missing(status) # {} /\ view' = v
        BY <1>4, <2>4 DEF LastLook
      <4>2. FinalBegun' <=> FinalBegun
        BY <1>1 DEF FinalBegun, IsRunning
      <4>3. QED
        BY <1>1, <1>3, <1>7, <4>1, <4>2 DEF Settled
    <3>5. AimsAtSettled'
      <4>1. CASE pc' = "submitFinal"
        <5>1. \/ "FinalCheck" \in n.unknown
              \/ status.rec # NoRec /\ (Incomplete(status) \/ status.analysis = "done")
          BY <1>4, <1>5, <2>4, <4>1
        <5>2. Settled'
          BY <1>1, <1>6, <1>7, <1>8, <1>9, <2>2, <4>1, <5>1 DEF Settled, Analysing
        <5>3. QED
          BY <5>2 DEF AimsAtSettled
      <4>2. CASE pc' = "finalOverdue" \/ "FinalCheck" \in snap'.unknown
        BY <1>4, <1>5, <1>6, <1>7, <2>2, <2>4, <4>2 DEF AimsAtSettled
      <4>3. QED
        BY <4>1, <4>2 DEF AimsAtSettled
    <3>6. QED
      BY <1>1, <1>10, <2>2, <3>1, <3>2, <3>3, <3>4, <3>5, InvocationKeeps DEF Position
  <2>5. QED
    BY <1>12, <2>3, <2>4
<1>13. QED
  BY <1>2, <1>11, <1>12

LEMMA SubmitFinalStep ==
  ASSUME IInv, FInv, SubmitFinal
  PROVE  FInv'
<1>1. /\ UNCHANGED status /\ Submit({"Final"}, snap.unknown, view.rec)
      /\ pc = "submitFinal" /\ pc' = "idle" /\ snap'.unknown = {}
  BY LeaveSnap DEF SubmitFinal, FinalContext, Requeue
<1>2. Settled /\ view.rec = status.rec
  BY <1>1 DEF FInv, Position, AimsAtSettled, SubmitsRec
<1>3. /\ \A q \in RunName \ {"Final"} : runner'[q] = runner[q]
      /\ runner'["Final"] = runner["Final"] \/ runner'["Final"].sc = status.rec
      /\ IsRunning("Final") => runner'["Final"] = runner["Final"]
  BY <1>1, <1>2, Names DEF Submit
<1>4. RunsOver' <=> RunsOver
  BY <1>3 DEF RunsOver, IsRunning
<1>5. Settled'
  BY <1>1, <1>2, <1>4 DEF Settled, Analysing
<1>6. FinalIsSettled' /\ FinalHasRec' /\ FinalRunTestsRecommendation'
  BY <1>1, <1>3, <1>5
  DEF FInv, FinalIsSettled, FinalHasRec, FinalRunTestsRecommendation, IsRunning
<1>7. Interrupted'
  BY <1>1, <1>4 DEF FInv, Interrupted
<1>8. Position'
  BY <1>1, <1>5, OtherPositions DEF Analysing, Preparing
<1>9. QED
  BY <1>6, <1>7, <1>8 DEF FInv

LEMMA RestartStep ==
  ASSUME FInv, Restart
  PROVE  FInv'
<1>1. /\ UNCHANGED status /\ "restart" \in Faults
      /\ \A r \in RunName : ~IsRunning(r)'
      /\ pc' = "idle" /\ snap'.unknown = {}
  BY LeaveSnap DEF Restart, Requeue, Fault, NoRunner, IsRunning
<1>2. (Settled => Settled') /\ Interrupted'
  BY <1>1 DEF Settled, Interrupted, RunsOver, Analysing
<1>3. Position'
  BY <1>1, <1>2, OtherPositions DEF Analysing, Preparing
<1>4. FinalIsSettled' /\ FinalHasRec' /\ FinalRunTestsRecommendation'
  BY <1>1, <1>2, Names
  DEF FInv, FinalIsSettled, FinalHasRec, FinalRunTestsRecommendation, FinalBegun
<1>5. QED
  BY <1>2, <1>3, <1>4 DEF FInv

-----------------------------------------------------------------------------
(* The theorems.                                                           *)

LEMMA InitSettles == Init => FInv
<1> SUFFICES ASSUME Init PROVE FInv
  OBVIOUS
<1>1. /\ status = InitStatus /\ pc = "idle"
      /\ \A r \in RunName : ~IsRunning(r)
  BY DEF Init, RunnerInit, NoRunner, IsRunning
<1>2. /\ status.rec = NoRec /\ status.finalRun.result = "none"
      /\ \A t \in CondType : status.cond[t] = "none"
  BY <1>1 DEF InitStatus, NoConditions
<1>3. "FinalCheck" \notin snap.unknown
  <2>1. snap.unknown = {t \in CondType : InitStatus.cond[t] = "unknown"}
    BY CopyFields DEF Init
  <2>2. QED
    BY <1>1, <1>2, <2>1
<1>4. QED
  BY <1>1, <1>2, <1>3, Names
  DEF FInv, Position, AnalysisIsOpen, SubmitsRec, PreparingFirst, FillsFirst, AimsAtSettled,
      Interrupted, FinalIsSettled, FinalHasRec, FinalRunTestsRecommendation, FinalBegun,
      Analysing, Preparing

\* Only SetRecommendation replaces the recommendation.
LEMMA OthersKeepRecommendation ==
  ASSUME FinalRunPremise, IInv, ReconcileStep, ~SetRecommendation
  PROVE  status'.rec = status.rec
<1>1. status \in Status
  BY DEF IInv, TypeOK
<1>2. CASE UNCHANGED status
  BY <1>2
<1>3. ASSUME NEW c, \/ status' = [status EXCEPT !.cond = c]
                    \/ status' = [status EXCEPT !.analysis = c]
                    \/ status' = [status EXCEPT !.finished = c]
                    \/ status' = [status EXCEPT !.checkRuns = c]
                    \/ status' = [status EXCEPT !.baselineRuns = c]
      PROVE  status'.rec = status.rec
  BY <1>1, <1>3 DEF Status
<1>4. ASSUME NEW t, NEW v, status' = WithCondition(status, t, v)
      PROVE  status'.rec = status.rec
  BY <1>1, <1>4 DEF WithCondition, Status
<1>5. CASE FinishRecommended \/ RemoveCheckConditions \/ FinishAnalysisFailed
           \/ FinishBaselineFailed
  BY <1>3, <1>5, WritesHappen
  DEF FinishRecommended, RemoveCheckConditions, FinishAnalysisFailed, FinishBaselineFailed
<1>6. CASE AnnounceAnalysis \/ StoreAnalysis \/ AnalysisFailed \/ AnnounceResult
  <2>1. \/ status' = [status EXCEPT !.analysis = "running"]
        \/ status' = [status EXCEPT !.analysis = "done"]
        \/ status' = [status EXCEPT !.checkRuns = analyzed]
    BY <1>6, WritesHappen DEF AnnounceAnalysis, StoreAnalysis, AnalysisFailed, AnnounceResult
  <2>2. QED
    BY <1>1, <2>1 DEF Status
<1>7. CASE MarkOverdue \/ SetBaselineRecorded
  <2>1. \E t, v : status' = WithCondition(status, t, v)
    BY <1>7, WritesHappen DEF MarkOverdue, SetCondition, SetBaselineRecorded
  <2>2. QED
    BY <1>4, <2>1
<1>8. CASE SetBaselineRuns \/ RecordChecks \/ FillConditions
  <2>1. \/ status' = status \/ status' = WithMissing(status)
        \/ status' = [status EXCEPT !.baselineRuns = {"ok"}]
    BY <1>8, WritesHappen DEF SetBaselineRuns, RecordChecks, FillConditions
  <2>2. QED
    BY <1>1, <2>1 DEF Status, WithMissing
<1>9. CASE ParallelLoop \/ SequentialLoop
  BY <1>3, <1>9, WritesHappen DEF ParallelLoop, SequentialLoop, MarkOverdueRuns
<1>10. CASE Skip \/ Fetch \/ Analyze \/ AnalyzeFails \/ SubmitFinal \/ RecordBaseline
  BY <1>2, <1>10 DEF Skip, Fetch, Analyze, AnalyzeFails, SubmitFinal, RecordBaseline
<1>11. QED
  BY <1>5, <1>6, <1>7, <1>8, <1>9, <1>10 DEF ReconcileStep

\* Every step keeps FInv, and none replaces a recommendation whose final run began.
LEMMA StepSettles ==
  ASSUME FinalRunPremise, IInv, FInv, [Next]_vars
  PROVE  FInv' /\ (FinalBegun => status'.rec = status.rec)
<1>1. CASE ReconcileStep
  <2>1. FInv'
    BY <1>1, AnalysisSteps, AnalysisFailedStep, RecommendStep, AnnounceStep, FillStep,
       PreparingSteps, FetchStep, SubmitFinalStep, EndSteps DEF ReconcileStep
  <2>2. FinalBegun => status'.rec = status.rec
    BY <1>1, RecommendStep, OthersKeepRecommendation
  <2>3. QED
    BY <2>1, <2>2
<1>2. CASE \E r \in RunName : RunSteps(r) \/ Terminated(r)
  BY <1>2, RunsAreWorld, WorldKeeps DEF WorldEffect
<1>3. CASE \E t \in CondType : Overdue(t)
  BY <1>3, TimeIsWorld, WorldKeeps DEF WorldEffect
<1>4. CASE Restart
  BY <1>4, RestartStep DEF Restart
<1>5. CASE UNCHANGED vars
  <2>1. WorldEffect
    BY <1>5 DEF vars, WorldEffect, reconcilerVars, runnerVars, IsRunning
  <2>2. QED
    BY <2>1, WorldKeeps DEF WorldEffect
<1>6. QED
  BY <1>1, <1>2, <1>3, <1>4, <1>5 DEF Next

LEMMA SettledAlways ==
  ASSUME FinalRunPremise
  PROVE  Spec => [](IInv /\ FInv)
<1>1. IInv /\ FInv /\ [Next]_vars => FInv'
  BY StepSettles
<1>2. QED
  BY <1>1, InitSettles, InitInvariant, NextInvariant, PTL DEF Spec

\* What the final run reports is a test of the recommendation in the status, however
\* the runs, the clock and a failure of another kind come between the invocation
\* that submits it and its report (SubmitFinal of Reconcile, AppendCheckRun of
\* RunCheck).
THEOREM FinalRunsTestTheRecommendation ==
  ASSUME FinalRunPremise
  PROVE  Spec => []FinalRunTestsRecommendation
<1>1. FInv => FinalRunTestsRecommendation
  BY DEF FInv
<1>2. QED
  BY <1>1, SettledAlways, PTL

\* From the moment a final run is submitted its recommendation stands: no analysis
\* replaces it, also after the run has failed or was lost and is submitted again
\* (SetRecommendation).
THEOREM TestedRecommendationStands ==
  ASSUME FinalRunPremise
  PROVE  Spec => [][FinalBegun => status'.rec = status.rec]_vars
<1>1. IInv /\ FInv /\ [Next]_vars => [FinalBegun => status'.rec = status.rec]_vars
  BY StepSettles
<1>2. QED
  BY <1>1, SettledAlways, PTL DEF Spec
=============================================================================
