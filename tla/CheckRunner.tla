---------------------------- MODULE CheckRunner -----------------------------
(***************************************************************************)
(* internal/runner/runner.go: RunCheck, one goroutine of the executor per  *)
(* check run.  It clones the namespace, applies a security context to the  *)
(* clone of the workload, records it, stores the recording in ValKey and   *)
(* reports to the status in two separate writes.                           *)
(*                                                                         *)
(* A run is registered with the executor from its submission until it      *)
(* returns (module CheckRunRegistry).  Deleting a namespace only starts    *)
(* its termination; the cluster completes it later.                        *)
(***************************************************************************)
EXTENDS HardeningStatus

VARIABLES runner,              \* the goroutine of each run
          ns,                  \* the cloned namespace of each run
          recordings           \* the runs with a recording in ValKey

runnerVars == <<runner, ns, recordings>>

RunnerPC == {"none", "submitted", "recheck", "mark", "apply", "timeout", "lastLogs",
             "record", "fail", "finish", "append", "cleanup", "hung"}

\* retry: the copy of the status the runner was built with says Unknown;
\* ok: checkSuccessful, whether the pods became ready;
\* sc: the recommendation a final run applies.
Runner == [pc : RunnerPC, retry : BOOLEAN, ok : BOOLEAN, sc : Recommendation]
NoRunner == [pc |-> "none", retry |-> FALSE, ok |-> FALSE, sc |-> NoRec]

RunnerTypeOK == /\ runner \in [RunName -> Runner]
                /\ ns \in [RunName -> {"absent", "active", "terminating"}]
                /\ recordings \in SUBSET RunName

RunnerInit == /\ runner = [r \in RunName |-> NoRunner]
              /\ ns = [r \in RunName |-> "absent"]
              /\ recordings = {}

IsRunning(r) == runner[r].pc # "none"

\* Executor.Submit of the runs in R, for which the condition types in `unknown`
\* are Unknown. A run that is registered is left alone.
Submit(R, unknown, sc) ==
  runner' = [r \in RunName |->
               IF r \in R /\ ~IsRunning(r)
               THEN [pc |-> "submitted", retry |-> CondOf(r) \in unknown, ok |-> FALSE,
                     sc |-> sc]
               ELSE runner[r]]

At(r, pc) == runner[r].pc = pc
Goto(r, pc) == runner' = [runner EXCEPT ![r].pc = pc]

\* The namespace is there; `retry` is not looked at again.
Begin(r) == runner' = [runner EXCEPT ![r].pc = "mark", ![r].retry = FALSE]

\* RunCheck returns, or panics, and the deferred removeRun of the executor makes
\* the ID free again.
Return(r) == runner' = [runner EXCEPT ![r] = NoRunner]

-----------------------------------------------------------------------------
(* RunCheck, step by step.                                                 *)

\* namespace.Delete; the callers only log its error.
DeleteNamespace(r) ==
  \/ /\ ns' = [ns EXCEPT ![r] = IF @ = "active" THEN "terminating" ELSE @]
     /\ NoFault
  \/ Fault("delete") /\ UNCHANGED ns

\* A namespace left by a run that did not finish is deleted first.
DeleteLeftover(r) ==
  /\ At(r, "submitted")
  /\ ns[r] # "absent"
  /\ runner[r].retry
  /\ DeleteNamespace(r)
  /\ Goto(r, "recheck")
  /\ UNCHANGED <<status, recordings>>

\* Clone into a new namespace. It fails before or after it created that; RunCheck
\* then returns without a word in the status.
CreateCheckNamespace(r) ==
  /\ At(r, "submitted") \/ At(r, "recheck")
  /\ ns[r] = "absent"
  /\ \/ ns' = [ns EXCEPT ![r] = "active"] /\ Begin(r) /\ NoFault
     \/ /\ \E left \in {"absent", "active"} : ns' = [ns EXCEPT ![r] = left]
        /\ Return(r)
        /\ Fault("clone")
  /\ UNCHANGED <<status, recordings>>

\* A namespace that exists is used as it is, also one that is terminating.
ReuseNamespace(r) ==
  /\ \/ At(r, "recheck")
     \/ At(r, "submitted") /\ ~runner[r].retry
  /\ ns[r] # "absent"
  /\ Begin(r)
  /\ UNCHANGED <<status, faults, ns, recordings>>

\* setStatusRunning
MarkStarted(r) ==
  /\ At(r, "mark")
  /\ SetCondition(CondOf(r), "running")
  /\ Goto(r, "apply")
  /\ UNCHANGED <<ns, recordings>>

\* GetWorkloadUnderTest, applySecurityContext, waitForUpdatedPods, and the
\* condition once more.
Apply(r) ==
  /\ At(r, "apply")
  /\ ns[r] # "absent"
  /\ SetCondition(CondOf(r), "running")
  /\ Goto(r, "record")
  /\ UNCHANGED <<ns, recordings>>

\* A step in the cloned namespace fails, or finds that it is going away.
Broken(r) == \/ ns[r] # "active" /\ NoFault
             \/ Fault("run")

ApplyFails(r) ==
  /\ At(r, "apply")
  /\ Broken(r)
  /\ \E pc \in {"fail", "timeout"} : Goto(r, pc)
  /\ UNCHANGED <<status, ns, recordings>>

\* waitForUpdatedPods after two minutes: it reports,
ReportTimeout(r) ==
  /\ At(r, "timeout")
  /\ SetCondition(CondOf(r), "unknown")
  /\ Goto(r, "lastLogs")
  /\ UNCHANGED <<ns, recordings>>

\* ... records the last logs (for ever, if there are no pods), stores them and
\* deletes the namespace.
RecordLastLogs(r) ==
  /\ At(r, "lastLogs")
  /\ \/ /\ ns[r] # "absent"
        /\ recordings' = recordings \cup {r}
        /\ DeleteNamespace(r)
        /\ Goto(r, "fail")
     \/ Broken(r) /\ Goto(r, "fail") /\ UNCHANGED <<ns, recordings>>
     \/ "hang" \in Faults /\ Goto(r, "hung") /\ NoFault /\ UNCHANGED <<ns, recordings>>
  /\ UNCHANGED status

\* setStatusFailed: "considered transient, and the check can be retried later".
ReportFailed(r) ==
  /\ At(r, "fail")
  /\ SetCondition(CondOf(r), "unknown")
  /\ Return(r)
  /\ UNCHANGED <<ns, recordings>>

\* recordMetrics, recordLogs, VerifyReadiness and StoreRecording.
RecordWithoutStoring(r) ==
  /\ At(r, "record")
  /\ ns[r] # "absent"
  /\ \E ok \in BOOLEAN : runner' = [runner EXCEPT ![r].pc = "finish", ![r].ok = ok]
  /\ UNCHANGED <<status, faults, ns, recordings>>

Record(r) ==
  /\ At(r, "record")
  /\ ns[r] # "absent"
  /\ recordings' = recordings \cup {r}
  /\ \E ok \in BOOLEAN : runner' = [runner EXCEPT ![r].pc = "finish", ![r].ok = ok]
  /\ UNCHANGED <<status, faults, ns>>

\* Recording the metrics of a pod panics when one of its samples failed; without
\* pods both recorders look for them for ever.
RecordFails(r) ==
  /\ At(r, "record")
  /\ \/ Broken(r) /\ Goto(r, "fail")
     \/ Fault("panic") /\ Return(r)
     \/ "hang" \in Faults /\ ns[r] # "active" /\ NoFault /\ Goto(r, "hung")
     \/ Fault("hang") /\ Goto(r, "hung")
  /\ UNCHANGED <<status, ns, recordings>>

\* setStatusFinishedSuccessfully and setStatusFinishedFailure: first the
\* condition,
FinishCondition(r) ==
  /\ At(r, "finish")
  /\ SetCondition(CondOf(r), "recorded")
  /\ Goto(r, "append")
  /\ UNCHANGED <<ns, recordings>>

\* ... then the CheckRun.
FinalRunAmongChecks(s, r) ==
  [s EXCEPT !.checkRuns = [c \in Check \cup {r} |-> IF c = r THEN "ok" ELSE @[c]]]
WithCheckRun(s, r) ==
  LET result == IF runner[r].ok THEN "ok" ELSE "bad"
  IN IF r \in Baseline THEN [s EXCEPT !.baselineRuns = @ \cup {result}]
     ELSE IF r = "Final" THEN [s EXCEPT !.finalRun = [result |-> result, sc |-> runner[r].sc]]
     ELSE [s EXCEPT !.checkRuns[r] = result]

AppendCheckRun(r) ==
  /\ At(r, "append")
  /\ Write(WithCheckRun(status, r))
  /\ Goto(r, "cleanup")
  /\ UNCHANGED <<ns, recordings>>

CleanUp(r) ==
  /\ At(r, "cleanup")
  /\ DeleteNamespace(r)
  /\ Return(r)
  /\ UNCHANGED <<status, recordings>>

\* The cluster finishes the deletion of a namespace. Without a run that would
\* notice, it may as well go when the next one starts.
NamespaceGone(r) ==
  /\ IsRunning(r)
  /\ ns[r] = "terminating"
  /\ ns' = [ns EXCEPT ![r] = "absent"]
  /\ UNCHANGED <<status, faults, runner, recordings>>

RunCheckStep(r) ==
  \/ DeleteLeftover(r) \/ CreateCheckNamespace(r) \/ ReuseNamespace(r)
  \/ MarkStarted(r) \/ Apply(r) \/ ApplyFails(r)
  \/ ReportTimeout(r) \/ RecordLastLogs(r) \/ ReportFailed(r)
  \/ Record(r) \/ RecordFails(r)
  \/ FinishCondition(r) \/ AppendCheckRun(r) \/ CleanUp(r)
=============================================================================
