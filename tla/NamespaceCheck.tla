-------------------------- MODULE NamespaceCheck ---------------------------
(***************************************************************************)
(* internal/controller/namespace: the reconciler of one                    *)
(* NamespaceHardeningCheck, composed with the three runs it submits to the *)
(* executor (two recordings of all workloads in a cloned namespace, and    *)
(* the final run), the workload checks it creates, the cluster, the clock  *)
(* and restarts of the operator.                                           *)
(*                                                                         *)
(* As in WorkloadCheck, an invocation is cut where it writes the status,   *)
(* submits runs or reads what others change.  `view` is its copy of the    *)
(* object, nsHardenCheck, which every SetCondition reads again; a verdict  *)
(* of the final run can be stored between any two cuts.  A run is          *)
(* registered with the executor from its submission until it returns.      *)
(*                                                                         *)
(* A workload stands also for the WorkloadHardeningCheck that is made for  *)
(* it, whose own life (module WorkloadCheck) is one step here.  Checks are *)
(* read from the cache of the manager's client, which may not yet have one *)
(* that was just "created"; what becomes of a check starts from the cache, *)
(* too, and so only when the cache has it.                                 *)
(***************************************************************************)
EXTENDS Naturals

CONSTANTS Workload,            \* the supported workloads of the target namespace
          Foreign,             \* checks of some of them that a user made before
          Target,              \* the workload of each foreign check
          Webhooks,            \* whether the admission webhooks are enabled
          Faults,              \* the kinds of failures considered
          MaxFaults,           \* how many failures happen at most
          NoCheck              \* no recommendation of any check

Baseline == {"baseline", "baseline-2"}
Run == Baseline \cup {"final"}
Check == Workload \cup Foreign
FaultKinds == {"write", "fetch", "target", "list", "create", "clone", "resource", "run",
               "hang", "silent", "store", "slow", "finalHang", "delete", "restart"}

ASSUME NamespaceAssumption ==
  /\ Workload \cap Foreign = {}
  /\ Target \in [Foreign -> Workload]
  /\ Webhooks \in BOOLEAN
  /\ Faults \subseteq FaultKinds
  /\ MaxFaults \in Nat
  /\ NoCheck \notin Check

VARIABLES status,              \* the stored status of the NamespaceHardeningCheck
          check,               \* the workload checks in the target namespace
          pc, view,            \* where Reconcile is, and its copy of the status
          resources,           \* the workloads it found
          collected,           \* the recommendations it collected
          queued,              \* whether the object will be reconciled again
          run,                 \* where each run is
          result,              \* what the recorders of each baseline run sent
          final,               \* what the final run applies, and what comes of it
          ns, bound,           \* the clone of each run, and those with ClusterRoleBindings
          recordings,          \* the baseline recordings in ValKey
          faults, seen,        \* how many failures happened, and of which kinds
          tested               \* history: what the final run that reported last applied

reconcilerVars == <<pc, view, resources, collected, queued>>
runVars == <<run, result, final>>
clones == <<ns, bound>>
vars == <<status, check, reconcilerVars, runVars, clones, recordings, faults, seen,
          tested>>

\* For each workload, the check whose recommendation it is.
Recs == [Workload -> Check \cup {NoCheck}]
NoRecs == [w \in Workload |-> NoCheck]

\* The condition Finished is True for the values in Verdict; the condition
\* Baseline is False when "recording" or, for longer than it may take, "late".
Verdict == {"empty", "success", "failed", "error"}
Status == [finished : {"none", "working", "noTarget"} \cup Verdict,
           baseline : {"none", "recording", "late", "recorded"},
           recs : Recs]
InitStatus == [finished |-> "none", baseline |-> "none", recs |-> NoRecs]

ReconcilerPC == {"idle", "noTarget", "prepare", "survey", "requeue", "empty",
                 "startBaseline", "submitBaselines", "baselineRecorded", "baselineLate",
                 "createChecks", "announce", "list", "inProgress", "recommend",
                 "submitFinal"}
RunPC == {"none", "submitted", "record", "apply", "hung", "ready", "delete",
          "report", "return"}
Result == {"none", "ok", "error", "silent", "hung", "taken"}
NoResults == [b \in Baseline |-> [w \in Workload |-> "none"]]
Copy(s) == [baseline |-> s.baseline, recs |-> s.recs]
NoFinal == [recs |-> NoRecs, applied |-> NoRecs, verdict |-> "error"]

TypeOK == /\ status \in Status
          /\ check \in [Check -> {"absent", "created", "running", "recommended", "failed"}]
          /\ pc \in ReconcilerPC
          /\ view \in [baseline : {"none", "recording", "late", "recorded"}, recs : Recs]
          /\ resources \in SUBSET Workload
          /\ collected \in Recs
          /\ queued \in BOOLEAN
          /\ run \in [Run -> RunPC]
          /\ result \in [Baseline -> [Workload -> Result]]
          /\ final \in [recs : Recs, applied : Recs, verdict : Verdict]
          /\ ns \in [Run -> {"absent", "active", "hollow", "terminating"}]
          /\ bound \in SUBSET Run
          /\ recordings \in SUBSET (Baseline \X Workload)
          /\ faults \in 0..MaxFaults
          /\ seen \in SUBSET (Faults \cup {"hollow", "stale"})
          /\ tested \in Recs

Init == /\ status = InitStatus
        /\ check = [c \in Check |-> IF c \in Foreign THEN "running" ELSE "absent"]
        /\ pc = "idle"
        /\ view = Copy(InitStatus)
        /\ resources = {}
        /\ collected = NoRecs
        /\ queued = TRUE
        /\ run = [r \in Run |-> "none"]
        /\ result = NoResults
        /\ final = NoFinal
        /\ ns = [r \in Run |-> "absent"] /\ bound = {}
        /\ recordings = {}
        /\ faults = 0 /\ seen = {}
        /\ tested = NoRecs

-----------------------------------------------------------------------------
\* A failure of one kind, while the bound MaxFaults allows another.
Fault(kind) == /\ kind \in Faults
               /\ faults < MaxFaults
               /\ faults' = faults + 1
               /\ seen' = seen \cup {kind}
NoFault == UNCHANGED <<faults, seen>>

IsRunning(r) == run[r] # "none"

\* How an invocation goes on, and how it ends: with a result (or an error) that
\* schedules another one, or with one that does not.
Leave == /\ pc' = "idle"
         /\ view' = Copy(InitStatus)
         /\ resources' = {}
         /\ collected' = NoRecs
Requeue == Leave /\ queued' = TRUE
Done == Leave /\ queued' = FALSE
Goto(label) == pc' = label /\ UNCHANGED <<resources, collected, queued>>

\* SetCondition reads the object again, changes it and updates it, again when the
\* update conflicts. Its error is dropped by all callers; the copy is then what it
\* was, or what was to be written.
SetStatus(s, label) ==
  /\ Goto(label)
  /\ \/ status' = s /\ view' = Copy(s) /\ NoFault
     \/ UNCHANGED status /\ Fault("write") /\ view' \in {view, Copy(s)}
LastSetStatus(s) == \/ status' = s /\ NoFault
                    \/ UNCHANGED status /\ Fault("write")

NoRunSteps == UNCHANGED <<runVars, clones, recordings, tested>>

-----------------------------------------------------------------------------
(* Reconcile.                                                              *)

\* A namespace check that is finished is skipped and not scheduled again.
Skip ==
  /\ pc = "idle" /\ queued
  /\ status.finished \in Verdict
  /\ Done
  /\ UNCHANGED <<status, check>> /\ NoFault /\ NoRunSteps

\* Mutant: only a success is skipped, not every verdict.
StartUnlessSuccess ==
  /\ pc = "idle" /\ queued
  /\ status.finished # "success"
  /\ view' = Copy(status)
  /\ Goto("survey") /\ NoFault
  /\ UNCHANGED <<status, check>> /\ NoRunSteps

\* It may be found that the target namespace is gone.
Start ==
  /\ pc = "idle" /\ queued
  /\ status.finished \notin Verdict
  /\ view' = Copy(status)
  /\ \/ Goto(IF status.finished = "none" THEN "prepare" ELSE "survey") /\ NoFault
     \/ Goto("noTarget") /\ Fault("target")
  /\ UNCHANGED <<status, check>> /\ NoRunSteps

\* The object or the namespace cannot be read: there will be another invocation.
StartFails ==
  /\ pc = "idle" /\ queued
  /\ Fault("fetch")
  /\ Requeue
  /\ UNCHANGED <<status, check>> /\ NoRunSteps

TargetNotFound ==
  /\ pc = "noTarget"
  /\ LastSetStatus([status EXCEPT !.finished = "noTarget"])
  /\ Done
  /\ UNCHANGED check /\ NoRunSteps

\* Mutant: the condition of the wrong type is set.
WorkingAsBaseline(s) == [s EXCEPT !.baseline = "working"]
Working(s) == [s EXCEPT !.finished = "working"]

Prepare ==
  /\ pc = "prepare"
  /\ SetStatus(Working(status), "survey")
  /\ UNCHANGED check /\ NoRunSteps

\* What is to be done after the workloads were listed: "executor not running" is
\* taken for "recorded".
NoBaselineRunning == \A b \in Baseline : ~IsRunning(b)
\* Mutant: the case of baselines that take too long is forgotten.
WaitForBaselines(found) ==
  IF found = {} THEN "empty"
  ELSE IF view.baseline = "none" THEN "startBaseline"
  ELSE IF view.baseline = "recorded" THEN "createChecks"
  ELSE IF NoBaselineRunning THEN "baselineRecorded" ELSE "requeue"
AfterSurvey(found) ==
  IF found = {} THEN "empty"
  ELSE IF view.baseline = "none" THEN "startBaseline"
  ELSE IF view.baseline = "recorded" THEN "createChecks"
  ELSE IF NoBaselineRunning THEN "baselineRecorded"
  ELSE IF view.baseline = "late" THEN "baselineLate" ELSE "requeue"

\* Kinds of resources that cannot be listed are left out.
Survey ==
  /\ pc = "survey"
  /\ \/ resources' = Workload /\ NoFault
     \/ resources' \in SUBSET Workload /\ Fault("list")
  /\ pc' = AfterSurvey(resources')
  /\ UNCHANGED <<status, check, view, collected, queued>> /\ NoRunSteps

StillRecording ==
  /\ pc = "requeue"
  /\ Requeue
  /\ UNCHANGED <<status, check>> /\ NoFault /\ NoRunSteps

NothingToCheck ==
  /\ pc = "empty"
  /\ LastSetStatus([status EXCEPT !.finished = "empty"])
  /\ Done
  /\ UNCHANGED check /\ NoRunSteps

StartBaseline ==
  /\ pc = "startBaseline"
  /\ SetStatus([status EXCEPT !.baseline = "recording"], "submitBaselines")
  /\ UNCHANGED check /\ NoRunSteps

SubmitBaselines ==
  /\ pc = "submitBaselines"
  /\ run' = [r \in Run |-> IF r \in Baseline /\ ~IsRunning(r) THEN "submitted" ELSE run[r]]
  /\ Requeue
  /\ UNCHANGED <<status, check, result, final, clones, recordings, tested>> /\ NoFault

BaselineRecorded ==
  /\ pc = "baselineRecorded"
  /\ SetStatus([status EXCEPT !.baseline = "recorded"], "createChecks")
  /\ UNCHANGED check /\ NoRunSteps

BaselineTooLate ==
  /\ pc = "baselineLate"
  /\ LastSetStatus([status EXCEPT !.finished = "failed"])
  /\ Done
  /\ UNCHANGED check /\ NoRunSteps

\* The validating webhook rejects a check whose baseline recordings are not there.
\* Mutant: it is content with one of the two.
AdmittedWithOne(w) == ~Webhooks \/ \E b \in Baseline : <<b, w>> \in recordings
Admitted(w) == ~Webhooks \/ \A b \in Baseline : <<b, w>> \in recordings

\* The checks that the operator's cache has, and those it does not have yet.
Cached == {c \in Check : check[c] \notin {"absent", "created"}}
NotYetCached == {c \in Check : check[c] = "created"}

\* createWorkloadHardeningCheck for each workload: the check is in the cache, or it
\* is created, or that fails, as it does when it exists without being in the cache;
\* then it is skipped.
ToCreate == {w \in resources : check[w] = "absent" /\ Admitted(w)}
WithChecks(made) == [c \in Check |-> IF c \in made THEN "created" ELSE check[c]]
CreateWorkloadChecks ==
  /\ pc = "createChecks"
  /\ \/ /\ check' = WithChecks(ToCreate)
        /\ Goto(IF ToCreate \cup (resources \cap Cached) # {} THEN "announce" ELSE "list")
        /\ NoFault
     \/ /\ \E made \in SUBSET ToCreate : check' = WithChecks(made)
        /\ \E label \in {"announce", "list"} : Goto(label)
        /\ Fault("create")
  /\ UNCHANGED <<status, view>> /\ NoRunSteps

AnnounceChecks ==
  /\ pc = "announce"
  /\ SetStatus(Working(status), "list")
  /\ UNCHANGED check /\ NoRunSteps

\* All checks of the namespace that the cache has are looked at, also those of
\* others, and, when two have a recommendation for one workload, any of the two is
\* taken.
\* Mutant: finishedCount is compared with zero instead of the length of the list.
SomeFinished == \E c \in Cached : check[c] # "running"
AllFinished == \A c \in Cached : check[c] # "running"
About(c) == IF c \in Foreign THEN Target[c] ELSE c
RecommendedFor(w) == {c \in Check : About(c) = w /\ check[c] = "recommended"}
\* Mutant: Recommendation is not tested for nil.
CollectsAny(recs) == \A w \in Workload :
                       LET checks == {c \in Cached : About(c) = w}
                       IN  IF checks = {} THEN recs[w] = NoCheck ELSE recs[w] \in checks
\* Mutant: only the workloads that this invocation found are considered.
CollectsFound(recs) == \A w \in Workload :
                         IF RecommendedFor(w) = {} \/ w \notin resources
                         THEN recs[w] = NoCheck ELSE recs[w] \in RecommendedFor(w)
Collects(recs) == \A w \in Workload : IF RecommendedFor(w) = {} THEN recs[w] = NoCheck
                                      ELSE recs[w] \in RecommendedFor(w)

\* A list that is taken for complete although it misses a check is noted as "stale".
ListWorkloadChecks ==
  /\ pc = "list"
  /\ \/ ~AllFinished /\ Goto("inProgress") /\ NoFault /\ UNCHANGED view
     \/ /\ AllFinished
        /\ pc' = "recommend"
        /\ \E recs \in Recs : Collects(recs) /\ collected' = recs
        /\ UNCHANGED <<view, resources, queued, faults>>
        /\ seen' = IF NotYetCached = {} THEN seen ELSE seen \cup {"stale"}
     \/ Fault("fetch") /\ Requeue
  /\ UNCHANGED <<status, check>> /\ NoRunSteps

ChecksInProgress ==
  /\ pc = "inProgress"
  /\ LastSetStatus(Working(status))
  /\ Requeue
  /\ UNCHANGED check /\ NoRunSteps

Recommend ==
  /\ pc = "recommend"
  /\ SetStatus([Working(status) EXCEPT !.recs = collected], "submitFinal")
  /\ UNCHANGED check /\ NoRunSteps

\* The final run is given the object, and with it the recommendations in it.
SubmitFinal ==
  /\ pc = "submitFinal"
  /\ IF IsRunning("final") THEN UNCHANGED <<run, final>>
     ELSE /\ run' = [run EXCEPT !["final"] = "submitted"]
          /\ final' = [NoFinal EXCEPT !.recs = view.recs]
  /\ Requeue
  /\ UNCHANGED <<status, check, result, clones, recordings, tested>> /\ NoFault

ReconcileStep ==
  \/ Skip \/ Start \/ StartFails \/ TargetNotFound \/ Prepare \/ Survey \/ StillRecording
  \/ NothingToCheck \/ StartBaseline \/ SubmitBaselines \/ BaselineRecorded \/ BaselineTooLate
  \/ CreateWorkloadChecks \/ AnnounceChecks \/ ListWorkloadChecks
  \/ ChecksInProgress \/ Recommend \/ SubmitFinal

-----------------------------------------------------------------------------
(* The runs: first recordAllWorkloads, the function of both baseline runs. *)

NoReconcile == UNCHANGED <<reconcilerVars, tested>>
Move(r, label) == run' = [run EXCEPT ![r] = label]

\* namespace.Clone fails on a namespace that exists, also a terminating one, or in
\* the middle of its work. AlreadyExists, with which the callers go on, is what it
\* returns for a ClusterRoleBinding that an earlier clone left: the new namespace is
\* hollow then, without any of the resources.
CloneTo(r, ok, failed) ==
  \/ /\ ns[r] = "absent" /\ r \notin bound
     /\ ns' = [ns EXCEPT ![r] = "active"] /\ bound' = bound \cup {r}
     /\ Move(r, ok) /\ NoFault
  \/ /\ ns[r] = "absent" /\ r \in bound
     /\ ns' = [ns EXCEPT ![r] = "hollow"] /\ UNCHANGED bound
     /\ Move(r, ok) /\ UNCHANGED faults /\ seen' = seen \cup {"hollow"}
  \/ /\ ns[r] = "absent"
     /\ \/ UNCHANGED clones
        \/ ns' = [ns EXCEPT ![r] = "hollow"] /\ bound' \in {bound, bound \cup {r}}
     /\ Move(r, failed) /\ Fault("clone")
  \/ ns[r] # "absent" /\ UNCHANGED clones /\ Move(r, failed) /\ NoFault

\* namespace.Delete first starts the deletion of the namespace, then it deletes its
\* ClusterRoleBindings: all of it, or only the first.
DeleteAll(r) == ns' = [ns EXCEPT ![r] = "terminating"] /\ bound' = bound \ {r}
DeleteHalf(r) == ns' = [ns EXCEPT ![r] = "terminating"] /\ UNCHANGED bound

CloneForBaseline(b) ==
  /\ run[b] = "submitted"
  /\ CloneTo(b, "record", "none")
  /\ UNCHANGED <<status, check, result, final, recordings>> /\ NoReconcile

\* The recorder of one workload returns: it sent its recording or an error, or
\* nothing at all; or it never returns, for want of pods.
RecorderReturns(b, w) ==
  /\ run[b] = "record"
  /\ result[b][w] = "none"
  /\ \E outcome \in {"ok", "error", "silent", "hung"} :
       /\ result' = [result EXCEPT ![b][w] = outcome]
       /\ \/ outcome = "ok" /\ ns[b] # "hollow" /\ NoFault
          \/ outcome = "error" /\ ns[b] = "hollow" /\ NoFault
          \/ outcome = "error" /\ Fault("run")
          \/ outcome = "silent" /\ Fault("silent")
          \/ outcome = "hung" /\ Fault("hang")
  /\ UNCHANGED <<status, check, run, final, clones, recordings>> /\ NoReconcile

\* After wg.Wait, a select over the two channels of each workload, in turn.
AllReturned(b) == \A w \in Workload : result[b][w] \notin {"none", "hung"}
Collect(b, w) ==
  /\ run[b] = "record" /\ AllReturned(b)
  /\ result[b][w] \in {"ok", "error"}
  /\ \/ recordings' = (IF result[b][w] = "ok" THEN recordings \cup {<<b, w>>}
                        ELSE recordings)
        /\ NoFault
     \/ UNCHANGED recordings /\ Fault("store")
  /\ result' = [result EXCEPT ![b][w] = "taken"]
  /\ UNCHANGED <<status, check, run, final, clones>> /\ NoReconcile

\* The namespace is deleted in the background, with the context of the run, which
\* removeRun cancels as soon as the run returns: the deletion may be too late.
BaselineReturns(b) ==
  /\ run[b] = "record"
  /\ \A w \in Workload : result[b][w] = "taken"
  /\ Move(b, "none")
  /\ result' = [result EXCEPT ![b] = [w \in Workload |-> "none"]]
  /\ DeleteAll(b) \/ DeleteHalf(b) \/ UNCHANGED clones
  /\ UNCHANGED <<status, check, final, recordings>> /\ NoFault /\ NoReconcile

BaselineStep(b) == \/ CloneForBaseline(b) \/ BaselineReturns(b)
                   \/ \E w \in Workload : RecorderReturns(b, w) \/ Collect(b, w)

-----------------------------------------------------------------------------
(* The final run: createFinalCheckRun and what is made of its result.      *)

CloneForFinal ==
  /\ run["final"] = "submitted"
  /\ CloneTo("final", "apply", "report")
  /\ UNCHANGED <<status, check, result, final, recordings>> /\ NoReconcile

\* Workloads that were not cloned, or cannot be read, are left out. Without any of
\* them there is nothing to wait for; without any resource at all the run is at once
\* a success, and leaves the clone behind.
ApplyRecommendations ==
  /\ run["final"] = "apply"
  /\ \/ \E found \in SUBSET Workload :
          /\ \/ found = (IF ns["final"] = "hollow" THEN {} ELSE Workload) /\ NoFault
             \/ ns["final"] = "active" /\ Fault("resource")
          /\ final' = [final EXCEPT
                !.applied = [w \in Workload |->
                               IF w \in found THEN final.recs[w] ELSE NoCheck],
                !.verdict = "success"]
          /\ \/ found # {} /\ Move("final", "ready")
             \/ found = {} /\ \E label \in {"delete", "report"} : Move("final", label)
     \/ Fault("finalHang") /\ Move("final", "hung") /\ UNCHANGED final
  /\ UNCHANGED <<status, check, result, clones, recordings>> /\ NoReconcile

\* All workloads become ready within two minutes, or the run has failed.
AwaitReadiness ==
  /\ run["final"] = "ready"
  /\ \E verdict \in {"success", "failed"} : final' = [final EXCEPT !.verdict = verdict]
  /\ Move("final", "delete")
  /\ UNCHANGED <<status, check, result, clones, recordings>> /\ NoFault /\ NoReconcile

\* If the deletion fails, the outcome is an error, but not if a ClusterRoleBinding
\* is left.
DeleteFinal ==
  /\ run["final"] = "delete"
  /\ \/ DeleteAll("final") /\ UNCHANGED final /\ NoFault
     \/ DeleteHalf("final") /\ UNCHANGED final /\ Fault("delete")
     \/ /\ DeleteHalf("final") \/ UNCHANGED clones
        /\ final' = [final EXCEPT !.verdict = "error"]
        /\ Fault("delete")
  /\ Move("final", "report")
  /\ UNCHANGED <<status, check, result, recordings>> /\ NoReconcile

ReportFinal ==
  /\ run["final"] = "report"
  /\ \/ /\ status' = [status EXCEPT !.finished = final.verdict]
        /\ tested' = final.applied
        /\ NoFault
     \/ UNCHANGED <<status, tested>> /\ Fault("write")
  /\ Move("final", "return")
  /\ UNCHANGED <<check, result, clones, recordings, final>> /\ UNCHANGED reconcilerVars

\* Only then is its ID free again.
FinalReturns ==
  /\ run["final"] = "return"
  /\ Move("final", "none")
  /\ final' = NoFinal
  /\ UNCHANGED <<status, check, result, clones, recordings>> /\ NoFault /\ NoReconcile

FinalStep == \/ CloneForFinal \/ ApplyRecommendations \/ AwaitReadiness \/ DeleteFinal
             \/ ReportFinal \/ FinalReturns

-----------------------------------------------------------------------------
(* The workload checks, the cluster, the clock and restarts.               *)

\* The cache gets to know of a check that was created, and only then its own
\* reconciler does.
CacheCatchesUp(c) ==
  /\ check[c] = "created"
  /\ check' = [check EXCEPT ![c] = "running"]
  /\ UNCHANGED status /\ NoFault /\ NoRunSteps /\ UNCHANGED reconcilerVars

\* A workload check comes to its end; without baselines its analysis fails. An end
\* that the cache does not show yet is one that comes later.
CheckFinishes(c) ==
  /\ check[c] = "running"
  /\ \E outcome \in {"recommended", "failed"} :
       /\ outcome = "recommended" /\ c \in Workload =>
            \A b \in Baseline : <<b, c>> \in recordings
       /\ check' = [check EXCEPT ![c] = outcome]
  /\ UNCHANGED status /\ NoFault /\ NoRunSteps /\ UNCHANGED reconcilerVars

\* The cluster finishes the deletion of a namespace. Without a run that would
\* notice, it may as well be gone when the next one starts.
NamespaceGone(r) ==
  /\ run[r] = "submitted"
  /\ ns[r] = "terminating"
  /\ ns' = [ns EXCEPT ![r] = "absent"]
  /\ UNCHANGED <<status, check, runVars, bound, recordings>> /\ NoFault /\ NoReconcile

\* More than the recording duration and five minutes pass since the baselines were
\* begun: for sure when one of them is stuck, else only if it is slow.
Stuck(b) == \E w \in Workload : result[b][w] \in {"silent", "hung"}
TimePasses == /\ status.baseline = "recording"
              /\ status' = [status EXCEPT !.baseline = "late"]
              /\ UNCHANGED check /\ NoRunSteps /\ UNCHANGED reconcilerVars
StuckBaselineOverdue == (\E b \in Baseline : Stuck(b)) /\ TimePasses /\ NoFault
SlowBaselineOverdue == (\A b \in Baseline : ~Stuck(b)) /\ TimePasses /\ Fault("slow")

\* The operator stops or crashes and starts again: goroutines, registry and work
\* queue are gone, every object is queued, and the cache is read anew.
Restart ==
  /\ Fault("restart")
  /\ Requeue
  /\ run' = [r \in Run |-> "none"]
  /\ result' = NoResults
  /\ final' = NoFinal
  /\ check' = [c \in Check |-> IF check[c] = "created" THEN "running" ELSE check[c]]
  /\ UNCHANGED <<status, clones, recordings, tested>>

Next ==
  \/ ReconcileStep
  \/ \E b \in Baseline : BaselineStep(b)
  \/ FinalStep
  \/ \E c \in Check : CacheCatchesUp(c) \/ CheckFinishes(c)
  \/ \E r \in Run : NamespaceGone(r)
  \/ StuckBaselineOverdue \/ SlowBaselineOverdue
  \/ Restart

\* The work queue hands out the object again, goroutines are scheduled, the cache
\* catches up, workload checks end (WorkloadCheck!EventuallyFinished) and time passes.
Fairness ==
  /\ WF_vars(ReconcileStep)
  /\ \A b \in Baseline : WF_vars(BaselineStep(b))
  /\ WF_vars(FinalStep)
  /\ \A c \in Check : WF_vars(CacheCatchesUp(c)) /\ WF_vars(CheckFinishes(c))
  /\ WF_vars(StuckBaselineOverdue)

Spec == Init /\ [][Next]_vars /\ Fairness

-----------------------------------------------------------------------------
(* What the check of a namespace promises.                                 *)

\* Although "recorded" is concluded from the executor alone, also after failures
\* and restarts (Reconcile), no workload check that it creates is without the two
\* baselines it refers to: what WorkloadCheck assumes with BaselineGiven.
ChecksHaveBaselines ==
  Webhooks => \A w \in Workload : check[w] # "absent" =>
                \A b \in Baseline : <<b, w>> \in recordings

\* A stored recommendation is one of a check of that workload that has come to its
\* end with one, never of a check that is still at work (Reconcile).
RecommendationsOfFinishedChecks ==
  \A w \in Workload : status.recs[w] # NoCheck => status.recs[w] \in RecommendedFor(w)

\* What a final run reported to have tested stays stored as recommended, however many
\* final runs and lists of checks there are, also lists that miss checks and runs that
\* leave workloads out: a later list never takes back what an earlier one brought
\* (Reconcile, createFinalCheckRun); if there is one recommendation for each workload
\* to take, and no write was lost.
Unambiguous == \A w \in Workload : \A c, d \in RecommendedFor(w) : c = d
TestedIsStored ==
  Unambiguous /\ "write" \notin seen
    => \A w \in Workload : tested[w] # NoCheck => tested[w] = status.recs[w]

\* Success means that the final run applied all of the recommendations that are
\* stored if, moreover, no list of checks missed one that had just been created, and
\* no workload was left out or got its check too late.
NoWorkloadLeftOut ==
  seen \cap {"write", "resource", "list", "create", "hollow", "stale"} = {}
SuccessIsTested ==
  status.finished = "success" /\ Unambiguous /\ NoWorkloadLeftOut
    => tested = status.recs

\* When nothing fails and no list misses a check, success also means that every
\* workload was checked to the end (Reconcile, finishedCount): zero of zero checks is
\* reached by a list that misses checks or by a failure, in no other way.
SuccessCoversWorkloads ==
  status.finished = "success" /\ seen = {}
    => \A w \in Workload : check[w] \in {"recommended", "failed"}

\* "All WorkloadHardeningChecks are finished, we can run a final check with all
\* workloads hardened at once" (a comment of Reconcile): the code does not keep to it,
\* since it lists from the cache the checks it created a moment ago.
FinalRunAfterAllChecks ==
  IsRunning("final") => \A c \in Check : check[c] \notin {"created", "running"}

\* A verdict can be overwritten by an invocation that read the object before, or by
\* the final run such an invocation submitted; but once neither is under way it
\* stands, also when the operator restarts or a hung baseline run goes on.
Settled == /\ status.finished \in Verdict
           /\ pc = "idle"
           /\ ~IsRunning("final")
VerdictStands == [][Settled => Settled' /\ status'.finished = status.finished]_vars

\* Whatever baseline recorders do, whatever fails and however often the operator
\* restarts, there is always a verdict, or the answer that there is no such
\* namespace, to come; unless a write is lost or the final run waits for ever.
AlwaysAVerdict ==
  []<>(\/ status.finished \in Verdict \cup {"noTarget"}
       \/ "write" \in seen
       \/ run["final"] = "hung")
=============================================================================
