# Verification of the orakel-of-funk operator

The operator finds out how far the security context of a workload can be
hardened. For a `WorkloadHardeningCheck` (below: a *check object*) it clones the
namespace of the workload, applies one security setting to the clone, records
metrics and logs, and compares the logs with those of two unchanged baseline
clones. The settings that did no harm are merged into a recommendation, which a
final run tests. A `NamespaceHardeningCheck` does this for every workload of a
namespace.

This directory holds TLA+ models of the operator, the TLC runs that check them
and proofs about them that TLAPS checks. `PROJECT.json` lists the components,
the runs, the source lines each definition stands for, the hazards, the findings
and the theorems.

## The system

| Component | Source | State it keeps | Operations | Talks to |
|---|---|---|---|---|
| Check executor | `internal/executor/executor.go` | registry of active runs, WaitGroup, manager context | `Start`, `Submit`, `Cancel`, `CancelByPrefix`, `IsRunning` | runs the functions of both reconcilers in goroutines |
| Workload check reconciler | `internal/controller/workload` | none between invocations; a copy of the object and of the manager's object within one | `Reconcile`, `recordBaseline`, `recordChecks`, `handleDeletion` | check manager, executor, API server |
| Check manager | `internal/workload` | its own copy of the object | `AnalyzeCheckRuns`, `SetRecommendation`, `SetBaselineRecorded`, `GetRequiredCheckRuns`, `AllChecksFinished`, `RemoveCheckConditions` | API server, ValKey, oracle |
| Check runner | `internal/runner` | copy of the object, outcome of the run | `RunCheck` | API server, cloned namespace, recorders, ValKey |
| Status of a check object | `api/v1alpha1`, `pkg/workloadhardeningcheck` | conditions, `checkRuns`, `baselineRuns`, `finalRun`, `recommendation` | `SetCondition` and the predicates `...Recorded`, `...InProgress`, `...Overdue` | shared by reconciler and runs |
| Cloned namespaces | `internal/namespace` | namespaces and ClusterRoleBindings in the cluster | `Clone`, `Delete` | cluster |
| Recordings | `internal/valkey` | one entry per check object and run, for 24 hours | `StoreRecording`, `GetRecording` | ValKey |
| Recorders | `internal/recording` | node metrics cache | `RecordMetrics`, `RecordLogs` | cluster |
| Resume scanner | `internal/executor/resume.go` | none | scan of the managed namespaces after a start | cluster, ValKey |
| Namespace check reconciler | `internal/controller/namespace` | none between invocations | `Reconcile`, `recordAllWorkloads`, `createFinalCheckRun`, `createWorkloadHardeningCheck` | executor, API server, recorders |
| Security contexts, checks | `pkg/util/securitycontext`, `pkg/checks` | none (but `GetSecurityContextDefaults` changes its argument) | merging, defaults per check | manager, runner |
| Log oracle | `pkg/orakel` | Drain trees per container | `LoadBaseline`, `AnalyzeTarget` | manager |
| Webhooks | `internal/webhook` | none | defaulting, validation | API server |
| Manager process | `cmd/main.go` | none | wiring, start, stop | all |

Two reconciler goroutines work per kind, never two for one object. Everything
that takes minutes runs in goroutines of the executor, and the only channel back
to the reconcilers is the status in the API server and `IsRunning`. Changes of
the status do not cause an invocation (the event filter drops them), so a check
goes on only because each invocation asks for another one.

### What is hard about it

* A reconciler decides from a copy of the object while runs write to the status.
* Reconcilers read from the manager's cache, which may not yet have what the same
  invocation has just created.
* A run reports in two writes: first the condition, then its `CheckRun`. Both
  baselines write one condition.
* A run can fail, panic, time out or hang between any two of its steps; the
  operator can restart at any point, and no run survives that.
* Errors of status writes are mostly dropped.
* Namespaces are deleted asynchronously and are reused by name; ClusterRoleBindings
  outlive them when a deletion is cut short.
* The check of a namespace infers what its runs did from the executor alone, and its
  final run writes a verdict that an older invocation can overwrite.
* The deletion of one check object does not wait for its runs, and takes away the
  clones of all other check objects of the namespace.
* All runs that one invocation submits share one security context.
* Submissions, cancellations and shutdown of the executor interleave at the
  level of its lock.

### What makes each component correct

* Executor: one run per ID; a run is registered exactly while it lives; shutdown
  is bounded and waits for what is registered; a cancellation reaches the runs it
  is for and no others.
* Reconciler, manager, runner and status together: a recommendation contains only
  vetted settings and is based on both baselines; every `CheckRun` has a
  recording; what the final run tested is what is recommended; every check ends.
* Namespace check: it ends, after every workload check it made, with their
  recommendations; its baselines are recorded when it says so.
* Namespaces: no clone outlives its check for ever, and none is deleted under
  another check.
* Security contexts: a recommendation never loses what the manifest sets, and a
  run tests the setting of its own check only.
* Oracle: an anomaly-free result means that every log line was seen in a baseline.

## Modules

| Module | Contents |
|---|---|
| `CheckRunRegistry` | what the executor promises: a registry of runs by ID |
| `CheckExecutor` | `executor.go`, goroutine by goroutine |
| `CheckExecutorProofs` | theorems about it, with proofs |
| `HardeningStatus` | the shared status, its predicates and its writes |
| `CheckRunner` | `RunCheck`, with the namespaces and recordings it uses |
| `WorkloadCheck` | `Reconcile` and the check manager, composed with the runs, time and restarts |
| `HardeningVerdict` | what a check object promises to who reads its status: evidence, recommendation, one verdict |
| `WorkloadCheckProofs` | theorems about `WorkloadCheck`, with proofs: its safety, and that it implements `HardeningVerdict` |
| `WorkloadFinalRunProofs` | theorems about its final run, with proofs |
| `NamespaceCheck` | the reconciler of a `NamespaceHardeningCheck`, its three runs, the workload checks it creates |
| `NamespaceCheckProofs`, `NamespaceSuccessProofs` | theorems about it, with proofs: in general, and on what its success means |
| `Deletion` | the finalizer, `handleDeletion`, `Clone` and `Delete`, for several check objects of one namespace |
| `DeletionProofs` | theorems about it, with proofs |
| `SecurityContexts` | what each run applies, how that is merged, and what is recommended |
| `SecurityContextsProofs`, `UniqueRecommendationProofs` | theorems about it, with proofs: in general, and on the order of the merge |
| `MCCheckExecutor`, `MCWorkloadCheck`, `MCNamespaceCheck`, `MCDeletion`, `MCSecurityContexts` | the instances for TLC |

`WorkloadCheck` extends `CheckRunner`, which extends `HardeningStatus`.
`CheckRunner` uses the executor as `CheckRunRegistry` describes it: an ID is taken
from the submission of a run until it returns. `CheckExecutor` implements that
registry, which is both model-checked (`ImplementsRegistry`) and proved.
`NamespaceCheck` and `Deletion` use the executor in the same way.

The four modules on check objects look at one system from four sides, each with
the detail its properties need and the other sides in one step:

| | `WorkloadCheck` | `NamespaceCheck` | `Deletion` | `SecurityContexts` |
|---|---|---|---|---|
| life of a check object | every branch | finishes in one step (`CheckFinishes`) | recorded or not | checks, analysis, final run |
| run | every write of `RunCheck` | the namespace runs in full | `Clone` in full, one write | apply, report |
| clones | one per run | one per run, bindings, hollow | several objects, bindings, hollow | |
| security context | set of check names | who recommended it | | every setting |
| failures, restart | yes | yes | yes | yes |

### CheckExecutor

An action is what one goroutine does between two points where another can run.
`Submit`, `RemoveRun` and `CancelByPrefix` (its snapshot) are critical sections of
`e.mu`; `Cancel` is two actions, because it unlocks between the lookup and the
call of the cancel function; each deferred call of `safeRun` is one. `Start` is
followed from its first line to its return, with the goroutine that waits for the
WaitGroup. What `sync.WaitGroup` does (a zero counter wakes the waiter; a counter
that is raised before the waiter has returned makes it panic) is external and
taken from how `Start` and `Submit` use it.

The submitted function returns, panics (which `safeRun` recovers) or never ends,
by choice. A deduplicated submission changes nothing, and so does one before
`Start`, which panics in the caller: they are no steps.

### HardeningStatus

A condition is one value: `none`, `unknown`, `running` (False), `late` (False, and
older than the recording duration plus a minute) or `recorded` (True). The status
of the condition `Finished` is `no` until it is True. `SetCondition` and the other
writers fetch, change and update in a loop that retries on conflict: a write is
one atomic change of the latest stored status, or it is lost (fault `write`). The
predicates first "refresh" their copy; the refresh always fails, because it asks
the client for a type that no scheme knows, so the copy stays as it is, and so it
is modelled. A recommendation is the set of the checks whose settings it merges.

### CheckRunner

`runner[r].pc` walks through `RunCheck`: the leftover namespace is deleted,
the namespace is cloned or reused, the condition is set, the security context is
applied and the pods awaited (or the timeout of two minutes reports, stores the
last logs and deletes the namespace), metrics and logs are recorded and stored,
the condition and then the `CheckRun` are written, and the namespace is deleted.
Each of these can fail in the way its code does: with `setStatusFailed`, silently
(a failed clone), with a panic, or by waiting for pods for ever (`hung`).

### WorkloadCheck

`Reconcile` is cut where it writes the status, reads it again or submits runs.
What it decides between two cuts is `Enter`, `Decide`, `AfterFinal` and
`AfterBaseline`, the branches of the code in their order, over the manager's copy
`view` and what it looks at in the snapshot of its first read, `snap`. The `pc`
names the next effect. `queued` is whether the result of an invocation, or the
error it returned, schedules another one.

Reductions, none of which removes an order of effects:

* writes that only change the reason of `Finished` appear as the refresh of the
  copy that they also are;
* an invocation without any effect is not a step;
* a namespace finishes its deletion only while a run of its name is registered,
  since nothing else looks at it;
* fields of the copies that are not looked at any more are reset.

`HardeningVerdict` is what all this amounts to for a reader of the status, such as
the namespace check or a user: recordings are added and stay; an analysis accepts
checks that are recorded, if the baselines are; a recommendation consists of accepted
checks and may be replaced until the verdict; the verdict is given once, nothing is
recommended after it, and it is "recommended" only with a recommendation and after a
final run was recorded. `ImplementsVerdict` maps the four variables to the recordings,
the accepted checks, `status.rec` and `status.finished`. It is why `NamespaceCheck` may
take the end of a workload check for one step (`CheckFinishes`).

### NamespaceCheck

`Reconcile` is cut as in `WorkloadCheck`: `pc` names the next effect, `view` is the
copy of the object, `queued` whether there will be another invocation. `SetStatus`
is `SetCondition`, which reads the object again, so that the verdict of a final run
can be overwritten by an invocation that began before it was written. The
condition `Baseline` is `none`, `recording`, `late` (older than the recording
duration and five minutes) or `recorded`.

The two baseline runs are `recordAllWorkloads`: clone, one recorder per workload, a
`select` over both its channels. A recorder sends its recording, or an error, or
returns without a word (`silent`), or looks for pods for ever (`hung`); in the last
two cases the run never returns. The final run is `createFinalCheckRun` and the
function around it. `CloneTo` is `namespace.Clone` with what its callers make of
it: a ClusterRoleBinding of an earlier clone yields `AlreadyExists`, with which they
go on, and the namespace just created is `hollow`, without any workload. In such a
clone there is nothing for the final run to wait for.

A workload stands also for the check object that is made for it; a member of
`Foreign` is a check object that a user made, which the reconciler lists like its
own. `Admitted` is the validating webhook. `tested` is a history variable: what the
final run that reported last had applied.

`cmd/main.go` gives the reconciler the client of the manager, which writes to the API
server and reads from a cache. A check is therefore `created` before it is `running`,
and only `CacheCatchesUp` takes it from the one to the other: until then neither the
`Get` of `createWorkloadHardeningCheck` nor the `List` of `Reconcile` finds it
(`Cached`), a second `Create` is refused with `AlreadyExists`, and its own reconciler,
which is started from the same cache, does not work on it. Each check gets there on its
own, so that a list may have any of the checks just created. An end that the cache does
not show yet needs no state: nobody can tell it from an end that comes later. A restart
reads the cache anew.

`Reconcile` lists the checks in the invocation that created them, with at most a status
write in between, so a list may miss some or all of them, and when what it has is
finished (zero of zero included) the reconciler recommends that and submits the final
run. This needs no failure; `namespace_early_final` shows it. `ListWorkloadChecks` notes
in `seen` as `stale` that a list was taken for complete although it missed a check.
`SuccessIsTested` and `SuccessCoversWorkloads` have the absence of such a list among
their premises: with one, a later invocation may store a fuller recommendation beside
the success of a final run that was given less, and the success may be that of a
namespace of which no check has begun. `TestedIsStored` has no such premise: whatever
lists miss, a recommendation that a final run reported to have tested stays stored.

### Deletion

Several objects of one namespace, two of which have one name (one is made after the
other is gone). `Reconcile` is reduced to what concerns finalizer, submission and
deletion; a run is `RunCheck` with `namespace.Clone` in full, since `handleDeletion`
cancels it without waiting. A request that was sent before the cancellation may
still be carried out, any later one is not (`SendCreate` and `CreateNamespace`,
`NextRequest`). What the list of clones missed is therefore at most a namespace
that was being created, and it stays hollow. Nobody deletes it afterwards: the scan
after a restart looks for `LabelCheckRunID`, which no code sets, and the bindings of
such a clone stay as well.

`handleDeletion` says "Delete all cloned namespaces created by this WHC"
(`workloadhardeningcheck_controller.go:467`), but the label it selects by is the
source namespace: it deletes the clones of all check objects there, those in which
they record included. `ListNamespaces` models what the code does, and
`OthersAreRecorded` says what the others make of it.

### SecurityContexts

A security context is a function from settings to sets of values, empty where a
setting is not there. `Filled` is `GetSecurityContextDefaults` of each check,
`MergePod` and `MergeContainer` are the two merges, `ApplyTo` their use on a pod
template. `GetSecurityContextForCheckType` hands out the object's own
`spec.securityContext`, by reference, and the checks fill it in place; `copy` is
that of the current invocation, `sharing` the runs that refer to it, and
`SubmitShared` changes what all of these read, when they apply it and again when
they report. Each invocation starts from a copy of the stored object. A check that
was reported after the loop began may be submitted once more, so that the
recommendation is made from `analysed`, the reports as they were when it began.

What the model showed about the code, with the premises that keep the properties
true:

* With a `spec.securityContext` in parallel mode, runs test and report settings of
  each other (premise `Isolated`), so that a setting of a failed check can be
  recommended through a successful one. The repository's README (line 21) speaks of
  "isolating the impact of each securityContext attribute". No property covers the
  shared case; those with the premise say that nothing else has this effect.
* With a user for the pod only, the `user` and the `group` check fill different
  users into the containers, and the random order of a map decides which is
  recommended (premise `NoUserConflict`).
* `MergeContainerSecurityContexts` does not merge `runAsNonRoot`: it is recommended
  for a container only if the template sets it.
* `seccompProfile` is recommended when a report contains it, but the final run does
  not apply it (`GetRecommended`).
* A check that fills a part of `spec.securityContext` that is nil dereferences it.
  The invocation panics, is recovered and retried; such an object never finishes.

## Runs

| Run | Instance | Shows |
|---|---|---|
| `executor` | two IDs of one owner, a second owner, three goroutines, one caller | nine properties of the executor, among them the refinement of `CheckRunRegistry` |
| `workload_safety` | two baselines, one check, parallel, one failure of any kind | `TypeOK`, `RecommendationVetted`, `EvidenceStored`, `RecommendationNeedsBaselines`, and the refinement of `HardeningVerdict` |
| `workload_liveness` | given baselines, one check, sequential, one failure of a run, of a deletion or restart | `EventuallyFinished`, `FinalRunTestsRecommendation` |
| `namespace` | two workloads, webhooks, a cache that lags behind, one failure of any of fifteen kinds | baselines and recommendations mean what they say, and so does a success if no list missed a check; what was tested stays stored; a verdict stands, and there always is one |
| `deletion` | a check, its successor of the same name, another check; one failure of any of eight kinds | what is cancelled and deleted, that deletion completes, and that the others are recorded |
| `security_contexts` | two containers, six shapes of `spec.securityContext`, four pod templates that leave two checks each and one that leaves all five, both modes | isolation, merges, recommendation and final run |
| `executor_shutdown`, `executor_panic`, `workload_sequential`, `workload_early_checks`, `workload_late_run`, `namespace_early_final` | | what comments of the source say and the code does not do, see below |

Bounds, and why they are enough. A third goroutine makes the executor reuse an ID
after and while its first run ends, and gives removal, cancellation and shutdown a
run to meet that is not theirs; two IDs of one owner make a prefix snapshot of
more than one run. Checks do not share state with each other except through the
recommendation, so one check suffices for the safety run, and two where their
order matters (`workload_sequential`). `MaxFaults = 1` lets one failure happen at
any step of any run or invocation, a restart included; retries after it then
proceed undisturbed, and races between repeated runs, which need no fault, are
unbounded. `MCLateBaselineWaits` bounds, in the safety run only, what a baseline does
that is still being recorded when a check has begun: nothing failed before, it waits at
its recording as long as other runs are under way, and it ends before the final run is
submitted. So the other baseline may have set the condition for both, the check may be
recorded, and the analysis may come before the recording, between it and its report, or
after; other interleavings of such a baseline are left to the theorem
`RecommendationsHaveBaselines`, which has no bound. Baselines are interchangeable,
and so are checks, hence the symmetry in the runs without a liveness property (the
refinement is a statement about initial states and steps, in which neither is named).

Two workloads make "all are finished" differ from "one is", a list without one check
from one without any, and a recorder that is done from a run that is. Checks that users
made (`Foreign`) are left to the theorems: with a cache that lags behind they are too many
for the run. One of them was explored once by hand, beside two workloads for the invariants
and beside one for `AlwaysAVerdict`, with the same result.
In `deletion` one object may be deleted at any step of its run, its name be used
again while that run goes on, and its deletion meet the run of the third object at
any step; two failures, or two objects that may be deleted, were explored once by
hand with the same result. In `security_contexts` checks interact in pairs, through
the settings that both fill (group and user) or both merge (containers with
different templates), and the pairs together cover all five; without a spec each
has a context of its own, and all five run at once.

Deadlock is not checked: a check that is finished or was deleted, and an executor
that was shut down, have nothing left to do.

### Fairness

For the executor: the deferred calls of a goroutine run, a caller finishes the
cancellation it began, the resume scan ends (its calls take the manager's
context), `Start` notices the end of its context and its timer fires. A submitted
function need not return, and nobody has to submit or stop.

For a workload check: the queue hands out an object that is due, goroutines are
scheduled, time passes, and the cluster completes deletions. The latter is strong
fairness, since a deletion goes on however often a run looks at the namespace in
between. One more assumption is strong: once in a while an invocation reads a
status in which every check (or the final check) is recorded. Without it an
invocation could read the object just before a run finishes and submit just
after, each time, and so repeat the run for ever; the requeue intervals of the
code (half the recording duration or more) make that unlikely rather than
impossible. The runs of the liveness check do not hang, and no write or read is
lost: `Faults` leaves out `hang`, `write` and `fetch`, see the limits below.

For a namespace check: invocations and the steps of its runs are taken, the cache gets
to know of what was created, workload checks end (which `EventuallyFinished` shows), and
time passes for a baseline that is stuck. Weak fairness is enough, because nothing there repeats by chance. All kinds
of failures are considered; `AlwaysAVerdict` only excepts a lost write and a final
run that waits for ever, both of which really leave the object without a verdict.

For deletion: objects that are queued are reconciled, runs go on, deletions of
namespaces complete. No user has to create or delete anything.
`DeletionCompletes` has no exception, `OthersAreRecorded` that of a hung run.

## Findings

* `executor_shutdown`: a submission after `wg.Wait` returned is accepted, so Start
  logs "All active runs completed" with an active run.
* `executor_panic`: "Panic recovery for all goroutines" does not hold for the
  goroutine that waits in `Start`: a submission between the last `wg.Done` and the
  return of `wg.Wait` reuses the WaitGroup, which panics.
* `workload_sequential`: in sequential mode the loop looks at the checks in the
  random order of a map and waits only if the first unrecorded one is running, so
  that checks run side by side.
* `workload_early_checks`: the checks start as soon as one of the two baselines is
  recorded, although the comment says that the baseline recording is done.
* `workload_late_run`: a check's condition is True before its `CheckRun` is
  written; an analysis in between recommends without it.
* `namespace_early_final`: the comment "All WorkloadHardeningChecks are finished" stands
  at a point that is also reached before any of them has begun, because the list comes
  from a cache that need not have them yet.

## Proofs

`CheckExecutorProofs` proves, for all sets of IDs, owners, goroutines and callers:
`TypeCorrect`, `RegistrationCorrect`, `Deduplication`, `WaitCoversRegistrations`,
`WaitIsComplete`, `CancellationIsAddressed` and `ExecutorImplementsRegistry`. The
only assumption is `ConstantsAssumption`: every ID has an owner, and the values
for "no run" and "no ID" are neither.

The invariant is `IInv`: the types, `RegisteredWhileAlive`, and `CounterIsExact`,
which says that the WaitGroup's counter is the number of goroutines between their
submission and their `wg.Done`. Types alone are not inductive, because `wg.Done`
could make the counter negative; `CounterIsExact` excludes that and gives both
properties of `wg.Wait`. `OneRunPerID` is not inductive either:
`RemoveRun` deletes whatever is registered under the ID, and only
`RegisteredWhileAlive` says that this is its own run (lemma `RemovesItself`).
There is one lemma per action that touches a run, and one for all others.

The refinement needs two more facts (`RInv`): a goroutine that was not started is
in nobody's hands, so that a new run starts with a live context, and `Start` is
called once. Then `Submit` is `Accept`, the return of the function `Return`,
`RemoveRun` `Remove`, `CancelCall` `Stop` (or invisible, when the run has gone
meanwhile), `StartCalled` `Open`, `ManagerStops` `Close`, and the rest stutters.

`WorkloadCheckProofs` proves, for all sets of checks and baselines, all kinds and
numbers of failures and both run modes: `TypeCorrect`, `EvidenceAlwaysStored`,
`RecommendationsAreVetted` and `RecommendationsHaveBaselines`. The only assumption
is `StatusAssumption`: checks, baselines and the names of the code's own conditions
are distinct, and "no recommendation" is not a set of checks.

The three safety invariants are not inductive: what is written to the status was
computed some steps before, by a run on its way to its report or by an analysis
whose result is still to be stored. The invariant `IInv` adds what holds of these:
a run that has come to its report has stored its recording
(`RunsLeaveEvidence`), and the result of an analysis rests on recordings, was
accepted, and is only on its way to the status if both baselines are recorded
(`AnalysisHasEvidence`, `AnalysisVetted`, `AnalysisHasBaselines`). The steps
are grouped by what they may do: `RunEffect` for all steps of a run,
`ReconcileEffect` for all steps of an invocation other than the analysis, and a
restart; `RunStep` and `EffectPreserves` show that such effects keep the
invariant. TLC found `IInv` to hold in every state of `workload_safety` before it was
proved. The theorems also cover what that run leaves out: the states beyond `MCLateBaselineWaits`, several checks, several failures.

That `WorkloadCheck` implements `HardeningVerdict` is `WorkloadCheckImplementsVerdict`,
under the same assumption. Initial states map to initial states, and the three groups
of steps map to `StoreRecordingOf`, to a step of the verdict, or to a stutter. The steps
that matter write what an invocation decided before: `VInv` says that a
final run that is reported as recorded, and a baseline that is reported as bad, have a
recording (`ClaimsHaveEvidence`), that `Finished` is not True while an invocation is
under way (`VerdictIsOpen`: only an invocation writes it, and then ends), and that one
about to write a verdict has its recommendation and these recordings (`VerdictIsDue`).
`VerdictIsFinal` follows: what is under way when a check ends, a late or hung run
included, changes neither verdict nor recommendation.

`WorkloadFinalRunProofs` proves `FinalRunsTestTheRecommendation` and
`TestedRecommendationStands`, under `FinalRunPremise`: no status write is lost, and
failed reads and restarts do not both occur. Both parts are needed, as TLC shows: with
a lost write a recommendation is stored although `Analysis` is not marked as done. With
the other two, a check that was submitted once more is "in progress" again when its
recommendation is stored, and a restart comes before that mark; the next invocation
submits the final run, and in the one after that a failed read of the workload makes
`AllChecksFinished` true, so that the checks are analysed again under the final run. The invariant `FInv` says that once a final run was begun no invocation is
about to recommend anew (`Position`, `FinalIsSettled`), that it was handed what is
stored (`FinalHasRec`), and, for an analysis that a restart interrupted after its
recommendation, that the checks or baselines it was short of will never be recorded
any more (`Interrupted`, `Settled`), so that the analysis is not entered again.

`NamespaceCheckProofs` proves, for any workloads and foreign checks, any kinds and
numbers of failures, with and without webhooks: `TypeCorrect`,
`CreatedChecksHaveBaselines`, `OnlyReportedIsRecommended` and `SettledVerdictStands`.
The only assumption is `NamespaceAssumption`. A recommendation travels from the list
of checks to `collected`, to the status, to the copy `view` and to the final run, each
at another step, so the invariant `IInv` says of all these copies that they were
reported by a finished check of that workload (`RecsAreReported`), and a report is
never taken back. `ChecksHaveBaselines` holds because the webhook asks and no
recording is removed. `SettledVerdictStands` is a step property: with no invocation
and no final run under way, only `Skip` can start one.

`NamespaceSuccessProofs` proves `SuccessSaysTested`, `SuccessCoversAll` and
`TestedRemainsStored`, in the same generality and without an assumption on when the
cache catches up. Several final runs may report and several invocations may store what
they collected. For the first two theorems they agree because from the first time all
checks were found to be finished, nothing begins any more. The invariant `CleanInv` holds
as long as none of the five kinds of failures has happened that `NoWorkloadLeftOut`
names, and no list was taken for complete that missed a check: baselines are submitted
once (`BaselinesOnce`, which rests on `ViewIsCurrent`: no other invocation writes what
the copy holds), every workload that is admitted has its check when checks are counted,
and all of them have come to an end when they are found to be finished (`Collecting`,
`AllEnded`), whatever is stored while a final run or its success stands is all there is
to collect (`UnderwayIsReady`, where `SuccessIsTested` needs `Unambiguous`), and each
final run applies it in full before it says so (`FinalApplies`). `ProgressInv` adds,
while nothing at all has failed, that each baseline recorded all workloads before it
returned, so that every one gets a check.

`TestedRemainsStored` needs no such list to be excluded, nor any failure but a lost
write. Final runs and lists then do not agree; what holds is that a report is never
taken back, so that a list has a recommendation for every workload for which an earlier
list had one. `TestedInv` says that what is stored has one wherever the final run was
given, has applied or has reported one (`StoredCovers`), and that all of these were
reported by finished checks (`FinalIsReported`); where there is one to take, they are
the same. TLC checked the three invariants in every state of `namespace`, and, with one
workload, a user's check of it and two failures, once by hand.

`DeletionProofs` proves, for any objects and names: `TypeCorrect`, `CancelledWhenGone`
and `DeletionIsThorough`. The only assumption is `DeletionAssumption`. The invariant
has, beside the types and `RunsOfGoneAreCancelled`, three parts: nothing runs or exists before the finalizer is
stored (`NothingBeforeFinalizer`), all runs of an object are cancelled from
`CancelByPrefix` on, as long as that deletion goes on (`DeletionCancels`), and, unless
a deletion failed, the clone of an object that is gone is `Harmless`: it is without
the workload, and no run is about to put it there (`Cleared`; until the end of the
deletion, it is Harmless or still on the handler's list). That is the argument for
not waiting: a cancelled run that had not yet got to copying the resources returns
before it does, and the namespace of one that had is there for the list to find.

`SecurityContextsProofs` proves, for any containers, values, given contexts and
templates: `TypeCorrect`, `Isolation`, `TemplatesKept`, `RecommendationsAreTested` and
`FinalRunsTestTheRecommendation`. The assumption is `SecurityContextsAssumption`. It
rests on lemmas about the operators: what each check fills in, and that both merges
and `ApplyTo` keep what their base sets (`MergesKeepTheBase`, `TemplatesAreKept`). Each
theorem has its invariant: the reconciler's copy is unshared and fresh where contexts
are isolated (`CopyIsFresh`); every setting of a recommendation in the making comes
from the template or, where that leaves it open, from a report of a successful check
(`RecInv`); and every such report was applied to the template before (`ReportInv`).

`UniqueRecommendationProofs` proves `OrderDoesNotMatter` and `ChecksAgree`. The first
merged context that has a setting wins, so the order matters unless all agree. The
invariant `AgreeInv` names, for each setting, the one value besides none it can have
(`OnlyInPod`, `OnlyInMain`), and says that the reconciler's copy, the contexts of the runs
and all reports have no other: also where a check fills in a shared context what another
filled in before it, which is where the premise `NoUserConflict` is needed. Then what has
been merged so far is the union of what was merged (`MergeInv`), in any order, without an
induction over it.

Only model-checked: the liveness properties `CancelByPrefixReaches`, `ShutdownReturns`,
`EventuallyFinished`, `AlwaysAVerdict`, `DeletionCompletes` and `OthersAreRecorded` (TLAPS
does not reason about fairness here). Every invariant, action property and refinement
that a passing run checks is also a theorem.

## Limits

Abstractions, and what they leave open:

* In `NamespaceCheck` a workload check is never deleted, and in `CheckRunner` the
  clone is not hollow for lack of a ClusterRoleBinding; `Deletion` has both.
* Of the lag of the manager's cache, `NamespaceCheck` has what concerns the checks it
  creates. An object is read as it is stored when its invocation begins: an invocation
  that is handed a copy older than a verdict, after it was due only later, is not
  modelled in `WorkloadCheck` and `NamespaceCheck` (one that began before the verdict
  is). Status writes read again until the update is not in conflict.
* In `Deletion` the names of clones are distinct (their suffix is random and eight
  characters long), and a stale cache shows as a request under way, not as an old
  answer. A check that is made again takes the runs of its predecessor for its own,
  as in the code.
* In `SecurityContexts` the pod template is not edited meanwhile, filling a context is
  one step (a run that reads in the middle of it sees a mixture), a list of dropped
  capabilities that is present and empty counts as not set, and status writes
  are not lost; lost writes are in `WorkloadCheck`.
* A recording does not expire (24 hours in ValKey).
* Liveness of a workload check with a hung run or a lost status write. A run that
  waits for pods for ever is never replaced, since its resubmission is
  deduplicated; a lost write at the end of an invocation that asks for no other one
  strands the check.

Not modelled:

* How a resource is stripped and converted for a clone, what the recorders sample,
  how log lines are clustered (the Drain library): conversions and I/O without state
  of their own. The oracle may find any recorded check free of anomalies.
* The resume goroutines: no namespace has the label they are started for.
* The webhooks but for the baselines of a new check: stateless.
* Wiring, flags, metrics endpoints and generated code.

## Plan

Done: the executor and the workload check with their abstract specifications, the
status, the runner, the namespace check, deletion and security contexts, with proofs
of all their safety properties. Left, in this order:

1. Liveness of `WorkloadCheck` with a hung run and with lost writes, stated as what
   the code recovers from.
2. Which containers the log oracle compares, and the expiry of recordings.
