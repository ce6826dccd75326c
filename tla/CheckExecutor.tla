--------------------------- MODULE CheckExecutor ----------------------------
(***************************************************************************)
(* internal/executor/executor.go: the CheckExecutor that runs the long     *)
(* check runs of both controllers.  An action is what one goroutine does   *)
(* between two points where another can run: a critical section of e.mu,   *)
(* a deferred call of safeRun, a branch of Start's select.                 *)
(*                                                                         *)
(* Abstracted: a CheckRunID "<namespace>/<name>:<check type>" is a member  *)
(* of ID; its prefix "<namespace>/<name>:" is OwnerOf[id], the hardening   *)
(* check that owns the run.  The submitted function is a step that returns *)
(* (or panics, which safeRun recovers) at any time, or never.              *)
(***************************************************************************)
EXTENDS Naturals, FiniteSets

CONSTANTS ID,                  \* CheckRunIDs
          Owner,               \* hardening checks, the prefixes of the IDs
          OwnerOf,             \* the prefix of each ID
          Run,                 \* goroutines, one per accepted submission
          Caller,              \* goroutines that cancel runs
          NoRun,               \* a nil *activeRun
          NoID                 \* the ID of a goroutine that was not started

ASSUME ConstantsAssumption == /\ OwnerOf \in [ID -> Owner]
                              /\ NoRun \notin Run
                              /\ NoID \notin ID

VARIABLES managerCtx,          \* e.managerCtx: nil, live, or done (cancelled)
          activeRuns,          \* e.activeRuns: the run registered under an ID
          wg,                  \* the counter of e.wg
          stage,               \* how far safeRun is in each goroutine
          runID,               \* the ID each goroutine was started with
          cancelled,           \* the runs whose cancel function was called
          startPC,             \* where Start is
          waiter,              \* the goroutine of Start that calls wg.Wait
          toCancel,            \* CancelByPrefix's snapshot, not yet processed
          held                 \* the *activeRun that Cancel looked up

runVars == <<activeRuns, wg, stage, runID, cancelled>>
startVars == <<managerCtx, startPC, waiter>>
cancelVars == <<toCancel, held>>
vars == <<runVars, startVars, cancelVars>>

Stages == {"unborn", "executing", "returned", "removed", "gone"}

TypeOK ==
  /\ managerCtx \in {"nil", "live", "done"}
  /\ activeRuns \in [ID -> Run \cup {NoRun}]
  /\ wg \in Nat
  /\ stage \in [Run -> Stages]
  /\ runID \in [Run -> ID \cup {NoID}]
  /\ cancelled \in SUBSET Run
  /\ startPC \in {"new", "resuming", "serving", "waiting", "completed", "timedOut"}
  /\ waiter \in {"unborn", "started", "blocked", "woken", "done", "panicked"}
  /\ toCancel \in [Caller -> SUBSET ID]
  /\ held \in [Caller -> Run \cup {NoRun}]

Init ==
  /\ managerCtx = "nil"
  /\ activeRuns = [i \in ID |-> NoRun]
  /\ wg = 0
  /\ stage = [r \in Run |-> "unborn"]
  /\ runID = [r \in Run |-> NoID]
  /\ cancelled = {}
  /\ startPC = "new"
  /\ waiter = "unborn"
  /\ toCancel = [c \in Caller |-> {}]
  /\ held = [c \in Caller |-> NoRun]

-----------------------------------------------------------------------------
(* Views of the state that the methods of the executor return.             *)

IsRunning(id) == activeRuns[id] # NoRun
ActiveRunCount == Cardinality({id \in ID : IsRunning(id)})

\* Mutant: Submit derives the context from context.Background().
CtxDoneDetached(r) == r \in cancelled

\* The context a run's function receives is done once its cancel function was
\* called or the manager's context, its parent, is done.
CtxDone(r) == r \in cancelled \/ managerCtx = "done"

\* A panic outside safeRun ends the process: nothing runs any more.
Alive == waiter # "panicked"

-----------------------------------------------------------------------------
(* Submissions.                                                            *)

\* Mutants: the lookup or the call of wg.Add is forgotten.
RegisterReplacing(id, r) ==
  /\ activeRuns' = [activeRuns EXCEPT ![id] = r]
  /\ wg' = wg + 1
RegisterNoAdd(id, r) ==
  /\ ~IsRunning(id)
  /\ activeRuns' = [activeRuns EXCEPT ![id] = r]
  /\ UNCHANGED wg

\* The critical section of Submit. A submission under an ID that is registered is
\* deduplicated: it returns false and is a step that changes nothing.
Register(id, r) ==
  /\ ~IsRunning(id)
  /\ activeRuns' = [activeRuns EXCEPT ![id] = r]
  /\ wg' = wg + 1

\* Before Start, the nil parent context makes Submit panic and leave no trace.
Submit(id, r) ==
  /\ Alive
  /\ managerCtx # "nil"
  /\ stage[r] = "unborn"
  /\ Register(id, r)
  /\ runID' = [runID EXCEPT ![r] = id]
  /\ stage' = [stage EXCEPT ![r] = "executing"]
  /\ UNCHANGED <<cancelled, startVars, cancelVars>>

\* Mutant: the deferred calls in the wrong order, wg.Done before removeRun.
FnReturnsDone(r) ==
  /\ Alive
  /\ stage[r] = "executing"
  /\ stage' = [stage EXCEPT ![r] = "returned"]
  /\ wg' = wg - 1
  /\ UNCHANGED <<activeRuns, runID, cancelled, startVars, cancelVars>>

\* fn returns, or panics and the first deferred call recovers.
FnReturns(r) ==
  /\ Alive
  /\ stage[r] = "executing"
  /\ stage' = [stage EXCEPT ![r] = "returned"]
  /\ UNCHANGED <<activeRuns, wg, runID, cancelled, startVars, cancelVars>>

\* Mutant: removeRun forgets to delete the entry; or calls wg.Done as well.
RemoveRunNoDelete(r) ==
  /\ Alive
  /\ stage[r] = "returned"
  /\ stage' = [stage EXCEPT ![r] = "removed"]
  /\ cancelled' = cancelled \cup {r}
  /\ UNCHANGED <<activeRuns, wg, runID, startVars, cancelVars>>
RemoveRunDone(r) ==
  /\ Alive
  /\ stage[r] = "returned"
  /\ stage' = [stage EXCEPT ![r] = "removed"]
  /\ activeRuns' = [activeRuns EXCEPT ![runID[r]] = NoRun]
  /\ wg' = wg - 1
  /\ UNCHANGED <<runID, cancelled, startVars, cancelVars>>

\* The second deferred call. It cancels and removes whatever is registered
\* under the ID.
RemoveRun(r) ==
  /\ Alive
  /\ stage[r] = "returned"
  /\ stage' = [stage EXCEPT ![r] = "removed"]
  /\ cancelled' = cancelled \cup ({activeRuns[runID[r]]} \ {NoRun})
  /\ activeRuns' = [activeRuns EXCEPT ![runID[r]] = NoRun]
  /\ UNCHANGED <<wg, runID, startVars, cancelVars>>

\* The last deferred call, wg.Done: the call that takes the counter to zero
\* wakes a goroutine blocked in wg.Wait.
WaitGroupDone(r) ==
  /\ Alive
  /\ stage[r] = "removed"
  /\ stage' = [stage EXCEPT ![r] = "gone"]
  /\ wg' = wg - 1
  /\ waiter' = IF wg = 1 /\ waiter = "blocked" THEN "woken" ELSE waiter
  /\ UNCHANGED <<activeRuns, runID, cancelled, managerCtx, startPC, cancelVars>>

-----------------------------------------------------------------------------
(* Cancellation: the locks are released between the lookup of a run and    *)
(* the call of its cancel function, and between the runs of a prefix.      *)

Idle(c) == toCancel[c] = {} /\ held[c] = NoRun

CancelByPrefix(c, o) ==
  /\ Alive
  /\ Idle(c)
  /\ toCancel' = [toCancel EXCEPT ![c] = {id \in ID : IsRunning(id) /\ OwnerOf[id] = o}]
  /\ UNCHANGED <<held, runVars, startVars>>

\* Mutant: CancelByPrefix leaves its loop after the first run.
CancelLookupFirst(c, id) ==
  /\ Alive
  /\ held[c] = NoRun
  /\ id \in toCancel[c] \/ Idle(c)
  /\ toCancel' = [toCancel EXCEPT ![c] = {}]
  /\ held' = [held EXCEPT ![c] = activeRuns[id]]
  /\ UNCHANGED <<runVars, startVars>>

\* Cancel looks the run up: called for the next ID of the snapshot, in any
\* order (it comes from a map), or directly.
CancelLookup(c, id) ==
  /\ Alive
  /\ held[c] = NoRun
  /\ id \in toCancel[c] \/ Idle(c)
  /\ toCancel' = [toCancel EXCEPT ![c] = @ \ {id}]
  /\ held' = [held EXCEPT ![c] = activeRuns[id]]
  /\ UNCHANGED <<runVars, startVars>>

\* ... and calls the cancel function of the run it found.
CancelCall(c) ==
  /\ Alive
  /\ held[c] # NoRun
  /\ cancelled' = cancelled \cup {held[c]}
  /\ held' = [held EXCEPT ![c] = NoRun]
  /\ UNCHANGED <<activeRuns, wg, stage, runID, toCancel, startVars>>

-----------------------------------------------------------------------------
(* Start, and the goroutine in which it waits for the runs.                *)

StartCalled ==
  /\ Alive
  /\ startPC = "new"
  /\ managerCtx' = "live"
  /\ startPC' = "resuming"
  /\ UNCHANGED <<waiter, runVars, cancelVars>>

ResumeReturns ==
  /\ Alive
  /\ startPC = "resuming"
  /\ startPC' = "serving"
  /\ UNCHANGED <<managerCtx, waiter, runVars, cancelVars>>

\* The manager cancels its context. Its reconcilers drain their queues
\* afterwards, so Submit is still called.
ManagerStops ==
  /\ Alive
  /\ managerCtx = "live"
  /\ managerCtx' = "done"
  /\ UNCHANGED <<startPC, waiter, runVars, cancelVars>>

StartStopping ==
  /\ Alive
  /\ startPC = "serving"
  /\ managerCtx = "done"
  /\ startPC' = "waiting"
  /\ waiter' = "started"
  /\ UNCHANGED <<managerCtx, runVars, cancelVars>>

\* wg.Wait returns at once when the counter is zero.
WaiterCalls ==
  /\ Alive
  /\ waiter = "started"
  /\ waiter' = IF wg = 0 THEN "done" ELSE "blocked"
  /\ UNCHANGED <<managerCtx, startPC, runVars, cancelVars>>

\* A woken wg.Wait panics when the counter was raised again meanwhile
\* ("WaitGroup is reused before previous Wait has returned"); nothing
\* recovers a panic of this goroutine.
WaiterWakes ==
  /\ Alive
  /\ waiter = "woken"
  /\ waiter' = IF wg = 0 THEN "done" ELSE "panicked"
  /\ UNCHANGED <<managerCtx, startPC, runVars, cancelVars>>

StartCompletes ==
  /\ Alive
  /\ startPC = "waiting"
  /\ waiter = "done"
  /\ startPC' = "completed"
  /\ UNCHANGED <<managerCtx, waiter, runVars, cancelVars>>

\* Mutant: Start waits for the runs without a timeout.
StartNoTimeout ==
  /\ Alive
  /\ startPC = "waiting"
  /\ waiter = "done"
  /\ startPC' = "timedOut"
  /\ UNCHANGED <<managerCtx, waiter, runVars, cancelVars>>

\* shutdownTimeout may pass at any moment of the wait.
StartTimesOut ==
  /\ Alive
  /\ startPC = "waiting"
  /\ startPC' = "timedOut"
  /\ UNCHANGED <<managerCtx, waiter, runVars, cancelVars>>

-----------------------------------------------------------------------------
Next ==
  \/ \E id \in ID, r \in Run : Submit(id, r)
  \/ \E r \in Run : FnReturns(r) \/ RemoveRun(r) \/ WaitGroupDone(r)
  \/ \E c \in Caller, o \in Owner : CancelByPrefix(c, o)
  \/ \E c \in Caller, id \in ID : CancelLookup(c, id)
  \/ \E c \in Caller : CancelCall(c)
  \/ StartCalled \/ ResumeReturns \/ ManagerStops \/ StartStopping
  \/ WaiterCalls \/ WaiterWakes \/ StartCompletes \/ StartTimesOut

\* The deferred calls of a goroutine run; a caller finishes a cancellation it
\* began; the scan of Start ends (its calls take the manager's context), Start
\* sees the end of the context and its timer fires. Whether fn ever returns is
\* the run's business, and nobody has to submit, cancel or shut down.
Fairness ==
  /\ \A r \in Run : WF_vars(RemoveRun(r)) /\ WF_vars(WaitGroupDone(r))
  /\ \A c \in Caller : /\ WF_vars(CancelCall(c))
                       /\ \A id \in ID : WF_vars(id \in toCancel[c] /\ CancelLookup(c, id))
  /\ WF_vars(ResumeReturns) /\ WF_vars(StartStopping) /\ WF_vars(StartTimesOut)

Spec == Init /\ [][Next]_vars /\ Fairness

-----------------------------------------------------------------------------
(* Properties.                                                             *)

\* The stages in which the goroutine still owns its registration, and those in
\* which the WaitGroup still counts it.
Registered == {"executing", "returned"}
Counted == Registered \cup {"removed"}

\* Deduplication (Submit): two goroutines never execute a run of one ID at the
\* same time, whatever happens between a removal and the next submission.
OneRunPerID ==
  \A r, s \in Run : /\ stage[r] \in Registered
                    /\ stage[s] \in Registered
                    /\ runID[r] = runID[s]
                    => r = s

\* A run is registered exactly as long as safeRun has not removed it: IsRunning
\* never forgets a run that executes and never keeps an ID whose run is over.
RegisteredWhileAlive ==
  /\ \A r \in Run : stage[r] \in Registered <=> /\ runID[r] \in ID
                                                /\ activeRuns[runID[r]] = r
  /\ \A id \in ID : IsRunning(id) => runID[activeRuns[id]] = id

\* wg.Wait cannot return while a run is still registered: safeRun's deferred
\* calls remove a run before they tell the WaitGroup.
WaitGroupCoversRegistered == wg = 0 => ActiveRunCount = 0

\* wg.Wait returns only when every goroutine that was started has finished.
WaitCoversAll ==
  [][waiter' = "done" /\ waiter # "done" => \A r \in Run : stage[r] \notin Counted]_vars

\* removeRun cancels what is registered under its ID: that is never the run of
\* another goroutine, so an executing run is cancelled only by a Cancel of it.
NoRunCancelledByAnother ==
  [][\A r \in Run : stage[r] = "executing" /\ r \in cancelled' \ cancelled
                      => \E c \in Caller : held[c] = r]_vars

\* CancelByPrefix works on a snapshot: every run that was registered under an
\* ID of the snapshot has its context cancelled, also when it ended meanwhile.
CancelByPrefixReaches ==
  \A c \in Caller, id \in ID, r \in Run :
    (id \in toCancel[c] /\ activeRuns[id] = r) ~> (r \in cancelled \/ ~Alive)

\* Shutdown is bounded: once the manager stops, Start returns, even when a run
\* ignores its context for ever.
ShutdownReturns ==
  (managerCtx = "done") ~> (startPC \in {"completed", "timedOut"} \/ ~Alive)

\* The executor keeps the promises of the registry.
RegistryRun ==
  [id \in ID |-> IF ~IsRunning(id) THEN "none"
                 ELSE IF stage[activeRuns[id]] = "executing" THEN "executing" ELSE "ended"]
RegistryCancelled == {id \in ID : IsRunning(id) /\ CtxDone(activeRuns[id])}
RegistryService == IF managerCtx = "nil" THEN "starting"
                   ELSE IF managerCtx = "live" THEN "up" ELSE "stopping"

Registry == INSTANCE CheckRunRegistry WITH run <- RegistryRun,
                                           cancelled <- RegistryCancelled,
                                           service <- RegistryService

\* Every step of the executor, failed and concurrent ones included, is a step of
\* CheckRunRegistry or invisible there.
ImplementsRegistry == Registry!RSpec

-----------------------------------------------------------------------------
(* What the source says of itself and the runs refute.                     *)

\* "All active runs completed" (executor.go:120): a submission that arrives
\* after wg.Wait returned is still accepted, and is active when this is logged.
CompletedMeansIdle ==
  [][startPC' = "completed" /\ startPC # "completed" => ActiveRunCount = 0]_vars

\* "Panic recovery for all goroutines" (executor.go:54): the goroutine that
\* waits for the runs is not protected, and wg is reused under it.
NoUnrecoveredPanic == Alive
=============================================================================
