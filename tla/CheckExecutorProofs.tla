------------------------ MODULE CheckExecutorProofs -------------------------
(***************************************************************************)
(* What CheckExecutor guarantees for every set of IDs, of goroutines and   *)
(* of callers: type correctness, its safety invariants and the action      *)
(* property of removeRun, from one inductive invariant; and that it        *)
(* implements CheckRunRegistry.                                            *)
(*                                                                         *)
(* Two things make the invariant inductive.  A goroutine is registered     *)
(* under its own ID exactly while it is between Submit and removeRun       *)
(* (RegisteredWhileAlive), so that removeRun never meets the run of        *)
(* another goroutine.  The counter of the WaitGroup is the number of the   *)
(* goroutines that have still to call wg.Done (CounterIsExact), so that    *)
(* it never becomes negative and is zero only when nothing is left.        *)
(***************************************************************************)
EXTENDS CheckExecutor, FiniteSetTheorems, TLAPS

CountedRuns == {r \in Run : stage[r] \in Counted}

CounterIsExact == IsFiniteSet(CountedRuns) /\ wg = Cardinality(CountedRuns)

IInv == TypeOK /\ RegisteredWhileAlive /\ CounterIsExact

-----------------------------------------------------------------------------
(* Steps that leave the runs alone.                                        *)

\* The actions of Start, of its waiting goroutine and of the callers of Cancel
\* touch neither the registrations nor the counter.
LEMMA OtherSteps ==
  ASSUME IInv, TypeOK', UNCHANGED <<activeRuns, wg, stage, runID>>
  PROVE  IInv'
<1>1. RegisteredWhileAlive'
  BY DEF IInv, RegisteredWhileAlive, IsRunning, Registered
<1>2. CounterIsExact'
  <2>1. CountedRuns' = CountedRuns
    BY DEF CountedRuns, Counted, Registered
  <2>2. QED
    BY <2>1 DEF IInv, CounterIsExact
<1>3. QED
  BY <1>1, <1>2 DEF IInv

-----------------------------------------------------------------------------
(* The life of a run.                                                      *)

\* Submit registers and counts a goroutine that was neither.
LEMMA SubmitStep ==
  ASSUME IInv, NEW id \in ID, NEW r \in Run, Submit(id, r)
  PROVE  IInv'
<1>1. TypeOK'
  BY DEF IInv, TypeOK, Submit, Register, startVars, cancelVars, Stages
<1>2. RegisteredWhileAlive'
  <2>1. ASSUME NEW s \in Run
        PROVE  (stage[s] \in Registered <=> /\ runID[s] \in ID
                                           /\ activeRuns[runID[s]] = s)'
    BY ConstantsAssumption
    DEF IInv, TypeOK, RegisteredWhileAlive, IsRunning, Registered, Submit, Register
  <2>2. ASSUME NEW i \in ID, IsRunning(i)'
        PROVE  (runID[activeRuns[i]] = i)'
    <3>1. CASE i = id
      BY <3>1, ConstantsAssumption
      DEF IInv, TypeOK, Submit, Register
    <3>2. CASE i # id
      <4>1. IsRunning(i) /\ activeRuns'[i] = activeRuns[i]
        BY <2>2, <3>2 DEF IInv, TypeOK, Submit, Register, IsRunning
      <4>2. runID[activeRuns[i]] = i /\ activeRuns[i] \in Run
        BY <4>1 DEF IInv, TypeOK, RegisteredWhileAlive, IsRunning
      <4>3. stage[activeRuns[i]] \in Registered
        BY <4>2 DEF IInv, RegisteredWhileAlive
      <4>4. activeRuns[i] # r
        BY <4>3 DEF Submit, Registered
      <4>5. QED
        BY <4>1, <4>2, <4>4 DEF IInv, TypeOK, Submit
    <3>3. QED
      BY <3>1, <3>2
  <2>3. QED
    BY <2>1, <2>2 DEF RegisteredWhileAlive
<1>3. CounterIsExact'
  <2>1. CountedRuns' = CountedRuns \cup {r} /\ r \notin CountedRuns
    BY DEF IInv, TypeOK, Submit, CountedRuns, Counted, Registered
  <2>2. QED
    BY <2>1, FS_AddElement DEF IInv, CounterIsExact, Submit, Register
<1>4. QED
  BY <1>1, <1>2, <1>3 DEF IInv

\* Between fn and the deferred calls nothing is unregistered.
LEMMA FnReturnsStep ==
  ASSUME IInv, NEW r \in Run, FnReturns(r)
  PROVE  IInv'
<1>1. TypeOK'
  BY DEF IInv, TypeOK, FnReturns, startVars, cancelVars, Stages
<1>2. RegisteredWhileAlive'
  BY DEF IInv, TypeOK, RegisteredWhileAlive, IsRunning, Registered, FnReturns
<1>3. CountedRuns' = CountedRuns
  BY DEF IInv, TypeOK, FnReturns, CountedRuns, Counted, Registered
<1>4. QED
  BY <1>1, <1>2, <1>3 DEF IInv, CounterIsExact, FnReturns

\* What removeRun finds under the ID of its goroutine is that goroutine's run.
LEMMA RemovesItself ==
  ASSUME IInv, NEW r \in Run, RemoveRun(r)
  PROVE  runID[r] \in ID /\ activeRuns[runID[r]] = r
BY DEF IInv, RegisteredWhileAlive, RemoveRun, Registered

LEMMA RemoveRunStep ==
  ASSUME IInv, NEW r \in Run, RemoveRun(r)
  PROVE  IInv'
<1> DEFINE id == runID[r]
<1>1. id \in ID /\ activeRuns[id] = r
  BY RemovesItself
<1> HIDE DEF id
<1>2. /\ stage[r] = "returned"
      /\ stage' = [stage EXCEPT ![r] = "removed"]
      /\ activeRuns' = [activeRuns EXCEPT ![id] = NoRun]
      /\ cancelled' = cancelled \cup {r}
      /\ UNCHANGED <<wg, runID, startVars, cancelVars>>
  BY <1>1, ConstantsAssumption DEF RemoveRun, id
<1>3. TypeOK'
  BY <1>1, <1>2 DEF IInv, TypeOK, startVars, cancelVars, Stages
<1>4. RegisteredWhileAlive'
  <2>1. ASSUME NEW s \in Run
        PROVE  (stage[s] \in Registered <=> /\ runID[s] \in ID
                                           /\ activeRuns[runID[s]] = s)'
    <3>1. CASE s = r
      <4>1. stage'[s] = "removed"
        BY <1>2, <3>1 DEF IInv, TypeOK
      <4>2. activeRuns'[runID'[s]] = NoRun
        BY <1>1, <1>2, <3>1 DEF IInv, TypeOK, id
      <4>3. QED
        BY <4>1, <4>2, ConstantsAssumption DEF Registered
    <3>2. CASE s # r
      <4>1. stage'[s] = stage[s] /\ runID'[s] = runID[s]
        BY <1>2, <3>2 DEF IInv, TypeOK
      <4>2. runID[s] \in ID => ((activeRuns'[runID[s]] = s) <=> (activeRuns[runID[s]] = s))
        BY <1>1, <1>2, <3>2, ConstantsAssumption DEF IInv, TypeOK
      <4>3. QED
        BY <4>1, <4>2 DEF IInv, RegisteredWhileAlive
    <3>3. QED
      BY <3>1, <3>2
  <2>2. ASSUME NEW i \in ID, IsRunning(i)'
        PROVE  (runID[activeRuns[i]] = i)'
    BY <1>1, <1>2, <2>2 DEF IInv, TypeOK, RegisteredWhileAlive, IsRunning
  <2>3. QED
    BY <2>1, <2>2 DEF RegisteredWhileAlive
<1>5. CountedRuns' = CountedRuns
  BY <1>2 DEF IInv, TypeOK, CountedRuns, Counted, Registered
<1>6. QED
  BY <1>2, <1>3, <1>4, <1>5 DEF IInv, CounterIsExact

\* wg.Done takes a goroutine out of the count that was in it.
LEMMA WaitGroupDoneStep ==
  ASSUME IInv, NEW r \in Run, WaitGroupDone(r)
  PROVE  IInv'
<1>1. CountedRuns' = CountedRuns \ {r} /\ r \in CountedRuns
  BY DEF IInv, TypeOK, WaitGroupDone, CountedRuns, Counted, Registered
<1>2. CounterIsExact' /\ wg' \in Nat
  <2>1. /\ IsFiniteSet(CountedRuns')
        /\ Cardinality(CountedRuns') = Cardinality(CountedRuns) - 1
    BY <1>1, FS_RemoveElement DEF IInv, CounterIsExact
  <2>2. Cardinality(CountedRuns') \in Nat
    BY <2>1, FS_CardinalityType
  <2>3. QED
    BY <2>1, <2>2 DEF IInv, CounterIsExact, WaitGroupDone
<1>3. TypeOK'
  BY <1>2 DEF IInv, TypeOK, WaitGroupDone, cancelVars, Stages
<1>4. RegisteredWhileAlive'
  BY DEF IInv, TypeOK, RegisteredWhileAlive, IsRunning, Registered, WaitGroupDone
<1>5. QED
  BY <1>2, <1>3, <1>4 DEF IInv

-----------------------------------------------------------------------------
(* The invariant.                                                          *)

LEMMA InitIInv == Init => IInv
<1> SUFFICES ASSUME Init PROVE IInv
  OBVIOUS
<1>1. TypeOK
  BY DEF Init, TypeOK, Stages
<1>2. RegisteredWhileAlive
  BY ConstantsAssumption DEF Init, RegisteredWhileAlive, IsRunning, Registered
<1>3. CountedRuns = {}
  BY DEF Init, CountedRuns, Counted, Registered
<1>4. CounterIsExact
  BY <1>3, FS_EmptySet DEF Init, CounterIsExact
<1>5. QED
  BY <1>1, <1>2, <1>4 DEF IInv

LEMMA NextIInv == IInv /\ [Next]_vars => IInv'
<1> SUFFICES ASSUME IInv, [Next]_vars PROVE IInv'
  OBVIOUS
<1>1. ASSUME NEW id \in ID, NEW r \in Run, Submit(id, r) PROVE IInv'
  BY <1>1, SubmitStep
<1>2. ASSUME NEW r \in Run, FnReturns(r) PROVE IInv'
  BY <1>2, FnReturnsStep
<1>3. ASSUME NEW r \in Run, RemoveRun(r) PROVE IInv'
  BY <1>3, RemoveRunStep
<1>4. ASSUME NEW r \in Run, WaitGroupDone(r) PROVE IInv'
  BY <1>4, WaitGroupDoneStep
<1>5. ASSUME NEW c \in Caller, NEW o \in Owner, CancelByPrefix(c, o) PROVE IInv'
  <2>1. TypeOK'
    BY <1>5 DEF IInv, TypeOK, CancelByPrefix, runVars, startVars
  <2>2. QED
    BY <1>5, <2>1, OtherSteps DEF CancelByPrefix, runVars
<1>6. ASSUME NEW c \in Caller, NEW id \in ID, CancelLookup(c, id) PROVE IInv'
  <2>1. TypeOK'
    BY <1>6 DEF IInv, TypeOK, CancelLookup, runVars, startVars
  <2>2. QED
    BY <1>6, <2>1, OtherSteps DEF CancelLookup, runVars
<1>7. ASSUME NEW c \in Caller, CancelCall(c) PROVE IInv'
  <2>1. TypeOK'
    BY <1>7 DEF IInv, TypeOK, CancelCall, startVars
  <2>2. QED
    BY <1>7, <2>1, OtherSteps DEF CancelCall
<1>8. CASE StartCalled \/ ResumeReturns \/ ManagerStops \/ StartStopping
  <2>1. TypeOK'
    BY <1>8 DEF IInv, TypeOK, StartCalled, ResumeReturns, ManagerStops, StartStopping,
                runVars, cancelVars
  <2>2. QED
    BY <1>8, <2>1, OtherSteps
    DEF StartCalled, ResumeReturns, ManagerStops, StartStopping, runVars
<1>9. CASE WaiterCalls \/ WaiterWakes \/ StartCompletes \/ StartTimesOut
  <2>1. TypeOK'
    BY <1>9 DEF IInv, TypeOK, WaiterCalls, WaiterWakes, StartCompletes, StartTimesOut,
                runVars, cancelVars
  <2>2. QED
    BY <1>9, <2>1, OtherSteps
    DEF WaiterCalls, WaiterWakes, StartCompletes, StartTimesOut, runVars
<1>10. CASE UNCHANGED vars
  <2>1. TypeOK'
    BY <1>10 DEF IInv, TypeOK, vars, runVars, startVars, cancelVars
  <2>2. QED
    BY <1>10, <2>1, OtherSteps DEF vars, runVars
<1>11. QED
  BY <1>1, <1>2, <1>3, <1>4, <1>5, <1>6, <1>7, <1>8, <1>9, <1>10 DEF Next

LEMMA Invariance == Spec => []IInv
BY InitIInv, NextIInv, PTL DEF Spec

-----------------------------------------------------------------------------
(* The safety properties.                                                  *)

\* The state has its types in every execution: in particular the counter of the
\* WaitGroup never becomes negative, which would panic in safeRun.
THEOREM TypeCorrect == Spec => []TypeOK
<1>1. IInv => TypeOK
  BY DEF IInv
<1>2. QED
  BY <1>1, Invariance, PTL

\* A run is registered exactly as long as safeRun has not removed it.
THEOREM RegistrationCorrect == Spec => []RegisteredWhileAlive
<1>1. IInv => RegisteredWhileAlive
  BY DEF IInv
<1>2. QED
  BY <1>1, Invariance, PTL

\* Submit deduplicates: no two goroutines execute a run of one ID.
THEOREM Deduplication == Spec => []OneRunPerID
<1>1. IInv => OneRunPerID
  BY DEF IInv, RegisteredWhileAlive, OneRunPerID
<1>2. QED
  BY <1>1, Invariance, PTL

\* When wg.Wait may return, no run is registered.
THEOREM WaitCoversRegistrations == Spec => []WaitGroupCoversRegistered
<1>1. ASSUME IInv, wg = 0 PROVE ActiveRunCount = 0
  <2>1. CountedRuns = {}
    BY <1>1, FS_EmptySet DEF IInv, CounterIsExact
  <2>2. ASSUME NEW id \in ID, IsRunning(id) PROVE FALSE
    <3>1. activeRuns[id] \in Run /\ runID[activeRuns[id]] = id
      BY <1>1, <2>2 DEF IInv, TypeOK, RegisteredWhileAlive, IsRunning
    <3>2. activeRuns[id] \in CountedRuns
      BY <1>1, <3>1 DEF IInv, RegisteredWhileAlive, CountedRuns, Counted
    <3>3. QED
      BY <2>1, <3>2
  <2>3. {id \in ID : IsRunning(id)} = {}
    BY <2>2
  <2>4. QED
    BY <2>3, FS_EmptySet DEF ActiveRunCount
<1>2. IInv => WaitGroupCoversRegistered
  BY <1>1 DEF WaitGroupCoversRegistered
<1>3. QED
  BY <1>2, Invariance, PTL

\* The goroutine of Start that waits for the runs is done only in a step in which
\* no goroutine is left between its submission and its wg.Done.
THEOREM WaitIsComplete == Spec => WaitCoversAll
<1> DEFINE A == waiter' = "done" /\ waiter # "done" => \A r \in Run : stage[r] \notin Counted
<1>1. ASSUME IInv, [Next]_vars, waiter' = "done", waiter # "done"
      PROVE  \A r \in Run : stage[r] \notin Counted
  <2>1. wg = 0
    BY <1>1 DEF Next, Submit, FnReturns, RemoveRun, WaitGroupDone, CancelByPrefix,
                CancelLookup, CancelCall, StartCalled, ResumeReturns, ManagerStops,
                StartStopping, WaiterCalls, WaiterWakes, StartCompletes, StartTimesOut,
                vars, startVars
  <2>2. CountedRuns = {}
    BY <1>1, <2>1, FS_EmptySet DEF IInv, CounterIsExact
  <2>3. QED
    BY <2>2 DEF CountedRuns
<1>2. IInv /\ [Next]_vars => [A]_vars
  BY <1>1
<1>3. QED
  BY <1>2, Invariance, PTL DEF Spec, WaitCoversAll

\* removeRun of one goroutine never cancels the executing run of another.
THEOREM CancellationIsAddressed == Spec => NoRunCancelledByAnother
<1> DEFINE A == \A r \in Run : stage[r] = "executing" /\ r \in cancelled' \ cancelled
                                => \E c \in Caller : held[c] = r
<1>1. ASSUME IInv, [Next]_vars, NEW r \in Run, stage[r] = "executing",
             r \in cancelled' \ cancelled
      PROVE  \E c \in Caller : held[c] = r
  <2>1. ASSUME NEW s \in Run, RemoveRun(s) PROVE FALSE
    <3>1. cancelled' \subseteq cancelled \cup {s}
      BY <1>1, <2>1, RemovesItself DEF RemoveRun
    <3>2. QED
      BY <1>1, <2>1, <3>1 DEF RemoveRun
  <2>2. ASSUME NEW c \in Caller, CancelCall(c) PROVE held[c] = r
    BY <1>1, <2>2 DEF CancelCall
  <2>3. QED
    BY <1>1, <2>1, <2>2
    DEF Next, Submit, FnReturns, WaitGroupDone, CancelByPrefix, CancelLookup, StartCalled,
        ResumeReturns, ManagerStops, StartStopping, WaiterCalls, WaiterWakes,
        StartCompletes, StartTimesOut, vars, runVars
<1>2. IInv /\ [Next]_vars => [A]_vars
  BY <1>1
<1>3. QED
  BY <1>2, Invariance, PTL DEF Spec, NoRunCancelledByAnother

-----------------------------------------------------------------------------
(* CheckExecutor implements CheckRunRegistry.                              *)

\* Only a goroutine that was started is looked up or cancelled: a run starts
\* with a context that nobody has cancelled yet.
StartedBeforeCancelled ==
  \A r \in Run : stage[r] = "unborn" => r \notin cancelled /\ \A c \in Caller : held[c] # r

LEMMA StartedStep ==
  ASSUME IInv, StartedBeforeCancelled, [Next]_vars
  PROVE  StartedBeforeCancelled'
<1>1. ASSUME NEW id \in ID, NEW r \in Run, Submit(id, r) PROVE StartedBeforeCancelled'
  BY <1>1 DEF IInv, TypeOK, StartedBeforeCancelled, Submit, cancelVars
<1>2. ASSUME NEW r \in Run, FnReturns(r) \/ WaitGroupDone(r) PROVE StartedBeforeCancelled'
  BY <1>2 DEF IInv, TypeOK, StartedBeforeCancelled, FnReturns, WaitGroupDone, cancelVars
<1>3. ASSUME NEW r \in Run, RemoveRun(r) PROVE StartedBeforeCancelled'
  <2>1. cancelled' \subseteq cancelled \cup {r}
    BY <1>3, RemovesItself DEF RemoveRun
  <2>2. QED
    BY <1>3, <2>1 DEF IInv, TypeOK, StartedBeforeCancelled, RemoveRun, cancelVars
<1>4. ASSUME NEW c \in Caller, NEW id \in ID, CancelLookup(c, id)
      PROVE  StartedBeforeCancelled'
  <2>1. \A r \in Run : activeRuns[id] = r => stage[r] # "unborn"
    BY ConstantsAssumption DEF IInv, TypeOK, RegisteredWhileAlive, IsRunning, Registered
  <2>2. QED
    BY <1>4, <2>1
    DEF IInv, TypeOK, StartedBeforeCancelled, CancelLookup, runVars
<1>5. ASSUME NEW c \in Caller, CancelCall(c) PROVE StartedBeforeCancelled'
  BY <1>5, ConstantsAssumption DEF IInv, TypeOK, StartedBeforeCancelled, CancelCall
<1>6. ASSUME UNCHANGED <<stage, cancelled, held>> PROVE StartedBeforeCancelled'
  BY <1>6 DEF StartedBeforeCancelled
<1>7. QED
  BY <1>1, <1>2, <1>3, <1>4, <1>5, <1>6
  DEF Next, CancelByPrefix, StartCalled, ResumeReturns, ManagerStops, StartStopping,
      WaiterCalls, WaiterWakes, StartCompletes, StartTimesOut, vars, runVars, cancelVars

\* Start is called once, and sets the manager's context.
StartedOnce == startPC = "new" => managerCtx = "nil"

RInv == IInv /\ StartedBeforeCancelled /\ StartedOnce

LEMMA RInvariance == Spec => []RInv
<1>1. Init => StartedBeforeCancelled
  BY ConstantsAssumption DEF Init, StartedBeforeCancelled
<1>2. Init => StartedOnce
  BY DEF Init, StartedOnce
<1>3. StartedOnce /\ [Next]_vars => StartedOnce'
  BY DEF StartedOnce, Next, Submit, FnReturns, RemoveRun, WaitGroupDone, CancelByPrefix,
         CancelLookup, CancelCall, StartCalled, ResumeReturns, ManagerStops, StartStopping,
         WaiterCalls, WaiterWakes, StartCompletes, StartTimesOut, vars, startVars
<1>4. RInv /\ [Next]_vars => RInv'
  BY <1>3, NextIInv, StartedStep DEF RInv
<1>5. QED
  BY <1>1, <1>2, <1>4, InitIInv, PTL DEF Spec, RInv

\* The views of an ID, as the registry sees them, depend on the run under it.
LEMMA Views ==
  ASSUME RInv, NEW id \in ID
  PROVE  /\ activeRuns[id] = NoRun => RegistryRun[id] = "none" /\ id \notin RegistryCancelled
         /\ \A r \in Run : activeRuns[id] = r =>
              /\ runID[r] = id
              /\ stage[r] \in Registered
              /\ RegistryRun[id] = IF stage[r] = "executing" THEN "executing" ELSE "ended"
              /\ id \in RegistryCancelled <=> CtxDone(r)
BY ConstantsAssumption
DEF RInv, IInv, TypeOK, RegisteredWhileAlive, IsRunning, RegistryRun, RegistryCancelled

LEMMA SubmitAccepts ==
  ASSUME RInv, RInv', NEW id \in ID, NEW r \in Run, Submit(id, r)
  PROVE  Registry!Accept(id)
<1>1. /\ activeRuns[id] = NoRun
      /\ activeRuns' = [activeRuns EXCEPT ![id] = r]
      /\ stage[r] = "unborn" /\ stage' = [stage EXCEPT ![r] = "executing"]
      /\ runID' = [runID EXCEPT ![r] = id]
      /\ managerCtx # "nil"
      /\ UNCHANGED <<cancelled, managerCtx>>
  BY DEF Submit, Register, IsRunning, startVars
<1>2. r \notin cancelled
  BY <1>1 DEF RInv, StartedBeforeCancelled
<1>3. ASSUME NEW i \in ID, i # id
      PROVE  /\ RegistryRun'[i] = RegistryRun[i]
             /\ i \in RegistryCancelled' <=> i \in RegistryCancelled
  <2>1. activeRuns'[i] = activeRuns[i] /\ activeRuns[i] \in Run \cup {NoRun}
    BY <1>1, <1>3 DEF RInv, IInv, TypeOK
  <2>2. ASSUME NEW s \in Run, activeRuns[i] = s
        PROVE  stage'[s] = stage[s]
    <3>1. s # r
      BY <1>1, <2>2, Views DEF Registered
    <3>2. QED
      BY <1>1, <3>1 DEF RInv, IInv, TypeOK
  <2>3. QED
    BY <1>1, <2>1, <2>2 DEF RegistryRun, RegistryCancelled, IsRunning, CtxDone
<1>4. RegistryRun[id] = "none" /\ id \notin RegistryCancelled
  BY <1>1, Views
<1>5. /\ RegistryRun'[id] = "executing"
      /\ id \in RegistryCancelled' <=> managerCtx = "done"
  BY <1>1, <1>2, ConstantsAssumption
  DEF RInv, IInv, TypeOK, RegistryRun, RegistryCancelled, IsRunning, CtxDone
<1>6. RegistryRun' = [RegistryRun EXCEPT ![id] = "executing"]
  BY <1>3, <1>5 DEF RegistryRun
<1>7. RegistryCancelled' = IF RegistryService = "stopping" THEN RegistryCancelled \cup {id}
                                                          ELSE RegistryCancelled
  BY <1>1, <1>3, <1>4, <1>5 DEF RInv, IInv, TypeOK, RegistryCancelled, RegistryService
<1>8. RegistryService # "starting" /\ RegistryService' = RegistryService
  BY <1>1 DEF RInv, IInv, TypeOK, RegistryService
<1>9. QED
  BY <1>4, <1>6, <1>7, <1>8 DEF Registry!Accept

LEMMA FnReturnsReturns ==
  ASSUME RInv, RInv', NEW r \in Run, FnReturns(r)
  PROVE  Registry!Return(runID[r])
<1> DEFINE id == runID[r]
<1>1. id \in ID /\ activeRuns[id] = r
  BY DEF RInv, IInv, RegisteredWhileAlive, FnReturns, Registered
<1>2. RegistryRun[id] = "executing"
  BY <1>1, Views DEF FnReturns
<1>3. RegistryRun' = [RegistryRun EXCEPT ![id] = "ended"]
  <2>1. RegistryRun'[id] = "ended"
    BY <1>1, ConstantsAssumption DEF RInv, IInv, TypeOK, FnReturns, RegistryRun, IsRunning
  <2>2. ASSUME NEW i \in ID, i # id PROVE RegistryRun'[i] = RegistryRun[i]
    <3>1. activeRuns[i] # r
      BY <2>2, Views
    <3>2. QED
      BY <3>1 DEF RInv, IInv, TypeOK, FnReturns, RegistryRun, IsRunning
  <2>3. QED
    BY <1>1, <2>1, <2>2 DEF RegistryRun
<1>4. UNCHANGED <<RegistryCancelled, RegistryService>>
  BY DEF FnReturns, startVars, RegistryCancelled, RegistryService, IsRunning, CtxDone
<1>5. QED
  BY <1>2, <1>3, <1>4 DEF Registry!Return

LEMMA RemoveRunRemoves ==
  ASSUME RInv, RInv', NEW r \in Run, RemoveRun(r)
  PROVE  runID[r] \in ID /\ Registry!Remove(runID[r])
<1> DEFINE id == runID[r]
<1>1. id \in ID /\ activeRuns[id] = r
  BY RemovesItself DEF RInv
<1>2. /\ stage[r] = "returned" /\ stage' = [stage EXCEPT ![r] = "removed"]
      /\ activeRuns' = [activeRuns EXCEPT ![id] = NoRun]
      /\ cancelled' = cancelled \cup {r}
      /\ UNCHANGED <<managerCtx, runID>>
  BY <1>1, ConstantsAssumption DEF RemoveRun, startVars
<1>3. RegistryRun[id] = "ended"
  BY <1>1, <1>2, Views
<1> HIDE DEF id
<1>4. ASSUME NEW i \in ID, i # id
      PROVE  /\ RegistryRun'[i] = RegistryRun[i]
             /\ i \in RegistryCancelled' <=> i \in RegistryCancelled
  <2>1. activeRuns'[i] = activeRuns[i] /\ activeRuns[i] \in Run \cup {NoRun}
    BY <1>1, <1>2, <1>4 DEF RInv, IInv, TypeOK
  <2>2. activeRuns[i] # r
    BY <1>4, Views DEF id
  <2>3. ASSUME NEW s \in Run, s # r
        PROVE  stage'[s] = stage[s] /\ (s \in cancelled' <=> s \in cancelled)
    BY <1>2, <2>3 DEF RInv, IInv, TypeOK
  <2>4. QED
    BY <1>2, <2>1, <2>2, <2>3 DEF RegistryRun, RegistryCancelled, IsRunning, CtxDone
<1>5. RegistryRun'[id] = "none" /\ id \notin RegistryCancelled'
  BY <1>1, <1>2 DEF RInv, IInv, TypeOK, RegistryRun, RegistryCancelled, IsRunning
<1>6. RegistryRun' = [RegistryRun EXCEPT ![id] = "none"]
  BY <1>1, <1>4, <1>5 DEF RegistryRun
<1>7. RegistryCancelled' = RegistryCancelled \ {id}
  BY <1>4, <1>5 DEF RegistryCancelled
<1>8. RegistryService' = RegistryService
  BY <1>2 DEF RegistryService
<1>9. QED
  BY <1>1, <1>3, <1>6, <1>7, <1>8 DEF Registry!Remove, id

\* A cancel function that is called for a run that is no longer registered is
\* not seen by the registry.
LEMMA CancelCallStops ==
  ASSUME RInv, RInv', NEW c \in Caller, CancelCall(c)
  PROVE  (\E id \in ID : Registry!Stop(id)) \/ UNCHANGED Registry!rvars
<1> DEFINE s == held[c]
<1>1. s \in Run /\ cancelled' = cancelled \cup {s} /\ UNCHANGED <<activeRuns, stage, runID>>
  BY DEF RInv, IInv, TypeOK, CancelCall
<1>2. RegistryRun' = RegistryRun /\ RegistryService' = RegistryService
  BY DEF CancelCall, startVars, RegistryRun, RegistryService, IsRunning
<1>3. CASE \E id \in ID : activeRuns[id] = s
  <2>1. PICK id \in ID : activeRuns[id] = s
    BY <1>3
  <2>2. RegistryRun[id] # "none"
    BY <1>1, <2>1, Views
  <2>3. \A i \in ID : activeRuns[i] = s => i = id
    BY <1>1, <2>1, Views
  <2>4. RegistryCancelled' = RegistryCancelled \cup {id}
    BY <1>1, <2>1, <2>3, ConstantsAssumption
    DEF CancelCall, startVars, RegistryCancelled, IsRunning, CtxDone
  <2>5. Registry!Stop(id)
    BY <1>2, <2>2, <2>4 DEF Registry!Stop
  <2>6. QED
    BY <2>5
<1>4. CASE ~\E id \in ID : activeRuns[id] = s
  <2>1. RegistryCancelled' = RegistryCancelled
    BY <1>1, <1>4 DEF CancelCall, startVars, RegistryCancelled, IsRunning, CtxDone
  <2>2. QED
    BY <1>2, <2>1 DEF Registry!rvars
<1>5. QED
  BY <1>3, <1>4

LEMMA RefinementStep ==
  ASSUME RInv, RInv', [Next]_vars
  PROVE  [Registry!RNext]_(Registry!rvars)
<1>1. ASSUME NEW id \in ID, NEW r \in Run, Submit(id, r) PROVE Registry!RNext
  BY <1>1, SubmitAccepts DEF Registry!RNext
<1>2. ASSUME NEW r \in Run, FnReturns(r) PROVE Registry!RNext
  <2>1. runID[r] \in ID
    BY <1>2 DEF RInv, IInv, RegisteredWhileAlive, FnReturns, Registered
  <2>2. QED
    BY <1>2, <2>1, FnReturnsReturns DEF Registry!RNext
<1>3. ASSUME NEW r \in Run, RemoveRun(r) PROVE Registry!RNext
  BY <1>3, RemoveRunRemoves DEF Registry!RNext
<1>4. ASSUME NEW r \in Run, WaitGroupDone(r) PROVE UNCHANGED Registry!rvars
  <2>1. RegistryRun' = RegistryRun
    <3>1. ASSUME NEW i \in ID PROVE RegistryRun'[i] = RegistryRun[i]
      <4>1. activeRuns[i] # r
        BY <1>4, Views DEF WaitGroupDone, Registered
      <4>2. QED
        BY <1>4, <4>1 DEF RInv, IInv, TypeOK, WaitGroupDone, RegistryRun, IsRunning
    <3>2. QED
      BY <3>1 DEF RegistryRun
  <2>2. UNCHANGED <<RegistryCancelled, RegistryService>>
    BY <1>4 DEF WaitGroupDone, RegistryCancelled, RegistryService, IsRunning, CtxDone
  <2>3. QED
    BY <2>1, <2>2 DEF Registry!rvars
<1>5. ASSUME NEW c \in Caller, CancelCall(c) PROVE [Registry!RNext]_(Registry!rvars)
  BY <1>5, CancelCallStops DEF Registry!RNext
<1>6. CASE StartCalled
  <2>1. UNCHANGED <<RegistryRun, RegistryCancelled>>
    <3>1. managerCtx # "done" /\ managerCtx' # "done"
      BY <1>6 DEF StartCalled, RInv, StartedOnce
    <3>2. QED
      BY <1>6, <3>1 DEF StartCalled, runVars, RegistryRun, RegistryCancelled, IsRunning, CtxDone
  <2>2. RegistryService = "starting" /\ RegistryService' = "up"
    BY <1>6 DEF StartCalled, RegistryService, RInv, StartedOnce
  <2>3. QED
    BY <2>1, <2>2 DEF Registry!RNext, Registry!Open
<1>7. CASE ManagerStops
  <2>1. RegistryRun' = RegistryRun
    BY <1>7 DEF ManagerStops, runVars, RegistryRun, IsRunning
  <2>2. RegistryCancelled' = {i \in ID : RegistryRun[i] # "none"}
    BY <1>7 DEF ManagerStops, runVars, RegistryRun, RegistryCancelled, IsRunning, CtxDone
  <2>3. RegistryService = "up" /\ RegistryService' = "stopping"
    BY <1>7 DEF ManagerStops, RegistryService
  <2>4. QED
    BY <2>1, <2>2, <2>3 DEF Registry!RNext, Registry!Close
<1>8. ASSUME UNCHANGED <<managerCtx, activeRuns, stage, cancelled>>
      PROVE  UNCHANGED Registry!rvars
  BY <1>8 DEF Registry!rvars, RegistryRun, RegistryCancelled, RegistryService, IsRunning,
              CtxDone
<1>9. QED
  BY <1>1, <1>2, <1>3, <1>4, <1>5, <1>6, <1>7, <1>8
  DEF Next, CancelByPrefix, CancelLookup, ResumeReturns, StartStopping, WaiterCalls,
      WaiterWakes, StartCompletes, StartTimesOut, vars, runVars, startVars

\* Every behaviour of the executor, seen through its IDs, is one of the registry:
\* locks, snapshots and deferred calls never show.
THEOREM ExecutorImplementsRegistry == Spec => ImplementsRegistry
<1>1. Init => Registry!RInit
  BY ConstantsAssumption
  DEF Init, Registry!RInit, RegistryRun, RegistryCancelled, RegistryService, IsRunning
<1>2. RInv /\ RInv' /\ [Next]_vars => [Registry!RNext]_(Registry!rvars)
  BY RefinementStep
<1>3. QED
  BY <1>1, <1>2, RInvariance, PTL DEF Spec, ImplementsRegistry, Registry!RSpec
=============================================================================
