--------------------------- MODULE DeletionProofs ---------------------------
(***************************************************************************)
(* What Deletion guarantees for every set of objects, whichever of them    *)
(* share a name or are deleted, and every kind and number of failures:     *)
(* type correctness, and that a deletion leaves neither a run that is not  *)
(* cancelled nor a clone with the workload in it.                          *)
(*                                                                         *)
(* The second is not inductive: the clone of a run that was cancelled may  *)
(* still be created, or filled, behind the back of handleDeletion.  IInv   *)
(* says why that is harmless (Cleared): a run that was to fill its clone   *)
(* when it was cancelled had one that the list of handleDeletion contains, *)
(* and a run that was to create it then never fills it.                    *)
(***************************************************************************)
EXTENDS Deletion, TLAPS

\* Before the finalizer is there, there is nothing to be deleted.
NothingBeforeFinalizer ==
  \A o \in Object : obj[o] \in {"absent", "new"} => run[o] = "none" /\ ns[o] = "absent"

\* handleDeletion is under way only for an object that is being deleted, and past its
\* first step the run of the object is cancelled.
DeletionCancels ==
  \A o \in Object : pc[o] # "idle" => obj[o] = "deleting" /\ (Registered(o) => IsCancelled(o))

\* Neither has the clone the workload, nor will it get it.
Harmless(o) == ns[o] # "active" /\ (run[o] = "fill" => ns[o] # "hollow")
Cleared ==
  "delete" \notin seen =>
    \A o \in Object : /\ obj[o] = "gone" => Harmless(o)
                      /\ pc[o] = "delete" => o \in todo[o] \/ Harmless(o)

IInv == /\ TypeOK
        /\ NothingBeforeFinalizer /\ DeletionCancels /\ RunsOfGoneAreCancelled
        /\ Cleared

-----------------------------------------------------------------------------
LEMMA FaultType ==
  ASSUME faults \in 0..MaxFaults, seen \in SUBSET Faults,
         (\E kind \in FaultKinds : Fault(kind)) \/ NoFault
  PROVE  faults' \in 0..MaxFaults /\ seen' \in SUBSET Faults /\ seen \subseteq seen'
BY DeletionAssumption DEF Fault, NoFault

LEMMA InitInvariant == Init => IInv
BY DeletionAssumption DEF Init, IInv, TypeOK, NothingBeforeFinalizer, DeletionCancels,
   RunsOfGoneAreCancelled, Registered, Cleared, Harmless

\* What the deletion of a namespace may change: that one, which is then no longer in
\* use, unless the deletion fails.
LEMMA DeleteNamespaceEffect ==
  ASSUME TypeOK, NEW c \in Object, DeleteNamespace(c)
  PROVE  /\ ns' \in [Object -> {"absent", "hollow", "active", "terminating"}]
         /\ bound' \in SUBSET Object
         /\ faults' \in 0..MaxFaults /\ seen' \in SUBSET Faults /\ seen \subseteq seen'
         /\ \A o \in Object \ {c} : ns'[o] = ns[o]
         /\ ns'[c] \in {ns[c], "terminating"} /\ (ns[c] = "absent" => ns'[c] = "absent")
         /\ "delete" \in seen' \/ ns'[c] \in {"absent", "terminating"}
<1>1. faults' \in 0..MaxFaults /\ seen' \in SUBSET Faults /\ seen \subseteq seen'
  BY FaultType DEF DeleteNamespace, Gone, TypeOK, FaultKinds
<1>2. CASE Gone(c)
  BY <1>1, <1>2 DEF Gone, clones, TypeOK
<1>3. CASE ns' = [ns EXCEPT ![c] = "terminating"] /\ bound' \in {bound, bound \ {c}} /\ ns[c] # "absent"
  BY <1>1, <1>3 DEF TypeOK
<1>4. CASE UNCHANGED clones /\ Fault("delete")
  BY <1>1, <1>4 DEF clones, Fault, TypeOK
<1>5. QED
  BY <1>2, <1>3, <1>4 DEF DeleteNamespace

-----------------------------------------------------------------------------
(* The user, and Reconcile.                                                *)

LEMMA UserSteps ==
  ASSUME IInv, NEW o \in Object, Create(o) \/ Delete(o)
  PROVE  IInv'
<1>1. TypeOK'
  <2>1. CASE Create(o)
    BY <2>1 DEF IInv, TypeOK, Create, NoFault, NoRunSteps, runVars, clones
  <2>2. CASE Delete(o)
    <3>1. obj' \in {[obj EXCEPT ![o] = "gone"], [obj EXCEPT ![o] = "deleting"]}
      BY <2>2 DEF Delete
    <3>2. QED
      BY <2>2, <3>1 DEF IInv, TypeOK, Delete, NoFault, NoRunSteps, runVars, clones
  <2>3. QED
    BY <2>1, <2>2
<1>2. NothingBeforeFinalizer' /\ DeletionCancels' /\ RunsOfGoneAreCancelled' /\ Cleared'
  BY DEF IInv, TypeOK, Create, Delete, NoFault, NoRunSteps, runVars, clones,
         NothingBeforeFinalizer, DeletionCancels, RunsOfGoneAreCancelled, Registered, IsCancelled,
         Cleared, Harmless
<1>3. QED
  BY <1>1, <1>2 DEF IInv

LEMMA ReconcileSteps ==
  ASSUME IInv, NEW o \in Object,
         Skip(o) \/ AddFinalizer(o) \/ Submit(o) \/ CancelByPrefix(o) \/ ListNamespaces(o)
         \/ RemoveFinalizer(o)
  PROVE  IInv'
<1>1. faults' \in 0..MaxFaults /\ seen' \in SUBSET Faults /\ seen \subseteq seen'
  BY FaultType DEF IInv, TypeOK, FaultKinds, Skip, AddFinalizer, Submit, CancelByPrefix,
                   ListNamespaces, RemoveFinalizer
<1>2. CASE Skip(o)
  BY <1>1, <1>2 DEF IInv, TypeOK, Skip, NoRunSteps, runVars, clones,
     NothingBeforeFinalizer, DeletionCancels, RunsOfGoneAreCancelled, Registered, IsCancelled,
     Cleared, Harmless
<1>3. CASE AddFinalizer(o)
  BY <1>1, <1>3 DEF IInv, TypeOK, AddFinalizer, Idle, NoRunSteps, runVars, clones,
     NothingBeforeFinalizer, DeletionCancels, RunsOfGoneAreCancelled, Registered, IsCancelled,
     Cleared, Harmless
<1>4. CASE Submit(o)
  BY <1>1, <1>4 DEF IInv, TypeOK, Submit, Idle, handlerVars, clones,
     NothingBeforeFinalizer, DeletionCancels, RunsOfGoneAreCancelled, Registered, IsCancelled,
     Cleared, Harmless
<1>5. CASE CancelByPrefix(o)
  <2>1. cancelled' \in SUBSET Object /\ cancelled \subseteq cancelled'
        /\ (Registered(o) => o \in cancelled')
    BY <1>5 DEF IInv, TypeOK, CancelByPrefix, RunsNamed
  <2>2. TypeOK'
    BY <1>1, <1>5, <2>1 DEF IInv, TypeOK, CancelByPrefix, clones
  <2>3. QED
    BY <1>1, <1>5, <2>1, <2>2 DEF IInv, TypeOK, CancelByPrefix, Idle, clones,
       NothingBeforeFinalizer, DeletionCancels, RunsOfGoneAreCancelled, Registered, IsCancelled,
       Cleared, Harmless
<1>6. CASE ListNamespaces(o)
  BY <1>1, <1>6 DEF IInv, TypeOK, ListNamespaces, NoRunSteps, runVars, clones,
     NothingBeforeFinalizer, DeletionCancels, RunsOfGoneAreCancelled, Registered, IsCancelled,
     Cleared, Harmless
<1>7. CASE RemoveFinalizer(o)
  <2>1. obj' \in {obj, [obj EXCEPT ![o] = "gone"]} /\ queued' \in {queued, [queued EXCEPT ![o] = FALSE]}
        /\ pc' = [pc EXCEPT ![o] = "idle"] /\ todo' = todo /\ pc[o] = "delete" /\ todo[o] = {}
        /\ UNCHANGED <<recorded, run, retry, cancelled, ns, bound>>
    BY <1>7 DEF RemoveFinalizer, NoRunSteps, runVars, clones
  <2>2. TypeOK'
    BY <1>1, <2>1 DEF IInv, TypeOK
  <2>3. NothingBeforeFinalizer' /\ DeletionCancels' /\ RunsOfGoneAreCancelled'
    BY <2>1 DEF IInv, TypeOK, NothingBeforeFinalizer, DeletionCancels, RunsOfGoneAreCancelled,
                Registered, IsCancelled
  <2>4. Cleared'
    BY <1>1, <2>1 DEF IInv, TypeOK, Cleared, Harmless
  <2>5. QED
    BY <2>2, <2>3, <2>4 DEF IInv
<1>8. QED
  BY <1>2, <1>3, <1>4, <1>5, <1>6, <1>7

LEMMA DeleteCloneStep ==
  ASSUME IInv, NEW o \in Object, NEW c \in Object, DeleteClone(o, c)
  PROVE  IInv'
<1>1. TypeOK'
  BY DeleteNamespaceEffect DEF IInv, TypeOK, DeleteClone, runVars
<1>2. NothingBeforeFinalizer' /\ DeletionCancels' /\ RunsOfGoneAreCancelled'
  BY DeleteNamespaceEffect DEF IInv, TypeOK, DeleteClone, runVars, NothingBeforeFinalizer,
     DeletionCancels, RunsOfGoneAreCancelled, Registered, IsCancelled
<1>3. Cleared'
  BY DeleteNamespaceEffect DEF IInv, TypeOK, DeleteClone, runVars, Cleared, Harmless
<1>4. QED
  BY <1>1, <1>2, <1>3 DEF IInv

-----------------------------------------------------------------------------
(* The runs.                                                               *)

\* What a step of the run of o may do: nothing to other runs and clones, nothing to
\* the handlers, and a cancelled run brings no workload into a clone that has none.
RunEffect(o) ==
  /\ Registered(o) /\ UNCHANGED handlerVars
  /\ recorded' \in [Object -> {"none", "unknown", "recorded"}]
  /\ run' \in [Object -> {"none", "submitted", "recheck", "create", "bind", "fill",
                          "work", "hung", "cleanup"}]
  /\ retry' \in [Object -> BOOLEAN]
  /\ ns' \in [Object -> {"absent", "hollow", "active", "terminating"}]
  /\ bound' \in SUBSET Object
  /\ \A p \in Object \ {o} : run'[p] = run[p] /\ ns'[p] = ns[p]
  /\ \/ cancelled' = cancelled
     \/ cancelled' = cancelled \ {o} /\ run'[o] = "none"
  /\ "delete" \notin seen' /\ IsCancelled(o) /\ Harmless(o) => Harmless(o)'

LEMMA RunEffectKeepsInvariant ==
  ASSUME IInv, NEW o \in Object, RunEffect(o),
         faults' \in 0..MaxFaults, seen' \in SUBSET Faults, seen \subseteq seen'
  PROVE  IInv'
<1>1. TypeOK'
  BY DEF IInv, TypeOK, RunEffect, handlerVars
<1>2. NothingBeforeFinalizer'
  <2>1. \A p \in Object : obj[p] \in {"absent", "new"} => p # o
    BY DEF IInv, NothingBeforeFinalizer, RunEffect, Registered
  <2>2. QED
    BY <2>1 DEF IInv, NothingBeforeFinalizer, RunEffect, handlerVars
<1>3. \A p \in Object : Registered(p)' => Registered(p) /\ (IsCancelled(p) => IsCancelled(p)')
  BY DEF RunEffect, Registered, IsCancelled
<1>4. DeletionCancels' /\ RunsOfGoneAreCancelled'
  BY <1>3 DEF IInv, DeletionCancels, RunsOfGoneAreCancelled, RunEffect, handlerVars
<1>5. ASSUME "delete" \notin seen', NEW p \in Object
      PROVE  /\ obj[p] = "gone" => Harmless(p)'
             /\ pc[p] = "delete" => p \in todo[p] \/ Harmless(p)'
  <2>1. /\ obj[p] = "gone" => Harmless(p)
        /\ pc[p] = "delete" => p \in todo[p] \/ Harmless(p)
    BY <1>5 DEF IInv, Cleared
  <2>2. p # o /\ Harmless(p) => Harmless(p)'
    BY DEF RunEffect, Harmless
  <2>3. obj[o] = "gone" \/ pc[o] = "delete" => IsCancelled(o)
    BY DEF IInv, RunsOfGoneAreCancelled, DeletionCancels, RunEffect
  <2>4. QED
    BY <1>5, <2>1, <2>2, <2>3 DEF RunEffect
<1>6. Cleared'
  BY <1>5 DEF Cleared, RunEffect, handlerVars
<1>7. QED
  BY <1>1, <1>2, <1>4, <1>6 DEF IInv

LEMMA RunSteps ==
  ASSUME IInv, NEW o \in Object, RunCheckStep(o) \/ Hangs(o)
  PROVE  IInv'
<1> USE DEF RunEffect, Registered, Harmless, IsCancelled, NoReconcile, clones
<1>1. TypeOK
  BY DEF IInv
<1>2. CASE DeleteLeftover(o)
  <2>1. CASE IsCancelled(o)
    BY <1>1, <1>2, <2>1, RunEffectKeepsInvariant DEF DeleteLeftover, Goto, NoFault, TypeOK
  <2>2. CASE ~IsCancelled(o)
    <3>1. DeleteNamespace(o) /\ run[o] = "submitted" /\ UNCHANGED handlerVars
          /\ run' = [run EXCEPT ![o] = "recheck"] /\ UNCHANGED <<recorded, retry, cancelled>>
      BY <1>2, <2>2 DEF DeleteLeftover, Goto
    <3>2. RunEffect(o)
      BY <1>1, <2>2, <3>1, DeleteNamespaceEffect DEF TypeOK
    <3>3. QED
      BY <1>1, <3>1, <3>2, DeleteNamespaceEffect, RunEffectKeepsInvariant
  <2>3. QED
    BY <2>1, <2>2
<1>3. CASE UseLeftover(o)
  BY <1>1, <1>3, RunEffectKeepsInvariant DEF UseLeftover, Goto, NoFault, TypeOK
<1>4. CASE SendCreate(o)
  <2>1. faults' \in 0..MaxFaults /\ seen' \in SUBSET Faults /\ seen \subseteq seen'
    BY <1>1, <1>4 DEF SendCreate, NoFault, TypeOK
  <2>2. RunEffect(o)
    <3>1. CASE IsCancelled(o)
      BY <1>1, <1>4, <3>1 DEF SendCreate, Return, Returns, TypeOK
    <3>2. CASE ~IsCancelled(o)
      BY <1>1, <1>4, <3>2 DEF SendCreate, Goto, TypeOK
    <3>3. QED
      BY <3>1, <3>2
  <2>3. QED
    BY <2>1, <2>2, RunEffectKeepsInvariant
<1>5. CASE CreateNamespace(o)
  <2>1. faults' \in 0..MaxFaults /\ seen' \in SUBSET Faults /\ seen \subseteq seen'
    BY <1>1, <1>5, FaultType DEF CreateNamespace, TypeOK, FaultKinds
  <2>2. RunEffect(o)
    <3>1. CASE ns' = [ns EXCEPT ![o] = "hollow"] /\ NextRequest(o, "bind")
      <4>1. CASE IsCancelled(o)
        BY <1>1, <1>5, <3>1, <4>1 DEF CreateNamespace, NextRequest, Return, Returns, TypeOK
      <4>2. CASE ~IsCancelled(o)
        BY <1>1, <1>5, <3>1, <4>2 DEF CreateNamespace, NextRequest, Goto, TypeOK
      <4>3. QED
        BY <4>1, <4>2
    <3>2. CASE UNCHANGED ns /\ Return(o)
      BY <1>1, <1>5, <3>2 DEF CreateNamespace, Return, Returns, TypeOK
    <3>3. QED
      BY <1>5, <3>1, <3>2 DEF CreateNamespace
  <2>3. QED
    BY <2>1, <2>2, RunEffectKeepsInvariant
<1>6. CASE BindRoles(o)
  <2>1. faults' \in 0..MaxFaults /\ seen' \in SUBSET Faults /\ seen \subseteq seen'
    BY <1>1, <1>6, FaultType DEF BindRoles, TypeOK, FaultKinds
  <2>2. RunEffect(o)
    BY <1>1, <1>6 DEF BindRoles, NextRequest, Goto, Return, Returns, TypeOK
  <2>3. QED
    BY <2>1, <2>2, RunEffectKeepsInvariant
<1>7. CASE CloneResources(o)
  <2>1. faults' \in 0..MaxFaults /\ seen' \in SUBSET Faults /\ seen \subseteq seen'
    BY <1>1, <1>7, FaultType DEF CloneResources, TypeOK, FaultKinds
  <2>2. run[o] = "fill" /\ UNCHANGED bound /\ NoReconcile
    BY <1>7 DEF CloneResources
  <2>3. RunEffect(o)
    <3>1. CASE ns[o] = "hollow" /\ ns' = [ns EXCEPT ![o] = "active"] /\ Goto(o, "work")
      BY <1>1, <2>2, <3>1 DEF Goto, TypeOK
    <3>2. CASE UNCHANGED ns /\ Goto(o, "work")
      BY <1>1, <2>2, <3>2 DEF Goto, TypeOK
    <3>3. CASE UNCHANGED ns /\ Return(o)
      BY <1>1, <2>2, <3>3 DEF Return, Returns, TypeOK
    <3>4. QED
      BY <1>7, <3>1, <3>2, <3>3 DEF CloneResources
  <2>4. QED
    BY <2>1, <2>3, RunEffectKeepsInvariant
<1>8. CASE Record(o)
  BY <1>1, <1>8, RunEffectKeepsInvariant DEF Record, NoFault, TypeOK
<1>9. CASE RecordFails(o)
  <2>1. faults' \in 0..MaxFaults /\ seen' \in SUBSET Faults /\ seen \subseteq seen'
    BY <1>1, <1>9, FaultType DEF RecordFails, TypeOK, FaultKinds
  <2>2. recorded' \in [Object -> {"none", "unknown", "recorded"}]
    BY <1>1, <1>9 DEF RecordFails, ReturnWith, TypeOK
  <2>3. RunEffect(o)
    BY <1>1, <1>9, <2>2 DEF RecordFails, ReturnWith, Returns, TypeOK
  <2>4. QED
    BY <2>1, <2>3, RunEffectKeepsInvariant
<1>10. CASE Hangs(o)
  <2>1. faults' \in 0..MaxFaults /\ seen' \in SUBSET Faults /\ seen \subseteq seen'
    BY <1>1, <1>10, FaultType DEF Hangs, TypeOK, FaultKinds
  <2>2. RunEffect(o)
    BY <1>1, <1>10 DEF Hangs, Goto, TypeOK
  <2>3. QED
    BY <2>1, <2>2, RunEffectKeepsInvariant
<1>11. CASE CleanUp(o)
  <2>1. CASE IsCancelled(o)
    BY <1>1, <1>11, <2>1, RunEffectKeepsInvariant DEF CleanUp, Return, Returns, NoFault, TypeOK
  <2>2. CASE ~IsCancelled(o)
    <3>1. DeleteNamespace(o) /\ run[o] = "cleanup" /\ UNCHANGED handlerVars /\ Return(o)
      BY <1>11, <2>2 DEF CleanUp
    <3>2. RunEffect(o)
      BY <1>1, <2>2, <3>1, DeleteNamespaceEffect DEF Return, Returns, TypeOK
    <3>3. QED
      BY <1>1, <3>1, <3>2, DeleteNamespaceEffect, RunEffectKeepsInvariant
  <2>3. QED
    BY <2>1, <2>2
<1>12. QED
  BY <1>2, <1>3, <1>4, <1>5, <1>6, <1>7, <1>8, <1>9, <1>10, <1>11 DEF RunCheckStep

LEMMA NamespaceGoneStep ==
  ASSUME IInv, NEW c \in Object, NamespaceGone(c)
  PROVE  IInv'
BY DEF IInv, TypeOK, NamespaceGone, NoReconcile, NoFault, handlerVars, runVars,
       NothingBeforeFinalizer, DeletionCancels, RunsOfGoneAreCancelled, Registered, IsCancelled,
       Cleared, Harmless

LEMMA RestartStep ==
  ASSUME IInv, Restart
  PROVE  IInv'
<1>1. faults' \in 0..MaxFaults /\ seen' \in SUBSET Faults /\ seen \subseteq seen'
  BY FaultType DEF IInv, TypeOK, Restart, FaultKinds
<1>2. \A c \in Object : ns'[c] = ns[c] \/ (run[c] = "create" /\ ns'[c] = "hollow")
  BY DEF Restart
<1>3. TypeOK'
  <2>1. ns' \in [Object -> {"absent", "hollow", "active", "terminating"}]
    BY DEF IInv, TypeOK, Restart
  <2>2. bound' \in SUBSET Object /\ queued' \in [Object -> BOOLEAN]
    BY DEF IInv, TypeOK, Restart, Exists
  <2>3. UNCHANGED <<obj, recorded>> /\ cancelled' = {}
        /\ pc' = [o \in Object |-> "idle"] /\ todo' = [o \in Object |-> {}]
        /\ run' = [o \in Object |-> "none"] /\ retry' = [o \in Object |-> FALSE]
    BY DEF Restart
  <2>4. QED
    BY <1>1, <2>1, <2>2, <2>3 DEF IInv, TypeOK
<1>4. NothingBeforeFinalizer' /\ DeletionCancels' /\ RunsOfGoneAreCancelled'
  BY <1>2 DEF IInv, Restart, NothingBeforeFinalizer, DeletionCancels, RunsOfGoneAreCancelled,
              Registered
<1>5. Cleared'
  BY <1>1, <1>2 DEF IInv, Restart, Cleared, Harmless
<1>6. QED
  BY <1>3, <1>4, <1>5 DEF IInv

-----------------------------------------------------------------------------
LEMMA NextInvariant == IInv /\ [Next]_vars => IInv'
<1> SUFFICES ASSUME IInv, [Next]_vars PROVE IInv'
  OBVIOUS
<1>1. CASE UNCHANGED vars
  BY <1>1 DEF vars, handlerVars, runVars, clones, IInv, TypeOK, NothingBeforeFinalizer,
     DeletionCancels, RunsOfGoneAreCancelled, Registered, IsCancelled, Cleared, Harmless
<1>2. ASSUME NEW o \in Object, Create(o) \/ Delete(o) \/ Reconcile(o) \/ RunCheckStep(o)
                               \/ Hangs(o) \/ NamespaceGone(o)
      PROVE  IInv'
  BY <1>2, UserSteps, ReconcileSteps, DeleteCloneStep, RunSteps, NamespaceGoneStep DEF Reconcile
<1>3. CASE Restart
  BY <1>3, RestartStep
<1>4. QED
  BY <1>1, <1>2, <1>3 DEF Next

LEMMA Invariant == Spec => []IInv
BY InitInvariant, NextInvariant, PTL DEF Spec

\* The variables keep their types, for any objects, names and failures.
THEOREM TypeCorrect == Spec => []TypeOK
BY Invariant, PTL DEF IInv

\* No run of a WorkloadHardeningCheck that is gone goes on without a cancelled context:
\* the finalizer precedes the first run, CancelByPrefix the removal of the finalizer,
\* and an object that is being deleted submits nothing.
THEOREM CancelledWhenGone == Spec => []RunsOfGoneAreCancelled
BY Invariant, PTL DEF IInv

\* handleDeletion leaves no clone with the workload behind, although it does not wait
\* for the runs that it cancels and lists the clones only once, unless a namespace
\* could not be deleted.
THEOREM DeletionIsThorough == Spec => []NothingRunsAfterDeletion
<1>1. IInv => NothingRunsAfterDeletion
  BY DEF IInv, Cleared, Harmless, NothingRunsAfterDeletion
<1>2. QED
  BY <1>1, Invariant, PTL
=============================================================================
