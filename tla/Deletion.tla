------------------------------ MODULE Deletion ------------------------------
(***************************************************************************)
(* The life and the end of the WorkloadHardeningChecks of one namespace:   *)
(* the finalizer, handleDeletion, and what it takes away from under the    *)
(* runs, cloned namespaces and their ClusterRoleBindings (internal/        *)
(* namespace), while runs go on, fail, hang, and the operator restarts.    *)
(*                                                                         *)
(* Reconcile handles one object at a time, and two objects at once.  Each  *)
(* object has one run here, and an object that is made again under the     *)
(* name of a deleted one is an object of its own: the executor knows runs  *)
(* by name, the clones have the random suffix of their object.             *)
(*                                                                         *)
(* A clone is hollow from the creation of its namespace until the          *)
(* resources are there.  A request that was sent before its context was    *)
(* cancelled may still be carried out; one that is sent later is not.      *)
(***************************************************************************)
EXTENDS Naturals

CONSTANTS Object,              \* the checks that are made in the namespace
          Name,                \* the name of each, which may be used again
          Doomed,              \* those that a user may delete
          Faults,              \* the kinds of failures considered
          MaxFaults            \* how many failures happen at most

FaultKinds == {"write", "list", "delete", "unbind", "clone", "run", "hang", "restart"}

ASSUME DeletionAssumption == /\ Doomed \subseteq Object
                             /\ Faults \subseteq FaultKinds
                             /\ MaxFaults \in Nat

VARIABLES obj,                 \* the object, with and without a finalizer
          recorded,            \* what its condition says of the run
          queued,              \* whether it will be reconciled (again)
          pc, todo,            \* where handleDeletion is, and what it still deletes
          run, retry,          \* where the run is, and whether its copy says Unknown
          cancelled,           \* the runs with a cancelled context
          ns, bound,           \* the clone of each run, and those with bindings
          faults, seen         \* how many failures happened, and of which kinds

handlerVars == <<obj, queued, pc, todo>>
runVars == <<recorded, run, retry, cancelled>>
clones == <<ns, bound>>
vars == <<handlerVars, runVars, clones, faults, seen>>

TypeOK == /\ obj \in [Object -> {"absent", "new", "live", "deleting", "gone"}]
          /\ recorded \in [Object -> {"none", "unknown", "recorded"}]
          /\ queued \in [Object -> BOOLEAN]
          /\ pc \in [Object -> {"idle", "list", "delete"}]
          /\ todo \in [Object -> SUBSET Object]
          /\ run \in [Object -> {"none", "submitted", "recheck", "create", "bind", "fill",
                                 "work", "hung", "cleanup"}]
          /\ retry \in [Object -> BOOLEAN]
          /\ cancelled \in SUBSET Object
          /\ ns \in [Object -> {"absent", "hollow", "active", "terminating"}]
          /\ bound \in SUBSET Object
          /\ faults \in 0..MaxFaults
          /\ seen \in SUBSET Faults

Init == /\ obj = [o \in Object |-> "absent"]
        /\ recorded = [o \in Object |-> "none"]
        /\ queued = [o \in Object |-> FALSE]
        /\ pc = [o \in Object |-> "idle"]
        /\ todo = [o \in Object |-> {}]
        /\ run = [o \in Object |-> "none"]
        /\ retry = [o \in Object |-> FALSE]
        /\ cancelled = {}
        /\ ns = [o \in Object |-> "absent"]
        /\ bound = {}
        /\ faults = 0 /\ seen = {}

-----------------------------------------------------------------------------
\* A failure of one kind, while the bound MaxFaults allows another.
Fault(kind) == /\ kind \in Faults
               /\ faults < MaxFaults
               /\ faults' = faults + 1
               /\ seen' = seen \cup {kind}
NoFault == UNCHANGED <<faults, seen>>

NoRunSteps == UNCHANGED <<runVars, clones>>

Registered(o) == run[o] # "none"
\* Mutant: the names are collected, not the entries.
IDsNamed(name) == {Name[o] : o \in {p \in Object : Name[p] = name /\ Registered(p)}}
RunsNamed(name) == {o \in Object : Name[o] = name /\ Registered(o)}

\* namespace.Delete: nothing is done for a namespace that is not there. The bindings
\* are deleted last, and their errors are not returned.
Gone(c) == ns[c] = "absent" /\ UNCHANGED clones /\ NoFault
DeleteNamespace(c) ==
  \/ Gone(c)
  \/ /\ ns[c] # "absent"
     /\ ns' = [ns EXCEPT ![c] = "terminating"]
     /\ \/ bound' = bound \ {c} /\ NoFault
        \/ UNCHANGED bound /\ Fault("unbind")
  \/ ns[c] # "absent" /\ UNCHANGED clones /\ Fault("delete")

-----------------------------------------------------------------------------
(* The user, and Reconcile.                                                *)

Exists(o) == obj[o] \in {"new", "live", "deleting"}

Create(o) ==
  /\ obj[o] = "absent"
  /\ \A p \in Object : Exists(p) => Name[p] # Name[o]
  /\ obj' = [obj EXCEPT ![o] = "new"]
  /\ queued' = [queued EXCEPT ![o] = TRUE]
  /\ UNCHANGED <<pc, todo>> /\ NoFault /\ NoRunSteps

\* Without a finalizer the object is gone at once; with one it is only marked.
Delete(o) ==
  /\ o \in Doomed
  /\ obj[o] \in {"new", "live"}
  /\ obj' = [obj EXCEPT ![o] = IF @ = "new" THEN "gone" ELSE "deleting"]
  /\ queued' = [queued EXCEPT ![o] = TRUE]
  /\ UNCHANGED <<pc, todo>> /\ NoFault /\ NoRunSteps

Idle(o) == pc[o] = "idle" /\ queued[o]

Skip(o) ==
  /\ Idle(o)
  /\ obj[o] = "gone" \/ (obj[o] = "live" /\ recorded[o] = "recorded")
  /\ queued' = [queued EXCEPT ![o] = FALSE]
  /\ UNCHANGED <<obj, pc, todo>> /\ NoFault /\ NoRunSteps

AddFinalizer(o) ==
  /\ Idle(o)
  /\ obj[o] = "new"
  /\ \/ obj' = [obj EXCEPT ![o] = "live"] /\ NoFault
     \/ UNCHANGED obj /\ Fault("write")
  /\ UNCHANGED <<queued, pc, todo>> /\ NoRunSteps

\* Mutant: runs are submitted before the finalizer is there.
SubmitAnyway(o) ==
  /\ Idle(o)
  /\ obj[o] \in {"new", "live"}
  /\ recorded[o] # "recorded"
  /\ RunsNamed(Name[o]) = {}
  /\ run' = [run EXCEPT ![o] = "submitted"]
  /\ UNCHANGED <<handlerVars, recorded, retry, cancelled, clones>> /\ NoFault

\* recordChecks, for which WorkloadCheck stands in full: what is not recorded is
\* submitted, which the executor ignores when it has a run of that ID.
Submit(o) ==
  /\ Idle(o)
  /\ obj[o] = "live"
  /\ recorded[o] # "recorded"
  /\ RunsNamed(Name[o]) = {}
  /\ run' = [run EXCEPT ![o] = "submitted"]
  /\ retry' = [retry EXCEPT ![o] = recorded[o] = "unknown"]
  /\ UNCHANGED <<handlerVars, recorded, cancelled, clones>> /\ NoFault

\* handleDeletion: the runs are cancelled, but not waited for,
CancelByPrefix(o) ==
  /\ Idle(o)
  /\ obj[o] = "deleting"
  /\ cancelled' = cancelled \cup RunsNamed(Name[o])
  /\ pc' = [pc EXCEPT ![o] = "list"]
  /\ UNCHANGED <<obj, queued, todo, recorded, run, retry, clones>> /\ NoFault

\* ... all clones of the source namespace are listed, of whatever object,
ListNamespaces(o) ==
  /\ pc[o] = "list"
  /\ \/ /\ todo' = [todo EXCEPT ![o] = {c \in Object : ns[c] # "absent"}]
        /\ pc' = [pc EXCEPT ![o] = "delete"]
        /\ NoFault
     \/ pc' = [pc EXCEPT ![o] = "idle"] /\ UNCHANGED todo /\ Fault("list")
  /\ UNCHANGED <<obj, queued>> /\ NoRunSteps

\* ... and deleted, where an error is only logged,
DeleteClone(o, c) ==
  /\ pc[o] = "delete"
  /\ c \in todo[o]
  /\ todo' = [todo EXCEPT ![o] = @ \ {c}]
  /\ DeleteNamespace(c)
  /\ UNCHANGED <<obj, queued, pc, runVars>>

\* Mutant: the error of the update is dropped.
RemoveFinalizerOnce(o) ==
  /\ pc[o] = "delete"
  /\ todo[o] = {}
  /\ \/ obj' = [obj EXCEPT ![o] = "gone"] /\ NoFault
     \/ UNCHANGED obj /\ Fault("write")
  /\ queued' = [queued EXCEPT ![o] = FALSE]
  /\ pc' = [pc EXCEPT ![o] = "idle"]
  /\ UNCHANGED todo /\ NoRunSteps

\* ... and the object may go, or there is another invocation.
RemoveFinalizer(o) ==
  /\ pc[o] = "delete"
  /\ todo[o] = {}
  /\ \/ obj' = [obj EXCEPT ![o] = "gone"] /\ queued' = [queued EXCEPT ![o] = FALSE] /\ NoFault
     \/ UNCHANGED <<obj, queued>> /\ Fault("write")
  /\ pc' = [pc EXCEPT ![o] = "idle"]
  /\ UNCHANGED todo /\ NoRunSteps

Reconcile(o) ==
  \/ Skip(o) \/ AddFinalizer(o) \/ Submit(o) \/ CancelByPrefix(o) \/ ListNamespaces(o)
  \/ RemoveFinalizer(o)
  \/ \E c \in Object : DeleteClone(o, c)

-----------------------------------------------------------------------------
(* The run of an object: RunCheck, and in it namespace.Clone.              *)

NoReconcile == UNCHANGED handlerVars
IsCancelled(o) == o \in cancelled
Goto(o, label) == run' = [run EXCEPT ![o] = label] /\ UNCHANGED <<recorded, retry, cancelled>>

\* It returns, and removeRun makes the ID free again.
Returns(o) == /\ run' = [run EXCEPT ![o] = "none"]
              /\ retry' = [retry EXCEPT ![o] = FALSE]
              /\ cancelled' = cancelled \ {o}
Return(o) == Returns(o) /\ UNCHANGED recorded

\* Mutant: the failure is not reported.
ReturnSilently(o, condition) == Return(o)
\* SetCondition fails when the context is cancelled, and does nothing for an object
\* that is gone.
ReturnWith(o, condition) ==
  /\ Returns(o)
  /\ recorded' = [recorded EXCEPT ![o] = IF IsCancelled(o) THEN @ ELSE condition]

DeleteLeftover(o) ==
  /\ run[o] = "submitted"
  /\ ns[o] # "absent" /\ retry[o]
  /\ IF IsCancelled(o) THEN UNCHANGED clones /\ NoFault ELSE DeleteNamespace(o)
  /\ Goto(o, "recheck")
  /\ NoReconcile

UseLeftover(o) ==
  /\ run[o] = "recheck" \/ (run[o] = "submitted" /\ ~retry[o])
  /\ ns[o] # "absent"
  /\ Goto(o, "work")
  /\ UNCHANGED clones /\ NoFault /\ NoReconcile

\* Clone. The request to create the namespace is sent,
SendCreate(o) ==
  /\ run[o] \in {"submitted", "recheck"}
  /\ ns[o] = "absent"
  /\ IF IsCancelled(o) THEN Return(o) ELSE Goto(o, "create")
  /\ UNCHANGED clones /\ NoFault /\ NoReconcile

\* ... and carried out, even if the run was cancelled in the meantime,
\* Mutant: Clone does not use the context of the run.
NextRequestAnyway(o, label) == Goto(o, label)
\* A cancelled run sends no other request after that.
NextRequest(o, label) == IF IsCancelled(o) THEN Return(o) ELSE Goto(o, label)

CreateNamespace(o) ==
  /\ run[o] = "create"
  /\ \/ ns' = [ns EXCEPT ![o] = "hollow"] /\ NextRequest(o, "bind") /\ NoFault
     \/ UNCHANGED ns /\ IsCancelled(o) /\ Return(o) /\ NoFault
     \/ UNCHANGED ns /\ Fault("clone") /\ Return(o)
  /\ UNCHANGED bound /\ NoReconcile

\* cloneClusterRoleBindings, which fails when an earlier clone left some,
BindRoles(o) ==
  /\ run[o] = "bind"
  /\ \/ o \notin bound /\ bound' = bound \cup {o} /\ NextRequest(o, "fill") /\ NoFault
     \/ (o \in bound \/ IsCancelled(o)) /\ UNCHANGED bound /\ Return(o) /\ NoFault
     \/ UNCHANGED bound /\ Fault("clone") /\ Return(o)
  /\ UNCHANGED ns /\ NoReconcile

\* ... and the resources, where errors are only counted, also that nothing can be
\* created in a namespace that is being deleted.
CloneResources(o) ==
  /\ run[o] = "fill"
  /\ \/ ns[o] = "hollow" /\ ns' = [ns EXCEPT ![o] = "active"] /\ Goto(o, "work") /\ NoFault
     \/ ns[o] = "hollow" /\ UNCHANGED ns /\ Fault("clone") /\ Goto(o, "work")
     \/ (IsCancelled(o) \/ ns[o] = "absent") /\ UNCHANGED ns /\ Return(o) /\ NoFault
     \/ ns[o] = "terminating" /\ UNCHANGED ns /\ Goto(o, "work") /\ NoFault
  /\ UNCHANGED bound /\ NoReconcile

Record(o) ==
  /\ run[o] = "work"
  /\ ns[o] = "active" /\ ~IsCancelled(o)
  /\ run' = [run EXCEPT ![o] = "cleanup"]
  /\ recorded' = [recorded EXCEPT ![o] = "recorded"]
  /\ UNCHANGED <<retry, cancelled, clones>> /\ NoFault /\ NoReconcile

\* The condition becomes Unknown; when pods do not come up, the clone is deleted.
RecordFails(o) ==
  /\ run[o] = "work"
  /\ ReturnWith(o, "unknown")
  /\ \/ (ns[o] # "active" \/ IsCancelled(o)) /\ UNCHANGED clones /\ NoFault
     \/ UNCHANGED clones /\ Fault("run")
     \/ /\ ~IsCancelled(o) /\ ns[o] = "active"
        /\ ns' = [ns EXCEPT ![o] = "terminating"] /\ bound' = bound \ {o}
        /\ Fault("run")
  /\ NoReconcile

\* The recorders look for pods for ever, whatever becomes of the context: in a
\* namespace that was deleted meanwhile, or for want of pods.
Hangs(o) ==
  /\ run[o] = "work"
  /\ Goto(o, "hung")
  /\ \/ "hang" \in Faults /\ ns[o] \in {"terminating", "absent"} /\ NoFault
     \/ Fault("hang")
  /\ UNCHANGED clones /\ NoReconcile

CleanUp(o) ==
  /\ run[o] = "cleanup"
  /\ IF IsCancelled(o) THEN UNCHANGED clones /\ NoFault ELSE DeleteNamespace(o)
  /\ Return(o)
  /\ NoReconcile

RunCheckStep(o) ==
  \/ DeleteLeftover(o) \/ UseLeftover(o) \/ SendCreate(o) \/ CreateNamespace(o)
  \/ BindRoles(o) \/ CloneResources(o) \/ Record(o) \/ RecordFails(o) \/ CleanUp(o)

-----------------------------------------------------------------------------
(* The cluster and restarts.                                               *)

NamespaceGone(c) ==
  /\ ns[c] = "terminating"
  /\ ns' = [ns EXCEPT ![c] = "absent"]
  /\ UNCHANGED <<bound, runVars>> /\ NoFault /\ NoReconcile

\* Goroutines, registry and work queue are gone, requests under way may still be
\* carried out, and every object is queued. The scan for clones of checks that no
\* longer exist finds none: none has the label it looks at (NewResumeFunc).
Restart ==
  /\ Fault("restart")
  /\ queued' = [o \in Object |-> Exists(o)]
  /\ pc' = [o \in Object |-> "idle"]
  /\ todo' = [o \in Object |-> {}]
  /\ run' = [o \in Object |-> "none"]
  /\ retry' = [o \in Object |-> FALSE]
  /\ cancelled' = {}
  /\ \E landed \in SUBSET Object :
       /\ ns' = [c \in Object |-> IF c \in landed /\ run[c] = "create" THEN "hollow" ELSE ns[c]]
       /\ bound' = bound \cup {c \in landed : run[c] = "bind"}
  /\ UNCHANGED <<obj, recorded>>

Next ==
  \/ \E o \in Object : \/ Create(o) \/ Delete(o) \/ Reconcile(o)
                       \/ RunCheckStep(o) \/ Hangs(o) \/ NamespaceGone(o)
  \/ Restart

\* Queued objects are handed out, goroutines are scheduled, and the cluster completes
\* deletions. No user has to create or to delete anything, and no run has to hang.
Fairness ==
  \A o \in Object : WF_vars(Reconcile(o)) /\ WF_vars(RunCheckStep(o)) /\ WF_vars(NamespaceGone(o))

Spec == Init /\ [][Next]_vars /\ Fairness

-----------------------------------------------------------------------------
(* What deletion promises.                                                 *)

\* The runs of an object that is gone are all cancelled: the finalizer is there before
\* the first of them is submitted, and none is submitted after CancelByPrefix.
RunsOfGoneAreCancelled ==
  \A o \in Object : obj[o] = "gone" /\ Registered(o) => IsCancelled(o)

\* handleDeletion does not wait for the runs it cancels. All the same no clone with the
\* workload in it outlives the object, unless its deletion failed: what the list missed
\* was only just being created, and remains hollow (Clone).
NothingRunsAfterDeletion ==
  \A o \in Object : obj[o] = "gone" /\ "delete" \notin seen => ns[o] # "active"

\* An object that is deleted does go, however often the operator restarts, the list
\* or the update fails, and whatever its runs do.
DeletionCompletes == \A o \in Object : []<>(obj[o] # "deleting")

\* The deletion of a check takes away the clones of all other checks of the namespace,
\* also those in which they record, and leaves bindings that make the next clone fail.
\* Even so those checks are recorded in the end, also one that was made again under
\* the name of the deleted one while a run of that goes on, unless a run hangs.
OthersAreRecorded ==
  \A o \in Object :
    []<>(\/ obj[o] # "live" \/ recorded[o] = "recorded"
         \/ \E p \in Object : Name[p] = Name[o] /\ run[p] = "hung")
=============================================================================
