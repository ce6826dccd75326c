-------------------------- MODULE CheckRunRegistry --------------------------
(***************************************************************************)
(* What the check executor promises to its callers, the two hardening      *)
(* check reconcilers: a registry of check runs in which every identifier   *)
(* has at most one run, whose function is executed by one goroutine.  The  *)
(* doc comment of CheckExecutor (internal/executor/executor.go) lists      *)
(* these promises; how locks, contexts, the WaitGroup and the deferred     *)
(* calls of a goroutine keep them is module CheckExecutor, which           *)
(* implements this one.                                                    *)
(***************************************************************************)

CONSTANT ID                    \* the CheckRunIDs a caller may submit

VARIABLES run,                 \* the stage of the run registered under an ID
          cancelled,           \* the IDs whose registered run was told to stop
          service              \* whether the executor takes submissions

rvars == <<run, cancelled, service>>

RTypeOK == /\ run \in [ID -> {"none", "executing", "ended"}]
           /\ cancelled \in SUBSET ID
           /\ service \in {"starting", "up", "stopping"}

RInit == /\ run = [i \in ID |-> "none"]
         /\ cancelled = {}
         /\ service = "starting"

Open == /\ service = "starting"
        /\ service' = "up"
        /\ UNCHANGED <<run, cancelled>>

\* A submission is accepted only while nothing is registered under its ID. It
\* is accepted even while the executor stops: the run then starts cancelled.
Accept(i) == /\ service # "starting"
             /\ run[i] = "none"
             /\ run' = [run EXCEPT ![i] = "executing"]
             /\ cancelled' = IF service = "stopping" THEN cancelled \cup {i} ELSE cancelled
             /\ UNCHANGED service

Return(i) == /\ run[i] = "executing"
             /\ run' = [run EXCEPT ![i] = "ended"]
             /\ UNCHANGED <<cancelled, service>>

Remove(i) == /\ run[i] = "ended"
             /\ run' = [run EXCEPT ![i] = "none"]
             /\ cancelled' = cancelled \ {i}
             /\ UNCHANGED service

\* Telling a run to stop does not stop it: it stays registered until it returns.
Stop(i) == /\ run[i] # "none"
           /\ cancelled' = cancelled \cup {i}
           /\ UNCHANGED <<run, service>>

\* Shutdown tells every registered run to stop.
Close == /\ service = "up"
         /\ service' = "stopping"
         /\ cancelled' = {i \in ID : run[i] # "none"}
         /\ UNCHANGED run

RNext == Open \/ Close \/ \E i \in ID : Accept(i) \/ Return(i) \/ Remove(i) \/ Stop(i)

RSpec == RInit /\ [][RNext]_rvars
=============================================================================
