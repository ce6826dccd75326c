-------------------------- MODULE MCCheckExecutor ---------------------------
(***************************************************************************)
(* Two runs of one hardening check, and a hardening check without runs;    *)
(* one goroutine identity more than IDs, so that an ID is submitted again  *)
(* after (and while) its first run ends.                                   *)
(***************************************************************************)
EXTENDS CheckExecutor

CONSTANTS o1, o2, i1, i2

MCOwner == {o1, o2}
MCID == {i1, i2}
MCOwnerOf == [i \in MCID |-> o1]
=============================================================================
