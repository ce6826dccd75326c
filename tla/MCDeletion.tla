----------------------------- MODULE MCDeletion -----------------------------
(***************************************************************************)
(* Instances of Deletion for TLC.                                          *)
(***************************************************************************)
EXTENDS Deletion, TLC

CONSTANTS a, again, b          \* two checks of the same name, and another

MCName == a :> "a" @@ again :> "a" @@ b :> "b"
MCAllFaults == FaultKinds
=============================================================================
