-------------------------- MODULE MCNamespaceCheck --------------------------
(***************************************************************************)
(* Instances of NamespaceCheck for TLC.                                    *)
(***************************************************************************)
EXTENDS NamespaceCheck

CONSTANTS w1, w2               \* workloads

MCTarget == [f \in Foreign |-> w1]
MCAllFaults == FaultKinds
=============================================================================
