-------------------------- MODULE MCWorkloadCheck ---------------------------
(***************************************************************************)
(* Instances of WorkloadCheck for TLC.                                     *)
(***************************************************************************)
EXTENDS WorkloadCheck, TLC

CONSTANTS b1, b2,              \* the two baseline runs
          c1, c2               \* checks

MCBaseline == {b1, b2}

\* Every kind of failure; those after which a run is made again; none.
MCAllFaults == FaultKinds
MCRunFaults == {"delete", "clone", "run", "panic", "slow", "restart"}
MCNoFaults == {}

\* The baselines do the same, and so do the checks.
MCSymmetry == Permutations(MCBaseline) \cup Permutations(Check)

\* A bound on a baseline that is still being recorded although a check, or the final
\* check, has begun: no state is looked at after one in which something failed before,
\* in which the final check has begun, or in which that baseline is not at its recording
\* while other runs are under way.
LateBaseline == /\ \E b \in Baseline : IsRunning(b)
                /\ \E t \in CondType \ {"Baseline"} : status.cond[t] # "none"
MCLateBaselineWaits ==
  LateBaseline => /\ faults = 0
                  /\ status.cond["FinalCheck"] = "none"
                  /\ \/ \A b \in Baseline : IsRunning(b) => At(b, "record")
                     \/ \A r \in RunName \ Baseline : ~IsRunning(r)
=============================================================================
