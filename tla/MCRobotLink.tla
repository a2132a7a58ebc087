---------------------------- MODULE MCRobotLink ----------------------------
(* RobotLink for TLC: two interchangeable Executions on one Robot. *)
EXTENDS RobotLink, TLC

\* Every two of a request, a broken process and a failure.
LinkBudgets == {[l \in Limits |-> IF l = none THEN 0 ELSE 1] : none \in Limits}

Symmetry == Permutations(Execs)
============================================================================
