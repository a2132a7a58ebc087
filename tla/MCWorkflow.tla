----------------------------- MODULE MCWorkflow -----------------------------
(***************************************************************************)
(* The small Workflows that TLC checks.  Each fixes a plan; the cfg files   *)
(* pair it with Budgets of user requests and faults.                        *)
(***************************************************************************)
EXTENDS WorkflowProperties, TLC

CONSTANTS r1, r2

None(S) == [x \in S |-> {}]
Only(ks) == [k \in Limits |-> IF k \in ks THEN 1 ELSE 0]

\* Shared: two Robot Tasks that compete for one Robot; Task 1 has a replacement step.
SharedTasks == {1, 2}
SharedSubTasks == {1, 2, 3}
SharedTaskOf == 1 :> 1 @@ 2 :> 1 @@ 3 :> 2
SharedDeps == None(SharedTasks)
SharedSubDeps == None(SharedSubTasks)
SharedPlanned == {1, 3}
SharedRobots == {r1}
SharedCandidates == 1 :> {r1} @@ 2 :> {r1}

\* Solo: one Robot Task, a robot_skill and an agent_step; a replacement robot_skill.
SoloTasks == {1}
SoloSubTasks == {1, 2, 3}
SoloTaskOf == [s \in SoloSubTasks |-> 1]
SoloRobotSkills == {1, 3}
SoloDeps == None(SoloTasks)
SoloSubDeps == None(SoloSubTasks)
SoloPlanned == {1, 2}
SoloCandidates == 1 :> {r1}

\* Pair: a Robot Task and an Agent Task that both write the workspace.
PairTasks == {1, 2}
PairSubTasks == {1, 2}
PairTaskOf == 1 :> 1 @@ 2 :> 2
PairDeps == None(PairTasks)
PairSubDeps == None(PairSubTasks)
PairCandidates == 1 :> {r1} @@ 2 :> {}

\* Budgets: how often each kind of request or fault may happen.
SharedBudgets ==
  {Only(two) : two \in {{"stop", "execfail"}, {"stop", "restart"}, {"execfail", "restart"},
                       {"stop", "pointer"}, {"undelivered", "pointer"}}}
SoloBudgets ==
  {[Only({"ask", "retry", "agenterr", "stop", "offline", "undelivered"}) EXCEPT !["ask"] = 2],
   Only({"execfail", "agenterr", "retry", "stop"}),
   Only({"pause", "stop", "confirm", "undelivered", "restart", "execfail"}),
   Only({"pause", "stop", "confirm", "undelivered", "restart", "offline"}),
   Only({"stop", "confirm", "execfail", "offline"}),
   Only({"stop", "restart", "pointer"})}
CalmBudgets == {Only({})}
LiveBudgets ==
  {[Only({"ask", "agenterr", "retry"}) EXCEPT !["ask"] = 2], Only({"ask", "stop"}),
   Only({"pause", "map"})}
==============================================================================
