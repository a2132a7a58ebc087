---------------------------- MODULE MCOperations ----------------------------
(***************************************************************************)
(* What Agents and users work with while a Robot works: the Runs of a      *)
(* Task's Agent, the semantic map, Ability debugging, artifacts and the    *)
(* tools of MCP servers.  They share no state in the code, so one run      *)
(* checks them side by side: `part` says which of them takes the steps of  *)
(* a behaviour, the others stay as they begin.                             *)
(***************************************************************************)
EXTENDS TaskAgent, SemanticMaps, AbilityDebug, Artifacts, McpTools, TLC

CONSTANTS e1, e2, rl

VARIABLE part

-----------------------------------------------------------------------------
(* The semantic map: writes of a user, and queries with and without limits.  The entity  *)
(* that is removed is the one that is put, before or after a checkpoint reported it.     *)

Edit(p, k, d, l, ul) ==
  [put |-> p, status |-> "active", keeps |-> k, drop |-> d, link |-> l, unlink |-> ul]
MCEdits == {
  Edit({e1}, TRUE, {}, {}, {}), Edit({e1}, FALSE, {}, {}, {}),
  Edit({}, FALSE, {}, {<<rl, e1, e2>>}, {}),
  Edit({}, FALSE, {e1}, {}, {}), Edit({}, FALSE, {}, {}, {rl}) }
MCQueries == {
  [ids |-> {}, subject |-> NoEntry, limit |-> 0],
  [ids |-> {e2}, subject |-> NoEntry, limit |-> 1],
  [ids |-> {}, subject |-> e1, limit |-> 1] }

-----------------------------------------------------------------------------

OperationsInit ==
  /\ part \in {"agent", "asking", "maps", "debug", "artifacts", "tools"}
  /\ TaInit /\ SmInit /\ DebugInit /\ ArtifactsInit /\ McpInit
  /\ part # "maps" => scene = CHOOSE s \in [Things -> SimPoses] : TRUE

\* Either the model asks the user or a call of the store or the model fails.
Asks == \E c \in calls' : c.tool = "interaction.ask"
AgentPart ==
  /\ part = "agent" /\ TaNext /\ ~Asks
  /\ UNCHANGED <<part, smVars, debugVars, artifactVars, mcpVars>>
AskingPart ==
  /\ part = "asking" /\ TaNext /\ UNCHANGED faultsLeft
  /\ UNCHANGED <<part, smVars, debugVars, artifactVars, mcpVars>>
MapsPart ==
  /\ part = "maps" /\ SmNext
  /\ UNCHANGED <<part, taskAgentVars, debugVars, artifactVars, mcpVars>>
\* Two stop requests and a fault, or one and two.
DebugPart ==
  /\ part = "debug" /\ DebugNext /\ stopsAsked' + debugFaults' <= 3
  /\ UNCHANGED <<part, taskAgentVars, smVars, artifactVars, mcpVars>>
\* Two calls and a fault, or one and two.
ArtifactsPart ==
  /\ part = "artifacts" /\ ArtifactsNext /\ artifactCalls' + artifactFaults' <= 3
  /\ UNCHANGED <<part, taskAgentVars, smVars, debugVars, mcpVars>>
ToolsPart ==
  /\ part = "tools" /\ McpNext
  /\ UNCHANGED <<part, taskAgentVars, smVars, debugVars, artifactVars>>

\* Runs, debugs, loops and connections are interchangeable.  A behaviour belongs to one part,
\* so it is enough to exchange those of all parts at once: fewer permutations to try.
Exchanges ==
  {p @@ q @@ l @@ c : p \in Permutations(AgentRuns), q \in Permutations(Debugs),
                      l \in Permutations(Loops), c \in Permutations(Connections)}
Exchanged(f, S) == \E x \in S : f[x] # x
Together ==
  {f \in Exchanges : \A S \in {Debugs, Loops, Connections} :
                       Exchanged(f, S) = Exchanged(f, AgentRuns)}
Symmetry == Together \cup Permutations(LocalIds)

OperationsNext ==
  AgentPart \/ AskingPart \/ MapsPart \/ DebugPart \/ ArtifactsPart \/ ToolsPart

OperationsSpec ==
  OperationsInit /\ [][OperationsNext]_<<part, taskAgentVars, smVars, debugVars, artifactVars, mcpVars>>
=============================================================================
