----------------------------- MODULE MCAssembly -----------------------------
(***************************************************************************)
(* What is installed and published: Runtimes, component packages, scene    *)
(* documents and Skills; and the plans users approve.  The five share no   *)
(* state in the code, so one run checks them side by side: `part` says     *)
(* which of them takes the steps of a behaviour, the others stay as they   *)
(* begin.                                                                  *)
(***************************************************************************)
EXTENDS RuntimeInstall, ComponentInstall, SceneAuthoring, SkillPackages, PlanProposals

CONSTANTS a1, g1, base, n1, good, bad, c1, p1, cv1, cv2, l3, k1, k2, s1

VARIABLE part

-----------------------------------------------------------------------------
(* Component packages: the catalog g1 needs the Ability a1. *)

MCRequires == [c \in Comps |-> IF c = g1 THEN {a1} ELSE {}]

-----------------------------------------------------------------------------
(* Scene documents: a base that the template locks and one node to author,   *)
(* under edits that are sound, cyclic, unpublished or misplaced.             *)

Entry(p, k, a) == [parent |-> p, kind |-> k, asset |-> a, fits |-> TRUE]
Document(b, n, as) == [nodes |-> (base :> b) @@ (n1 :> n), assets |-> as]
MCTemplate == Document(Entry(TopLevel, "object", good), NoNode, {good})

MCPuts == {
  MCTemplate,
  Document(Entry(TopLevel, "object", good), Entry(base, "camera", NoAsset), {good}),
  Document(NoNode, Entry(TopLevel, "object", good), {good}),
  Document(Entry(n1, "object", good), Entry(base, "object", good), {good}),
  Document(Entry(TopLevel, "object", bad), NoNode, {bad}) }

Create(n, e) == [type |-> "create", node |-> n, entry |-> e]
Attach(n, a) == [type |-> "attach", node |-> n, asset |-> a, described |-> TRUE]
Move(n, p) == [type |-> "move", node |-> n, parent |-> p]
Fit(n, f) == [type |-> "set", node |-> n, fits |-> f]
Drop(n) == [type |-> "delete", node |-> n]

MCBatches == {
  <<Create(n1, Entry(base, "object", NoAsset)), Attach(n1, good)>>,
  <<Create(base, Entry(TopLevel, "object", NoAsset)), Attach(base, good)>>,
  <<Attach(n1, bad)>>,
  <<Create(n1, Entry(TopLevel, "camera", NoAsset)), Move(base, n1)>>,
  <<Move(base, n1), Move(n1, base)>>,
  <<Fit(n1, TRUE), Drop(base)>>,
  <<Drop(n1)>>,
  <<Fit(base, FALSE)>> }

-----------------------------------------------------------------------------
(* Skill packages: two versions, as 1.0 and 1.0.1, the first one published. *)

MCVersions == <<"v1", "v2">>
MCPartOf == {<<"v1", "v2">>}
MCDefault == [v |-> "v1", on |-> TRUE]
MCReleased == "v1" :> c1

-----------------------------------------------------------------------------
(* Plans: two conversations of one Project, the first one with two Runs.  A  *)
(* plan that needs a Skill and the map, one that shares a Task with it, and  *)
(* a cycle.                                                                  *)

MCProjectOf == [v \in PlanConvs |-> p1]
MCLeaderConv == [r \in Leaders |-> IF r = l3 THEN cv2 ELSE cv1]
Plan(ks, es, ss, m) == [tasks |-> ks, deps |-> es, needs |-> ss, skills |-> ss, map |-> m]
MCSuggestions == {
  Plan({k1, k2}, {<<k2, k1>>}, {s1}, 1),
  Plan({k1}, {}, {}, 0),
  Plan({k1, k2}, {<<k2, k1>>, <<k1, k2>>}, {}, 0) }

\* Installs, editors and tabs are interchangeable.  A behaviour belongs to one part, so it is
\* enough to exchange those of all parts at once: fewer permutations to try.
Exchanges == {i @@ e @@ t : i \in Permutations(Installs), e \in Permutations(Editors),
                            t \in Permutations(Tabs)}
Exchanged(f, S) == \E x \in S : f[x] # x
Together ==
  {f \in Exchanges : \A S \in {Installs, Editors} : Exchanged(f, S) = Exchanged(f, Tabs)}
Symmetry == Together \cup Permutations(Leaders \ {l3})

-----------------------------------------------------------------------------

AssemblyInit ==
  /\ part \in {"runtime", "components", "scenes", "skills", "plans"}
  /\ RtInit /\ CiInit /\ SaInit /\ SpInit /\ PpInit

RuntimePart ==
  /\ part = "runtime" /\ RtNext
  /\ UNCHANGED <<part, ciVars, saVars, spVars, ppVars>>
\* Four operations of users, or three and a crash of the Server.
ComponentsPart ==
  /\ part = "components" /\ CiNext
  /\ ciBudget'.crashes = ServerCrashes \/ ciBudget'.ops > 0
  /\ UNCHANGED <<part, rtVars, saVars, spVars, ppVars>>
ScenesPart ==
  /\ part = "scenes" /\ SaNext
  /\ UNCHANGED <<part, rtVars, ciVars, spVars, ppVars>>
\* Three operations of users, or two and a fault.
SkillsPart ==
  /\ part = "skills" /\ SpNext
  /\ spFaults' = 0 \/ spBudget' < SkillBudget
  /\ UNCHANGED <<part, rtVars, ciVars, saVars, ppVars>>
\* Two operations of users, or one and a failure.
PlansPart ==
  /\ part = "plans" /\ PpNext
  /\ planBudget'.faults = PlanFaults \/ planBudget'.acts > 0
  /\ UNCHANGED <<part, rtVars, ciVars, saVars, spVars>>

AssemblyNext ==
  RuntimePart \/ ComponentsPart \/ ScenesPart \/ SkillsPart \/ PlansPart

AssemblySpec ==
  AssemblyInit /\ [][AssemblyNext]_<<part, rtVars, ciVars, saVars, spVars, ppVars>>
=============================================================================
