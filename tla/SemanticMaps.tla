----------------------------- MODULE SemanticMaps -----------------------------
(***************************************************************************)
(* One Semantic Map of a Project (internal/store/semantic_map.go) with its *)
(* three kinds of callers: the public map interface, map.query, and the    *)
(* checkpoints that write a snapshot of the simulated scene into the map.  *)
(*                                                                         *)
(* A map has generations; the row of the map names the open one and its    *)
(* revision.  Reads are separate statements; an update or a new generation *)
(* is one transaction that comes after a read and a check of the row.      *)
(***************************************************************************)
EXTENDS Naturals, FiniteSets

CONSTANTS
  MapEntities,     \* entity ids
  MapRelations,    \* relation ids
  Things,          \* source ids of objects, regions and Robots of the scene
  SimPoses,        \* what the simulation may say of a thing
  UserPose,        \* what a user says of an entity
  NoEntry,
  MapUsers, MapCheckpoints,   \* requests and checkpoints under way
  MapEdits,        \* batches of operations users send
  MapQueries,      \* filters of map.query and of the query interface
  GenerationLimit, MapBudget  \* generations, and movements, edits and checkpoints

EntityStatus == {"active", "uncertain", "removed"}
EntityRow == [status : EntityStatus, pose : SimPoses \cup {UserPose},
              source : Things \cup {NoEntry}, manual : BOOLEAN]
RelationRow == MapEntities \X MapEntities
GenerationRow == [rev : Nat, closed : BOOLEAN]

\* A batch names rows of the map; what stands for no row is none of the rows.
ASSUME SemanticMapsAssumption ==
  /\ NoEntry \notin MapEntities \cup Things \cup SimPoses
  /\ NoEntry \notin EntityRow \cup RelationRow /\ NoEntry \notin GenerationRow
  /\ MapEdits \subseteq [put : SUBSET MapEntities, status : EntityStatus, keeps : BOOLEAN,
                        drop : SUBSET MapEntities, unlink : SUBSET MapRelations,
                        link : SUBSET (MapRelations \X MapEntities \X MapEntities)]
  /\ UserPose \notin SimPoses
  /\ GenerationLimit \in Nat /\ GenerationLimit > 1 /\ MapBudget \in Nat

VARIABLES
  mapRow,      \* semantic_maps: generation and revision
  mapGens,     \* map_generations
  mapEnts,     \* map_entities of each generation
  mapRels,     \* map_relations of each generation: the two ends
  mapLinks,    \* map_source_mappings of each generation
  scene,       \* pose of every thing that is in the simulated scene
  mapUser,     \* a request of the map interface
  checkpoint,  \* a call of ApplySimulationCheckpoint
  mapBudget

smVars == <<mapRow, mapGens, mapEnts, mapRels, mapLinks, scene, mapUser, checkpoint, mapBudget>>

Generations == 1..GenerationLimit
AnEntity(status, pose, thing, manual) ==
  [status |-> status, pose |-> pose, source |-> thing, manual |-> manual]
NoEntities == [e \in MapEntities |-> NoEntry]
NoRequest == [pc |-> "idle", query |-> NoEntry, gen |-> 1, rev |-> 0, ents |-> <<>>,
              rels |-> {}, edit |-> NoEntry]
NoCheckpoint == [pc |-> "idle", snap |-> <<>>, new |-> FALSE, gen |-> 1, rev |-> 0,
                 changed |-> {}]

SmInit ==
  /\ mapRow = [gen |-> 1, rev |-> 0]
  /\ mapGens = [g \in Generations |-> IF g = 1 THEN [rev |-> 0, closed |-> FALSE] ELSE NoEntry]
  /\ mapEnts = [g \in Generations |-> NoEntities]
  /\ mapRels = [g \in Generations |-> [r \in MapRelations |-> NoEntry]]
  /\ mapLinks = [g \in Generations |-> [t \in Things |-> NoEntry]]
  /\ scene \in [Things -> SimPoses]
  /\ mapUser = [u \in MapUsers |-> NoRequest]
  /\ checkpoint = [c \in MapCheckpoints |-> NoCheckpoint]
  /\ mapBudget = MapBudget

Spend == mapBudget > 0 /\ mapBudget' = mapBudget - 1
ToUser(u, new) == mapUser' = [mapUser EXCEPT ![u] = new]
ToCheckpoint(c, new) == checkpoint' = [checkpoint EXCEPT ![c] = new]
mapTables == <<mapRow, mapGens, mapEnts, mapRels, mapLinks>>

Known(ents, e) == ents[e] # NoEntry
Live(ents, e) == Known(ents, e) /\ ents[e].status # "removed"
Row(m) == [gen |-> m.gen, rev |-> m.rev]

----------------------------------------------------------------------------
(* The two transactions *)

\* CreateMapGeneration compares the revision alone; the primary key of map_generations
\* refuses a number that is taken.
GenerationTaken(g) == mapGens[g] # NoEntry
MayOpen(m) == mapRow.rev = m.rev /\ ~GenerationTaken(m.gen + 1)
CreateMapGeneration(m) ==
  /\ mapRow' = [gen |-> mapRow.gen + 1, rev |-> 0]
  /\ mapGens' = [mapGens EXCEPT ![m.gen].closed = TRUE,
                                ![m.gen + 1] = [rev |-> 0, closed |-> FALSE]]
  /\ UNCHANGED <<mapEnts, mapRels, mapLinks>>

GenerationIsStill(m) == mapRow.gen = m.gen
\* The last statement of ApplyMapUpdate decides whether all the others are kept.
RowIsStill(m) == mapRow = Row(m)
ApplyMapUpdate(m, ents, rels, links) ==
  /\ mapRow' = [mapRow EXCEPT !.rev = @ + 1]
  /\ mapGens' = [mapGens EXCEPT ![m.gen].rev = @ + 1]
  /\ mapEnts' = [mapEnts EXCEPT ![m.gen] = ents]
  /\ mapRels' = [mapRels EXCEPT ![m.gen] = rels]
  /\ mapLinks' = [mapLinks EXCEPT ![m.gen] = links]

----------------------------------------------------------------------------
(* What a batch of a user does to the rows: entities, removals, relations, deletions *)

SourceKept(old, edit) == IF edit.keeps /\ old # NoEntry THEN old.source ELSE NoEntry
AfterPut(ents, edit) ==
  [e \in MapEntities |-> IF e \notin edit.put THEN ents[e]
                         ELSE AnEntity(edit.status, UserPose, SourceKept(ents[e], edit), TRUE)]
AfterDrop(ents, edit) ==
  [e \in MapEntities |-> IF e \notin edit.drop THEN ents[e]
                         ELSE [ents[e] EXCEPT !.status = "removed"]]
EditedEntities(ents, edit) == AfterDrop(AfterPut(ents, edit), edit)
EditedRelations(rels, edit) ==
  [r \in MapRelations |-> IF r \in edit.unlink THEN NoEntry
                          ELSE IF \E l \in edit.link : l[1] = r
                               THEN LET l == CHOOSE l \in edit.link : l[1] = r IN <<l[2], l[3]>>
                          ELSE rels[r]]
EditFits(ents, edit) ==
  /\ \A e \in edit.drop : Known(AfterPut(ents, edit), e)
  /\ \A l \in edit.link : /\ l[2] # l[3]
                          /\ Live(EditedEntities(ents, edit), l[2])
                          /\ Live(EditedEntities(ents, edit), l[3])

----------------------------------------------------------------------------
(* The map interface and map.query *)

\* The ends of a relation that is shown are not removed.
queryMapRelations(g) ==
  {mapRels[g][r] : r \in {x \in MapRelations :
     /\ mapRels[g][x] # NoEntry
     /\ Live(mapEnts[g], mapRels[g][x][1]) /\ Live(mapEnts[g], mapRels[g][x][2])}}

\* A snapshot has no filter; a query has ids, a subject of relations, or both.
Whole(q) == q.ids = {} /\ q.subject = NoEntry
ById(q) == q.ids # {}
ByRelation(q) == q.subject # NoEntry

\* limitMapQuerySubset keeps the relations next to the entities found, and shows both
\* ends of every relation it keeps.
NextTo(found, rels) == {l \in rels : l[1] \in found \/ l[2] \in found}
Ends(rels) == {l[1] : l \in rels} \cup {l[2] : l \in rels}
Kept(q, found, rels) == IF ById(q) THEN NextTo(found, rels) ELSE rels
Shown(q, found, rels) ==
  IF ByRelation(q) THEN Ends(Kept(q, found, rels)) ELSE found \cup Ends(Kept(q, found, rels))
Clip(S, n) == IF n = 0 \/ Cardinality(S) <= n THEN {S} ELSE {T \in SUBSET S : Cardinality(T) = n}

OpenMap(u, q) ==
  /\ mapUser[u].pc = "idle"
  /\ ToUser(u, [NoRequest EXCEPT !.pc = "generation", !.query = q, !.gen = mapRow.gen])
  /\ Spend /\ UNCHANGED <<mapTables, scene, checkpoint>>

ReadGeneration(u) ==
  /\ mapUser[u].pc = "generation"
  /\ ToUser(u, [mapUser[u] EXCEPT !.pc = "entities", !.rev = mapGens[mapUser[u].gen].rev])
  /\ UNCHANGED <<mapTables, scene, checkpoint, mapBudget>>

FoundEntities(q, ents) == {e \in MapEntities : Known(ents, e) /\ (ById(q) => e \in q.ids)}
ReadEntities(u) ==
  LET m == mapUser[u]
      found == FoundEntities(m.query, mapEnts[m.gen]) IN
  /\ m.pc = "entities"
  /\ ToUser(u, [m EXCEPT !.pc = "relations", !.ents = [e \in found |-> mapEnts[m.gen][e]]])
  /\ UNCHANGED <<mapTables, scene, checkpoint, mapBudget>>

ReadRelations(u) ==
  LET m == mapUser[u]
      all == queryMapRelations(m.gen)
      some == {l \in all : ByRelation(m.query) => l[1] = m.query.subject} IN
  /\ m.pc = "relations"
  /\ IF Whole(m.query) THEN ToUser(u, [m EXCEPT !.pc = "view", !.rels = all])
     ELSE ToUser(u, [m EXCEPT !.pc = "select", !.rels = some])
  /\ UNCHANGED <<mapTables, scene, checkpoint, mapBudget>>

\* The entities are read once more, so those shown may be newer than those found.
SelectSubset(u) ==
  LET m == mapUser[u] IN
  /\ m.pc = "select"
  /\ \E found \in IF ById(m.query) THEN Clip(DOMAIN m.ents, m.query.limit) ELSE {DOMAIN m.ents},
        rels \in Clip(m.rels, m.query.limit) :
       ToUser(u, [m EXCEPT !.pc = "view", !.rels = Kept(m.query, found, rels),
              !.ents = [e \in {x \in Shown(m.query, found, rels) : Known(mapEnts[m.gen], x)}
                          |-> mapEnts[m.gen][e]]])
  /\ UNCHANGED <<mapTables, scene, checkpoint, mapBudget>>

CloseView(u) ==
  /\ mapUser[u].pc = "view" /\ ToUser(u, NoRequest)
  /\ UNCHANGED <<mapTables, scene, checkpoint, mapBudget>>

\* An edit names the generation and the revision of the view it was made on.
HandleUpdateSemanticMap(u, edit) ==
  /\ mapUser[u].pc = "view"
  /\ IF RowIsStill(mapUser[u]) THEN ToUser(u, [mapUser[u] EXCEPT !.pc = "commit", !.edit = edit])
     ELSE ToUser(u, NoRequest)
  /\ Spend /\ UNCHANGED <<mapTables, scene, checkpoint>>

CommitEdit(u) ==
  LET m == mapUser[u] IN
  /\ m.pc = "commit" /\ ToUser(u, NoRequest)
  /\ IF RowIsStill(m) /\ EditFits(mapEnts[m.gen], m.edit)
     THEN ApplyMapUpdate(m, EditedEntities(mapEnts[m.gen], m.edit),
                         EditedRelations(mapRels[m.gen], m.edit), mapLinks[m.gen])
     ELSE UNCHANGED mapTables
  /\ UNCHANGED <<scene, checkpoint, mapBudget>>

\* A new generation names a revision only.
HandleCreateMapGeneration(u) ==
  /\ mapUser[u].pc = "view" /\ mapRow.gen < GenerationLimit - 1
  /\ IF mapRow.rev = mapUser[u].rev
     THEN ToUser(u, [mapUser[u] EXCEPT !.pc = "open", !.gen = mapRow.gen])
     ELSE ToUser(u, NoRequest)
  /\ Spend /\ UNCHANGED <<mapTables, scene, checkpoint>>

CommitGeneration(u) ==
  /\ mapUser[u].pc = "open" /\ mapUser[u].gen < GenerationLimit
  /\ ToUser(u, NoRequest)
  /\ IF MayOpen(mapUser[u]) THEN CreateMapGeneration(mapUser[u]) ELSE UNCHANGED mapTables
  /\ UNCHANGED <<scene, checkpoint, mapBudget>>

----------------------------------------------------------------------------
(* Checkpoints of the simulated scene *)

SceneMoves(t) ==
  /\ \E p \in SimPoses : p # scene[t] /\ scene' = [scene EXCEPT ![t] = p]
  /\ Spend /\ UNCHANGED <<mapTables, mapUser, checkpoint>>

\* syncSceneCheckpoint: after a start or a reset the snapshot opens a generation.
TakeSnapshot(c, new) ==
  /\ checkpoint[c].pc = "idle" /\ (new => mapRow.gen < GenerationLimit - 1)
  /\ ToCheckpoint(c, [NoCheckpoint EXCEPT !.pc = "row", !.snap = scene, !.new = new])
  /\ Spend /\ UNCHANGED <<mapTables, scene, mapUser>>

ReadRow(c) ==
  /\ checkpoint[c].pc \in {"row", "reread"}
  /\ ToCheckpoint(c, [checkpoint[c] EXCEPT !.gen = mapRow.gen, !.rev = mapRow.rev,
       !.pc = IF @ = "row" /\ checkpoint[c].new THEN "open" ELSE "compare"])
  /\ UNCHANGED <<mapTables, scene, mapUser, mapBudget>>

OpenGeneration(c) ==
  LET m == checkpoint[c] IN
  /\ m.pc = "open" /\ m.gen < GenerationLimit
  /\ IF MayOpen(m) THEN CreateMapGeneration(m) /\ ToCheckpoint(c, [m EXCEPT !.pc = "reread"])
     ELSE UNCHANGED mapTables /\ ToCheckpoint(c, NoCheckpoint)
  /\ UNCHANGED <<scene, mapUser, mapBudget>>

\* An entity is found by the source_id among its properties, and compared as if the
\* simulation agreed with whatever a user has set.
sameSimulationEntity(entity, pose) ==
  entity.manual \/ (entity.status = "active" /\ entity.pose = pose)
Unchanged(ents, t, pose) ==
  \E e \in MapEntities : Known(ents, e) /\ ents[e].source = t /\ sameSimulationEntity(ents[e], pose)
changedSimulationEntities(ents, snap) == {t \in Things : ~Unchanged(ents, t, snap[t])}

ReadChanges(c) ==
  LET m == checkpoint[c]
      changed == changedSimulationEntities(mapEnts[m.gen], m.snap) IN
  /\ m.pc = "compare"
  /\ ToCheckpoint(c, IF changed = {} THEN NoCheckpoint
                     ELSE [m EXCEPT !.pc = "check", !.changed = changed])
  /\ UNCHANGED <<mapTables, scene, mapUser, mapBudget>>

CheckRevision(c) ==
  /\ checkpoint[c].pc = "check"
  /\ ToCheckpoint(c, IF RowIsStill(checkpoint[c]) THEN [checkpoint[c] EXCEPT !.pc = "write"]
                     ELSE NoCheckpoint)
  /\ UNCHANGED <<mapTables, scene, mapUser, mapBudget>>

\* A thing keeps the entity it is mapped to; what a user set is kept.
LinksWith(links, ents, changed) ==
  {new \in [Things -> MapEntities \cup {NoEntry}] :
     /\ \A t \in Things : IF t \notin changed \/ links[t] # NoEntry THEN new[t] = links[t]
                          ELSE new[t] # NoEntry /\ ~Known(ents, new[t])
     /\ \A s, t \in changed : s # t => new[s] # new[t]}
preserveNothing(old, new) == new
preserveManual(old, new) == IF old # NoEntry /\ old.manual THEN old ELSE new
SimulatedEntities(ents, links, changed, snap) ==
  [e \in MapEntities |->
     IF \E t \in changed : links[t] = e
     THEN LET t == CHOOSE t \in changed : links[t] = e
          IN preserveManual(ents[e], AnEntity("active", snap[t], t, FALSE))
     ELSE ents[e]]

WriteSnapshot(c) ==
  LET m == checkpoint[c] IN
  /\ m.pc = "write" /\ ToCheckpoint(c, NoCheckpoint)
  /\ IF ~RowIsStill(m) THEN UNCHANGED mapTables
     ELSE \E links \in LinksWith(mapLinks[m.gen], mapEnts[m.gen], m.changed) :
            ApplyMapUpdate(m, SimulatedEntities(mapEnts[m.gen], links, m.changed, m.snap),
                           mapRels[m.gen], links)
  /\ UNCHANGED <<scene, mapUser, mapBudget>>

MapUserStep(u) ==
  \/ \E q \in MapQueries : OpenMap(u, q)
  \/ ReadGeneration(u) \/ ReadEntities(u) \/ ReadRelations(u) \/ SelectSubset(u) \/ CloseView(u)
  \/ \E edit \in MapEdits : HandleUpdateSemanticMap(u, edit)
  \/ CommitEdit(u) \/ HandleCreateMapGeneration(u) \/ CommitGeneration(u)

CheckpointStep(c) ==
  \/ \E new \in BOOLEAN : TakeSnapshot(c, new)
  \/ ReadRow(c) \/ OpenGeneration(c) \/ ReadChanges(c) \/ CheckRevision(c) \/ WriteSnapshot(c)

SmNext ==
  \/ \E u \in MapUsers : MapUserStep(u)
  \/ \E c \in MapCheckpoints : CheckpointStep(c)
  \/ \E t \in Things : SceneMoves(t)

SemanticMapSpec == SmInit /\ [][SmNext]_smVars

----------------------------------------------------------------------------
(* Properties *)

\* The row of the map and map_generations are two records of one fact, written by
\* transactions that look at different columns: the generation named by the row is the
\* open one, the others are closed, and both hold the same revision.
GenerationIsCurrent ==
  /\ mapGens[mapRow.gen] = [rev |-> mapRow.rev, closed |-> FALSE]
  /\ \A g \in Generations \ {mapRow.gen} : mapGens[g] # NoEntry => mapGens[g].closed

\* Once a user has put an entity, its row (status, pose, source) is changed by the
\* commit of a user only: a checkpoint that compared older rows, or whose thing is mapped to
\* that entity, leaves the row as it is.  It says nothing of a user who only removes an
\* entity the simulation reports: that row is not manual, and the next checkpoint makes it
\* active again (preserveManual keeps the status of manual rows alone).
ManualIsKept ==
  \A g \in Generations, e \in MapEntities :
    (Known(mapEnts[g], e) /\ mapEnts[g][e].manual /\ mapEnts'[g][e] # mapEnts[g][e]) =>
      \E u \in MapUsers : mapUser[u].pc = "commit" /\ mapUser'[u].pc = "idle"

\* Two things of the scene never share an entity.
ThingsApart ==
  \A g \in Generations, s, t \in Things :
    mapLinks[g][s] # NoEntry /\ mapLinks[g][s] = mapLinks[g][t] => s = t

\* Both ends of every relation a query shows are among the entities it shows, although
\* the map changes between its reads and the result is cut to a limit.
ViewIsClosed ==
  \A u \in MapUsers : (mapUser[u].pc = "view" /\ ~Whole(mapUser[u].query)) =>
    \A l \in mapUser[u].rels : {l[1], l[2]} \subseteq DOMAIN mapUser[u].ents

\* An edit is committed only on the entities its user was looking at.
EditIsOnWhatWasSeen ==
  \A u \in MapUsers :
    (mapUser[u].pc = "commit" /\ mapUser'[u].pc = "idle" /\ mapRow' # mapRow) =>
      \A e \in DOMAIN mapUser[u].ents : mapUser[u].ents[e] = mapEnts[mapUser[u].gen][e]

\* An edit is made on the rows its user saw; no checkpoint changes an entity that a user has
\* put (a mere removal is not kept, see above); no step leaves the two records of the
\* generation, the mappings of the things or a view at odds with the rows.
PutsAreKept ==
  [][/\ EditIsOnWhatWasSeen /\ ManualIsKept
     /\ GenerationIsCurrent' /\ ThingsApart' /\ ViewIsClosed']_smVars

=============================================================================
