-------------------------- MODULE OperationsProofs ---------------------------
(***************************************************************************)
(* Proofs about what Agents and users work with while a Robot works:       *)
(* debugging of Abilities, tools, artifacts, Runs of Tasks, semantic maps. *)
(***************************************************************************)
EXTENDS TaskAgent, AbilityDebug, McpTools, Artifacts, SemanticMaps, SequenceTheorems,
        FiniteSetTheorems, TLAPS

-----------------------------------------------------------------------------
(* Ability debugging.                                                      *)

RowStatus == Ended \cup {"none", "starting", "running", "stopping", "interrupted"}
CallStatus == Ended \cup {"none", "sent", "moving", "refused"}
Order == [do : {"start", "stop"}, id : Debugs]

DebugTypeOK ==
  /\ row \in [Debugs -> RowStatus]
  /\ invocation \in [Debugs -> CallStatus]
  /\ orders \in Seq(Order)
  /\ handler \in [does : {"reads", "starts", "stopping", "stops", "cancels"}, id : Debugs \cup {NoDebug}]
  /\ handler.does # "reads" => handler.id \in Debugs
  /\ monitor \in [Debugs -> {"none", "reads", "polls", "checks", "saves"}]
  /\ polled \in [Debugs -> Ended \cup {"none", "running", "error"}]

\* An invocation that moves the Robot or may still begin to.
Hot(d) == invocation[d] \in {"sent", "moving"}

\* A debug without a row has begun nothing, and one under way has an open row.
RowsCover ==
  \A d \in Debugs :
    /\ row[d] = "none" => invocation[d] = "none" /\ monitor[d] = "none"
    /\ Hot(d) => row[d] \notin Ended

\* The command loop starts one debug while nothing else is under way, and no goroutine
\* writes its row meanwhile.
StartIsAlone ==
  /\ handler.does = "starts" => row[handler.id] = "starting" /\ monitor[handler.id] = "none"
  /\ \A d, e \in Debugs :
       Hot(d) /\ (Hot(e) \/ (handler.does = "starts" /\ handler.id = e)) => d = e

\* What a goroutine holds is an answer, and an end it was told of is one.
PollsAreTrue ==
  \A d \in Debugs :
    /\ monitor[d] \in {"checks", "saves"} => polled[d] # "none"
    /\ polled[d] \in Ended => invocation[d] \in Ended

DebugInv == DebugTypeOK /\ RowsCover /\ StartIsAlone /\ PollsAreTrue

LEMMA DebugInitGood == DebugInit => DebugInv
  BY AbilityDebugAssumption
  DEF DebugInit, DebugInv, DebugTypeOK, RowsCover, StartIsAlone, PollsAreTrue, Hot, RowStatus,
      CallStatus, Order, Ended, HandlerIdle

\* What the command loop takes is an order for a debug.
LEMMA OrderTaken ==
  ASSUME DebugTypeOK, orders # <<>>
  PROVE  Head(orders).id \in Debugs /\ Tail(orders) \in Seq(Order)
<1>1. Head(orders) \in Order /\ Tail(orders) \in Seq(Order)
  BY HeadTailProperties DEF DebugTypeOK
<1> QED
  BY <1>1 DEF Order

LEMMA DebugStep == DebugInv /\ [DebugNext]_debugVars => DebugInv'
<1> SUFFICES ASSUME DebugInv, [DebugNext]_debugVars PROVE DebugInv'
  OBVIOUS
<1> USE AbilityDebugAssumption
<1> USE DEF DebugInv, DebugTypeOK, RowsCover, StartIsAlone, PollsAreTrue, Hot, RowStatus,
            CallStatus, Order, Ended
<1>1. ASSUME NEW d \in Debugs, StartAbilityDebug(d) PROVE DebugInv'
  BY <1>1 DEF StartAbilityDebug
<1>2. ASSUME NEW d \in Debugs, StopAbilityDebug(d) PROVE DebugInv'
  BY <1>2 DEF StopAbilityDebug
<1>3. ASSUME NEW d \in Debugs, MonitorReads(d) PROVE DebugInv'
  BY <1>3 DEF MonitorReads, abilityDebugTerminal, GetAbilityDebug
<1>4. ASSUME NEW d \in Debugs, MonitorPolls(d) PROVE DebugInv'
  BY <1>4 DEF MonitorPolls, Reported
<1>5. ASSUME NEW d \in Debugs, MonitorChecks(d) PROVE DebugInv'
  BY <1>5 DEF MonitorChecks, GivesWay, abilityDebugTerminal
<1>6. ASSUME NEW d \in Debugs, MonitorSaves(d) PROVE DebugInv'
  BY <1>6 DEF MonitorSaves, Noted, SaveAbilityDebug, applyDebugState, abilityDebugTerminal
<1>7. ASSUME NEW d \in Debugs, AbilityAnswersStart(d) PROVE DebugInv'
  BY <1>7 DEF AbilityAnswersStart
<1>8. ASSUME NEW d \in Debugs, AbilityEnds(d) PROVE DebugInv'
  BY <1>8 DEF AbilityEnds
<1>9. ASSUME NEW d \in Debugs, stopActivePilotWork(d) PROVE DebugInv'
  BY <1>9 DEF stopActivePilotWork, StopReads, HandlerIdle
<1>10. CASE DebugLinkDrops
  BY <1>10 DEF DebugLinkDrops
<1>11. CASE StartDebug
  <2> DEFINE d == Head(orders).id
  <2>1. d \in Debugs /\ orders' \in Seq(Order)
    BY <1>11, OrderTaken DEF StartDebug, TakesCommand
  <2>2. handler = HandlerIdle /\ UNCHANGED <<invocation, monitor, polled>>
    BY <1>11 DEF StartDebug, TakesCommand
  <2>3. CASE UNCHANGED <<row, handler>>
    BY <2>1, <2>2, <2>3
  <2>4. CASE /\ ~HasDebug(d) /\ ~DebugBusy
             /\ SaveAbilityDebug(d, "starting") /\ handler' = [does |-> "starts", id |-> d]
    BY <2>1, <2>2, <2>4 DEF HasDebug, GetAbilityDebug, DebugBusy, ListActiveAbilityDebug,
       SaveAbilityDebug
  <2> QED
    BY <2>3, <2>4, <1>11 DEF StartDebug
<1>12. CASE StartTaskLeaves
  BY <1>12 DEF StartTaskLeaves
<1>13. CASE StartTaskReturns
  BY <1>13 DEF StartTaskReturns, SaveAbilityDebug, Answered, startMonitor, HandlerIdle
<1>14. CASE StartTaskUnconfirmed
  BY <1>14 DEF StartTaskUnconfirmed, SaveAbilityDebug, Reconciled, HandlerIdle
<1>15. CASE StopDebug
  <2>1. Head(orders).id \in Debugs /\ orders' \in Seq(Order)
    BY <1>15, OrderTaken DEF StopDebug, TakesCommand
  <2> QED
    BY <2>1, <1>15 DEF StopDebug, TakesCommand, StopReads, HandlerIdle
<1>16. CASE StopSaves
  BY <1>16 DEF StopSaves, Noted, SaveAbilityDebug
<1>17. CASE StopReturnsEvidence
  BY <1>17 DEF StopReturnsEvidence, Noted, SaveAbilityDebug, StopResult
<1>18. CASE StopUnconfirmed
  BY <1>18 DEF StopUnconfirmed, SaveAbilityDebug
<1>19. CASE cancelMonitor
  BY <1>19 DEF cancelMonitor, HandlerIdle
<1>20. CASE SkillStarts \/ RobotReleased
  BY <1>20 DEF SkillStarts, RobotReleased
<1>21. CASE PilotShutsDown
  BY <1>21 DEF PilotShutsDown, HandlerIdle
<1>22. CASE Recover
  BY <1>22 DEF Recover, ListActiveAbilityDebug, HandlerIdle
<1>23. CASE UNCHANGED debugVars
  BY <1>23 DEF debugVars, pilotDebugVars
<1> QED
  BY <1>1, <1>2, <1>3, <1>4, <1>5, <1>6, <1>7, <1>8, <1>9, <1>10, <1>11, <1>12, <1>13, <1>14,
     <1>15, <1>16, <1>17, <1>18, <1>19, <1>20, <1>21, <1>22, <1>23 DEF DebugNext

\* What the Pilot reports as over is over, and at most one debug moves the Robot, though a
\* row is written by StartAbilityDebug, StopAbilityDebug, its monitor and recovery
\* (src/internal/pilot/abilitydebug.go).
THEOREM DebugEnds == DebugSpec => []DebugEndIsQuiet
<1>1. DebugInv => DebugEndIsQuiet
  BY DEF DebugInv, DebugTypeOK, RowsCover, StartIsAlone, Hot, DebugEndIsQuiet
<1> QED
  BY <1>1, DebugInitGood, DebugStep, PTL DEF DebugSpec

-----------------------------------------------------------------------------
(* The tools of MCP servers.                                               *)

Stages == {"rests", "registers", "gets", "dials", "hooks", "lists", "writes", "marks", "waits",
           "calls"}

McpTypeOK ==
  /\ item \in Nat /\ configured \in BOOLEAN
  /\ entries \in [list : Nat, by : Nat]
  /\ stage \in [Users -> Stages]
  /\ holds \in [Users -> Connections \cup {NoConn}]
  /\ listed \in [Items -> Nat] /\ current \in [Items -> BOOLEAN]
  /\ IsFiniteSet(hooked)
  /\ pushed \in Nat /\ tools \in Nat

\* A comparison that stands, and one that still has to be written.
Compared(i) == stage[i] = "marks" \/ (stage[i] = "waits" /\ current[i])
Reading(i) == stage[i] \in {"lists", "writes"}

\* Notifications are handled before the list is read.
HookedFirst == \A i \in Items : Reading(i) \/ Compared(i) => holds[i] \in hooked

\* The item of the moment, over a connection that still announces changes.
Watching(i) == i = item /\ configured /\ holds[i] \in live \ broken
Announced(i) == pushed > 0 \/ i \in notify

\* What was read, and what was written, is the server's list or a change is announced.
ReadIsWatched ==
  \A i \in Items : Watching(i) /\ stage[i] = "writes" => listed[i] = tools \/ Announced(i)
WrittenIsWatched ==
  \A i \in Items :
    Watching(i) /\ Compared(i) /\ entries.by = i => entries.list = tools \/ Announced(i)

McpInv == McpTypeOK /\ HookedFirst /\ ReadIsWatched /\ WrittenIsWatched

LEMMA McpInitGood == McpInit => McpInv
<1> SUFFICES ASSUME McpInit PROVE McpInv
  OBVIOUS
<1>1. McpTypeOK
  BY FS_EmptySet DEF McpInit, McpTypeOK, Stages, Users, Items, NoEntries
<1>2. \A i \in Items : stage[i] = "rests"
  BY DEF McpInit, Users
<1> QED
  BY <1>1, <1>2
  DEF McpInv, HookedFirst, ReadIsWatched, WrittenIsWatched, Compared, Reading

LEMMA FollowsOrder ==
  Follows.gets = "hooks" /\ Follows.hooks = "lists" /\ Follows.lists = "writes"
  BY DEF Follows

\* A change of the tools is announced over every connection that is watched.
LEMMA ChangeIsAnnounced ==
  ASSUME IsFiniteSet(hooked)
  PROVE  /\ Cardinality(hooked \cap (live \ broken)) \in Nat
         /\ \A c \in hooked :
              c \in live \ broken => Cardinality(hooked \cap (live \ broken)) > 0
<1>1. IsFiniteSet(hooked \cap (live \ broken))
  BY FS_Intersection
<1>2. Cardinality(hooked \cap (live \ broken)) \in Nat
  BY <1>1, FS_CardinalityType
<1>3. Cardinality(hooked \cap (live \ broken)) = 0 => hooked \cap (live \ broken) = {}
  BY <1>1, FS_EmptySet
<1> QED
  BY <1>2, <1>3

LEMMA McpStep == McpInv /\ [McpNext]_mcpVars => McpInv'
<1> SUFFICES ASSUME McpInv, [McpNext]_mcpVars PROVE McpInv'
  OBVIOUS
<1> USE McpToolsAssumption
<1> USE DEF McpInv, McpTypeOK, HookedFirst, ReadIsWatched, WrittenIsWatched, Watching, Announced,
            Compared, Reading, Stages, Users, Items, McpSteady, mcpCatalogVars, userVars,
            poolVars,
            serverSide
<1>1. CASE startItemLocked
  BY <1>1 DEF startItemLocked
<1>2. CASE RemoveServer
  BY <1>2 DEF RemoveServer, NoEntries
<1>3. CASE CircuitHalfOpens
  BY <1>3 DEF CircuitHalfOpens, McpCall
<1>4. CASE notifyServer
  BY <1>4 DEF notifyServer
<1>5. CASE ToolsChange
  <2>1. tools' \in Nat /\ pushed' \in Nat
    BY <1>5, ChangeIsAnnounced DEF ToolsChange
  <2>2. \A c \in hooked : c \in live \ broken => pushed' > 0
    <3> DEFINE n == Cardinality(hooked \cap (live \ broken))
    <3>1. pushed' = pushed + n /\ n \in Nat /\ \A c \in hooked : c \in live \ broken => n > 0
      BY <1>5, ChangeIsAnnounced DEF ToolsChange
    <3> HIDE DEF n
    <3> QED
      BY <3>1
  <2> QED
    BY <2>1, <2>2, <1>5 DEF ToolsChange
<1>6. CASE ServerStops
  BY <1>6 DEF ServerStops, McpFault
<1>7. CASE ServerReturns
  BY <1>7 DEF ServerReturns
<1>8. ASSUME NEW u \in Users, GetCached(u) PROVE McpInv'
  <2>1. CASE memo \in live \ broken /\ up /\ ~Cancelled(u)
    <3>1. /\ stage' = [stage EXCEPT ![u] = IF u \in Items THEN "hooks" ELSE "calls"]
          /\ holds' = [holds EXCEPT ![u] = memo] /\ memo \in Connections
          /\ stage[u] = "gets"
          /\ UNCHANGED <<mcpCatalogVars, listed, current, live, broken, hooked, serverSide>>
      BY <1>8, <2>1, FollowsOrder DEF GetCached
    <3> QED
      BY <3>1
  <2>2. CASE ~(memo \in live \ broken /\ up /\ ~Cancelled(u))
    BY <1>8, <2>2, ZenonT(40) DEF GetCached
  <2> QED
    BY <2>1, <2>2
<1>9. ASSUME NEW u \in Users, GetDials(u) PROVE McpInv'
  BY <1>9 DEF GetDials
<1>10. ASSUME NEW u \in Users, Connected(u) PROVE McpInv'
  BY <1>10, FollowsOrder DEF Connected
<1>11. ASSUME NEW u \in Users, DialFails(u) PROVE McpInv'
  BY <1>11, ZenonT(40) DEF DialFails, Fails, McpFault
<1>12. ASSUME NEW u \in Users, GetRefused(u) PROVE McpInv'
  BY <1>12 DEF GetRefused, Fails
<1>13. ASSUME NEW i \in Items, Registers(i) PROVE McpInv'
  BY <1>13 DEF Registers
<1>14. ASSUME NEW i \in Items, OnToolsChanged(i) PROVE McpInv'
  BY <1>14, FollowsOrder, FS_AddElement DEF OnToolsChanged
<1>15. ASSUME NEW i \in Items, ListTools(i) PROVE McpInv'
  BY <1>15, FollowsOrder DEF ListTools
<1>16. ASSUME NEW i \in Items, ListToolsFails(i) PROVE McpInv'
  BY <1>16 DEF ListToolsFails, Fails
<1>17. ASSUME NEW i \in Items, reconcileLocked(i) PROVE McpInv'
  BY <1>17 DEF reconcileLocked
<1>18. ASSUME NEW i \in Items, markHealth(i) PROVE McpInv'
  BY <1>18 DEF markHealth
<1>19. ASSUME NEW i \in Items, ItemEnds(i) PROVE McpInv'
  BY <1>19 DEF ItemEnds
<1>20. ASSUME NEW i \in Items, ItemNotified(i) PROVE McpInv'
  BY <1>20 DEF ItemNotified
<1>21. ASSUME NEW i \in Items, ItemTimer(i) PROVE McpInv'
  BY <1>21 DEF ItemTimer, McpCall
<1>22. ASSUME NEW k \in Callers, CallBegins(k) PROVE McpInv'
  BY <1>22 DEF CallBegins, McpCall
<1>23. ASSUME NEW k \in Callers, CallReturns(k) PROVE McpInv'
  BY <1>23 DEF CallReturns
<1>24. CASE UNCHANGED mcpVars
  BY <1>24 DEF mcpVars
<1> QED
  BY <1>1, <1>2, <1>3, <1>4, <1>5, <1>6, <1>7, <1>8, <1>9, <1>10, <1>11, <1>12, <1>13, <1>14,
     <1>15, <1>16, <1>17, <1>18, <1>19, <1>20, <1>21, <1>22, <1>23, <1>24 DEF McpNext, Reconcile

\* A change of the tools between two comparisons is not missed: the hook is on the connection
\* before the list is read (SyncServer, src/internal/mcpregistry/registry.go), and a
\* notification waits for the item that is at work (syncer.go).
THEOREM ChangesAreSeen == McpSpec => []ChangeIsNotMissed
<1>1. McpInv => ChangeIsNotMissed
  BY DEF McpInv, McpTypeOK, WrittenIsWatched, Watching, Compared, Announced, ChangeIsNotMissed
<1> QED
  BY <1>1, McpInitGood, McpStep, PTL DEF McpSpec

-----------------------------------------------------------------------------
(* Queues without repetition.                                              *)

Queued(s) == {s[i] : i \in 1..Len(s)}
NoRepeat(s) == \A i, j \in 1..Len(s) : s[i] = s[j] => i = j

LEMMA AppendQueued ==
  ASSUME NEW S, NEW s \in Seq(S), NEW x \in S, NoRepeat(s), x \notin Queued(s)
  PROVE  /\ Append(s, x) \in Seq(S) /\ NoRepeat(Append(s, x))
         /\ Queued(Append(s, x)) = Queued(s) \cup {x}
  BY DEF Queued, NoRepeat

LEMMA TailQueued ==
  ASSUME NEW S, NEW s \in Seq(S), s # <<>>, NoRepeat(s)
  PROVE  /\ Head(s) \in S /\ Tail(s) \in Seq(S) /\ NoRepeat(Tail(s))
         /\ Queued(Tail(s)) = Queued(s) \ {Head(s)} /\ Head(s) \in Queued(s)
<1>1. Len(s) \in Nat \ {0} /\ Head(s) = s[1] /\ Tail(s) \in Seq(S) /\ Len(Tail(s)) = Len(s) - 1
      /\ \A i \in 1..Len(s) - 1 : Tail(s)[i] = s[i + 1]
  OBVIOUS
<1>2. NoRepeat(Tail(s))
  BY <1>1 DEF NoRepeat
<1>3. Queued(Tail(s)) \subseteq Queued(s) \ {Head(s)}
  BY <1>1 DEF NoRepeat, Queued
<1>4. ASSUME NEW i \in 1..Len(s), s[i] # Head(s) PROVE s[i] \in Queued(Tail(s))
  <2>1. i - 1 \in 1..Len(Tail(s)) /\ Tail(s)[i - 1] = s[i]
    BY <1>1, <1>4
  <2> QED
    BY <2>1 DEF Queued
<1>5. Queued(s) \ {Head(s)} \subseteq Queued(Tail(s))
  BY <1>4 DEF Queued
<1>6. Head(s) \in S /\ Head(s) \in Queued(s)
  <2>1. 1 \in 1..Len(s) /\ Head(s) = s[1]
    BY <1>1
  <2> QED
    BY <2>1 DEF Queued
<1> QED
  BY <1>1, <1>2, <1>3, <1>5, <1>6

-----------------------------------------------------------------------------
(* Artifacts.                                                              *)

EntryOf == [path : Paths, sync : {"pending", "failed", "synced"}, art : Arts \cup {NoArt}]
PublicationOf == [stage : {"none", "checked", "entered", "failed"},
                  path : Paths \cup {NoLocal}, id : LocalIds \cup {NoLocal}]
CommandOf == [id : LocalIds \cup {NoLocal}, refs : SUBSET Arts]

ArtifactTypeOK ==
  /\ writing \in [Arts -> LocalIds \cup {"none", "user"}]
  /\ filing \in [Arts -> LocalIds \cup {NoLocal}]
  /\ mapping \in [LocalIds -> [status : {"none", "pending", "synced"}, art : Arts \cup {NoArt}]]
  /\ tokens \in [LocalIds -> Nat]
  /\ announced \in Seq(LocalIds) /\ commands \in Seq(CommandOf)
  /\ local \in [LocalIds -> EntryOf \cup {NoLocal}]
  /\ usedIds \subseteq LocalIds
  /\ pub \in [Loops -> PublicationOf]
  /\ \A w \in Loops :
       /\ pub[w].stage # "none" => pub[w].path \in Paths
       /\ pub[w].stage \in {"entered", "failed"} =>
            pub[w].id \in usedIds /\ local[pub[w].id] \in EntryOf
  /\ put \in [id : LocalIds \cup {NoLocal}, stage : {"none", "sent", "stored"},
              art : Arts \cup {NoArt}]
  /\ put.stage # "none" => put.id \in LocalIds /\ local[put.id] \in EntryOf
  /\ put.stage = "stored" => put.art \in Arts

\* Where an announced file is on its way: each of its stations excludes the others.
Unsent(w, id) == pub[w].stage = "entered" /\ pub[w].id = id
Sent(id) == id \in Queued(announced)
Awaited(id) == tokens[id] > 0
Stored(a, id) == writing[a] = id \/ filing[a] = id
Synced(id) == mapping[id].status = "synced"

AnnouncedOnce ==
  /\ NoRepeat(announced)
  /\ \A id \in LocalIds :
       /\ Sent(id) => id \in usedIds /\ ~Awaited(id) /\ ~Synced(id)
       /\ Awaited(id) => id \in usedIds /\ tokens[id] = 1 /\ ~Synced(id)
       /\ Synced(id) => id \in usedIds
  /\ \A id \in LocalIds, w \in Loops : Unsent(w, id) =>
       /\ ~Sent(id) /\ ~Awaited(id) /\ ~Synced(id)
       /\ \A v \in Loops : Unsent(v, id) => v = w
  /\ \A id \in LocalIds, a \in Arts : Stored(a, id) =>
       /\ id \in usedIds /\ ~Sent(id) /\ ~Awaited(id) /\ ~Synced(id)
       /\ \A w \in Loops : ~Unsent(w, id)
       /\ \A b \in Arts : Stored(b, id) => a = b

\* An artifact id is given out once, and one that a mapping names is written.
Busy(a) == writing[a] # "none" \/ filing[a] # NoLocal
ArtifactsOwned ==
  /\ rows \subseteq usedArts
  /\ \A a \in Arts :
       /\ Busy(a) => a \in usedArts
       /\ filing[a] # NoLocal => writing[a] = "none"
       /\ writing[a] # "none" => a \notin rows
  /\ \A id \in LocalIds : mapping[id].art # NoArt =>
       Synced(id) /\ mapping[id].art \in usedArts /\ ~Busy(mapping[id].art)
  /\ put.stage = "stored" =>
       /\ put.art \in usedArts
       /\ writing[put.art] \in {"none", put.id} /\ filing[put.art] \in {NoLocal, put.id}
       /\ \A id \in LocalIds : mapping[id].art = put.art => id = put.id

ArtifactInv == ArtifactTypeOK /\ AnnouncedOnce /\ ArtifactsOwned /\ ReferencesResolve

\* A lost connection leaves the beginning of a queue.
LEMMA ArrivedQueued ==
  ASSUME NEW s \in Seq(LocalIds), NoRepeat(s), NEW r \in Arrived(s)
  PROVE  r \in Seq(LocalIds) /\ NoRepeat(r) /\ Queued(r) \subseteq Queued(s)
<1>1. PICK n \in 0..Len(s) : r = SubSeq(s, 1, n)
  BY DEF Arrived
<1>2. r \in Seq(LocalIds) /\ Len(r) = n /\ \A i \in 1..n : r[i] = s[i]
  BY <1>1, SubSeqProperties
<1> QED
  BY <1>1, <1>2 DEF NoRepeat, Queued

LEMMA ArtifactInitGood == ArtifactsInit => ArtifactInv
<1> SUFFICES ASSUME ArtifactsInit PROVE ArtifactInv
  OBVIOUS
<1> USE ArtifactsAssumption DEF ArtifactsInit, Unmapped, NoPut, NoPublication, Publication,
                                PublicationOf
<1>1. ArtifactTypeOK
  BY DEF ArtifactTypeOK
<1>2. AnnouncedOnce
  BY DEF AnnouncedOnce, NoRepeat, Queued, Unsent, Sent, Awaited, Stored, Synced
<1>3. ArtifactsOwned /\ ReferencesResolve
  BY DEF ArtifactsOwned, Busy, ReferencesResolve
<1> QED
  BY <1>1, <1>2, <1>3 DEF ArtifactInv

LEMMA ArtifactStep ==
  ArtifactInv /\ [ArtifactsNext]_artifactVars => ArtifactInv' /\ SyncedStays
<1> SUFFICES ASSUME ArtifactInv, [ArtifactsNext]_artifactVars PROVE ArtifactInv' /\ SyncedStays
  OBVIOUS
<1> USE ArtifactsAssumption
<1> USE DEF ArtifactInv, ArtifactTypeOK, AnnouncedOnce, ArtifactsOwned, ReferencesResolve,
        SyncedStays, Busy,
            Unsent, Sent, Awaited, Stored, Synced, artifactStoreVars, messageVars, bridgeVars,
            deviceVars, deviceButPut, deviceButPub, NoPublication, Publication, PublicationOf
<1>1. ASSUME NEW a \in Arts, PutBegins(a) PROVE ArtifactInv' /\ SyncedStays
  BY <1>1 DEF PutBegins, NewArtifact
<1>2. ASSUME NEW a \in Arts, ContentWritten(a) PROVE ArtifactInv' /\ SyncedStays
  BY <1>2 DEF ContentWritten
<1>3. ASSUME NEW a \in Arts, ContentFails(a) PROVE ArtifactInv' /\ SyncedStays
  BY <1>3 DEF ContentFails, UploadRefused, NoPut
<1>4. ASSUME NEW a \in Arts, RowInserted(a) PROVE ArtifactInv' /\ SyncedStays
  BY <1>4 DEF RowInserted
<1>5. ASSUME NEW a \in Arts, RowFails(a) PROVE ArtifactInv' /\ SyncedStays
  <2>1. ArtifactTypeOK'
    BY <1>5 DEF RowFails, UploadRefused, NoPut
  <2>2. AnnouncedOnce'
    BY <1>5 DEF RowFails, UploadRefused, NoPut
  <2>3. ArtifactsOwned'
    BY <1>5 DEF RowFails, UploadRefused, NoPut
  <2>4. ReferencesResolve' /\ SyncedStays
    BY <1>5 DEF RowFails, UploadRefused, NoPut
  <2> QED
    BY <2>1, <2>2, <2>3, <2>4
<1>6. ASSUME NEW a \in Arts, DeleteArtifact(a) PROVE ArtifactInv' /\ SyncedStays
  BY <1>6 DEF DeleteArtifact, GoesNext
<1>7. ASSUME NEW a \in Arts, resolveAttachments(a) PROVE ArtifactInv' /\ SyncedStays
  BY <1>7 DEF resolveAttachments
<1>8. ASSUME NEW a \in Arts, AppendChatMessage(a) PROVE ArtifactInv' /\ SyncedStays
  BY <1>8 DEF AppendChatMessage
<1>9. ASSUME NEW a \in Arts, UploadMapped(a) PROVE ArtifactInv' /\ SyncedStays
  <2> DEFINE id == filing[a]
  <2>1. id \in LocalIds /\ Stored(a, id) /\ ~Synced(id) /\ filing' = [filing EXCEPT ![a] = NoLocal]
    BY <1>9 DEF UploadMapped
  <2>2. CASE mapping' = [mapping EXCEPT ![id] = [status |-> "synced", art |-> a]] /\ put' = put
    <3>1. UNCHANGED <<rows, contents, writing, removals, usedArts, tokens, announced, commands,
                      local, usedIds, pub>>
      BY <1>9 DEF UploadMapped
    <3>2. ArtifactTypeOK'
      BY <2>1, <2>2, <3>1
    <3>3. AnnouncedOnce'
      BY <2>1, <2>2, <3>1
    <3>4. ArtifactsOwned'
      BY <2>1, <2>2, <3>1
    <3>5. ReferencesResolve' /\ SyncedStays
      BY <2>1, <2>2, <3>1
    <3> QED
      BY <3>2, <3>3, <3>4, <3>5
  <2>3. CASE mapping' = mapping /\ put' = (IF put.art = a THEN NoPut ELSE put)
    <3>1. UNCHANGED <<rows, contents, writing, removals, usedArts, tokens, announced, commands,
                      local, usedIds, pub>>
      BY <1>9 DEF UploadMapped
    <3>2. ArtifactTypeOK'
      BY <2>1, <2>3, <3>1 DEF NoPut
    <3>3. AnnouncedOnce'
      BY <2>1, <2>3, <3>1 DEF NoPut
    <3>4. ArtifactsOwned'
      BY <2>1, <2>3, <3>1 DEF NoPut
    <3>5. ReferencesResolve' /\ SyncedStays
      BY <2>1, <2>3, <3>1 DEF NoPut
    <3> QED
      BY <3>2, <3>3, <3>4, <3>5
  <2> QED
    BY <1>9, <2>2, <2>3 DEF UploadMapped, SaveRobotArtifactMapping, UploadRefused
<1>10. ASSUME NEW a \in Arts, Resolve(a) PROVE ArtifactInv' /\ SyncedStays
  BY <1>10 DEF Resolve
<1>11. ASSUME NEW a \in Arts, NEW force \in BOOLEAN, HandleDeleteArtifact(a, force) PROVE ArtifactInv' /\ SyncedStays
  BY <1>11 DEF HandleDeleteArtifact
<1>12. ASSUME NEW p \in Paths, AbilityCaptures(p) PROVE ArtifactInv' /\ SyncedStays
  BY <1>12 DEF AbilityCaptures
<1>13. ASSUME NEW w \in Loops, NEW p \in Paths, Publish(w, p) PROVE ArtifactInv' /\ SyncedStays
  BY <1>13 DEF Publish
<1>14. ASSUME NEW w \in Loops, EntryMade(w) PROVE ArtifactInv' /\ SyncedStays
  <2>1. pub[w].path \in Paths
    BY <1>14 DEF EntryMade
  <2>2. PICK id \in LocalIds \ usedIds :
          /\ local' = [local EXCEPT ![id] = [path |-> pub[w].path, sync |-> "pending", art |-> NoArt]]
          /\ usedIds' = usedIds \cup {id}
          /\ \/ pub' = [pub EXCEPT ![w] = [stage |-> "entered", path |-> pub[w].path, id |-> id]]
             \/ pub' = [pub EXCEPT ![w] = [stage |-> "none", path |-> NoLocal, id |-> NoLocal]]
    BY <1>14, Zenon DEF EntryMade, update, localArtifact, NoPublication, Publication
  <2>3. UNCHANGED <<rows, contents, writing, filing, removals, usedArts, mapping, tokens,
                    announced, commands, put>>
    BY <1>14 DEF EntryMade
  <2>4. local'[id] \in EntryOf /\ \A k \in LocalIds : k # id => local'[k] = local[k]
    BY <2>1, <2>2 DEF EntryOf
  <2>5. /\ ~Sent(id) /\ ~Awaited(id) /\ ~Synced(id) /\ \A a \in Arts : ~Stored(a, id)
        /\ \A v \in Loops : ~Unsent(v, id)
    BY <2>2
  <2>6. ArtifactTypeOK'
    <3>1. local' \in [LocalIds -> EntryOf \cup {NoLocal}]
      BY <2>2, <2>4
    <3>2. pub' \in [Loops -> PublicationOf]
      <4>1. /\ [stage |-> "entered", path |-> pub[w].path, id |-> id] \in PublicationOf
            /\ [stage |-> "none", path |-> NoLocal, id |-> NoLocal] \in PublicationOf
        BY <2>1
      <4>2. pub \in [Loops -> PublicationOf]
        OBVIOUS
      <4> HIDE DEF PublicationOf, ArtifactInv
      <4> QED
        BY <2>2, <4>1, <4>2
    <3>3. ASSUME NEW v \in Loops
          PROVE  /\ pub'[v].stage # "none" => pub'[v].path \in Paths
                 /\ pub'[v].stage \in {"entered", "failed"} =>
                      pub'[v].id \in usedIds' /\ local'[pub'[v].id] \in EntryOf
      <4>1. CASE v = w
        BY <2>1, <2>2, <2>4, <4>1
      <4>2. CASE v # w
        BY <2>2, <2>4, <4>2
      <4> QED
        BY <4>1, <4>2
    <3>4. put.stage # "none" => local'[put.id] \in EntryOf
      BY <2>2, <2>4
    <3> QED
      BY <2>2, <2>3, <3>1, <3>2, <3>3, <3>4
  <2>7. AnnouncedOnce'
    <3>1. \A v \in Loops, k \in LocalIds : Unsent(v, k)' => Unsent(v, k) \/ (v = w /\ k = id)
      BY <2>2
    <3>2. usedIds' = usedIds \cup {id}
      BY <2>2
    <3> QED
      <4>1. \A k \in LocalIds : usedIds' = usedIds \cup {id} /\ Sent(k)' = Sent(k)
            /\ Awaited(k)' = Awaited(k) /\ Synced(k)' = Synced(k) /\ tokens'[k] = tokens[k]
            /\ \A a \in Arts : Stored(a, k)' = Stored(a, k)
        BY <2>3, <3>2
      <4>2. ASSUME NEW k \in LocalIds, NEW v \in Loops, Unsent(v, k)'
            PROVE  /\ ~Sent(k) /\ ~Awaited(k) /\ ~Synced(k) /\ \A a \in Arts : ~Stored(a, k)
                   /\ \A u \in Loops : Unsent(u, k)' => u = v
        <5>1. CASE Unsent(v, k)
          <6>1. k # id
            BY <2>5, <5>1
          <6> QED
            BY <3>1, <5>1, <6>1, ZenonT(40)
        <5>2. CASE v = w /\ k = id
          BY <2>5, <3>1, <5>2
        <5> QED
          BY <3>1, <4>2, <5>1, <5>2, ZenonT(40)
      <4>3. NoRepeat(announced')
        BY <2>3
      <4>4. AnnouncedOnce /\ (\A k \in LocalIds : Sent(k) \/ Awaited(k) \/ Synced(k) => k \in usedIds)
        OBVIOUS
      <4> HIDE DEF ArtifactInv, Unsent, Sent, Awaited, Stored, Synced, NoRepeat
      <4> QED
        BY ONLY <4>1, <4>2, <4>3, <4>4 DEF AnnouncedOnce
  <2>8. ArtifactsOwned'
    BY <2>2, <2>3
  <2>9. ReferencesResolve' /\ SyncedStays
    BY <2>2, <2>3, <2>4
  <2> QED
    BY <2>6, <2>7, <2>8, <2>9
<1>15. ASSUME NEW w \in Loops, Announce(w) PROVE ArtifactInv' /\ SyncedStays
  <2> DEFINE id == pub[w].id
  <2>1. id \in LocalIds /\ Unsent(w, id)
    BY <1>15 DEF Announce
  <2>2. /\ announced' \in Seq(LocalIds) /\ NoRepeat(announced')
        /\ Queued(announced') = Queued(announced) \cup {id}
    BY <1>15, <2>1, AppendQueued DEF Announce
  <2> QED
    BY <1>15, <2>1, <2>2 DEF Announce
<1>16. ASSUME NEW w \in Loops, AnnounceFails(w) PROVE ArtifactInv' /\ SyncedStays
  <2> DEFINE id == pub[w].id
  <2>1. id \in LocalIds /\ Unsent(w, id)
    BY <1>16 DEF AnnounceFails
  <2>2. /\ announced' \in Seq(LocalIds) /\ NoRepeat(announced')
        /\ Queued(announced') \subseteq Queued(announced) \cup {id}
    <3>1. CASE UNCHANGED announced
      BY <3>1
    <3>2. CASE announced' \in Arrived(Append(announced, id))
      <4>1. /\ Append(announced, id) \in Seq(LocalIds) /\ NoRepeat(Append(announced, id))
            /\ Queued(Append(announced, id)) = Queued(announced) \cup {id}
        BY <2>1, AppendQueued
      <4> QED
        BY <3>2, <4>1, ArrivedQueued
    <3> QED
      BY <1>16, <3>1, <3>2 DEF AnnounceFails
  <2>3. commands' \in Seq(CommandOf)
    <3>1. commands' = commands \/ commands' = <<>>
      BY <1>16 DEF AnnounceFails
    <3>2. CASE commands' = commands
      BY <3>2
    <3>3. CASE commands' = <<>>
      BY <3>3
    <3> QED
      BY <3>1, <3>2, <3>3
  <2> QED
    <3>1. /\ pub' = [pub EXCEPT ![w].stage = "failed"]
          /\ UNCHANGED <<rows, contents, writing, filing, removals, usedArts, mapping, tokens, local,
                        usedIds, put>>
      BY <1>16 DEF AnnounceFails
    <3>2. \A v \in Loops : /\ pub'[v].path = pub[v].path /\ pub'[v].id = pub[v].id
                           /\ v # w => pub'[v] = pub[v]
                           /\ pub'[v].stage = "entered" => v # w
      BY <3>1
    <3>3. ArtifactTypeOK'
      <4>1. pub' \in [Loops -> PublicationOf]
        <5>1. [pub[w] EXCEPT !.stage = "failed"] \in PublicationOf
          <6>1. pub[w] \in PublicationOf
            OBVIOUS
          <6> QED
            BY ONLY <6>1 DEF PublicationOf
        <5>2. pub \in [Loops -> PublicationOf]
          OBVIOUS
        <5> HIDE DEF PublicationOf, ArtifactInv
        <5> QED
          BY <3>1, <5>1, <5>2
      <4>2. ASSUME NEW v \in Loops
            PROVE  /\ pub'[v].stage # "none" => pub'[v].path \in Paths
                   /\ pub'[v].stage \in {"entered", "failed"} =>
                        pub'[v].id \in usedIds /\ local[pub'[v].id] \in EntryOf
        <5>1. pub[w].stage = "entered"
          BY <1>16 DEF AnnounceFails
        <5> QED
          <6>1. pub[w].path \in Paths /\ pub[w].id \in usedIds /\ local[pub[w].id] \in EntryOf
            BY <5>1
          <6>2. CASE v = w
              <7>1. pub'[v].path = pub[w].path /\ pub'[v].id = pub[w].id /\ local' = local
                    /\ usedIds' = usedIds
                BY <3>1, <3>2, <6>2
              <7> HIDE DEF ArtifactInv
              <7> QED
                BY ONLY <6>1, <7>1
          <6>3. CASE v # w
              <7>1. pub'[v] = pub[v] /\ local' = local
                BY <3>1, <3>2, <6>3
              <7>2. /\ pub[v].stage # "none" => pub[v].path \in Paths
                    /\ pub[v].stage \in {"entered", "failed"} =>
                         pub[v].id \in usedIds /\ local[pub[v].id] \in EntryOf
                OBVIOUS
              <7> HIDE DEF ArtifactInv
              <7> QED
                BY ONLY <7>1, <7>2
          <6> QED
            BY <6>2, <6>3
      <4> QED
        BY <2>2, <2>3, <3>1, <4>1, <4>2
    <3>4. AnnouncedOnce'
      BY <2>1, <2>2, <3>1, <3>2
    <3> QED
      BY <3>1, <3>3, <3>4
<1>17. ASSUME NEW w \in Loops, PublishFails(w) PROVE ArtifactInv' /\ SyncedStays
  <2>1. local' = [local EXCEPT ![pub[w].id] =
                    [path |-> pub[w].path, sync |-> "failed", art |-> NoArt]]
    BY <1>17 DEF PublishFails, update, localArtifact
  <2> QED
    BY <1>17, <2>1 DEF PublishFails, EntryOf
<1>18. ASSUME NEW w \in Loops, startExecution(w) PROVE ArtifactInv' /\ SyncedStays
  BY <1>18 DEF startExecution, CommandOf
<1>19. ASSUME NEW w \in Loops, restartWorker(w) PROVE ArtifactInv' /\ SyncedStays
  BY <1>19 DEF restartWorker
<1>20. ASSUME NEW refs \in SUBSET Arts, authorizeArtifactDownloads(refs) PROVE ArtifactInv' /\ SyncedStays
  <2>1. commands' \in Seq(CommandOf)
    <3>1. [id |-> NoLocal, refs |-> refs] \in CommandOf
      BY DEF CommandOf
    <3>2. commands' = commands \/ commands' = Append(commands, [id |-> NoLocal, refs |-> refs])
      BY <1>20 DEF authorizeArtifactDownloads, sendCommand, StartCommand
    <3>3. commands \in Seq(CommandOf)
      OBVIOUS
    <3> HIDE DEF CommandOf, ArtifactInv
    <3> QED
      BY <3>1, <3>2, <3>3, AppendProperties
  <2> QED
    BY <1>20, <2>1 DEF authorizeArtifactDownloads
<1>21. CASE announceArtifact
  <2> DEFINE id == Head(announced)
  <2>1. /\ id \in LocalIds /\ Sent(id)
        /\ announced' \in Seq(LocalIds) /\ NoRepeat(announced')
        /\ Queued(announced') = Queued(announced) \ {id}
    BY <1>21, TailQueued DEF announceArtifact
  <2>2. commands' \in Seq(CommandOf)
    <3>1. commands' = commands \/ commands' = Append(commands, [id |-> id, refs |-> {}])
      BY <1>21 DEF announceArtifact, sendCommand, UploadCommand
    <3>2. [id |-> id, refs |-> {}] \in CommandOf
      BY <2>1 DEF CommandOf
    <3>3. commands \in Seq(CommandOf)
      OBVIOUS
    <3> HIDE DEF CommandOf, ArtifactInv
    <3> QED
      BY <3>1, <3>2, <3>3, AppendProperties
  <2>3. \/ /\ mapping' = [mapping EXCEPT ![id] = [status |-> "pending", art |-> NoArt]]
           /\ tokens' = [tokens EXCEPT ![id] = @ + 1]
        \/ UNCHANGED <<mapping, tokens>>
    BY <1>21 DEF announceArtifact, SaveRobotArtifactMapping, addTransfer
  <2> HIDE DEF id
  <2> QED
    <3>1. UNCHANGED <<rows, contents, writing, filing, removals, usedArts, local, usedIds, pub, put>>
      BY <1>21 DEF announceArtifact
    <3>2. CASE UNCHANGED <<mapping, tokens>>
      BY <2>1, <2>2, <3>1, <3>2
    <3>3. CASE /\ mapping' = [mapping EXCEPT ![id] = [status |-> "pending", art |-> NoArt]]
               /\ tokens' = [tokens EXCEPT ![id] = @ + 1]
      <4>1. tokens[id] = 0 /\ ~Synced(id) /\ mapping[id].art = NoArt /\ id \in usedIds
        BY <2>1
      <4>2. tokens' \in [LocalIds -> Nat] /\ tokens'[id] = 1
            /\ \A k \in LocalIds : k # id => tokens'[k] = tokens[k]
        BY <2>1, <3>3, <4>1
      <4>3. AnnouncedOnce'
        BY <2>1, <2>2, <3>1, <3>3, <4>1, <4>2
      <4> QED
        BY <2>1, <2>2, <3>1, <3>3, <4>1, <4>2, <4>3
    <3> QED
      BY <2>3, <3>2, <3>3
<1>22. CASE Upload
  <2>1. Head(commands) \in CommandOf /\ commands' \in Seq(CommandOf)
    BY <1>22, HeadTailProperties DEF Upload
  <2> QED
    BY <1>22, <2>1 DEF Upload, NoPut, GetLocal, CommandOf
<1>23. CASE UploadTaken
  <2>1. put.id \in LocalIds /\ Awaited(put.id) /\ tokens[put.id] = 1
    BY <1>23 DEF UploadTaken, takeTransfer
  <2>2. PICK a \in Arts : /\ NewArtifact(a, put.id)
                          /\ put' = [id |-> put.id, stage |-> "stored", art |-> a]
    BY <1>23 DEF UploadTaken
  <2>3. /\ a \notin usedArts /\ usedArts' = usedArts \cup {a}
        /\ writing' = [writing EXCEPT ![a] = put.id]
    BY <2>2 DEF NewArtifact
  <2>4. UNCHANGED <<mapping, local, announced, commands, usedIds, pub, rows, contents, filing>>
    BY <1>23 DEF UploadTaken
  <2>5. tokens' \in [LocalIds -> Nat] /\ tokens'[put.id] = 0
        /\ \A id \in LocalIds : id # put.id => tokens'[id] = tokens[id]
    BY <1>23, <2>1 DEF UploadTaken, takeTransfer
  <2>6. ArtifactTypeOK'
    <3>1. writing' \in [Arts -> LocalIds \cup {"none", "user"}]
      BY <2>1, <2>3
    <3>2. put'.id = put.id /\ put'.stage = "stored" /\ put'.art = a
      BY <2>2
    <3>3. put' \in [id : LocalIds \cup {NoLocal}, stage : {"none", "sent", "stored"},
                    art : Arts \cup {NoArt}]
      BY <2>1, <2>2
    <3>4. local[put.id] \in EntryOf
      BY <1>23 DEF UploadTaken
    <3> QED
      BY <2>1, <2>4, <2>5, <3>1, <3>2, <3>3, <3>4
  <2>7. AnnouncedOnce'
    <3>1. \A id \in LocalIds, b \in Arts : id # put.id => (Stored(b, id)' => Stored(b, id))
      BY <2>1, <2>3, <2>4
    <3>2. \A b \in Arts : Stored(b, put.id)' => b = a
      <4>1. \A b \in Arts : ~Stored(b, put.id)
        BY <2>1
      <4>2. \A b \in Arts : b # a => writing'[b] = writing[b] /\ filing'[b] = filing[b]
        BY <2>3, <2>4
      <4>3. filing' = filing /\ put'.id = put.id
        BY <2>2, <2>4
      <4> HIDE DEF ArtifactInv
      <4> QED
        BY ONLY <4>1, <4>2, <4>3 DEF Stored
    <3>3. ~Sent(put.id) /\ ~Synced(put.id) /\ put.id \in usedIds
          /\ \A w \in Loops : ~Unsent(w, put.id)
      BY <2>1
    <3>4. \A id \in LocalIds : Awaited(id)' => Awaited(id) /\ id # put.id /\ tokens'[id] = tokens[id]
      BY <2>1, <2>5
    <3> QED
      <4>1. ASSUME NEW id \in LocalIds, NEW b \in Arts, Stored(b, id)'
            PROVE  /\ id \in usedIds' /\ ~Sent(id)' /\ ~Awaited(id)' /\ ~Synced(id)'
                   /\ \A w \in Loops : ~Unsent(w, id)'
                   /\ \A c \in Arts : Stored(c, id)' => b = c
        <5>1. CASE id = put.id
          <6>1. b = a /\ \A c \in Arts : Stored(c, id)' => c = a
            <7>1. put'.id = put.id
              BY <2>2
            <7> HIDE DEF ArtifactInv, Stored
            <7> QED
              BY ONLY <3>2, <4>1, <5>1, <7>1
          <6>2. id \in usedIds' /\ ~Sent(id)' /\ ~Synced(id)' /\ \A w \in Loops : ~Unsent(w, id)'
            BY <2>4, <3>3, <5>1
          <6>3. ~Awaited(id)'
            BY <3>4, <5>1
          <6> QED
            BY <6>1, <6>2, <6>3
        <5>2. CASE id # put.id
          <6>1. Stored(b, id) /\ \A c \in Arts : Stored(c, id)' => Stored(c, id)
            BY <3>1, <4>1, <5>2
          <6> QED
            BY <2>4, <3>4, <6>1
        <5> QED
          BY <5>1, <5>2
      <4>2. \A id \in LocalIds :
              /\ Sent(id)' => id \in usedIds' /\ ~Awaited(id)' /\ ~Synced(id)'
              /\ Awaited(id)' => id \in usedIds' /\ tokens'[id] = 1 /\ ~Synced(id)'
              /\ Synced(id)' => id \in usedIds'
        BY <2>4, <3>4
      <4>3. \A id \in LocalIds, w \in Loops : Unsent(w, id)' =>
              /\ ~Sent(id)' /\ ~Awaited(id)' /\ ~Synced(id)'
              /\ \A v \in Loops : Unsent(v, id)' => v = w
        BY <2>4, <3>4
      <4> QED
        BY <2>4, <4>1, <4>2, <4>3
  <2>8. ArtifactsOwned'
    BY <2>1, <2>2, <2>3, <2>4
  <2>9. ReferencesResolve' /\ SyncedStays
    BY <2>4
  <2> QED
    BY <2>6, <2>7, <2>8, <2>9
<1>24. CASE UploadNotTaken
  <2>1. /\ tokens' \in [LocalIds -> Nat]
        /\ \A id \in LocalIds : Awaited(id)' => Awaited(id) /\ tokens'[id] = tokens[id]
    <3>1. CASE tokens' = tokens
      BY <3>1
    <3>2. CASE takeTransfer(put.id)
      <4>1. put.id \in LocalIds /\ tokens[put.id] = 1
        BY <1>24, <3>2 DEF UploadNotTaken, takeTransfer
      <4> QED
        BY <3>2, <4>1 DEF takeTransfer
    <3> QED
      BY <1>24, <3>1, <3>2 DEF UploadNotTaken
  <2> QED
    BY <1>24, <2>1 DEF UploadNotTaken, NoPut
<1>25. CASE UploadReturns
  <2>1. put.id \in LocalIds /\ put.art \in Arts /\ mapping[put.id].art = put.art
    BY <1>25 DEF UploadReturns, Replies, GetRobotArtifactMapping
  <2>2. mapping[put.id] = [status |-> "synced", art |-> put.art]
    BY <2>1, SMTT(30)
  <2>3. local' = [local EXCEPT ![put.id] =
                    [path |-> local[put.id].path, sync |-> "synced", art |-> put.art]]
    BY <1>25 DEF UploadReturns, update, localArtifact
  <2> QED
    BY <1>25, <2>1, <2>2, <2>3 DEF UploadReturns, NoPut, EntryOf
<1>26. CASE UploadLost
  BY <1>26 DEF UploadLost, NoPut
<1>27. CASE TransferExpires
  <2>1. /\ tokens' \in [LocalIds -> Nat]
        /\ \A id \in LocalIds : Awaited(id)' => Awaited(id) /\ tokens'[id] = tokens[id]
    BY <1>27, SMTT(30) DEF TransferExpires
  <2> QED
    BY <1>27, <2>1 DEF TransferExpires
<1>28. CASE LinkBreaks
  <2>1. /\ announced' \in Seq(LocalIds) /\ NoRepeat(announced')
        /\ Queued(announced') \subseteq Queued(announced)
    BY <1>28, ArrivedQueued DEF LinkBreaks
  <2> QED
    BY <1>28, <2>1 DEF LinkBreaks
<1>29. CASE LinkReturns
  BY <1>29 DEF LinkReturns
<1>30. CASE ArtifactServerRestarts
  BY <1>30 DEF ArtifactServerRestarts, NoPut, Queued, NoRepeat
<1>31. CASE ArtifactPilotRestarts
  <2>1. /\ announced' \in Seq(LocalIds) /\ NoRepeat(announced')
        /\ Queued(announced') \subseteq Queued(announced)
    BY <1>31, ArrivedQueued DEF ArtifactPilotRestarts
  <2> QED
    BY <1>31, <2>1 DEF ArtifactPilotRestarts, NoPut
<1>32. CASE UNCHANGED artifactVars
  BY <1>32 DEF artifactVars
<1> HIDE DEF ArtifactInv, SyncedStays
<1> QED
  BY <1>1, <1>2, <1>3, <1>4, <1>5, <1>6, <1>7, <1>8, <1>9, <1>10, <1>11, <1>12, <1>13, <1>14,
     <1>15, <1>16, <1>17, <1>18, <1>19, <1>20, <1>21, <1>22, <1>23, <1>24, <1>25, <1>26,
     <1>27, <1>28, <1>29, <1>30, <1>31, <1>32
     DEF ArtifactsNext, HandleUploadAttachment, HandleRegisterWorkspaceArtifact, artifactRegister,
         artifactPut, reductionWrite, WorkerPublishes, publishExecutionSummary,
         importAbilityArtifacts, ImportAbilityArtifact

\* References lead somewhere, and one that was given is not taken back, though content and
\* row are written and removed apart (putArtifactWithOwner and
\* DeleteArtifact of src/internal/store/artifact.go) and
\* the reply to an upload may be lost (src/internal/pilot/artifact.go).
THEOREM ReferencesKept == ArtifactsSpec => ReferencesHold
<1>1. ArtifactInv /\ [ArtifactsNext]_artifactVars =>
        ArtifactInv' /\ [ReferencesResolve' /\ SyncedStays]_artifactVars
  BY ArtifactStep DEF ArtifactInv
<1> QED
  BY <1>1, ArtifactInitGood, PTL DEF ArtifactsSpec, ReferencesHold
-----------------------------------------------------------------------------
(* Agent Runs of a Task.                                                   *)

TaTypeOK ==
  /\ DOMAIN agent = AgentRuns /\ DOMAIN runRow = AgentRuns
  /\ \A r \in AgentRuns :
       /\ DOMAIN agent[r] = {"pc", "purpose", "exchange", "round", "used", "bad", "seen",
                             "answer", "cancelled", "result"}
       /\ agent[r].used \in Nat
  /\ \A c \in calls : DOMAIN c = {"run", "tool", "live", "step"} /\ c.run \in AgentRuns

\* A call that is waited for is the one its Run waits for.
OneLiveCall ==
  /\ \A c \in calls : c.live => agent[c.run].pc = "tool"
  /\ \A c, d \in calls : c.live /\ d.live /\ c.run = d.run => c = d

\* From the end of its exchange on, a Run that has an answer has no recorder at work.
MeteredFirst ==
  \A r \in AgentRuns :
    LET a == agent[r] IN
    /\ a.pc \in {"ended", "finish"} => a.answer = "error" \/ r \notin recorders
    /\ a.pc \in {"append", "caller", "over"} => r \notin recorders
    /\ runRow[r] = "completed" => a.pc = "over" \/ (a.pc = "append" /\ a.purpose # "execute")

\* A Run that answers an execution has gone past a look at the Execution.
ExecutionFirst ==
  /\ \A q, r \in robotExecs : q = r
  /\ \A r \in AgentRuns :
       LET a == agent[r] IN
       /\ a.pc = "finish" => a.purpose # "execute"
       /\ a.purpose = "execute" /\ (a.pc = "append" \/ a.result = "answer") => robotExecs # {}

TaInv == TaTypeOK /\ CorrectionsAreBounded /\ OneLiveCall /\ MeteredFirst /\ ExecutionFirst

LEMMA TaInitGood == TaInit => TaInv
  BY TaskAgentConstants
  DEF TaInit, TaInv, TaTypeOK, CorrectionsAreBounded, OneLiveCall, MeteredFirst, ExecutionFirst,
      NoRun

\* What the end of a call c, or of the wait for it, does to its Run.
RunGoesOn(c) ==
  /\ DOMAIN agent' = AgentRuns
  /\ \A r \in AgentRuns :
       /\ DOMAIN agent'[r] = DOMAIN agent[r]
       /\ agent'[r].used = agent[r].used
       /\ agent'[r].purpose = agent[r].purpose /\ agent'[r].result = agent[r].result
       /\ c.live /\ r = c.run => \/ agent'[r].pc \in {"ask", "drain"}
                                 \/ agent'[r].pc = "ended" /\ agent'[r].answer = "error"
       /\ ~c.live \/ r # c.run => agent'[r].pc = agent[r].pc /\ agent'[r].answer = agent[r].answer

LEMMA ResultGiven ==
  ASSUME TaTypeOK, NEW c \in calls, NEW ok, ToolResult(c, ok)
  PROVE  RunGoesOn(c)
<1> USE DEF TaTypeOK, RunGoesOn, Set
<1>1. CASE ~c.live
  BY <1>1 DEF ToolResult
<1>2. CASE c.live /\ c.tool = "robot.run"
  <2> DEFINE a == agent[c.run]
             new == [a EXCEPT !.pc = "drain", !.answer = "odd",
                              !.bad = ~ok /\ Guarded(a.purpose)]
  <2>1. c.run \in AgentRuns /\ agent' = [agent EXCEPT ![c.run] = new]
    BY <1>2 DEF ToolResult
  <2>2. DOMAIN new = DOMAIN a /\ new.pc = "drain" /\ new.used = a.used /\ new.purpose = a.purpose
        /\ new.result = a.result
    OBVIOUS
  <2> QED
    BY <1>2, <2>1, <2>2
<1>3. CASE c.live /\ c.tool # "robot.run"
  <2> DEFINE a == agent[c.run]
             new == [a EXCEPT !.pc = "ask", !.bad = ~ok /\ Guarded(a.purpose)]
  <2>1. c.run \in AgentRuns /\ agent' = [agent EXCEPT ![c.run] = new]
    <3>1. [a EXCEPT !.pc = "ask", !.answer = @, !.bad = ~ok /\ Guarded(a.purpose)] = new
      OBVIOUS
    <3> QED
      BY <1>3, <3>1 DEF ToolResult
  <2>2. DOMAIN new = DOMAIN a /\ new.pc = "ask" /\ new.used = a.used /\ new.purpose = a.purpose
        /\ new.result = a.result
    OBVIOUS
  <2> QED
    BY <1>3, <2>1, <2>2
<1> QED
  BY <1>1, <1>2, <1>3

\* What a return leaves of a Run: to its caller, or over.
LEMMA RunReturns ==
  ASSUME TaTypeOK, NEW r \in AgentRuns, NEW result, Return(r, result)
  PROVE  /\ DOMAIN agent' = AgentRuns
         /\ \A q \in AgentRuns : q # r => agent'[q] = agent[q]
         /\ DOMAIN agent'[r] = DOMAIN agent[r] /\ agent'[r].used = 0
         /\ agent'[r].pc = "over" \/ (agent'[r].pc = "caller" /\ agent'[r].purpose = "execute")
         /\ agent'[r].purpose = "execute" =>
              agent[r].purpose = "execute" /\ agent'[r].result = result
         /\ recorders' = IF result = "answer" THEN recorders ELSE recorders \ {r}
<1> USE DEF TaTypeOK, Set, NoRun
<1>1. CASE agent[r].purpose # "execute"
  BY <1>1 DEF Return
<1>2. CASE agent[r].purpose = "execute"
  BY <1>2 DEF Return
<1> QED
  BY <1>1, <1>2

LEMMA TaStep == TaInv /\ [TaNext]_taskAgentVars => TaInv'
<1> SUFFICES ASSUME TaInv, [TaNext]_taskAgentVars PROVE TaInv'
  OBVIOUS
<1> USE TaskAgentConstants
<1> USE DEF TaInv, TaTypeOK, CorrectionsAreBounded, OneLiveCall, MeteredFirst, ExecutionFirst,
            NoRun, Set, LeaveContext
<1>1. ASSUME NEW r \in AgentRuns, PlanTask(r) PROVE TaInv'
  BY <1>1 DEF PlanTask, CallAgent
<1>2. ASSUME NEW r \in AgentRuns, RecoverTask(r) PROVE TaInv'
  BY <1>2 DEF RecoverTask, CallAgent
<1>3. ASSUME NEW r \in AgentRuns, ResolveRobotAgentRequest(r) PROVE TaInv'
  BY <1>3 DEF ResolveRobotAgentRequest, CallAgent
<1>4. ASSUME NEW r \in AgentRuns, ExecuteTask(r) PROVE TaInv'
  BY <1>4 DEF ExecuteTask, CallAgent
<1>5. ASSUME NEW r \in AgentRuns, RegisterRun(r) PROVE TaInv'
  BY <1>5 DEF RegisterRun
<1>6. ASSUME NEW r \in AgentRuns, RefuseRun(r) PROVE TaInv'
  BY <1>6 DEF RefuseRun, Return
<1>7. ASSUME NEW r \in AgentRuns, PrepareContext(r) PROVE TaInv'
  BY <1>7 DEF PrepareContext
<1>8. ASSUME NEW r \in AgentRuns, PrepareFails(r) PROVE TaInv'
  BY <1>8 DEF PrepareFails, Return, Fault
<1>9. ASSUME NEW r \in AgentRuns, BeforeModelRound(r) PROVE TaInv'
  BY <1>9 DEF BeforeModelRound, CorrectionGranted, CorrectionLimit
<1>10. ASSUME NEW r \in AgentRuns, RefuseRound(r) PROVE TaInv'
  BY <1>10 DEF RefuseRound, Break
<1>11. ASSUME NEW r \in AgentRuns, ModelFails(r) PROVE TaInv'
  BY <1>11 DEF ModelFails, Break, Fault
<1>12. ASSUME NEW r \in AgentRuns, RecordStream(r) PROVE TaInv'
  BY <1>12 DEF RecordStream
<1>13. ASSUME NEW r \in AgentRuns, EndStream(r) PROVE TaInv'
  <2>1. CASE agent[r].cancelled
    <3>1. agent' = [agent EXCEPT ![r] = [agent[r] EXCEPT !.pc = "ended", !.answer = "error"]]
      BY <1>13, <2>1 DEF EndStream, Break
    <3> QED
      BY <1>13, <3>1 DEF EndStream
  <2>2. CASE ~agent[r].cancelled
    BY <1>13, <2>2 DEF EndStream, RecordersDone
  <2> QED
    BY <2>1, <2>2
<1>14. ASSUME NEW r \in AgentRuns, WaitForAnswer(r) PROVE TaInv'
  BY <1>14 DEF WaitForAnswer, Return
<1>15. ASSUME NEW r \in AgentRuns, ReviewAnswer(r) PROVE TaInv'
  BY <1>15 DEF ReviewAnswer, MayCorrect, CorrectionGranted, CorrectionLimit, NextExchange
<1>16. ASSUME NEW r \in AgentRuns, FinishRun(r) PROVE TaInv'
  BY <1>16 DEF FinishRun, Return, RunEnds
<1>17. ASSUME NEW r \in AgentRuns, ReviewExecution(r) PROVE TaInv'
  <2> DEFINE a == agent[r]
  <2>1. CASE Return(r, "error") \/ Return(r, "waiting")
    BY <1>17, <2>1, RunReturns DEF ReviewExecution
  <2>2. CASE /\ robotExecs # {} /\ Set(r, [a EXCEPT !.pc = "append"]) /\ a.answer # "error"
             /\ UNCHANGED <<activeRun, recorders>>
    BY <1>17, <2>2 DEF ReviewExecution
  <2>3. CASE /\ MayCorrect(a) /\ Set(r, NextExchange(a)) /\ UNCHANGED <<activeRun, recorders>>
    BY <1>17, <2>3
    DEF ReviewExecution, MayCorrect, CorrectionGranted, CorrectionLimit, NextExchange
  <2> QED
    BY <1>17, <2>1, <2>2, <2>3 DEF ReviewExecution
<1>18. ASSUME NEW r \in AgentRuns, AppendAnswer(r) PROVE TaInv'
  <2>1. CASE Return(r, "answer")
    BY <1>18, <2>1, RunReturns DEF AppendAnswer
  <2>2. CASE Return(r, "error")
    BY <1>18, <2>2, RunReturns DEF AppendAnswer
  <2> QED
    BY <1>18, <2>1, <2>2 DEF AppendAnswer
<1>19. ASSUME NEW r \in AgentRuns, CallerEndsRun(r) PROVE TaInv'
  BY <1>19 DEF CallerEndsRun, RunEnds
<1>20. ASSUME NEW r \in AgentRuns, CancelRunByID(r) PROVE TaInv'
  BY <1>20 DEF CancelRunByID
<1>21. ASSUME NEW r \in AgentRuns, AnswerQuestion(r) PROVE TaInv'
  BY <1>21 DEF AnswerQuestion
<1>22. ASSUME NEW r \in AgentRuns, NEW text \in {"fits", "odd"}, ModelAnswers(r, text) PROVE TaInv'
  BY <1>22 DEF ModelAnswers
<1>23. ASSUME NEW r \in AgentRuns, NEW t \in AgentTools, ModelCallsTool(r, t) PROVE TaInv'
  <2>1. \A c \in calls : c.live => c.run # r
    BY <1>23 DEF ModelCallsTool
  <2>2. /\ DOMAIN Call(r, t) = {"run", "tool", "live", "step"} /\ Call(r, t).run = r
    BY DEF Call
  <2> QED
    BY <1>23, <2>1, <2>2 DEF ModelCallsTool
<1>24. ASSUME NEW r \in AgentRuns, NEW t \in AgentTools, ToolRefused(r, t) PROVE TaInv'
  BY <1>24 DEF ToolRefused
<1>25. ASSUME NEW c \in calls, NEW ok \in BOOLEAN, ReadTool(c, ok) PROVE TaInv'
  <2>1. RunGoesOn(c)
    BY <1>25, ResultGiven DEF ReadTool
  <2> QED
    BY <1>25, <2>1 DEF ReadTool, RunGoesOn
<1>26. ASSUME NEW c \in calls, AskUser(c) PROVE TaInv'
  <2>1. RunGoesOn(c)
    BY <1>26, ResultGiven DEF AskUser
  <2> QED
    BY <1>26, <2>1 DEF AskUser, RunGoesOn, MayAsk
<1>27. ASSUME NEW c \in calls, RunFindsExecution(c) PROVE TaInv'
  <2>1. RunGoesOn(c)
    BY <1>27, ResultGiven DEF RunFindsExecution
  <2> QED
    BY <1>27, <2>1 DEF RunFindsExecution, RunGoesOn
<1>28. ASSUME NEW c \in calls, LookUpRequest(c) PROVE TaInv'
  BY <1>28 DEF LookUpRequest
<1>29. ASSUME NEW c \in calls, RunIsBusy(c) PROVE TaInv'
  <2>1. RunGoesOn(c)
    BY <1>29, ResultGiven DEF RunIsBusy
  <2> QED
    BY <1>29, <2>1 DEF RunIsBusy, RunGoesOn
<1>30. ASSUME NEW c \in calls, ValidateInput(c) PROVE TaInv'
  BY <1>30 DEF ValidateInput
<1>31. ASSUME NEW c \in calls, InputRefused(c) PROVE TaInv'
  <2>1. RunGoesOn(c)
    BY <1>31, ResultGiven DEF InputRefused
  <2> QED
    BY <1>31, <2>1 DEF InputRefused, RunGoesOn
<1>32. ASSUME NEW c \in calls, InputValid(c) PROVE TaInv'
  BY <1>32 DEF InputValid
<1>33. ASSUME NEW c \in calls, AdmitExecution(c) PROVE TaInv'
  <2>1. RunGoesOn(c)
    BY <1>33, ResultGiven DEF AdmitExecution
  <2> QED
    BY <1>33, <2>1 DEF AdmitExecution, RunGoesOn, Admitted
<1>34. ASSUME NEW c \in calls, AbandonCall(c) PROVE TaInv'
  <2>1. RunGoesOn(c) /\ c.live
    <3>1. CASE Break(c.run)
      BY <1>34, <3>1 DEF AbandonCall, Break, RunGoesOn
    <3>2. CASE c.tool = "robot.run" /\ Set(c.run, [agent[c.run] EXCEPT !.pc = "drain", !.answer = "odd"])
      BY <1>34, <3>2 DEF AbandonCall, RunGoesOn
    <3>3. CASE c.tool # "robot.run" /\ Set(c.run, [agent[c.run] EXCEPT !.pc = "ask"])
      BY <1>34, <3>3 DEF AbandonCall, RunGoesOn
    <3> QED
      BY <1>34, <3>1, <3>2, <3>3, ZenonT(40) DEF AbandonCall
  <2>2. \A x \in calls' : x \in calls \ {c} \/ (x.run = c.run /\ ~x.live /\ DOMAIN x = DOMAIN c)
    BY <1>34 DEF AbandonCall
  <2> QED
    BY <1>34, <2>1, <2>2 DEF AbandonCall, RunGoesOn
<1>35. CASE UninstallSkill
  BY <1>35 DEF UninstallSkill
<1>36. CASE RestartAgents
  BY <1>36 DEF RestartAgents, Fault
<1>37. CASE UNCHANGED taskAgentVars
  BY <1>37 DEF taskAgentVars
<1> HIDE DEF TaInv
<1> QED
  BY <1>1, <1>2, <1>3, <1>4, <1>5, <1>6, <1>7, <1>8, <1>9, <1>10, <1>11, <1>12, <1>13, <1>14,
     <1>15, <1>16, <1>17, <1>18, <1>19, <1>20, <1>21, <1>22, <1>23, <1>24, <1>25, <1>26, <1>27,
     <1>28, <1>29, <1>30, <1>31, <1>32, <1>33, <1>34, <1>35, <1>36, <1>37 DEF TaNext, RunStep,
     CallEnds

\* One Execution at most.
LEMMA OneOfThem ==
  ASSUME NEW S, \A q, r \in S : q = r
  PROVE  Cardinality(S) <= 1
<1>1. CASE S = {}
  BY <1>1, FS_EmptySet
<1>2. ASSUME NEW r \in S PROVE Cardinality(S) <= 1
  <2>1. S = {r}
    OBVIOUS
  <2> QED
    BY <2>1, FS_Singleton
<1> QED
  BY <1>1, <1>2

\* What a Run may spend, has spent and has started is accounted for, also by tools and
\* recorders that outlive it (workflow_runtime.go and contract_correction.go of
\* src/internal/agent/runtime, robot.run).
THEOREM AgentRunsAreAccounted == TaskAgentSpec => []RunsAreAccounted
<1>1. TaInv => RunsAreAccounted
  BY OneOfThem
  DEF TaInv, RunsAreAccounted, MeteredFirst, ExecutionFirst, CompletedRunIsMetered,
      AnsweredRunHasExecution
<1> QED
  BY <1>1, TaInitGood, TaStep, PTL DEF TaskAgentSpec

-----------------------------------------------------------------------------
(* The semantic map.                                                       *)

TablesTyped ==
  /\ DOMAIN mapRow = {"gen", "rev"} /\ mapRow.gen \in Generations /\ mapRow.rev \in Nat
  /\ mapGens \in [Generations -> GenerationRow \cup {NoEntry}]
  /\ mapEnts \in [Generations -> [MapEntities -> EntityRow \cup {NoEntry}]]
  /\ mapRels \in [Generations -> [MapRelations -> RelationRow \cup {NoEntry}]]
  /\ mapLinks \in [Generations -> [Things -> MapEntities \cup {NoEntry}]]

\* What a generation holds: a thing leads to an entity of its own, which is known, and an
\* entity is manual if a user set its pose.
RowsSound(ents, links) ==
  /\ \A t \in Things : links[t] # NoEntry => Known(ents, links[t])
  /\ \A s, t \in Things : links[s] # NoEntry /\ links[s] = links[t] => s = t
  /\ \A e \in MapEntities : Known(ents, e) => (ents[e].manual <=> ents[e].pose = UserPose)

\* The generations up to the open one exist, and the open one alone is open.
TablesSound ==
  /\ \A g \in 1..mapRow.gen : mapGens[g] # NoEntry
  /\ GenerationIsCurrent
  /\ \A g \in Generations : RowsSound(mapEnts[g], mapLinks[g])

\* What a request read is not newer than the map, and if it is not older either, the
\* entities it read are those of the map; both ends of what it found are known.
RequestSound(u) ==
  LET m == mapUser[u] IN
  /\ DOMAIN m = DOMAIN NoRequest
  /\ m.gen \in 1..mapRow.gen /\ m.rev \in Nat
  /\ m.pc = "commit" => m.edit \in MapEdits
  /\ m.pc \notin {"idle", "generation"} /\ m.gen = mapRow.gen => m.rev <= mapRow.rev
  /\ m.pc \in {"relations", "select", "view", "commit"} /\ m.gen = mapRow.gen /\ m.rev = mapRow.rev
       => \A e \in DOMAIN m.ents : m.ents[e] = mapEnts[m.gen][e]
  /\ m.pc = "select" => \A l \in m.rels : /\ l \in RelationRow
                                          /\ Known(mapEnts[m.gen], l[1])
                                          /\ Known(mapEnts[m.gen], l[2])
  /\ m.pc = "view" /\ ~Whole(m.query) => \A l \in m.rels : {l[1], l[2]} \subseteq DOMAIN m.ents

CheckpointSound(c) ==
  LET m == checkpoint[c] IN
  /\ DOMAIN m = DOMAIN NoCheckpoint
  /\ m.gen \in 1..mapRow.gen /\ m.rev \in Nat /\ m.changed \subseteq Things
  /\ m.pc # "idle" => m.snap \in [Things -> SimPoses]

TablesOK == TablesTyped /\ TablesSound
SmInv ==
  /\ TablesOK /\ scene \in [Things -> SimPoses]
  /\ DOMAIN mapUser = MapUsers /\ \A u \in MapUsers : RequestSound(u)
  /\ DOMAIN checkpoint = MapCheckpoints /\ \A c \in MapCheckpoints : CheckpointSound(c)

LEMMA SmInitGood == SmInit => SmInv
<1> SUFFICES ASSUME SmInit PROVE SmInv
  OBVIOUS
<1> USE SemanticMapsAssumption DEF SmInit, Generations
<1>1. TablesTyped
  BY DEF TablesTyped, GenerationRow, NoEntities
<1>2. TablesSound
  <2>1. mapGens[1] = [rev |-> 0, closed |-> FALSE] /\ mapRow.gen = 1 /\ mapRow.rev = 0
    OBVIOUS
  <2>2. [rev |-> 0, closed |-> FALSE] # NoEntry
    <3>1. [rev |-> 0, closed |-> FALSE] \in GenerationRow /\ NoEntry \notin GenerationRow
      BY DEF GenerationRow
    <3> QED
      BY <3>1
  <2>3. \A g \in Generations : RowsSound(mapEnts[g], mapLinks[g])
    BY DEF RowsSound, Known, NoEntities
  <2> QED
    <3>1. \A g \in Generations \ {1} : mapGens[g] = NoEntry
      OBVIOUS
    <3>2. GenerationIsCurrent
      BY <2>1, <3>1 DEF GenerationIsCurrent
    <3>3. \A g \in 1..mapRow.gen : mapGens[g] # NoEntry
      BY <2>1, <2>2
    <3> QED
      BY <2>3, <3>2, <3>3 DEF TablesSound
<1>3. \A u \in MapUsers : RequestSound(u)
  BY DEF RequestSound, NoRequest
<1>4. \A c \in MapCheckpoints : CheckpointSound(c)
  BY DEF CheckpointSound, NoCheckpoint
<1> QED
  BY <1>1, <1>2, <1>3, <1>4 DEF SmInv, TablesOK

\* What any step may do to the tables, as far as a reader can tell.
TablesGrow ==
  /\ mapRow'.gen \in Nat /\ mapRow'.gen >= mapRow.gen
  /\ mapRow'.gen = mapRow.gen => mapRow'.rev \in Nat /\ mapRow'.rev >= mapRow.rev
  /\ mapRow'.gen = mapRow.gen /\ mapRow'.rev = mapRow.rev => mapEnts' = mapEnts
  /\ \A g \in Generations : \A e \in MapEntities : Known(mapEnts[g], e) => Known(mapEnts'[g], e)

LEMMA RequestStays ==
  ASSUME TablesOK, NEW u, RequestSound(u), TablesGrow, UNCHANGED mapUser[u]
  PROVE  RequestSound(u)'
<1>1. mapRow.gen \in Nat /\ mapRow.rev \in Nat /\ mapRow.gen \in 1..GenerationLimit
  BY SemanticMapsAssumption DEF TablesOK, TablesTyped, Generations
<1> QED
  BY <1>1, SemanticMapsAssumption
  DEF RequestSound, TablesGrow, Generations, Whole, RelationRow

LEMMA CheckpointStays ==
  ASSUME TablesOK, NEW c, CheckpointSound(c), TablesGrow, UNCHANGED checkpoint[c]
  PROVE  CheckpointSound(c)'
<1>1. mapRow.gen \in Nat /\ mapRow.gen \in 1..GenerationLimit
  BY SemanticMapsAssumption DEF TablesOK, TablesTyped, Generations
<1> QED
  BY <1>1 DEF CheckpointSound, TablesGrow

\* The two ways a transaction changes the row of a generation.
LEMMA GenerationWritten ==
  ASSUME NEW v \in Nat, NEW c \in BOOLEAN
  PROVE  /\ [[rev |-> v, closed |-> c] EXCEPT !.rev = @ + 1] = [rev |-> v + 1, closed |-> c]
         /\ [[rev |-> v, closed |-> c] EXCEPT !.closed = TRUE] = [rev |-> v, closed |-> TRUE]
<1>1. [[rev |-> v, closed |-> c] EXCEPT !.rev = @ + 1] = [rev |-> v + 1, closed |-> c]
  <2>1. \A w : [[rev |-> v, closed |-> c] EXCEPT !.rev = w] = [rev |-> w, closed |-> c]
    OBVIOUS
  <2>2. [rev |-> v, closed |-> c].rev = v
    OBVIOUS
  <2> QED
    BY <2>1, <2>2, Zenon
<1>2. [[rev |-> v, closed |-> c] EXCEPT !.closed = TRUE] = [rev |-> v, closed |-> TRUE]
  <2>1. \A w : [[rev |-> v, closed |-> c] EXCEPT !.closed = w] = [rev |-> v, closed |-> w]
    OBVIOUS
  <2> QED
    BY <2>1, Zenon
<1> QED
  BY <1>1, <1>2

\* A transaction on the row that was read, with rows that keep what a map promises.
LEMMA UpdateGood ==
  ASSUME TablesOK, NEW m, NEW ents, NEW rels, NEW links,
         RowIsStill(m), ApplyMapUpdate(m, ents, rels, links),
         ents \in [MapEntities -> EntityRow \cup {NoEntry}],
         rels \in [MapRelations -> RelationRow \cup {NoEntry}],
         links \in [Things -> MapEntities \cup {NoEntry}],
         RowsSound(ents, links),
         \A e \in MapEntities : Known(mapEnts[m.gen], e) => Known(ents, e)
  PROVE  TablesOK' /\ TablesGrow
<1> DEFINE g == mapRow.gen
           v == mapRow.rev
<1>1. m.gen = g /\ m.rev = v /\ g \in Generations /\ g \in Nat /\ v \in Nat
  BY DEF TablesOK, TablesTyped, RowIsStill, Row, Generations
<1>2. /\ mapRow' = [mapRow EXCEPT !.rev = v + 1]
      /\ DOMAIN mapRow' = {"gen", "rev"} /\ mapRow'.gen = g /\ mapRow'.rev = v + 1
  BY DEF ApplyMapUpdate, TablesOK, TablesTyped
<1>3. mapGens' = [mapGens EXCEPT ![g] = [rev |-> v + 1, closed |-> FALSE]]
  <2>1. mapGens[g] = [rev |-> v, closed |-> FALSE]
    BY DEF TablesOK, TablesSound, GenerationIsCurrent
  <2>2. [[rev |-> v, closed |-> FALSE] EXCEPT !.rev = @ + 1] = [rev |-> v + 1, closed |-> FALSE]
    BY <1>1, GenerationWritten
  <2> QED
    BY <1>1, <2>1, <2>2 DEF ApplyMapUpdate
<1>4. [rev |-> v + 1, closed |-> FALSE] \in GenerationRow
  BY <1>1 DEF GenerationRow
<1>g. /\ mapGens \in [Generations -> GenerationRow \cup {NoEntry}]
      /\ \A i \in 1..g : i \in Generations /\ mapGens[i] # NoEntry
  BY <1>1, SemanticMapsAssumption DEF TablesOK, TablesTyped, TablesSound, Generations
<1>5. TablesTyped'
  <2>1. mapGens' \in [Generations -> GenerationRow \cup {NoEntry}]
    BY <1>g, <1>1, <1>3, <1>4
  <2>2. /\ mapEnts' \in [Generations -> [MapEntities -> EntityRow \cup {NoEntry}]]
        /\ mapRels' \in [Generations -> [MapRelations -> RelationRow \cup {NoEntry}]]
        /\ mapLinks' \in [Generations -> [Things -> MapEntities \cup {NoEntry}]]
    BY <1>1 DEF TablesOK, TablesTyped, ApplyMapUpdate
  <2> QED
    BY <1>1, <1>2, <2>1, <2>2 DEF TablesTyped
<1>6. GenerationIsCurrent'
  BY <1>1, <1>2, <1>3 DEF TablesOK, TablesTyped, TablesSound, GenerationIsCurrent
<1>7. \A i \in 1..mapRow'.gen : mapGens'[i] # NoEntry
  BY <1>1, <1>2, <1>3, <1>4, <1>g, SemanticMapsAssumption
<1>8. /\ mapEnts' = [mapEnts EXCEPT ![g] = ents] /\ mapLinks' = [mapLinks EXCEPT ![g] = links]
  BY <1>1 DEF ApplyMapUpdate
<1>9. \A i \in Generations : RowsSound(mapEnts'[i], mapLinks'[i])
  <2> TAKE i \in Generations
  <2>1. CASE i = g
    <3>1. mapEnts'[i] = ents /\ mapLinks'[i] = links
      BY <1>8, <2>1, <1>1 DEF TablesOK, TablesTyped
    <3> QED
      BY <3>1
  <2>2. CASE i # g
    <3>1. mapEnts'[i] = mapEnts[i] /\ mapLinks'[i] = mapLinks[i]
      BY <1>8, <2>2, <1>1 DEF TablesOK, TablesTyped
    <3> QED
      BY <3>1 DEF TablesOK, TablesSound
  <2> QED
    BY <2>1, <2>2
<1>10. TablesGrow
  BY <1>1, <1>2, <1>8 DEF TablesGrow, TablesOK, TablesTyped, Known
<1> QED
  BY <1>5, <1>6, <1>7, <1>9, <1>10 DEF TablesOK, TablesSound

\* A generation is opened after the open one, whatever generation was read.
LEMMA OpeningGood ==
  ASSUME TablesOK, NEW m, m.gen \in 1..mapRow.gen, m.gen < GenerationLimit,
         MayOpen(m), CreateMapGeneration(m)
  PROVE  TablesOK' /\ TablesGrow
<1> DEFINE g == mapRow.gen
<1>1. g \in Generations /\ g \in Nat /\ mapRow.rev \in Nat /\ m.gen \in Nat
  BY DEF TablesOK, TablesTyped, Generations
<1>2. m.gen = g
  BY <1>1 DEF TablesOK, TablesSound, MayOpen, GenerationTaken
<1>3. g + 1 \in Generations
  BY <1>1, <1>2, SemanticMapsAssumption DEF Generations
<1>4. mapRow' = [gen |-> g + 1, rev |-> 0]
  BY DEF CreateMapGeneration
<1>5. DOMAIN mapRow' = {"gen", "rev"} /\ mapRow'.gen = g + 1 /\ mapRow'.rev = 0
  BY <1>4
<1>6. PICK old \in GenerationRow :
        /\ old.closed
        /\ mapGens' = [mapGens EXCEPT ![g] = old, ![g + 1] = [rev |-> 0, closed |-> FALSE]]
  <2>1. mapGens[g] = [rev |-> mapRow.rev, closed |-> FALSE]
    BY DEF TablesOK, TablesSound, GenerationIsCurrent
  <2>2. [[rev |-> mapRow.rev, closed |-> FALSE] EXCEPT !.closed = TRUE]
          = [rev |-> mapRow.rev, closed |-> TRUE]
    BY <1>1, GenerationWritten
  <2>3. mapGens' = [mapGens EXCEPT ![g] = [rev |-> mapRow.rev, closed |-> TRUE],
                                   ![g + 1] = [rev |-> 0, closed |-> FALSE]]
    BY <1>1, <1>2, <2>1, <2>2 DEF CreateMapGeneration
  <2>4. [rev |-> mapRow.rev, closed |-> TRUE] \in GenerationRow
    BY <1>1 DEF GenerationRow
  <2> QED
    BY <2>3, <2>4
<1>7. [rev |-> 0, closed |-> FALSE] \in GenerationRow
  BY DEF GenerationRow
<1>8. UNCHANGED <<mapEnts, mapRels, mapLinks>>
  BY DEF CreateMapGeneration
<1>g. /\ mapGens \in [Generations -> GenerationRow \cup {NoEntry}]
      /\ \A i \in 1..g : i \in Generations /\ mapGens[i] # NoEntry
  BY <1>1, SemanticMapsAssumption DEF TablesOK, TablesTyped, TablesSound, Generations
<1>9. TablesTyped'
  <2>1. mapGens' \in [Generations -> GenerationRow \cup {NoEntry}]
    BY <1>g, <1>1, <1>3, <1>6, <1>7
  <2> QED
    BY <1>3, <1>5, <1>8, <2>1 DEF TablesOK, TablesTyped
<1>10. GenerationIsCurrent'
  BY <1>1, <1>3, <1>5, <1>6 DEF TablesOK, TablesTyped, TablesSound, GenerationIsCurrent
<1>11. \A i \in 1..mapRow'.gen : mapGens'[i] # NoEntry
  <2>1. old # NoEntry /\ [rev |-> 0, closed |-> FALSE] # NoEntry
    BY <1>7, SemanticMapsAssumption
  <2>2. \A i \in 1..g + 1 : i = g + 1 \/ i = g \/ i \in 1..g
    BY <1>1
  <2> QED
    BY <1>1, <1>3, <1>5, <1>6, <1>g, <2>1, <2>2
<1>12. TablesGrow
  BY <1>1, <1>5, <1>8 DEF TablesGrow
<1> QED
  BY <1>8, <1>9, <1>10, <1>11, <1>12 DEF TablesOK, TablesSound

-----------------------------------------------------------------------------
(* What is written keeps the rows sound.                                   *)

EntityTable == [MapEntities -> EntityRow \cup {NoEntry}]

LEMMA RemovedRow ==
  ASSUME NEW a \in EntityRow
  PROVE  /\ [a EXCEPT !.status = "removed"] \in EntityRow
         /\ [a EXCEPT !.status = "removed"].manual = a.manual
         /\ [a EXCEPT !.status = "removed"].pose = a.pose
<1>1. PICK p \in SimPoses \cup {UserPose}, t \in Things \cup {NoEntry}, b \in BOOLEAN, st \in EntityStatus :
        a = [status |-> st, pose |-> p, source |-> t, manual |-> b]
  BY DEF EntityRow
<1>2. [[status |-> st, pose |-> p, source |-> t, manual |-> b] EXCEPT !.status = "removed"]
        = [status |-> "removed", pose |-> p, source |-> t, manual |-> b]
  OBVIOUS
<1>3. [a EXCEPT !.status = "removed"] = [status |-> "removed", pose |-> p, source |-> t, manual |-> b]
  BY <1>1, <1>2, Zenon
<1>4. [status |-> "removed", pose |-> p, source |-> t, manual |-> b] \in EntityRow
  BY DEF EntityRow, EntityStatus
<1> QED
  BY <1>1, <1>3, <1>4

\* A row of the kind somebody writes.
LEMMA WrittenRow ==
  ASSUME NEW st \in EntityStatus, NEW p \in SimPoses \cup {UserPose},
         NEW t \in Things \cup {NoEntry}
  PROVE  /\ AnEntity(st, p, t, TRUE) \in EntityRow /\ AnEntity(st, p, t, TRUE).manual
         /\ AnEntity(st, p, t, TRUE).pose = p
         /\ AnEntity(st, p, t, FALSE) \in EntityRow /\ ~AnEntity(st, p, t, FALSE).manual
         /\ AnEntity(st, p, t, FALSE).pose = p
  BY DEF AnEntity, EntityRow

LEMMA EditSound ==
  ASSUME NEW ents \in EntityTable, NEW rels, NEW links, NEW edit \in MapEdits,
         rels \in [MapRelations -> RelationRow \cup {NoEntry}],
         links \in [Things -> MapEntities \cup {NoEntry}],
         RowsSound(ents, links), EditFits(ents, edit)
  PROVE  /\ EditedEntities(ents, edit) \in EntityTable
         /\ EditedRelations(rels, edit) \in [MapRelations -> RelationRow \cup {NoEntry}]
         /\ RowsSound(EditedEntities(ents, edit), links)
         /\ \A e \in MapEntities : Known(ents, e) => Known(EditedEntities(ents, edit), e)
<1>1. /\ edit.put \subseteq MapEntities /\ edit.status \in EntityStatus
      /\ edit.drop \subseteq MapEntities
      /\ edit.link \subseteq MapRelations \X MapEntities \X MapEntities
  BY SemanticMapsAssumption
<1> DEFINE A == AfterPut(ents, edit)
           B == EditedEntities(ents, edit)
<1>2. \A e \in MapEntities : SourceKept(ents[e], edit) \in Things \cup {NoEntry}
  BY DEF SourceKept, EntityTable, EntityRow
<1>3. ASSUME NEW e \in MapEntities
      PROVE  /\ A[e] \in EntityRow \cup {NoEntry}
             /\ Known(ents, e) => Known(A, e)
             /\ Known(A, e) => (A[e].manual <=> A[e].pose = UserPose)
  <2>1. CASE e \in edit.put
    <3>1. A[e] = AnEntity(edit.status, UserPose, SourceKept(ents[e], edit), TRUE)
      BY <2>1 DEF AfterPut
    <3> QED
      <4>1. /\ A[e] \in EntityRow /\ A[e].manual /\ A[e].pose = UserPose
        <5>1. /\ edit.status \in EntityStatus /\ UserPose \in SimPoses \cup {UserPose}
              /\ SourceKept(ents[e], edit) \in Things \cup {NoEntry}
          BY <1>1, <1>2
        <5> DEFINE a == AnEntity(edit.status, UserPose, SourceKept(ents[e], edit), TRUE)
        <5>2. a \in EntityRow /\ a.manual /\ a.pose = UserPose
          BY <5>1, WrittenRow, Zenon
        <5>3. A[e] = a
          BY <3>1
        <5> HIDE DEF A, a
        <5> QED
          BY <5>2, <5>3, Zenon
      <4> QED
        BY <4>1, SemanticMapsAssumption DEF Known
  <2>2. CASE e \notin edit.put
    <3>1. A[e] = ents[e]
      BY <2>2 DEF AfterPut
    <3> QED
      BY <3>1 DEF Known, RowsSound, EntityTable
  <2> QED
    BY <2>1, <2>2
<1>4. ASSUME NEW e \in MapEntities
      PROVE  /\ B[e] \in EntityRow \cup {NoEntry}
             /\ Known(ents, e) => Known(B, e)
             /\ Known(B, e) => (B[e].manual <=> B[e].pose = UserPose)
  <2>1. CASE e \in edit.drop
    <3>1. B[e] = [A[e] EXCEPT !.status = "removed"]
      BY <2>1 DEF EditedEntities, AfterDrop
    <3>2. A[e] \in EntityRow /\ (A[e].manual <=> A[e].pose = UserPose)
      BY <1>3, <2>1 DEF EditFits, Known
    <3> HIDE DEF A, B
    <3> QED
      BY <3>1, <3>2, RemovedRow, SemanticMapsAssumption DEF Known
  <2>2. CASE e \notin edit.drop
    <3>1. B[e] = A[e]
      BY <2>2 DEF EditedEntities, AfterDrop
    <3> QED
      BY <3>1, <1>3 DEF Known
  <2> QED
    BY <2>1, <2>2
<1>5. B \in EntityTable
  BY <1>4 DEF EditedEntities, AfterDrop, EntityTable
<1>6. RowsSound(B, links)
  BY <1>4 DEF RowsSound
<1>7. EditedRelations(rels, edit) \in [MapRelations -> RelationRow \cup {NoEntry}]
  <2> SUFFICES ASSUME NEW r \in MapRelations, \E l \in edit.link : l[1] = r
               PROVE  LET l == CHOOSE l \in edit.link : l[1] = r
                      IN <<l[2], l[3]>> \in RelationRow
    BY DEF EditedRelations
  <2>1. (CHOOSE l \in edit.link : l[1] = r) \in MapRelations \X MapEntities \X MapEntities
    BY <1>1
  <2> QED
    BY <2>1 DEF RelationRow
<1> QED
  BY <1>4, <1>5, <1>6, <1>7

LEMMA SnapshotSound ==
  ASSUME NEW ents \in EntityTable, NEW links, NEW new, NEW changed \in SUBSET Things,
         NEW snap \in [Things -> SimPoses],
         links \in [Things -> MapEntities \cup {NoEntry}],
         RowsSound(ents, links), new \in LinksWith(links, ents, changed)
  PROVE  /\ SimulatedEntities(ents, new, changed, snap) \in EntityTable
         /\ new \in [Things -> MapEntities \cup {NoEntry}]
         /\ RowsSound(SimulatedEntities(ents, new, changed, snap), new)
         /\ \A e \in MapEntities :
              Known(ents, e) => Known(SimulatedEntities(ents, new, changed, snap), e)
<1> DEFINE B == SimulatedEntities(ents, new, changed, snap)
<1>1. /\ new \in [Things -> MapEntities \cup {NoEntry}]
      /\ \A t \in Things : IF t \notin changed \/ links[t] # NoEntry THEN new[t] = links[t]
                           ELSE new[t] # NoEntry /\ ~Known(ents, new[t])
      /\ \A s, t \in changed : s # t => new[s] # new[t]
  BY DEF LinksWith
<1>2. ASSUME NEW e \in MapEntities
      PROVE  /\ B[e] \in EntityRow \cup {NoEntry}
             /\ Known(ents, e) => Known(B, e)
             /\ Known(B, e) => (B[e].manual <=> B[e].pose = UserPose)
             /\ (\E t \in changed : new[t] = e) => Known(B, e)
  <2>1. CASE \E t \in changed : new[t] = e
    <3>1. PICK t \in changed : B[e] = preserveManual(ents[e], AnEntity("active", snap[t], t, FALSE))
      BY <2>1 DEF SimulatedEntities
    <3> DEFINE a == AnEntity("active", snap[t], t, FALSE)
    <3>2. a \in EntityRow /\ ~a.manual /\ a.pose \in SimPoses
      <4>1. /\ "active" \in EntityStatus /\ snap[t] \in SimPoses \cup {UserPose}
            /\ t \in Things \cup {NoEntry} /\ snap[t] \in SimPoses
        BY DEF EntityStatus
      <4>2. a \in EntityRow /\ ~a.manual /\ a.pose = snap[t]
        BY <4>1, WrittenRow, Zenon
      <4> QED
        BY <4>1, <4>2, SemanticMapsAssumption
    <3>3. CASE B[e] = ents[e] /\ ents[e] # NoEntry
      BY <3>3 DEF Known, RowsSound, EntityTable
    <3>4. CASE B[e] = a
      <4> HIDE DEF a, B
      <4> QED
        BY <3>2, <3>4, SemanticMapsAssumption DEF Known
    <3> QED
      BY <3>1, <3>3, <3>4 DEF preserveManual
  <2>2. CASE ~\E t \in changed : new[t] = e
    <3>1. B[e] = ents[e]
      BY <2>2 DEF SimulatedEntities
    <3> QED
      BY <2>2, <3>1 DEF Known, RowsSound, EntityTable
  <2> QED
    BY <2>1, <2>2
<1>3. B \in EntityTable
  BY <1>2 DEF SimulatedEntities, EntityTable
<1>4. \A t \in Things : new[t] # NoEntry => Known(B, new[t])
  BY <1>1, <1>2 DEF RowsSound
<1>5. \A s, t \in Things : new[s] # NoEntry /\ new[s] = new[t] => s = t
  BY <1>1 DEF RowsSound
<1> QED
  BY <1>1, <1>2, <1>3, <1>4, <1>5 DEF RowsSound

-----------------------------------------------------------------------------
(* The steps.                                                              *)

LEMMA TablesStand ==
  ASSUME TablesOK, UNCHANGED mapTables
  PROVE  TablesOK' /\ TablesGrow
<1>1. TablesOK'
  BY DEF TablesOK, TablesTyped, TablesSound, GenerationIsCurrent, mapTables
<1>2. TablesGrow
  BY DEF TablesOK, TablesTyped, TablesGrow, mapTables, Generations
<1> QED
  BY <1>1, <1>2

\* A request moves on, and if it was about to commit, the row was as it had been read.
LEMMA RequestMoves ==
  ASSUME SmInv, NEW u \in MapUsers, NEW new, ToUser(u, new), TablesOK', TablesGrow,
         UNCHANGED <<scene, checkpoint>>, RequestSound(u)',
         mapUser[u].pc = "commit" => mapRow' = mapRow \/ RowIsStill(mapUser[u])
  PROVE  SmInv' /\ EditIsOnWhatWasSeen
<1>1. /\ DOMAIN mapUser' = MapUsers
      /\ \A v \in MapUsers \ {u} : UNCHANGED mapUser[v]
  BY DEF ToUser, SmInv
<1>2. \A v \in MapUsers : RequestSound(v)'
  BY <1>1, RequestStays DEF SmInv
<1>3. \A c \in MapCheckpoints : CheckpointSound(c)'
  BY CheckpointStays DEF SmInv
<1>4. EditIsOnWhatWasSeen
  BY <1>1 DEF EditIsOnWhatWasSeen, SmInv, RequestSound, RowIsStill, Row
<1> QED
  BY <1>1, <1>2, <1>3, <1>4 DEF SmInv

LEMMA CheckpointMoves ==
  ASSUME SmInv, NEW c \in MapCheckpoints, NEW new, ToCheckpoint(c, new), TablesOK', TablesGrow,
         UNCHANGED <<scene, mapUser>>, CheckpointSound(c)'
  PROVE  SmInv' /\ EditIsOnWhatWasSeen
<1>1. /\ DOMAIN checkpoint' = MapCheckpoints
      /\ \A d \in MapCheckpoints \ {c} : UNCHANGED checkpoint[d]
  BY DEF ToCheckpoint, SmInv
<1>2. \A v \in MapUsers : RequestSound(v)'
  BY RequestStays DEF SmInv
<1>3. \A d \in MapCheckpoints : CheckpointSound(d)'
  BY <1>1, CheckpointStays DEF SmInv
<1>4. EditIsOnWhatWasSeen
  BY DEF EditIsOnWhatWasSeen
<1> QED
  BY <1>1, <1>2, <1>3, <1>4 DEF SmInv

\* A request that ends, and a checkpoint that does.
LEMMA IdleIsSound ==
  ASSUME TablesOK'
  PROVE  /\ \A u : mapUser'[u] = NoRequest => RequestSound(u)'
         /\ \A c : checkpoint'[c] = NoCheckpoint => CheckpointSound(c)'
<1>1. 1 \in 1..mapRow'.gen
  BY DEF TablesOK, TablesTyped, Generations
<1>2. ASSUME NEW u, mapUser'[u] = NoRequest PROVE RequestSound(u)'
  BY <1>1, <1>2 DEF RequestSound, NoRequest
<1>3. ASSUME NEW c, checkpoint'[c] = NoCheckpoint PROVE CheckpointSound(c)'
  BY <1>1, <1>3 DEF CheckpointSound, NoCheckpoint
<1> QED
  BY <1>2, <1>3

LEMMA MapUserStepGood ==
  ASSUME SmInv, NEW u \in MapUsers, MapUserStep(u)
  PROVE  SmInv' /\ EditIsOnWhatWasSeen
<1> DEFINE m == mapUser[u]
<1> USE DEF Row
<1>1. /\ TablesOK /\ RequestSound(u) /\ mapRow.gen \in Generations /\ mapRow.gen \in Nat
      /\ mapRow.rev \in Nat /\ DOMAIN mapUser = MapUsers
      /\ DOMAIN NoRequest = {"pc", "query", "gen", "rev", "ents", "rels", "edit"}
  BY DEF SmInv, TablesOK, TablesTyped, Generations, NoRequest
<1>2. UNCHANGED mapTables => TablesOK' /\ TablesGrow
  BY <1>1, TablesStand
<1>3. ASSUME ToUser(u, NoRequest), UNCHANGED mapTables, UNCHANGED <<scene, checkpoint>>
      PROVE  SmInv' /\ EditIsOnWhatWasSeen
  <2>1. mapUser'[u] = NoRequest
    BY <1>1, <1>3 DEF ToUser
  <2>2. RequestSound(u)'
    BY <1>2, <1>3, <2>1, IdleIsSound
  <2> QED
    BY <1>2, <1>3, <2>2, RequestMoves DEF mapTables
<1>4. ASSUME NEW new, ToUser(u, new), UNCHANGED mapTables, UNCHANGED <<scene, checkpoint>>,
             RequestSound(u)'
      PROVE  SmInv' /\ EditIsOnWhatWasSeen
  BY <1>2, <1>4, RequestMoves DEF mapTables
<1>5. ASSUME NEW q \in MapQueries, OpenMap(u, q) PROVE SmInv' /\ EditIsOnWhatWasSeen
  <2>1. mapUser'[u] = [NoRequest EXCEPT !.pc = "generation", !.query = q, !.gen = mapRow.gen]
    BY <1>1, <1>5 DEF OpenMap, ToUser
  <2>2. RequestSound(u)'
    BY <1>1, <1>5, <2>1 DEF OpenMap, RequestSound, mapTables, NoRequest
  <2> QED
    BY <1>4, <1>5, <2>2 DEF OpenMap
<1>6. ASSUME ReadGeneration(u) PROVE SmInv' /\ EditIsOnWhatWasSeen
  <2>1. mapUser'[u] = [m EXCEPT !.pc = "entities", !.rev = mapGens[m.gen].rev]
    BY <1>1, <1>6 DEF ReadGeneration, ToUser
  <2>2. mapGens[m.gen].rev \in Nat /\ (m.gen = mapRow.gen => mapGens[m.gen].rev = mapRow.rev)
    <3>1. m.gen \in Generations /\ mapGens[m.gen] \in GenerationRow
      BY <1>1, SemanticMapsAssumption
      DEF TablesOK, TablesTyped, TablesSound, RequestSound, Generations
    <3> QED
      BY <3>1, <1>1 DEF GenerationRow, TablesOK, TablesSound, GenerationIsCurrent
  <2>3. RequestSound(u)'
    BY <1>1, <1>6, <2>1, <2>2 DEF ReadGeneration, RequestSound, mapTables
  <2> QED
    BY <1>4, <1>6, <2>3 DEF ReadGeneration
<1>7. ASSUME ReadEntities(u) PROVE SmInv' /\ EditIsOnWhatWasSeen
  <2> DEFINE found == FoundEntities(m.query, mapEnts[m.gen])
  <2>1. mapUser'[u] = [m EXCEPT !.pc = "relations", !.ents = [e \in found |-> mapEnts[m.gen][e]]]
    BY <1>1, <1>7 DEF ReadEntities, ToUser
  <2>2. RequestSound(u)'
    <3> HIDE DEF found
    <3> QED
      BY <1>1, <1>7, <2>1 DEF ReadEntities, RequestSound, mapTables
  <2> QED
    BY <1>4, <1>7, <2>2 DEF ReadEntities
<1>8. ASSUME ReadRelations(u) PROVE SmInv' /\ EditIsOnWhatWasSeen
  <2>1. \A l \in queryMapRelations(m.gen) :
          l \in RelationRow /\ Known(mapEnts[m.gen], l[1]) /\ Known(mapEnts[m.gen], l[2])
    <3>1. m.gen \in Generations
      BY <1>1, SemanticMapsAssumption DEF RequestSound, Generations
    <3>2. mapRels[m.gen] \in [MapRelations -> RelationRow \cup {NoEntry}]
      BY <1>1, <3>1 DEF TablesOK, TablesTyped
    <3> QED
      BY <3>2 DEF queryMapRelations, Live
  <2>2. PICK rels, to : /\ mapUser'[u] = [m EXCEPT !.pc = to, !.rels = rels]
                        /\ ToUser(u, [m EXCEPT !.pc = to, !.rels = rels])
                        /\ rels \subseteq queryMapRelations(m.gen)
                        /\ to \in {"view", "select"} /\ (to = "view" => Whole(m.query))
    <3>1. CASE Whole(m.query)
      BY <1>1, <1>8, <3>1 DEF ReadRelations, ToUser
    <3>2. CASE ~Whole(m.query)
      <4> DEFINE some == {l \in queryMapRelations(m.gen) :
                            ByRelation(m.query) => l[1] = m.query.subject}
      <4>1. mapUser'[u] = [m EXCEPT !.pc = "select", !.rels = some]
            /\ ToUser(u, [m EXCEPT !.pc = "select", !.rels = some])
            /\ some \subseteq queryMapRelations(m.gen)
        BY <1>1, <1>8, <3>2 DEF ReadRelations, ToUser
      <4> HIDE DEF some
      <4> QED
        BY <4>1
    <3> QED
      BY <3>1, <3>2
  <2>3. RequestSound(u)'
    BY <1>1, <1>8, <2>1, <2>2 DEF ReadRelations, RequestSound, mapTables
  <2> QED
    BY <1>4, <1>8, <2>2, <2>3 DEF ReadRelations
<1>9. ASSUME SelectSubset(u) PROVE SmInv' /\ EditIsOnWhatWasSeen
  <2>1. PICK found, rels :
          /\ rels \in Clip(m.rels, m.query.limit)
          /\ ToUser(u, [m EXCEPT !.pc = "view", !.rels = Kept(m.query, found, rels),
                !.ents = [e \in {x \in Shown(m.query, found, rels) : Known(mapEnts[m.gen], x)}
                            |-> mapEnts[m.gen][e]]])
    BY <1>9 DEF SelectSubset
  <2> DEFINE kept == Kept(m.query, found, rels)
             shown == {x \in Shown(m.query, found, rels) : Known(mapEnts[m.gen], x)}
             ents == [e \in shown |-> mapEnts[m.gen][e]]
  <2>2. mapUser'[u] = [m EXCEPT !.pc = "view", !.rels = kept, !.ents = ents]
    BY <1>1, <2>1 DEF ToUser
  <2>3. \A l \in kept : {l[1], l[2]} \subseteq shown
    <3>1. kept \subseteq m.rels
      BY <2>1 DEF Clip, Kept, NextTo
    <3>2. \A l \in kept : Known(mapEnts[m.gen], l[1]) /\ Known(mapEnts[m.gen], l[2])
      BY <1>1, <1>9, <3>1 DEF SelectSubset, RequestSound
    <3>3. \A l \in kept : {l[1], l[2]} \subseteq Shown(m.query, found, rels)
      BY DEF Shown, Ends
    <3> QED
      BY <3>2, <3>3
  <2>4. DOMAIN ents = shown /\ \A e \in shown : ents[e] = mapEnts[m.gen][e]
    OBVIOUS
  <2>5. RequestSound(u)'
    <3> HIDE DEF kept, shown, ents
    <3> QED
      BY <1>1, <1>9, <2>2, <2>3, <2>4 DEF SelectSubset, RequestSound, mapTables
  <2> QED
    BY <1>4, <1>9, <2>1, <2>5 DEF SelectSubset
<1>10. ASSUME CloseView(u) PROVE SmInv' /\ EditIsOnWhatWasSeen
  BY <1>3, <1>10 DEF CloseView
<1>11. ASSUME NEW edit \in MapEdits, HandleUpdateSemanticMap(u, edit)
       PROVE  SmInv' /\ EditIsOnWhatWasSeen
  <2>1. CASE RowIsStill(m)
    <3>1. ToUser(u, [m EXCEPT !.pc = "commit", !.edit = edit])
      BY <1>11, <2>1 DEF HandleUpdateSemanticMap
    <3>2. mapUser'[u] = [m EXCEPT !.pc = "commit", !.edit = edit]
      BY <1>1, <3>1 DEF ToUser
    <3>3. RequestSound(u)'
      BY <1>1, <1>11, <3>2 DEF HandleUpdateSemanticMap, RequestSound, mapTables
    <3> QED
      BY <1>4, <1>11, <3>1, <3>3 DEF HandleUpdateSemanticMap
  <2>2. CASE ~RowIsStill(m)
    BY <1>3, <1>11, <2>2 DEF HandleUpdateSemanticMap
  <2> QED
    BY <2>1, <2>2
<1>12. ASSUME CommitEdit(u) PROVE SmInv' /\ EditIsOnWhatWasSeen
  <2>1. CASE RowIsStill(m) /\ EditFits(mapEnts[m.gen], m.edit)
    <3>1. m.gen = mapRow.gen /\ m.edit \in MapEdits
      BY <1>1, <1>12, <2>1 DEF CommitEdit, RowIsStill, RequestSound
    <3>2. /\ mapEnts[m.gen] \in EntityTable
          /\ mapRels[m.gen] \in [MapRelations -> RelationRow \cup {NoEntry}]
          /\ mapLinks[m.gen] \in [Things -> MapEntities \cup {NoEntry}]
          /\ RowsSound(mapEnts[m.gen], mapLinks[m.gen])
      BY <1>1, <3>1 DEF TablesOK, TablesTyped, TablesSound, EntityTable
    <3>3. /\ ApplyMapUpdate(m, EditedEntities(mapEnts[m.gen], m.edit),
                            EditedRelations(mapRels[m.gen], m.edit), mapLinks[m.gen])
          /\ ToUser(u, NoRequest)
      BY <1>12, <2>1 DEF CommitEdit
    <3>4. TablesOK' /\ TablesGrow
      <4> DEFINE ents == EditedEntities(mapEnts[m.gen], m.edit)
                 rels == EditedRelations(mapRels[m.gen], m.edit)
      <4>1. /\ ents \in EntityTable /\ rels \in [MapRelations -> RelationRow \cup {NoEntry}]
            /\ RowsSound(ents, mapLinks[m.gen])
            /\ \A e \in MapEntities : Known(mapEnts[m.gen], e) => Known(ents, e)
        BY <2>1, <3>1, <3>2, EditSound
      <4>2. ApplyMapUpdate(m, ents, rels, mapLinks[m.gen])
        BY <3>3
      <4> HIDE DEF ents, rels
      <4> QED
        BY <1>1, <2>1, <3>2, <4>1, <4>2, UpdateGood DEF EntityTable
    <3>5. mapUser'[u] = NoRequest
      BY <1>1, <3>3 DEF ToUser
    <3> QED
      BY <1>12, <2>1, <3>3, <3>4, <3>5, IdleIsSound, RequestMoves DEF CommitEdit
  <2>2. CASE ~(RowIsStill(m) /\ EditFits(mapEnts[m.gen], m.edit))
    BY <1>3, <1>12, <2>2 DEF CommitEdit
  <2> QED
    BY <2>1, <2>2
<1>13. ASSUME HandleCreateMapGeneration(u) PROVE SmInv' /\ EditIsOnWhatWasSeen
  <2>1. CASE mapRow.rev = m.rev
    <3>1. ToUser(u, [m EXCEPT !.pc = "open", !.gen = mapRow.gen])
      BY <1>13, <2>1 DEF HandleCreateMapGeneration
    <3>2. mapUser'[u] = [m EXCEPT !.pc = "open", !.gen = mapRow.gen]
      BY <1>1, <3>1 DEF ToUser
    <3>3. RequestSound(u)'
      BY <1>1, <1>13, <2>1, <3>2 DEF HandleCreateMapGeneration, RequestSound, mapTables
    <3> QED
      BY <1>4, <1>13, <3>1, <3>3 DEF HandleCreateMapGeneration
  <2>2. CASE mapRow.rev # m.rev
    BY <1>3, <1>13, <2>2 DEF HandleCreateMapGeneration
  <2> QED
    BY <2>1, <2>2
<1>14. ASSUME CommitGeneration(u) PROVE SmInv' /\ EditIsOnWhatWasSeen
  <2>1. CASE MayOpen(m)
    <3>1. CreateMapGeneration(m) /\ ToUser(u, NoRequest) /\ m.gen < GenerationLimit
      BY <1>14, <2>1 DEF CommitGeneration
    <3>2. TablesOK' /\ TablesGrow
      BY <1>1, <2>1, <3>1, OpeningGood DEF RequestSound
    <3>3. mapUser'[u] = NoRequest
      BY <1>1, <3>1 DEF ToUser
    <3> QED
      BY <1>14, <3>1, <3>2, <3>3, IdleIsSound, RequestMoves DEF CommitGeneration
  <2>2. CASE ~MayOpen(m)
    BY <1>3, <1>14, <2>2 DEF CommitGeneration
  <2> QED
    BY <2>1, <2>2
<1> QED
  BY <1>5, <1>6, <1>7, <1>8, <1>9, <1>10, <1>11, <1>12, <1>13, <1>14 DEF MapUserStep

LEMMA CheckpointStepGood ==
  ASSUME SmInv, NEW c \in MapCheckpoints, CheckpointStep(c)
  PROVE  SmInv' /\ EditIsOnWhatWasSeen
<1> DEFINE m == checkpoint[c]
<1>1. /\ TablesOK /\ CheckpointSound(c) /\ mapRow.gen \in Generations /\ mapRow.gen \in Nat
      /\ mapRow.rev \in Nat /\ DOMAIN checkpoint = MapCheckpoints
      /\ DOMAIN NoCheckpoint = {"pc", "snap", "new", "gen", "rev", "changed"}
      /\ scene \in [Things -> SimPoses]
  BY DEF SmInv, TablesOK, TablesTyped, Generations, NoCheckpoint
<1>2. UNCHANGED mapTables => TablesOK' /\ TablesGrow
  BY <1>1, TablesStand
<1>3. ASSUME ToCheckpoint(c, NoCheckpoint), UNCHANGED mapTables, UNCHANGED <<scene, mapUser>>
      PROVE  SmInv' /\ EditIsOnWhatWasSeen
  <2>1. checkpoint'[c] = NoCheckpoint
    BY <1>1, <1>3 DEF ToCheckpoint
  <2>2. CheckpointSound(c)'
    BY <1>2, <1>3, <2>1, IdleIsSound
  <2> QED
    BY <1>2, <1>3, <2>2, CheckpointMoves
<1>4. ASSUME NEW new, ToCheckpoint(c, new), UNCHANGED mapTables, UNCHANGED <<scene, mapUser>>,
             CheckpointSound(c)'
      PROVE  SmInv' /\ EditIsOnWhatWasSeen
  BY <1>2, <1>4, CheckpointMoves
<1>5. ASSUME NEW new \in BOOLEAN, TakeSnapshot(c, new) PROVE SmInv' /\ EditIsOnWhatWasSeen
  <2>1. checkpoint'[c] = [NoCheckpoint EXCEPT !.pc = "row", !.snap = scene, !.new = new]
    BY <1>1, <1>5 DEF TakeSnapshot, ToCheckpoint
  <2>2. CheckpointSound(c)'
    BY <1>1, <1>5, <2>1 DEF TakeSnapshot, CheckpointSound, mapTables, NoCheckpoint, Generations
  <2> QED
    BY <1>4, <1>5, <2>2 DEF TakeSnapshot
<1>6. ASSUME ReadRow(c) PROVE SmInv' /\ EditIsOnWhatWasSeen
  <2>1. PICK to : /\ ToCheckpoint(c, [m EXCEPT !.gen = mapRow.gen, !.rev = mapRow.rev, !.pc = to])
                  /\ checkpoint'[c] = [m EXCEPT !.gen = mapRow.gen, !.rev = mapRow.rev, !.pc = to]
    BY <1>1, <1>6 DEF ReadRow, ToCheckpoint
  <2>2. CheckpointSound(c)'
    BY <1>1, <1>6, <2>1 DEF ReadRow, CheckpointSound, mapTables
  <2> QED
    BY <1>4, <1>6, <2>1, <2>2 DEF ReadRow
<1>7. ASSUME OpenGeneration(c) PROVE SmInv' /\ EditIsOnWhatWasSeen
  <2>1. CASE MayOpen(m)
    <3>1. /\ CreateMapGeneration(m) /\ ToCheckpoint(c, [m EXCEPT !.pc = "reread"])
          /\ m.gen < GenerationLimit /\ m.pc = "open"
      BY <1>7, <2>1 DEF OpenGeneration
    <3>2. TablesOK' /\ TablesGrow
      BY <1>1, <2>1, <3>1, OpeningGood DEF CheckpointSound
    <3>3. checkpoint'[c] = [m EXCEPT !.pc = "reread"]
      BY <1>1, <3>1 DEF ToCheckpoint
    <3>4. CheckpointSound(c)'
      BY <1>1, <3>1, <3>2, <3>3 DEF CheckpointSound, TablesGrow
    <3> QED
      BY <1>7, <3>1, <3>2, <3>4, CheckpointMoves DEF OpenGeneration
  <2>2. CASE ~MayOpen(m)
    BY <1>3, <1>7, <2>2 DEF OpenGeneration
  <2> QED
    BY <2>1, <2>2
<1>8. ASSUME ReadChanges(c) PROVE SmInv' /\ EditIsOnWhatWasSeen
  <2> DEFINE changed == changedSimulationEntities(mapEnts[m.gen], m.snap)
  <2>1. changed \subseteq Things
    BY DEF changedSimulationEntities
  <2>2. CASE changed = {}
    BY <1>3, <1>8, <2>2 DEF ReadChanges
  <2>3. CASE changed # {}
    <3>1. ToCheckpoint(c, [m EXCEPT !.pc = "check", !.changed = changed]) /\ m.pc = "compare"
      BY <1>8, <2>3 DEF ReadChanges
    <3>2. checkpoint'[c] = [m EXCEPT !.pc = "check", !.changed = changed]
      BY <1>1, <3>1 DEF ToCheckpoint
    <3>3. CheckpointSound(c)'
      <4> HIDE DEF changed
      <4> QED
        BY <1>1, <1>8, <2>1, <3>1, <3>2 DEF ReadChanges, CheckpointSound, mapTables
    <3> QED
      BY <1>4, <1>8, <3>1, <3>3 DEF ReadChanges
  <2> QED
    BY <2>2, <2>3
<1>9. ASSUME CheckRevision(c) PROVE SmInv' /\ EditIsOnWhatWasSeen
  <2>1. CASE RowIsStill(m)
    <3>1. ToCheckpoint(c, [m EXCEPT !.pc = "write"]) /\ m.pc = "check"
      BY <1>9, <2>1 DEF CheckRevision
    <3>2. checkpoint'[c] = [m EXCEPT !.pc = "write"]
      BY <1>1, <3>1 DEF ToCheckpoint
    <3>3. CheckpointSound(c)'
      BY <1>1, <1>9, <3>1, <3>2 DEF CheckRevision, CheckpointSound, mapTables
    <3> QED
      BY <1>4, <1>9, <3>1, <3>3 DEF CheckRevision
  <2>2. CASE ~RowIsStill(m)
    BY <1>3, <1>9, <2>2 DEF CheckRevision
  <2> QED
    BY <2>1, <2>2
<1>10. ASSUME WriteSnapshot(c) PROVE SmInv' /\ EditIsOnWhatWasSeen
  <2>1. CASE RowIsStill(m)
    <3>1. PICK links \in LinksWith(mapLinks[m.gen], mapEnts[m.gen], m.changed) :
            ApplyMapUpdate(m, SimulatedEntities(mapEnts[m.gen], links, m.changed, m.snap),
                           mapRels[m.gen], links)
      BY <1>10, <2>1 DEF WriteSnapshot
    <3>2. /\ m.pc = "write" /\ ToCheckpoint(c, NoCheckpoint) /\ UNCHANGED <<scene, mapUser>>
      BY <1>10 DEF WriteSnapshot
    <3>3. m.gen = mapRow.gen /\ m.snap \in [Things -> SimPoses] /\ m.changed \in SUBSET Things
      BY <1>1, <2>1, <3>2 DEF RowIsStill, CheckpointSound, Row
    <3>4. /\ mapEnts[m.gen] \in EntityTable
          /\ mapRels[m.gen] \in [MapRelations -> RelationRow \cup {NoEntry}]
          /\ mapLinks[m.gen] \in [Things -> MapEntities \cup {NoEntry}]
          /\ RowsSound(mapEnts[m.gen], mapLinks[m.gen])
      BY <1>1, <3>3 DEF TablesOK, TablesTyped, TablesSound, EntityTable
    <3>5. TablesOK' /\ TablesGrow
      <4> DEFINE ents == SimulatedEntities(mapEnts[m.gen], links, m.changed, m.snap)
      <4>1. /\ ents \in EntityTable /\ links \in [Things -> MapEntities \cup {NoEntry}]
            /\ RowsSound(ents, links)
            /\ \A e \in MapEntities : Known(mapEnts[m.gen], e) => Known(ents, e)
        BY <3>1, <3>3, <3>4, SnapshotSound
      <4>2. ApplyMapUpdate(m, ents, mapRels[m.gen], links)
        BY <3>1
      <4> HIDE DEF ents
      <4> QED
        BY <1>1, <2>1, <3>4, <4>1, <4>2, UpdateGood DEF EntityTable
    <3>6. checkpoint'[c] = NoCheckpoint
      BY <1>1, <3>2 DEF ToCheckpoint
    <3> QED
      BY <3>2, <3>5, <3>6, IdleIsSound, CheckpointMoves
  <2>2. CASE ~RowIsStill(m)
    BY <1>3, <1>10, <2>2 DEF WriteSnapshot
  <2> QED
    BY <2>1, <2>2
<1> QED
  BY <1>5, <1>6, <1>7, <1>8, <1>9, <1>10 DEF CheckpointStep

LEMMA SmStep ==
  SmInv /\ [SmNext]_smVars => SmInv' /\ (EditIsOnWhatWasSeen \/ UNCHANGED smVars)
<1> SUFFICES ASSUME SmInv, [SmNext]_smVars
             PROVE  SmInv' /\ (EditIsOnWhatWasSeen \/ UNCHANGED smVars)
  OBVIOUS
<1>1. ASSUME UNCHANGED <<mapTables, mapUser, checkpoint>>, scene' \in [Things -> SimPoses]
      PROVE  SmInv' /\ EditIsOnWhatWasSeen
  <2>1. TablesOK' /\ TablesGrow
    BY <1>1, TablesStand DEF SmInv
  <2>2. \A v \in MapUsers : RequestSound(v)'
    BY <1>1, <2>1, RequestStays DEF SmInv
  <2>3. \A d \in MapCheckpoints : CheckpointSound(d)'
    BY <1>1, <2>1, CheckpointStays DEF SmInv
  <2> QED
    BY <1>1, <2>1, <2>2, <2>3 DEF SmInv, EditIsOnWhatWasSeen
<1>2. ASSUME NEW t \in Things, SceneMoves(t) PROVE SmInv' /\ EditIsOnWhatWasSeen
  <2>1. scene' \in [Things -> SimPoses]
    BY <1>2 DEF SceneMoves, SmInv
  <2> QED
    BY <1>1, <1>2, <2>1 DEF SceneMoves
<1>3. CASE UNCHANGED smVars
  BY <1>1, <1>3 DEF smVars, mapTables, SmInv
<1> QED
  BY <1>2, <1>3, MapUserStepGood, CheckpointStepGood DEF SmNext

\* A row a user has put is out of reach of every step but the commit of a user: the entities
\* are written by ApplyMapUpdate alone, and a checkpoint hands it each manual row as it was.
LEMMA PutsStay ==
  ASSUME SmInv, [SmNext]_smVars
  PROVE  ManualIsKept
<1>1. UNCHANGED mapEnts => ManualIsKept
  BY DEF ManualIsKept
<1>2. ASSUME NEW u \in MapUsers, MapUserStep(u) PROVE ManualIsKept
  <2>1. CASE CommitEdit(u)
    <3>1. mapUser[u].pc = "commit" /\ mapUser'[u] = NoRequest
      BY <2>1 DEF CommitEdit, ToUser, SmInv
    <3> QED
      BY <3>1 DEF ManualIsKept, NoRequest
  <2>2. CASE ~CommitEdit(u)
    <3>1. UNCHANGED mapEnts
      BY <1>2, <2>2 DEF MapUserStep, OpenMap, ReadGeneration, ReadEntities, ReadRelations,
         SelectSubset, CloseView, HandleUpdateSemanticMap, HandleCreateMapGeneration,
         CommitGeneration, CreateMapGeneration, mapTables
    <3> QED
      BY <1>1, <3>1
  <2> QED
    BY <2>1, <2>2
<1>3. ASSUME NEW c \in MapCheckpoints, CheckpointStep(c) PROVE ManualIsKept
  <2> DEFINE m == checkpoint[c]
  <2>1. CASE WriteSnapshot(c) /\ RowIsStill(m)
    <3>1. PICK links : mapEnts' = [mapEnts EXCEPT ![m.gen] =
                         SimulatedEntities(mapEnts[m.gen], links, m.changed, m.snap)]
      BY <2>1 DEF WriteSnapshot, ApplyMapUpdate
    <3> DEFINE ents == mapEnts[m.gen]
               after == SimulatedEntities(ents, links, m.changed, m.snap)
    <3>2. \A e \in MapEntities : Known(ents, e) /\ ents[e].manual => after[e] = ents[e]
      BY DEF SimulatedEntities, preserveManual, Known
    <3>3. DOMAIN mapEnts = Generations
      BY DEF SmInv, TablesOK, TablesTyped
    <3>4. \A g \in Generations : mapEnts'[g] = IF g = m.gen THEN after ELSE mapEnts[g]
      <4> HIDE DEF after, m
      <4> QED
        BY <3>1, <3>3 DEF after
    <3>5. ASSUME NEW g \in Generations, NEW e \in MapEntities,
                 Known(mapEnts[g], e), mapEnts[g][e].manual
          PROVE  mapEnts'[g][e] = mapEnts[g][e]
      <4> HIDE DEF after, m
      <4> QED
        BY <3>2, <3>4, <3>5
    <3> QED
      BY <3>5 DEF ManualIsKept
  <2>2. CASE ~(WriteSnapshot(c) /\ RowIsStill(m))
    <3>1. UNCHANGED mapEnts
      BY <1>3, <2>2 DEF CheckpointStep, TakeSnapshot, ReadRow, OpenGeneration, ReadChanges,
         CheckRevision, WriteSnapshot, CreateMapGeneration, mapTables
    <3> QED
      BY <1>1, <3>1
  <2> QED
    BY <2>1, <2>2
<1>4. ASSUME NEW t \in Things, SceneMoves(t) PROVE ManualIsKept
  BY <1>1, <1>4 DEF SceneMoves, mapTables
<1>5. CASE UNCHANGED smVars
  BY <1>1, <1>5 DEF smVars
<1> QED
  BY <1>2, <1>3, <1>4, <1>5 DEF SmNext

\* An edit is made on the rows its user saw, because ApplyMapUpdate compares generation and
\* revision in its transaction; an entity a user has put is changed by users only, because
\* preserveManual gives a checkpoint the row as it was; two things never share an entity,
\* the row of the map and its generations stay one fact, and a view is closed
\* (src/internal/store/semantic_map.go).
THEOREM PutsAreKeptAlways == SemanticMapSpec => PutsAreKept
<1>1. SmInv' => GenerationIsCurrent' /\ ThingsApart' /\ ViewIsClosed'
  BY DEF SmInv, TablesOK, TablesSound, RowsSound, RequestSound, ThingsApart, ViewIsClosed
<1>2. SmInv /\ [SmNext]_smVars =>
        SmInv' /\ [/\ EditIsOnWhatWasSeen /\ ManualIsKept
                   /\ GenerationIsCurrent' /\ ThingsApart' /\ ViewIsClosed']_smVars
  BY <1>1, SmStep, PutsStay
<1> QED
  BY <1>2, SmInitGood, PTL DEF SemanticMapSpec, PutsAreKept
===============================================================================
