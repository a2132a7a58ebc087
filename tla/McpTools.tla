------------------------------ MODULE McpTools -------------------------------
(***************************************************************************)
(* The tools of an MCP server: the connection pool (src/pkg/mcp/pool.go),  *)
(* the catalog and the goroutine that keeps it up to date                  *)
(* (src/internal/mcpregistry/registry.go, syncer.go).                      *)
(*                                                                         *)
(* One server that changes its tool list, goes down and comes back.  A     *)
(* configuration change gives it a new item, whose goroutine compares at   *)
(* once, at intervals, and when the server announces a change; the         *)
(* goroutine of the item before is cancelled but finishes what it holds.   *)
(* Calls of Agents take connections from the same pool.                    *)
(***************************************************************************)
EXTENDS Naturals, FiniteSets

CONSTANTS
  Callers,      \* Agents that call a tool
  ItemLimit,    \* configurations of the server, one after the other
  ListLimit,    \* tool lists the server has, one after the other
  Connections,  \* connections that may be made
  NoConn,
  CallLimit,    \* calls and timed comparisons
  McpFaults     \* failed queries, cancelled calls, outages and broken connections

ASSUME McpToolsAssumption ==
  /\ NoConn \notin Connections
  /\ ItemLimit \in Nat /\ ListLimit \in Nat /\ CallLimit \in Nat /\ McpFaults \in Nat

Items == 1..ItemLimit
Users == Items \cup Callers

VARIABLES
  item,       \* the item of the configured server, 0 before the first
  configured, \* the server is in the configuration
  spec,       \* the catalog has the server's connection parameters
  entries,    \* the tools in the catalog: which list, and the item that wrote it
  health,     \* "none", "healthy" or "unavailable"
  stage,      \* user of a connection -> what it does next
  holds,      \* user -> the connection it got
  listed,     \* item -> the list it read
  current,    \* item -> its last comparison succeeded
  notify,     \* items with a notification to handle
  memo,       \* the entry of the pool: a connection, "none", "open", "half"
  redials,    \* users that replace a connection
  live,       \* open connections
  broken,     \* connections that reported an error
  hooked,     \* connections whose change notifications are handled
  pushed,     \* notifications on their way
  up, tools,  \* the server: running, and its tool list
  mcpCalls, mcpFaults

mcpCatalogVars == <<item, configured, spec, entries, health, notify>>
userVars == <<stage, holds, listed, current>>
poolVars == <<memo, redials, live, broken, hooked>>
serverSide == <<pushed, up, tools>>
mcpVars == <<mcpCatalogVars, userVars, poolVars, serverSide, mcpCalls, mcpFaults>>

NoEntries == [list |-> 0, by |-> 0]

McpInit ==
  /\ item = 0 /\ configured = FALSE /\ spec = FALSE /\ entries = NoEntries
  /\ health = "none" /\ notify = {}
  /\ stage = [u \in Users |-> "rests"] /\ holds = [u \in Users |-> NoConn]
  /\ listed = [i \in Items |-> 0] /\ current = [i \in Items |-> FALSE]
  /\ memo = "none" /\ redials = {} /\ live = {} /\ broken = {} /\ hooked = {}
  /\ pushed = 0 /\ up = TRUE /\ tools = 1
  /\ mcpCalls = 0 /\ mcpFaults = 0

McpSteady == UNCHANGED <<mcpCalls, mcpFaults>>
McpFault == mcpFaults < McpFaults /\ mcpFaults' = mcpFaults + 1 /\ UNCHANGED mcpCalls
McpCall == mcpCalls < CallLimit /\ mcpCalls' = mcpCalls + 1 /\ UNCHANGED mcpFaults

\* The order of a comparison: notifications are handled before the list is read.
ListsFirst == [gets |-> "lists", lists |-> "hooks", hooks |-> "writes"]
Follows == [gets |-> "hooks", hooks |-> "lists", lists |-> "writes"]
Cancelled(u) == u \in Items /\ (u # item \/ ~configured)

-----------------------------------------------------------------------------
(* The configuration: Syncer.Reconcile. *)

\* A new or changed server gets a new item, whose first comparison starts at once.
startItemLocked ==
  /\ item < ItemLimit
  /\ item' = item + 1 /\ configured' = TRUE
  /\ stage' = [stage EXCEPT ![item + 1] = "registers"]
  /\ McpSteady
  /\ UNCHANGED <<spec, entries, health, notify, holds, listed, current, poolVars, serverSide>>

\* A server that left the configuration is cancelled and taken out of the catalog.
RemoveServer ==
  /\ configured /\ configured' = FALSE
  /\ spec' = FALSE /\ entries' = NoEntries /\ health' = "none"
  /\ notify' = {} /\ McpSteady
  /\ UNCHANGED <<item, userVars, poolVars, serverSide>>

\* A change of the configuration, compared with the items there are: the server is
\* new, has other parameters, or is gone.
Reconcile == startItemLocked \/ RemoveServer

-----------------------------------------------------------------------------
(* The pool: Get, by a comparison or a call. *)

GetCached(u) ==
  /\ stage[u] = "gets" /\ memo \in Connections
  /\ IF memo \in live \ broken /\ up /\ ~Cancelled(u)
     THEN /\ holds' = [holds EXCEPT ![u] = memo]
          /\ stage' = [stage EXCEPT ![u] = IF u \in Items THEN Follows.gets ELSE "calls"]
          /\ UNCHANGED <<redials, live>>
     ELSE /\ live' = live \ {memo} /\ redials' = redials \cup {u}
          /\ stage' = [stage EXCEPT ![u] = "dials"]
          /\ UNCHANGED holds
  /\ McpSteady
  /\ UNCHANGED <<mcpCatalogVars, listed, current, memo, broken, hooked, serverSide>>

\* Without a connection a user dials; half open, it dials to see whether the
\* server is back.
GetDials(u) ==
  /\ stage[u] = "gets" /\ memo \in {"none", "half"}
  /\ redials' = IF memo = "half" THEN redials \cup {u} ELSE redials
  /\ stage' = [stage EXCEPT ![u] = "dials"]
  /\ McpSteady
  /\ UNCHANGED <<mcpCatalogVars, holds, listed, current, memo, live, broken, hooked, serverSide>>

\* The connection that another user stored meanwhile is closed.
Connected(u) ==
  /\ stage[u] = "dials" /\ up /\ ~Cancelled(u)
  /\ \E c \in Connections \ (live \cup broken \cup hooked \cup {holds[v] : v \in Users} \cup {memo}) :
       /\ memo' = c
       /\ live' = (live \ {memo}) \cup {c}
       /\ holds' = [holds EXCEPT ![u] = c]
  /\ redials' = redials \ {u}
  /\ stage' = [stage EXCEPT ![u] = IF u \in Items THEN Follows.gets ELSE "calls"]
  /\ McpSteady
  /\ UNCHANGED <<mcpCatalogVars, listed, current, broken, hooked, serverSide>>

\* A first connection that fails leaves nothing; a replacement that fails, also
\* because its caller was cancelled, opens the circuit.
Fails(u, isCancelled) ==
  /\ stage' = [stage EXCEPT ![u] = IF u \in Items THEN "waits" ELSE "rests"]
  /\ holds' = [holds EXCEPT ![u] = NoConn]
  /\ current' = [i \in Items |-> IF i = u THEN FALSE ELSE current[i]]
  /\ health' = IF isCancelled THEN health ELSE "unavailable"

DialFails(u) ==
  /\ stage[u] = "dials"
  /\ \/ (~up \/ Cancelled(u)) /\ Fails(u, Cancelled(u)) /\ McpSteady
     \/ u \in Callers /\ Fails(u, TRUE) /\ McpFault
  /\ memo' = IF u \in redials THEN "open" ELSE memo
  /\ redials' = redials \ {u}
  /\ UNCHANGED <<item, configured, spec, entries, notify, listed, live, broken, hooked,
                 serverSide>>

GetRefused(u) ==
  /\ stage[u] = "gets" /\ memo = "open"
  /\ Fails(u, Cancelled(u)) /\ McpSteady
  /\ UNCHANGED <<item, configured, spec, entries, notify, listed, poolVars, serverSide>>

CircuitHalfOpens ==
  /\ memo = "open" /\ memo' = "half" /\ McpCall
  /\ UNCHANGED <<mcpCatalogVars, userVars, redials, live, broken, hooked, serverSide>>

-----------------------------------------------------------------------------
(* A comparison: SyncServer. *)

Registers(i) ==
  /\ stage[i] = "registers"
  /\ spec' = TRUE
  /\ stage' = [stage EXCEPT ![i] = "gets"] /\ McpSteady
  /\ UNCHANGED <<item, configured, entries, health, notify, holds, listed, current, poolVars,
                 serverSide>>

OnToolsChanged(i) ==
  /\ stage[i] = "hooks"
  /\ hooked' = hooked \cup {holds[i]}
  /\ stage' = [stage EXCEPT ![i] = Follows.hooks] /\ McpSteady
  /\ UNCHANGED <<mcpCatalogVars, holds, listed, current, memo, redials, live, broken, serverSide>>

ListTools(i) ==
  /\ stage[i] = "lists" /\ up /\ holds[i] \in live \ broken
  /\ listed' = [listed EXCEPT ![i] = tools]
  /\ stage' = [stage EXCEPT ![i] = Follows.lists] /\ McpSteady
  /\ UNCHANGED <<mcpCatalogVars, holds, current, poolVars, serverSide>>

\* A failed query keeps the entries; the error breaks the connection, or not.
ListToolsFails(i) ==
  /\ stage[i] = "lists"
  /\ \/ (~up \/ holds[i] \notin live \ broken) /\ broken' = broken \cup {holds[i]} /\ McpSteady
     \/ UNCHANGED broken /\ McpFault
  /\ Fails(i, Cancelled(i))
  /\ UNCHANGED <<item, configured, spec, entries, notify, listed, memo, redials, live,
                 hooked, serverSide>>

\* The snapshot replaces the entries, also for an item that was cancelled
\* meanwhile.
reconcileLocked(i) ==
  /\ stage[i] = "writes"
  /\ entries' = [list |-> listed[i], by |-> i]
  /\ listed' = [listed EXCEPT ![i] = 0]
  /\ stage' = [stage EXCEPT ![i] = "marks"] /\ McpSteady
  /\ UNCHANGED <<item, configured, spec, health, notify, holds, current, poolVars,
                 serverSide>>

markHealth(i) ==
  /\ stage[i] = "marks"
  /\ health' = "healthy"
  /\ current' = [current EXCEPT ![i] = TRUE]
  /\ stage' = [stage EXCEPT ![i] = "waits"] /\ McpSteady
  /\ UNCHANGED <<item, configured, spec, entries, notify, holds, listed, poolVars, serverSide>>

\* Between comparisons: the end of a cancelled goroutine, a notification, a timer.
ItemEnds(i) ==
  /\ stage[i] = "waits" /\ Cancelled(i)
  /\ stage' = [stage EXCEPT ![i] = "rests"] /\ McpSteady
  /\ UNCHANGED <<mcpCatalogVars, holds, listed, current, poolVars, serverSide>>

ItemNotified(i) ==
  /\ stage[i] = "waits" /\ i \in notify
  /\ notify' = notify \ {i}
  /\ stage' = [stage EXCEPT ![i] = "registers"] /\ McpSteady
  /\ UNCHANGED <<item, configured, spec, entries, health, holds, listed, current, poolVars,
                 serverSide>>

ItemTimer(i) ==
  /\ stage[i] = "waits" /\ McpCall
  /\ stage' = [stage EXCEPT ![i] = "registers"]
  /\ UNCHANGED <<mcpCatalogVars, holds, listed, current, poolVars, serverSide>>

\* A notification is for the item of the moment; several are one.
notifyServer ==
  /\ pushed > 0 /\ pushed' = pushed - 1
  /\ notify' = IF configured THEN notify \cup {item} ELSE notify
  /\ McpSteady
  /\ UNCHANGED <<item, configured, spec, entries, health, userVars, poolVars, up, tools>>

-----------------------------------------------------------------------------
(* A call of an Agent: CallTool. *)

CallBegins(k) ==
  /\ stage[k] = "rests" /\ spec /\ McpCall
  /\ stage' = [stage EXCEPT ![k] = "gets"]
  /\ UNCHANGED <<mcpCatalogVars, holds, listed, current, poolVars, serverSide>>

CallReturns(k) ==
  /\ stage[k] = "calls"
  /\ IF up /\ holds[k] \in live \ broken
     THEN health' = "healthy" /\ UNCHANGED broken
     ELSE health' = "unavailable" /\ broken' = broken \cup {holds[k]}
  /\ holds' = [holds EXCEPT ![k] = NoConn]
  /\ stage' = [stage EXCEPT ![k] = "rests"] /\ McpSteady
  /\ UNCHANGED <<item, configured, spec, entries, notify, listed, current, memo, redials,
                 live, hooked, serverSide>>

-----------------------------------------------------------------------------
(* The server. *)

\* Every connection it still serves carries the announcement.
ToolsChange ==
  /\ up /\ tools < ListLimit
  /\ tools' = tools + 1
  /\ pushed' = pushed + Cardinality(hooked \cap (live \ broken))
  /\ McpSteady /\ UNCHANGED <<mcpCatalogVars, userVars, poolVars, up>>

ServerStops ==
  /\ up /\ up' = FALSE /\ McpFault
  /\ broken' = broken \cup live
  /\ UNCHANGED <<mcpCatalogVars, userVars, memo, redials, live, hooked, pushed, tools>>

ServerReturns ==
  /\ ~up /\ up' = TRUE /\ McpSteady
  /\ UNCHANGED <<mcpCatalogVars, userVars, poolVars, pushed, tools>>

McpNext ==
  \/ Reconcile \/ CircuitHalfOpens \/ notifyServer
  \/ \E u \in Users :
       GetCached(u) \/ GetDials(u) \/ Connected(u) \/ DialFails(u) \/ GetRefused(u)
  \/ \E i \in Items :
       \/ Registers(i) \/ OnToolsChanged(i) \/ ListTools(i) \/ ListToolsFails(i)
       \/ reconcileLocked(i) \/ markHealth(i)
       \/ ItemEnds(i) \/ ItemNotified(i) \/ ItemTimer(i)
  \/ \E k \in Callers : CallBegins(k) \/ CallReturns(k)
  \/ ToolsChange \/ ServerStops \/ ServerReturns

McpSpec == McpInit /\ [][McpNext]_mcpVars

-----------------------------------------------------------------------------

\* A change of the tools between two comparisons is not missed: while the item
\* waits after a successful comparison, over a connection that still works, the
\* catalog has the server's list or a notification is on its way to the item.
\* (A cancelled item that writes last, and a connection a call replaced, are left
\* to the timer.)
ChangeIsNotMissed ==
  \A i \in Items :
    ( /\ i = item /\ configured /\ stage[i] = "waits" /\ current[i]
      /\ entries.by = i /\ holds[i] = memo /\ memo \in live \ broken )
    => (entries.list = tools \/ pushed > 0 \/ i \in notify)
=============================================================================
