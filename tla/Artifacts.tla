------------------------------ MODULE Artifacts ------------------------------
(***************************************************************************)
(* Files that travel with references: the artifact store of the Server     *)
(* (src/internal/store/artifact.go), its users, tools and messages, and the*)
(* bridge to a Pilot (src/internal/pilot/artifact.go,                      *)
(* src/internal/robot/service.go): a file of an Execution is announced, the*)
(* Server answers with a command that carries a token, the Pilot sends the *)
(* content, the Server stores it and maps the local id to the artifact.    *)
(*                                                                         *)
(* An artifact is a content file and a row, written and removed in two     *)
(* steps.  The Pilot knows what it announced in memory only; the Server    *)
(* keeps tokens in memory only.  One Execution, its Pilot, one user.  What *)
(* a Worker may publish after the Execution has ended is not told apart    *)
(* from what it published before.                                          *)
(***************************************************************************)
EXTENDS Naturals, Sequences, FiniteSets

CONSTANTS
  Arts,          \* artifact ids
  ToolArts,      \* those of what tools and long tool results leave: nobody owns them
  Images,        \* those of images, which a message may have attached
  LocalIds,      \* ids the Pilot gives to what it announces
  Paths,         \* files of the Execution
  Loops,         \* request loops of the Execution's Workers
  NoArt, NoLocal,
  ArtifactCalls, \* operations of users and Abilities
  ArtifactFaults \* failed writes, lost calls and restarts

\* "none" and "user" stand in `writing` for what is not the id of an upload.
ASSUME ArtifactsAssumption ==
  /\ ToolArts \subseteq Arts /\ Images \subseteq Arts /\ NoArt \notin Arts
  /\ NoLocal \notin LocalIds /\ LocalIds \cap {"none", "user"} = {}
  /\ ArtifactCalls \in Nat /\ ArtifactFaults \in Nat

VARIABLES
  rows,        \* artifacts with a row
  contents,    \* artifacts with a content file
  writing,     \* artifact -> "none", "user", or the local id that is uploaded
  filing,      \* artifact of an upload, with its row -> the local id to map to it
  removals,    \* artifacts whose deletion passed its checks
  usedArts,    \* ids that were given out
  attaching, quoted,   \* artifacts a message is about to refer to, or refers to
  admitted,    \* the Execution was admitted, its downloads authorised or refused
  mapping,     \* local id -> its row in robot_artifact_mappings
  tokens,      \* local id -> tokens for its upload
  fetchTokens, \* artifacts with a token for their download
  linked,      \* the WebSocket between Server and Pilot
  announced, commands,  \* messages on their way, to the Server and to the Pilot
  workers,     \* the loops that take requests, none before the Execution is started
  captures,    \* files in the exchange directory of the Abilities
  local,       \* local id -> the Pilot's entry, in memory
  usedIds,
  pub,         \* loop -> the publication it is at
  put,         \* the upload the command loop of the Pilot waits for
  granted, cache,  \* what the Execution may download, and has
  artifactCalls, artifactFaults

artifactStoreVars == <<rows, contents, writing, filing, removals, usedArts>>
messageVars == <<attaching, quoted>>
bridgeVars == <<admitted, mapping, tokens, fetchTokens, linked, announced, commands>>
deviceVars == <<workers, captures, local, usedIds, pub, put, granted, cache>>
artifactVars == <<artifactStoreVars, messageVars, bridgeVars, deviceVars, artifactCalls, artifactFaults>>

\* An entry of the Pilot for what an Execution published.
localArtifact(p, sync, a) == [path |-> p, sync |-> sync, art |-> a]
GetLocal(id) == local[id]
update(id, entry) == local' = [local EXCEPT ![id] = entry]

Unmapped == [status |-> "none", art |-> NoArt]
NoPut == [id |-> NoLocal, stage |-> "none", art |-> NoArt]

\* A publication: "checked" found no entry for its path, "entered" made one, which is
\* written and not yet announced, "failed" could not announce it.
Publication(stage, p, id) == [stage |-> stage, path |-> p, id |-> id]
NoPublication == Publication("none", NoLocal, NoLocal)

\* Commands to the Pilot: upload this id; start, with these downloads.
UploadCommand(id) == [id |-> id, refs |-> {}]
StartCommand(refs) == [id |-> NoLocal, refs |-> refs]

ArtifactsInit ==
  /\ rows = {} /\ contents = {} /\ writing = [a \in Arts |-> "none"]
  /\ filing = [a \in Arts |-> NoLocal]
  /\ removals = {} /\ usedArts = {} /\ attaching = {} /\ quoted = {} /\ admitted = FALSE
  /\ mapping = [id \in LocalIds |-> Unmapped] /\ tokens = [id \in LocalIds |-> 0]
  /\ fetchTokens = {} /\ linked = TRUE /\ announced = <<>> /\ commands = <<>>
  /\ workers = {} /\ captures = {} /\ local = [id \in LocalIds |-> NoLocal]
  /\ usedIds = {} /\ pub = [w \in Loops |-> NoPublication] /\ put = NoPut
  /\ granted = {} /\ cache = {} /\ artifactCalls = 0 /\ artifactFaults = 0

ArtifactSteady == UNCHANGED <<artifactCalls, artifactFaults>>
ArtifactCall ==
  artifactCalls < ArtifactCalls /\ artifactCalls' = artifactCalls + 1 /\ UNCHANGED artifactFaults
ArtifactFault ==
  artifactFaults < ArtifactFaults /\ artifactFaults' = artifactFaults + 1 /\ UNCHANGED artifactCalls

-----------------------------------------------------------------------------
(* The artifact store. *)

\* Metadata is read from the row; content needs both.
GetArtifactMeta(a) == a \in rows
GetArtifact(a) == GetArtifactMeta(a) /\ a \in contents
OpenArtifactContent(a) == GetArtifactMeta(a) /\ a \in contents

\* Ids are random and never given out twice, those of long tool results included.
NewArtifact(a, who) ==
  /\ a \notin usedArts
  /\ usedArts' = usedArts \cup {a}
  /\ writing' = [writing EXCEPT ![a] = who]

PutBegins(a) ==
  /\ NewArtifact(a, "user") /\ ArtifactCall
  /\ UNCHANGED <<rows, contents, filing, removals, messageVars, bridgeVars, deviceVars>>

\* An image of a user; a file of the workspace, copied for a user or by a tool for the
\* user it works for; what a tool was told to keep; a tool result too long for a message.
HandleUploadAttachment(a) == a \in Images \ ToolArts /\ PutBegins(a)
HandleRegisterWorkspaceArtifact(a) == a \notin ToolArts /\ PutBegins(a)
artifactRegister(a) == a \notin ToolArts /\ PutBegins(a)
artifactPut(a) == a \in ToolArts /\ PutBegins(a)
reductionWrite(a) == a \in ToolArts /\ PutBegins(a)

\* The content first: into its place for a user, through a .partial file and a
\* rename for an upload.
ContentWritten(a) ==
  /\ writing[a] # "none" /\ a \notin contents
  /\ contents' = contents \cup {a} /\ ArtifactSteady
  /\ UNCHANGED <<rows, writing, filing, removals, usedArts, messageVars, bridgeVars, deviceVars>>

\* The Server answers an upload with an error: the Pilot leaves its entry as it is.
UploadRefused(a) == put' = IF put.art = a THEN NoPut ELSE put
deviceButPut == <<workers, captures, local, usedIds, pub, granted, cache>>

\* A broken or oversized upload leaves nothing behind; a write for a user may leave
\* a part of the file.
ContentFails(a) ==
  /\ writing[a] # "none" /\ a \notin contents /\ ArtifactFault
  /\ \/ UNCHANGED contents
     \/ writing[a] = "user" /\ contents' = contents \cup {a}
  /\ writing' = [writing EXCEPT ![a] = "none"]
  /\ UploadRefused(a)
  /\ UNCHANGED <<rows, filing, removals, usedArts, messageVars, bridgeVars, deviceButPut>>

\* Then the row.
RowInserted(a) ==
  /\ writing[a] # "none" /\ a \in contents
  /\ rows' = rows \cup {a}
  /\ writing' = [writing EXCEPT ![a] = "none"]
  /\ filing' = [filing EXCEPT ![a] = IF writing[a] = "user" THEN NoLocal ELSE writing[a]]
  /\ ArtifactSteady
  /\ UNCHANGED <<contents, removals, usedArts, messageVars, bridgeVars, deviceVars>>

\* A failed insertion takes the content away again, if it can.
RowFails(a) ==
  /\ writing[a] # "none" /\ a \in contents /\ ArtifactFault
  /\ contents' \in {contents, contents \ {a}}
  /\ writing' = [writing EXCEPT ![a] = "none"]
  /\ UploadRefused(a)
  /\ UNCHANGED <<rows, filing, removals, usedArts, messageVars, bridgeVars, deviceButPut>>

\* Only its owner may delete an artifact.  Messages that refer to it protect it
\* unless the user insists; what the Robot's mappings refer to is not asked for.
ArtifactReferenceCount(a) == Cardinality({a} \cap quoted)

HandleDeleteArtifact(a, force) ==
  /\ GetArtifactMeta(a) /\ a \notin ToolArts
  /\ ArtifactReferenceCount(a) = 0 \/ force
  /\ removals' = removals \cup {a} /\ ArtifactCall
  /\ UNCHANGED <<rows, contents, writing, filing, usedArts, messageVars, bridgeVars, deviceVars>>

\* What is next to go in a deletion: the row before the content.
ContentFirst(a) == IF a \in contents THEN "content" ELSE "row"
GoesNext(a) == IF a \in rows THEN "row" ELSE "content"

\* A deletion that finds no row is over; content that cannot be removed stays, without
\* a row.
DeleteArtifact(a) ==
  /\ a \in removals
  /\ \/ /\ GoesNext(a) = "row"
        /\ rows' = rows \ {a} /\ UNCHANGED <<contents, removals>> /\ ArtifactSteady
     \/ /\ GoesNext(a) = "content"
        /\ contents' = contents \ {a} /\ removals' = removals \ {a}
        /\ UNCHANGED rows /\ ArtifactSteady
     \/ /\ GoesNext(a) = "content" /\ removals' = removals \ {a}
        /\ UNCHANGED <<rows, contents>> /\ ArtifactFault
  /\ UNCHANGED <<writing, filing, usedArts, messageVars, bridgeVars, deviceVars>>

\* A message reads the images attached to it, which its user owns, before its Run is
\* prepared, and refers to them when it is stored, if its conversation is still open.
resolveAttachments(a) ==
  /\ GetArtifact(a) /\ a \in Images \ ToolArts /\ a \notin attaching
  /\ attaching' = attaching \cup {a} /\ ArtifactCall
  /\ UNCHANGED <<artifactStoreVars, quoted, bridgeVars, deviceVars>>

AppendChatMessage(a) ==
  /\ a \in attaching
  /\ attaching' = attaching \ {a}
  /\ \/ quoted' = quoted \cup {a} /\ ArtifactSteady
     \/ UNCHANGED quoted /\ ArtifactFault
  /\ UNCHANGED <<artifactStoreVars, bridgeVars, deviceVars>>

-----------------------------------------------------------------------------
(* Announcements. *)

AbilityCaptures(p) ==
  /\ workers # {} /\ p \notin captures /\ captures' = captures \cup {p} /\ ArtifactCall
  /\ UNCHANGED <<artifactStoreVars, messageVars, bridgeVars, workers, local, usedIds, pub, put,
                 granted, cache>>

\* Of the variables of the device, what a publication leaves alone.
deviceButPub == <<workers, captures, put, granted, cache>>

LocalEntries(p) == {id \in LocalIds : GetLocal(id) # NoLocal /\ local[id].path = p}

\* A path that has an entry is answered with it, whether it was announced or not; the
\* lock is let go before an entry is made.
Publish(w, p) ==
  /\ w \in workers /\ pub[w] = NoPublication
  /\ pub' = IF LocalEntries(p) = {}
            THEN [pub EXCEPT ![w] = Publication("checked", p, NoLocal)] ELSE pub
  /\ ArtifactSteady
  /\ UNCHANGED <<artifactStoreVars, messageVars, bridgeVars, local, usedIds, deviceButPub>>

\* The Skill publishes a file; when it ends, the runtime publishes a summary of it.
WorkerPublishes(w, p) == Publish(w, p)
publishExecutionSummary(w, p) == Publish(w, p)

\* The handle an Ability returns, looked up in the exchange directory.
resolveAbilityExchangeFile(p) == p \in captures

\* A capture is copied into the workspace once, and published from there.
ImportAbilityArtifact(w, p) == resolveAbilityExchangeFile(p) /\ Publish(w, p)

\* The captures a result of an Action names are imported when the result is handled,
\* again when it is handled again; one that fails is noted in the result.
importAbilityArtifacts(w, p) == ImportAbilityArtifact(w, p)

\* A new entry, with an id of its own.  If it cannot be written to the disk of the device
\* it stays in memory, unannounced.
EntryMade(w) ==
  /\ pub[w].stage = "checked"
  /\ \E id \in LocalIds \ usedIds :
       /\ update(id, localArtifact(pub[w].path, "pending", NoArt))
       /\ usedIds' = usedIds \cup {id}
       /\ \/ /\ pub' = [pub EXCEPT ![w] = Publication("entered", pub[w].path, id)]
             /\ ArtifactSteady
          \/ pub' = [pub EXCEPT ![w] = NoPublication] /\ ArtifactFault
  /\ UNCHANGED <<artifactStoreVars, messageVars, bridgeVars, deviceButPub>>

Announce(w) ==
  /\ pub[w].stage = "entered" /\ linked
  /\ announced' = Append(announced, pub[w].id)
  /\ pub' = [pub EXCEPT ![w] = NoPublication] /\ ArtifactSteady
  /\ UNCHANGED <<artifactStoreVars, messageVars, admitted, mapping, tokens, fetchTokens, linked,
                 commands, local, usedIds, deviceButPub>>

\* What of a queue the other side gets when the connection is lost.
Arrived(s) == {SubSeq(s, 1, n) : n \in 0..Len(s)}

\* Without a link; or the write times out, whether or not it arrived, and the
\* connection is closed.
AnnounceFails(w) ==
  /\ pub[w].stage = "entered"
  /\ \/ ~linked /\ UNCHANGED <<announced, commands, linked>> /\ ArtifactSteady
     \/ /\ linked /\ linked' = FALSE /\ commands' = <<>> /\ ArtifactFault
        /\ announced' \in Arrived(Append(announced, pub[w].id))
  /\ pub' = [pub EXCEPT ![w].stage = "failed"]
  /\ UNCHANGED <<artifactStoreVars, messageVars, admitted, mapping, tokens, fetchTokens,
                 local, usedIds, deviceButPub>>

\* The entry, as the publication made it, is then saved as failed, over what an
\* upload may have made of it.
PublishFails(w) ==
  /\ pub[w].stage = "failed"
  /\ update(pub[w].id, localArtifact(pub[w].path, "failed", NoArt))
  /\ pub' = [pub EXCEPT ![w] = NoPublication] /\ ArtifactSteady
  /\ UNCHANGED <<artifactStoreVars, messageVars, bridgeVars, usedIds, deviceButPub>>

\* A Worker that ends before its Skill is restarted once.  The loop of the old one goes
\* on with the requests it has.
restartWorker(w) ==
  /\ \E v \in Loops : workers = {v} /\ w # v
  /\ workers' = workers \cup {w} /\ ArtifactFault
  /\ UNCHANGED <<artifactStoreVars, messageVars, bridgeVars, captures, local, usedIds, pub, put,
                 granted, cache>>

GetRobotArtifactMapping(id) == mapping[id]
SaveRobotArtifactMapping(id, status, a) ==
  mapping' = [mapping EXCEPT ![id] = [status |-> status, art |-> a]]

\* A command to a Pilot that is not connected, or whose queue is full, is an error:
\* nothing is kept for it.
sendCommand(c) ==
  \/ commands' = (IF linked THEN Append(commands, c) ELSE commands) /\ ArtifactSteady
  \/ UNCHANGED commands /\ ArtifactFault

addTransfer(id) == tokens' = [tokens EXCEPT ![id] = @ + 1]

\* The row is pending, a token is given out and the Pilot told to use it.  An
\* announcement whose row cannot be written is dropped.
announceArtifact ==
  /\ announced # <<>> /\ announced' = Tail(announced)
  /\ \/ /\ SaveRobotArtifactMapping(Head(announced), "pending", NoArt)
        /\ addTransfer(Head(announced))
        /\ sendCommand(UploadCommand(Head(announced)))
     \/ UNCHANGED <<mapping, tokens, commands>> /\ ArtifactFault
  /\ UNCHANGED <<artifactStoreVars, messageVars, admitted, fetchTokens, linked, deviceVars>>

-----------------------------------------------------------------------------
(* The upload. *)

\* The command loop waits for the upload.  An id that is not in memory, after a restart,
\* is an error.
Upload ==
  /\ commands # <<>> /\ put = NoPut /\ Head(commands).id # NoLocal
  /\ put' = IF GetLocal(Head(commands).id) = NoLocal THEN NoPut
            ELSE [id |-> Head(commands).id, stage |-> "sent", art |-> NoArt]
  /\ commands' = Tail(commands) /\ ArtifactSteady
  /\ UNCHANGED <<artifactStoreVars, messageVars, admitted, mapping, tokens, fetchTokens, linked,
                 announced, deviceButPut>>

\* A token is good for one upload, and gone before anything is stored.
takeTransfer(id) == tokens[id] > 0 /\ tokens' = [tokens EXCEPT ![id] = @ - 1]

\* The handler of the Server takes the content.
UploadTaken ==
  /\ put.stage = "sent" /\ takeTransfer(put.id)
  /\ \E a \in Arts \ ToolArts :
       NewArtifact(a, put.id) /\ put' = [id |-> put.id, stage |-> "stored", art |-> a]
  /\ ArtifactSteady
  /\ UNCHANGED <<rows, contents, filing, removals, messageVars, admitted, mapping, fetchTokens,
                 linked, announced, commands, deviceButPut>>

\* No token: refused.  With one, the Execution may not be readable or the file too large.
UploadNotTaken ==
  /\ put.stage = "sent" /\ put' = NoPut
  /\ \/ tokens[put.id] = 0 /\ UNCHANGED tokens /\ ArtifactSteady
     \/ takeTransfer(put.id) /\ ArtifactFault
  /\ UNCHANGED <<artifactStoreVars, messageVars, admitted, mapping, fetchTokens, linked,
                 announced, commands, deviceButPut>>

\* What the Pilot is told, and when: after the mapping is saved.
RepliesEarly(a) == a \in rows
Replies(a) == \E id \in LocalIds : GetRobotArtifactMapping(id).art = a

\* The mapping is read and saved once the row is there.  If that fails the artifact
\* stays, unmapped.
UploadMapped(a) ==
  /\ filing[a] # NoLocal /\ filing' = [filing EXCEPT ![a] = NoLocal]
  /\ \/ /\ GetRobotArtifactMapping(filing[a]) # Unmapped
        /\ SaveRobotArtifactMapping(filing[a], "synced", a) /\ UNCHANGED put /\ ArtifactSteady
     \/ UNCHANGED mapping /\ UploadRefused(a) /\ ArtifactFault
  /\ UNCHANGED <<rows, contents, writing, removals, usedArts, messageVars, admitted, tokens,
                 fetchTokens, linked, announced, commands, deviceButPut>>

UploadReturns ==
  /\ put.stage = "stored" /\ Replies(put.art)
  /\ update(put.id, localArtifact(local[put.id].path, "synced", put.art))
  /\ put' = NoPut /\ ArtifactSteady
  /\ UNCHANGED <<artifactStoreVars, messageVars, bridgeVars, workers, captures, usedIds, pub,
                 granted, cache>>

\* The file cannot be read, the call is lost or the reply is an error: the Pilot leaves
\* its entry as it is; the handler of the Server may go on.
UploadLost ==
  /\ put # NoPut /\ ArtifactFault
  /\ put' = NoPut
  /\ UNCHANGED <<artifactStoreVars, messageVars, bridgeVars, deviceButPut>>

-----------------------------------------------------------------------------
(* Downloads. *)

\* An Execution is admitted with references: all of them are known to the store and the
\* start command brings their tokens, or it fails, with tokens nobody is told of.
authorizeArtifactDownloads(refs) ==
  /\ ~admitted /\ admitted' = TRUE
  /\ IF \A a \in refs : GetArtifactMeta(a)
     THEN fetchTokens' = fetchTokens \cup refs /\ sendCommand(StartCommand(refs))
     ELSE /\ \E some \in SUBSET (refs \cap rows) : fetchTokens' = fetchTokens \cup some
          /\ UNCHANGED commands /\ ArtifactSteady
  /\ UNCHANGED <<artifactStoreVars, messageVars, mapping, tokens, linked, announced, deviceVars>>

Authorize(refs) == granted' = refs

\* The Pilot notes what may be downloaded, then starts a Worker, if it can.
startExecution(w) ==
  /\ commands # <<>> /\ put = NoPut /\ Head(commands).id = NoLocal
  /\ Authorize(Head(commands).refs)
  /\ \/ workers' = {w} /\ ArtifactSteady
     \/ UNCHANGED workers /\ ArtifactFault
  /\ commands' = Tail(commands)
  /\ UNCHANGED <<artifactStoreVars, messageVars, admitted, mapping, tokens, fetchTokens, linked,
                 announced, captures, local, usedIds, pub, put, cache>>

\* The Server serves the content as long as the token is good.
ServesDownload(a) == a \in fetchTokens /\ OpenArtifactContent(a)

\* What was fetched once is served from the cache of the device.
Resolve(a) ==
  /\ workers # {} /\ a \in granted \ cache /\ ServesDownload(a)
  /\ cache' = cache \cup {a} /\ ArtifactSteady
  /\ UNCHANGED <<artifactStoreVars, messageVars, bridgeVars, workers, captures, local, usedIds,
                 pub, put, granted>>

\* A token that was not used in time is refused.
TransferExpires ==
  /\ \/ /\ \E id \in LocalIds : tokens[id] > 0 /\ tokens' = [tokens EXCEPT ![id] = 0]
        /\ UNCHANGED fetchTokens
     \/ /\ \E a \in fetchTokens : fetchTokens' = fetchTokens \ {a}
        /\ UNCHANGED tokens
  /\ ArtifactFault
  /\ UNCHANGED <<artifactStoreVars, messageVars, admitted, mapping, linked, announced, commands,
                 deviceVars>>

-----------------------------------------------------------------------------
(* The link and the processes. *)

LinkBreaks ==
  /\ linked /\ linked' = FALSE /\ ArtifactFault
  /\ commands' = <<>> /\ announced' \in Arrived(announced)
  /\ UNCHANGED <<artifactStoreVars, messageVars, admitted, mapping, tokens, fetchTokens, deviceVars>>

\* The Pilot notices in the loop that also uploads.
LinkReturns ==
  /\ ~linked /\ put = NoPut /\ linked' = TRUE /\ ArtifactSteady
  /\ UNCHANGED <<artifactStoreVars, messageVars, admitted, mapping, tokens, fetchTokens, announced,
                 commands, deviceVars>>

ArtifactServerRestarts ==
  /\ ArtifactFault
  /\ writing' = [a \in Arts |-> "none"] /\ filing' = [a \in Arts |-> NoLocal]
  /\ removals' = {} /\ attaching' = {}
  /\ tokens' = [id \in LocalIds |-> 0] /\ fetchTokens' = {}
  /\ linked' = FALSE /\ announced' = <<>> /\ commands' = <<>> /\ put' = NoPut
  /\ UNCHANGED <<rows, contents, usedArts, quoted, admitted, mapping, deviceButPut>>

\* A Worker that was running is started anew, with nothing authorised, if it can be.
ArtifactPilotRestarts ==
  /\ ArtifactFault
  /\ local' = [id \in LocalIds |-> NoLocal] /\ pub' = [w \in Loops |-> NoPublication]
  /\ put' = NoPut /\ granted' = {} /\ linked' = FALSE /\ commands' = <<>>
  /\ workers' = {} \/ (workers # {} /\ \E w \in Loops : workers' = {w})
  /\ announced' \in Arrived(announced)
  /\ UNCHANGED <<artifactStoreVars, messageVars, admitted, mapping, tokens, fetchTokens, captures,
                 usedIds, cache>>

ArtifactsNext ==
  \/ \E a \in Arts :
       \/ HandleUploadAttachment(a) \/ HandleRegisterWorkspaceArtifact(a)
       \/ artifactRegister(a) \/ artifactPut(a) \/ reductionWrite(a)
       \/ ContentWritten(a) \/ ContentFails(a) \/ RowInserted(a) \/ RowFails(a)
       \/ \E force \in BOOLEAN : HandleDeleteArtifact(a, force)
       \/ DeleteArtifact(a) \/ resolveAttachments(a) \/ AppendChatMessage(a)
       \/ UploadMapped(a) \/ Resolve(a)
  \/ \E refs \in SUBSET Arts : authorizeArtifactDownloads(refs)
  \/ \E p \in Paths : AbilityCaptures(p)
  \/ \E w \in Loops :
       \/ \E p \in Paths : \/ WorkerPublishes(w, p) \/ publishExecutionSummary(w, p)
                          \/ importAbilityArtifacts(w, p)
       \/ EntryMade(w) \/ Announce(w) \/ AnnounceFails(w) \/ PublishFails(w)
       \/ startExecution(w) \/ restartWorker(w)
  \/ announceArtifact \/ Upload \/ UploadTaken \/ UploadNotTaken \/ UploadReturns \/ UploadLost
  \/ TransferExpires \/ LinkBreaks \/ LinkReturns
  \/ ArtifactServerRestarts \/ ArtifactPilotRestarts

ArtifactsSpec == ArtifactsInit /\ [][ArtifactsNext]_artifactVars

-----------------------------------------------------------------------------

\* References lead somewhere, whatever fails or restarts between two steps: a row
\* has its content, and what the Pilot tells a Skill is synced is an artifact the
\* Server has mapped to it.
ReferencesResolve ==
  /\ rows \subseteq contents
  /\ \A id \in LocalIds :
       LET entry == local[id] IN
       entry # NoLocal =>
         (entry.sync = "synced" => mapping[id] = [status |-> "synced", art |-> entry.art])

\* A file that reached the Server stays a reference of its Execution, although a
\* Skill may publish it again after the Pilot took its announcement for failed.
SyncedStays ==
  \A id \in LocalIds : mapping[id].status = "synced" => mapping'[id] = mapping[id]

\* No step of the Server, the Pilot or a user leaves a reference that leads nowhere or
\* takes back one that was given.
ReferencesHold == [][ReferencesResolve' /\ SyncedStays]_artifactVars
=============================================================================
