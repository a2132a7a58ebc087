--------------------------- MODULE SceneAuthoring ---------------------------
(***************************************************************************)
(* Scene documents of one Project (src/internal/simulation, authoring.go   *)
(* and its neighbours): layouts are drafted, edited, built into            *)
(* RuntimeBundles, published, forked, copied, deleted and imported, and    *)
(* what is published is offered as versions of the scene catalog that the  *)
(* Project refers to.                                                      *)
(*                                                                         *)
(* A document is one JSON file that is replaced as a whole; the service    *)
(* has no lock.  Each request of an editor reads the file, decides, and    *)
(* writes it: other requests run between the two.  Names, transforms,      *)
(* physics and previews are not modelled: a refusal because of a name is a *)
(* step that is not taken.                                                 *)
(***************************************************************************)
EXTENDS Naturals, FiniteSets, Sequences, SequencesExt

CONSTANTS
  Nodes,         \* node ids a document may hold
  Assets,        \* asset ids a client may name
  Published,     \* the assets of the published asset catalog
  NoNode, NoAsset, TopLevel,
  Template,      \* the content of the public layout template
  Locked,        \* the nodes of the template that must stay
  Puts,          \* contents clients send as a whole
  Batches,       \* sequences of scene operations clients send
  Editors,       \* requests served at the same time
  NoDoc,
  DocLimit,      \* documents ever created
  AuthoringBudget, \* requests
  AuthoringRestarts

Kinds == {"object", "camera"}
\* "fits": the properties of the node are those its kind knows, with values of their type.
Entries == [parent : Nodes \cup {TopLevel}, kind : Kinds, asset : Assets \cup {NoAsset},
            fits : BOOLEAN]
\* The nodes of a document and the assets it lists.
DocContents == [nodes : [Nodes -> Entries \cup {NoNode}], assets : SUBSET Assets]
DocIds == 1..DocLimit

ASSUME SceneAuthoringAssumption ==
  /\ Template \in DocContents /\ Puts \subseteq DocContents
  /\ Published \subseteq Assets /\ Locked \subseteq Nodes
  /\ NoNode \notin Entries /\ NoAsset \notin Assets /\ TopLevel \notin Nodes
  /\ IsFiniteSet(Nodes) /\ {DocLimit, AuthoringBudget, AuthoringRestarts} \subseteq Nat

VARIABLES
  docs,         \* document id -> the document in its file
  bundles,      \* RuntimeBundles that were built
  sceneCatalog, \* published versions of this Project's scenes in the catalog
  publicScene,  \* the public scene is installed
  refs,         \* catalog versions the Project refers to
  request,      \* editor -> the request that is being served
  aBudget

docVars == <<docs, bundles>>
catalogVars == <<sceneCatalog, publicScene, refs>>
saVars == <<docVars, catalogVars, request, aBudget>>

NoEdit == [pc |-> "idle"]

SaInit ==
  /\ docs = [d \in DocIds |-> NoDoc] /\ bundles = {}
  /\ sceneCatalog = {} /\ publicScene = TRUE /\ refs = {}
  /\ request = [e \in Editors |-> NoEdit]
  /\ aBudget = [requests |-> AuthoringBudget, restarts |-> AuthoringRestarts]

(***************************************************************************)
(* Validation.                                                             *)
(***************************************************************************)
Present(nodes) == {n \in Nodes : nodes[n] # NoNode}

\* What hangs below the nodes of S, with S.
Below(nodes, S) ==
  LET grow[k \in 0..Cardinality(Nodes)] ==
        IF k = 0 THEN S
        ELSE grow[k - 1] \cup {n \in Present(nodes) : nodes[n].parent \in grow[k - 1]}
  IN  grow[Cardinality(Nodes)]

NoCycleCheck(nodes) ==
  \A n \in Present(nodes) : nodes[n].parent \in Present(nodes) \cup {TopLevel}

\* Every node hangs, directly or not, from the root: no missing parent and no cycle.
validateSceneGraph(nodes) ==
  Below(nodes, {n \in Present(nodes) : nodes[n].parent = TopLevel}) = Present(nodes)

\* Nodes name assets the document lists; only what is an object takes one.
ReferencesListed(c) ==
  \A n \in Present(c.nodes) : c.nodes[n].asset # NoAsset => c.nodes[n].asset \in c.assets
validateAssetKinds(c) ==
  \A n \in Present(c.nodes) : c.nodes[n].asset # NoAsset => c.nodes[n].kind = "object"
validateNodeProperties(c) == \A n \in Present(c.nodes) : c.nodes[n].fits
validatePublishedAssets(c) == c.assets \subseteq Published

Validate(c) ==
  /\ validateSceneGraph(c.nodes) /\ ReferencesListed(c)
  /\ validateAssetKinds(c) /\ validateNodeProperties(c) /\ validatePublishedAssets(c)

\* A draft may hold objects without an asset; a build may not.
ValidateForBuild(c) ==
  /\ Validate(c)
  /\ \A n \in Present(c.nodes) : c.nodes[n].kind = "object" => c.nodes[n].asset # NoAsset

\* The locked nodes of current are in next, with their kind and asset.
validateLockedNodeChanges(current, next) ==
  current.layoutOnly =>
    \A n \in Locked :
      /\ n \in Present(current.content.nodes) \cap Present(next.nodes)
      /\ current.content.nodes[n].kind = next.nodes[n].kind
      /\ current.content.nodes[n].asset = next.nodes[n].asset

(***************************************************************************)
(* Scene operations.                                                       *)
(***************************************************************************)
\* A batch that fails at any operation fails.
Failed == [failed |-> TRUE]

CreateNode(c, o) ==
  IF o.node \in Present(c.nodes) \/ o.entry.parent \notin Present(c.nodes) \cup {TopLevel}
  THEN Failed ELSE [c EXCEPT !.nodes[o.node] = o.entry]

\* The node goes with everything below it.
DeleteNode(c, o) ==
  IF o.node \notin Present(c.nodes) THEN Failed
  ELSE [c EXCEPT !.nodes = [n \in Nodes |-> IF n \in Below(c.nodes, {o.node}) THEN NoNode
                                            ELSE c.nodes[n]]]

\* The new parent has to exist; that it is not below the node is left to Validate.
MoveNode(c, o) ==
  IF o.node \notin Present(c.nodes) \/ o.parent \notin Present(c.nodes) \cup {TopLevel}
  THEN Failed ELSE [c EXCEPT !.nodes[o.node].parent = o.parent]

\* The asset is listed in the document if the operation brings its description.
AttachAsset(c, o) ==
  LET listed == IF o.described THEN c.assets \cup {o.asset} ELSE c.assets
  IN  IF o.node \notin Present(c.nodes) \/ o.asset \notin listed THEN Failed
      ELSE [c EXCEPT !.assets = listed, !.nodes[o.node].asset = o.asset]

\* Whether the value fits is left to Validate.
SetProperty(c, o) ==
  IF o.node \notin Present(c.nodes) THEN Failed ELSE [c EXCEPT !.nodes[o.node].fits = o.fits]

applySceneOperation(c, o) ==
  CASE c = Failed -> Failed
    [] o.type = "create" -> CreateNode(c, o)
    [] o.type = "delete" -> DeleteNode(c, o)
    [] o.type = "move" -> MoveNode(c, o)
    [] o.type = "attach" -> AttachAsset(c, o)
    [] o.type = "set" -> SetProperty(c, o)

Apply(c, batch) == FoldLeft(applySceneOperation, c, batch)

(***************************************************************************)
(* Requests.  The client names the revision it knows: one that is not the  *)
(* document's is refused, so that only the others are followed here.       *)
(***************************************************************************)
Open(e) ==
  /\ request[e] = NoEdit /\ aBudget.requests > 0
  /\ aBudget' = [aBudget EXCEPT !.requests = @ - 1]
Serve(e, r) == request' = [request EXCEPT ![e] = r]
Exists(d) == docs[d] # NoDoc
Unused == {d \in DocIds : docs[d] = NoDoc /\ \A e \in Editors :
             request[e] # NoEdit => request[e].doc # d}
\* A new document takes the next unused id.
NewDoc(d) == d \in Unused /\ \A x \in Unused : d <= x

Draft(c) == [scene |-> 0, layout |-> 0, status |-> "draft", revision |-> 1, version |-> 0,
             content |-> c, layoutOnly |-> FALSE, imported |-> FALSE]
Write(d, doc) == docs' = [docs EXCEPT ![d] = doc]
EmptyContent == [nodes |-> [n \in Nodes |-> NoNode], assets |-> {}]

CreateDocument(e) ==
  /\ Open(e)
  /\ \E d \in DocIds :
       NewDoc(d) /\ Write(d, [Draft(EmptyContent) EXCEPT !.scene = d, !.layout = d])
  /\ UNCHANGED <<bundles, catalogVars, request>>

\* A draft from the template of the public scene the Project refers to.
CreateProjectLayout(e) ==
  /\ Open(e) /\ publicScene /\ Validate(Template) /\ Locked \subseteq Present(Template.nodes)
  /\ \E d \in DocIds :
       NewDoc(d) /\ Write(d, [Draft(Template) EXCEPT !.layout = d, !.layoutOnly = TRUE])
  /\ UNCHANGED <<bundles, catalogVars, request>>

ReadForUpdate(e, d, expected, next) ==
  IF /\ Exists(d) /\ docs[d].revision = expected /\ docs[d].status # "published"
     /\ validateLockedNodeChanges(docs[d], next) /\ Validate(next)
  THEN Serve(e, [pc |-> "save", doc |-> d, seen |-> docs[d], next |-> next])
  ELSE Serve(e, NoEdit)

UpdateDocument(e, d, next) ==
  /\ Open(e) /\ Exists(d) /\ ReadForUpdate(e, d, docs[d].revision, next)
  /\ UNCHANGED <<docVars, catalogVars>>

\* The batch is applied to one reading of the file; Update reads it again.
ApplyOperations(e, d, batch) ==
  /\ Open(e) /\ Exists(d) /\ docs[d].status # "published"
  /\ LET next == Apply(docs[d].content, batch)
     IN  /\ next # Failed /\ Validate(next)
         /\ Serve(e, [pc |-> "again", doc |-> d, expected |-> docs[d].revision, next |-> next])
  /\ UNCHANGED <<docVars, catalogVars>>

UpdateAgain(e) ==
  /\ request[e].pc = "again"
  /\ ReadForUpdate(e, request[e].doc, request[e].expected, request[e].next)
  /\ UNCHANGED <<docVars, catalogVars, aBudget>>

SaveUpdate(e) ==
  /\ request[e].pc = "save"
  /\ Write(request[e].doc, [request[e].seen EXCEPT !.content = request[e].next,
                              !.revision = @ + 1, !.status = "draft"])
  /\ Serve(e, NoEdit)
  /\ UNCHANGED <<bundles, catalogVars, aBudget>>

\* A rename reads all documents for the name, and counts a revision.
RenameLayout(e, d) ==
  /\ Open(e) /\ Exists(d) /\ docs[d].status # "published"
  /\ Serve(e, [pc |-> "save", doc |-> d, seen |-> docs[d], next |-> docs[d].content])
  /\ UNCHANGED <<docVars, catalogVars>>

\* A layout of the same scene; a copy keeps the version it was copied at.
CreateLayout(e, source) ==
  /\ Open(e) /\ Exists(source)
  /\ \E d \in DocIds :
       NewDoc(d) /\ Write(d, [docs[source] EXCEPT !.layout = d, !.status = "draft",
                                                  !.revision = 1])
  /\ UNCHANGED <<bundles, catalogVars, request>>

\* A new draft of the same layout.
ForkPublished(e, source) ==
  /\ Open(e) /\ Exists(source) /\ docs[source].status = "published"
  /\ \E d \in DocIds :
       NewDoc(d) /\ Write(d, [docs[source] EXCEPT !.status = "draft", !.revision = 1])
  /\ UNCHANGED <<bundles, catalogVars, request>>

\* A draft goes if its scene has another layout.
DeleteLayout(e, d) ==
  /\ Open(e) /\ Exists(d) /\ docs[d].status # "published"
  /\ \E o \in DocIds : Exists(o) /\ docs[o].scene = docs[d].scene /\ docs[o].layout # docs[d].layout
  /\ Serve(e, [pc |-> "delete", doc |-> d])
  /\ UNCHANGED <<docVars, catalogVars>>

RemoveDocument(e) ==
  /\ request[e].pc = "delete" /\ Write(request[e].doc, NoDoc) /\ Serve(e, NoEdit)
  /\ UNCHANGED <<bundles, catalogVars, aBudget>>

\* Each layout of a package is a draft of a new scene; who made the package is not known, so
\* that it may claim a template without holding the locked nodes.
ImportScenePackage(e, c, claims) ==
  /\ Open(e) /\ Validate(c)
  /\ \E d \in DocIds :
       NewDoc(d) /\ Write(d, [Draft(c) EXCEPT !.scene = d, !.layout = d,
                                !.layoutOnly = claims, !.imported = TRUE])
  /\ UNCHANGED <<bundles, catalogVars, request>>

(***************************************************************************)
(* Build and publish.                                                      *)
(***************************************************************************)
\* The Runtime registers the bundle before it is saved, and may refuse it.
Build(e, d) ==
  /\ Open(e) /\ Exists(d) /\ ValidateForBuild(docs[d].content)
  /\ Serve(e, [pc |-> "build", doc |-> d, seen |-> docs[d]])
  /\ UNCHANGED <<docVars, catalogVars>>

SaveRuntimeBundle(e) ==
  /\ request[e].pc = "build" /\ Serve(e, NoEdit)
  /\ bundles' = bundles \cup {[doc |-> request[e].doc, revision |-> request[e].seen.revision,
                               version |-> request[e].seen.version + 1]}
  /\ UNCHANGED <<docs, catalogVars, aBudget>>

RegisterFails(e) ==
  /\ request[e].pc = "build" /\ Serve(e, NoEdit)
  /\ UNCHANGED <<docVars, catalogVars, aBudget>>

AnyRevision(d, revision) == {b \in bundles : b.doc = d}
FindRuntimeBundle(d, revision) == {b \in bundles : b.doc = d /\ b.revision = revision}

\* The status is not looked at: a published document that was built again is published again.
Publish(e, d) ==
  /\ Open(e) /\ Exists(d)
  /\ \E b \in FindRuntimeBundle(d, docs[d].revision) :
       /\ b.version = docs[d].version + 1
       /\ Serve(e, [pc |-> "publish", doc |-> d, seen |-> docs[d], version |-> b.version])
  /\ UNCHANGED <<docVars, catalogVars>>

SavePublished(e) ==
  /\ request[e].pc = "publish"
  /\ Write(request[e].doc, [request[e].seen EXCEPT !.status = "published",
                              !.version = request[e].version, !.revision = @ + 1])
  /\ Serve(e, [pc |-> "refresh", doc |-> request[e].doc])
  /\ UNCHANGED <<bundles, catalogVars, aBudget>>

(***************************************************************************)
(* The catalog.  A version is named for the document and the time it was   *)
(* published; the entries of the Project are replaced as a whole.          *)
(***************************************************************************)
PublishedDocs == {d \in DocIds : Exists(d) /\ docs[d].status = "published"}
HasBundle(d) == FindRuntimeBundle(d, docs[d].revision - 1) # {}

\* One published document without its bundle, or with a bundle of another Runtime profile
\* than the Project has by now, and the catalog stays as it was.
RefreshProjectPublishedSceneCatalog ==
  \/ /\ \A d \in PublishedDocs : HasBundle(d)
     /\ sceneCatalog' = {[doc |-> d, revision |-> docs[d].revision] : d \in PublishedDocs}
  \/ PublishedDocs # {} /\ UNCHANGED sceneCatalog

RefreshAfterPublish(e) ==
  /\ request[e].pc = "refresh" /\ RefreshProjectPublishedSceneCatalog /\ Serve(e, NoEdit)
  /\ UNCHANGED <<docVars, publicScene, refs, aBudget>>

\* Listing the scenes refreshes the catalog, too.
ListScenes ==
  /\ RefreshProjectPublishedSceneCatalog
  /\ UNCHANGED <<docVars, publicScene, refs, request, aBudget>>

AddProjectScene(v) ==
  /\ v \in sceneCatalog \ refs /\ refs' = refs \cup {v}
  /\ UNCHANGED <<docVars, sceneCatalog, publicScene, request, aBudget>>

\* Refused while the version is not in the catalog, or while a Runtime of it is busy.
RemoveProjectScene(v) ==
  /\ v \in refs \cap sceneCatalog /\ refs' = refs \ {v}
  /\ UNCHANGED <<docVars, sceneCatalog, publicScene, request, aBudget>>

\* Installed scenes are read again; what the Project published stays.
ReloadResources ==
  /\ publicScene' = ~publicScene /\ aBudget.requests > 0
  /\ aBudget' = [aBudget EXCEPT !.requests = @ - 1]
  /\ UNCHANGED <<docVars, sceneCatalog, refs, request>>

\* The published scenes are in memory only until the next listing.
RestartServer ==
  /\ aBudget.restarts > 0 /\ aBudget' = [aBudget EXCEPT !.restarts = @ - 1]
  /\ sceneCatalog' = {} /\ request' = [e \in Editors |-> NoEdit]
  /\ UNCHANGED <<docVars, publicScene, refs>>

SaNext ==
  \/ \E e \in Editors :
       \/ CreateDocument(e) \/ CreateProjectLayout(e)
       \/ UpdateAgain(e) \/ SaveUpdate(e) \/ RemoveDocument(e)
       \/ SaveRuntimeBundle(e) \/ RegisterFails(e) \/ SavePublished(e) \/ RefreshAfterPublish(e)
       \/ \E c \in Puts, claims \in BOOLEAN : ImportScenePackage(e, c, claims)
       \/ \E d \in DocIds :
            \/ RenameLayout(e, d) \/ CreateLayout(e, d) \/ ForkPublished(e, d)
            \/ DeleteLayout(e, d) \/ Build(e, d) \/ Publish(e, d)
            \/ \E c \in Puts : UpdateDocument(e, d, c)
            \/ \E b \in Batches : ApplyOperations(e, d, b)
  \/ \E v \in sceneCatalog \cup refs : AddProjectScene(v) \/ RemoveProjectScene(v)
  \/ ListScenes \/ ReloadResources \/ RestartServer

SaSpec == SaInit /\ [][SaNext]_saVars

(***************************************************************************)
(* Properties.                                                             *)
(***************************************************************************)
\* Whatever editors, copies, forks and imports do at the same time, a stored document is a
\* tree, its nodes name no asset but published ones, and one that was made from the public
\* template still has the locked nodes with their kind and asset (Validate and
\* validateLockedNodeChanges look at one reading, the write follows later).
StoredScenesAreSound ==
  \A d \in DocIds : Exists(d) =>
    /\ \A n \in Present(docs[d].content.nodes) : n \notin Below(docs[d].content.nodes,
          {m \in Present(docs[d].content.nodes) : docs[d].content.nodes[m].parent = n})
    /\ \A n \in Present(docs[d].content.nodes) :
         docs[d].content.nodes[n].asset \in Published \cup {NoAsset}
    /\ docs[d].layoutOnly /\ ~docs[d].imported =>
         \A n \in Locked :
           /\ n \in Present(docs[d].content.nodes)
           /\ docs[d].content.nodes[n].kind = Template.nodes[n].kind
           /\ docs[d].content.nodes[n].asset = Template.nodes[n].asset

\* A published document has the bundle it was published with, so that the refresh of the
\* catalog never fails for want of one: it would fail for all scenes of the Project.
PublishedHasBundle ==
  \A d \in PublishedDocs :
    \E b \in bundles :
      b.doc = d /\ b.revision = docs[d].revision - 1 /\ b.version = docs[d].version

\* Authoring leaves every document sound, and every published one with its bundle.
AuthoringIsSound == StoredScenesAreSound /\ PublishedHasBundle
=============================================================================
