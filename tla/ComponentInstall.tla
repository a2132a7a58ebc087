-------------------------- MODULE ComponentInstall --------------------------
(***************************************************************************)
(* The import inbox of a Project and the component store of the Server     *)
(* (src/internal/install, src/internal/bootstrap/component_*.go): packages *)
(* are uploaded or dropped into a directory, installed by a background job,*)
(* bound to Robots, rolled back and removed, while Robots are launched from*)
(* the bindings and the Server may stop or crash.                          *)
(*                                                                         *)
(* Locks: Inbox.mu covers an import with its side effects; one mutex runs  *)
(* the install jobs one after the other; ComponentStore.mu covers Install, *)
(* Bind, SelectBinding, Rollback and Remove.  The launcher of a Robot makes*)
(* a ComponentStore of its own, whose mutex excludes nobody.               *)
(***************************************************************************)
EXTENDS Naturals, FiniteSets, Sequences, SequencesExt

CONSTANTS
  ScenePackages,  \* packages that are applied when they are imported
  Bundles,        \* packages that hold components to install
  Abilities,      \* components a Robot is bound to (one role)
  Catalogs,       \* components that bring a scene catalog (one name)
  Requires,       \* component -> the components of its package it needs
  Bots,           \* Robots
  ProjectDefault, \* the binding a new Robot begins with
  NoComp,
  OpBudget,       \* operations of users
  ServerCrashes   \* crashes of the Server

Comps == Abilities \cup Catalogs
Packages == ScenePackages \cup Bundles
Holders == Bots \cup {ProjectDefault}

ASSUME ComponentInstallAssumption ==
  /\ IsFiniteSet(Comps) /\ Requires \in [Comps -> SUBSET Comps]
  /\ NoComp \notin Comps /\ ProjectDefault \notin Bots
  /\ Packages # {} /\ ScenePackages \cap Bundles = {}
  /\ OpBudget \in Nat /\ ServerCrashes \in Nat

VARIABLES
  record,     \* package -> status of its import record on disk
  installing, \* package -> InstallationStatus of the record
  job,        \* package -> the background job, while the Server knows it (Inbox.active)
  applying,   \* the package whose import holds Inbox.mu
  drafts,     \* package -> how often its scenes were created
  files,      \* component -> its directory: none, partial, ok
  cenv,       \* component -> its Python environment: none, partial, ok
  receipt,    \* components with a receipt
  removing,   \* the Remove that holds ComponentStore.mu
  binding,    \* holder -> bound component
  history,    \* holder -> bindings it had
  sceneDir,   \* the component whose catalog is in the catalog directory
  aside,      \* the catalog set aside while another takes its place
  launch,     \* Robot -> how far its launch is
  snapshot,   \* Robot -> the component its running instance was started with
  half,       \* components whose removal did not get to its end
  stale,      \* Robots whose binding was copied from a default read earlier
  ciBudget

recordVars == <<record, installing, applying, drafts>>
storeVars == <<files, cenv, receipt, half>>
bindVars == <<binding, history, stale>>
sceneVars == <<sceneDir, aside>>
robotVars == <<launch, snapshot>>
ciVars == <<recordVars, job, storeVars, removing, bindVars, sceneVars, robotVars, ciBudget>>

NoJob == [pc |-> "none"]
CiInit ==
  /\ record = [p \in Packages |-> "none"] /\ installing = [p \in Packages |-> "none"]
  /\ job = [p \in Packages |-> NoJob]
  /\ applying = NoComp /\ drafts = [p \in Packages |-> 0]
  /\ files = [c \in Comps |-> "none"] /\ cenv = [c \in Comps |-> "none"]
  /\ receipt = {} /\ removing = NoComp /\ half = {}
  /\ binding = [h \in Holders |-> NoComp] /\ history = [h \in Holders |-> {}]
  /\ stale = {} /\ sceneDir = NoComp /\ aside = NoComp
  /\ launch = [r \in Bots |-> "off"] /\ snapshot = [r \in Bots |-> NoComp]
  /\ ciBudget = [ops |-> OpBudget, crashes |-> ServerCrashes]

UserOp == ciBudget.ops > 0 /\ ciBudget' = [ciBudget EXCEPT !.ops = @ - 1]
InboxFree == applying = NoComp

(***************************************************************************)
(* Inbox: Upload, UploadReader and Scan end in the same import.            *)
(***************************************************************************)
\* Content that was seen before returns its record.  What is applied at once is
\* registered as importing first, so that a crash never makes it be applied again; the
\* other kinds wait for a confirmed install.
Register(p) ==
  \/ /\ p \in ScenePackages
     /\ record' = [record EXCEPT ![p] = "importing"] /\ applying' = p
     /\ UNCHANGED installing
  \/ /\ p \in Bundles
     /\ record' = [record EXCEPT ![p] = "imported"]
     /\ installing' = [installing EXCEPT ![p] = "pending"]
     /\ UNCHANGED applying

\* Inspect refuses a package that is malformed.
Rejected(p) ==
  record' = [record EXCEPT ![p] = "failed"] /\ UNCHANGED <<installing, applying>>

\* InspectArchive: one root manifest that can be read gives the kind of the package.
InspectArchive(p) == Register(p) \/ Rejected(p)

UploadReader(p) ==
  /\ UserOp /\ InboxFree /\ record[p] = "none"
  /\ InspectArchive(p)
  /\ UNCHANGED <<drafts, job, storeVars, removing, bindVars, sceneVars, robotVars>>

\* A file that is dropped into the directory and no longer written.
Scan(p) ==
  /\ UserOp /\ InboxFree /\ record[p] = "none" /\ Register(p)
  /\ UNCHANGED <<drafts, job, storeVars, removing, bindVars, sceneVars, robotVars>>

ApplyImport ==
  /\ applying # NoComp /\ applying' = NoComp
  /\ \/ /\ record' = [record EXCEPT ![applying] = "imported"]
        /\ drafts' = [drafts EXCEPT ![applying] = @ + 1]
     \/ record' = [record EXCEPT ![applying] = "failed"] /\ UNCHANGED drafts
  /\ UNCHANGED <<installing, job, storeVars, removing, bindVars, sceneVars, robotVars, ciBudget>>

RetryAll(p) == record[p] # "none"
RetryAllowed(p) == record[p] = "failed"

Retry(p) ==
  /\ UserOp /\ InboxFree /\ RetryAllowed(p)
  /\ record' = [record EXCEPT ![p] = "importing"] /\ applying' = p
  /\ UNCHANGED <<installing, drafts, job, storeVars, removing, bindVars, sceneVars, robotVars>>

(***************************************************************************)
(* Install jobs.                                                           *)
(***************************************************************************)
\* The selected components and what they require, each after its requirements.
SelectPackageEntries(selected) ==
  LET closure == selected \cup UNION {Requires[c] : c \in selected}
  IN  {s \in SetToSeqs(closure) :
         \A i, j \in 1..Len(s) : s[j] \in Requires[s[i]] => j < i}

\* A record whose job is known returns as it is; the status is saved before the job runs.
Install(p, selected, holder) ==
  /\ UserOp /\ InboxFree /\ record[p] = "imported" /\ p \in Bundles
  /\ job[p] = NoJob
  /\ \E todo \in SelectPackageEntries(selected) :
       job' = [job EXCEPT ![p] = [pc |-> "queued", todo |-> todo, holder |-> holder,
                                  cancelled |-> FALSE]]
  /\ installing' = [installing EXCEPT ![p] = "installing"]
  /\ UNCHANGED <<record, applying, drafts, storeVars, removing, bindVars, sceneVars, robotVars>>

CancelInstall(p) ==
  /\ UserOp /\ InboxFree /\ job[p] # NoJob /\ ~job[p].cancelled
  /\ job' = [job EXCEPT ![p].cancelled = TRUE]
  /\ UNCHANGED <<recordVars, storeVars, removing, bindVars, sceneVars, robotVars>>

JobIn(p, pc) == job[p].pc = pc
Running(p) == job[p].pc \notin {"none", "queued"}
Step(p, pc) == job' = [job EXCEPT ![p].pc = pc]
Now(p) == Head(job[p].todo)

\* Every command runs under the job's context: cancelling kills its process group.
CanGoOn(p) == ~job[p].cancelled

\* The installer's mutex, then a development Project that is not archived.
JobTurn(p) ==
  /\ JobIn(p, "queued") /\ \A q \in Packages : ~Running(q)
  /\ Step(p, "extract") \/ Step(p, "build") \/ Step(p, "failed")
  /\ UNCHANGED <<recordVars, storeVars, removing, bindVars, sceneVars, robotVars, ciBudget>>

\* A source package is built first; sources that change under the build fail it.
BuildUploadedSource(p) ==
  /\ JobIn(p, "build")
  /\ (CanGoOn(p) /\ Step(p, "extract")) \/ Step(p, "failed")
  /\ UNCHANGED <<recordVars, storeVars, removing, bindVars, sceneVars, robotVars, ciBudget>>

\* ComponentStore.Install keeps its mutex up to the receipt.
StoreFree == /\ removing = NoComp
             /\ \A p \in Packages : job[p].pc \notin {"environment", "receipt"}

\* Files are written over the ones an earlier attempt left.
Unpacked(c, how) == [files EXCEPT ![c] = how]

\* A receipt is proof of an earlier installation, otherwise the archive is unpacked.
ExtractComponent(p) ==
  LET c == Now(p)
  IN  /\ JobIn(p, "extract") /\ StoreFree
      /\ \/ c \in receipt /\ CanGoOn(p) /\ Step(p, "use") /\ UNCHANGED files
         \/ /\ c \notin receipt /\ CanGoOn(p)
            /\ files' = Unpacked(c, "ok") /\ Step(p, "environment")
         \/ /\ files' = IF c \in receipt THEN files ELSE Unpacked(c, "partial")
            /\ Step(p, "failed")
      /\ UNCHANGED <<recordVars, cenv, receipt, half, removing, bindVars, sceneVars, robotVars, ciBudget>>

\* A failed or cancelled environment is left as it is; the next attempt goes on with it.
BuildEnvironmentOf(p) ==
  LET c == Now(p)
  IN  /\ JobIn(p, "environment")
      /\ \/ CanGoOn(p) /\ cenv' = [cenv EXCEPT ![c] = "ok"] /\ Step(p, "receipt")
         \/ cenv' = [cenv EXCEPT ![c] = "partial"] /\ Step(p, "failed")
      /\ UNCHANGED <<recordVars, files, receipt, half, removing, bindVars, sceneVars, robotVars, ciBudget>>

WriteReceipt(p) ==
  LET c == Now(p)
  IN  /\ JobIn(p, "receipt")
      /\ \/ CanGoOn(p) /\ receipt' = receipt \cup {c} /\ Step(p, "use")
         \/ Step(p, "failed") /\ UNCHANGED receipt
      /\ UNCHANGED <<recordVars, files, cenv, half, removing, bindVars, sceneVars, robotVars, ciBudget>>

NextEntry(p) ==
  job' = [job EXCEPT ![p].todo = Tail(@),
                     ![p].pc = IF Len(job[p].todo) = 1 THEN "installed" ELSE "extract"]

SetBinding(h, c) ==
  /\ binding' = [binding EXCEPT ![h] = c]
  /\ history' = [history EXCEPT ![h] = @ \cup {c}]
  /\ UNCHANGED stale

\* An Ability is bound to the Robot or becomes the default, in a call of its own: the
\* component may have been removed since its receipt was written.
UseAbility(p) ==
  LET c == Now(p)
      h == job[p].holder
  IN  /\ JobIn(p, "use") /\ c \in Abilities
      /\ \/ h = NoComp /\ NextEntry(p) /\ UNCHANGED bindVars
         \/ h # NoComp /\ StoreFree /\ c \in receipt /\ SetBinding(h, c) /\ NextEntry(p)
         \/ h # NoComp /\ Step(p, "failed") /\ UNCHANGED bindVars
      /\ UNCHANGED <<recordVars, storeVars, removing, sceneVars, robotVars, ciBudget>>

\* ReplaceDirectoryAndApply: the component's catalog is copied, the old catalog is set
\* aside, the new one is placed, and when the catalogs cannot be loaded again the old one
\* is put back.
SetCatalogAside(p) ==
  /\ JobIn(p, "use") /\ Now(p) \in Catalogs
  /\ \/ /\ files[Now(p)] = "ok"
        /\ aside' = sceneDir /\ sceneDir' = NoComp /\ Step(p, "place")
     \/ Step(p, "failed") /\ UNCHANGED sceneVars
  /\ UNCHANGED <<recordVars, storeVars, removing, bindVars, robotVars, ciBudget>>

PlaceCatalogOf(p) ==
  /\ JobIn(p, "place") /\ aside' = NoComp
  /\ \/ sceneDir' = Now(p) /\ NextEntry(p)
     \/ sceneDir' = aside /\ Step(p, "failed")
  /\ UNCHANGED <<recordVars, storeVars, removing, bindVars, robotVars, ciBudget>>

EndJob(p) ==
  /\ job[p].pc \in {"installed", "failed"} /\ InboxFree
  /\ installing' = [installing EXCEPT ![p] = job[p].pc]
  /\ job' = [job EXCEPT ![p] = NoJob]
  /\ UNCHANGED <<record, applying, drafts, storeVars, removing, bindVars, sceneVars, robotVars, ciBudget>>

(***************************************************************************)
(* Bindings.                                                               *)
(***************************************************************************)
SelectBinding(h, c) ==
  /\ StoreFree /\ c \in receipt /\ c \in Abilities
  /\ SetBinding(h, c)

\* HandleBindComponents: for a Robot, or as the default of the Project.
HandleBindComponents(h, c) ==
  /\ UserOp /\ SelectBinding(h, c)
  /\ UNCHANGED <<recordVars, job, storeVars, removing, sceneVars, robotVars>>

Rollback(r, c) ==
  /\ StoreFree /\ c \in history[r] /\ c \in receipt
  /\ binding' = [binding EXCEPT ![r] = c] /\ UNCHANGED <<history, stale>>

\* HandleRollbackComponents: of a managed Robot only.
HandleRollbackComponents(r, c) ==
  /\ UserOp /\ Rollback(r, c)
  /\ UNCHANGED <<recordVars, job, storeVars, removing, sceneVars, robotVars>>

(***************************************************************************)
(* Launch of a Robot.  The instance is active from the first step on; what *)
(* runs is the copy of the binding in its data directory.                  *)
(***************************************************************************)
Launch(r) ==
  /\ UserOp /\ launch[r] = "off" /\ launch' = [launch EXCEPT ![r] = "starting"]
  /\ UNCHANGED <<recordVars, job, storeVars, removing, bindVars, sceneVars, snapshot>>

\* EnsureRobotBinding reads the default under a mutex that Remove does not take.
EnsureRobotBinding(r) ==
  /\ launch[r] = "starting"
  /\ \/ /\ binding[r] # NoComp \/ binding[ProjectDefault] = NoComp
        /\ launch' = [launch EXCEPT ![r] = "ensured"] /\ UNCHANGED snapshot
     \/ /\ binding[r] = NoComp /\ binding[ProjectDefault] # NoComp
        /\ launch' = [launch EXCEPT ![r] = "copying"]
        /\ snapshot' = [snapshot EXCEPT ![r] = binding[ProjectDefault]]
  /\ UNCHANGED <<recordVars, job, storeVars, removing, bindVars, sceneVars, ciBudget>>

CopyDefault(r) ==
  LET c == snapshot[r]
  IN  /\ launch[r] = "copying"
      /\ binding' = [binding EXCEPT ![r] = c]
      /\ history' = [history EXCEPT ![r] = @ \cup {c}]
      /\ stale' = IF c = binding[ProjectDefault] THEN stale ELSE stale \cup {r}
      /\ launch' = [launch EXCEPT ![r] = "ensured"]
      /\ snapshot' = [snapshot EXCEPT ![r] = NoComp]
      /\ UNCHANGED <<recordVars, job, storeVars, removing, sceneVars, ciBudget>>

RenderInstance(r) ==
  /\ launch[r] = "ensured"
  /\ \/ /\ snapshot' = [snapshot EXCEPT ![r] = binding[r]]
        /\ launch' = [launch EXCEPT ![r] = "running"]
     \/ launch' = [launch EXCEPT ![r] = "off"] /\ UNCHANGED snapshot
  /\ UNCHANGED <<recordVars, job, storeVars, removing, bindVars, sceneVars, ciBudget>>

StopInstance(r) ==
  /\ UserOp /\ launch[r] = "running"
  /\ launch' = [launch EXCEPT ![r] = "off"] /\ snapshot' = [snapshot EXCEPT ![r] = NoComp]
  /\ UNCHANGED <<recordVars, job, storeVars, removing, bindVars, sceneVars>>

\* applyInstalledComponents: a running Robot is stopped and started from its new binding.
ApplyInstalledComponents(r) ==
  /\ launch[r] = "running"
  /\ launch' = [launch EXCEPT ![r] = "starting"] /\ snapshot' = [snapshot EXCEPT ![r] = NoComp]

\* HandleApplyComponents: the binding stays, also when the Robot does not come up.
HandleApplyComponents(r) ==
  /\ UserOp /\ ApplyInstalledComponents(r)
  /\ UNCHANGED <<recordVars, job, storeVars, removing, bindVars, sceneVars>>

(***************************************************************************)
(* Remove.                                                                 *)
(***************************************************************************)
RunningUses(c) == \E r \in Bots : launch[r] = "running" /\ snapshot[r] = c
BindingUses(c) == \E h \in Holders : binding[h] = c

RemovableUnbound(c) == ~BindingUses(c)
Removable(c) == ~BindingUses(c) /\ ~RunningUses(c)

\* A component is removed by a Project that imported it.
ComponentImported(c) == \E p \in Bundles : record[p] = "imported"

RemoveComponent(c) ==
  /\ UserOp /\ StoreFree /\ c \in receipt /\ ComponentImported(c) /\ Removable(c)
  /\ removing' = c /\ half' = half \cup {c}
  /\ sceneDir' = IF sceneDir = c THEN NoComp ELSE sceneDir
  /\ UNCHANGED <<recordVars, job, files, cenv, receipt, bindVars, aside, robotVars>>

RemoveFiles ==
  /\ removing # NoComp
  /\ \/ /\ cenv[removing] # "none"
        /\ cenv' = [cenv EXCEPT ![removing] = "none"] /\ UNCHANGED <<files, receipt, half, removing>>
     \/ /\ cenv[removing] = "none" /\ files[removing] # "none"
        /\ files' = [files EXCEPT ![removing] = "none"] /\ UNCHANGED <<cenv, receipt, half, removing>>
     \/ /\ cenv[removing] = "none" /\ files[removing] = "none"
        /\ receipt' = receipt \ {removing} /\ half' = half \ {removing}
        /\ removing' = NoComp /\ UNCHANGED <<files, cenv>>
  /\ UNCHANGED <<recordVars, job, bindVars, sceneVars, robotVars, ciBudget>>

\* A directory that cannot be removed ends the call.
RemoveFails ==
  /\ removing # NoComp /\ removing' = NoComp
  /\ UNCHANGED <<recordVars, job, storeVars, bindVars, sceneVars, robotVars, ciBudget>>

(***************************************************************************)
(* Crash of the Server: jobs, locks and calls are gone, files and running  *)
(* Robots stay.                                                            *)
(***************************************************************************)
CrashServer ==
  /\ ciBudget.crashes > 0 /\ ciBudget' = [ciBudget EXCEPT !.crashes = @ - 1]
  /\ drafts' \in IF applying = NoComp THEN {drafts}
                 ELSE {drafts, [drafts EXCEPT ![applying] = @ + 1]}
  /\ applying' = NoComp /\ removing' = NoComp
  /\ job' = [p \in Packages |-> NoJob]
  /\ launch' = [r \in Bots |-> IF launch[r] = "running" THEN "running" ELSE "off"]
  /\ snapshot' = [r \in Bots |-> IF launch[r] = "running" THEN snapshot[r] ELSE NoComp]
  /\ UNCHANGED <<record, installing, storeVars, bindVars, sceneVars>>

CiNext ==
  \/ \E p \in Packages :
       \/ UploadReader(p) \/ Scan(p) \/ Retry(p) \/ CancelInstall(p)
       \/ \E selected \in (SUBSET Comps) \ {{}}, h \in Holders \cup {NoComp} : Install(p, selected, h)
       \/ JobTurn(p) \/ BuildUploadedSource(p) \/ ExtractComponent(p) \/ BuildEnvironmentOf(p)
       \/ WriteReceipt(p)
       \/ UseAbility(p) \/ SetCatalogAside(p) \/ PlaceCatalogOf(p) \/ EndJob(p)
  \/ ApplyImport
  \/ \E h \in Holders, c \in Comps : HandleBindComponents(h, c)
  \/ \E r \in Bots, c \in Comps : HandleRollbackComponents(r, c)
  \/ \E r \in Bots : \/ Launch(r) \/ EnsureRobotBinding(r) \/ CopyDefault(r)
                     \/ RenderInstance(r) \/ StopInstance(r) \/ HandleApplyComponents(r)
  \/ \E c \in Comps : RemoveComponent(c)
  \/ RemoveFiles \/ RemoveFails \/ CrashServer

CiSpec == CiInit /\ [][CiNext]_ciVars

-----------------------------------------------------------------------------
(***************************************************************************)
(* Properties.                                                             *)
(***************************************************************************)
Complete(c) == c \in receipt /\ files[c] = "ok" /\ cenv[c] = "ok"

\* What a binding names and what a running Robot was started with is installed
\* completely, through failed, cancelled and interrupted installs, roll-backs and
\* removals ("只引用已经安装并校验的制品").  Two gaps of the code are excluded: a removal cut
\* off half-way leaves the receipt of what is gone, and a launch may copy a default that was
\* changed after it was read.
InUseIsInstalled ==
  /\ \A h \in Holders : binding[h] \in Comps => \/ Complete(binding[h])
                                                \/ binding[h] \in half \/ h \in stale
  /\ \A r \in Bots : launch[r] = "running" /\ snapshot[r] \in Comps
       => Complete(snapshot[r]) \/ snapshot[r] \in half \/ r \in stale

\* The scenes of an imported package are created once, whatever is uploaded again, retried
\* or cut off by a crash ("避免自动重复创建场景草稿", importLocked and Retry).
SceneImportedOnce == \A p \in Packages : drafts[p] <= 1

\* The Server's own books agree with the disk: what is in use is installed, what was
\* imported is there once.
ComponentsAreConsistent == InUseIsInstalled /\ SceneImportedOnce
=============================================================================
