--------------------------- MODULE RuntimeInstall ---------------------------
(***************************************************************************)
(* The installer of simulation Runtimes: "semantic runtime install,        *)
(* upgrade, uninstall, doctor" (src/cmd/semantic/runtime_install.go), which*)
(* the Server also runs for a Runtime Pack that is imported on the Web.    *)
(*                                                                         *)
(* The state is the file system: the packs (one directory per version,     *)
(* shared by the installations), the Python environments (one per          *)
(* installation and version), the scene catalogs and the manifests (one of *)
(* each per installation).  The manifest makes an installation visible to  *)
(* the Server.  Every change of a directory is a step, so that a command   *)
(* can fail or be killed between any two of them.                          *)
(***************************************************************************)
EXTENDS Naturals, FiniteSets

CONSTANTS
  Installs,     \* installation ids
  Versions,     \* pack versions
  Contents,     \* what a pack of some version can hold
  Cataloged,    \* the versions whose pack brings a scene catalog
  NoDir,        \* an absent directory, file or version
  Partial,      \* an environment whose construction was cut off
  DevVersion,   \* the version of an installation from a source tree
  CommandBudget,\* commands a user gives
  CrashBudget   \* commands that are killed

ASSUME RuntimeInstallAssumption ==
  /\ Cataloged \subseteq Versions
  /\ NoDir \notin Versions \cup Contents /\ Partial \notin Contents
  /\ DevVersion \notin Versions \cup {NoDir}
  /\ CommandBudget \in Nat /\ CrashBudget \in Nat

VARIABLES
  pack,       \* version -> its content in runtime-packs
  env,        \* installation -> version -> the content its environment was built from
  catalog,    \* installation -> version of its scene catalog
  previous,   \* installation -> the catalog set aside while another takes its place
  manifest,   \* installation -> version and content of its manifest
  bound,      \* installations some Project is bound to
  online,     \* installations whose endpoint answers
  cli,        \* the command that runs
  torn,       \* installations whose uninstall did not get to its end
  rtBudget    \* commands and kills left

fileVars == <<pack, env, catalog, previous, manifest, torn>>
useVars == <<bound, online>>
rtVars == <<fileVars, useVars, cli, rtBudget>>

Idle == [pc |-> "idle"]
NoManifest == [version |-> NoDir, content |-> NoDir]
Installed(i) == manifest[i].version # NoDir
Development(i) == manifest[i].version = DevVersion

RtInit ==
  /\ pack = [v \in Versions |-> NoDir]
  /\ env = [i \in Installs |-> [v \in Versions |-> NoDir]]
  /\ catalog = [i \in Installs |-> NoDir]
  /\ previous = [i \in Installs |-> NoDir]
  /\ manifest = [i \in Installs |-> NoManifest]
  /\ bound = {} /\ online = {} /\ torn = {}
  /\ cli = Idle
  /\ rtBudget = [commands |-> CommandBudget, crashes |-> CrashBudget]

Command == cli.pc = "idle" /\ rtBudget.commands > 0
           /\ rtBudget' = [rtBudget EXCEPT !.commands = @ - 1]
At(pc) == cli.pc = pc
Goto(pc) == cli' = [cli EXCEPT !.pc = pc]

(***************************************************************************)
(* What the files of an installation are when a command begins; a history  *)
(* variable for FailedInstallKeepsOld.                                     *)
(***************************************************************************)
FilesOf(i) ==
  LET v == manifest[i].version
  IN  [manifest |-> manifest[i], catalog |-> catalog[i],
       env |-> IF v \in Versions THEN env[i][v] ELSE NoDir,
       pack |-> IF v \in Versions THEN pack[v] ELSE NoDir]

(***************************************************************************)
(* install and upgrade.                                                    *)
(***************************************************************************)
Begin(i, v, c, replace) ==
  cli' = [pc |-> "acquire", id |-> i, version |-> v, content |-> c,
          replace |-> replace, packExisted |-> FALSE, envExisted |-> FALSE,
          before |-> FilesOf(i)]

RunInstall(i, v, c, replace) ==
  /\ Command /\ Begin(i, v, c, replace)
  /\ UNCHANGED <<fileVars, useVars>>

\* Only an installation from a pack is upgraded, and always with replace.
RunUpgrade(i, v, c) ==
  /\ Command /\ Installed(i) /\ ~Development(i)
  /\ Begin(i, v, c, TRUE)
  /\ UNCHANGED <<fileVars, useVars>>

GoOnOrEnd(pc) == Goto(pc) \/ Goto("failed")

\* The pack is a directory, an archive with a checksum or a download of both.
Acquire ==
  /\ At("acquire") /\ GoOnOrEnd("extract")
  /\ UNCHANGED <<fileVars, useVars, rtBudget>>

\* It is unpacked into a scratch directory, which goes when the command ends.
ExtractPack ==
  /\ At("extract") /\ GoOnOrEnd("content")
  /\ UNCHANGED <<fileVars, useVars, rtBudget>>

\* The assets and models it needs are directories of the right revision and licence.
ResolveContent ==
  /\ At("content") /\ GoOnOrEnd("materialize")
  /\ UNCHANGED <<fileVars, useVars, rtBudget>>

\* A version that exists must have the content that is offered; otherwise the pack is
\* staged and renamed into its place.
Materialize ==
  LET v == cli.version
      existed == pack[v] # NoDir
  IN  /\ At("materialize")
      /\ \/ /\ existed => pack[v] = cli.content
            /\ pack' = [pack EXCEPT ![v] = cli.content]
            /\ cli' = [cli EXCEPT !.pc = "environment", !.packExisted = existed,
                                  !.envExisted = env[cli.id][v] # NoDir]
         \/ Goto("failed") /\ UNCHANGED pack
      /\ UNCHANGED <<env, catalog, previous, manifest, torn, useVars, rtBudget>>

\* An environment that is there is used when its executable is; else it must be repaired
\* by hand.  A new one is built where it will stay, since a venv cannot be moved.
BuildEnvironment ==
  LET i == cli.id
      v == cli.version
  IN  /\ At("environment")
      /\ \/ env[i][v] \in Contents /\ Goto("smoke") /\ UNCHANGED env
         \/ env[i][v] = Partial /\ Goto("rollback") /\ UNCHANGED env
         \/ env[i][v] = NoDir /\ env' = [env EXCEPT ![i][v] = Partial] /\ Goto("building")
      /\ UNCHANGED <<pack, catalog, previous, manifest, torn, useVars, rtBudget>>

EnvironmentBuilt ==
  LET i == cli.id
      v == cli.version
  IN  /\ At("building")
      /\ \/ env' = [env EXCEPT ![i][v] = cli.content] /\ Goto("smoke")
         \/ env' = [env EXCEPT ![i][v] = NoDir] /\ Goto("rollback")
      /\ UNCHANGED <<pack, catalog, previous, manifest, torn, useVars, rtBudget>>

\* The Runtime is started on its endpoint, loads a scene and is stopped again; the
\* endpoint must be free.
RunRuntimeSmoke ==
  /\ At("smoke")
  /\ \/ cli.id \notin online /\ Goto("activate")
     \/ Goto("rollback")
  /\ UNCHANGED <<fileVars, useVars, rtBudget>>

ActivateRefused(i) == Installed(i) /\ ~cli.replace

ActivateRuntimeInstallation ==
  LET i == cli.id
      staged == cli.version \in Cataloged
  IN  /\ At("activate")
      /\ \/ Goto("rollback") /\ UNCHANGED <<catalog, previous>>
         \/ /\ ~ActivateRefused(i) /\ ~staged
            /\ Goto("register") /\ UNCHANGED <<catalog, previous>>
         \/ /\ ~ActivateRefused(i) /\ staged
            /\ previous' = [previous EXCEPT ![i] = catalog[i]]
            /\ catalog' = [catalog EXCEPT ![i] = NoDir]
            /\ Goto("place")
      /\ UNCHANGED <<pack, env, manifest, torn, useVars, rtBudget>>

RestoreCatalog(i) ==
  /\ catalog' = [catalog EXCEPT ![i] = previous[i]]
  /\ previous' = [previous EXCEPT ![i] = NoDir]

PlaceCatalog ==
  /\ At("place")
  /\ \/ /\ catalog' = [catalog EXCEPT ![cli.id] = cli.version]
        /\ Goto("register") /\ UNCHANGED previous
     \/ RestoreCatalog(cli.id) /\ Goto("rollback")
  /\ UNCHANGED <<pack, env, manifest, torn, useVars, rtBudget>>

\* The manifest is written to a temporary file and renamed.  When that fails the new
\* catalog is removed and the old one is put back.
WriteRuntimeManifest ==
  LET i == cli.id
  IN  /\ At("register")
      /\ \/ /\ manifest' = [manifest EXCEPT ![i] = [version |-> cli.version,
                                                    content |-> cli.content]]
            /\ torn' = torn \ {i} /\ Goto("activated")
            /\ UNCHANGED <<catalog, previous>>
         \/ /\ IF cli.version \in Cataloged THEN RestoreCatalog(i)
               ELSE UNCHANGED <<catalog, previous>>
            /\ Goto("rollback") /\ UNCHANGED <<manifest, torn>>
      /\ UNCHANGED <<pack, env, useVars, rtBudget>>

Activated ==
  /\ At("activated") /\ cli' = Idle
  /\ previous' = [previous EXCEPT ![cli.id] = NoDir]
  /\ UNCHANGED <<pack, env, catalog, manifest, torn, useVars, rtBudget>>

\* The deferred cleanup of installRuntimePack: only what this command created goes.
RollbackAll ==
  /\ At("rollback")
  /\ env' = [env EXCEPT ![cli.id][cli.version] = NoDir]
  /\ pack' = IF cli.packExisted THEN pack ELSE [pack EXCEPT ![cli.version] = NoDir]
  /\ Goto("failed")
  /\ UNCHANGED <<catalog, previous, manifest, torn, useVars, rtBudget>>

RollbackInstall ==
  /\ At("rollback")
  /\ env' = IF cli.envExisted THEN env ELSE [env EXCEPT ![cli.id][cli.version] = NoDir]
  /\ pack' = IF cli.packExisted THEN pack ELSE [pack EXCEPT ![cli.version] = NoDir]
  /\ Goto("failed")
  /\ UNCHANGED <<catalog, previous, manifest, torn, useVars, rtBudget>>

EndFailed ==
  /\ At("failed") /\ cli' = Idle
  /\ UNCHANGED <<fileVars, useVars, rtBudget>>

(***************************************************************************)
(* install --dev-source: the environment and the pack stay in the source   *)
(* tree, only the catalog and the manifest are written.                    *)
(***************************************************************************)
InstallDevelopment(i, replace) ==
  /\ Command
  /\ cli' = [pc |-> "devsmoke", id |-> i, version |-> DevVersion, replace |-> replace]
  /\ UNCHANGED <<fileVars, useVars>>

DevSmoke ==
  /\ At("devsmoke")
  /\ \/ cli.id \notin online /\ (Goto("devcatalog") \/ Goto("devregister"))
     \/ cli' = Idle
  /\ UNCHANGED <<fileVars, useVars, rtBudget>>

\* The catalog is replaced before the manifest is looked at; when it turns out to have no
\* scene of the profile it is removed, the old one being gone already.
CopyDevelopmentCatalog ==
  LET i == cli.id
  IN  /\ At("devcatalog")
      /\ \/ catalog[i] # NoDir /\ ~cli.replace /\ cli' = Idle /\ UNCHANGED catalog
         \/ /\ catalog[i] = NoDir \/ cli.replace
            /\ \/ catalog' = [catalog EXCEPT ![i] = DevVersion] /\ Goto("devregister")
               \/ catalog' = [catalog EXCEPT ![i] = NoDir] /\ cli' = Idle
               \/ UNCHANGED catalog /\ cli' = Idle
      /\ UNCHANGED <<pack, env, previous, manifest, torn, useVars, rtBudget>>

DevRegister ==
  LET i == cli.id
  IN  /\ At("devregister") /\ cli' = Idle
      /\ \/ UNCHANGED <<manifest, torn>>
         \/ /\ ~ActivateRefused(i)
            /\ manifest' = [manifest EXCEPT ![i] = [version |-> DevVersion, content |-> NoDir]]
            /\ torn' = torn \ {i}
      /\ UNCHANGED <<pack, env, catalog, previous, useVars, rtBudget>>

\* register: a manifest written by hand, for an environment outside the installer's care.
RegisterManifest(i, replace) ==
  /\ Command
  /\ Installed(i) => replace
  /\ manifest' = [manifest EXCEPT ![i] = [version |-> DevVersion, content |-> NoDir]]
  /\ torn' = torn \ {i}
  /\ UNCHANGED <<pack, env, catalog, previous, useVars, cli>>

(***************************************************************************)
(* uninstall: catalog, environment, pack and, at the end, manifest.        *)
(***************************************************************************)
NobodyElse(i, v) == FALSE
PackUsedByOtherInstallation(i, v) ==
  \E j \in Installs \ {i} : manifest[j].version = v

RunUninstall(i) ==
  /\ Command /\ Installed(i) /\ i \notin bound \cup online
  /\ cli' = [pc |-> "uncatalog", id |-> i, version |-> manifest[i].version,
             shared |-> PackUsedByOtherInstallation(i, manifest[i].version)]
  /\ torn' = torn \cup {i}
  /\ UNCHANGED <<pack, env, catalog, previous, manifest, useVars>>

RemoveCatalog ==
  /\ At("uncatalog") /\ Goto("unenv")
  /\ catalog' = IF cli.version \in Cataloged \/ catalog[cli.id] = cli.version
                THEN [catalog EXCEPT ![cli.id] = NoDir] ELSE catalog
  /\ UNCHANGED <<pack, env, previous, manifest, torn, useVars, rtBudget>>

RemoveEnvironment ==
  /\ At("unenv") /\ Goto("unpack")
  /\ env' = IF cli.version = DevVersion THEN env
            ELSE [env EXCEPT ![cli.id][cli.version] = NoDir]
  /\ UNCHANGED <<pack, catalog, previous, manifest, torn, useVars, rtBudget>>

RemovePack ==
  /\ At("unpack") /\ Goto("unmanifest")
  /\ pack' = IF cli.version = DevVersion \/ cli.shared THEN pack
             ELSE [pack EXCEPT ![cli.version] = NoDir]
  /\ UNCHANGED <<env, catalog, previous, manifest, torn, useVars, rtBudget>>

RemoveManifest ==
  /\ At("unmanifest") /\ cli' = Idle
  /\ manifest' = [manifest EXCEPT ![cli.id] = NoManifest]
  /\ torn' = torn \ {cli.id}
  /\ UNCHANGED <<pack, env, catalog, previous, useVars, rtBudget>>

\* A directory that cannot be removed ends the command there.
UninstallFails ==
  /\ cli.pc \in {"uncatalog", "unenv", "unpack", "unmanifest"} /\ cli' = Idle
  /\ UNCHANGED <<fileVars, useVars, rtBudget>>

(***************************************************************************)
(* The environment of the installer: a kill, and the Server's use of the   *)
(* installations.                                                          *)
(***************************************************************************)
KillCommand ==
  /\ cli # Idle /\ rtBudget.crashes > 0
  /\ rtBudget' = [rtBudget EXCEPT !.crashes = @ - 1]
  /\ cli' = Idle
  /\ UNCHANGED <<fileVars, useVars>>

\* diagnoseRuntimeInstallation: what "doctor" looks at.
Diagnose(i) ==
  LET v == manifest[i].version
  IN  v \in Versions => env[i][v] \in Contents /\ pack[v] = manifest[i].content

BindProject(i) ==
  /\ Installed(i) /\ bound = {} /\ bound' = {i}
  /\ UNCHANGED <<fileVars, online, cli, rtBudget>>

EndpointUp(i) ==
  /\ i \in bound \ online /\ Installed(i)
  /\ Diagnose(i)
  /\ online' = online \cup {i}
  /\ UNCHANGED <<fileVars, bound, cli, rtBudget>>

EndpointDown(i) ==
  /\ i \in online /\ online' = online \ {i}
  /\ UNCHANGED <<fileVars, bound, cli, rtBudget>>

RtNext ==
  \/ \E i \in Installs, v \in Versions, c \in Contents :
       \/ \E replace \in BOOLEAN : RunInstall(i, v, c, replace)
       \/ RunUpgrade(i, v, c)
  \/ Acquire \/ ExtractPack \/ ResolveContent \/ Materialize \/ BuildEnvironment
  \/ EnvironmentBuilt \/ RunRuntimeSmoke
  \/ ActivateRuntimeInstallation \/ PlaceCatalog \/ WriteRuntimeManifest \/ Activated
  \/ RollbackInstall \/ EndFailed
  \/ \E i \in Installs, replace \in BOOLEAN : InstallDevelopment(i, replace) \/ RegisterManifest(i, replace)
  \/ DevSmoke \/ CopyDevelopmentCatalog \/ DevRegister
  \/ \E i \in Installs : RunUninstall(i) \/ BindProject(i) \/ EndpointUp(i) \/ EndpointDown(i)
  \/ RemoveCatalog \/ RemoveEnvironment \/ RemovePack \/ RemoveManifest \/ UninstallFails
  \/ KillCommand

RtSpec == RtInit /\ [][RtNext]_rtVars

-----------------------------------------------------------------------------
(***************************************************************************)
(* Properties.                                                             *)
(***************************************************************************)

\* An installation the Server can see passes "doctor" (its environment is complete and its
\* pack is the one of its manifest) whatever commands failed or were killed, for it or for
\* an installation that shares its pack; only its own uninstall can have left it torn
\* (packUsedByOtherInstallation, the rollback of installRuntimePack).
InstalledIsComplete ==
  \A i \in Installs : Installed(i) => Diagnose(i) \/ i \in torn

\* "Runtime 升级失败，旧安装保持不变": a command that fails leaves the manifest, the catalog,
\* the environment and the pack of the installation as it found them, at whichever step it
\* failed (runRuntimeUpgrade, activateRuntimeInstallation's restore of the catalog).
FailedInstallKeepsOld ==
  At("failed") => FilesOf(cli.id) = cli.before

\* The installer leaves every Runtime whole: what the Server sees passes "doctor", and a
\* failed command has changed nothing.
InstallationsAreWhole == InstalledIsComplete /\ FailedInstallKeepsOld
=============================================================================
