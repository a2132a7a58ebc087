---------------------------- MODULE AssemblyProofs ----------------------------
(***************************************************************************)
(* Proofs about what is installed and published: Runtimes, the Skills of a *)
(* Robot, component packages, scene documents and plan proposals.          *)
(***************************************************************************)
EXTENDS RuntimeInstall, SkillPackages, ComponentInstall, SceneAuthoring, PlanProposals,
        SequenceTheorems, FiniteSetTheorems, WellFoundedInduction, TLAPS

-----------------------------------------------------------------------------
(* The installer of Runtimes.                                              *)

\* Where a command for a pack has changed nothing yet, or nothing any more; where it has
\* work to undo; the other commands.
Waiting == {"acquire", "extract", "content", "materialize", "failed"}
Working == {"environment", "building", "smoke", "activate", "place", "register", "rollback"}
Developing == {"devsmoke", "devcatalog", "devregister"}
Uninstalling == {"uncatalog", "unenv", "unpack", "unmanifest"}
ForPack == Waiting \cup Working \cup {"activated"}

FilesTyped ==
  /\ DOMAIN pack = Versions
  /\ DOMAIN env = Installs /\ \A i \in Installs : DOMAIN env[i] = Versions
  /\ DOMAIN catalog = Installs /\ DOMAIN previous = Installs /\ DOMAIN manifest = Installs
  /\ \A i \in Installs : manifest[i].version \in Versions => manifest[i].content \in Contents

CliTyped ==
  /\ cli.pc \in ForPack \cup Developing \cup Uninstalling \cup {"idle"}
  /\ cli.pc # "idle" => cli.id \in Installs
  /\ cli.pc \in ForPack =>
       /\ DOMAIN cli = {"pc", "id", "version", "content", "replace", "packExisted",
                        "envExisted", "before"}
       /\ cli.version \in Versions /\ cli.content \in Contents
  /\ cli.pc \in Developing => DOMAIN cli = {"pc", "id", "version", "replace"}
  /\ cli.pc \in Uninstalling => DOMAIN cli = {"pc", "id", "version", "shared"}

\* What a rollback takes away was not there before, so that no installation that is whole
\* has it.
WorkSound ==
  cli.pc \in Working =>
    /\ pack[cli.version] = cli.content
    /\ ~cli.envExisted => (manifest[cli.id].version = cli.version => cli.id \in torn)
    /\ ~cli.packExisted => \A j \in Installs : manifest[j].version = cli.version => j \in torn
    /\ cli.pc = "environment" => (cli.envExisted <=> env[cli.id][cli.version] # NoDir)
    /\ cli.pc = "building" => ~cli.envExisted
    /\ cli.pc = "place" => cli.version \in Cataloged
    /\ cli.pc \in {"smoke", "activate", "place", "register"} =>
         env[cli.id][cli.version] \in Contents

\* An uninstall is torn until it ends, and takes no pack that another installation has.
UninstallSound ==
  cli.pc \in Uninstalling =>
    /\ cli.id \in torn /\ cli.version = manifest[cli.id].version
    /\ ~cli.shared => \A j \in Installs \ {cli.id} : manifest[j].version # cli.version

\* What a rollback would leave is what the command found.
CatalogUndone == IF cli.pc = "place" \/ (cli.pc = "register" /\ cli.version \in Cataloged)
                 THEN previous[cli.id] ELSE catalog[cli.id]
EnvUndone == LET v == manifest[cli.id].version
             IN  IF v \notin Versions \/ (v = cli.version /\ ~cli.envExisted) THEN NoDir
                 ELSE env[cli.id][v]
PackUndone == LET v == manifest[cli.id].version
              IN  IF v \notin Versions \/ (v = cli.version /\ ~cli.packExisted) THEN NoDir
                  ELSE pack[v]

BeforeSound ==
  /\ cli.pc \in Waiting => cli.before = FilesOf(cli.id)
  /\ cli.pc \in Working =>
       cli.before = [manifest |-> manifest[cli.id], catalog |-> CatalogUndone,
                     env |-> EnvUndone, pack |-> PackUndone]

RtInv == /\ FilesTyped /\ CliTyped
         /\ WorkSound /\ UninstallSound /\ BeforeSound /\ InstalledIsComplete

LEMMA EnvAfter ==
  ASSUME FilesTyped, NEW i \in Installs, NEW v \in Versions, NEW x
  PROVE  /\ DOMAIN [env EXCEPT ![i][v] = x] = Installs
         /\ \A j \in Installs : DOMAIN [env EXCEPT ![i][v] = x][j] = Versions
         /\ \A j \in Installs, w \in Versions :
              [env EXCEPT ![i][v] = x][j][w] = IF j = i /\ w = v THEN x ELSE env[j][w]
  BY DEF FilesTyped

LEMMA RtCliStep ==
  ASSUME CliTyped, [RtNext]_rtVars
  PROVE  CliTyped'
<1> USE RuntimeInstallAssumption DEF CliTyped, Waiting, Working, Developing, Uninstalling,
        ForPack, At, Goto, GoOnOrEnd, Idle, fileVars, useVars, rtVars
<1>1. ASSUME NEW i \in Installs, NEW v \in Versions, NEW c \in Contents,
             NEW replace \in BOOLEAN, RunInstall(i, v, c, replace) \/ RunUpgrade(i, v, c)
      PROVE  CliTyped'
  BY <1>1 DEF RunInstall, RunUpgrade, Begin, Command
<1>2. CASE Acquire \/ ExtractPack \/ ResolveContent \/ RunRuntimeSmoke
  BY <1>2 DEF Acquire, ExtractPack, ResolveContent, RunRuntimeSmoke
<1>3. CASE EndFailed \/ UninstallFails \/ KillCommand \/ DevSmoke
  BY <1>3 DEF EndFailed, UninstallFails, KillCommand, DevSmoke
<1>4. CASE Materialize
  BY <1>4 DEF Materialize
<1>5. CASE BuildEnvironment
  BY <1>5 DEF BuildEnvironment
<1>6. CASE EnvironmentBuilt
  BY <1>6 DEF EnvironmentBuilt
<1>7. CASE ActivateRuntimeInstallation \/ PlaceCatalog \/ Activated
  BY <1>7 DEF ActivateRuntimeInstallation, PlaceCatalog, Activated
<1>8. CASE WriteRuntimeManifest
  BY <1>8 DEF WriteRuntimeManifest
<1>9. CASE RollbackInstall
  BY <1>9 DEF RollbackInstall
<1>10. CASE CopyDevelopmentCatalog
  BY <1>10 DEF CopyDevelopmentCatalog
<1>11. CASE DevRegister
  BY <1>11 DEF DevRegister
<1>12. CASE RemoveCatalog \/ RemoveEnvironment \/ RemovePack
  BY <1>12 DEF RemoveCatalog, RemoveEnvironment, RemovePack
<1>13. CASE RemoveManifest
  BY <1>13 DEF RemoveManifest
<1>14. ASSUME NEW i \in Installs, NEW replace \in BOOLEAN,
              InstallDevelopment(i, replace) \/ RegisterManifest(i, replace)
       PROVE  CliTyped'
  BY <1>14 DEF InstallDevelopment, RegisterManifest, Command
<1>15. ASSUME NEW i \in Installs, RunUninstall(i)
       PROVE  CliTyped'
  BY <1>15 DEF RunUninstall, Command
<1>16. ASSUME NEW i \in Installs, BindProject(i) \/ EndpointUp(i) \/ EndpointDown(i)
       PROVE  CliTyped'
  BY <1>16 DEF BindProject, EndpointUp, EndpointDown
<1>17. CASE UNCHANGED rtVars
  BY <1>17 DEF rtVars
<1> HIDE DEF CliTyped, Waiting, Working, Developing, Uninstalling, ForPack, At, Goto, GoOnOrEnd,
         Idle, fileVars, useVars, rtVars
<1> QED
  BY <1>1, <1>2, <1>3, <1>4, <1>5, <1>6, <1>7, <1>8, <1>9, <1>10, <1>11, <1>12, <1>13, <1>14,
     <1>15, <1>16, <1>17
  DEF RtNext

LEMMA RtFilesStep ==
  ASSUME FilesTyped, CliTyped, [RtNext]_rtVars
  PROVE  FilesTyped'
<1> USE RuntimeInstallAssumption DEF FilesTyped, CliTyped, Waiting, Working, Developing,
        Uninstalling, ForPack, At, Goto, GoOnOrEnd, Idle, fileVars, useVars, rtVars,
        RestoreCatalog, NoManifest
<1>1. ASSUME NEW i \in Installs, NEW v \in Versions, NEW c \in Contents,
             NEW replace \in BOOLEAN, RunInstall(i, v, c, replace) \/ RunUpgrade(i, v, c)
      PROVE  FilesTyped'
  BY <1>1 DEF RunInstall, RunUpgrade, Begin, Command
<1>2. CASE Acquire \/ ExtractPack \/ ResolveContent \/ RunRuntimeSmoke
  BY <1>2 DEF Acquire, ExtractPack, ResolveContent, RunRuntimeSmoke
<1>3. CASE EndFailed \/ UninstallFails \/ KillCommand \/ DevSmoke
  BY <1>3 DEF EndFailed, UninstallFails, KillCommand, DevSmoke
<1>4. CASE Materialize
  BY <1>4 DEF Materialize
<1>5. CASE BuildEnvironment
  BY <1>5 DEF BuildEnvironment
<1>6. CASE EnvironmentBuilt
  BY <1>6 DEF EnvironmentBuilt
<1>7. CASE ActivateRuntimeInstallation \/ PlaceCatalog \/ Activated
  BY <1>7 DEF ActivateRuntimeInstallation, PlaceCatalog, Activated
<1>8. CASE WriteRuntimeManifest
  BY <1>8 DEF WriteRuntimeManifest
<1>9. CASE RollbackInstall
  BY <1>9 DEF RollbackInstall
<1>10. CASE CopyDevelopmentCatalog
  BY <1>10 DEF CopyDevelopmentCatalog
<1>11. CASE DevRegister
  BY <1>11 DEF DevRegister
<1>12. CASE RemoveCatalog \/ RemoveEnvironment \/ RemovePack
  BY <1>12 DEF RemoveCatalog, RemoveEnvironment, RemovePack
<1>13. CASE RemoveManifest
  BY <1>13 DEF RemoveManifest
<1>14. ASSUME NEW i \in Installs, NEW replace \in BOOLEAN,
              InstallDevelopment(i, replace) \/ RegisterManifest(i, replace)
       PROVE  FilesTyped'
  BY <1>14 DEF InstallDevelopment, RegisterManifest, Command
<1>15. ASSUME NEW i \in Installs, RunUninstall(i)
       PROVE  FilesTyped'
  BY <1>15 DEF RunUninstall, Command
<1>16. ASSUME NEW i \in Installs, BindProject(i) \/ EndpointUp(i) \/ EndpointDown(i)
       PROVE  FilesTyped'
  BY <1>16 DEF BindProject, EndpointUp, EndpointDown
<1>17. CASE UNCHANGED rtVars
  BY <1>17 DEF rtVars
<1> HIDE DEF FilesTyped, CliTyped, Waiting, Working, Developing, Uninstalling, ForPack, At,
         Goto, GoOnOrEnd, Idle, fileVars, useVars, rtVars, RestoreCatalog, NoManifest
<1> QED
  BY <1>1, <1>2, <1>3, <1>4, <1>5, <1>6, <1>7, <1>8, <1>9, <1>10, <1>11, <1>12, <1>13, <1>14,
     <1>15, <1>16, <1>17
  DEF RtNext

LEMMA RtWorkStep ==
  ASSUME FilesTyped, CliTyped, WorkSound, InstalledIsComplete, [RtNext]_rtVars
  PROVE  WorkSound'
<1> USE RuntimeInstallAssumption DEF FilesTyped, CliTyped, WorkSound, InstalledIsComplete,
        Installed, Diagnose, Waiting, Working, Developing, Uninstalling, ForPack, At, Goto,
        GoOnOrEnd, Idle, fileVars, useVars, rtVars, RestoreCatalog
<1>1. ASSUME NEW i \in Installs, NEW v \in Versions, NEW c \in Contents,
             NEW replace \in BOOLEAN, RunInstall(i, v, c, replace) \/ RunUpgrade(i, v, c)
      PROVE  WorkSound'
  BY <1>1 DEF RunInstall, RunUpgrade, Begin, Command
<1>2. CASE Acquire \/ ExtractPack \/ ResolveContent \/ RunRuntimeSmoke
  BY <1>2 DEF Acquire, ExtractPack, ResolveContent, RunRuntimeSmoke
<1>3. CASE EndFailed \/ UninstallFails \/ KillCommand \/ DevSmoke
  BY <1>3 DEF EndFailed, UninstallFails, KillCommand, DevSmoke
<1>4. CASE Materialize
  <2>1. CASE cli'.pc = "failed"
    BY <1>4, <2>1 DEF Materialize
  <2>2. CASE /\ cli' = [cli EXCEPT !.pc = "environment",
                                   !.packExisted = pack[cli.version] # NoDir,
                                   !.envExisted = env[cli.id][cli.version] # NoDir]
             /\ pack' = [pack EXCEPT ![cli.version] = cli.content]
    <3>1. /\ cli'.pc = "environment" /\ cli'.id = cli.id /\ cli'.version = cli.version
          /\ cli'.content = cli.content
          /\ cli'.packExisted = (pack[cli.version] # NoDir)
          /\ cli'.envExisted = (env[cli.id][cli.version] # NoDir)
          /\ cli.id \in Installs /\ cli.version \in Versions
          /\ UNCHANGED <<env, manifest, torn>>
      BY <1>4, <2>2 DEF Materialize
    <3>2. pack'[cli.version] = cli.content
      BY <2>2, <3>1
    <3>3. pack[cli.version] = NoDir =>
            \A j \in Installs : manifest[j].version = cli.version => j \in torn
      BY <3>1
    <3>4. env[cli.id][cli.version] = NoDir =>
            (manifest[cli.id].version = cli.version => cli.id \in torn)
      BY <3>1
    <3> QED
      BY <3>1, <3>2, <3>3, <3>4
  <2> QED
    BY <1>4, <2>1, <2>2 DEF Materialize
<1>5. CASE BuildEnvironment
  BY <1>5 DEF BuildEnvironment
<1>6. CASE EnvironmentBuilt
  <2>1. \A x \in Contents \cup {NoDir, Partial}, j \in Installs, w \in Versions :
          [env EXCEPT ![cli.id][cli.version] = x][j][w] =
            IF j = cli.id /\ w = cli.version THEN x ELSE env[j][w]
    BY <1>6, EnvAfter DEF EnvironmentBuilt
  <2> QED
    BY <1>6, <2>1 DEF EnvironmentBuilt
<1>7. CASE ActivateRuntimeInstallation \/ PlaceCatalog \/ Activated
  BY <1>7 DEF ActivateRuntimeInstallation, PlaceCatalog, Activated
<1>8. CASE WriteRuntimeManifest
  BY <1>8 DEF WriteRuntimeManifest
<1>9. CASE RollbackInstall
  BY <1>9 DEF RollbackInstall
<1>10. CASE CopyDevelopmentCatalog
  BY <1>10 DEF CopyDevelopmentCatalog
<1>11. CASE DevRegister
  BY <1>11 DEF DevRegister
<1>12. CASE RemoveCatalog \/ RemoveEnvironment \/ RemovePack
  BY <1>12 DEF RemoveCatalog, RemoveEnvironment, RemovePack
<1>13. CASE RemoveManifest
  BY <1>13 DEF RemoveManifest
<1>14. ASSUME NEW i \in Installs, NEW replace \in BOOLEAN,
              InstallDevelopment(i, replace) \/ RegisterManifest(i, replace)
       PROVE  WorkSound'
  BY <1>14 DEF InstallDevelopment, RegisterManifest, Command
<1>15. ASSUME NEW i \in Installs, RunUninstall(i)
       PROVE  WorkSound'
  BY <1>15 DEF RunUninstall, Command
<1>16. ASSUME NEW i \in Installs, BindProject(i) \/ EndpointUp(i) \/ EndpointDown(i)
       PROVE  WorkSound'
  BY <1>16 DEF BindProject, EndpointUp, EndpointDown
<1>17. CASE UNCHANGED rtVars
  BY <1>17 DEF rtVars
<1> HIDE DEF FilesTyped, CliTyped, WorkSound, InstalledIsComplete, Installed, Diagnose, Waiting,
         Working, Developing, Uninstalling, ForPack, At, Goto, GoOnOrEnd, Idle, fileVars,
         useVars, rtVars, RestoreCatalog
<1> QED
  BY <1>1, <1>2, <1>3, <1>4, <1>5, <1>6, <1>7, <1>8, <1>9, <1>10, <1>11, <1>12, <1>13, <1>14,
     <1>15, <1>16, <1>17
  DEF RtNext

LEMMA RtUninstallStep ==
  ASSUME FilesTyped, CliTyped, UninstallSound, [RtNext]_rtVars
  PROVE  UninstallSound'
<1> USE RuntimeInstallAssumption DEF FilesTyped, CliTyped, UninstallSound,
        PackUsedByOtherInstallation, Waiting, Working, Developing, Uninstalling, ForPack, At,
        Goto, GoOnOrEnd, Idle, fileVars, useVars, rtVars, RestoreCatalog
<1>1. ASSUME NEW i \in Installs, NEW v \in Versions, NEW c \in Contents,
             NEW replace \in BOOLEAN, RunInstall(i, v, c, replace) \/ RunUpgrade(i, v, c)
      PROVE  UninstallSound'
  BY <1>1 DEF RunInstall, RunUpgrade, Begin, Command
<1>2. CASE Acquire \/ ExtractPack \/ ResolveContent \/ RunRuntimeSmoke
  BY <1>2 DEF Acquire, ExtractPack, ResolveContent, RunRuntimeSmoke
<1>3. CASE EndFailed \/ UninstallFails \/ KillCommand \/ DevSmoke
  BY <1>3 DEF EndFailed, UninstallFails, KillCommand, DevSmoke
<1>4. CASE Materialize
  BY <1>4 DEF Materialize
<1>5. CASE BuildEnvironment
  BY <1>5 DEF BuildEnvironment
<1>6. CASE EnvironmentBuilt
  BY <1>6 DEF EnvironmentBuilt
<1>7. CASE ActivateRuntimeInstallation \/ PlaceCatalog \/ Activated
  BY <1>7 DEF ActivateRuntimeInstallation, PlaceCatalog, Activated
<1>8. CASE WriteRuntimeManifest
  BY <1>8 DEF WriteRuntimeManifest
<1>9. CASE RollbackInstall
  BY <1>9 DEF RollbackInstall
<1>10. CASE CopyDevelopmentCatalog
  BY <1>10 DEF CopyDevelopmentCatalog
<1>11. CASE DevRegister
  BY <1>11 DEF DevRegister
<1>12. CASE RemoveCatalog \/ RemoveEnvironment \/ RemovePack
  BY <1>12 DEF RemoveCatalog, RemoveEnvironment, RemovePack
<1>13. CASE RemoveManifest
  BY <1>13 DEF RemoveManifest
<1>14. ASSUME NEW i \in Installs, NEW replace \in BOOLEAN,
              InstallDevelopment(i, replace) \/ RegisterManifest(i, replace)
       PROVE  UninstallSound'
  BY <1>14 DEF InstallDevelopment, RegisterManifest, Command
<1>15. ASSUME NEW i \in Installs, RunUninstall(i)
       PROVE  UninstallSound'
  BY <1>15 DEF RunUninstall, Command
<1>16. ASSUME NEW i \in Installs, BindProject(i) \/ EndpointUp(i) \/ EndpointDown(i)
       PROVE  UninstallSound'
  BY <1>16 DEF BindProject, EndpointUp, EndpointDown
<1>17. CASE UNCHANGED rtVars
  BY <1>17 DEF rtVars
<1> HIDE DEF FilesTyped, CliTyped, UninstallSound, PackUsedByOtherInstallation, Waiting,
         Working, Developing, Uninstalling, ForPack, At, Goto, GoOnOrEnd, Idle, fileVars,
         useVars, rtVars, RestoreCatalog
<1> QED
  BY <1>1, <1>2, <1>3, <1>4, <1>5, <1>6, <1>7, <1>8, <1>9, <1>10, <1>11, <1>12, <1>13, <1>14,
     <1>15, <1>16, <1>17
  DEF RtNext

LEMMA RtCompleteStep ==
  ASSUME FilesTyped, CliTyped, WorkSound, UninstallSound, InstalledIsComplete, [RtNext]_rtVars
  PROVE  InstalledIsComplete'
<1> USE RuntimeInstallAssumption DEF FilesTyped, CliTyped, WorkSound, UninstallSound,
        InstalledIsComplete, Installed, Diagnose, ActivateRefused, Waiting, Working, Developing,
        Uninstalling, ForPack, At, Goto, GoOnOrEnd, Idle, fileVars, useVars, rtVars,
        RestoreCatalog, NoManifest
<1>1. ASSUME NEW i \in Installs, NEW v \in Versions, NEW c \in Contents,
             NEW replace \in BOOLEAN, RunInstall(i, v, c, replace) \/ RunUpgrade(i, v, c)
      PROVE  InstalledIsComplete'
  BY <1>1 DEF RunInstall, RunUpgrade, Begin, Command
<1>2. CASE Acquire \/ ExtractPack \/ ResolveContent \/ RunRuntimeSmoke
  BY <1>2 DEF Acquire, ExtractPack, ResolveContent, RunRuntimeSmoke
<1>3. CASE EndFailed \/ UninstallFails \/ KillCommand \/ DevSmoke
  BY <1>3 DEF EndFailed, UninstallFails, KillCommand, DevSmoke
<1>4. CASE Materialize
  BY <1>4 DEF Materialize
<1>5. CASE BuildEnvironment
  <2>1. \A x \in Contents \cup {NoDir, Partial}, j \in Installs, w \in Versions :
          [env EXCEPT ![cli.id][cli.version] = x][j][w] =
            IF j = cli.id /\ w = cli.version THEN x ELSE env[j][w]
    BY <1>5, EnvAfter DEF BuildEnvironment
  <2> QED
    BY <1>5, <2>1 DEF BuildEnvironment
<1>6. CASE EnvironmentBuilt
  BY <1>6 DEF EnvironmentBuilt
<1>7. CASE ActivateRuntimeInstallation \/ PlaceCatalog \/ Activated
  BY <1>7 DEF ActivateRuntimeInstallation, PlaceCatalog, Activated
<1>8. CASE WriteRuntimeManifest
  BY <1>8 DEF WriteRuntimeManifest
<1>9. CASE RollbackInstall
  BY <1>9 DEF RollbackInstall
<1>10. CASE CopyDevelopmentCatalog
  BY <1>10 DEF CopyDevelopmentCatalog
<1>11. CASE DevRegister
  BY <1>11 DEF DevRegister
<1>12. CASE RemoveCatalog \/ RemoveEnvironment \/ RemovePack
  BY <1>12 DEF RemoveCatalog, RemoveEnvironment, RemovePack
<1>13. CASE RemoveManifest
  BY <1>13 DEF RemoveManifest
<1>14. ASSUME NEW i \in Installs, NEW replace \in BOOLEAN,
              InstallDevelopment(i, replace) \/ RegisterManifest(i, replace)
       PROVE  InstalledIsComplete'
  BY <1>14 DEF InstallDevelopment, RegisterManifest, Command
<1>15. ASSUME NEW i \in Installs, RunUninstall(i)
       PROVE  InstalledIsComplete'
  BY <1>15 DEF RunUninstall, Command
<1>16. ASSUME NEW i \in Installs, BindProject(i) \/ EndpointUp(i) \/ EndpointDown(i)
       PROVE  InstalledIsComplete'
  BY <1>16 DEF BindProject, EndpointUp, EndpointDown
<1>17. CASE UNCHANGED rtVars
  BY <1>17 DEF rtVars
<1> HIDE DEF FilesTyped, CliTyped, WorkSound, UninstallSound, InstalledIsComplete, Installed,
         Diagnose, ActivateRefused, Waiting, Working, Developing, Uninstalling, ForPack, At,
         Goto, GoOnOrEnd, Idle, fileVars, useVars, rtVars, RestoreCatalog, NoManifest
<1> QED
  BY <1>1, <1>2, <1>3, <1>4, <1>5, <1>6, <1>7, <1>8, <1>9, <1>10, <1>11, <1>12, <1>13, <1>14,
     <1>15, <1>16, <1>17
  DEF RtNext

LEMMA RtBeforeStep ==
  ASSUME FilesTyped, CliTyped, WorkSound, BeforeSound, [RtNext]_rtVars
  PROVE  BeforeSound'
<1> USE RuntimeInstallAssumption DEF FilesTyped, CliTyped, WorkSound, BeforeSound, FilesOf,
        CatalogUndone, EnvUndone, PackUndone, Waiting, Working, Developing, Uninstalling,
        ForPack, At, Goto, GoOnOrEnd, Idle, fileVars, useVars, rtVars, RestoreCatalog
<1>1. ASSUME NEW i \in Installs, NEW v \in Versions, NEW c \in Contents,
             NEW replace \in BOOLEAN, RunInstall(i, v, c, replace) \/ RunUpgrade(i, v, c)
      PROVE  BeforeSound'
  BY <1>1 DEF RunInstall, RunUpgrade, Begin, Command
<1>2. CASE Acquire \/ ExtractPack \/ ResolveContent \/ RunRuntimeSmoke
  BY <1>2 DEF Acquire, ExtractPack, ResolveContent, RunRuntimeSmoke
<1>3. CASE EndFailed \/ UninstallFails \/ KillCommand \/ DevSmoke
  BY <1>3 DEF EndFailed, UninstallFails, KillCommand, DevSmoke
<1>4. CASE Materialize
  <2>0. /\ cli.pc = "materialize" /\ cli.id \in Installs /\ cli.version \in Versions
        /\ DOMAIN cli = {"pc", "id", "version", "content", "replace", "packExisted",
                         "envExisted", "before"}
        /\ DOMAIN pack = Versions
        /\ cli.before = FilesOf(cli.id)
        /\ UNCHANGED <<env, catalog, previous, manifest>>
    <3> HIDE DEF FilesOf
    <3> QED
      BY <1>4 DEF Materialize
  <2> HIDE DEF WorkSound, FilesTyped, CliTyped
  <2>1. CASE Goto("failed") /\ UNCHANGED pack
    <3>1. cli'.pc = "failed" /\ cli'.id = cli.id /\ cli'.before = cli.before
      <4> HIDE DEF FilesOf
      <4> QED
        BY <2>0, <2>1
    <3>2. FilesOf(cli.id)' = FilesOf(cli.id)
      BY <2>0, <2>1, <3>1
    <3> HIDE DEF FilesOf
    <3> QED
      BY <2>0, <3>1, <3>2
  <2>2. CASE /\ cli' = [cli EXCEPT !.pc = "environment",
                                   !.packExisted = pack[cli.version] # NoDir,
                                   !.envExisted = env[cli.id][cli.version] # NoDir]
             /\ pack' = [pack EXCEPT ![cli.version] = cli.content]
             /\ pack[cli.version] # NoDir => pack[cli.version] = cli.content
    <3>1. /\ cli'.pc = "environment" /\ cli'.id = cli.id /\ cli'.version = cli.version
          /\ cli'.before = cli.before
          /\ cli'.packExisted = (pack[cli.version] # NoDir)
          /\ cli'.envExisted = (env[cli.id][cli.version] # NoDir)
      <4> HIDE DEF FilesOf
      <4> QED
        BY <2>0, <2>2
    <3>2. CatalogUndone' = catalog[cli.id]
      BY <2>0, <3>1
    <3>3. EnvUndone' = FilesOf(cli.id).env
      BY <2>0, <3>1
    <3>4. PackUndone' = FilesOf(cli.id).pack
      <4>1. DOMAIN pack = Versions /\ \A v \in Versions :
              pack'[v] = IF v = cli.version THEN cli.content ELSE pack[v]
        BY <2>0, <2>2
      <4> QED
        BY <2>0, <2>2, <3>1, <4>1
    <3>5. FilesOf(cli.id) = [manifest |-> manifest[cli.id], catalog |-> catalog[cli.id],
                             env |-> FilesOf(cli.id).env, pack |-> FilesOf(cli.id).pack]
      OBVIOUS
    <3> HIDE DEF FilesOf, CatalogUndone, EnvUndone, PackUndone
    <3> QED
      BY <2>0, <3>1, <3>2, <3>3, <3>4, <3>5
  <2> QED
    BY <1>4, <2>1, <2>2 DEF Materialize
<1>5. CASE BuildEnvironment
  BY <1>5 DEF BuildEnvironment
<1>6. CASE EnvironmentBuilt
  BY <1>6 DEF EnvironmentBuilt
<1>7. CASE ActivateRuntimeInstallation \/ PlaceCatalog \/ Activated
  <2>1. CASE ActivateRuntimeInstallation
    <3>1. /\ cli.pc = "activate" /\ cli.id \in Installs /\ cli'.id = cli.id
          /\ cli'.version = cli.version /\ cli'.before = cli.before
          /\ cli'.packExisted = cli.packExisted /\ cli'.envExisted = cli.envExisted
          /\ UNCHANGED <<pack, env, manifest>>
      BY <2>1 DEF ActivateRuntimeInstallation
    <3>2. CatalogUndone' = CatalogUndone /\ cli'.pc \in {"rollback", "register", "place"}
      BY <2>1, <3>1 DEF ActivateRuntimeInstallation
    <3>3. EnvUndone' = EnvUndone /\ PackUndone' = PackUndone
      BY <3>1
    <3> HIDE DEF CatalogUndone, EnvUndone, PackUndone
    <3> QED
      BY <3>1, <3>2, <3>3
  <2>2. CASE PlaceCatalog
    <3>1. /\ cli.pc = "place" /\ cli.id \in Installs /\ cli'.id = cli.id
          /\ cli'.version = cli.version /\ cli'.before = cli.before
          /\ cli'.packExisted = cli.packExisted /\ cli'.envExisted = cli.envExisted
          /\ UNCHANGED <<pack, env, manifest>>
      BY <2>2 DEF PlaceCatalog
    <3>2. CatalogUndone' = CatalogUndone /\ cli'.pc \in {"rollback", "register"}
      BY <2>2, <3>1 DEF PlaceCatalog
    <3>3. EnvUndone' = EnvUndone /\ PackUndone' = PackUndone
      BY <3>1
    <3> HIDE DEF CatalogUndone, EnvUndone, PackUndone
    <3> QED
      BY <3>1, <3>2, <3>3
  <2>3. CASE Activated
    BY <2>3 DEF Activated
  <2> QED
    BY <1>7, <2>1, <2>2, <2>3
<1>8. CASE WriteRuntimeManifest
  BY <1>8 DEF WriteRuntimeManifest
<1>9. CASE RollbackInstall
  BY <1>9 DEF RollbackInstall
<1>10. CASE CopyDevelopmentCatalog
  BY <1>10 DEF CopyDevelopmentCatalog
<1>11. CASE DevRegister
  BY <1>11 DEF DevRegister
<1>12. CASE RemoveCatalog \/ RemoveEnvironment \/ RemovePack
  BY <1>12 DEF RemoveCatalog, RemoveEnvironment, RemovePack
<1>13. CASE RemoveManifest
  BY <1>13 DEF RemoveManifest
<1>14. ASSUME NEW i \in Installs, NEW replace \in BOOLEAN,
              InstallDevelopment(i, replace) \/ RegisterManifest(i, replace)
       PROVE  BeforeSound'
  BY <1>14 DEF InstallDevelopment, RegisterManifest, Command
<1>15. ASSUME NEW i \in Installs, RunUninstall(i)
       PROVE  BeforeSound'
  BY <1>15 DEF RunUninstall, Command
<1>16. ASSUME NEW i \in Installs, BindProject(i) \/ EndpointUp(i) \/ EndpointDown(i)
       PROVE  BeforeSound'
  BY <1>16 DEF BindProject, EndpointUp, EndpointDown
<1>17. CASE UNCHANGED rtVars
  BY <1>17 DEF rtVars
<1> HIDE DEF FilesTyped, CliTyped, WorkSound, BeforeSound, FilesOf, CatalogUndone, EnvUndone,
         PackUndone, Waiting, Working, Developing, Uninstalling, ForPack, At, Goto, GoOnOrEnd,
         Idle, fileVars, useVars, rtVars, RestoreCatalog
<1> QED
  BY <1>1, <1>2, <1>3, <1>4, <1>5, <1>6, <1>7, <1>8, <1>9, <1>10, <1>11, <1>12, <1>13, <1>14,
     <1>15, <1>16, <1>17
  DEF RtNext

LEMMA RtInitGood == RtInit => RtInv
<1> SUFFICES ASSUME RtInit
             PROVE  RtInv
  OBVIOUS
<1>1. cli.pc = "idle" /\ \A i \in Installs : manifest[i].version = NoDir
  BY DEF RtInit, Idle, NoManifest
<1>2. FilesTyped /\ InstalledIsComplete
  BY <1>1, RuntimeInstallAssumption DEF RtInit, FilesTyped, InstalledIsComplete, Installed
<1>3. CliTyped /\ WorkSound /\ UninstallSound /\ BeforeSound
  BY <1>1 DEF CliTyped, WorkSound, UninstallSound, BeforeSound, ForPack, Waiting, Working,
              Developing, Uninstalling
<1> QED
  BY <1>2, <1>3 DEF RtInv

LEMMA RtInvStep == RtInv /\ [RtNext]_rtVars => RtInv'
  BY RtCliStep, RtFilesStep, RtWorkStep, RtUninstallStep, RtCompleteStep, RtBeforeStep DEF RtInv

\* Whatever commands fail or are killed, an installation the Server sees passes "doctor",
\* and a failed command leaves it as it was (installRuntimePack, its rollback and
\* packUsedByOtherInstallation, src/cmd/semantic/runtime_install.go).
THEOREM InstallationsStayWhole == RtSpec => []InstallationsAreWhole
<1>1. RtInv => InstallationsAreWhole
  BY DEF RtInv, BeforeSound, Waiting, InstallationsAreWhole, FailedInstallKeepsOld, At
<1> QED
  BY <1>1, RtInitGood, RtInvStep, PTL DEF RtSpec

-----------------------------------------------------------------------------
(* Sequences of commands and reports.                                      *)

Has(s, x) == \E i \in DOMAIN s : s[i] = x

LEMMA HasAppend ==
  ASSUME NEW S, NEW s \in Seq(S), NEW e \in S, NEW x
  PROVE  Has(Append(s, e), x) <=> Has(s, x) \/ x = e
<1>1. /\ Append(s, e) \in Seq(S) /\ Len(Append(s, e)) = Len(s) + 1
      /\ \A i \in 1..Len(s) : Append(s, e)[i] = s[i]
      /\ Append(s, e)[Len(s) + 1] = e
  BY AppendProperties
<1>2. DOMAIN s = 1..Len(s) /\ DOMAIN Append(s, e) = 1..Len(s) + 1 /\ Len(s) \in Nat
  BY <1>1, LenProperties
<1>3. \A i \in 1..Len(s) + 1 : i \in 1..Len(s) \/ i = Len(s) + 1
  BY <1>2
<1>4. 1..Len(s) \subseteq 1..Len(s) + 1 /\ Len(s) + 1 \in 1..Len(s) + 1
  BY <1>2
<1> QED
  BY <1>1, <1>2, <1>3, <1>4 DEF Has

LEMMA HasTail ==
  ASSUME NEW S, NEW s \in Seq(S), s # <<>>, NEW x
  PROVE  Has(s, x) <=> x = Head(s) \/ Has(Tail(s), x)
<1>1. /\ Tail(s) \in Seq(S) /\ Len(Tail(s)) = Len(s) - 1
      /\ \A i \in 1..Len(Tail(s)) : Tail(s)[i] = s[i + 1]
      /\ Len(s) \in Nat \ {0} /\ Head(s) = s[1]
  BY HeadTailProperties, EmptySeq
<1>2. DOMAIN s = 1..Len(s) /\ DOMAIN Tail(s) = 1..Len(s) - 1
  BY <1>1, LenProperties
<1>3. \A i \in 1..Len(s) : i = 1 \/ i - 1 \in 1..Len(s) - 1
  BY <1>1
<1>4. 1 \in 1..Len(s) /\ \A i \in 1..Len(s) - 1 : i + 1 \in 1..Len(s)
  BY <1>1
<1>5. \A i \in 1..Len(s) : i # 1 => Tail(s)[i - 1] = s[i]
  BY <1>1, <1>3
<1> QED
  BY <1>1, <1>2, <1>3, <1>4, <1>5 DEF Has

LEMMA HasConcat ==
  ASSUME NEW S, NEW s \in Seq(S), NEW t \in Seq(S), NEW x
  PROVE  Has(s \o t, x) <=> Has(s, x) \/ Has(t, x)
<1>1. /\ s \o t \in Seq(S) /\ Len(s \o t) = Len(s) + Len(t)
      /\ \A i \in 1..Len(s) + Len(t) :
           (s \o t)[i] = IF i <= Len(s) THEN s[i] ELSE t[i - Len(s)]
      /\ Len(s) \in Nat /\ Len(t) \in Nat
  BY ConcatProperties, LenProperties
<1>2. /\ DOMAIN s = 1..Len(s) /\ DOMAIN t = 1..Len(t)
      /\ DOMAIN (s \o t) = 1..Len(s) + Len(t)
  BY <1>1, LenProperties
<1>3. \A i \in 1..Len(s) : i \in 1..Len(s) + Len(t) /\ (s \o t)[i] = s[i]
  BY <1>1
<1>4. \A i \in 1..Len(t) : i + Len(s) \in 1..Len(s) + Len(t) /\ (s \o t)[i + Len(s)] = t[i]
  BY <1>1
<1>5. \A i \in 1..Len(s) + Len(t) : i \in 1..Len(s) \/ i - Len(s) \in 1..Len(t)
  BY <1>1
<1>6. \A i \in 1..Len(s) + Len(t) :
        i \in 1..Len(s) \/ (i - Len(s) \in 1..Len(t) /\ (s \o t)[i] = t[i - Len(s)])
  BY <1>1, <1>5
<1> QED
  BY <1>2, <1>3, <1>4, <1>6 DEF Has


LEMMA HasPart ==
  ASSUME NEW S, NEW s \in Seq(S), NEW x, Has(s, x)
  PROVE  x \in S /\ s # <<>>
<1>1. DOMAIN s = 1..Len(s) /\ Len(s) \in Nat /\ \A i \in 1..Len(s) : s[i] \in S
  BY LenProperties, ElementOfSeq
<1> QED
  BY <1>1, EmptySeq DEF Has

-----------------------------------------------------------------------------
(* The Skills of a Robot.                                                  *)

SkillCommands == [do : {"install", "enable", "disable", "uninstall", "start"}, v : Vs]
Comparisons == [do : {"install", "enable", "disable"}, v : Vs]
Rows == {"none", "failed", "off", "on", "uninstalled"}
Statuses == [kind : {"status"}, v : Vs, row : Rows]
Acks == [kind : {"ack"}, command : SkillCommands, ok : BOOLEAN]
Reported == Statuses \cup Acks

SpTyped ==
  /\ DOMAIN archive = Vs /\ DOMAIN folder = Vs /\ DOMAIN actual = Vs
  /\ \A v \in Vs : actual[v] \in Rows /\ archive[v] \in SkillContents \cup {NoFile}
  /\ toRobot \in Seq(SkillCommands) /\ fromRobot \in Seq(Reported)
  /\ pending \subseteq SkillCommands /\ found \subseteq Comparisons
  /\ due \in Nat /\ DOMAIN Released \subseteq registered
  /\ desired # NoSkill => desired.v \in Vs
  /\ active \in Vs \cup {NoSkill} /\ resolves \in Vs \cup {NoSkill}
  /\ worker \in Vs \cup {NoSkill} /\ deleting \in Vs \cup {NoSkill}

\* What the Pilot uses is in its place and is not being removed; only versions of the
\* registry are on their way to it.
PackagesSound ==
  /\ worker # NoSkill => Loads(worker) /\ deleting # worker
  /\ resolves # NoSkill => Loads(resolves) /\ deleting # resolves
  /\ active # NoSkill => Loads(active) /\ deleting # active
  /\ \A v \in Vs : folder[v] \in SkillContents => v \in registered /\ folder[v] = archive[v]
  /\ \A c \in SkillCommands : Has(toRobot, c) /\ c.do = "install" => c.v \in registered

\* A command without an acknowledgement is on its way, is answered, or is the removal the
\* Pilot is at.
Coming(c) ==
  \/ Has(toRobot, c)
  \/ Has(fromRobot, SkillAck(c, TRUE)) \/ Has(fromRobot, SkillAck(c, FALSE))
  \/ c = [do |-> "uninstall", v |-> deleting]
LinkSound ==
  /\ session \in {"down", "joining", "up"}
  /\ session = "down" => pending = {}
  /\ session = "joining" => deleting = NoSkill
  /\ \A c \in pending : Coming(c) /\ c.do # "start"

\* What the rows lack is going to be compared, was compared, or was sent.
Noticed ==
  session = "up" /\ desired # NoSkill /\ desired.v \in DOMAIN Released /\ Lacks(desired) # {} =>
    due > 0 \/ (\E c \in found : c.v = desired.v) \/ InFlight(desired.v)

SpInv == SpTyped /\ PackagesSound /\ LinkSound /\ Noticed

LEMMA StatusKind ==
  ASSUME NEW v, NEW row
  PROVE  /\ Status(v, row).kind = "status" /\ Status(v, row).v = v /\ Status(v, row).row = row
         /\ \A c, ok : Status(v, row) # SkillAck(c, ok)
<1>1. \A c, ok : SkillAck(c, ok).kind = "ack"
  BY DEF SkillAck
<1> QED
  BY <1>1 DEF Status

LEMMA AckKind ==
  ASSUME NEW c, NEW ok \in BOOLEAN
  PROVE  /\ SkillAck(c, ok).kind = "ack" /\ SkillAck(c, ok).command = c
         /\ SkillAck(c, ok).ok <=> ok
<1>1. SkillAck(c, ok).ok = ok
  BY Zenon DEF SkillAck
<1> QED
  BY <1>1 DEF SkillAck

LEMMA ReportedKinds ==
  ASSUME NEW m \in Reported
  PROVE  \/ /\ m.kind = "status" /\ m.v \in Vs /\ m.row \in Rows
            /\ \A c, ok : m # SkillAck(c, ok)
         \/ /\ m.kind = "ack" /\ m.command \in SkillCommands
            /\ m = SkillAck(m.command, TRUE) \/ m = SkillAck(m.command, FALSE)
            /\ \A d : \A ok \in BOOLEAN : m = SkillAck(d, ok) => d = m.command
<1>1. CASE m \in Statuses
  <2>1. m.kind = "status" /\ m.v \in Vs /\ m.row \in Rows
    BY <1>1 DEF Statuses
  <2>2. \A c, ok : SkillAck(c, ok).kind = "ack"
    BY DEF SkillAck
  <2> QED
    BY <2>1, <2>2
<1>2. CASE m \in Acks
  <2>1. m.kind = "ack" /\ m.command \in SkillCommands /\ m.ok \in BOOLEAN
    BY <1>2 DEF Acks
  <2>2. m = [kind |-> "ack", command |-> m.command, ok |-> m.ok]
    BY <1>2, Zenon DEF Acks
  <2>3. m.ok = TRUE \/ m.ok = FALSE
    BY <2>1
  <2>4. m = SkillAck(m.command, TRUE) \/ m = SkillAck(m.command, FALSE)
    BY <2>2, <2>3, Zenon DEF SkillAck
  <2>5. \A d : \A b \in BOOLEAN : SkillAck(d, b).command = d
    BY AckKind
  <2> QED
    BY <2>1, <2>4, <2>5
<1> QED
  BY <1>1, <1>2 DEF Reported

LEMMA TheyAreReported ==
  /\ \A v \in Vs, row \in Rows : Status(v, row) \in Reported
  /\ \A c \in SkillCommands : SkillAck(c, TRUE) \in Reported /\ SkillAck(c, FALSE) \in Reported
<1>1. \A v \in Vs, row \in Rows : Status(v, row) \in Statuses
  BY DEF Statuses, Status
<1>2. \A c \in SkillCommands, ok \in BOOLEAN : SkillAck(c, ok) \in Acks
  BY DEF Acks, SkillAck
<1> QED
  BY <1>1, <1>2 DEF Reported

LEMMA VersionsAreNamed ==
  /\ NoSkill \notin Vs
  /\ \A i \in DOMAIN SkillVersions : SkillVersions[i] \in Vs
  /\ NoFile \notin SkillContents /\ Broken \notin SkillContents /\ Hollow \notin SkillContents
  BY SkillPackagesAssumption DEF Vs, ToSet

\* A command that is sent is on its way, and the rest with it.
LEMMA Sent ==
  ASSUME SpTyped, LinkSound, NEW do \in {"install", "enable", "disable", "uninstall"},
         NEW v \in Vs, SendSkillCommandOnce(do, v),
         UNCHANGED <<session, fromRobot, deleting>>
  PROVE  /\ toRobot' \in Seq(SkillCommands) /\ pending' \subseteq SkillCommands
         /\ LinkSound'
         /\ session = "up" => \E c \in pending' : c.v = v
         /\ \A c : Has(toRobot', c) => Has(toRobot, c) \/ c = [do |-> do, v |-> v]
         /\ pending \subseteq pending'
<1> DEFINE d == [do |-> do, v |-> v]
<1>0. d \in SkillCommands /\ d.v = v /\ d.do = do
  BY DEF SkillCommands
<1>1. CASE session = "down" \/ InFlight(v)
  <2>1. UNCHANGED <<pending, toRobot>>
    BY <1>1 DEF SendSkillCommandOnce
  <2> QED
    BY <1>1, <2>1 DEF SpTyped, LinkSound, Coming, InFlight
<1>2. CASE ~(session = "down" \/ InFlight(v))
  <2>1. pending' = pending \cup {d} /\ toRobot' = Append(toRobot, d)
    BY <1>2 DEF SendSkillCommandOnce
  <2> HIDE DEF d
  <2>2. \A c : Has(toRobot', c) <=> Has(toRobot, c) \/ c = d
    BY <2>1, <1>0, HasAppend DEF SpTyped
  <2>3. toRobot' \in Seq(SkillCommands)
    BY <2>1, <1>0, AppendProperties DEF SpTyped
  <2>4. \A c \in pending' : Coming(c)' /\ c.do # "start"
    BY <1>0, <2>1, <2>2 DEF LinkSound, Coming
  <2>5. LinkSound'
    BY <1>2, <2>1, <2>4 DEF LinkSound
  <2> QED
    BY <1>0, <2>1, <2>2, <2>3, <2>5 DEF SpTyped, d
<1> QED
  BY <1>1, <1>2

LEMMA Taken ==
  ASSUME SpTyped, NEW do, PilotTakes(do)
  PROVE  /\ session = "up" /\ deleting = NoSkill
         /\ Head(toRobot) \in SkillCommands /\ Head(toRobot).do = do
         /\ Head(toRobot) = [do |-> do, v |-> Head(toRobot).v] /\ Head(toRobot).v \in Vs
         /\ toRobot' \in Seq(SkillCommands)
         /\ \A c : Has(toRobot, c) <=> c = Head(toRobot) \/ Has(toRobot', c)
<1>1. toRobot \in Seq(SkillCommands) /\ toRobot # <<>>
  BY DEF SpTyped, PilotTakes
<1>2. Head(toRobot) \in SkillCommands /\ Tail(toRobot) \in Seq(SkillCommands)
  BY <1>1, HeadTailProperties
<1>3. \A c : Has(toRobot, c) <=> c = Head(toRobot) \/ Has(Tail(toRobot), c)
  BY <1>1, HasTail
<1> QED
  BY <1>2, <1>3 DEF PilotTakes, SkillCommands

LEMMA ReportedOne ==
  ASSUME SpTyped, NEW m \in Reported, Reports(<<m>>)
  PROVE  /\ fromRobot' \in Seq(Reported)
         /\ \A x : Has(fromRobot', x) <=> Has(fromRobot, x) \/ x = m
<1>1. <<m>> \in Seq(Reported) /\ \A x : Has(<<m>>, x) <=> x = m
  BY DEF Has
<1> QED
  BY <1>1, HasConcat, ConcatProperties DEF Reports, SpTyped

LEMMA ReportedTwo ==
  ASSUME SpTyped, NEW m \in Reported, NEW n \in Reported, Reports(<<m, n>>)
  PROVE  /\ fromRobot' \in Seq(Reported)
         /\ \A x : Has(fromRobot', x) <=> Has(fromRobot, x) \/ x = m \/ x = n
<1>1. <<m, n>> \in Seq(Reported) /\ \A x : Has(<<m, n>>, x) <=> x = m \/ x = n
  BY DEF Has
<1> QED
  BY <1>1, HasConcat, ConcatProperties DEF Reports, SpTyped

LEMMA NextReport ==
  ASSUME SpTyped, fromRobot # <<>>, fromRobot' = Tail(fromRobot)
  PROVE  /\ Head(fromRobot) \in Reported /\ fromRobot' \in Seq(Reported)
         /\ \A x : Has(fromRobot, x) <=> x = Head(fromRobot) \/ Has(fromRobot', x)
<1>1. fromRobot \in Seq(Reported)
  BY DEF SpTyped
<1>2. Head(fromRobot) \in Reported /\ Tail(fromRobot) \in Seq(Reported)
  BY <1>1, HeadTailProperties
<1>3. \A x : Has(fromRobot, x) <=> x = Head(fromRobot) \/ Has(Tail(fromRobot), x)
  BY <1>1, HasTail
<1> QED
  BY <1>2, <1>3

LEMMA ComparedCounts == \A n \in Nat : Compared(n) \in Nat \ {0}
  BY SkillPackagesAssumption DEF Compared

LEMMA NothingOnTheWay == ASSUME NEW S, NEW x PROVE <<>> \in Seq(S) /\ ~Has(<<>>, x)
  BY EmptySeq DEF Has

\* The Server: what is published, wanted and compared.
LEMMA SpServerStep ==
  ASSUME SpInv,
         \/ \E v \in Vs, c \in SkillContents : PublishWrites(v, c)
         \/ SaveRobotSkillPackage \/ ReconcileReads \/ ReconcileSends \/ HandleRobotSkillAction
  PROVE  SpInv'
<1> USE DEF SpInv, registryVars, serverVars, wireVars, pilotVars, SpUser, SpSteady
<1>1. ASSUME NEW v \in Vs, NEW c \in SkillContents, PublishWrites(v, c)
      PROVE  SpInv'
  <2>1. UNCHANGED <<registered, serverVars, wireVars, pilotVars>>
    BY <1>1 DEF PublishWrites
  <2>2. \/ archive' = archive
        \/ archive' = [archive EXCEPT ![v] = c] /\ v \notin registered
    BY <1>1 DEF PublishWrites, GetRobotSkillPackage
  <2>3. SpTyped' /\ LinkSound' /\ Noticed'
    BY <2>1, <2>2 DEF SpTyped, LinkSound, Coming, Noticed, Lacks, InFlight
  <2>4. PackagesSound'
    BY <2>1, <2>2 DEF SpTyped, PackagesSound, Loads
  <2> QED
    BY <2>3, <2>4
<1>2. CASE SaveRobotSkillPackage
  <2>1. UNCHANGED <<archive, serverVars, wireVars, pilotVars>> /\ registered \subseteq registered'
    BY <1>2 DEF SaveRobotSkillPackage
  <2> QED
    BY <2>1 DEF SpTyped, PackagesSound, Loads, LinkSound, Coming, Noticed, Lacks, InFlight
<1>3. CASE ReconcileReads
  <2>1. /\ UNCHANGED <<registryVars, desired, actual, session, pending, wireVars, pilotVars>>
        /\ due' \in Nat
        /\ found' = IF session = "down" THEN found ELSE found \cup Missing
    BY <1>3 DEF ReconcileReads, SpTyped
  <2>2. /\ Missing \subseteq Comparisons
        /\ desired # NoSkill /\ Lacks(desired) # {} => \E c \in Missing : c.v = desired.v
    <3>1. CASE desired = NoSkill
      BY <3>1 DEF Missing, ListRobotDesiredSkills
    <3>2. CASE desired # NoSkill
      <4>1. Missing = {[do |-> do, v |-> desired.v] : do \in Lacks(desired)}
        BY <3>2 DEF Missing, ListRobotDesiredSkills
      <4>2. Lacks(desired) \subseteq {"install", "enable", "disable"} /\ desired.v \in Vs
        BY <3>2 DEF Lacks, SpTyped
      <4>3. Missing \subseteq Comparisons
        BY <4>1, <4>2 DEF Comparisons
      <4>4. ASSUME NEW do \in Lacks(desired)
            PROVE  \E c \in Missing : c.v = desired.v
        <5>1. [do |-> do, v |-> desired.v] \in Missing
          BY <4>1
        <5> QED
          BY <5>1
      <4> QED
        BY <4>3, <4>4
    <3> QED
      BY <3>1, <3>2
  <2>3. SpTyped' /\ PackagesSound' /\ LinkSound'
    BY <2>1, <2>2 DEF SpTyped, PackagesSound, Loads, LinkSound, Coming
  <2>4. Noticed'
    BY <2>1, <2>2 DEF Noticed, Lacks, InFlight
  <2> QED
    BY <2>3, <2>4
<1>4. CASE ReconcileSends
  <2>1. PICK c \in found :
          /\ found' = found \ {c}
          /\ IF c.do = "install" /\ ~GetRobotSkillPackage(c.v)
             THEN UNCHANGED <<pending, toRobot>>
             ELSE SendSkillCommandOnce(c.do, c.v)
          /\ UNCHANGED <<registryVars, desired, actual, session, due, fromRobot, pilotVars>>
    BY <1>4 DEF ReconcileSends
  <2>2. c \in SkillCommands /\ c.v \in Vs /\ c.do \in {"install", "enable", "disable"}
    BY <2>1 DEF SpTyped, SkillCommands, Comparisons
  <2>3. CASE c.do = "install" /\ c.v \notin registered
    <3>1. UNCHANGED <<pending, toRobot>> /\ (desired.v \in DOMAIN Released => c.v # desired.v)
      BY <2>1, <2>3 DEF GetRobotSkillPackage, SpTyped
    <3> QED
      BY <2>1, <2>3, <3>1
      DEF SpTyped, PackagesSound, Loads, LinkSound, Coming, Noticed, Lacks, InFlight
  <2>4. CASE ~(c.do = "install" /\ c.v \notin registered)
    <3>1. SendSkillCommandOnce(c.do, c.v)
      BY <2>1, <2>4 DEF GetRobotSkillPackage
    <3>2. /\ toRobot' \in Seq(SkillCommands) /\ pending' \subseteq SkillCommands
          /\ LinkSound'
          /\ session = "up" => \E d \in pending' : d.v = c.v
          /\ \A d : Has(toRobot', d) => Has(toRobot, d) \/ d = [do |-> c.do, v |-> c.v]
          /\ pending \subseteq pending'
      BY <2>1, <2>2, <3>1, Sent
    <3>3. SpTyped' /\ PackagesSound'
      BY <2>1, <2>2, <2>4, <3>2 DEF SpTyped, PackagesSound, Loads
    <3>4. Noticed'
      BY <2>1, <3>2 DEF Noticed, Lacks, InFlight
    <3> QED
      BY <3>2, <3>3, <3>4
  <2> QED
    BY <2>3, <2>4
<1>5. ASSUME NEW v \in Vs, NEW on \in BOOLEAN, SetDesiredSkill(v, on)
      PROVE  SpInv'
  <2>1. /\ UNCHANGED <<registryVars, actual, session, pending, found, wireVars, pilotVars>>
        /\ desired' = [v |-> v, on |-> on] /\ due' \in Nat \ {0}
    BY <1>5, ComparedCounts DEF SetDesiredSkill, SaveRobotDesiredSkill, SpTyped
  <2>2. desired'.v = v
    BY <2>1, Zenon
  <2> HIDE DEF SpUser, SpSteady
  <2>3. SpTyped'
    BY <2>1, <2>2 DEF SpTyped
  <2>4. PackagesSound' /\ LinkSound'
    BY <2>1 DEF PackagesSound, Loads, LinkSound, Coming
  <2>5. Noticed'
    <3>1. due' > 0
      BY <2>1
    <3> QED
      BY <3>1 DEF Noticed
  <2> QED
    BY <2>3, <2>4, <2>5
<1>6. CASE RemoveDesiredSkill
  <2>1. /\ desired' = NoSkill
        /\ UNCHANGED <<registryVars, actual, session, due, found, fromRobot, pilotVars>>
    BY <1>6 DEF RemoveDesiredSkill, DeleteRobotDesiredSkill
  <2>2. CASE UNCHANGED <<pending, toRobot>>
    BY <2>1, <2>2 DEF SpTyped, PackagesSound, Loads, LinkSound, Coming, Noticed
  <2>3. ASSUME NEW i \in DOMAIN SkillVersions,
               SendSkillCommandOnce("uninstall", SkillVersions[i])
        PROVE  SpInv'
    <3>1. SkillVersions[i] \in Vs
      BY VersionsAreNamed
    <3>2. /\ toRobot' \in Seq(SkillCommands) /\ pending' \subseteq SkillCommands
          /\ LinkSound'
          /\ \A d : Has(toRobot', d) =>
               Has(toRobot, d) \/ d = [do |-> "uninstall", v |-> SkillVersions[i]]
      BY <2>1, <2>3, <3>1, Sent
    <3> QED
      BY <2>1, <3>2 DEF SpTyped, PackagesSound, Loads, Noticed
  <2> QED
    BY <1>6, <2>2, <2>3 DEF RemoveDesiredSkill, ListRobotPilotSkills
<1> QED
  BY <1>1, <1>2, <1>3, <1>4, <1>5, <1>6 DEF HandleRobotSkillAction

\* The Server: what it starts and what it hears.
LEMMA SpMessageStep ==
  ASSUME SpInv,
         (\E v \in Vs : LaunchSkill(v)) \/ HandleSkillStatus \/ HandleSkillAck
  PROVE  SpInv'
<1> USE DEF SpInv, registryVars, serverVars, wireVars, pilotVars
<1>1. ASSUME NEW v \in Vs, LaunchSkill(v)
      PROVE  SpInv'
  <2> DEFINE d == [do |-> "start", v |-> v]
  <2>1. /\ toRobot' = Append(toRobot, d) /\ session # "down"
        /\ UNCHANGED <<registryVars, serverVars, fromRobot, pilotVars>>
    BY <1>1 DEF LaunchSkill
  <2>2. d \in SkillCommands /\ d.do # "install"
    BY DEF SkillCommands
  <2> HIDE DEF d
  <2>3. /\ toRobot' \in Seq(SkillCommands)
        /\ \A c : Has(toRobot', c) <=> Has(toRobot, c) \/ c = d
    BY <2>1, <2>2, AppendProperties, HasAppend DEF SpTyped
  <2>4. SpTyped' /\ PackagesSound'
    BY <2>1, <2>2, <2>3 DEF SpTyped, PackagesSound, Loads
  <2>5. LinkSound' /\ Noticed'
    BY <2>1, <2>2, <2>3 DEF LinkSound, Coming, Noticed, Lacks, InFlight
  <2> QED
    BY <2>4, <2>5
<1>2. CASE HandleSkillStatus
  <2> DEFINE m == Head(fromRobot)
  <2>1. /\ fromRobot # <<>> /\ fromRobot' = Tail(fromRobot) /\ m.kind = "status"
        /\ actual' = [actual EXCEPT ![m.v] = m.row]
        /\ due' \in Nat \ {0}
        /\ UNCHANGED <<registryVars, desired, session, pending, found, toRobot, pilotVars>>
    BY <1>2, ComparedCounts DEF HandleSkillStatus, SaveRobotPilotSkill, SpTyped
  <2> HIDE DEF m
  <2>2. /\ m \in Reported /\ fromRobot' \in Seq(Reported)
        /\ \A x : Has(fromRobot, x) <=> x = m \/ Has(fromRobot', x)
    BY <2>1, NextReport DEF m
  <2>3. m.v \in Vs /\ m.row \in Rows /\ \A c, ok : m # SkillAck(c, ok)
    BY <2>1, <2>2, ReportedKinds
  <2>4. SpTyped' /\ PackagesSound'
    BY <2>1, <2>2, <2>3 DEF SpTyped, PackagesSound, Loads
  <2>5. ASSUME NEW c \in pending
        PROVE  Coming(c)' /\ c.do # "start"
    <3>1. Coming(c) /\ c.do # "start" /\ m # SkillAck(c, TRUE) /\ m # SkillAck(c, FALSE)
      BY <2>3 DEF LinkSound
    <3> QED
      BY <2>1, <2>2, <3>1 DEF Coming
  <2>6. due' > 0
    BY <2>1
  <2>7. LinkSound'
    BY <2>1, <2>5 DEF LinkSound
  <2> QED
    BY <2>4, <2>6, <2>7 DEF Noticed
<1>3. CASE HandleSkillAck
  <2> DEFINE m == Head(fromRobot)
  <2>1. /\ fromRobot # <<>> /\ fromRobot' = Tail(fromRobot) /\ m.kind = "ack"
        /\ session = "up" /\ pending' = pending \ {m.command}
        /\ \/ due' \in Nat \ {0} /\ UNCHANGED actual
           \/ actual' = [actual EXCEPT ![m.command.v] = "failed"] /\ UNCHANGED due
        /\ UNCHANGED <<registryVars, desired, session, found, toRobot, pilotVars>>
    BY <1>3, ComparedCounts DEF HandleSkillAck, SaveRobotPilotSkill, SpTyped
  <2> HIDE DEF m
  <2>2. /\ m \in Reported /\ fromRobot' \in Seq(Reported)
        /\ \A x : Has(fromRobot, x) <=> x = m \/ Has(fromRobot', x)
    BY <2>1, NextReport DEF m
  <2>3. /\ m.command \in SkillCommands /\ m.command.v \in Vs
        /\ \A d : \A ok \in BOOLEAN : m = SkillAck(d, ok) => d = m.command
    BY <2>1, <2>2, ReportedKinds DEF SkillCommands
  <2>4. SpTyped' /\ PackagesSound'
    BY <2>1, <2>2, <2>3 DEF SpTyped, PackagesSound, Loads, Rows
  <2>5. LinkSound'
    <3>1. ASSUME NEW c \in pending \ {m.command}
          PROVE  Coming(c)' /\ c.do # "start"
      <4>1. Coming(c) /\ c.do # "start"
        BY DEF LinkSound
      <4>2. m # SkillAck(c, TRUE) /\ m # SkillAck(c, FALSE)
        BY <2>3
      <4> QED
        BY <2>1, <2>2, <4>1, <4>2 DEF Coming
    <3> QED
      BY <2>1, <3>1 DEF LinkSound
  <2>6. Noticed'
    <3>1. CASE due' \in Nat \ {0}
      <4>1. due' > 0
        BY <3>1
      <4> QED
        BY <4>1 DEF Noticed
    <3>2. CASE actual' = [actual EXCEPT ![m.command.v] = "failed"] /\ UNCHANGED due
      <4>1. CASE desired.v = m.command.v
        BY <2>1, <2>3, <3>2, <4>1 DEF Noticed, Lacks, SpTyped
      <4>2. CASE desired.v # m.command.v
        BY <2>1, <3>2, <4>2 DEF Noticed, Lacks, InFlight, SpTyped
      <4> QED
        BY <4>1, <4>2
    <3> QED
      BY <2>1, <3>1, <3>2
  <2> QED
    BY <2>4, <2>5, <2>6
<1> QED
  BY <1>1, <1>2, <1>3

\* The connection, and what ends it.
LEMMA SpConnectionStep ==
  ASSUME SpInv,
         ConnectionDrops \/ ConnectInstallsSession \/ ConnectReplacesRows \/ ServerRestarts
  PROVE  SpInv'
<1> USE DEF SpInv, registryVars, serverVars, wireVars, pilotVars
<1>1. CASE ConnectionDrops
  BY <1>1, NothingOnTheWay
  DEF ConnectionDrops, LinkLost, SpTyped, PackagesSound, Loads, LinkSound, Noticed
<1>2. CASE ServerRestarts
  BY <1>2, NothingOnTheWay
  DEF ServerRestarts, LinkLost, SpTyped, PackagesSound, Loads, LinkSound, Noticed
<1>3. CASE ConnectInstallsSession
  BY <1>3 DEF ConnectInstallsSession, SpTyped, PackagesSound, Loads, LinkSound, Coming, Noticed
<1>4. CASE ConnectReplacesRows
  <2>1. /\ session = "joining" /\ session' = "up" /\ actual' = ListInstalled
        /\ due' \in Nat \ {0} /\ desired' \in {desired, DefaultSkill}
        /\ UNCHANGED <<registryVars, pending, found, wireVars, pilotVars>>
    BY <1>4, ComparedCounts DEF ConnectReplacesRows, ReplaceRobotPilotSkills, SpTyped
  <2>2. due' > 0 /\ (DefaultSkill # NoSkill => DefaultSkill.v \in Vs)
    BY <2>1, SkillPackagesAssumption
  <2>3. SpTyped'
    BY <2>1, <2>2 DEF SpTyped, ListInstalled, Rows
  <2> QED
    BY <2>1, <2>2, <2>3 DEF PackagesSound, Loads, LinkSound, Coming, Noticed
<1> QED
  BY <1>1, <1>2, <1>3, <1>4

\* A Skill command the Pilot has taken and answered.
LEMMA Answered ==
  ASSUME SpTyped, LinkSound, NEW do, PilotTakes(do), UNCHANGED <<session, pending, deleting>>,
         \/ Has(fromRobot', SkillAck(Head(toRobot), TRUE))
         \/ Has(fromRobot', SkillAck(Head(toRobot), FALSE)),
         \A x : Has(fromRobot, x) => Has(fromRobot', x)
  PROVE  LinkSound'
<1>1. \A c : Has(toRobot, c) => c = Head(toRobot) \/ Has(toRobot', c)
  BY Taken
<1>2. ASSUME NEW c \in pending
      PROVE  Coming(c)' /\ c.do # "start"
  BY <1>1 DEF LinkSound, Coming
<1> QED
  BY <1>2 DEF LinkSound

\* What the Pilot does to a package.
LEMMA SpPackageStep ==
  ASSUME SpInv, PilotInstalls \/ PilotInstallFails \/ PilotEnables \/ PilotDisables
  PROVE  SpInv'
<1> USE DEF SpInv, registryVars, serverVars, wireVars, pilotVars
<1> DEFINE c == Head(toRobot)
<1>0. ASSUME NEW do, PilotTakes(do)
      PROVE  /\ c \in SkillCommands /\ c.do = do /\ c.v \in Vs /\ deleting = NoSkill
             /\ toRobot' \in Seq(SkillCommands) /\ Has(toRobot, c)
             /\ \A d : Has(toRobot', d) => Has(toRobot, d)
             /\ SkillAck(c, TRUE) \in Reported /\ SkillAck(c, FALSE) \in Reported
             /\ \A row \in Rows : Status(c.v, row) \in Reported
  BY <1>0, Taken, TheyAreReported
<1> HIDE DEF c
<1>1. CASE PilotInstalls
  <2>0. /\ PilotTakes("install") /\ folder' = [folder EXCEPT ![c.v] = Placed(c.v)]
        /\ \/ Reports(<<Status(c.v, "failed"), SkillAck(c, FALSE)>>)
           \/ Reports(<<Status(c.v, "off"), SkillAck(c, TRUE)>>)
        /\ UNCHANGED <<registryVars, serverVars, active, resolves, worker, deleting>>
    BY <1>1 DEF PilotInstalls, c
  <2>1. /\ fromRobot' \in Seq(Reported) /\ \A x : Has(fromRobot, x) => Has(fromRobot', x)
        /\ Has(fromRobot', SkillAck(c, TRUE)) \/ Has(fromRobot', SkillAck(c, FALSE))
    BY <1>0, <2>0, ReportedTwo DEF Rows
  <2>2. LinkSound'
    BY <2>0, <2>1, Answered DEF c
  <2>3. SpTyped'
    BY <1>0, <2>0, <2>1 DEF SpTyped
  <2>4. c.v \in registered
    BY <1>0, <2>0 DEF PackagesSound
  <2>5. PackagesSound'
    <3>1. \A v \in Vs : folder'[v] =
            IF v = c.v /\ folder[v] = NoFile THEN archive[v] ELSE folder[v]
      BY <1>0, <2>0 DEF SpTyped, Placed
    <3>2. \A v \in Vs : Loads(v) => Loads(v)'
      BY <3>1 DEF Loads
    <3>3. \A v \in Vs :
            folder'[v] \in SkillContents => v \in registered /\ folder'[v] = archive[v]
      BY <2>4, <3>1 DEF PackagesSound
    <3>4. /\ worker # NoSkill => worker \in Vs
          /\ resolves # NoSkill => resolves \in Vs
          /\ active # NoSkill => active \in Vs
      BY DEF SpTyped
    <3> QED
      BY <1>0, <2>0, <3>2, <3>3, <3>4 DEF PackagesSound
  <2> QED
    BY <2>0, <2>2, <2>3, <2>5 DEF Noticed, Lacks, InFlight
<1>2. CASE PilotInstallFails
  <2>0. /\ PilotTakes("install")
        /\ Reports(<<Status(c.v, "failed"), SkillAck(c, FALSE)>>)
        /\ UNCHANGED <<registryVars, serverVars, pilotVars>>
    BY <1>2 DEF PilotInstallFails, c
  <2>1. /\ fromRobot' \in Seq(Reported) /\ \A x : Has(fromRobot, x) => Has(fromRobot', x)
        /\ Has(fromRobot', SkillAck(c, FALSE))
    BY <1>0, <2>0, ReportedTwo DEF Rows
  <2>2. LinkSound'
    BY <2>0, <2>1, Answered DEF c
  <2>3. SpTyped' /\ PackagesSound'
    BY <1>0, <2>0, <2>1 DEF SpTyped, PackagesSound, Loads
  <2> QED
    BY <2>0, <2>2, <2>3 DEF Noticed, Lacks, InFlight
<1>3. CASE PilotEnables
  <2>0. /\ PilotTakes("enable")
        /\ \/ /\ Loads(c.v) /\ active' = c.v /\ resolves' = c.v
              /\ Reports(<<Status(c.v, "on"), SkillAck(c, TRUE)>>)
           \/ Reports(<<SkillAck(c, FALSE)>>) /\ UNCHANGED <<active, resolves>>
        /\ UNCHANGED <<registryVars, serverVars, folder, worker, deleting>>
    BY <1>3 DEF PilotEnables, activateSkill, CatalogInstalls, c
  <2>1. /\ fromRobot' \in Seq(Reported) /\ \A x : Has(fromRobot, x) => Has(fromRobot', x)
        /\ Has(fromRobot', SkillAck(c, TRUE)) \/ Has(fromRobot', SkillAck(c, FALSE))
    BY <1>0, <2>0, ReportedOne, ReportedTwo DEF Rows
  <2>2. LinkSound'
    BY <2>0, <2>1, Answered DEF c
  <2>3. SpTyped' /\ PackagesSound'
    BY <1>0, <2>0, <2>1, VersionsAreNamed DEF SpTyped, PackagesSound, Loads
  <2> QED
    BY <2>0, <2>2, <2>3 DEF Noticed, Lacks, InFlight
<1>4. CASE PilotDisables
  <2>0. /\ PilotTakes("disable")
        /\ active' \in {active, NoSkill} /\ resolves' \in {resolves, NoSkill}
        /\ \/ Reports(<<SkillAck(c, FALSE)>>)
           \/ Reports(<<Status(c.v, "off"), SkillAck(c, TRUE)>>)
        /\ UNCHANGED <<registryVars, serverVars, folder, worker, deleting>>
    BY <1>4 DEF PilotDisables, Disabled, CatalogRemoves, deactivateSkill, c
  <2>1. /\ fromRobot' \in Seq(Reported) /\ \A x : Has(fromRobot, x) => Has(fromRobot', x)
        /\ Has(fromRobot', SkillAck(c, TRUE)) \/ Has(fromRobot', SkillAck(c, FALSE))
    BY <1>0, <2>0, ReportedOne, ReportedTwo DEF Rows
  <2>2. LinkSound'
    BY <2>0, <2>1, Answered DEF c
  <2>3. SpTyped' /\ PackagesSound'
    BY <1>0, <2>0, <2>1 DEF SpTyped, PackagesSound, Loads
  <2> QED
    BY <2>0, <2>2, <2>3 DEF Noticed, Lacks, InFlight
<1> QED
  BY <1>1, <1>2, <1>3, <1>4

\* How the Pilot removes a package.
LEMMA SpRemovalStep ==
  ASSUME SpInv, PilotUninstalls \/ FolderRemoved
  PROVE  SpInv'
<1> USE DEF SpInv, registryVars, serverVars, wireVars, pilotVars
<1>1. CASE PilotUninstalls
  <2> DEFINE c == Head(toRobot)
  <2>0. /\ PilotTakes("uninstall")
        /\ \/ Reports(<<SkillAck(c, FALSE)>>) /\ UNCHANGED <<active, resolves, deleting>>
           \/ /\ worker # c.v /\ deleting' = c.v /\ UNCHANGED fromRobot
              /\ resolves' \in {resolves, NoSkill} \ {c.v} \/ resolves' = NoSkill
              /\ active' \in {active, NoSkill} \ {c.v} \/ active' = NoSkill
        /\ UNCHANGED <<registryVars, serverVars, folder, worker>>
    BY <1>1 DEF PilotUninstalls, SkillInUse, Disabled, CatalogRemoves, Resolve, deactivateSkill
  <2>1. /\ c \in SkillCommands /\ c.v \in Vs /\ c = [do |-> "uninstall", v |-> c.v]
        /\ deleting = NoSkill /\ session = "up"
        /\ toRobot' \in Seq(SkillCommands)
        /\ \A d : Has(toRobot, d) <=> d = c \/ Has(toRobot', d)
        /\ SkillAck(c, FALSE) \in Reported
    BY <2>0, Taken, TheyAreReported
  <2>2. CASE Reports(<<SkillAck(c, FALSE)>>) /\ UNCHANGED <<active, resolves, deleting>>
    <3>1. /\ fromRobot' \in Seq(Reported) /\ \A x : Has(fromRobot, x) => Has(fromRobot', x)
          /\ Has(fromRobot', SkillAck(c, FALSE))
      BY <2>1, <2>2, ReportedOne
    <3>2. LinkSound'
      BY <2>0, <2>2, <3>1, Answered
    <3> HIDE DEF c
    <3>3. SpTyped' /\ PackagesSound'
      BY <2>0, <2>1, <2>2, <3>1 DEF SpTyped, PackagesSound, Loads
    <3> QED
      BY <2>0, <2>2, <3>2, <3>3 DEF Noticed, Lacks, InFlight
  <2>3. CASE /\ worker # c.v /\ deleting' = c.v /\ UNCHANGED fromRobot
             /\ resolves' \in {resolves, NoSkill} \ {c.v} \/ resolves' = NoSkill
             /\ active' \in {active, NoSkill} \ {c.v} \/ active' = NoSkill
    <3> HIDE DEF c
    <3>1. ASSUME NEW d \in pending
          PROVE  Coming(d)' /\ d.do # "start"
      <4>1. d \in SkillCommands /\ Coming(d) /\ d.do # "start"
        BY DEF LinkSound, SpTyped
      <4>2. d # [do |-> "uninstall", v |-> deleting]
        BY <2>1, <4>1, VersionsAreNamed DEF SkillCommands
      <4>3. Has(fromRobot', SkillAck(d, TRUE)) <=> Has(fromRobot, SkillAck(d, TRUE))
        BY <2>3
      <4>4. Has(fromRobot', SkillAck(d, FALSE)) <=> Has(fromRobot, SkillAck(d, FALSE))
        BY <2>3
      <4> QED
        BY <2>1, <2>3, <4>1, <4>2, <4>3, <4>4 DEF Coming
    <3>2. LinkSound'
      BY <2>0, <2>1, <3>1 DEF LinkSound
    <3>3. SpTyped' /\ PackagesSound'
      BY <2>0, <2>1, <2>3, VersionsAreNamed DEF SpTyped, PackagesSound, Loads
    <3> QED
      BY <2>0, <3>2, <3>3 DEF Noticed, Lacks, InFlight
  <2> QED
    BY <2>0, <2>2, <2>3
<1>2. CASE FolderRemoved
  <2> DEFINE c == [do |-> "uninstall", v |-> deleting]
  <2>0. /\ deleting \in Vs /\ deleting # NoSkill /\ deleting' = NoSkill
        /\ folder' = [folder EXCEPT ![deleting] = NoFile]
        /\ \/ session = "up" /\ Reports(<<Status(deleting, "uninstalled"), SkillAck(c, TRUE)>>)
           \/ session # "up" /\ UNCHANGED fromRobot
        /\ UNCHANGED <<registryVars, serverVars, toRobot, active, resolves, worker>>
    BY <1>2 DEF FolderRemoved, SpTyped
  <2>1. c \in SkillCommands /\ c.do # "start"
    BY <2>0 DEF SkillCommands
  <2>2. SkillAck(c, TRUE) \in Reported /\ Status(deleting, "uninstalled") \in Reported
    BY <2>0, <2>1, TheyAreReported DEF Rows
  <2>3. /\ fromRobot' \in Seq(Reported) /\ \A x : Has(fromRobot, x) => Has(fromRobot', x)
        /\ session = "up" => Has(fromRobot', SkillAck(c, TRUE))
    <3> HIDE DEF c
    <3>1. CASE Reports(<<Status(deleting, "uninstalled"), SkillAck(c, TRUE)>>)
      <4>1. \A x : Has(fromRobot', x) <=>
              Has(fromRobot, x) \/ x = Status(deleting, "uninstalled") \/ x = SkillAck(c, TRUE)
        BY <2>2, <3>1, ReportedTwo
      <4>2. fromRobot' \in Seq(Reported)
        BY <2>2, <3>1, ReportedTwo
      <4> QED
        BY <4>1, <4>2
    <3>2. CASE session # "up" /\ UNCHANGED fromRobot
      BY <3>2 DEF SpTyped
    <3> QED
      BY <2>0, <3>1, <3>2
  <2>4. ASSUME NEW d \in pending
        PROVE  Coming(d)' /\ d.do # "start"
    <3>1. Coming(d) /\ d.do # "start" /\ session = "up"
      BY <2>0 DEF LinkSound
    <3> HIDE DEF c
    <3>2. Has(toRobot, d) \/ Has(fromRobot, SkillAck(d, TRUE)) \/ Has(fromRobot, SkillAck(d, FALSE))
          \/ d = c
      BY <3>1 DEF Coming, c
    <3> QED
      BY <2>0, <2>3, <3>1, <3>2 DEF Coming
  <2> HIDE DEF c
  <2>5. LinkSound'
    BY <2>0, <2>4 DEF LinkSound
  <2>6. SpTyped' /\ PackagesSound'
    BY <2>0, <2>3, VersionsAreNamed DEF SpTyped, PackagesSound, Loads
  <2> QED
    BY <2>0, <2>5, <2>6 DEF Noticed, Lacks, InFlight
<1> QED
  BY <1>1, <1>2

\* Workers, and the end of the Pilot.
LEMMA SpWorkerStep ==
  ASSUME SpInv, PilotStarts \/ WorkerEnds \/ PilotRestarts
  PROVE  SpInv'
<1> USE DEF SpInv, registryVars, serverVars, wireVars, pilotVars
<1>1. CASE PilotStarts
  <2>0. /\ PilotTakes("start") /\ worker' \in {worker, resolves}
        /\ UNCHANGED <<registryVars, serverVars, fromRobot, folder, active, resolves, deleting>>
    BY <1>1 DEF PilotStarts
  <2>1. /\ Head(toRobot).do = "start" /\ toRobot' \in Seq(SkillCommands)
        /\ \A d : Has(toRobot, d) <=> d = Head(toRobot) \/ Has(toRobot', d)
    BY <2>0, Taken
  <2>2. SpTyped' /\ PackagesSound'
    BY <2>0, <2>1 DEF SpTyped, PackagesSound, Loads
  <2>3. ASSUME NEW d \in pending
        PROVE  Coming(d)' /\ d.do # "start"
    <3>1. Coming(d) /\ d.do # "start"
      BY DEF LinkSound
    <3> QED
      BY <2>0, <2>1, <3>1 DEF Coming
  <2>4. LinkSound'
    BY <2>0, <2>3 DEF LinkSound
  <2> QED
    BY <2>0, <2>2, <2>4 DEF Noticed, Lacks, InFlight
<1>2. CASE WorkerEnds
  BY <1>2
  DEF WorkerEnds, SpTyped, PackagesSound, Loads, LinkSound, Coming, Noticed, Lacks, InFlight
<1>3. CASE PilotRestarts
  <2>1. /\ session' = "down" /\ pending' = {} /\ toRobot' = <<>> /\ fromRobot' = <<>>
        /\ resolves' = active /\ worker' \in {worker, NoSkill} /\ deleting' = NoSkill
        /\ worker' # NoSkill => worker' = active
        /\ UNCHANGED <<registryVars, desired, actual, due, found, active>>
        /\ \/ UNCHANGED folder
           \/ /\ deleting \in Vs
              /\ \E left \in {folder[deleting], Broken, Hollow} :
                   folder' = [folder EXCEPT ![deleting] = left]
    BY <1>3 DEF PilotRestarts, LinkLost, SpTyped
  <2>2. \A v \in Vs : /\ folder'[v] \in SkillContents => folder'[v] = folder[v]
                      /\ v # deleting => folder'[v] = folder[v]
    BY <2>1, VersionsAreNamed DEF SpTyped
  <2>3. SpTyped'
    BY <2>1, NothingOnTheWay DEF SpTyped
  <2>4. PackagesSound'
    <3>1. active # NoSkill => Loads(active)' /\ active \in Vs
      BY <2>1, <2>2 DEF PackagesSound, Loads, SpTyped
    <3>2. /\ worker' # NoSkill => Loads(worker)' /\ deleting' # worker'
          /\ resolves' # NoSkill => Loads(resolves)' /\ deleting' # resolves'
          /\ active' # NoSkill => Loads(active)' /\ deleting' # active'
      BY <2>1, <3>1 DEF Loads
    <3>3. \A v \in Vs : folder'[v] \in SkillContents => v \in registered' /\ folder'[v] = archive'[v]
      <4> SUFFICES ASSUME NEW v \in Vs, folder'[v] \in SkillContents
                   PROVE  v \in registered' /\ folder'[v] = archive'[v]
        OBVIOUS
      <4>1. UNCHANGED <<registered, archive>>
        BY <1>3 DEF PilotRestarts
      <4>2. folder'[v] = folder[v]
        BY <2>2
      <4> QED
        BY <4>1, <4>2 DEF PackagesSound
    <3>4. \A c : ~Has(toRobot', c)
      BY <2>1, NothingOnTheWay
    <3> QED
      BY <3>2, <3>3, <3>4 DEF PackagesSound
  <2> QED
    BY <2>1, <2>3, <2>4 DEF LinkSound, Noticed
<1> QED
  BY <1>1, <1>2, <1>3

LEMMA SpInitGood == SpInit => SpInv
<1> SUFFICES ASSUME SpInit
             PROVE  SpInv
  OBVIOUS
<1>1. DOMAIN archive = Vs /\ \A v \in Vs : archive[v] \in SkillContents \cup {NoFile}
  <2>1. \A v \in DOMAIN Released : Released[v] \in SkillContents
    BY SkillPackagesAssumption DEF Range
  <2> QED
    BY <2>1 DEF SpInit
<1>2. SpTyped
  BY <1>1, NothingOnTheWay DEF SpInit, SpTyped, Rows
<1>3. PackagesSound
  BY VersionsAreNamed, NothingOnTheWay DEF SpInit, PackagesSound
<1>4. LinkSound /\ Noticed
  BY DEF SpInit, LinkSound, Noticed
<1> QED
  BY <1>2, <1>3, <1>4 DEF SpInv

LEMMA SpInvStep == SpInv /\ [SpNext]_spVars => SpInv'
<1>1. ASSUME SpInv, UNCHANGED spVars
      PROVE  SpInv'
  BY <1>1
  DEF SpInv, spVars, registryVars, serverVars, wireVars, pilotVars, SpTyped, PackagesSound, Loads,
      LinkSound, Coming, Noticed, Lacks, InFlight
<1> QED
  BY <1>1, SpServerStep, SpMessageStep, SpConnectionStep, SpPackageStep, SpRemovalStep,
     SpWorkerStep
  DEF SpNext

\* No Worker loses its package, no link leads to one that does not load, a version has one
\* content everywhere, and what rests is as desired, whoever publishes, removes, restarts or
\* loses the connection when (publishMu, Disable and Uninstall of skillmanager.go,
\* reconcileDesiredSkills and sendSkillCommandOnce of src/internal/robot).
THEOREM SkillsStayConsistent == SpSpec => []SkillsAreConsistent
<1>1. SpInv => RunningSkillStays /\ ActiveSkillLoads /\ InstalledIsPublished
  BY DEF SpInv, PackagesSound, RunningSkillStays, ActiveSkillLoads, InstalledIsPublished
<1>2. SpInv => RestMeansDesired
  <2> SUFFICES ASSUME SpInv, AtRest, desired # NoSkill, desired.v \in DOMAIN Released
               PROVE  actual[desired.v] \in {"failed", IF desired.on THEN "on" ELSE "off"}
    BY DEF RestMeansDesired
  <2>1. pending = {}
    <3> SUFFICES ASSUME NEW c \in pending
                 PROVE  FALSE
      OBVIOUS
    <3>1. c \in SkillCommands /\ Coming(c)
      BY DEF SpInv, SpTyped, LinkSound
    <3>2. c = [do |-> "uninstall", v |-> NoSkill]
      BY <3>1, NothingOnTheWay DEF AtRest, Coming
    <3> QED
      BY <3>1, <3>2, VersionsAreNamed DEF SkillCommands
  <2>2. Lacks(desired) = {}
    BY <2>1 DEF SpInv, Noticed, AtRest, InFlight
  <2>3. desired.v \in Vs /\ actual[desired.v] \in Rows
    BY DEF SpInv, SpTyped
  <2>4. CASE desired.on
    BY <2>2, <2>3, <2>4 DEF Lacks, Rows
  <2>5. CASE ~desired.on
    BY <2>2, <2>3, <2>5 DEF Lacks, Rows
  <2> QED
    BY <2>4, <2>5
<1> QED
  BY <1>1, <1>2, SpInitGood, SpInvStep, PTL DEF SpSpec, SkillsAreConsistent

-----------------------------------------------------------------------------
(* Component packages.                                                     *)

\* The steps of a job that has components left to do.
Busy == {"queued", "build", "extract", "environment", "receipt", "use", "place"}

CiTyped ==
  /\ DOMAIN record = Packages /\ DOMAIN job = Packages /\ DOMAIN drafts = Packages
  /\ DOMAIN files = Comps /\ DOMAIN cenv = Comps /\ receipt \subseteq Comps
  /\ DOMAIN binding = Holders /\ DOMAIN history = Holders
  /\ DOMAIN launch = Bots /\ DOMAIN snapshot = Bots
  /\ \A p \in Packages :
       /\ "pc" \in DOMAIN job[p]
       /\ job[p].pc \in Busy =>
            /\ DOMAIN job[p] = {"pc", "todo", "holder", "cancelled"}
            /\ job[p].todo \in Seq(Comps) /\ job[p].todo # <<>>
            /\ job[p].holder \in Holders \cup {NoComp}
  /\ removing \in Comps \cup {NoComp} /\ stale \subseteq Bots

\* What has a receipt is complete, unless a removal was cut off; a removal and an
\* installation exclude each other, and so do two installations.
StoreSound ==
  /\ \A c \in receipt : Complete(c) \/ c \in half
  /\ removing # NoComp => removing \in half
  /\ \A p \in Packages : job[p].pc \in {"environment", "receipt"} =>
       /\ removing = NoComp /\ Now(p) \notin receipt /\ files[Now(p)] = "ok"
       /\ job[p].pc = "receipt" => cenv[Now(p)] = "ok"
  /\ \A p, q \in Packages : Running(p) /\ Running(q) => p = q

\* What is bound or runs has a receipt, and is not what is being removed.
UsesSound ==
  /\ \A h \in Holders :
       /\ binding[h] \in Comps => binding[h] \in receipt \cup half \/ h \in stale
       /\ binding[h] = removing /\ removing # NoComp => h \in stale
  /\ \A r \in Bots : launch[r] = "running" =>
       /\ snapshot[r] \in Comps => snapshot[r] \in receipt \cup half \/ r \in stale
       /\ snapshot[r] = removing /\ removing # NoComp => r \in stale

ImportsSound ==
  /\ applying # NoComp =>
       applying \in Packages /\ drafts[applying] = 0 /\ record[applying] = "importing"
  /\ \A p \in Packages :
       drafts[p] \in {0, 1} /\ (drafts[p] = 1 => record[p] \notin {"none", "failed"})

CiInv == CiTyped /\ StoreSound /\ UsesSound /\ ImportsSound

LEMMA EntriesAreComponents ==
  ASSUME NEW selected \in (SUBSET Comps) \ {{}}, NEW todo \in SelectPackageEntries(selected)
  PROVE  todo \in Seq(Comps) /\ todo # <<>>
<1> DEFINE S == selected \cup UNION {Requires[c] : c \in selected}
<1>1. S \subseteq Comps /\ S # {}
  BY ComponentInstallAssumption
<1>2. IsFiniteSet(S)
  BY <1>1, FS_Subset, ComponentInstallAssumption
<1>3. Cardinality(S) \in Nat /\ Cardinality(S) # 0
  BY <1>1, <1>2, FS_EmptySet, FS_CardinalityType
<1>4. todo \in [1..Cardinality(S) -> S]
  BY DEF SelectPackageEntries, SetToSeqs
<1> HIDE DEF S
<1>5. todo \in Seq(S) /\ Len(todo) = Cardinality(S)
  BY <1>3, <1>4, IsASeq, LenProperties
<1> QED
  BY <1>1, <1>3, <1>4, <1>5, IsASeq, EmptySeq

LEMMA TailOfMore ==
  ASSUME NEW S, NEW s \in Seq(S), s # <<>>
  PROVE  Tail(s) \in Seq(S) /\ (Len(s) # 1 => Tail(s) # <<>>)
<1>1. Tail(s) \in Seq(S) /\ Len(Tail(s)) = Len(s) - 1 /\ Len(s) \in Nat \ {0}
  BY HeadTailProperties, EmptySeq, LenProperties
<1>2. ASSUME NEW u \in Seq(S), u = <<>>
      PROVE  Len(u) = 0
  BY <1>2, EmptySeq
<1>3. Len(s) # 1 => Len(Tail(s)) # 0
  BY <1>1
<1>4. Len(s) # 1 => Tail(s) # <<>>
  BY <1>1, <1>2, <1>3, Zenon
<1> QED
  BY <1>1, <1>4

LEMMA CiTypedStep ==
  ASSUME CiTyped, [CiNext]_ciVars
  PROVE  CiTyped'
<1> USE DEF CiTyped, recordVars, storeVars, bindVars, sceneVars, robotVars, Step, JobIn, Busy
<1>1. ASSUME NEW p \in Packages, UploadReader(p) \/ Scan(p) \/ Retry(p)
      PROVE  CiTyped'
  BY <1>1 DEF UploadReader, InspectArchive, Scan, Retry, Register, Rejected
<1>2. ASSUME NEW p \in Packages, CancelInstall(p) \/ EndJob(p)
      PROVE  CiTyped'
  BY <1>2 DEF CancelInstall, EndJob, NoJob
<1>3. ASSUME NEW p \in Packages, NEW selected \in (SUBSET Comps) \ {{}},
             NEW h \in Holders \cup {NoComp}, Install(p, selected, h)
      PROVE  CiTyped'
  BY <1>3, EntriesAreComponents DEF Install
<1>4. ASSUME NEW p \in Packages, JobTurn(p) \/ BuildUploadedSource(p)
      PROVE  CiTyped'
  BY <1>4 DEF JobTurn, BuildUploadedSource
<1>5. ASSUME NEW p \in Packages, ExtractComponent(p)
      PROVE  CiTyped'
  BY <1>5 DEF ExtractComponent, Unpacked
<1>6. ASSUME NEW p \in Packages, BuildEnvironmentOf(p) \/ SetCatalogAside(p)
      PROVE  CiTyped'
  BY <1>6 DEF BuildEnvironmentOf, SetCatalogAside
<1>7. ASSUME NEW p \in Packages, WriteReceipt(p)
      PROVE  CiTyped'
  BY <1>7, HeadTailProperties DEF WriteReceipt, Now
<1>8. ASSUME NEW p \in Packages, UseAbility(p) \/ PlaceCatalogOf(p)
      PROVE  CiTyped'
  <2>1. /\ job[p].pc \in Busy
        /\ NextEntry(p) \/ Step(p, "failed")
        /\ DOMAIN binding' = Holders /\ DOMAIN history' = Holders
        /\ UNCHANGED <<recordVars, storeVars, removing, stale, robotVars>>
    BY <1>8 DEF UseAbility, PlaceCatalogOf, SetBinding
  <2>2. CASE Step(p, "failed")
    BY <2>1, <2>2
  <2>3. CASE NextEntry(p)
    <3>1. /\ Tail(job[p].todo) \in Seq(Comps)
          /\ Len(job[p].todo) # 1 => Tail(job[p].todo) # <<>>
      BY <2>1, TailOfMore
    <3> QED
      BY <2>1, <2>3, <3>1 DEF NextEntry
  <2> QED
    BY <2>1, <2>2, <2>3
<1>9. CASE ApplyImport
  BY <1>9 DEF ApplyImport
<1>10. ASSUME NEW h \in Holders, NEW c \in Comps,
              HandleBindComponents(h, c) \/ HandleRollbackComponents(h, c)
       PROVE  CiTyped'
  BY <1>10
  DEF HandleBindComponents, HandleRollbackComponents, SelectBinding, Rollback, SetBinding
<1>11. ASSUME NEW r \in Bots, Launch(r) \/ EnsureRobotBinding(r) \/ CopyDefault(r)
                              \/ RenderInstance(r) \/ StopInstance(r)
                              \/ HandleApplyComponents(r)
       PROVE  CiTyped'
  BY <1>11 DEF Launch, EnsureRobotBinding, CopyDefault, RenderInstance, StopInstance,
               HandleApplyComponents, ApplyInstalledComponents, Holders
<1>12. ASSUME NEW c \in Comps, RemoveComponent(c)
       PROVE  CiTyped'
  BY <1>12 DEF RemoveComponent
<1>13. CASE RemoveFiles \/ RemoveFails
  BY <1>13 DEF RemoveFiles, RemoveFails
<1>14. CASE CrashServer
  BY <1>14 DEF CrashServer, NoJob
<1>15. CASE UNCHANGED ciVars
  BY <1>15 DEF ciVars
<1> HIDE DEF CiTyped, recordVars, storeVars, bindVars, sceneVars, robotVars, Step, JobIn, Busy
<1> QED
  BY <1>1, <1>2, <1>3, <1>4, <1>5, <1>6, <1>7, <1>8, <1>9, <1>10, <1>11, <1>12, <1>13, <1>14,
     <1>15
  DEF CiNext, Holders

LEMMA CiImportsStep ==
  ASSUME CiTyped, ImportsSound, [CiNext]_ciVars
  PROVE  ImportsSound'
<1> USE DEF CiTyped, ImportsSound, recordVars, storeVars, bindVars, sceneVars, robotVars
<1>1. ASSUME NEW p \in Packages, UploadReader(p) \/ Scan(p) \/ Retry(p) \/ CancelInstall(p)
      PROVE  ImportsSound'
  BY <1>1 DEF UploadReader, InspectArchive, Scan, Retry, Register, Rejected, CancelInstall, RetryAllowed,
     InboxFree
<1>2. ASSUME NEW p \in Packages, NEW selected \in (SUBSET Comps) \ {{}},
             NEW h \in Holders \cup {NoComp}, Install(p, selected, h)
      PROVE  ImportsSound'
  BY <1>2 DEF Install
<1>3. ASSUME NEW p \in Packages, JobTurn(p)
      PROVE  ImportsSound'
  BY <1>3 DEF JobTurn
<1>4. ASSUME NEW p \in Packages, BuildUploadedSource(p) \/ SetCatalogAside(p)
      PROVE  ImportsSound'
  BY <1>4 DEF BuildUploadedSource, SetCatalogAside
<1>5. ASSUME NEW p \in Packages, ExtractComponent(p)
      PROVE  ImportsSound'
  BY <1>5 DEF ExtractComponent, Unpacked
<1>6. ASSUME NEW p \in Packages, BuildEnvironmentOf(p)
      PROVE  ImportsSound'
  BY <1>6 DEF BuildEnvironmentOf
<1>7. ASSUME NEW p \in Packages, WriteReceipt(p)
      PROVE  ImportsSound'
  BY <1>7 DEF WriteReceipt
<1>8. ASSUME NEW p \in Packages, UseAbility(p)
      PROVE  ImportsSound'
  BY <1>8 DEF UseAbility, NextEntry, SetBinding
<1>9. ASSUME NEW p \in Packages, PlaceCatalogOf(p)
      PROVE  ImportsSound'
  BY <1>9 DEF PlaceCatalogOf, NextEntry
<1>10. ASSUME NEW p \in Packages, EndJob(p)
       PROVE  ImportsSound'
  BY <1>10 DEF EndJob, NoJob
<1>11. CASE ApplyImport
  BY <1>11 DEF ApplyImport
<1>12. ASSUME NEW h \in Holders, NEW c \in Comps,
              HandleBindComponents(h, c) \/ HandleRollbackComponents(h, c)
       PROVE  ImportsSound'
  BY <1>12
  DEF HandleBindComponents, HandleRollbackComponents, SelectBinding, Rollback, SetBinding
<1>13. ASSUME NEW r \in Bots, Launch(r) \/ EnsureRobotBinding(r) \/ RenderInstance(r)
                              \/ StopInstance(r) \/ HandleApplyComponents(r)
       PROVE  ImportsSound'
  BY <1>13 DEF Launch, EnsureRobotBinding, RenderInstance, StopInstance, HandleApplyComponents,
              ApplyInstalledComponents
<1>14. ASSUME NEW r \in Bots, CopyDefault(r)
       PROVE  ImportsSound'
  BY <1>14, ComponentInstallAssumption DEF CopyDefault
<1>15. ASSUME NEW c \in Comps, RemoveComponent(c)
       PROVE  ImportsSound'
  BY <1>15 DEF RemoveComponent, Removable, BindingUses, RunningUses
<1>16. CASE RemoveFiles
  BY <1>16 DEF RemoveFiles
<1>17. CASE RemoveFails
  BY <1>17 DEF RemoveFails
<1>18. CASE CrashServer
  BY <1>18 DEF CrashServer, NoJob
<1>19. CASE UNCHANGED ciVars
  BY <1>19 DEF ciVars
<1> HIDE DEF CiTyped, ImportsSound, recordVars, storeVars, bindVars, sceneVars, robotVars
<1> QED
  BY <1>1, <1>2, <1>3, <1>4, <1>5, <1>6, <1>7, <1>8, <1>9, <1>10, <1>11, <1>12, <1>13, <1>14,
     <1>15, <1>16, <1>17, <1>18, <1>19
  DEF CiNext, Holders

LEMMA CiStoreStep ==
  ASSUME CiTyped, StoreSound, [CiNext]_ciVars
  PROVE  StoreSound'
<1> USE DEF CiTyped, StoreSound, Complete, Now, Running, StoreFree, Step, JobIn, recordVars,
        storeVars, bindVars, sceneVars, robotVars
<1>1. ASSUME NEW p \in Packages, UploadReader(p) \/ Scan(p) \/ Retry(p) \/ CancelInstall(p)
      PROVE  StoreSound'
  <2>1. /\ UNCHANGED <<files, cenv, receipt, half, removing>>
        /\ \A q \in Packages : /\ job'[q].pc = job[q].pc
                               /\ job[q].pc \in Busy => job'[q].todo = job[q].todo
    BY <1>1 DEF UploadReader, Scan, Retry, CancelInstall
  <2> QED
    BY <2>1 DEF Busy
<1>2. ASSUME NEW p \in Packages, NEW selected \in (SUBSET Comps) \ {{}},
             NEW h \in Holders \cup {NoComp}, Install(p, selected, h)
      PROVE  StoreSound'
  BY <1>2 DEF Install
<1>3. ASSUME NEW p \in Packages, JobTurn(p)
      PROVE  StoreSound'
  BY <1>3 DEF JobTurn
<1>4. ASSUME NEW p \in Packages, BuildUploadedSource(p) \/ SetCatalogAside(p)
      PROVE  StoreSound'
  BY <1>4 DEF BuildUploadedSource, SetCatalogAside
<1>5. ASSUME NEW p \in Packages, ExtractComponent(p)
      PROVE  StoreSound'
  <2>1. /\ UNCHANGED <<cenv, receipt, half, removing>> /\ JobIn(p, "extract") /\ StoreFree
        /\ \A q \in Packages : /\ q # p => job'[q] = job[q]
                               /\ job[q].pc \in Busy => job'[q].todo = job[q].todo
    BY <1>5 DEF ExtractComponent
  <2>2. Now(p) \in Comps
    BY <2>1, HeadTailProperties DEF Busy
  <2>3. \A q \in Packages : q # p => job[q].pc \in {"none", "queued"}
    BY <2>1
  <2>4. CASE /\ job'[p].pc \in {"use", "failed"}
             /\ \/ files' = files
                \/ Now(p) \notin receipt /\ files' = Unpacked(Now(p), "partial")
    BY <2>1, <2>2, <2>3, <2>4 DEF Unpacked
  <2>5. CASE /\ job'[p].pc = "environment"
             /\ Now(p) \notin receipt /\ files' = Unpacked(Now(p), "ok")
    BY <2>1, <2>2, <2>3, <2>5 DEF Unpacked, Busy
  <2> QED
    BY <1>5, <2>4, <2>5 DEF ExtractComponent
<1>6. ASSUME NEW p \in Packages, BuildEnvironmentOf(p)
      PROVE  StoreSound'
  <2>1. /\ UNCHANGED <<files, receipt, half, removing>> /\ JobIn(p, "environment")
        /\ \A q \in Packages : /\ q # p => job'[q] = job[q]
                               /\ job[q].pc \in Busy => job'[q].todo = job[q].todo
        /\ \/ cenv' = [cenv EXCEPT ![Now(p)] = "ok"] /\ job'[p].pc = "receipt"
           \/ cenv' = [cenv EXCEPT ![Now(p)] = "partial"] /\ job'[p].pc = "failed"
    BY <1>6 DEF BuildEnvironmentOf
  <2>2. Now(p) \in Comps /\ Now(p) \notin receipt
    BY <2>1, HeadTailProperties DEF Busy
  <2>3. \A q \in Packages : q # p => job[q].pc \in {"none", "queued"}
    BY <2>1
  <2> QED
    BY <2>1, <2>2, <2>3 DEF Busy
<1>7. ASSUME NEW p \in Packages, WriteReceipt(p)
      PROVE  StoreSound'
  BY <1>7 DEF WriteReceipt
<1>8. ASSUME NEW p \in Packages, UseAbility(p)
      PROVE  StoreSound'
  BY <1>8, SMTT(30) DEF UseAbility, NextEntry, SetBinding
<1>9. ASSUME NEW p \in Packages, PlaceCatalogOf(p)
      PROVE  StoreSound'
  BY <1>9 DEF PlaceCatalogOf, NextEntry
<1>10. ASSUME NEW p \in Packages, EndJob(p)
       PROVE  StoreSound'
  BY <1>10 DEF EndJob, NoJob
<1>11. CASE ApplyImport
  BY <1>11 DEF ApplyImport
<1>12. ASSUME NEW h \in Holders, NEW c \in Comps,
              HandleBindComponents(h, c) \/ HandleRollbackComponents(h, c)
       PROVE  StoreSound'
  BY <1>12
  DEF HandleBindComponents, HandleRollbackComponents, SelectBinding, Rollback, SetBinding
<1>13. ASSUME NEW r \in Bots, Launch(r) \/ EnsureRobotBinding(r) \/ RenderInstance(r)
                              \/ StopInstance(r) \/ HandleApplyComponents(r)
       PROVE  StoreSound'
  BY <1>13 DEF Launch, EnsureRobotBinding, RenderInstance, StopInstance, HandleApplyComponents,
              ApplyInstalledComponents
<1>14. ASSUME NEW r \in Bots, CopyDefault(r)
       PROVE  StoreSound'
  BY <1>14, ComponentInstallAssumption DEF CopyDefault
<1>15. ASSUME NEW c \in Comps, RemoveComponent(c)
       PROVE  StoreSound'
  BY <1>15 DEF RemoveComponent, Removable, BindingUses, RunningUses
<1>16. CASE RemoveFiles
  BY <1>16 DEF RemoveFiles
<1>17. CASE RemoveFails
  BY <1>17 DEF RemoveFails
<1>18. CASE CrashServer
  BY <1>18 DEF CrashServer, NoJob
<1>19. CASE UNCHANGED ciVars
  BY <1>19 DEF ciVars
<1> HIDE DEF CiTyped, StoreSound, Complete, Now, Running, StoreFree, Step, JobIn, recordVars,
         storeVars, bindVars, sceneVars, robotVars
<1> QED
  BY <1>1, <1>2, <1>3, <1>4, <1>5, <1>6, <1>7, <1>8, <1>9, <1>10, <1>11, <1>12, <1>13, <1>14,
     <1>15, <1>16, <1>17, <1>18, <1>19
  DEF CiNext, Holders

LEMMA CiUsesStep ==
  ASSUME CiTyped, StoreSound, UsesSound, [CiNext]_ciVars
  PROVE  UsesSound'
<1> USE DEF CiTyped, UsesSound, StoreFree, Holders, recordVars, storeVars, bindVars, sceneVars,
        robotVars
<1>1. ASSUME NEW p \in Packages, UploadReader(p) \/ Scan(p) \/ Retry(p) \/ CancelInstall(p)
      PROVE  UsesSound'
  BY <1>1 DEF UploadReader, InspectArchive, Scan, Retry, Register, Rejected, CancelInstall, RetryAllowed,
     InboxFree
<1>2. ASSUME NEW p \in Packages, NEW selected \in (SUBSET Comps) \ {{}},
             NEW h \in Holders \cup {NoComp}, Install(p, selected, h)
      PROVE  UsesSound'
  BY <1>2 DEF Install
<1>3. ASSUME NEW p \in Packages, JobTurn(p)
      PROVE  UsesSound'
  BY <1>3 DEF JobTurn
<1>4. ASSUME NEW p \in Packages, BuildUploadedSource(p) \/ SetCatalogAside(p)
      PROVE  UsesSound'
  BY <1>4 DEF BuildUploadedSource, SetCatalogAside
<1>5. ASSUME NEW p \in Packages, ExtractComponent(p)
      PROVE  UsesSound'
  BY <1>5 DEF ExtractComponent, Unpacked
<1>6. ASSUME NEW p \in Packages, BuildEnvironmentOf(p)
      PROVE  UsesSound'
  BY <1>6 DEF BuildEnvironmentOf
<1>7. ASSUME NEW p \in Packages, WriteReceipt(p)
      PROVE  UsesSound'
  BY <1>7 DEF WriteReceipt
<1>8. ASSUME NEW p \in Packages, UseAbility(p)
      PROVE  UsesSound'
  BY <1>8 DEF UseAbility, NextEntry, SetBinding
<1>9. ASSUME NEW p \in Packages, PlaceCatalogOf(p)
      PROVE  UsesSound'
  BY <1>9 DEF PlaceCatalogOf, NextEntry
<1>10. ASSUME NEW p \in Packages, EndJob(p)
       PROVE  UsesSound'
  BY <1>10 DEF EndJob, NoJob
<1>11. CASE ApplyImport
  BY <1>11 DEF ApplyImport
<1>12. ASSUME NEW h \in Holders, NEW c \in Comps,
              HandleBindComponents(h, c) \/ HandleRollbackComponents(h, c)
       PROVE  UsesSound'
  BY <1>12
  DEF HandleBindComponents, HandleRollbackComponents, SelectBinding, Rollback, SetBinding
<1>13. ASSUME NEW r \in Bots, Launch(r) \/ EnsureRobotBinding(r) \/ RenderInstance(r)
                              \/ StopInstance(r) \/ HandleApplyComponents(r)
       PROVE  UsesSound'
  BY <1>13 DEF Launch, EnsureRobotBinding, RenderInstance, StopInstance, HandleApplyComponents,
              ApplyInstalledComponents
<1>14. ASSUME NEW r \in Bots, CopyDefault(r)
       PROVE  UsesSound'
  BY <1>14, ComponentInstallAssumption DEF CopyDefault
<1>15. ASSUME NEW c \in Comps, RemoveComponent(c)
       PROVE  UsesSound'
  BY <1>15 DEF RemoveComponent, Removable, BindingUses, RunningUses
<1>16. CASE RemoveFiles
  BY <1>16 DEF RemoveFiles
<1>17. CASE RemoveFails
  BY <1>17 DEF RemoveFails
<1>18. CASE CrashServer
  BY <1>18 DEF CrashServer, NoJob
<1>19. CASE UNCHANGED ciVars
  BY <1>19 DEF ciVars
<1> HIDE DEF CiTyped, UsesSound, StoreFree, Holders, recordVars, storeVars, bindVars, sceneVars,
         robotVars
<1> QED
  BY <1>1, <1>2, <1>3, <1>4, <1>5, <1>6, <1>7, <1>8, <1>9, <1>10, <1>11, <1>12, <1>13, <1>14,
     <1>15, <1>16, <1>17, <1>18, <1>19
  DEF CiNext, Holders

LEMMA CiInitGood == CiInit => CiInv
<1> SUFFICES ASSUME CiInit
             PROVE  CiInv
  OBVIOUS
<1>1. CiTyped
  BY DEF CiInit, CiTyped, NoJob, Busy
<1>2. StoreSound /\ UsesSound /\ ImportsSound
  BY ComponentInstallAssumption
  DEF CiInit, StoreSound, UsesSound, ImportsSound, NoJob, Running
<1> QED
  BY <1>1, <1>2 DEF CiInv

LEMMA CiInvStep == CiInv /\ [CiNext]_ciVars => CiInv'
  BY CiTypedStep, CiImportsStep, CiStoreStep, CiUsesStep DEF CiInv

\* What is bound or runs is installed completely and the scenes of a package are created
\* once, whatever installations are cancelled, interrupted or removed (ComponentStore of
\* src/internal/bootstrap, Inbox of src/internal/install).
THEOREM ComponentsStayConsistent == CiSpec => []ComponentsAreConsistent
<1>1. CiInv => ComponentsAreConsistent
  BY DEF CiInv, StoreSound, UsesSound, ImportsSound, ComponentsAreConsistent, InUseIsInstalled,
         SceneImportedOnce
<1> QED
  BY <1>1, CiInitGood, CiInvStep, PTL DEF CiSpec

-----------------------------------------------------------------------------
(* Scene graphs.                                                           *)

LEMMA LeastNumber ==
  ASSUME NEW T \in SUBSET Nat, T # {}
  PROVE  \E n \in T : \A m \in T : n <= m
<1>1. PICK n \in T : \A m \in T : ~ (<<m, n>> \in OpToRel(<, Nat))
  BY WFMin, NatLessThanWellFounded, Zenon
<1>2. \A m \in T : ~ (m < n)
  BY <1>1, Zenon DEF OpToRel
<1> QED
  BY <1>2

\* The function that Below grows level by level.
Hanging(nodes, S) == {n \in Present(nodes) : nodes[n].parent \in S}
Levels(g, nodes, S, N) ==
  g = [k \in 0..N |-> IF k = 0 THEN S ELSE g[k - 1] \cup Hanging(nodes, g[k - 1])]

LEMMA LevelsExist ==
  ASSUME NEW nodes, NEW S, NEW N \in Nat
  PROVE  \E g : Levels(g, nodes, S, N)
<1> DEFINE Without == {n \in Nat : ~ \E g : Levels(g, nodes, S, n)}
<1> SUFFICES Without = {}
  OBVIOUS
<1> SUFFICES ASSUME Without # {}
             PROVE  FALSE
  OBVIOUS
<1>1. PICK n \in Without : \A m \in Without : n <= m
  BY LeastNumber
<1>2. CASE n = 0
  <2>1. Levels([k \in 0..0 |-> S], nodes, S, 0)
    BY DEF Levels
  <2> QED
    BY <1>1, <1>2, <2>1
<1>3. CASE n # 0
  <2>1. n - 1 \in Nat /\ n - 1 \notin Without
    BY <1>1, <1>3
  <2>2. PICK g : Levels(g, nodes, S, n - 1)
    BY <2>1
  <2> DEFINE h == [k \in 0..n |-> IF k = n THEN g[k - 1] \cup Hanging(nodes, g[k - 1])
                                  ELSE g[k]]
  <2>3. \A k \in 0..(n - 1) :
          g[k] = IF k = 0 THEN S ELSE g[k - 1] \cup Hanging(nodes, g[k - 1])
    BY <2>2 DEF Levels
  <2>4. \A k \in 0..n : k # n => h[k] = g[k]
    BY <2>1
  <2>5. ASSUME NEW k \in 0..n
        PROVE  h[k] = IF k = 0 THEN S ELSE h[k - 1] \cup Hanging(nodes, h[k - 1])
    <3>1. k # 0 => h[k - 1] = g[k - 1]
      BY <2>4
    <3>2. CASE k = n
      BY <1>1, <1>3, <3>1, <3>2
    <3>3. CASE k # n
      <4>1. k \in 0..(n - 1) /\ h[k] = g[k]
        BY <2>4, <3>3
      <4> HIDE DEF h
      <4> QED
        BY <2>3, <3>1, <4>1
    <3> QED
      BY <3>2, <3>3
  <2>6. h = [k \in 0..n |-> h[k]]
    OBVIOUS
  <2> HIDE DEF h
  <2>7. Levels(h, nodes, S, n)
    BY <2>5, <2>6 DEF Levels
  <2> QED
    BY <1>1, <2>7
<1> QED
  BY <1>2, <1>3

LEMMA BelowIsTheLastLevel ==
  ASSUME NEW nodes, NEW S
  PROVE  /\ Cardinality(Nodes) \in Nat
         /\ \E g : Levels(g, nodes, S, Cardinality(Nodes)) /\ Below(nodes, S) = g[Cardinality(Nodes)]
<1> DEFINE N == Cardinality(Nodes)
<1>1. N \in Nat
  BY SceneAuthoringAssumption, FS_CardinalityType
<1>2. PICK g : Levels(g, nodes, S, N)
  BY <1>1, LevelsExist
<1>3. Below(nodes, S) = (CHOOSE f : f = [k \in 0..N |-> IF k = 0 THEN S
        ELSE f[k - 1] \cup {n \in Present(nodes) : nodes[n].parent \in f[k - 1]}])[N]
  BY DEF Below
<1>4. Below(nodes, S) = (CHOOSE f : Levels(f, nodes, S, N))[N]
  BY <1>3 DEF Levels, Hanging
<1> HIDE DEF N
<1>5. Levels((CHOOSE f : Levels(f, nodes, S, N)), nodes, S, N)
  BY <1>2
<1> QED
  BY <1>1, <1>4, <1>5 DEF N

\* A graph whose nodes all hang from the root has no cycle.
LEMMA TreesHaveNoCycle ==
  ASSUME NEW nodes, validateSceneGraph(nodes), NEW n \in Present(nodes)
  PROVE  n \notin Below(nodes, {m \in Present(nodes) : nodes[m].parent = n})
<1> DEFINE N == Cardinality(Nodes)
           C == {m \in Present(nodes) : nodes[m].parent = n}
           R == {m \in Present(nodes) : nodes[m].parent = TopLevel}
<1>1. N \in Nat
  BY BelowIsTheLastLevel
<1>2. PICK g : Levels(g, nodes, R, N) /\ Below(nodes, R) = g[N]
  BY BelowIsTheLastLevel
<1>3. PICK h : Levels(h, nodes, C, N) /\ Below(nodes, C) = h[N]
  BY BelowIsTheLastLevel
<1>4. n \in g[N] /\ \A m \in Present(nodes) : m \in Nodes /\ m # TopLevel
  BY <1>2, SceneAuthoringAssumption DEF validateSceneGraph, Present
<1> HIDE DEF N, C, R
<1>5. /\ g[0] = R /\ \A k \in 0..N : k # 0 => g[k] = g[k - 1] \cup Hanging(nodes, g[k - 1])
      /\ h[0] = C /\ \A k \in 0..N : k # 0 => h[k] = h[k - 1] \cup Hanging(nodes, h[k - 1])
  <2>1. 0 \in 0..N
    BY <1>1
  <2>2. \A k \in 0..N : g[k] = IF k = 0 THEN R ELSE g[k - 1] \cup Hanging(nodes, g[k - 1])
    BY <1>2 DEF Levels
  <2>3. \A k \in 0..N : h[k] = IF k = 0 THEN C ELSE h[k - 1] \cup Hanging(nodes, h[k - 1])
    BY <1>3 DEF Levels
  <2> QED
    BY <2>1, <2>2, <2>3
<1>6. ASSUME NEW y \in Present(nodes), nodes[y].parent \in Present(nodes),
             NEW k \in 0..N, y \in g[k]
      PROVE  \E l \in 0..N : l < k /\ nodes[y].parent \in g[l]
  <2> DEFINE T == {j \in 0..N : y \in g[j]}
  <2>0. T \in SUBSET Nat /\ k \in T
    BY <1>6
  <2> HIDE DEF T
  <2>1. PICK i \in T : \A j \in T : i <= j
    BY <2>0, LeastNumber
  <2>2. i \in 0..N /\ y \in g[i] /\ i # 0
    BY <1>4, <1>5, <1>6, <2>1 DEF T, R
  <2>3. i - 1 \in 0..N /\ i - 1 < k /\ y \notin g[i - 1]
    <3>1. i \in Nat /\ k \in Nat /\ i <= k /\ i - 1 \in 0..N
      BY <1>1, <2>0, <2>1, <2>2
    <3>2. i - 1 \notin T
      BY <2>1, <3>1
    <3> QED
      BY <3>1, <3>2 DEF T
  <2>4. y \in Hanging(nodes, g[i - 1])
    BY <1>5, <2>1, <2>2, <2>3
  <2> QED
    BY <2>3, <2>4 DEF Hanging
<1> DEFINE Higher(j) == \A y \in h[j] :
      /\ y \in Present(nodes)
      /\ \A k \in 0..N : y \in g[k] => \E l \in 0..N : l < k /\ n \in g[l]
           Lower == {j \in 0..N : ~Higher(j)}
<1>7. Higher(0)
  BY <1>5, <1>6 DEF C
<1>8. ASSUME NEW j \in 0..N, j # 0, Higher(j - 1)
      PROVE  Higher(j)
  <2> SUFFICES ASSUME NEW y \in h[j]
               PROVE  /\ y \in Present(nodes)
                      /\ \A k \in 0..N : y \in g[k] => \E l \in 0..N : l < k /\ n \in g[l]
    OBVIOUS
  <2>1. CASE y \in h[j - 1]
    BY <1>8, <2>1
  <2>2. CASE y \in Hanging(nodes, h[j - 1])
    <3>1. y \in Present(nodes) /\ nodes[y].parent \in h[j - 1]
      BY <2>2 DEF Hanging
    <3>2. nodes[y].parent \in Present(nodes)
      BY <1>8, <3>1
    <3>3. ASSUME NEW k \in 0..N, y \in g[k]
          PROVE  \E l \in 0..N : l < k /\ n \in g[l]
      <4>1. PICK i \in 0..N : i < k /\ nodes[y].parent \in g[i]
        BY <1>6, <3>1, <3>2, <3>3
      <4>2. PICK l \in 0..N : l < i /\ n \in g[l]
        BY <1>8, <3>1, <4>1
      <4> QED
        BY <4>1, <4>2
    <3> QED
      BY <3>1, <3>3
  <2> QED
    BY <1>5, <1>8, <2>1, <2>2
<1> HIDE DEF Higher
<1>9. Lower = {}
  <2> SUFFICES ASSUME Lower # {}
               PROVE  FALSE
    OBVIOUS
  <2>0. Lower \in SUBSET Nat
    OBVIOUS
  <2> HIDE DEF Lower
  <2>1. PICK j \in Lower : \A i \in Lower : j <= i
    BY <2>0, LeastNumber
  <2>2. j \in 0..N /\ ~Higher(j) /\ j # 0
    BY <1>7, <2>1 DEF Lower
  <2>3. j - 1 \in 0..N /\ j - 1 \notin Lower
    BY <1>1, <2>0, <2>1, <2>2
  <2> QED
    BY <1>8, <2>2, <2>3 DEF Lower
<1>10. Higher(N)
  BY <1>1, <1>9
<1> SUFFICES ASSUME n \in h[N]
             PROVE  FALSE
  BY <1>3 DEF C
<1> DEFINE T == {k \in 0..N : n \in g[k]}
<1>11. T \in SUBSET Nat /\ N \in T
  BY <1>1, <1>4
<1> HIDE DEF T
<1>12. PICK i \in T : \A k \in T : i <= k
  BY <1>11, LeastNumber
<1>13. PICK l \in 0..N : l < i /\ n \in g[l]
  BY <1>10, <1>12 DEF Higher, T
<1> QED
  BY <1>12, <1>13 DEF T

-----------------------------------------------------------------------------
(* Scene documents.                                                        *)

DocFields == {"scene", "layout", "status", "revision", "version", "content", "layoutOnly",
              "imported"}

Tree(nodes) ==
  \A n \in Present(nodes) :
    n \notin Below(nodes, {m \in Present(nodes) : nodes[m].parent = n})
AssetsKnown(nodes) == \A n \in Present(nodes) : nodes[n].asset \in Published \cup {NoAsset}
LockedKept(nodes) ==
  \A n \in Locked : /\ n \in Present(nodes) /\ nodes[n].kind = Template.nodes[n].kind
                    /\ nodes[n].asset = Template.nodes[n].asset
Bound(doc) == doc.layoutOnly /\ ~doc.imported

\* The document doc may have these nodes.
Fits(doc, nodes) == /\ DOMAIN doc = DocFields /\ doc.revision \in Nat
                    /\ Tree(nodes) /\ AssetsKnown(nodes)
                    /\ Bound(doc) => LockedKept(nodes)

\* The bundle that the document d, published as version v of revision r, was built into.
Built(d, r, v) == \E b \in bundles : b.doc = d /\ b.revision = r /\ b.version = v

SaTyped == DOMAIN docs = DocIds /\ DOMAIN request = Editors
DocsSound ==
  \A d \in DocIds : Exists(d) =>
    /\ Fits(docs[d], docs[d].content.nodes)
    /\ docs[d].status = "published" => Built(d, docs[d].revision - 1, docs[d].version)
RequestSound(r) ==
  /\ r.pc \in {"again", "save", "publish", "delete"} => r.doc \in DocIds
  /\ r.pc = "save" => Fits(r.seen, r.next.nodes)
  /\ r.pc = "publish" => /\ Fits(r.seen, r.seen.content.nodes)
                         /\ Built(r.doc, r.seen.revision, r.version)
RequestsSound == \A e \in Editors : RequestSound(request[e])

SaInv == SaTyped /\ DocsSound /\ RequestsSound

LEMMA ValidatedIsSound ==
  ASSUME NEW c, Validate(c)
  PROVE  Tree(c.nodes) /\ AssetsKnown(c.nodes)
<1>1. validateSceneGraph(c.nodes) /\ ReferencesListed(c) /\ c.assets \subseteq Published
  BY DEF Validate, validatePublishedAssets
<1>2. Tree(c.nodes)
  BY <1>1, TreesHaveNoCycle DEF Tree
<1> QED
  BY <1>1, <1>2 DEF ReferencesListed, AssetsKnown

\* What keeps the fields of a document keeps what it may hold.
LEMMA SameKind ==
  ASSUME NEW x, NEW y, NEW nodes, Fits(x, nodes), DOMAIN y = DOMAIN x, y.revision \in Nat,
         y.layoutOnly <=> x.layoutOnly, y.imported <=> x.imported
  PROVE  Fits(y, nodes)
<1>1. Bound(y) <=> Bound(x)
  BY DEF Bound
<1> QED
  BY <1>1 DEF Fits

\* The documents the actions write.
LEMMA SavedDoc ==
  ASSUME NEW x, NEW next, Fits(x, next.nodes)
  PROVE  LET y == [x EXCEPT !.content = next, !.revision = @ + 1, !.status = "draft"]
         IN  Fits(y, y.content.nodes) /\ y.status # "published"
<1> DEFINE y == [x EXCEPT !.content = next, !.revision = @ + 1, !.status = "draft"]
<1>0. DOMAIN x = DocFields /\ x.revision \in Nat
  BY DEF Fits
<1>1. DOMAIN y = DOMAIN x /\ y.revision = x.revision + 1 /\ y.content = next /\ y.status = "draft"
  BY <1>0 DEF DocFields
<1>2. (y.layoutOnly <=> x.layoutOnly) /\ (y.imported <=> x.imported)
  BY <1>0 DEF DocFields
<1> HIDE DEF y
<1>3. Fits(y, next.nodes)
  BY <1>0, <1>1, <1>2, SameKind
<1>4. Fits(y, y.content.nodes) /\ y.status # "published"
  BY <1>1, <1>3
<1> QED
  BY <1>4 DEF y

LEMMA PublishedDoc ==
  ASSUME NEW x, NEW v, Fits(x, x.content.nodes)
  PROVE  LET y == [x EXCEPT !.status = "published", !.version = v, !.revision = @ + 1]
         IN  Fits(y, y.content.nodes) /\ y.version = v /\ y.revision - 1 = x.revision
<1> DEFINE y == [x EXCEPT !.status = "published", !.version = v, !.revision = @ + 1]
<1>0. DOMAIN x = DocFields /\ x.revision \in Nat
  BY DEF Fits
<1>1. /\ DOMAIN y = DOMAIN x /\ y.revision = x.revision + 1 /\ y.content = x.content
      /\ y.version = v
  BY <1>0 DEF DocFields
<1>2. (y.layoutOnly <=> x.layoutOnly) /\ (y.imported <=> x.imported)
  BY <1>0 DEF DocFields
<1> HIDE DEF y
<1>3. Fits(y, x.content.nodes)
  BY <1>0, <1>1, <1>2, SameKind
<1>4. Fits(y, y.content.nodes) /\ y.version = v /\ y.revision - 1 = x.revision
  BY <1>0, <1>1, <1>3
<1> QED
  BY <1>4 DEF y

LEMMA CopiedDoc ==
  ASSUME NEW x, NEW d, NEW y, Fits(x, x.content.nodes),
         \/ y = [x EXCEPT !.layout = d, !.status = "draft", !.revision = 1]
         \/ y = [x EXCEPT !.status = "draft", !.revision = 1]
  PROVE  Fits(y, y.content.nodes) /\ y.status # "published"
<1>0. DOMAIN x = DocFields /\ x.revision \in Nat
  BY DEF Fits
<1>1. /\ DOMAIN y = DOMAIN x /\ y.revision = 1 /\ y.content = x.content
      /\ y.status = "draft"
  BY <1>0 DEF DocFields
<1>2. (y.layoutOnly <=> x.layoutOnly) /\ (y.imported <=> x.imported)
  BY <1>0 DEF DocFields
<1>3. Fits(y, x.content.nodes)
  BY <1>0, <1>1, <1>2, SameKind
<1> QED
  BY <1>1, <1>3

\* The documents that are new.
LEMMA NewContent ==
  ASSUME NEW y, DOMAIN y = DocFields, y.revision \in Nat,
         Tree(y.content.nodes), AssetsKnown(y.content.nodes),
         Bound(y) => LockedKept(y.content.nodes)
  PROVE  Fits(y, y.content.nodes)
  BY DEF Fits

LEMMA DraftFields ==
  ASSUME NEW c
  PROVE  /\ DOMAIN Draft(c) = DocFields /\ Draft(c).revision = 1 /\ Draft(c).status = "draft"
         /\ Draft(c).content = c /\ ~Draft(c).layoutOnly /\ ~Draft(c).imported
<1>1. /\ DOMAIN Draft(c) = DocFields /\ Draft(c).revision = 1 /\ Draft(c).status = "draft"
      /\ Draft(c).content = c
  BY DEF Draft, DocFields
<1>2. Draft(c).layoutOnly = FALSE /\ Draft(c).imported = FALSE
  BY Zenon DEF Draft
<1> QED
  BY <1>1, <1>2

LEMMA EmptyDoc ==
  ASSUME NEW d
  PROVE  LET y == [Draft(EmptyContent) EXCEPT !.scene = d, !.layout = d]
         IN  Fits(y, y.content.nodes) /\ y.status # "published"
<1> DEFINE y == [Draft(EmptyContent) EXCEPT !.scene = d, !.layout = d]
<1>1. Present(EmptyContent.nodes) = {}
  BY DEF EmptyContent, Present
<1>2. Tree(EmptyContent.nodes) /\ AssetsKnown(EmptyContent.nodes)
  BY <1>1 DEF Tree, AssetsKnown
<1>3. /\ DOMAIN y = DocFields /\ y.revision = 1 /\ y.content = EmptyContent
      /\ y.status = "draft"
  BY DraftFields DEF DocFields
<1>4. ~y.layoutOnly
  BY DraftFields DEF DocFields
<1> HIDE DEF y
<1>5. Fits(y, y.content.nodes)
  BY <1>2, <1>3, <1>4 DEF Fits, Bound
<1> QED
  BY <1>3, <1>5 DEF y

LEMMA TemplateDoc ==
  ASSUME NEW d, Validate(Template), Locked \subseteq Present(Template.nodes)
  PROVE  LET y == [Draft(Template) EXCEPT !.layout = d, !.layoutOnly = TRUE]
         IN  Fits(y, y.content.nodes) /\ y.status # "published"
<1> DEFINE y == [Draft(Template) EXCEPT !.layout = d, !.layoutOnly = TRUE]
<1>1. Tree(Template.nodes) /\ AssetsKnown(Template.nodes) /\ LockedKept(Template.nodes)
  BY ValidatedIsSound DEF LockedKept
<1>2. DOMAIN y = DocFields /\ y.revision = 1 /\ y.content = Template /\ y.status = "draft"
  BY DraftFields DEF DocFields
<1> HIDE DEF y
<1>3. Fits(y, y.content.nodes)
  BY <1>1, <1>2 DEF Fits
<1> QED
  BY <1>2, <1>3 DEF y

LEMMA ImportedDoc ==
  ASSUME NEW d, NEW c, NEW claims \in BOOLEAN, Validate(c)
  PROVE  LET y == [Draft(c) EXCEPT !.scene = d, !.layout = d, !.layoutOnly = claims,
                                   !.imported = TRUE]
         IN  Fits(y, y.content.nodes) /\ y.status # "published"
<1> DEFINE y == [Draft(c) EXCEPT !.scene = d, !.layout = d, !.layoutOnly = claims,
                                 !.imported = TRUE]
<1>1. Tree(c.nodes) /\ AssetsKnown(c.nodes)
  BY ValidatedIsSound
<1>2. DOMAIN y = DocFields /\ y.revision = 1 /\ y.content = c /\ y.status = "draft"
  BY DraftFields DEF DocFields
<1>3. y.imported
  BY DraftFields DEF DocFields
<1> HIDE DEF y
<1>4. Fits(y, y.content.nodes)
  BY <1>1, <1>2, <1>3 DEF Fits, Bound
<1> QED
  BY <1>2, <1>4 DEF y

LEMMA BuiltStays ==
  ASSUME bundles \subseteq bundles'
  PROVE  /\ \A d, r, v : Built(d, r, v) => Built(d, r, v)'
         /\ \A r : RequestSound(r) => RequestSound(r)'
<1>1. \A d, r, v : Built(d, r, v) => Built(d, r, v)'
  BY DEF Built
<1>2. ASSUME NEW r, RequestSound(r)
      PROVE  RequestSound(r)'
  BY <1>1, <1>2 DEF RequestSound
<1> QED
  BY <1>1, <1>2

LEMMA Served ==
  ASSUME SaTyped, RequestsSound, NEW e \in Editors, NEW r, Serve(e, r), RequestSound(r),
         bundles \subseteq bundles'
  PROVE  RequestsSound' /\ DOMAIN request' = Editors
<1>1. request' = [request EXCEPT ![e] = r]
  BY DEF Serve
<1>2. ASSUME NEW f \in Editors
      PROVE  RequestSound(request[f])'
  <2>1. PICK q : q = request'[f]
    OBVIOUS
  <2>2. RequestSound(q)
    BY <1>1, <2>1 DEF SaTyped, RequestsSound
  <2>3. RequestSound(q)'
    BY <2>2, BuiltStays
  <2> QED
    BY <2>1, <2>3
<1> QED
  BY <1>1, <1>2 DEF SaTyped, RequestsSound

LEMMA Written ==
  ASSUME SaTyped, DocsSound, NEW d \in DocIds, NEW y, Write(d, y),
         Fits(y, y.content.nodes), y.status = "published" => Built(d, y.revision - 1, y.version),
         bundles \subseteq bundles'
  PROVE  DocsSound' /\ DOMAIN docs' = DocIds
<1>1. docs' = [docs EXCEPT ![d] = y]
  BY DEF Write
<1>2. ASSUME NEW x \in DocIds, Exists(x)'
      PROVE  /\ Fits(docs[x], docs[x].content.nodes)'
             /\ docs'[x].status = "published" =>
                  Built(x, docs[x].revision - 1, docs[x].version)'
  <2>1. PICK z : z = docs'[x]
    OBVIOUS
  <2>2. Fits(z, z.content.nodes) /\ (z.status = "published" => Built(x, z.revision - 1, z.version))
    BY <1>1, <1>2, <2>1 DEF SaTyped, DocsSound, Exists
  <2>3. z.status = "published" => Built(x, z.revision - 1, z.version)'
    BY <2>2, BuiltStays
  <2> QED
    BY <2>1, <2>2, <2>3
<1> QED
  BY <1>1, <1>2 DEF SaTyped, DocsSound

\* What Update finds sound may be saved.
LEMMA ReadIsSound ==
  ASSUME SaInv, NEW e \in Editors, NEW d \in DocIds, NEW expected, NEW next,
         ReadForUpdate(e, d, expected, next), UNCHANGED bundles
  PROVE  RequestsSound' /\ DOMAIN request' = Editors
<1>1. CASE Serve(e, NoEdit)
  <2>1. RequestSound(NoEdit)
    BY DEF RequestSound, NoEdit
  <2> QED
    BY <1>1, <2>1, Served DEF SaInv
<1>2. CASE /\ Exists(d) /\ validateLockedNodeChanges(docs[d], next) /\ Validate(next)
           /\ Serve(e, [pc |-> "save", doc |-> d, seen |-> docs[d], next |-> next])
  <2> DEFINE r == [pc |-> "save", doc |-> d, seen |-> docs[d], next |-> next]
  <2>1. Fits(docs[d], docs[d].content.nodes)
    BY <1>2 DEF SaInv, DocsSound
  <2>2. Bound(docs[d]) => LockedKept(next.nodes)
    BY <1>2, <2>1 DEF Fits, Bound, LockedKept, validateLockedNodeChanges
  <2>3. Fits(docs[d], next.nodes)
    BY <1>2, <2>1, <2>2, ValidatedIsSound DEF Fits
  <2>4. r.pc = "save" /\ r.doc = d /\ r.seen = docs[d] /\ r.next = next
    OBVIOUS
  <2> HIDE DEF r
  <2>5. RequestSound(r)
    BY <2>3, <2>4 DEF RequestSound
  <2> QED
    BY <1>2, <2>5, Served DEF SaInv, r
<1> QED
  BY <1>1, <1>2 DEF ReadForUpdate

\* Requests that write a new document at once.
LEMMA SaNewStep ==
  ASSUME SaInv, NEW e \in Editors,
         \/ CreateDocument(e) \/ CreateProjectLayout(e)
         \/ \E c \in Puts, claims \in BOOLEAN : ImportScenePackage(e, c, claims)
         \/ \E d \in DocIds : CreateLayout(e, d) \/ ForkPublished(e, d)
  PROVE  SaInv'
<1>0. UNCHANGED <<bundles, request>>
  BY DEF CreateDocument, CreateProjectLayout, ImportScenePackage, CreateLayout, ForkPublished
<1>1. PICK d, y :
        d \in DocIds /\ Write(d, y) /\ Fits(y, y.content.nodes) /\ y.status # "published"
  <2>1. CASE CreateDocument(e)
    <3>1. PICK d \in DocIds : Write(d, [Draft(EmptyContent) EXCEPT !.scene = d, !.layout = d])
      BY <2>1, Zenon DEF CreateDocument
    <3> DEFINE y == [Draft(EmptyContent) EXCEPT !.scene = d, !.layout = d]
    <3>2. Fits(y, y.content.nodes) /\ y.status # "published"
      BY <2>1, EmptyDoc, Zenon
    <3>3. d \in DocIds /\ Write(d, y)
      BY <3>1
    <3> HIDE DEF y
    <3> QED
      BY <3>2, <3>3
  <2>2. CASE CreateProjectLayout(e)
    <3>1. PICK d \in DocIds : Write(d, [Draft(Template) EXCEPT !.layout = d, !.layoutOnly = TRUE])
      BY <2>2, Zenon DEF CreateProjectLayout
    <3> DEFINE y == [Draft(Template) EXCEPT !.layout = d, !.layoutOnly = TRUE]
    <3>2. Fits(y, y.content.nodes) /\ y.status # "published"
      BY <2>2, TemplateDoc, Zenon DEF CreateProjectLayout
    <3>3. d \in DocIds /\ Write(d, y)
      BY <3>1
    <3> HIDE DEF y
    <3> QED
      BY <3>2, <3>3
  <2>3. ASSUME NEW c \in Puts, NEW claims \in BOOLEAN, ImportScenePackage(e, c, claims)
        PROVE  \E d, y :
                 d \in DocIds /\ Write(d, y) /\ Fits(y, y.content.nodes) /\ y.status # "published"
    <3>1. PICK d \in DocIds : Write(d, [Draft(c) EXCEPT !.scene = d, !.layout = d,
                                !.layoutOnly = claims, !.imported = TRUE])
      BY <2>3, Zenon DEF ImportScenePackage
    <3> DEFINE y == [Draft(c) EXCEPT !.scene = d, !.layout = d,
                                !.layoutOnly = claims, !.imported = TRUE]
    <3>2. Fits(y, y.content.nodes) /\ y.status # "published"
      BY <2>3, ImportedDoc, Zenon DEF ImportScenePackage
    <3>3. d \in DocIds /\ Write(d, y)
      BY <3>1
    <3> HIDE DEF y
    <3> QED
      BY <3>2, <3>3
  <2>4. ASSUME NEW s \in DocIds, CreateLayout(e, s) \/ ForkPublished(e, s)
        PROVE  \E d, y :
                 d \in DocIds /\ Write(d, y) /\ Fits(y, y.content.nodes) /\ y.status # "published"
    <3>1. Fits(docs[s], docs[s].content.nodes)
      BY <2>4 DEF CreateLayout, ForkPublished, SaInv, DocsSound
    <3>2. PICK d, y :
            /\ d \in DocIds /\ Write(d, y)
            /\ \/ y = [docs[s] EXCEPT !.layout = d, !.status = "draft", !.revision = 1]
               \/ y = [docs[s] EXCEPT !.status = "draft", !.revision = 1]
      BY <2>4 DEF CreateLayout, ForkPublished
    <3> DEFINE x == docs[s]
    <3>3. /\ Fits(x, x.content.nodes)
          /\ \/ y = [x EXCEPT !.layout = d, !.status = "draft", !.revision = 1]
             \/ y = [x EXCEPT !.status = "draft", !.revision = 1]
      BY <3>1, <3>2
    <3> HIDE DEF x
    <3>4. Fits(y, y.content.nodes) /\ y.status # "published"
      BY <3>3, CopiedDoc, Zenon
    <3>5. d \in DocIds /\ Write(d, y)
      BY <3>2
    <3> QED
      BY <3>4, <3>5, Zenon
  <2> QED
    BY <2>1, <2>2, <2>3, <2>4
<1>2. DocsSound' /\ DOMAIN docs' = DocIds
  BY <1>0, <1>1, Written DEF SaInv
<1>3. RequestsSound' /\ DOMAIN request' = Editors
  BY <1>0, BuiltStays DEF SaInv, SaTyped, RequestsSound
<1> QED
  BY <1>2, <1>3 DEF SaInv, SaTyped

\* Requests that read, and decide what to write.
LEMMA SaReadStep ==
  ASSUME SaInv, NEW e \in Editors,
         \/ UpdateAgain(e) \/ RegisterFails(e) \/ RefreshAfterPublish(e) \/ SaveRuntimeBundle(e)
         \/ \E d \in DocIds :
              \/ RenameLayout(e, d) \/ DeleteLayout(e, d) \/ Build(e, d) \/ Publish(e, d)
              \/ \E c \in Puts : UpdateDocument(e, d, c)
              \/ \E b \in Batches : ApplyOperations(e, d, b)
  PROVE  SaInv'
<1> USE DEF docVars, catalogVars
<1>0. UNCHANGED docs /\ bundles \subseteq bundles'
  <2>1. CASE UpdateAgain(e)
    BY <2>1, Zenon DEF UpdateAgain
  <2>2. CASE RegisterFails(e) \/ RefreshAfterPublish(e) \/ SaveRuntimeBundle(e)
    BY <2>2 DEF RegisterFails, RefreshAfterPublish, SaveRuntimeBundle
  <2>3. ASSUME NEW d \in DocIds,
               RenameLayout(e, d) \/ DeleteLayout(e, d) \/ Build(e, d) \/ Publish(e, d)
        PROVE  UNCHANGED <<docs, bundles>>
    BY <2>3, Zenon DEF RenameLayout, DeleteLayout, Build, Publish
  <2>4. ASSUME NEW d \in DocIds, NEW c \in Puts, UpdateDocument(e, d, c)
        PROVE  UNCHANGED <<docs, bundles>>
    BY <2>4, Zenon DEF UpdateDocument
  <2>5. ASSUME NEW d \in DocIds, NEW b \in Batches, ApplyOperations(e, d, b)
        PROVE  UNCHANGED <<docs, bundles>>
    BY <2>5, Zenon DEF ApplyOperations
  <2> QED
    BY <2>1, <2>2, <2>3, <2>4, <2>5
<1>1. RequestsSound' /\ DOMAIN request' = Editors
  <2>0. RequestSound(NoEdit) /\ RequestSound(request[e])
    BY DEF RequestSound, NoEdit, SaInv, RequestsSound
  <2>1. CASE UpdateAgain(e)
    <3>1. request[e].doc \in DocIds
      BY <2>0, <2>1, Zenon DEF UpdateAgain, RequestSound
    <3>2. ReadForUpdate(e, request[e].doc, request[e].expected, request[e].next)
          /\ UNCHANGED bundles
      BY <2>1, Zenon DEF UpdateAgain
    <3> QED
      BY <3>1, <3>2, ReadIsSound, Zenon
  <2>2. CASE RegisterFails(e) \/ RefreshAfterPublish(e) \/ SaveRuntimeBundle(e)
    <3>1. Serve(e, NoEdit)
      BY <2>2 DEF RegisterFails, RefreshAfterPublish, SaveRuntimeBundle
    <3> QED
      BY <1>0, <2>0, <3>1, Served DEF SaInv
  <2>3. ASSUME NEW d \in DocIds, RenameLayout(e, d)
        PROVE  RequestsSound' /\ DOMAIN request' = Editors
    <3> DEFINE r == [pc |-> "save", doc |-> d, seen |-> docs[d], next |-> docs[d].content]
    <3>1. Serve(e, r) /\ Exists(d)
      BY <2>3, Zenon DEF RenameLayout
    <3>2. Fits(docs[d], docs[d].content.nodes)
      BY <3>1 DEF SaInv, DocsSound
    <3>3. r.pc = "save" /\ r.doc = d /\ r.seen = docs[d] /\ r.next = docs[d].content
      OBVIOUS
    <3> HIDE DEF r
    <3>4. RequestSound(r)
      BY <3>2, <3>3 DEF RequestSound
    <3> QED
      BY <1>0, <3>1, <3>4, Served DEF SaInv
  <2>4. ASSUME NEW d \in DocIds, NEW c \in Puts, UpdateDocument(e, d, c)
        PROVE  RequestsSound' /\ DOMAIN request' = Editors
    <3>1. ReadForUpdate(e, d, docs[d].revision, c) /\ UNCHANGED bundles
      BY <2>4, Zenon DEF UpdateDocument
    <3> QED
      BY <3>1, ReadIsSound, Zenon
  <2>5. ASSUME NEW d \in DocIds,
               \/ DeleteLayout(e, d) \/ Build(e, d)
               \/ \E b \in Batches : ApplyOperations(e, d, b)
        PROVE  RequestsSound' /\ DOMAIN request' = Editors
    <3>1. PICK r : Serve(e, r) /\ r.doc = d /\ r.pc \in {"delete", "build", "again"}
      <4>1. CASE DeleteLayout(e, d)
        BY <4>1 DEF DeleteLayout
      <4>2. CASE Build(e, d)
        BY <4>2 DEF Build
      <4>3. ASSUME NEW b \in Batches, ApplyOperations(e, d, b)
            PROVE  \E r : Serve(e, r) /\ r.doc = d /\ r.pc \in {"delete", "build", "again"}
        BY <4>3 DEF ApplyOperations
      <4> QED
        BY <2>5, <4>1, <4>2, <4>3
    <3>2. RequestSound(r)
      BY <3>1 DEF RequestSound
    <3> QED
      BY <1>0, <3>1, <3>2, Served DEF SaInv
  <2>6. ASSUME NEW d \in DocIds, Publish(e, d)
        PROVE  RequestsSound' /\ DOMAIN request' = Editors
    <3>1. PICK b \in FindRuntimeBundle(d, docs[d].revision) :
            Serve(e, [pc |-> "publish", doc |-> d, seen |-> docs[d], version |-> b.version])
      BY <2>6, Zenon DEF Publish
    <3> DEFINE r == [pc |-> "publish", doc |-> d, seen |-> docs[d], version |-> b.version]
    <3>2. Fits(docs[d], docs[d].content.nodes)
      BY <2>6 DEF Publish, SaInv, DocsSound
    <3>3. r.pc = "publish" /\ r.doc = d /\ r.seen = docs[d] /\ r.version = b.version
      OBVIOUS
    <3>4. Serve(e, r)
      BY <3>1
    <3> HIDE DEF r
    <3>5. Built(d, docs[d].revision, b.version)
      BY <3>1 DEF FindRuntimeBundle, Built
    <3>6. RequestSound(r)
      BY <3>2, <3>3, <3>5 DEF RequestSound
    <3> QED
      BY <1>0, <3>4, <3>6, Served DEF SaInv
  <2> QED
    BY <2>1, <2>2, <2>3, <2>4, <2>5, <2>6
<1>2. DocsSound'
  <2> SUFFICES ASSUME NEW d \in DocIds, Exists(d)'
               PROVE  /\ Fits(docs[d], docs[d].content.nodes)'
                      /\ docs'[d].status = "published" =>
                           Built(d, docs[d].revision - 1, docs[d].version)'
    BY DEF DocsSound
  <2>1. PICK z : z = docs[d]
    OBVIOUS
  <2>2. Fits(z, z.content.nodes) /\ (z.status = "published" => Built(d, z.revision - 1, z.version))
    BY <1>0, <2>1 DEF SaInv, DocsSound, Exists
  <2>3. z.status = "published" => Built(d, z.revision - 1, z.version)'
    BY <1>0, <2>2, BuiltStays
  <2> QED
    BY <1>0, <2>1, <2>2, <2>3
<1> QED
  BY <1>0, <1>1, <1>2 DEF SaInv, SaTyped

\* Requests that write what was decided.
LEMMA SaWriteStep ==
  ASSUME SaInv, NEW e \in Editors, SaveUpdate(e) \/ RemoveDocument(e) \/ SavePublished(e)
  PROVE  SaInv'
<1> DEFINE r == request[e]
<1>0. UNCHANGED bundles /\ RequestSound(r) /\ SaTyped /\ DocsSound /\ RequestsSound
  BY Zenon DEF SaveUpdate, RemoveDocument, SavePublished, SaInv, RequestsSound
<1>1. CASE SaveUpdate(e)
  <2> DEFINE y == [r.seen EXCEPT !.content = r.next, !.revision = @ + 1, !.status = "draft"]
  <2>1. r.pc = "save" /\ Write(r.doc, y) /\ Serve(e, NoEdit)
    BY <1>1, Zenon DEF SaveUpdate
  <2>2. r.doc \in DocIds /\ Fits(r.seen, r.next.nodes)
    BY <1>0, <2>1 DEF RequestSound
  <2>3. Fits(y, y.content.nodes) /\ y.status # "published"
    BY <2>2, SavedDoc, Zenon
  <2> HIDE DEF y, r
  <2>4. DocsSound' /\ DOMAIN docs' = DocIds
    BY <1>0, <2>1, <2>2, <2>3, Written
  <2>5. RequestsSound' /\ DOMAIN request' = Editors
    <3>1. RequestSound(NoEdit)
      BY DEF RequestSound, NoEdit
    <3> QED
      BY <1>0, <2>1, <3>1, Served
  <2> QED
    BY <2>4, <2>5 DEF SaInv, SaTyped
<1>2. CASE RemoveDocument(e)
  <2>1. docs' = [docs EXCEPT ![r.doc] = NoDoc] /\ Serve(e, NoEdit) /\ r.pc = "delete"
    BY <1>2 DEF RemoveDocument, Write
  <2>2. r.doc \in DocIds
    BY <1>0, <2>1 DEF RequestSound
  <2> HIDE DEF r
  <2>3. DOMAIN docs' = DocIds /\ \A d \in DocIds : docs'[d] # NoDoc => docs'[d] = docs[d]
    BY <1>0, <2>1, <2>2 DEF SaTyped
  <2>4. ASSUME NEW d \in DocIds, Exists(d)'
        PROVE  /\ Fits(docs[d], docs[d].content.nodes)'
               /\ docs'[d].status = "published" =>
                    Built(d, docs[d].revision - 1, docs[d].version)'
    <3>1. docs'[d] = docs[d] /\ Exists(d)
      BY <2>3, <2>4 DEF Exists
    <3> QED
      BY <1>0, <3>1 DEF DocsSound, Built
  <2>5. RequestsSound' /\ DOMAIN request' = Editors
    <3>1. RequestSound(NoEdit)
      BY DEF RequestSound, NoEdit
    <3> QED
      BY <1>0, <2>1, <3>1, Served
  <2>6. DocsSound'
    BY <2>4 DEF DocsSound
  <2> QED
    BY <2>3, <2>5, <2>6 DEF SaInv, SaTyped
<1>3. CASE SavePublished(e)
  <2> DEFINE y == [r.seen EXCEPT !.status = "published", !.version = r.version,
                                 !.revision = @ + 1]
             n == [pc |-> "refresh", doc |-> r.doc]
  <2>1. r.pc = "publish" /\ Write(r.doc, y) /\ Serve(e, n)
    BY <1>3, Zenon DEF SavePublished
  <2>2. /\ r.doc \in DocIds /\ Fits(r.seen, r.seen.content.nodes)
        /\ Built(r.doc, r.seen.revision, r.version)
    BY <1>0, <2>1 DEF RequestSound
  <2>3. Fits(y, y.content.nodes) /\ y.version = r.version /\ y.revision - 1 = r.seen.revision
    BY <2>2, PublishedDoc, Zenon
  <2>4. RequestSound(n)
    BY DEF RequestSound
  <2> HIDE DEF y, r, n
  <2>5. DocsSound' /\ DOMAIN docs' = DocIds
    BY <1>0, <2>1, <2>2, <2>3, Written
  <2>6. RequestsSound' /\ DOMAIN request' = Editors
    BY <1>0, <2>1, <2>4, Served
  <2> QED
    BY <2>5, <2>6 DEF SaInv, SaTyped
<1> QED
  BY <1>1, <1>2, <1>3

\* The catalog does not touch the documents.
LEMMA SaCatalogStep ==
  ASSUME SaInv,
         \/ \E v \in sceneCatalog \cup refs : AddProjectScene(v) \/ RemoveProjectScene(v)
         \/ ListScenes \/ ReloadResources \/ RestartServer \/ UNCHANGED saVars
  PROVE  SaInv'
<1>1. UNCHANGED <<docs, bundles>> /\ (request' = request \/ request' = [e \in Editors |-> NoEdit])
  BY DEF AddProjectScene, RemoveProjectScene, ListScenes, ReloadResources, RestartServer, saVars,
         docVars, catalogVars
<1>2. SaTyped'
  BY <1>1 DEF SaInv, SaTyped
<1>3. DocsSound'
  BY <1>1 DEF SaInv, DocsSound, Exists, Built
<1>4. ASSUME NEW e \in Editors
      PROVE  RequestSound(request[e])'
  <2>1. PICK q : q = request'[e]
    OBVIOUS
  <2>2. RequestSound(NoEdit)
    BY DEF RequestSound, NoEdit
  <2>3. RequestSound(q)
    BY <1>1, <2>1, <2>2 DEF SaInv, RequestsSound
  <2>4. RequestSound(q)'
    BY <1>1, <2>3, BuiltStays
  <2> QED
    BY <2>1, <2>4
<1> QED
  BY <1>2, <1>3, <1>4 DEF SaInv, RequestsSound

LEMMA SaInitGood == SaInit => SaInv
<1> SUFFICES ASSUME SaInit
             PROVE  SaInv
  OBVIOUS
<1>1. RequestSound(NoEdit)
  BY DEF RequestSound, NoEdit
<1> QED
  BY <1>1 DEF SaInit, SaInv, SaTyped, DocsSound, Exists, RequestsSound

LEMMA SaInvStep == SaInv /\ [SaNext]_saVars => SaInv'
  BY SaNewStep, SaReadStep, SaWriteStep, SaCatalogStep DEF SaNext

\* A stored document is a tree of published assets that has the nodes its template locks,
\* and a published one has its bundle, however requests of several editors interleave
\* (Validate, validateLockedNodeChanges and Publish of src/internal/simulation).
THEOREM AuthoringStaysSound == SaSpec => []AuthoringIsSound
<1>1. SaInv => AuthoringIsSound
  BY DEF SaInv, DocsSound, Fits, Tree, AssetsKnown, LockedKept, Bound, Built, AuthoringIsSound,
         StoredScenesAreSound, PublishedHasBundle, PublishedDocs, Exists
<1> QED
  BY <1>1, SaInitGood, SaInvStep, PTL DEF SaSpec

-----------------------------------------------------------------------------
(* Plan proposals.                                                         *)

\* What was seen of a row is the row as it is, or as it was before a revision.
SeenOf(rows, seen) ==
  /\ seen.id \in ProposalIds /\ rows[seen.id] # NoPlan
  /\ seen.revision \in Nat /\ seen.revision <= rows[seen.id].revision
  /\ seen.revision = rows[seen.id].revision => seen.draft = rows[seen.id].draft

PlansTyped ==
  /\ proposals \in [ProposalIds -> PlanRows \cup {NoPlan}]
  /\ flows \in [Flows -> FlowRows \cup {NoPlan}]
  /\ DOMAIN submissions = Leaders /\ DOMAIN suggest = Calls
  /\ DOMAIN screen = Tabs /\ DOMAIN act = Tabs
  /\ projectMode \in [PlanProjects -> {"development", "running"}]

\* Plans under way ask for Skills that are to be approved.
PlansChecked ==
  /\ \A i \in ProposalIds :
       proposals[i] # NoPlan => proposals[i].draft.needs \subseteq proposals[i].draft.skills
  /\ \A c \in Calls : suggest[c] \notin {NoPlan, CallOver} =>
       /\ suggest[c].run \in Leaders /\ suggest[c].draft \in Suggestions
       /\ suggest[c].draft.needs \subseteq suggest[c].draft.skills

TabsSeen ==
  \A t \in Tabs : /\ screen[t] # NoPlan => SeenOf(proposals, screen[t])
                  /\ act[t] # NoPlan => SeenOf(proposals, act[t].shown)

TasksOwned ==
  /\ \A row \in taskRows :
       /\ row = [id |-> row.id, flow |-> row.flow, key |-> row.key]
       /\ row.flow \in Flows /\ flows[row.flow] # NoPlan
       /\ row.key \in PlanTasks /\ row.id \in {row.key, NewTaskID(row.flow, row.key)}
  /\ \A e \in depRows : e.flow \in Flows /\ flows[e.flow] # NoPlan

RunsBound == \A x \in written : x.run \in Leaders /\ submissions[x.run] # NoPlan

PpInv ==
  /\ PlansTyped /\ PlansChecked /\ TabsSeen /\ TasksOwned /\ RunsBound
  /\ OnePlan /\ ApprovedAsShown /\ TasksFollowPlan /\ SubmittedOnce

LEMMA PpInitGood == PpInit => PpInv
<1> SUFFICES ASSUME PpInit
             PROVE  PpInv
  OBVIOUS
<1>1. PlansTyped
  BY DEF PpInit, PlansTyped
<1>2. PlansChecked /\ TabsSeen /\ TasksOwned /\ RunsBound /\ SubmittedOnce
  BY DEF PpInit, PlansChecked, TabsSeen, TasksOwned, RunsBound, SubmittedOnce
<1>3. OnePlan
  BY DEF PpInit, OnePlan, Ready, OpenFlows
<1>4. ApprovedAsShown /\ TasksFollowPlan
  BY DEF PpInit, ApprovedAsShown, TasksFollowPlan
<1> QED
  BY <1>1, <1>2, <1>3, <1>4 DEF PpInv

\* A row that is written again has the next revision, so that what was seen stays old.
LEMMA SeenStays ==
  ASSUME NEW rows \in [ProposalIds -> PlanRows \cup {NoPlan}], NEW i \in ProposalIds,
         NEW row \in PlanRows, rows[i] # NoPlan => row.revision = rows[i].revision + 1,
         NEW seen, SeenOf(rows, seen)
  PROVE  SeenOf([rows EXCEPT ![i] = row], seen)
<1>1. row # NoPlan
  BY PlanAssumption
<1>2. CASE seen.id = i
  BY <1>1, <1>2 DEF SeenOf, PlanRows
<1>3. CASE seen.id # i
  BY <1>3 DEF SeenOf
<1> QED
  BY <1>2, <1>3

\* The rows as they are make a tab that shows one of them see it.
LEMMA ShownIsSeen ==
  ASSUME PlansTyped, NEW i \in ProposalIds, proposals[i] # NoPlan
  PROVE  SeenOf(proposals, Shown(i))
BY DEF PlansTyped, SeenOf, Shown, PlanRows

\* A step that leaves rows, calls and tabs alone.
LEMMA PpAside ==
  ASSUME PpInv, UNCHANGED <<projectMode, suggest, rowVars, tabVars>>,
         \A p \in PlanProjects : OpenFlows(p) # {} => p = activeProject' /\ p \notin shelved'
  PROVE  PpInv'
<1> USE DEF rowVars, tabVars
<1>1. PlansTyped' /\ PlansChecked' /\ TabsSeen' /\ TasksOwned' /\ RunsBound'
  BY DEF PpInv, PlansTyped, PlansChecked, TabsSeen, TasksOwned, RunsBound
<1>2. ApprovedAsShown' /\ TasksFollowPlan' /\ SubmittedOnce'
  BY DEF PpInv, ApprovedAsShown, TasksFollowPlan, SubmittedOnce
<1>3. \A p \in PlanProjects : Ready(p)' = Ready(p) /\ OpenFlows(p)' = OpenFlows(p)
  BY DEF Ready, OpenFlows
<1>4. OnePlan'
  BY <1>3 DEF PpInv, OnePlan
<1> QED
  BY <1>1, <1>2, <1>4 DEF PpInv

LEMMA PpContextStep ==
  ASSUME PpInv,
         \/ \E p \in PlanProjects : ActivateProject(p) \/ ArchiveProject(p) \/ MapIsRenewed(p)
         \/ \E c \in PlanConvs : ArchiveChatSession(c)
         \/ \E r \in Leaders : LeaderStarts(r) \/ LeaderEnds(r) \/ BeforeModelRound(r)
         \/ UNCHANGED ppVars
  PROVE  PpInv'
<1>1. UNCHANGED <<projectMode, suggest, rowVars, tabVars>>
  BY DEF ActivateProject, ArchiveProject, MapIsRenewed, ArchiveChatSession, LeaderStarts,
         LeaderEnds, BeforeModelRound, ppVars, projectVars
<1>2. ASSUME NEW p \in PlanProjects, OpenFlows(p) # {}
      PROVE  p = activeProject' /\ p \notin shelved'
  <2>1. p = activeProject /\ p \notin shelved
    BY <1>2 DEF PpInv, OnePlan
  <2>2. CASE UNCHANGED <<activeProject, shelved>>
    BY <2>1, <2>2
  <2>3. CASE \E q \in PlanProjects : ActivateProject(q)
    BY <1>2, <2>1, <2>3 DEF ActivateProject, HasActiveWork
  <2>4. CASE \E q \in PlanProjects : ArchiveProject(q)
    BY <1>2, <2>1, <2>4 DEF ArchiveProject, HasActiveWork
  <2> QED
    BY <2>2, <2>3, <2>4 DEF MapIsRenewed, ArchiveChatSession, LeaderStarts, LeaderEnds,
       BeforeModelRound, ppVars, projectVars
<1> QED
  BY <1>1, <1>2, PpAside

\* A step that leaves Projects and rows alone.
LEMMA PpReads ==
  ASSUME PpInv, UNCHANGED <<projectVars, rowVars>>, PlansTyped', PlansChecked', TabsSeen'
  PROVE  PpInv'
<1> USE DEF rowVars, projectVars
<1>1. TasksOwned' /\ RunsBound' /\ ApprovedAsShown' /\ TasksFollowPlan' /\ SubmittedOnce'
  BY DEF PpInv, TasksOwned, RunsBound, ApprovedAsShown, TasksFollowPlan, SubmittedOnce
<1>2. \A p \in PlanProjects : Ready(p)' = Ready(p) /\ OpenFlows(p)' = OpenFlows(p)
  BY DEF Ready, OpenFlows
<1>3. OnePlan'
  BY <1>2 DEF PpInv, OnePlan
<1> QED
  BY <1>1, <1>3 DEF PpInv

LEMMA PpRequestStep ==
  ASSUME PpInv,
         \/ \E r \in Leaders, d \in Suggestions : SuggestPlan(r, d)
         \/ \E t \in Tabs, p \in PlanProjects : HandleGetActivePlanProposal(t, p)
         \/ \E t \in Tabs, kind \in {"approve", "discard"} : HandlePlanProposalAction(t, kind)
         \/ PlanServerRestarts
  PROVE  PpInv'
<1>1. UNCHANGED <<projectVars, rowVars>>
  BY DEF SuggestPlan, HandleGetActivePlanProposal, HandlePlanProposalAction, PlanServerRestarts
<1>2. UNCHANGED proposals
  BY <1>1 DEF rowVars
<1>3. PlansTyped' /\ TabsSeen' /\ PlansChecked'
  <2> USE DEF PpInv, PlansTyped, TabsSeen, PlansChecked, rowVars, projectVars, tabVars
  <2>1. ASSUME NEW r \in Leaders, NEW d \in Suggestions, SuggestPlan(r, d)
        PROVE  PlansTyped' /\ TabsSeen' /\ PlansChecked'
    BY <1>1, <1>2, <2>1 DEF SuggestPlan, Submittable, validatePlanSuggestionArgs
  <2>2. ASSUME NEW t \in Tabs, NEW p \in PlanProjects, HandleGetActivePlanProposal(t, p)
        PROVE  PlansTyped' /\ TabsSeen' /\ PlansChecked'
    <3>1. \/ screen' = [screen EXCEPT ![t] = NoPlan]
          \/ \E i \in Ready(p) : screen' = [screen EXCEPT ![t] = Shown(i)]
      BY <2>2 DEF HandleGetActivePlanProposal
    <3>2. screen'[t] # NoPlan => SeenOf(proposals, screen'[t])
      BY <3>1, ShownIsSeen DEF Ready
    <3> QED
      BY <1>1, <1>2, <2>2, <3>1, <3>2 DEF HandleGetActivePlanProposal
  <2>3. ASSUME NEW t \in Tabs, NEW kind \in {"approve", "discard"},
               HandlePlanProposalAction(t, kind)
        PROVE  PlansTyped' /\ TabsSeen' /\ PlansChecked'
    BY <1>1, <1>2, <2>3 DEF HandlePlanProposalAction
  <2>4. ASSUME PlanServerRestarts
        PROVE  PlansTyped' /\ TabsSeen' /\ PlansChecked'
    BY <1>1, <1>2, <2>4 DEF PlanServerRestarts
  <2> QED
    BY <2>1, <2>2, <2>3, <2>4
<1> QED
  BY <1>1, <1>3, PpReads
\* A row that is written while its Project has no Workflow that is open.
LEMMA RowWritten ==
  ASSUME PpInv, NEW r \in Leaders, NEW c \in Calls, suggest[c] \notin {NoPlan, CallOver},
         r = suggest[c].run, ~AlreadySubmitted(r), NEW i \in ProposalIds, NEW row \in PlanRows,
         row.draft = suggest[c].draft, row.status = "ready", OpenFlows(row.project) = {},
         \/ Ready(row.project) = {} /\ proposals[i] = NoPlan
         \/ i \in Ready(row.project) /\ row.revision = proposals[i].revision + 1,
         Submits(r, i, row), suggest' = [suggest EXCEPT ![c] = CallOver],
         UNCHANGED <<projectVars, flows, taskRows, depRows, tabVars>>
  PROVE  PpInv'
<1> USE DEF projectVars, tabVars, Submits
<1>1. PlansTyped' /\ row # NoPlan /\ i # NoPlan
  BY PlanAssumption DEF PpInv, PlansTyped
<1>2. PlansChecked'
  BY DEF PpInv, PlansTyped, PlansChecked
<1>3. proposals[i] # NoPlan => row.revision = proposals[i].revision + 1
  BY DEF Ready
<1>4. TabsSeen'
  BY <1>3, SeenStays DEF PpInv, PlansTyped, TabsSeen
<1>5. TasksOwned' /\ ApprovedAsShown' /\ TasksFollowPlan'
  BY DEF PpInv, TasksOwned, ApprovedAsShown, TasksFollowPlan
<1>6. RunsBound' /\ SubmittedOnce'
  BY <1>1 DEF PpInv, PlansTyped, RunsBound, SubmittedOnce, AlreadySubmitted
<1>7. ASSUME NEW p \in PlanProjects
      PROVE  /\ OpenFlows(p)' = OpenFlows(p)
             /\ p # row.project => Ready(p)' = Ready(p)
             /\ p = row.project => Ready(p)' = {i}
  <2>1. OpenFlows(p)' = OpenFlows(p)
    BY DEF OpenFlows
  <2>2. \A j \in Ready(row.project) : j = i
    BY DEF PpInv, OnePlan, PlanRows
  <2>3. ASSUME p # row.project
        PROVE  Ready(p)' = Ready(p)
    BY <1>1, <2>3 DEF Ready, PpInv, PlansTyped, PlanRows
  <2>4. ASSUME p = row.project
        PROVE  Ready(p)' = {i}
    BY <1>1, <2>2, <2>4 DEF Ready, PpInv, PlansTyped, PlanRows
  <2> QED
    BY <2>1, <2>3, <2>4
<1>8. OnePlan'
  BY <1>7 DEF PpInv, OnePlan
<1> QED
  BY <1>1, <1>2, <1>4, <1>5, <1>6, <1>8 DEF PpInv

LEMMA RevisedRow ==
  ASSUME NEW old \in PlanRows, NEW d \in Suggestions, old.status = "ready"
  PROVE  LET row == [old EXCEPT !.revision = @ + 1, !.draft = d] IN
         /\ row \in PlanRows /\ row.draft = d /\ row.status = "ready"
         /\ row.project = old.project /\ row.revision = old.revision + 1
<1> DEFINE mid == [old EXCEPT !.revision = @ + 1]
<1>1. /\ mid \in PlanRows /\ mid.status = "ready"
      /\ mid.project = old.project /\ mid.revision = old.revision + 1
  BY DEF PlanRows
<1>2. [old EXCEPT !.revision = @ + 1, !.draft = d] = [mid EXCEPT !.draft = d]
  OBVIOUS
<1> HIDE DEF mid
<1>3. [mid EXCEPT !.draft = d] \in PlanRows
  BY <1>1 DEF PlanRows
<1>4. /\ [mid EXCEPT !.draft = d].draft = d /\ [mid EXCEPT !.draft = d].status = mid.status
      /\ [mid EXCEPT !.draft = d].project = mid.project
      /\ [mid EXCEPT !.draft = d].revision = mid.revision
  BY <1>1 DEF PlanRows
<1> QED
  BY <1>1, <1>2, <1>3, <1>4

LEMMA PpSubmitStep ==
  ASSUME PpInv, NEW c \in Calls, SubmitPlanProposalForRun(c)
  PROVE  PpInv'
<1> DEFINE r == suggest[c].run
           v == LeaderConv[r]
           d == suggest[c].draft
<1>1. r \in Leaders /\ d \in Suggestions /\ v \in PlanConvs /\ ProjectOf[v] \in PlanProjects
  BY PlanAssumption DEF PpInv, PlansChecked, SubmitPlanProposalForRun
<1>2. UNCHANGED <<projectVars, flows, taskRows, depRows, tabVars>>
      /\ suggest' = [suggest EXCEPT ![c] = CallOver]
  BY DEF SubmitPlanProposalForRun
<1>3. CASE UNCHANGED <<proposals, submissions, written>>
  <2>1. PlansTyped' /\ PlansChecked' /\ TabsSeen'
    BY <1>2, <1>3 DEF PpInv, PlansTyped, PlansChecked, TabsSeen, tabVars, projectVars
  <2> QED
    BY <1>2, <1>3, <2>1, PpReads DEF rowVars
<1>4. ASSUME NEW i \in Ready(ProjectOf[v]), ~AlreadySubmitted(r), OpenFlows(ProjectOf[v]) = {},
             Submits(r, i, Revised(i, d))
      PROVE  PpInv'
  <2>1. /\ i \in ProposalIds /\ proposals[i] \in PlanRows
        /\ proposals[i].status = "ready" /\ proposals[i].project = ProjectOf[v]
    BY DEF Ready, PpInv, PlansTyped
  <2>2. /\ Revised(i, d) \in PlanRows /\ Revised(i, d).draft = d
        /\ Revised(i, d).status = "ready" /\ Revised(i, d).project = ProjectOf[v]
        /\ Revised(i, d).revision = proposals[i].revision + 1
    BY <1>1, <2>1, RevisedRow DEF Revised
  <2> QED
    BY <1>1, <1>2, <1>4, <2>1, <2>2, RowWritten, ZenonT(40) DEF SubmitPlanProposalForRun
<1>5. ASSUME NEW i \in ProposalIds, IsNext(i, proposals), ~AlreadySubmitted(r),
             OpenFlows(ProjectOf[v]) = {}, Ready(ProjectOf[v]) = {},
             Submits(r, i, NewProposal(v, d))
      PROVE  PpInv'
  <2>1. /\ NewProposal(v, d) \in PlanRows /\ NewProposal(v, d).draft = d
        /\ NewProposal(v, d).status = "ready" /\ NewProposal(v, d).project = ProjectOf[v]
    BY <1>1 DEF NewProposal, PlanRows
  <2> QED
    BY <1>1, <1>2, <1>5, <2>1, RowWritten, ZenonT(40) DEF SubmitPlanProposalForRun, IsNext
<1> QED
  BY <1>3, <1>4, <1>5 DEF SubmitPlanProposalForRun

\* A proposal that is ready is answered.
LEMMA RowAnswered ==
  ASSUME PpInv, NEW i \in ProposalIds, proposals[i] # NoPlan, NEW s \in {"approved", "discarded"},
         proposals' = [proposals EXCEPT ![i].status = s, ![i].revision = @ + 1]
  PROVE  /\ proposals' \in [ProposalIds -> PlanRows \cup {NoPlan}]
         /\ \A j \in ProposalIds : proposals'[j] # NoPlan =>
              proposals[j] # NoPlan /\ proposals'[j].draft = proposals[j].draft
         /\ \A seen : SeenOf(proposals, seen) => SeenOf(proposals, seen)'
         /\ \A p : Ready(p)' = Ready(p) \ {i}
<1> DEFINE row == [proposals[i] EXCEPT !.status = s, !.revision = @ + 1]
<1>1. proposals \in [ProposalIds -> PlanRows \cup {NoPlan}] /\ proposals[i] \in PlanRows
  BY DEF PpInv, PlansTyped
<1>2. /\ row \in PlanRows /\ row.revision = proposals[i].revision + 1
      /\ row.status = s /\ row.draft = proposals[i].draft
  BY <1>1 DEF PlanRows
<1>3. proposals' = [proposals EXCEPT ![i] = row]
  BY <1>1
<1> HIDE DEF row
<1>4. proposals' \in [ProposalIds -> PlanRows \cup {NoPlan}]
  BY <1>1, <1>2, <1>3
<1>5. \A j \in ProposalIds : proposals'[j] # NoPlan =>
        proposals[j] # NoPlan /\ proposals'[j].draft = proposals[j].draft
  BY <1>1, <1>2, <1>3
<1>6. ASSUME NEW seen, SeenOf(proposals, seen)
      PROVE  SeenOf(proposals, seen)'
  BY <1>1, <1>2, <1>3, <1>6, SeenStays DEF SeenOf
<1>7. ASSUME NEW p
      PROVE  Ready(p)' = Ready(p) \ {i}
  BY <1>1, <1>2, <1>3 DEF Ready
<1> QED
  BY <1>4, <1>5, <1>6, <1>7

LEMMA PpDiscardStep ==
  ASSUME PpInv, NEW t \in Tabs, DiscardPlanProposal(t)
  PROVE  PpInv'
<1>1. act' = [act EXCEPT ![t] = NoPlan] /\ act[t] # NoPlan
      /\ UNCHANGED <<projectVars, suggest, submissions, written, flows, taskRows, depRows, screen>>
  BY DEF DiscardPlanProposal, ActEnds, ActAt, leaderVars
<1>2. CASE UNCHANGED proposals
  <2>1. PlansTyped' /\ PlansChecked' /\ TabsSeen'
    BY <1>1, <1>2 DEF PpInv, PlansTyped, PlansChecked, TabsSeen, projectVars
  <2> QED
    BY <1>1, <1>2, <2>1, PpReads DEF rowVars
<1>3. CASE ~UNCHANGED proposals
  <2> DEFINE i == act[t].shown.id
  <2>1. /\ i \in ProposalIds /\ proposals[i] # NoPlan
        /\ proposals' = [proposals EXCEPT ![i].status = "discarded", ![i].revision = @ + 1]
    BY <1>1, <1>3 DEF DiscardPlanProposal, PpInv, TabsSeen, SeenOf
  <2> HIDE DEF i
  <2>2. PlansTyped' /\ PlansChecked' /\ TabsSeen'
    BY <1>1, <2>1, RowAnswered DEF PpInv, PlansTyped, PlansChecked, TabsSeen, projectVars
  <2>3. TasksOwned' /\ RunsBound' /\ ApprovedAsShown' /\ TasksFollowPlan' /\ SubmittedOnce'
    BY <1>1 DEF PpInv, TasksOwned, RunsBound, ApprovedAsShown, TasksFollowPlan, SubmittedOnce
  <2>4. \A p : Ready(p)' = Ready(p) \ {i}
    BY <2>1, RowAnswered
  <2>5. \A p : OpenFlows(p)' = OpenFlows(p)
    BY <1>1 DEF OpenFlows
  <2>6. OnePlan'
    BY <1>1, <2>4, <2>5 DEF PpInv, OnePlan, projectVars
  <2> QED
    BY <2>2, <2>3, <2>6 DEF PpInv
<1> QED
  BY <1>2, <1>3

LEMMA PpFlowStep ==
  ASSUME PpInv, NEW w \in Flows, FlowEnds(w)
  PROVE  PpInv'
<1> DEFINE row == [flows[w] EXCEPT !.status = "ended"]
           q == flows[w].project
<1>1. /\ flows \in [Flows -> FlowRows \cup {NoPlan}] /\ flows[w] \in FlowRows
      /\ flows[w] # NoPlan /\ flows[w].status = "open" /\ flows' = [flows EXCEPT ![w] = row]
      /\ projectMode' = [projectMode EXCEPT ![q] = "development"]
      /\ UNCHANGED <<activeProject, shelved, suggest, proposals, submissions, written, taskRows,
                     depRows, screen, act>>
  BY DEF PpInv, PlansTyped, FlowEnds, tabVars
<1>2. /\ row \in FlowRows /\ row # NoPlan /\ q \in PlanProjects
      /\ row.project = q /\ row.status = "ended"
      /\ row.draft = flows[w].draft /\ row.shown = flows[w].shown
  BY <1>1, PlanAssumption DEF FlowRows
<1> HIDE DEF row, q
<1>3. PlansTyped' /\ PlansChecked' /\ TabsSeen' /\ RunsBound' /\ SubmittedOnce'
  BY <1>1, <1>2 DEF PpInv, PlansTyped, PlansChecked, TabsSeen, RunsBound, SubmittedOnce
<1>4. \A x \in Flows : /\ flows'[x] # NoPlan <=> flows[x] # NoPlan
                       /\ flows[x] # NoPlan => flows'[x].draft = flows[x].draft
                                               /\ flows'[x].shown = flows[x].shown
  BY <1>1, <1>2
<1>5. TasksOwned' /\ ApprovedAsShown'
  BY <1>1, <1>4 DEF PpInv, TasksOwned, ApprovedAsShown
<1>6. TasksFollowPlan'
  BY <1>1, <1>4 DEF PpInv, TasksFollowPlan
<1>7. \A p \in PlanProjects : Ready(p)' = Ready(p) /\ OpenFlows(p)' = OpenFlows(p) \ {w}
  BY <1>1, <1>2 DEF Ready, OpenFlows
<1>8. w \in OpenFlows(q) /\ \A p \in PlanProjects : w \in OpenFlows(p) => p = q
  BY <1>1 DEF OpenFlows, q
<1>9. \A p \in PlanProjects : projectMode'[p] = IF p = q THEN "development" ELSE projectMode[p]
  BY <1>1 DEF PpInv, PlansTyped
<1>10. OnePlan'
  BY <1>1, <1>2, <1>7, <1>8, <1>9 DEF PpInv, OnePlan
<1> QED
  BY <1>3, <1>5, <1>6, <1>10 DEF PpInv

\* The Tasks of a plan get ids of their own and depend on each other as in the plan.
LEMMA TasksAdded ==
  ASSUME PpInv, NEW w \in Flows, flows[w] = NoPlan, NEW d \in Suggestions,
         d.deps \subseteq d.tasks \X d.tasks, replacePlanTx(w, d),
         NEW row \in FlowRows, row.draft = d, flows' = [flows EXCEPT ![w] = row]
  PROVE  TasksOwned' /\ TasksFollowPlan'
<1> DEFINE id(k) == TaskIDs(w, k)
           added == {[id |-> id(k), flow |-> w, key |-> k] : k \in d.tasks}
           edges == {[flow |-> w, task |-> id(e[1]), on |-> id(e[2])] : e \in d.deps}
<1>1. taskRows' = taskRows \cup added /\ depRows' = depRows \cup edges
  BY DEF replacePlanTx
<1>2. d.tasks \subseteq PlanTasks /\ row # NoPlan
  BY PlanAssumption DEF SuggestionOf
<1>3. DOMAIN flows = Flows /\ \A x \in Flows : flows'[x] = IF x = w THEN row ELSE flows[x]
  BY DEF PpInv, PlansTyped
<1>4. \A k \in PlanTasks : id(k) \in {k, NewTaskID(w, k)}
  BY DEF TaskIDs
<1>5. \A k, l \in PlanTasks : id(k) = id(l) => k = l
  BY <1>4, PlanAssumption DEF NewTaskID
<1>6. \A k \in PlanTasks : \A a \in taskRows : a.id # id(k)
  <2> SUFFICES ASSUME NEW k \in PlanTasks, NEW a \in taskRows, a.id = id(k)
               PROVE  FALSE
    OBVIOUS
  <2>1. /\ a.flow \in Flows /\ a.flow # w /\ a.key \in PlanTasks
        /\ a.id \in {a.key, NewTaskID(a.flow, a.key)}
    BY DEF PpInv, TasksOwned
  <2>2. id(k) = NewTaskID(w, k)
    BY DEF TaskIDs
  <2> QED
    BY <2>1, <2>2, PlanAssumption DEF NewTaskID
<1>7. \A a \in added : /\ a.flow = w /\ a.key \in d.tasks /\ a.id = id(a.key)
                       /\ a = [id |-> a.id, flow |-> a.flow, key |-> a.key]
  OBVIOUS
<1>8. \A a \in taskRows : a.flow # w
  BY DEF PpInv, TasksOwned
<1>9. \A e \in depRows : e.flow # w
  BY DEF PpInv, TasksOwned
<1>10. \A e \in edges : e.flow = w
  OBVIOUS
<1>11. \A k, l \in d.tasks :
         <<k, l>> \in d.deps <=> [flow |-> w, task |-> id(k), on |-> id(l)] \in edges
  <2> SUFFICES ASSUME NEW k \in d.tasks, NEW l \in d.tasks
               PROVE  <<k, l>> \in d.deps
                        <=> [flow |-> w, task |-> id(k), on |-> id(l)] \in edges
    OBVIOUS
  <2>1. ASSUME <<k, l>> \in d.deps
        PROVE  [flow |-> w, task |-> id(k), on |-> id(l)] \in edges
    BY <2>1
  <2>2. ASSUME NEW e \in d.deps, [flow |-> w, task |-> id(k), on |-> id(l)]
                 = [flow |-> w, task |-> id(e[1]), on |-> id(e[2])]
        PROVE  <<k, l>> \in d.deps
    <3>1. e \in d.tasks \X d.tasks /\ e = <<e[1], e[2]>>
      OBVIOUS
    <3>2. id(k) = id(e[1]) /\ id(l) = id(e[2])
      BY <2>2
    <3> QED
      BY <1>2, <1>5, <3>1, <3>2
  <2> QED
    BY <2>1, <2>2
<1>12. \A k \in d.tasks : [id |-> id(k), flow |-> w, key |-> k] \in added
  OBVIOUS
<1> HIDE DEF id, added, edges
<1>13. TasksOwned'
  <2>1. ASSUME NEW a \in taskRows'
        PROVE  /\ a = [id |-> a.id, flow |-> a.flow, key |-> a.key]
               /\ a.flow \in Flows /\ flows'[a.flow] # NoPlan
               /\ a.key \in PlanTasks /\ a.id \in {a.key, NewTaskID(a.flow, a.key)}
    <3>1. CASE a \in taskRows
      BY <1>3, <1>8, <3>1 DEF PpInv, TasksOwned
    <3>2. CASE a \in added
      BY <1>2, <1>3, <1>4, <1>7, <3>2
    <3> QED
      BY <1>1, <3>1, <3>2
  <2>2. ASSUME NEW e \in depRows'
        PROVE  e.flow \in Flows /\ flows'[e.flow] # NoPlan
    BY <1>1, <1>2, <1>3, <1>9, <1>10 DEF PpInv, TasksOwned
  <2> QED
    BY <2>1, <2>2 DEF TasksOwned
<1>14. ASSUME NEW a \in taskRows', NEW b \in taskRows', a.id = b.id
       PROVE  a = b
  <2>1. CASE a \in taskRows /\ b \in taskRows
    BY <1>14, <2>1 DEF PpInv, TasksFollowPlan
  <2>2. CASE a \in added /\ b \in added
    BY <1>2, <1>5, <1>7, <1>14, <2>2
  <2>3. CASE (a \in added /\ b \in taskRows) \/ (a \in taskRows /\ b \in added)
    BY <1>2, <1>6, <1>7, <1>14, <2>3
  <2> QED
    BY <1>1, <2>1, <2>2, <2>3
<1>15. ASSUME NEW x \in Flows, flows'[x] # NoPlan
       PROVE  /\ {a.key : a \in {b \in taskRows' : b.flow = x}} = flows'[x].draft.tasks
              /\ \A a, b \in taskRows' : a.flow = x /\ b.flow = x =>
                   (<<a.key, b.key>> \in flows'[x].draft.deps
                      <=> [flow |-> x, task |-> a.id, on |-> b.id] \in depRows')
  <2>1. CASE x = w
    <3>1. {b \in taskRows' : b.flow = x} = added
      BY <1>1, <1>7, <1>8, <2>1
    <3>2. {a.key : a \in added} = d.tasks
      BY <1>7, <1>12
    <3>3. ASSUME NEW a \in added, NEW b \in added
          PROVE  <<a.key, b.key>> \in d.deps
                   <=> [flow |-> w, task |-> a.id, on |-> b.id] \in depRows'
      BY <1>1, <1>7, <1>9, <1>11
    <3> QED
      BY <1>3, <2>1, <3>1, <3>2, <3>3
  <2>2. CASE x # w
    <3>1. {b \in taskRows' : b.flow = x} = {b \in taskRows : b.flow = x}
      BY <1>1, <1>7, <2>2
    <3>2. \A a, b : [flow |-> x, task |-> a, on |-> b] \in depRows'
                      <=> [flow |-> x, task |-> a, on |-> b] \in depRows
      BY <1>1, <1>10, <2>2
    <3>3. flows'[x] = flows[x] /\ flows[x] # NoPlan
      BY <1>3, <1>15, <2>2
    <3> QED
      BY <3>1, <3>2, <3>3 DEF PpInv, TasksFollowPlan
  <2> QED
    BY <2>1, <2>2
<1>16. TasksFollowPlan'
  BY <1>14, <1>15 DEF TasksFollowPlan
<1> QED
  BY <1>13, <1>16

LEMMA PpApproveStep ==
  ASSUME PpInv, NEW t \in Tabs, ApprovePlanProposal(t)
  PROVE  PpInv'
<1>1. /\ act' = [act EXCEPT ![t] = NoPlan] /\ act[t] # NoPlan
      /\ UNCHANGED <<activeProject, shelved, suggest, submissions, written, screen>>
  BY DEF ApprovePlanProposal, ActEnds, ActAt
<1>2. CASE ~Approvable(t)
  <2>1. UNCHANGED <<projectVars, rowVars>>
    BY <1>2 DEF ApprovePlanProposal, projectVars, rowVars
  <2>2. PlansTyped' /\ PlansChecked' /\ TabsSeen'
    BY <1>1, <2>1 DEF PpInv, PlansTyped, PlansChecked, TabsSeen, projectVars, rowVars
  <2> QED
    BY <2>1, <2>2, PpReads
<1>3. CASE Approvable(t)
  <2> DEFINE i == act[t].shown.id
             q == proposals[i].project
             d == proposals[i].draft
  <2>1. /\ i \in ProposalIds /\ proposals[i] # NoPlan /\ proposals[i] \in PlanRows
        /\ act[t].shown.draft = d /\ proposals[i].status = "ready"
        /\ d.deps \subseteq d.tasks \X d.tasks /\ d.needs \subseteq d.skills
        /\ q = activeProject /\ q \notin shelved /\ OpenFlows(q) = {}
    BY <1>1, <1>3 DEF Approvable, ActProposal, IsExpected, validateDraft, ProjectWritableByUser,
       PpInv, PlansTyped, PlansChecked, TabsSeen, SeenOf
  <2>2. d \in Suggestions /\ q \in PlanProjects
    BY <2>1 DEF PlanRows
  <2> DEFINE row == [proposal |-> i, project |-> q, draft |-> d, shown |-> act[t].shown.draft,
                     status |-> "open"]
  <2>3. /\ row \in FlowRows /\ row # NoPlan /\ row.project = q /\ row.status = "open"
        /\ row.draft = d /\ row.shown = d
    BY <2>1, <2>2, PlanAssumption DEF FlowRows
  <2>4. PICK w \in Flows : /\ flows[w] = NoPlan /\ flows' = [flows EXCEPT ![w] = row]
                           /\ replacePlanTx(w, d)
    BY <1>3 DEF ApprovePlanProposal, ActProposal, IsNext
  <2>5. /\ projectMode' = [projectMode EXCEPT ![q] = "running"]
        /\ proposals' = [proposals EXCEPT ![i].status = "approved", ![i].revision = @ + 1]
    BY <1>3 DEF ApprovePlanProposal, ActProposal
  <2> HIDE DEF row, i, q, d
  <2>6. PlansTyped' /\ PlansChecked' /\ TabsSeen'
    <3>1. proposals' \in [ProposalIds -> PlanRows \cup {NoPlan}]
      BY <2>1, <2>5, RowAnswered
    <3>2. PlansTyped'
      BY <1>1, <2>3, <2>4, <2>5, <3>1 DEF PpInv, PlansTyped
    <3>3. PlansChecked'
      BY <1>1, <2>1, <2>5, RowAnswered DEF PpInv, PlansChecked
    <3>4. TabsSeen'
      BY <1>1, <2>1, <2>5, RowAnswered DEF PpInv, PlansTyped, TabsSeen
    <3> QED
      BY <3>2, <3>3, <3>4
  <2>7. RunsBound' /\ SubmittedOnce'
    BY <1>1 DEF PpInv, RunsBound, SubmittedOnce
  <2>8. \A x \in Flows : flows'[x] = IF x = w THEN row ELSE flows[x]
    BY <2>4 DEF PpInv, PlansTyped
  <2>9. ApprovedAsShown'
    BY <2>1, <2>3, <2>8 DEF PpInv, ApprovedAsShown
  <2>10. TasksOwned' /\ TasksFollowPlan'
    BY <2>1, <2>2, <2>3, <2>4, TasksAdded
  <2>11. \A p : Ready(p)' = Ready(p) \ {i}
    BY <2>1, <2>5, RowAnswered
  <2>12. \A p \in PlanProjects : OpenFlows(p)' = IF p = q THEN {w} ELSE OpenFlows(p)
    BY <2>1, <2>3, <2>4, <2>8 DEF OpenFlows
  <2>13. Ready(q) = {i}
    BY <2>1, <2>2 DEF PpInv, OnePlan, Ready, q
  <2>14. \A p \in PlanProjects : projectMode'[p] = IF p = q THEN "running" ELSE projectMode[p]
    BY <2>5 DEF PpInv, PlansTyped
  <2>15. OnePlan'
    BY <1>1, <2>1, <2>2, <2>11, <2>12, <2>13, <2>14 DEF PpInv, OnePlan
  <2> QED
    BY <2>6, <2>7, <2>9, <2>10, <2>15 DEF PpInv
<1> QED
  BY <1>2, <1>3

LEMMA PpInvStep == PpInv /\ [PpNext]_ppVars => PpInv'
BY PpContextStep, PpRequestStep, PpSubmitStep, PpApproveStep, PpDiscardStep, PpFlowStep
   DEF PpNext

\* What users approve is what runs, for every set of Projects, conversations, Runs and tabs:
\* a Project has one proposal to review or one Workflow, a Workflow is the plan that was
\* shown, its Tasks have ids of their own, and a Run submits once (SubmitPlanProposalForRun
\* and ApprovePlanProposal of src/internal/store, which check again what their callers saw).
THEOREM PlansStayReviewed == PpSpec => []PlansAreReviewed
<1>1. PpInv => PlansAreReviewed
  BY DEF PpInv, PlansAreReviewed
<1> QED
  BY <1>1, PpInitGood, PpInvStep, PTL DEF PpSpec
=============================================================================
