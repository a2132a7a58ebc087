-------------------------- MODULE SimulationScenes --------------------------
(***************************************************************************)
(* The Simulation service (internal/simulation): Runtime processes under a *)
(* supervisor, the scene a Project runs on one of them, and the lease of   *)
(* the Studio tabs; composed with the Robot instances of the scenes.       *)
(*                                                                         *)
(* A Runtime is an external process: it runs one scene, and answers for no *)
(* other.  stateMu (mutex) serialises starts, scene operations and         *)
(* Snapshots; Ensure, StopManaged, the observer of a start and the Robots  *)
(* run beside it.                                                          *)
(***************************************************************************)
EXTENDS RobotInstances

CONSTANTS Projects, Runtimes,
          Callers,     \* requests of a Project in progress at once
          Tabs,        \* bound: Studio tabs of a Project
          Cases        \* the Robots of the scenes, a bound for each Project: the
                       \* operations begun for it, and the mishaps used up

ASSUME SceneConstants == /\ Scenes \subseteq Nat /\ Tabs \in Nat
                         /\ None \notin Scenes \cup Projects \cup Runtimes
                         /\ \A p \in Projects, u \in Callers \cup {"lease", "watch"} : None # <<p, u>>
                         /\ Cases \subseteq [cast : [Scenes -> SUBSET Robots], calls : [Projects -> Nat],
                                             mishaps : 0 .. Mishaps]

VARIABLES runtime,   \* a Runtime: serving, our child, its scene, generation
          slot,      \* ProjectRuntimeState: scene, Runtime, generation
          owner,     \* the Project that started a scene
          observer,  \* observeCatalogSceneStart of a scene
          job,       \* the operation an actor performs
          mutex,     \* stateMu
          tabs,      \* the lease: open tabs, timer set, callbacks waiting
          cut,       \* history: scenes that ended unrecorded, with their Runtime process
                     \* or because the answer to their stop was lost
          astray,    \* history: scenes left running: nobody recorded their start, their
                     \* Project turned to another Runtime, or a recovery gave them up
          cast,      \* the Robots of a scene
          calls      \* operations that may still begin

bounds == <<cast, calls>>
sceneVars == <<runtime, slot, owner, observer, job, mutex, tabs, cut, astray, bounds>>
vars == <<robotVars, sceneVars>>

Actors == Projects \X (Callers \cup {"lease", "watch"})

Down == [up |-> FALSE, child |-> FALSE, scene |-> None, gen |-> 0]
NoJob == [op |-> "none", step |-> "none", scene |-> None, rt |-> None, seen |-> None, ok |-> FALSE]

ScenesInit ==
  /\ RobotsInit
  /\ runtime = [r \in Runtimes |-> Down]
  /\ slot = [p \in Projects |-> [scene |-> None, rt |-> None, gen |-> 0]]
  /\ owner = [s \in Scenes |-> None]
  /\ observer = [s \in Scenes |-> "off"]
  /\ job = [a \in Actors |-> NoJob]
  /\ mutex = None
  /\ tabs = [p \in Projects |-> [open |-> 0, timer |-> FALSE, fired |-> 0]]
  /\ cut = {} /\ astray = {}
  /\ \E c \in Cases : cast = c.cast /\ calls = c.calls /\ mishaps = c.mishaps

Serves(r, s) == r # None /\ runtime[r].up /\ runtime[r].scene = s
AtStep(a, step) == job[a].step = step
Becomes(a, step) == job' = [job EXCEPT ![a].step = step]
Finish(a) == job' = [job EXCEPT ![a] = NoJob]
Result(a, ok) == job' = [job EXCEPT ![a].step = "after", ![a].ok = ok]

\* A scene that goes on elsewhere while the slot turns to Runtime r: a switch of the
\* installation within a profile is not refused.
LeftBehind(p, r) ==
  {s \in Scenes : s = slot[p].scene /\ slot[p].rt # r /\ Serves(slot[p].rt, s)}

Called(p) == calls[p] > 0 /\ calls' = [calls EXCEPT ![p] = @ - 1] /\ UNCHANGED cast

-----------------------------------------------------------------------------
(* RuntimeSupervisor.                                                      *)

\* Ensure: a Runtime that answers is taken as it is, else its process is launched.
Ensured(r) == IF runtime[r].up THEN runtime[r] ELSE [Down EXCEPT !.up = TRUE, !.child = TRUE]

\* The process of a Runtime ends, whatever runs in it.
Ends(r) == /\ runtime' = [runtime EXCEPT ![r] = Down]
           /\ cut' = cut \cup ({runtime[r].scene} \ {None})

\* StopManaged ends our own process only.
StopManaged(r) ==
  IF r # None /\ runtime[r].child THEN Ends(r) ELSE UNCHANGED <<runtime, cut>>

\* StopRuntimeInstallation.
StopInstallation(r) ==
  /\ \E p \in Projects : Called(p)
  /\ runtime[r].child
  /\ Ends(r)
  /\ UNCHANGED <<robotVars, slot, owner, observer, job, mutex, tabs, astray>>

RuntimeExits(r) ==
  /\ runtime[r].up
  /\ Mishap
  /\ Ends(r)
  /\ UNCHANGED <<robotInst, portLease, supervisor, busy, starter, sweep,
                 slot, owner, observer, job, mutex, tabs, astray, bounds>>

-----------------------------------------------------------------------------
(* What a user begins.                                                     *)

Free(p) == {u \in Callers : job[<<p, u>>] = NoJob}

\* Callers are alike: the first free one is as good as any.
Begin(p, j) == /\ Free(p) # {}
               /\ Called(p)
               /\ job' = [job EXCEPT ![<<p, CHOOSE u \in Free(p) : TRUE>>] = j]

\* StartScene up to the lock: the choice of the Runtime, and Ensure; the scene that
\* runs there is read now.
CallStart(p, r) ==
  /\ runtime' = [runtime EXCEPT ![r] = Ensured(r)]
  /\ Begin(p, [NoJob EXCEPT !.op = "start", !.step = "locked", !.rt = r, !.seen = Ensured(r).scene])
  /\ UNCHANGED <<robotVars, slot, owner, observer, mutex, tabs, cut, astray>>

\* Stop, reset, a switch of the layout, the release of the Project.
CallSceneOperation(p, op) ==
  /\ slot[p].scene # None
  /\ Begin(p, [NoJob EXCEPT !.op = op, !.step = "hold", !.scene = slot[p].scene, !.rt = slot[p].rt])
  /\ UNCHANGED <<robotInst, portLease, supervisor, busy, starter, sweep,
                 runtime, slot, owner, observer, mutex, tabs, cut, astray>>

\* RecoverInterruptedProject: the Snapshot finds the scene gone from the Runtime, or the
\* probe of a Runtime that runs it fails.
CallRecover(p) ==
  /\ mutex = None
  /\ IF Serves(slot[p].rt, slot[p].scene) THEN Mishap ELSE UNCHANGED mishaps
  /\ CallSceneOperation(p, "recover")

\* EnsureProjectRuntime: the installation now chosen for the Project is launched, and
\* recorded under the lock.
EnsureProject(p, r) ==
  /\ mutex = None
  /\ runtime' = [runtime EXCEPT ![r] = Ensured(r)]
  /\ slot' = [slot EXCEPT ![p].rt = r]
  /\ astray' = astray \cup LeftBehind(p, r)
  /\ UNCHANGED <<robotVars, owner, observer, mutex, tabs, cut>>

CallEnsure(p, r) ==
  /\ Free(p) # {}
  /\ Called(p)
  /\ EnsureProject(p, r)
  /\ UNCHANGED job

\* Snapshot takes over the generation the Runtime reports for the recorded scene.
Snapshot(p) ==
  /\ mutex = None
  /\ slot[p].scene # None
  /\ Serves(slot[p].rt, slot[p].scene)
  /\ runtime[slot[p].rt].gen > slot[p].gen
  /\ slot' = [slot EXCEPT ![p].gen = runtime[slot[p].rt].gen]
  /\ UNCHANGED <<robotVars, runtime, owner, observer, job, mutex, tabs, cut, astray, bounds>>

-----------------------------------------------------------------------------
(* The start of a scene.                                                   *)

Unused == {s \in Scenes : owner[s] = None}

\* Another scene ran on the Runtime when Ensure looked, the Runtime is gone, or it
\* has a scene by now.
StartRefused(a) ==
  LET r == job[a].rt IN \/ job[a].seen # None /\ job[a].seen # slot[a[1]].scene
                        \/ ~runtime[r].up \/ runtime[r].scene # None \/ Unused = {}

\* StartCatalogScene: the new scene is watched from here on; when its place in the
\* catalog cannot be saved it is stopped again.
StartCatalogScene(a, s) ==
  \/ /\ observer' = [observer EXCEPT ![s] = "watch"]
     /\ Finish(a)
     /\ UNCHANGED mishaps
  \/ /\ Mishap
     /\ job' = [job EXCEPT ![a] = [NoJob EXCEPT !.op = "stop", !.step = "hold", !.scene = s,
                                               !.rt = job[a].rt]]
     /\ UNCHANGED observer

\* The rest of StartScene, under the lock.
StartScene(a) ==
  /\ AtStep(a, "locked")
  /\ mutex = None
  /\ \/ /\ StartRefused(a)
        /\ Finish(a)
        /\ UNCHANGED <<runtime, slot, owner, observer, astray, mishaps>>
     \/ /\ ~StartRefused(a)
        /\ LET s == Min(Unused) IN
             /\ runtime' = [runtime EXCEPT ![job[a].rt].scene = s, ![job[a].rt].gen = 1]
             /\ owner' = [owner EXCEPT ![s] = a[1]]
             /\ \/ /\ slot' = [slot EXCEPT ![a[1]] = [scene |-> s, rt |-> job[a].rt, gen |-> 1]]
                   /\ astray' = astray \cup LeftBehind(a[1], job[a].rt)
                   /\ StartCatalogScene(a, s)
                \/ /\ Mishap    \* the answer is lost, or SaveRuntimeState fails
                   /\ astray' = astray \cup {s}
                   /\ Finish(a)
                   /\ UNCHANGED <<slot, observer>>
  /\ UNCHANGED <<robotInst, portLease, supervisor, busy, starter, sweep, mutex, tabs, cut, bounds>>

\* observeCatalogSceneStart: it waits for the Runtime to load the scene (as long as it
\* takes), then comes the first checkpoint of the map, then the Robots; a scene without
\* its map is stopped again.
Observe(s) ==
  /\ observer[s] = "watch"
  /\ LET p == owner[s]
         r == slot[p].rt IN
       /\ slot[p].scene = s /\ Serves(r, s)
       /\ \/ /\ runtime[r].gen # 1
             /\ observer' = [observer EXCEPT ![s] = "off"]
             /\ UNCHANGED <<job, mishaps>>
          \/ /\ runtime[r].gen = 1
             /\ observer' = [observer EXCEPT ![s] = "robots"]
             /\ UNCHANGED <<job, mishaps>>
          \/ /\ runtime[r].gen = 1
             /\ Mishap
             /\ job[<<p, "watch">>] = NoJob
             /\ observer' = [observer EXCEPT ![s] = "off"]
             /\ job' = [job EXCEPT ![<<p, "watch">>] =
                          [NoJob EXCEPT !.op = "stop", !.step = "hold", !.scene = s, !.rt = r]]
  /\ UNCHANGED <<robotInst, portLease, supervisor, busy, starter, sweep,
                 runtime, slot, owner, mutex, tabs, cut, astray, bounds>>

\* The scene is no longer the Project's, or its Runtime does not answer.
ObserveEnds(s) ==
  /\ observer[s] # "off"
  /\ ~(slot[owner[s]].scene = s /\ Serves(slot[owner[s]].rt, s))
  /\ observer' = [observer EXCEPT ![s] = "off"]
  /\ UNCHANGED <<robotVars, runtime, slot, owner, job, mutex, tabs, cut, astray, bounds>>

\* startSceneRobots reads the Robots of the scene and starts one goroutine each.
StartSceneRobots(s) ==
  /\ observer[s] = "robots"
  /\ slot[owner[s]].scene = s /\ Serves(slot[owner[s]].rt, s)
  /\ observer' = [observer EXCEPT ![s] = "off"]
  /\ starter' = [i \in Instances |->
                   IF i[1] = s /\ i[2] \in cast[s] THEN [step |-> "prepare", old |-> None] ELSE starter[i]]
  /\ UNCHANGED <<robotInst, portLease, supervisor, busy, sweep, mishaps,
                 runtime, slot, owner, job, mutex, tabs, cut, astray, bounds>>

-----------------------------------------------------------------------------
(* SceneOperation: hold, Robots, Runtime.                                  *)

\* projectRuntime and the hold of every Robot by the Runtime, which may fail; for a
\* recovery the Runtime may still be as unreachable as its probe found it.
Hold(a) ==
  /\ AtStep(a, "hold")
  /\ mutex = None
  /\ ~sweep.on
  /\ LET p == a[1] IN
       \/ /\ IF /\ slot[p].scene = job[a].scene /\ Serves(slot[p].rt, slot[p].scene)
                /\ job[a].op # "recover"
             THEN Mishap ELSE UNCHANGED mishaps
          /\ Result(a, FALSE)
          /\ UNCHANGED <<mutex, sweep>>
       \/ /\ slot[p].scene = job[a].scene /\ Serves(slot[p].rt, slot[p].scene)
          /\ mutex' = a
          /\ IF job[a].op = "reset"
             THEN Becomes(a, "settle") /\ UNCHANGED sweep
             ELSE Becomes(a, "sweep") /\ BeginSweep({job[a].scene} \X Robots, TRUE)
          /\ UNCHANGED mishaps
  /\ UNCHANGED <<robotInst, portLease, supervisor, busy, starter,
                 runtime, slot, owner, observer, tabs, cut, astray, bounds>>

\* A reset keeps the instances: it goes on when every Pilot is online and what it
\* executes has ended safely.  A stop does not wait for that, the Pilots are next.
PilotsOnline(s) == \A b \in Robots : Active(robotInst[<<s, b>>]) => supervisor[<<s, b>>] = "up"

\* An Execution that ends interrupted, without evidence or too late is not safe.
StopAndWait(safe) == IF safe THEN UNCHANGED mishaps ELSE Mishap

HoldSceneRobots(a) ==
  /\ AtStep(a, "settle")
  /\ \E safe \in BOOLEAN :
       /\ IF PilotsOnline(job[a].scene) THEN StopAndWait(safe) ELSE ~safe /\ UNCHANGED mishaps
       /\ IF safe THEN Becomes(a, "apply") /\ UNCHANGED mutex
                  ELSE Result(a, FALSE) /\ mutex' = None
  /\ UNCHANGED <<robotInst, portLease, supervisor, busy, starter, sweep,
                 runtime, slot, owner, observer, tabs, cut, astray, bounds>>

\* stopSceneRobots returned; an error keeps the scene.
RobotsStopped(a) ==
  /\ AtStep(a, "sweep")
  /\ SweepDone /\ sweep.held
  /\ sweep' = NoSweep
  /\ IF sweep.bad THEN Result(a, FALSE) /\ mutex' = None
                  ELSE Becomes(a, "halt") /\ UNCHANGED mutex
  /\ UNCHANGED <<robotInst, portLease, supervisor, busy, starter, mishaps,
                 runtime, slot, owner, observer, tabs, cut, astray, bounds>>

FreedAnyway(p, halted) == slot' = [slot EXCEPT ![p].scene = None]

\* Only a scene the Runtime reports as stopped leaves the slot.
Freed(p, halted) == slot' = IF halted THEN [slot EXCEPT ![p].scene = None] ELSE slot

\* The Runtime's own stop, and the state saved after it: the scene may have stopped
\* although the answer is lost or the state cannot be saved.
Halt(a) ==
  /\ AtStep(a, "halt")
  /\ LET p == a[1]
         r == slot[p].rt IN
       \/ /\ Serves(r, job[a].scene)
          /\ runtime' = [runtime EXCEPT ![r].scene = None]
          /\ \/ Freed(p, TRUE) /\ Result(a, TRUE) /\ UNCHANGED <<cut, mishaps>>
             \/ /\ Mishap
                /\ cut' = cut \cup {job[a].scene}
                /\ Freed(p, FALSE) /\ Result(a, FALSE)
       \/ /\ IF Serves(r, job[a].scene) THEN Mishap ELSE UNCHANGED mishaps
          /\ Freed(p, FALSE) /\ Result(a, FALSE)
          /\ UNCHANGED <<runtime, cut>>
  /\ mutex' = None
  /\ UNCHANGED <<robotInst, portLease, supervisor, busy, starter, sweep,
                 owner, observer, tabs, astray, bounds>>

\* Reset: a new generation, recorded unless the answer is lost.
Reset(a) ==
  /\ AtStep(a, "apply")
  /\ LET p == a[1]
         r == slot[p].rt IN
       \/ /\ Serves(r, job[a].scene)
          /\ runtime' = [runtime EXCEPT ![r].gen = @ + 1]
          /\ \/ slot' = [slot EXCEPT ![p].gen = runtime[r].gen + 1] /\ UNCHANGED mishaps
             \/ Mishap /\ UNCHANGED slot
       \/ /\ ~Serves(r, job[a].scene)
          /\ UNCHANGED <<runtime, slot, mishaps>>
  /\ mutex' = None
  /\ Finish(a)
  /\ UNCHANGED <<robotInst, portLease, supervisor, busy, starter, sweep,
                 owner, observer, tabs, cut, astray, bounds>>

-----------------------------------------------------------------------------
(* What follows a stop.                                                    *)

\* SwitchCatalogVariant starts the new scene on the same Runtime; a stop is over.
AfterStop(a) ==
  /\ AtStep(a, "after")
  /\ \/ /\ job[a].op = "switch" /\ job[a].ok
        /\ runtime' = [runtime EXCEPT ![job[a].rt] = Ensured(job[a].rt)]
        /\ job' = [job EXCEPT ![a].step = "locked", ![a].seen = Ensured(job[a].rt).scene]
     \/ /\ job[a].op \in {"stop", "reset"} \/ (job[a].op = "switch" /\ ~job[a].ok)
        /\ Finish(a)
        /\ UNCHANGED runtime
  /\ UNCHANGED <<robotVars, slot, owner, observer, mutex, tabs, cut, astray, bounds>>

\* ReleaseProject goes on to the process, whether or not the scene could be stopped.
AfterRelease(a) ==
  /\ AtStep(a, "after")
  /\ job[a].op = "release"
  /\ StopManaged(job[a].rt)
  /\ Finish(a)
  /\ UNCHANGED <<robotVars, slot, owner, observer, mutex, tabs, astray, bounds>>

\* RecoverInterruptedProject reads the slot again: the process is stopped only when it is
\* still taken; an installation on another machine is left as it is.
AfterRecover(a) ==
  /\ AtStep(a, "after")
  /\ job[a].op = "recover"
  /\ LET now == slot[a[1]] IN
       \/ /\ now.scene = job[a].scene
          /\ \/ StopManaged(now.rt) /\ Becomes(a, "clear")
             \/ ~runtime[now.rt].child /\ Finish(a) /\ UNCHANGED <<runtime, cut>>
       \/ /\ now.scene = None
          /\ Becomes(a, "ensure")
          /\ UNCHANGED <<runtime, cut>>
       \/ /\ now.scene \notin {None, job[a].scene}
          /\ Finish(a)
          /\ UNCHANGED <<runtime, cut>>
  /\ UNCHANGED <<robotVars, slot, owner, observer, mutex, tabs, astray, bounds>>

\* A Runtime that is no child of ours was not stopped, and goes on with the scene.
GivenUp(s) == {t \in {s} : \E r \in Runtimes : runtime[r].scene = t}

\* The slot is freed if it still names the lost scene.
ClearSlot(a) ==
  /\ AtStep(a, "clear")
  /\ mutex = None
  /\ IF slot[a[1]].scene = job[a].scene
     THEN /\ slot' = [slot EXCEPT ![a[1]].scene = None]
          /\ astray' = astray \cup GivenUp(job[a].scene)
     ELSE UNCHANGED <<slot, astray>>
  /\ Becomes(a, "ensure")
  /\ UNCHANGED <<robotVars, runtime, owner, observer, mutex, tabs, cut, bounds>>

\* The end of a recovery.
EnsureAfter(a) ==
  /\ AtStep(a, "ensure")
  /\ \E r \in Runtimes : EnsureProject(a[1], r)
  /\ Finish(a)
  /\ UNCHANGED bounds

-----------------------------------------------------------------------------
(* The lease of the Studio tabs.                                           *)

leaseOthers == <<robotVars, runtime, slot, owner, observer, mutex, cut, astray>>

Connected(p) ==
  /\ tabs[p].open < Tabs
  /\ Called(p)
  /\ tabs' = [tabs EXCEPT ![p].open = @ + 1, ![p].timer = FALSE]
  /\ UNCHANGED <<leaseOthers, job>>

Disconnected(p) ==
  /\ tabs[p].open > 0
  /\ tabs' = [tabs EXCEPT ![p].open = @ - 1, ![p].timer = (tabs[p].open = 1)]
  /\ UNCHANGED <<leaseOthers, job, bounds>>

\* The callback of an expired timer runs, and waits for the lease's lock.
TimerFires(p) ==
  /\ tabs[p].timer /\ tabs[p].fired = 0
  /\ tabs' = [tabs EXCEPT ![p].fired = 1]
  /\ UNCHANGED <<leaseOthers, job, bounds>>

ReleaseIfStillUnused(p) ==
  /\ tabs[p].fired = 1
  /\ job[<<p, "lease">>] = NoJob
  /\ tabs' = [tabs EXCEPT ![p].fired = 0, ![p].timer = IF tabs[p].open = 0 THEN FALSE ELSE @]
  /\ job' = IF tabs[p].open > 0 \/ slot[p].rt = None THEN job
            ELSE [job EXCEPT ![<<p, "lease">>] =
                    [NoJob EXCEPT !.op = "release", !.scene = slot[p].scene, !.rt = slot[p].rt,
                                  !.step = IF slot[p].scene = None THEN "after" ELSE "hold"]]
  /\ UNCHANGED <<leaseOthers, bounds>>

-----------------------------------------------------------------------------
(* The end of the Server.                                                  *)

Forget == /\ job' = [a \in Actors |-> NoJob]
          /\ mutex' = None
          /\ observer' = [s \in Scenes |-> "off"]
          /\ tabs' = [p \in Projects |-> [open |-> 0, timer |-> FALSE, fired |-> 0]]
          /\ LoseRobotCalls

\* The next Server does not know the Runtimes as its children.
CrashServer ==
  /\ Mishap
  /\ Forget
  /\ runtime' = [r \in Runtimes |-> [runtime[r] EXCEPT !.child = FALSE]]
  /\ UNCHANGED <<robotInst, portLease, supervisor, slot, owner, cut, astray, bounds>>

\* App.shutdown: the Robots first, then Service.Shutdown closes our Runtimes.
FinishShutdown ==
  /\ SweepDone /\ ~sweep.held
  /\ Forget
  /\ runtime' = [r \in Runtimes |-> IF runtime[r].child THEN Down ELSE runtime[r]]
  /\ cut' = cut \cup ({runtime[r].scene : r \in {r \in Runtimes : runtime[r].child}} \ {None})
  /\ UNCHANGED <<robotInst, portLease, supervisor, mishaps, slot, owner, astray, bounds>>

\* What the Server does by itself once it began.
ScenesStep ==
  \/ \E a \in Actors : \/ StartScene(a) \/ Hold(a) \/ HoldSceneRobots(a) \/ RobotsStopped(a)
                       \/ Halt(a) \/ Reset(a)
                       \/ AfterStop(a) \/ AfterRelease(a) \/ AfterRecover(a) \/ ClearSlot(a)
                       \/ EnsureAfter(a)
  \/ \E s \in Scenes : Observe(s) \/ ObserveEnds(s) \/ StartSceneRobots(s)
  \/ \E p \in Projects : TimerFires(p) \/ ReleaseIfStillUnused(p)
  \/ FinishShutdown

ScenesCall ==
  \/ \E p \in Projects : \/ CallRecover(p) \/ Snapshot(p) \/ Connected(p) \/ Disconnected(p)
                         \/ \E op \in {"stop", "reset", "switch", "release"} :
                              CallSceneOperation(p, op) /\ UNCHANGED mishaps
                         \/ \E r \in Runtimes : CallStart(p, r) \/ CallEnsure(p, r)
  \/ \E r \in Runtimes : StopInstallation(r)

ScenesNext ==
  \/ ScenesStep \/ ScenesCall
  \/ (RobotsStep \/ RobotsMishap) /\ UNCHANGED sceneVars
  \/ \E r \in Runtimes : RuntimeExits(r)
  \/ CrashServer

ScenesSpec == ScenesInit /\ [][ScenesNext]_vars

\* The goroutines run, and a mutex goes to each that waits for it in turn.  No fairness
\* for the two calls that wait as long as their caller does: for the Pilots of a scene
\* that is reset, and for the processes of an instance that is reclaimed.
ScenesFairness ==
  /\ WF_vars(RobotsGoOn /\ UNCHANGED sceneVars)
  /\ WF_vars(\E a \in Actors : RobotsStopped(a) \/ Halt(a) \/ Reset(a))

ScenesFairSpec == ScenesSpec /\ ScenesFairness

-----------------------------------------------------------------------------
(* What makes it correct.                                                  *)

\* The recorded scene of a Project is the one its Runtime runs, and the Runtime runs
\* no scene but that of its owner: starts, stops, switches, recoveries and releases
\* of two Projects may interleave as they like.  Left out, each way, are the scenes in
\* cut and astray: ended, or left running, without a record.
SlotMatchesRuntime ==
  /\ \A p \in Projects : slot[p].scene # None =>
       slot[p].scene \in cut \cup astray \/ Serves(slot[p].rt, slot[p].scene)
  /\ \A r \in Runtimes : runtime[r].scene # None =>
       \/ runtime[r].scene \in astray
       \/ slot[owner[runtime[r].scene]].scene = runtime[r].scene

\* Whoever holds stateMu lets it go, although a stop waits, under it, for the lock of a
\* Robot whose start takes its time to become ready; unless what it waits for has no
\* end in the code: the Pilots of a reset, or processes that are reclaimed.
HolderWaits == mutex # None /\ (AtStep(mutex, "settle") \/ \E b \in Robots : Retiring(b))
StateLockIsReleased == mutex # None ~> mutex = None \/ HolderWaits

=============================================================================
