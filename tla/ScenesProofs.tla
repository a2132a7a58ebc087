---------------------------- MODULE ScenesProofs ----------------------------
(***************************************************************************)
(* Proofs about the scenes of the Simulation and the Robots they launch:   *)
(* instances never share a Robot or a port, and the slot of a Project      *)
(* agrees with the Runtime.                                                *)
(***************************************************************************)
EXTENDS SimulationScenes, FiniteSetTheorems, WellFoundedInduction, TLAPS

\* The first of some numbers is one of them.
LEMMA MinIn ==
  ASSUME NEW S \in SUBSET Nat, S # {}
  PROVE  Min(S) \in S
<1>1. PICK n \in S : \A m \in S : ~ (<<m, n>> \in OpToRel(<, Nat))
  BY WFMin, NatLessThanWellFounded, Zenon
<1>2. \A m \in S : ~ (m < n)
  BY <1>1, Zenon DEF OpToRel
<1>3. \A m \in S : n <= m
  BY <1>2
<1> QED
  BY <1>3 DEF Min

\* The sweep over a scene is no instance.
LEMMA SweeperApart == Sweeper \notin Instances /\ \A i \in Instances : RobotOf(i) \in Robots
  BY SceneConstants DEF Sweeper, Instances, RobotOf

-----------------------------------------------------------------------------
(* The Robots of the scenes.                                               *)

Statuses == {"none", "starting", "ready", "stopping", "stopped", "interrupted", "failed"}
Launching == {"port", "launch", "wait"}

InstTyped ==
  /\ DOMAIN robotInst = Instances /\ \A i \in Instances : robotInst[i] \in Statuses
  /\ DOMAIN portLease = Instances /\ \A i \in Instances : portLease[i] \in Ports \cup {None}
  /\ DOMAIN supervisor = Instances
  /\ \A i \in Instances : supervisor[i] \in {"absent", "idle", "up", "orphan"}
  /\ DOMAIN busy = Robots
  /\ DOMAIN starter = Instances /\ \A i \in Instances : DOMAIN starter[i] = {"step", "old"}
OneActive ==
  \A i, j \in Instances :
    RobotOf(i) = RobotOf(j) /\ Active(robotInst[i]) /\ Active(robotInst[j]) => i = j
OnRecord == \A i \in Instances : Running(i) => Active(robotInst[i]) /\ portLease[i] # None
LeasesApart ==
  \A i, j \in Instances : portLease[i] # None /\ portLease[i] = portLease[j] => i = j
LockSound(b) ==
  busy[b] # None =>
    /\ DOMAIN busy[b] = {"call", "inst", "by"}
    /\ busy[b].inst \in Instances /\ RobotOf(busy[b].inst) = b
    /\ Active(robotInst[busy[b].inst])
    /\ \/ busy[b].call = "start" /\ starter[busy[b].inst].step \in Launching
       \/ /\ busy[b].call \in {"stop", "reclaim"}
          /\ \/ busy[b].by = Sweeper
             \/ /\ busy[b].by \in Instances /\ At(busy[b].by, busy[b].call)
                /\ starter[busy[b].by].old = busy[b].inst
StartSound(i) ==
  starter[i].step \in Launching =>
    /\ busy[RobotOf(i)] # None
    /\ busy[RobotOf(i)].call = "start" /\ busy[RobotOf(i)].inst = i
    /\ starter[i].step = "port" => ~Running(i)
    /\ starter[i].step # "port" => portLease[i] # None
InstInv ==
  /\ InstTyped /\ OneActive /\ OnRecord /\ LeasesApart
  /\ \A b \in Robots : LockSound(b)
  /\ \A i \in Instances : StartSound(i)

LEMMA RobotsGood == RobotsInit => InstInv
  BY DEF RobotsInit, InstInv, InstTyped, Statuses, OneActive, OnRecord, LeasesApart, Running,
         LockSound, StartSound, Active, Resting, Launching

\* What a record goes through while the locks, the processes and the leases stay.
LEMMA PrepareKeeps ==
  ASSUME InstInv, NEW i \in Instances, PrepareRobot(i)
  PROVE  InstInv'
<1>1. /\ DOMAIN starter' = Instances /\ \A j \in Instances \ {i} : starter'[j] = starter[j]
      /\ DOMAIN starter'[i] = {"step", "old"}
      /\ starter'[i].step \in {"off", "start", "reclaim", "stop"} /\ starter[i].step = "prepare"
      /\ UNCHANGED <<robotInst, portLease, supervisor, busy>>
  BY DEF PrepareRobot, At, Go, InstInv, InstTyped
<1>2. InstTyped' /\ OneActive' /\ OnRecord' /\ LeasesApart'
  BY <1>1 DEF InstInv, InstTyped, OneActive, OnRecord, LeasesApart, Running
<1>3. \A b \in Robots : LockSound(b)'
  BY <1>1 DEF InstInv, LockSound, Launching, At
<1>4. \A j \in Instances : StartSound(j)'
  BY <1>1 DEF InstInv, StartSound, Launching, Running
<1> QED
  BY <1>2, <1>3, <1>4 DEF InstInv

\* What the supervisor answers: a confirmed stop leaves nothing running, and a stop starts
\* nothing.
Plausible(i, o) ==
  /\ o[1] \in {"absent", "idle", "up", "orphan"}
  /\ Confirmed(o) => o[1] \notin {"up", "orphan"}
  /\ o[1] \in {"up", "orphan"} => Running(i)

LEMMA OutcomesPlausible ==
  ASSUME InstInv, NEW i \in Instances, NEW o \in StopOutcomes(i) \cup ReclaimOutcomes(i)
  PROVE  Plausible(i, o)
<1>1. supervisor[i] \in {"absent", "idle", "up", "orphan"}
  BY DEF InstInv, InstTyped
<1>2. /\ Plausible(i, <<"absent", TRUE>>) /\ Plausible(i, <<"idle", TRUE>>)
      /\ Plausible(i, <<"idle", FALSE>>)
  BY Zenon DEF Plausible, Confirmed
<1>3. Running(i) => Plausible(i, <<"orphan", FALSE>>) /\ Plausible(i, <<"up", FALSE>>)
  BY Zenon DEF Plausible, Confirmed
<1>4. CASE supervisor[i] = "absent"
  <2>1. StopOutcomes(i) = {<<"absent", TRUE>>}
    BY <1>4, Zenon DEF StopOutcomes
  <2>2. ReclaimOutcomes(i) = {<<"absent", TRUE>>}
    BY <1>4, Zenon DEF ReclaimOutcomes
  <2> QED
    BY <1>2, <2>1, <2>2, Zenon
<1>5. CASE supervisor[i] = "idle"
  <2>1. StopOutcomes(i) = {<<"idle", TRUE>>, <<"idle", FALSE>>}
    BY <1>5 DEF StopOutcomes
  <2>2. ReclaimOutcomes(i) = {<<"idle", TRUE>>}
    BY <1>5 DEF ReclaimOutcomes
  <2> QED
    BY <1>2, <2>1, <2>2, Zenon
<1>6. CASE supervisor[i] = "up"
  <2>1. StopOutcomes(i) = {<<"idle", TRUE>>, <<"orphan", FALSE>>}
    BY <1>6 DEF StopOutcomes
  <2>2. ReclaimOutcomes(i) = {<<"up", FALSE>>}
    BY <1>6 DEF ReclaimOutcomes
  <2>3. Running(i)
    BY <1>6 DEF Running
  <2> QED
    BY <1>2, <1>3, <2>1, <2>2, <2>3, Zenon
<1>7. CASE supervisor[i] = "orphan"
  <2>1. StopOutcomes(i) = {<<"orphan", FALSE>>}
    BY <1>7 DEF StopOutcomes
  <2>2. ReclaimOutcomes(i) = {<<"idle", TRUE>>, <<"orphan", FALSE>>}
    BY <1>7 DEF ReclaimOutcomes
  <2>3. Running(i)
    BY <1>7 DEF Running
  <2> QED
    BY <1>2, <1>3, <2>1, <2>2, <2>3, Zenon
<1> QED
  BY <1>1, <1>4, <1>5, <1>6, <1>7

\* The end of a call on an active instance.
LEMMA EndKeeps ==
  ASSUME InstInv, NEW i \in Instances, NEW o, NEW status \in {"stopped", "failed"},
         Plausible(i, o), EndWith(i, o, status), Active(robotInst[i])
  PROVE  /\ DOMAIN robotInst' = Instances /\ DOMAIN portLease' = Instances
         /\ DOMAIN supervisor' = Instances
         /\ \A j \in Instances \ {i} : /\ robotInst'[j] = robotInst[j]
                                       /\ portLease'[j] = portLease[j]
                                       /\ supervisor'[j] = supervisor[j]
         /\ robotInst'[i] \in Statuses /\ portLease'[i] \in Ports \cup {None}
         /\ supervisor'[i] \in {"absent", "idle", "up", "orphan"}
         /\ OneActive' /\ OnRecord' /\ LeasesApart'
<1>1. /\ DOMAIN robotInst = Instances /\ DOMAIN portLease = Instances /\ DOMAIN supervisor = Instances
      /\ robotInst[i] \in Statuses /\ portLease[i] \in Ports \cup {None}
  BY DEF InstInv, InstTyped
<1>2. /\ DOMAIN robotInst' = Instances /\ DOMAIN portLease' = Instances
      /\ DOMAIN supervisor' = Instances
      /\ \A j \in Instances \ {i} : /\ robotInst'[j] = robotInst[j]
                                    /\ portLease'[j] = portLease[j]
                                    /\ supervisor'[j] = supervisor[j]
      /\ supervisor'[i] = o[1]
      /\ Confirmed(o) => robotInst'[i] = status /\ portLease'[i] = None
      /\ ~Confirmed(o) => robotInst'[i] = "interrupted" /\ portLease'[i] = portLease[i]
  BY <1>1 DEF EndWith, Record
<1>3. OneActive'
  BY <1>2 DEF InstInv, OneActive
<1>4. OnRecord'
  BY <1>1, <1>2 DEF InstInv, OnRecord, Running, Plausible, Active
<1>5. LeasesApart'
  BY <1>1, <1>2 DEF InstInv, LeasesApart
<1>6. /\ robotInst'[i] \in Statuses /\ portLease'[i] \in Ports \cup {None}
      /\ supervisor'[i] \in {"absent", "idle", "up", "orphan"}
  BY <1>1, <1>2 DEF Statuses, Plausible
<1> QED
  BY <1>2, <1>3, <1>4, <1>5, <1>6

LEMMA FailKeeps ==
  ASSUME InstInv, NEW i \in Instances, FailStart(i)
  PROVE  InstInv'
<1>1. /\ starter[i].step \in {"launch", "wait"} /\ RobotOf(i) \in Robots
      /\ busy[RobotOf(i)] # None /\ busy[RobotOf(i)].inst = i /\ Active(robotInst[i])
  BY DEF FailStart, StartGivesUp, At, InstInv, StartSound, LockSound, Launching, RobotOf,
     Instances
<1>2. PICK o \in StopOutcomes(i) : EndWith(i, o, "failed")
  BY DEF FailStart
<1>3. /\ DOMAIN starter' = Instances /\ \A j \in Instances \ {i} : starter'[j] = starter[j]
      /\ starter'[i] = Resting
      /\ DOMAIN busy' = Robots /\ busy'[RobotOf(i)] = None
      /\ \A b \in Robots \ {RobotOf(i)} : busy'[b] = busy[b]
  BY <1>1 DEF FailStart, Rest, Unlocked, InstInv, InstTyped
<1>4. /\ DOMAIN robotInst' = Instances /\ DOMAIN portLease' = Instances
      /\ DOMAIN supervisor' = Instances
      /\ \A j \in Instances \ {i} : /\ robotInst'[j] = robotInst[j]
                                    /\ portLease'[j] = portLease[j]
                                    /\ supervisor'[j] = supervisor[j]
      /\ robotInst'[i] \in Statuses /\ portLease'[i] \in Ports \cup {None}
      /\ supervisor'[i] \in {"absent", "idle", "up", "orphan"}
      /\ OneActive' /\ OnRecord' /\ LeasesApart'
  BY <1>1, <1>2, OutcomesPlausible, EndKeeps
<1>5. InstTyped'
  BY <1>3, <1>4 DEF InstInv, InstTyped, Resting
<1>6. ASSUME NEW b \in Robots
      PROVE  LockSound(b)'
  <2>1. CASE b = RobotOf(i)
    BY <1>3, <2>1 DEF LockSound
  <2>2. CASE b # RobotOf(i)
    <3>1. busy'[b] = busy[b] /\ (busy[b] # None => busy[b].inst \in Instances \ {i})
      BY <1>3, <2>2 DEF InstInv, LockSound
    <3>2. busy[b] # None /\ busy[b].call # "start" => busy[b].by # i \/ busy[b].by = Sweeper
      BY <1>1 DEF InstInv, LockSound, At
    <3> QED
      BY <1>3, <1>4, <3>1, <3>2 DEF InstInv, LockSound, At
  <2> QED
    BY <2>1, <2>2
<1>7. ASSUME NEW j \in Instances
      PROVE  StartSound(j)'
  <2>1. CASE j = i
    BY <1>3, <2>1 DEF StartSound, Resting, Launching
  <2>2. CASE j # i
    <3>1. starter[j].step \in Launching => RobotOf(j) # RobotOf(i)
      BY <1>1, <2>2 DEF InstInv, StartSound
    <3>2. RobotOf(j) \in Robots
      BY DEF RobotOf, Instances
    <3> QED
      BY <1>3, <1>4, <2>2, <3>1, <3>2 DEF InstInv, StartSound, Running
  <2> QED
    BY <2>1, <2>2
<1> QED
  BY <1>4, <1>5, <1>6, <1>7 DEF InstInv

\* A step about Robot k, by the start of c or by the sweep, leaves the others alone.
OthersAlone(k, c) ==
  /\ DOMAIN busy' = Robots /\ \A b \in Robots \ {k} : busy'[b] = busy[b]
  /\ \A j \in Instances : RobotOf(j) # k => /\ robotInst'[j] = robotInst[j]
                                            /\ portLease'[j] = portLease[j]
                                            /\ supervisor'[j] = supervisor[j]
  /\ \A j \in Instances \ {c} : starter'[j] = starter[j]
  /\ c \in Instances => /\ starter[c].step \in Launching => RobotOf(c) = k
                        /\ At(c, "stop") \/ At(c, "reclaim") => RobotOf(starter[c].old) = k
                        /\ starter'[c].step \in Launching => RobotOf(c) = k

LEMMA OthersKeep ==
  ASSUME InstInv, NEW k \in Robots, NEW c, OthersAlone(k, c)
  PROVE  /\ \A b \in Robots \ {k} : LockSound(b)'
         /\ \A j \in Instances : RobotOf(j) # k => StartSound(j)'
<1>1. ASSUME NEW b \in Robots \ {k}
      PROVE  LockSound(b)'
  <2>1. busy'[b] = busy[b]
    BY DEF OthersAlone
  <2>2. CASE busy[b] = None
    BY <2>1, <2>2 DEF LockSound
  <2>3. CASE busy[b] # None
    <3>1. /\ DOMAIN busy[b] = {"call", "inst", "by"}
          /\ busy[b].inst \in Instances /\ RobotOf(busy[b].inst) = b
          /\ Active(robotInst[busy[b].inst])
          /\ robotInst'[busy[b].inst] = robotInst[busy[b].inst]
      BY <2>3 DEF InstInv, LockSound, OthersAlone
    <3>2. CASE busy[b].call = "start" /\ starter[busy[b].inst].step \in Launching
      <4>1. busy[b].inst # c
        BY <3>1, <3>2 DEF OthersAlone
      <4> QED
        BY <2>1, <3>1, <3>2, <4>1 DEF LockSound, OthersAlone
    <3>3. CASE busy[b].call \in {"stop", "reclaim"} /\ busy[b].by = Sweeper
      BY <2>1, <3>1, <3>3 DEF LockSound
    <3>4. CASE /\ busy[b].call \in {"stop", "reclaim"}
               /\ busy[b].by \in Instances /\ At(busy[b].by, busy[b].call)
               /\ starter[busy[b].by].old = busy[b].inst
      <4>1. busy[b].by # c
        BY <3>1, <3>4 DEF OthersAlone
      <4>2. starter'[busy[b].by] = starter[busy[b].by]
        BY <3>4, <4>1 DEF OthersAlone
      <4> QED
        BY <2>1, <3>1, <3>4, <4>2 DEF LockSound, At
    <3> QED
      BY <2>3, <3>2, <3>3, <3>4 DEF InstInv, LockSound
  <2> QED
    BY <2>2, <2>3
<1>2. ASSUME NEW j \in Instances, RobotOf(j) # k
      PROVE  StartSound(j)'
  <2>1. RobotOf(j) \in Robots
    BY SweeperApart
  <2>2. starter'[j].step \in Launching => starter'[j] = starter[j]
    BY <1>2 DEF OthersAlone
  <2> QED
    BY <1>2, <2>1, <2>2 DEF InstInv, StartSound, OthersAlone, Running
<1> QED
  BY <1>1, <1>2

\* What a caller does with the answer never launches anything.
LEMMA CallerGoesOn ==
  ASSUME InstInv, NEW by \in Instances \cup {Sweeper}, NEW i \in Instances, NEW status,
         Returned(by, i, status) \/ GaveUp(by, i)
  PROVE  /\ DOMAIN starter' = Instances
         /\ \A j \in Instances : DOMAIN starter'[j] = {"step", "old"}
         /\ \A j \in Instances \ {by} : starter'[j] = starter[j]
         /\ by \in Instances => starter'[by].step \in {"reclaim", "start", "off"}
<1>1. CASE by = Sweeper
  BY <1>1, SweeperApart DEF Returned, GaveUp, InstInv, InstTyped
<1>2. CASE by \in Instances
  <2>1. by # Sweeper
    BY <1>2, SweeperApart
  <2>2. CASE Returned(by, i, status)
    BY <1>2, <2>1, <2>2 DEF Returned, InstInv, InstTyped
  <2>3. CASE GaveUp(by, i)
    BY <1>2, <2>1, <2>3 DEF GaveUp, Rest, Resting, InstInv, InstTyped
  <2> QED
    BY <2>2, <2>3
<1> QED
  BY <1>1, <1>2

\* Stop, up to the call of the launcher.
LEMMA BeginStopKeeps ==
  ASSUME InstInv, NEW i \in Instances, NEW by \in Instances \cup {Sweeper}, BeginStop(by, i)
  PROVE  InstInv'
<1>1. /\ busy[RobotOf(i)] = None /\ RobotOf(i) \in Robots
      /\ UNCHANGED <<portLease, supervisor>>
      /\ by \in Instances => At(by, "stop") /\ starter[by].old = i
      /\ \A j \in Instances : RobotOf(j) = RobotOf(i) => starter[j].step \notin Launching
  BY SweeperApart DEF BeginStop, WantsStop, InstInv, StartSound
<1>2. CASE /\ ~Active(robotInst[i]) /\ Returned(by, i, robotInst[i])
           /\ UNCHANGED <<robotInst, busy>>
  <2>1. /\ DOMAIN starter' = Instances
        /\ \A j \in Instances : DOMAIN starter'[j] = {"step", "old"}
        /\ \A j \in Instances \ {by} : starter'[j] = starter[j]
        /\ by \in Instances => starter'[by].step \in {"reclaim", "start", "off"}
    BY <1>2, CallerGoesOn
  <2>2. InstTyped' /\ OneActive' /\ OnRecord' /\ LeasesApart'
    BY <1>1, <1>2, <2>1 DEF InstInv, InstTyped, OneActive, OnRecord, LeasesApart, Running
  <2>3. OthersAlone(RobotOf(i), by)
    BY <1>1, <1>2, <2>1 DEF OthersAlone, At, Launching, InstInv, InstTyped
  <2>4. LockSound(RobotOf(i))'
    BY <1>1, <1>2 DEF LockSound
  <2>5. \A j \in Instances : RobotOf(j) = RobotOf(i) => StartSound(j)'
    BY <1>1, <2>1 DEF StartSound, Launching
  <2> QED
    BY <1>1, <2>2, <2>3, <2>4, <2>5, OthersKeep DEF InstInv
<1>3. CASE /\ Active(robotInst[i]) /\ Record(i, "stopping")
           /\ Locked(RobotOf(i), "stop", i, by) /\ UNCHANGED starter
  <2>1. /\ DOMAIN robotInst' = Instances /\ robotInst'[i] = "stopping"
        /\ \A j \in Instances \ {i} : robotInst'[j] = robotInst[j]
        /\ DOMAIN busy' = Robots /\ \A b \in Robots \ {RobotOf(i)} : busy'[b] = busy[b]
        /\ busy'[RobotOf(i)] = [call |-> "stop", inst |-> i, by |-> by]
    BY <1>1, <1>3 DEF Record, Locked, InstInv, InstTyped
  <2>2. InstTyped' /\ OneActive' /\ OnRecord' /\ LeasesApart'
    <3>1. InstTyped'
      BY <1>1, <1>3, <2>1 DEF InstInv, InstTyped, Statuses
    <3>2. OneActive'
      BY <1>3, <2>1 DEF InstInv, OneActive
    <3>3. OnRecord' /\ LeasesApart'
      BY <1>1, <2>1 DEF InstInv, OnRecord, LeasesApart, Running, Active
    <3> QED
      BY <3>1, <3>2, <3>3
  <2>3. OthersAlone(RobotOf(i), Sweeper)
    BY <1>1, <1>3, <2>1, SweeperApart DEF OthersAlone
  <2>4. LockSound(RobotOf(i))'
    BY <1>1, <1>3, <2>1 DEF LockSound, Active, At
  <2>5. \A j \in Instances : RobotOf(j) = RobotOf(i) => StartSound(j)'
    BY <1>1, <1>3 DEF StartSound
  <2> QED
    BY <1>1, <2>2, <2>3, <2>4, <2>5, OthersKeep DEF InstInv
<1> QED
  BY <1>2, <1>3 DEF BeginStop

\* A reclaim, up to the call of the launcher.
LEMMA BeginReclaimKeeps ==
  ASSUME InstInv, NEW i \in Instances, NEW by \in Instances \cup {Sweeper}, BeginReclaim(by, i)
  PROVE  InstInv'
<1>1. /\ busy[RobotOf(i)] = None /\ RobotOf(i) \in Robots
      /\ UNCHANGED <<robotInst, portLease, supervisor>>
      /\ by \in Instances => At(by, "reclaim") /\ starter[by].old = i
      /\ \A j \in Instances : RobotOf(j) = RobotOf(i) => starter[j].step \notin Launching
  BY SweeperApart DEF BeginReclaim, WantsReclaim, InstInv, StartSound
<1>2. CASE GaveUp(by, i) /\ UNCHANGED busy
  <2>1. /\ DOMAIN starter' = Instances
        /\ \A j \in Instances : DOMAIN starter'[j] = {"step", "old"}
        /\ \A j \in Instances \ {by} : starter'[j] = starter[j]
        /\ by \in Instances => starter'[by].step \in {"reclaim", "start", "off"}
    BY <1>2, CallerGoesOn
  <2>2. InstTyped' /\ OneActive' /\ OnRecord' /\ LeasesApart'
    BY <1>1, <1>2, <2>1 DEF InstInv, InstTyped, OneActive, OnRecord, LeasesApart, Running
  <2>3. OthersAlone(RobotOf(i), by)
    BY <1>1, <1>2, <2>1 DEF OthersAlone, At, Launching, InstInv, InstTyped
  <2>4. LockSound(RobotOf(i))'
    BY <1>1, <1>2 DEF LockSound
  <2>5. \A j \in Instances : RobotOf(j) = RobotOf(i) => StartSound(j)'
    BY <1>1, <2>1 DEF StartSound, Launching
  <2> QED
    BY <1>1, <2>2, <2>3, <2>4, <2>5, OthersKeep DEF InstInv
<1>3. CASE /\ robotInst[i] = "interrupted"
           /\ Locked(RobotOf(i), "reclaim", i, by) /\ UNCHANGED starter
  <2>1. /\ DOMAIN busy' = Robots /\ \A b \in Robots \ {RobotOf(i)} : busy'[b] = busy[b]
        /\ busy'[RobotOf(i)] = [call |-> "reclaim", inst |-> i, by |-> by]
    BY <1>1, <1>3 DEF Locked, InstInv, InstTyped
  <2>2. InstTyped' /\ OneActive' /\ OnRecord' /\ LeasesApart'
    BY <1>1, <1>3, <2>1 DEF InstInv, InstTyped, OneActive, OnRecord, LeasesApart, Running
  <2>3. OthersAlone(RobotOf(i), Sweeper)
    BY <1>1, <1>3, <2>1, SweeperApart DEF OthersAlone, InstInv, InstTyped
  <2>4. LockSound(RobotOf(i))'
    BY <1>1, <1>3, <2>1 DEF LockSound, Active, At
  <2>5. \A j \in Instances : RobotOf(j) = RobotOf(i) => StartSound(j)'
    BY <1>1, <1>3 DEF StartSound
  <2> QED
    BY <1>1, <2>2, <2>3, <2>4, <2>5, OthersKeep DEF InstInv
<1> QED
  BY <1>2, <1>3 DEF BeginReclaim

\* The launcher's answer to a stop or a reclaim.
LEMMA EndCallKeeps ==
  ASSUME InstInv, NEW b \in Robots, EndStop(b) \/ EndReclaim(b)
  PROVE  InstInv'
<1> DEFINE i == busy[b].inst
           by == busy[b].by
<1>1. /\ busy[b] # None /\ busy[b].call \in {"stop", "reclaim"}
      /\ i \in Instances /\ RobotOf(i) = b /\ Active(robotInst[i])
      /\ by \in Instances \cup {Sweeper}
      /\ by \in Instances => At(by, busy[b].call) /\ starter[by].old = i
      /\ \A j \in Instances : RobotOf(j) = b => starter[j].step \notin Launching
  BY SweeperApart DEF EndStop, EndReclaim, InstInv, LockSound, StartSound
<1>2. PICK o \in StopOutcomes(i) \cup ReclaimOutcomes(i) :
        /\ EndWith(i, o, "stopped")
        /\ \E status : Returned(by, i, status) \/ GaveUp(by, i)
  <2>1. CASE EndStop(b)
    BY <2>1 DEF EndStop
  <2>2. CASE EndReclaim(b)
    BY <2>2 DEF EndReclaim
  <2> QED
    BY <2>1, <2>2
<1>3. DOMAIN busy' = Robots /\ busy'[b] = None /\ \A c \in Robots \ {b} : busy'[c] = busy[c]
  BY DEF EndStop, EndReclaim, Unlocked, InstInv, InstTyped
<1> HIDE DEF i, by
<1>4. /\ DOMAIN robotInst' = Instances /\ DOMAIN portLease' = Instances
      /\ DOMAIN supervisor' = Instances
      /\ \A j \in Instances \ {i} : /\ robotInst'[j] = robotInst[j]
                                    /\ portLease'[j] = portLease[j]
                                    /\ supervisor'[j] = supervisor[j]
      /\ robotInst'[i] \in Statuses /\ portLease'[i] \in Ports \cup {None}
      /\ supervisor'[i] \in {"absent", "idle", "up", "orphan"}
      /\ OneActive' /\ OnRecord' /\ LeasesApart'
  BY <1>1, <1>2, OutcomesPlausible, EndKeeps
<1>5. /\ DOMAIN starter' = Instances
      /\ \A j \in Instances : DOMAIN starter'[j] = {"step", "old"}
      /\ \A j \in Instances \ {by} : starter'[j] = starter[j]
      /\ by \in Instances => starter'[by].step \in {"reclaim", "start", "off"}
  BY <1>1, <1>2, CallerGoesOn
<1>6. InstTyped'
  BY <1>3, <1>4, <1>5 DEF InstInv, InstTyped
<1>7. OthersAlone(b, by)
  BY <1>1, <1>3, <1>4, <1>5 DEF OthersAlone, At, Launching
<1>8. LockSound(b)'
  BY <1>3 DEF LockSound
<1>9. \A j \in Instances : RobotOf(j) = b => StartSound(j)'
  BY <1>1, <1>5 DEF StartSound, Launching
<1> QED
  BY <1>4, <1>6, <1>7, <1>8, <1>9, OthersKeep DEF InstInv

\* The start of a Robot that is free: no other instance of it is active.
LEMMA BeginStartKeeps ==
  ASSUME InstInv, NEW i \in Instances, BeginStart(i)
  PROVE  InstInv'
<1>1. /\ busy[RobotOf(i)] = None /\ RobotOf(i) \in Robots /\ starter[i].step = "start"
      /\ UNCHANGED <<portLease, supervisor>>
      /\ \A j \in Instances : RobotOf(j) = RobotOf(i) => starter[j].step \notin Launching
  BY SweeperApart DEF BeginStart, At, InstInv, StartSound
<1>2. /\ DOMAIN starter' = Instances
      /\ \A j \in Instances : DOMAIN starter'[j] = {"step", "old"}
      /\ \A j \in Instances \ {i} : starter'[j] = starter[j]
  BY DEF BeginStart, Rest, Go, Resting, InstInv, InstTyped
<1>3. CASE Rest(i) /\ UNCHANGED <<robotInst, busy>>
  <2>1. starter'[i].step = "off"
    BY <1>3 DEF Rest, Resting, InstInv, InstTyped
  <2>2. InstTyped' /\ OneActive' /\ OnRecord' /\ LeasesApart'
    BY <1>1, <1>2, <1>3 DEF InstInv, InstTyped, OneActive, OnRecord, LeasesApart, Running
  <2>3. OthersAlone(RobotOf(i), i)
    BY <1>1, <1>2, <1>3, <2>1 DEF OthersAlone, At, Launching, InstInv, InstTyped
  <2>4. LockSound(RobotOf(i))'
    BY <1>1, <1>3 DEF LockSound
  <2>5. \A j \in Instances : RobotOf(j) = RobotOf(i) => StartSound(j)'
    BY <1>1, <1>2, <2>1 DEF StartSound, Launching
  <2> QED
    BY <1>1, <2>2, <2>3, <2>4, <2>5, OthersKeep DEF InstInv
<1>4. CASE /\ RobotIsFree(RobotOf(i)) /\ Record(i, "starting")
           /\ Locked(RobotOf(i), "start", i, i) /\ Go(i, "port")
  <2>1. /\ DOMAIN robotInst' = Instances /\ robotInst'[i] = "starting"
        /\ \A j \in Instances \ {i} : robotInst'[j] = robotInst[j]
        /\ DOMAIN busy' = Robots /\ \A b \in Robots \ {RobotOf(i)} : busy'[b] = busy[b]
        /\ busy'[RobotOf(i)] = [call |-> "start", inst |-> i, by |-> i]
        /\ starter'[i].step = "port"
    BY <1>1, <1>4 DEF Record, Locked, Go, InstInv, InstTyped
  <2>2. \A j \in Instances : RobotOf(j) = RobotOf(i) => ~Active(robotInst[j]) /\ ~Running(j)
    BY <1>4 DEF RobotIsFree, ActiveOn, InstInv, OnRecord
  <2>3. InstTyped' /\ OneActive' /\ OnRecord' /\ LeasesApart'
    <3>1. InstTyped'
      BY <1>1, <1>2, <2>1 DEF InstInv, InstTyped, Statuses
    <3>2. OneActive'
      BY <2>1, <2>2 DEF InstInv, OneActive
    <3>3. OnRecord' /\ LeasesApart'
      BY <1>1, <2>1, <2>2 DEF InstInv, OnRecord, LeasesApart, Running
    <3> QED
      BY <3>1, <3>2, <3>3
  <2>4. OthersAlone(RobotOf(i), i)
    BY <1>1, <1>2, <2>1 DEF OthersAlone, At
  <2>5. LockSound(RobotOf(i))'
    BY <1>1, <2>1 DEF LockSound, Active, Launching
  <2>6. \A j \in Instances : RobotOf(j) = RobotOf(i) => StartSound(j)'
    <3>1. StartSound(i)'
      <4>1. ~Running(i) /\ (~Running(i))'
        BY <1>1, <2>2 DEF Running
      <4>2. busy'[RobotOf(i)] # None
        BY <2>1, InstanceConstants DEF Instances
      <4> QED
        BY <2>1, <4>1, <4>2 DEF StartSound
    <3> QED
      BY <1>1, <1>2, <3>1 DEF StartSound
  <2> QED
    BY <1>1, <2>3, <2>4, <2>5, <2>6, OthersKeep DEF InstInv
<1>5. CASE RobotIsFree(RobotOf(i)) /\ Record(i, "failed") /\ Rest(i) /\ UNCHANGED busy
  <2>1. /\ DOMAIN robotInst' = Instances /\ robotInst'[i] = "failed"
        /\ \A j \in Instances \ {i} : robotInst'[j] = robotInst[j]
        /\ starter'[i].step = "off"
    BY <1>5 DEF Record, Rest, Resting, InstInv, InstTyped
  <2>2. ~Running(i)
    BY <1>5 DEF RobotIsFree, ActiveOn, InstInv, OnRecord
  <2>3. InstTyped' /\ OneActive' /\ OnRecord' /\ LeasesApart'
    <3>1. InstTyped'
      BY <1>1, <1>2, <1>5, <2>1 DEF InstInv, InstTyped, Statuses
    <3>2. OneActive' /\ OnRecord' /\ LeasesApart'
      BY <1>1, <2>1, <2>2 DEF InstInv, OneActive, OnRecord, LeasesApart, Running, Active
    <3> QED
      BY <3>1, <3>2
  <2>4. OthersAlone(RobotOf(i), i)
    BY <1>1, <1>2, <1>5, <2>1 DEF OthersAlone, At, Launching, InstInv, InstTyped
  <2>5. LockSound(RobotOf(i))'
    BY <1>1, <1>5 DEF LockSound
  <2>6. \A j \in Instances : RobotOf(j) = RobotOf(i) => StartSound(j)'
    BY <1>1, <1>2, <2>1 DEF StartSound, Launching
  <2> QED
    BY <1>1, <2>3, <2>4, <2>5, <2>6, OthersKeep DEF InstInv
<1> QED
  BY <1>3, <1>4, <1>5 DEF BeginStart

\* A launch under way: the lock of the Robot is the start's.
LEMMA LaunchHoldsTheRobot ==
  ASSUME InstInv, NEW i \in Instances, starter[i].step \in Launching
  PROVE  /\ RobotOf(i) \in Robots /\ busy[RobotOf(i)] # None
         /\ busy[RobotOf(i)].call = "start" /\ busy[RobotOf(i)].inst = i /\ Active(robotInst[i])
         /\ DOMAIN busy[RobotOf(i)] = {"call", "inst", "by"}
         /\ starter[i].step = "port" => ~Running(i)
         /\ starter[i].step # "port" => portLease[i] # None
         /\ \A j \in Instances \ {i} : RobotOf(j) = RobotOf(i) => starter[j].step \notin Launching
  BY SweeperApart DEF InstInv, StartSound, LockSound

\* The start lets the Robot go.
LEMMA StartEndKeeps ==
  ASSUME InstInv, NEW i \in Instances, starter[i].step \in Launching,
         InstTyped', OneActive', OnRecord', LeasesApart', Unlocked(RobotOf(i)), Rest(i),
         \A j \in Instances \ {i} : /\ robotInst'[j] = robotInst[j]
                                    /\ portLease'[j] = portLease[j]
                                    /\ supervisor'[j] = supervisor[j]
  PROVE  InstInv'
<1>1. /\ RobotOf(i) \in Robots
      /\ \A j \in Instances \ {i} : RobotOf(j) = RobotOf(i) => starter[j].step \notin Launching
  BY LaunchHoldsTheRobot
<1>2. /\ \A j \in Instances \ {i} : starter'[j] = starter[j]
      /\ starter'[i].step = "off"
      /\ busy'[RobotOf(i)] = None /\ \A b \in Robots \ {RobotOf(i)} : busy'[b] = busy[b]
  BY <1>1 DEF Rest, Resting, Unlocked, InstInv, InstTyped
<1>3. OthersAlone(RobotOf(i), i)
  BY <1>1, <1>2 DEF OthersAlone, At, Launching, InstTyped
<1>4. LockSound(RobotOf(i))'
  BY <1>2 DEF LockSound
<1>5. \A j \in Instances : RobotOf(j) = RobotOf(i) => StartSound(j)'
  BY <1>1, <1>2 DEF StartSound, Launching
<1> QED
  BY <1>1, <1>3, <1>4, <1>5, OthersKeep DEF InstInv

\* The start goes on under the same lock.
LEMMA StartGoesOnKeeps ==
  ASSUME InstInv, NEW i \in Instances, starter[i].step \in Launching,
         InstTyped', OneActive', OnRecord', LeasesApart', UNCHANGED <<busy, robotInst>>,
         NEW step \in {"launch", "wait"}, Go(i, step), portLease'[i] # None,
         \A j \in Instances \ {i} : /\ portLease'[j] = portLease[j]
                                    /\ supervisor'[j] = supervisor[j]
  PROVE  InstInv'
<1>1. /\ RobotOf(i) \in Robots /\ busy[RobotOf(i)] # None
      /\ busy[RobotOf(i)].call = "start" /\ busy[RobotOf(i)].inst = i /\ Active(robotInst[i])
      /\ DOMAIN busy[RobotOf(i)] = {"call", "inst", "by"}
      /\ \A j \in Instances \ {i} : RobotOf(j) = RobotOf(i) => starter[j].step \notin Launching
  BY LaunchHoldsTheRobot
<1>2. /\ \A j \in Instances \ {i} : starter'[j] = starter[j]
      /\ starter'[i].step = step
  BY DEF Go, InstInv, InstTyped
<1>3. OthersAlone(RobotOf(i), i)
  BY <1>1, <1>2 DEF OthersAlone, At, Launching, InstInv, InstTyped
<1>4. LockSound(RobotOf(i))'
  BY <1>1, <1>2 DEF LockSound, Launching
<1>5. \A j \in Instances : RobotOf(j) = RobotOf(i) => StartSound(j)'
  BY <1>1, <1>2 DEF StartSound, Launching
<1> QED
  BY <1>1, <1>3, <1>4, <1>5, OthersKeep DEF InstInv

\* A port is leased to nobody else.
LEMMA AcquirePortKeeps ==
  ASSUME InstInv, NEW i \in Instances, AcquirePort(i)
  PROVE  InstInv'
<1>1. /\ starter[i].step = "port" /\ starter[i].step \in Launching /\ ~Running(i)
      /\ UNCHANGED supervisor
  BY LaunchHoldsTheRobot DEF AcquirePort, At, Launching
<1>2. CASE /\ portLease[i] # None \/ FreePorts # {}
           /\ portLease' = [portLease EXCEPT ![i] = IF @ # None THEN @ ELSE Min(FreePorts)]
           /\ Go(i, "launch") /\ UNCHANGED <<robotInst, busy>>
  <2>1. /\ DOMAIN portLease' = Instances
        /\ \A j \in Instances \ {i} : portLease'[j] = portLease[j]
        /\ portLease[i] # None => portLease'[i] = portLease[i]
        /\ portLease[i] = None => portLease'[i] = Min(FreePorts) /\ FreePorts # {}
    BY <1>2 DEF InstInv, InstTyped
  <2>2. portLease[i] = None => Min(FreePorts) \in FreePorts
    <3>1. FreePorts \in SUBSET Nat
      BY InstanceConstants DEF FreePorts
    <3> QED
      BY <2>1, <3>1, MinIn
  <2>3. /\ portLease'[i] # None /\ portLease'[i] \in Ports
        /\ \A j \in Instances \ {i} : portLease[j] # portLease'[i]
    <3>1. CASE portLease[i] = None
      BY <2>1, <2>2, <3>1, InstanceConstants DEF FreePorts
    <3>2. CASE portLease[i] # None
      BY <2>1, <3>2 DEF InstInv, InstTyped, LeasesApart
    <3> QED
      BY <3>1, <3>2
  <2>4. InstTyped'
    BY <1>1, <1>2, <2>1, <2>3 DEF InstInv, InstTyped, Go
  <2>5. OneActive' /\ OnRecord' /\ LeasesApart'
    <3>1. OneActive' /\ OnRecord'
      BY <1>1, <1>2, <2>1, <2>3 DEF InstInv, OneActive, OnRecord, Running
    <3>2. LeasesApart'
      BY <2>1, <2>3 DEF InstInv, LeasesApart
    <3> QED
      BY <3>1, <3>2
  <2> QED
    BY <1>1, <1>2, <2>1, <2>3, <2>4, <2>5, StartGoesOnKeeps
<1>3. CASE /\ Record(i, "failed") /\ Unlocked(RobotOf(i)) /\ Rest(i) /\ UNCHANGED portLease
  <2>1. /\ DOMAIN robotInst' = Instances /\ robotInst'[i] = "failed"
        /\ \A j \in Instances \ {i} : robotInst'[j] = robotInst[j]
    BY <1>3 DEF Record, InstInv, InstTyped
  <2>2. InstTyped'
    BY <1>1, <1>3, <2>1 DEF InstInv, InstTyped, Statuses, Unlocked, Rest, Resting
  <2>3. OneActive' /\ OnRecord' /\ LeasesApart'
    BY <1>1, <1>3, <2>1 DEF InstInv, OneActive, OnRecord, LeasesApart, Running, Active
  <2> QED
    BY <1>1, <1>3, <2>1, <2>2, <2>3, StartEndKeeps
<1> QED
  BY <1>2, <1>3 DEF AcquirePort

LEMMA LaunchKeeps ==
  ASSUME InstInv, NEW i \in Instances, Launch(i)
  PROVE  InstInv'
<1>1. /\ starter[i].step = "launch" /\ starter[i].step \in Launching
      /\ Active(robotInst[i]) /\ portLease[i] # None
      /\ UNCHANGED <<robotInst, portLease, busy>> /\ Go(i, "wait")
  BY LaunchHoldsTheRobot DEF Launch, At, Launching
<1>2. /\ DOMAIN supervisor' = Instances /\ supervisor'[i] = "up"
      /\ \A j \in Instances \ {i} : supervisor'[j] = supervisor[j]
  BY DEF Launch, InstInv, InstTyped
<1>3. InstTyped'
  BY <1>1, <1>2 DEF InstInv, InstTyped, Go
<1>4. OneActive' /\ OnRecord' /\ LeasesApart'
  BY <1>1, <1>2 DEF InstInv, OneActive, OnRecord, LeasesApart, Running
<1> QED
  BY <1>1, <1>2, <1>3, <1>4, StartGoesOnKeeps

\* The wait for readiness ends with a record.
LEMMA ReadyKeeps ==
  ASSUME InstInv, NEW i \in Instances, BecomesReady(i) \/ ReadyNotStored(i)
  PROVE  InstInv'
<1>1. /\ starter[i].step \in Launching /\ Active(robotInst[i])
      /\ UNCHANGED <<portLease, supervisor>> /\ Unlocked(RobotOf(i)) /\ Rest(i)
  BY LaunchHoldsTheRobot DEF BecomesReady, ReadyNotStored, At, Launching
<1>2. /\ DOMAIN robotInst' = Instances /\ robotInst'[i] \in {"ready", "interrupted"}
      /\ \A j \in Instances \ {i} : robotInst'[j] = robotInst[j]
  BY DEF BecomesReady, ReadyNotStored, Record, InstInv, InstTyped
<1>3. InstTyped'
  BY <1>1, <1>2 DEF InstInv, InstTyped, Statuses, Unlocked, Rest, Resting
<1>4. OneActive'
  BY <1>1, <1>2 DEF InstInv, OneActive
<1>5. OnRecord' /\ LeasesApart'
  BY <1>1, <1>2 DEF InstInv, OnRecord, LeasesApart, Running, Active
<1> QED
  BY <1>1, <1>2, <1>3, <1>4, <1>5, StartEndKeeps

\* A supervisor ends under its record.
LEMMA ExitKeeps ==
  ASSUME InstInv, NEW i \in Instances, SupervisorExits(i)
  PROVE  InstInv'
<1>1. /\ DOMAIN supervisor' = Instances /\ supervisor'[i] \in {"orphan", "idle"}
      /\ \A j \in Instances \ {i} : supervisor'[j] = supervisor[j]
      /\ supervisor[i] = "up" /\ UNCHANGED <<robotInst, portLease, busy, starter>>
  BY DEF SupervisorExits, InstInv, InstTyped
<1>2. \A j \in Instances : (Running(j))' => Running(j)
  BY <1>1 DEF Running
<1>3. InstTyped'
  BY <1>1 DEF InstInv, InstTyped
<1>4. OneActive' /\ OnRecord' /\ LeasesApart'
  BY <1>1, <1>2 DEF InstInv, OneActive, OnRecord, LeasesApart
<1>5. \A b \in Robots : LockSound(b)'
  BY <1>1 DEF InstInv, LockSound, At
<1>6. \A j \in Instances : StartSound(j)'
  BY <1>1, <1>2 DEF InstInv, StartSound
<1> QED
  BY <1>3, <1>4, <1>5, <1>6 DEF InstInv

\* What Robots do, by themselves or by mishap.
LEMMA RobotsKeep ==
  ASSUME InstInv, RobotsStep \/ RobotsMishap
  PROVE  InstInv'
<1>1. ASSUME ShutdownRobots
      PROVE  InstInv'
  BY <1>1 DEF ShutdownRobots, InstInv, InstTyped, OneActive, OnRecord, LeasesApart, Running,
              LockSound, StartSound, At
<1> QED
  BY <1>1, PrepareKeeps, BeginStartKeeps, AcquirePortKeeps, LaunchKeeps, ReadyKeeps, FailKeeps,
     BeginStopKeeps, BeginReclaimKeeps, EndCallKeeps, ExitKeeps
  DEF RobotsStep, RobotsGoOn, RobotsMishap

\* The Robots stay as they are while a scene operation moves.
LEMMA RobotsUntouched ==
  ASSUME InstInv, UNCHANGED <<robotInst, portLease, supervisor, busy, starter>>
  PROVE  InstInv'
BY DEF InstInv, InstTyped, OneActive, OnRecord, LeasesApart, Running, LockSound, StartSound, At

\* A start that is over does not begin again by itself.
LEMMA StartersStayOff ==
  ASSUME InstInv, RobotsStep \/ RobotsMishap, NEW i \in Instances, starter[i].step = "off"
  PROVE  starter'[i].step = "off"
<1>1. ASSUME NEW by \in Instances \cup {Sweeper}, NEW j \in Instances, NEW status,
             Returned(by, j, status) \/ GaveUp(by, j), by \in Instances => starter[by].step # "off"
      PROVE  starter'[i].step = "off"
  BY <1>1, CallerGoesOn
<1>2. ASSUME NEW j \in Instances,
             \/ PrepareRobot(j) \/ BeginStart(j) \/ AcquirePort(j) \/ Launch(j)
             \/ BecomesReady(j) \/ FailStart(j) \/ ReadyNotStored(j)
      PROVE  starter'[i].step = "off"
  <2>1. starter[j].step # "off" /\ \A k \in Instances \ {j} : starter'[k] = starter[k]
    BY <1>2 DEF PrepareRobot, BeginStart, AcquirePort, Launch, BecomesReady, FailStart,
                ReadyNotStored, StartGivesUp, At, Go, Rest, InstInv, InstTyped
  <2> QED
    BY <2>1
<1>3. ASSUME NEW j \in Instances, NEW by \in Instances \cup {Sweeper}, BeginStop(by, j)
      PROVE  starter'[i].step = "off"
  BY <1>1, <1>3, SweeperApart DEF BeginStop, WantsStop, At
<1>4. ASSUME NEW j \in Instances, NEW by \in Instances \cup {Sweeper}, BeginReclaim(by, j)
      PROVE  starter'[i].step = "off"
  BY <1>1, <1>4, SweeperApart DEF BeginReclaim, WantsReclaim, At
<1>5. ASSUME NEW b \in Robots, EndStop(b) \/ EndReclaim(b)
      PROVE  starter'[i].step = "off"
  <2>1. /\ busy[b].by \in Instances \cup {Sweeper} /\ busy[b].inst \in Instances
        /\ busy[b].by \in Instances => starter[busy[b].by].step # "off"
    BY <1>5, SweeperApart DEF EndStop, EndReclaim, InstInv, LockSound, At
  <2>2. \E status : Returned(busy[b].by, busy[b].inst, status) \/ GaveUp(busy[b].by, busy[b].inst)
    BY <1>5 DEF EndStop, EndReclaim
  <2> QED
    BY <1>1, <2>1, <2>2
<1>6. ASSUME UNCHANGED starter
      PROVE  starter'[i].step = "off"
  BY <1>6
<1> QED
  BY <1>2, <1>3, <1>4, <1>5, <1>6
  DEF RobotsStep, RobotsGoOn, RobotsMishap, SupervisorExits, ShutdownRobots

\* The end of the Server: its calls are lost, records, leases and processes are not.
LEMMA LostCallsKeep ==
  ASSUME InstInv, LoseRobotCalls, UNCHANGED <<robotInst, portLease, supervisor>>
  PROVE  InstInv'
BY DEF LoseRobotCalls, Resting, InstInv, InstTyped, OneActive, OnRecord, LeasesApart, Running,
       LockSound, StartSound, Launching

-----------------------------------------------------------------------------
(* The scenes.                                                             *)

SceneTyped ==
  /\ DOMAIN runtime = Runtimes
  /\ \A r \in Runtimes : DOMAIN runtime[r] = DOMAIN Down /\ runtime[r].scene \in Scenes \cup {None}
  /\ DOMAIN slot = Projects
  /\ \A p \in Projects : /\ DOMAIN slot[p] = {"scene", "rt", "gen"}
                         /\ slot[p].scene \in Scenes \cup {None}
                         /\ slot[p].rt \in Runtimes \cup {None}
  /\ DOMAIN owner = Scenes /\ \A s \in Scenes : owner[s] \in Projects \cup {None}

\* The scene a Project records is its own, and its Runtime runs it.
SlotSound(p) ==
  slot[p].scene # None =>
    /\ slot[p].rt \in Runtimes /\ owner[slot[p].scene] = p
    /\ slot[p].scene \in cut \cup astray \/ Serves(slot[p].rt, slot[p].scene)

\* What a Runtime runs has an owner, who records the scene and this Runtime.
RuntimeSound(r) ==
  runtime[r].scene # None =>
    /\ runtime[r].up /\ owner[runtime[r].scene] # None /\ runtime[r].scene \notin cut
    /\ \/ runtime[r].scene \in astray
       \/ /\ slot[owner[runtime[r].scene]].scene = runtime[r].scene
          /\ slot[owner[runtime[r].scene]].rt = r
OneHome ==
  \A r, q \in Runtimes : runtime[r].scene # None /\ runtime[r].scene = runtime[q].scene => r = q
Used == \A s \in cut \cup astray : s \in Scenes /\ owner[s] # None
HomeInv ==
  /\ SceneTyped /\ OneHome /\ Used
  /\ \A p \in Projects : SlotSound(p)
  /\ \A r \in Runtimes : RuntimeSound(r)

\* Under the lock of a scene operation the Project keeps the scene.
UnderLock == {"settle", "sweep", "halt", "apply"}
JobSound(a) ==
  /\ DOMAIN job[a] = DOMAIN NoJob
  /\ job[a].step # "none" => job[a].rt \in Runtimes
  /\ job[a].step = "hold" => job[a].scene # None
  /\ job[a].step \in UnderLock =>
       mutex = a /\ job[a].scene # None /\ slot[a[1]].scene = job[a].scene
  /\ job[a].step = "clear" => job[a].scene # None
  /\ job[a].op = "recover" => job[a].scene # None
JobInv == DOMAIN job = Actors /\ \A a \in Actors : JobSound(a)

\* The Robots of a scene are started once: when its observer ends.
FreshScene(s) ==
  /\ owner[s] = None => observer[s] = "off"
  /\ owner[s] = None \/ observer[s] # "off" => \A b \in Robots : starter[<<s, b>>].step = "off"
Fresh == DOMAIN observer = Scenes /\ \A s \in Scenes : FreshScene(s)
SceneInv == InstInv /\ HomeInv /\ JobInv /\ Fresh

LEMMA ScenesGood == ScenesInit => SceneInv
<1> SUFFICES ASSUME ScenesInit
             PROVE  SceneInv
  OBVIOUS
<1>1. InstInv
  BY RobotsGood DEF ScenesInit
<1>2. HomeInv
  BY DEF ScenesInit, HomeInv, SceneTyped, OneHome, Used, SlotSound, RuntimeSound, Down
<1>3. JobInv
  BY DEF ScenesInit, JobInv, JobSound, NoJob, UnderLock
<1>4. Fresh
  BY DEF ScenesInit, RobotsInit, Fresh, FreshScene, Resting, Instances
<1> QED
  BY <1>1, <1>2, <1>3, <1>4 DEF SceneInv

\* Runtimes that keep their scenes, and slots that keep theirs.
HomesStay ==
  /\ DOMAIN runtime' = Runtimes
  /\ \A r \in Runtimes : /\ DOMAIN runtime'[r] = DOMAIN Down
                         /\ runtime'[r].scene = runtime[r].scene
                         /\ runtime[r].up => runtime'[r].up
  /\ DOMAIN slot' = Projects
  /\ \A p \in Projects : /\ DOMAIN slot'[p] = {"scene", "rt", "gen"}
                         /\ slot'[p].scene = slot[p].scene /\ slot'[p].rt = slot[p].rt
  /\ UNCHANGED <<owner, cut, astray>>

LEMMA HomesKeep == ASSUME HomeInv, HomesStay PROVE HomeInv'
<1>1. SceneTyped' /\ OneHome' /\ Used'
  BY DEF HomeInv, SceneTyped, OneHome, Used, HomesStay
<1>2. \A p \in Projects : SlotSound(p)'
  <2> SUFFICES ASSUME NEW p \in Projects, slot[p].scene # None
               PROVE  SlotSound(p)'
    BY DEF SlotSound, HomesStay
  <2>1. /\ slot[p].rt \in Runtimes /\ owner[slot[p].scene] = p
        /\ slot[p].scene \in cut \cup astray \/ Serves(slot[p].rt, slot[p].scene)
    BY DEF HomeInv, SlotSound
  <2> QED
    BY <2>1 DEF HomesStay, SlotSound, Serves
<1>3. \A r \in Runtimes : RuntimeSound(r)'
  <2> SUFFICES ASSUME NEW r \in Runtimes, runtime[r].scene # None
               PROVE  RuntimeSound(r)'
    BY DEF RuntimeSound, HomesStay
  <2>1. owner[runtime[r].scene] \in Projects
    BY DEF HomeInv, SceneTyped, RuntimeSound
  <2> QED
    BY <2>1 DEF HomesStay, HomeInv, RuntimeSound
<1> QED
  BY <1>1, <1>2, <1>3 DEF HomeInv

\* A Runtime that is ensured goes on with the scene it has.
LEMMA EnsuredKeeps ==
  ASSUME HomeInv, NEW r \in Runtimes, runtime' = [runtime EXCEPT ![r] = Ensured(r)]
  PROVE  /\ DOMAIN runtime' = Runtimes
         /\ \A q \in Runtimes : /\ DOMAIN runtime'[q] = DOMAIN Down
                                /\ runtime'[q].scene = runtime[q].scene
                                /\ runtime[q].up => runtime'[q].up
<1>1. /\ DOMAIN Ensured(r) = DOMAIN Down /\ Ensured(r).scene = runtime[r].scene
      /\ runtime[r].up => Ensured(r) = runtime[r]
  <2>1. CASE runtime[r].up
    BY <2>1 DEF Ensured, HomeInv, SceneTyped
  <2>2. CASE ~runtime[r].up
    <3>1. runtime[r].scene = None
      BY <2>2 DEF HomeInv, RuntimeSound
    <3> QED
      BY <2>2, <3>1 DEF Ensured, Down
  <2> QED
    BY <2>1, <2>2
<1> QED
  BY <1>1 DEF HomeInv, SceneTyped

\* Runtimes whose process ends, and the scenes they had.
RuntimesEnd(ended) ==
  /\ runtime' = [r \in Runtimes |-> IF r \in ended THEN Down ELSE runtime[r]]
  /\ cut' = cut \cup ({runtime[r].scene : r \in ended} \ {None})

LEMMA EndsKeep ==
  ASSUME HomeInv, NEW ended \in SUBSET Runtimes, RuntimesEnd(ended),
         UNCHANGED <<slot, owner, astray>>
  PROVE  HomeInv' /\ \A r \in Runtimes : runtime'[r].scene \in {runtime[r].scene, None}
<1>1. /\ \A r \in ended : runtime'[r].scene = None /\ DOMAIN runtime'[r] = DOMAIN Down
      /\ \A r \in Runtimes \ ended : runtime'[r] = runtime[r]
  BY DEF RuntimesEnd, Down
<1>2. SceneTyped' /\ OneHome'
  BY <1>1 DEF HomeInv, SceneTyped, OneHome, RuntimesEnd
<1>3. Used'
  BY DEF HomeInv, SceneTyped, Used, RuntimeSound, RuntimesEnd
<1>4. \A p \in Projects : SlotSound(p)'
  BY <1>1 DEF HomeInv, SlotSound, Serves, RuntimesEnd
<1>5. \A r \in Runtimes : RuntimeSound(r)'
  BY <1>1 DEF HomeInv, OneHome, RuntimeSound, RuntimesEnd
<1> QED
  BY <1>1, <1>2, <1>3, <1>4, <1>5 DEF HomeInv

LEMMA EndIsOneEnd ==
  ASSUME HomeInv, NEW r \in Runtimes, Ends(r)
  PROVE  RuntimesEnd({r})
<1>1. DOMAIN runtime = Runtimes
  BY DEF HomeInv, SceneTyped
<1>2. runtime' = [q \in Runtimes |-> IF q = r THEN Down ELSE runtime[q]]
  BY <1>1 DEF Ends
<1> QED
  BY <1>2 DEF Ends, RuntimesEnd

\* A Project that turns to another Runtime leaves its scene behind.
LEMMA TurnKeeps ==
  ASSUME HomeInv, NEW p \in Projects, NEW r \in Runtimes,
         runtime' = [runtime EXCEPT ![r] = Ensured(r)], slot' = [slot EXCEPT ![p].rt = r],
         astray' = astray \cup LeftBehind(p, r), UNCHANGED <<owner, cut>>
  PROVE  HomeInv'
<1>1. /\ DOMAIN runtime' = Runtimes
      /\ \A q \in Runtimes : /\ DOMAIN runtime'[q] = DOMAIN Down
                             /\ runtime'[q].scene = runtime[q].scene
                             /\ runtime[q].up => runtime'[q].up
  BY EnsuredKeeps
<1>2. /\ DOMAIN slot' = Projects /\ \A q \in Projects \ {p} : slot'[q] = slot[q]
      /\ DOMAIN slot'[p] = {"scene", "rt", "gen"}
      /\ slot'[p].scene = slot[p].scene /\ slot'[p].rt = r
  BY DEF HomeInv, SceneTyped
<1>3. SceneTyped' /\ OneHome'
  BY <1>1, <1>2 DEF HomeInv, SceneTyped, OneHome
<1>4. LeftBehind(p, r) \subseteq {slot[p].scene} \cap Scenes
  BY DEF LeftBehind
<1>5. Used'
  BY <1>4, SceneConstants DEF HomeInv, Used, SlotSound
<1>6. ASSUME NEW q \in Projects, slot[q].scene # None
      PROVE  SlotSound(q)'
  <2>1. /\ slot[q].rt \in Runtimes /\ owner[slot[q].scene] = q /\ slot[q].scene \in Scenes
        /\ slot[q].scene \in cut \cup astray \/ Serves(slot[q].rt, slot[q].scene)
    BY <1>6 DEF HomeInv, SceneTyped, SlotSound
  <2>2. CASE q # p
    BY <1>1, <1>2, <2>1, <2>2 DEF SlotSound, Serves
  <2>3. CASE q = p
    <3>1. slot[p].scene \in astray' \/ slot[p].scene \in cut \/ Serves(r, slot[p].scene)
      BY <2>1, <2>3 DEF LeftBehind
    <3> QED
      BY <1>1, <1>2, <2>1, <2>3, <3>1 DEF SlotSound, Serves
  <2> QED
    BY <2>2, <2>3
<1>7. ASSUME NEW q \in Runtimes, runtime[q].scene # None
      PROVE  RuntimeSound(q)'
  <2>1. /\ owner[runtime[q].scene] \in Projects /\ runtime[q].up /\ runtime[q].scene \in Scenes
        /\ runtime[q].scene \notin cut
    BY <1>7 DEF HomeInv, SceneTyped, RuntimeSound
  <2>2. CASE runtime[q].scene \in astray
    BY <1>1, <2>1, <2>2, SceneConstants DEF RuntimeSound
  <2>3. CASE /\ slot[owner[runtime[q].scene]].scene = runtime[q].scene
             /\ slot[owner[runtime[q].scene]].rt = q
    <3>1. CASE owner[runtime[q].scene] # p \/ q = r
      BY <1>1, <1>2, <2>1, <2>3, <3>1, SceneConstants DEF RuntimeSound
    <3>2. CASE owner[runtime[q].scene] = p /\ q # r
      <4>1. runtime[q].scene \in LeftBehind(p, r)
        BY <2>1, <2>3, <3>2, SceneConstants DEF LeftBehind, Serves
      <4> QED
        BY <1>1, <2>1, <4>1, SceneConstants DEF RuntimeSound
    <3> QED
      BY <3>1, <3>2
  <2> QED
    BY <1>7, <2>2, <2>3 DEF HomeInv, RuntimeSound
<1> QED
  BY <1>1, <1>2, <1>3, <1>5, <1>6, <1>7 DEF HomeInv, SlotSound, RuntimeSound

\* The first unused scene.
LEMMA NextScene ==
  ASSUME HomeInv, Unused # {}
  PROVE  Min(Unused) \in Scenes /\ owner[Min(Unused)] = None /\ Min(Unused) # None
<1>1. Unused \in SUBSET Nat
  BY SceneConstants DEF Unused
<1>2. Min(Unused) \in Unused
  BY <1>1, MinIn
<1> QED
  BY <1>2, SceneConstants DEF Unused

\* A scene starts on a Runtime that has none.
Starts(p, r, s) ==
  /\ runtime' = [runtime EXCEPT ![r].scene = s, ![r].gen = 1]
  /\ owner' = [owner EXCEPT ![s] = p]
  /\ UNCHANGED cut

LEMMA StartsTyped ==
  ASSUME HomeInv, NEW p \in Projects, NEW r \in Runtimes, NEW s \in Scenes, owner[s] = None,
         runtime[r].up, runtime[r].scene = None, Starts(p, r, s)
  PROVE  /\ DOMAIN runtime' = Runtimes /\ \A q \in Runtimes \ {r} : runtime'[q] = runtime[q]
         /\ DOMAIN runtime'[r] = DOMAIN Down /\ runtime'[r].scene = s /\ runtime'[r].up
         /\ DOMAIN owner' = Scenes /\ owner'[s] = p
         /\ \A t \in Scenes \ {s} : owner'[t] = owner[t]
         /\ s # None /\ s \notin cut \cup astray
         /\ \A q \in Runtimes : runtime[q].scene # s
         /\ \A q \in Projects : slot[q].scene # s
         /\ OneHome'
<1>1. /\ DOMAIN runtime' = Runtimes /\ \A q \in Runtimes \ {r} : runtime'[q] = runtime[q]
      /\ DOMAIN runtime'[r] = DOMAIN Down /\ runtime'[r].scene = s /\ runtime'[r].up
      /\ DOMAIN owner' = Scenes /\ owner'[s] = p
      /\ \A t \in Scenes \ {s} : owner'[t] = owner[t]
  BY DEF Starts, HomeInv, SceneTyped, Down
<1>2. s # None /\ s \notin cut \cup astray
  BY SceneConstants DEF HomeInv, Used
<1>3. \A q \in Runtimes : runtime[q].scene # s
  BY <1>2 DEF HomeInv, RuntimeSound
<1>4. \A q \in Projects : slot[q].scene # s
  BY <1>2, SceneConstants DEF HomeInv, SlotSound
<1>5. OneHome'
  BY <1>1, <1>3 DEF HomeInv, OneHome
<1> QED
  BY <1>1, <1>2, <1>3, <1>4, <1>5

LEMMA RecordedStartKeeps ==
  ASSUME HomeInv, NEW p \in Projects, NEW r \in Runtimes, NEW s \in Scenes, owner[s] = None,
         runtime[r].up, runtime[r].scene = None, Starts(p, r, s),
         slot' = [slot EXCEPT ![p] = [scene |-> s, rt |-> r, gen |-> 1]],
         astray' = astray \cup LeftBehind(p, r)
  PROVE  HomeInv'
<1>1. /\ DOMAIN runtime' = Runtimes /\ \A q \in Runtimes \ {r} : runtime'[q] = runtime[q]
      /\ DOMAIN runtime'[r] = DOMAIN Down /\ runtime'[r].scene = s /\ runtime'[r].up
      /\ DOMAIN owner' = Scenes /\ owner'[s] = p
      /\ \A t \in Scenes \ {s} : owner'[t] = owner[t]
      /\ s # None /\ s \notin cut \cup astray
      /\ \A q \in Runtimes : runtime[q].scene # s
      /\ \A q \in Projects : slot[q].scene # s
      /\ OneHome'
  BY StartsTyped
<1>2. /\ DOMAIN slot' = Projects /\ \A q \in Projects \ {p} : slot'[q] = slot[q]
      /\ DOMAIN slot'[p] = {"scene", "rt", "gen"}
      /\ slot'[p].scene = s /\ slot'[p].rt = r
  BY DEF HomeInv, SceneTyped
<1>3. LeftBehind(p, r) \subseteq {slot[p].scene} \cap Scenes
  BY DEF LeftBehind
<1>4. SceneTyped'
  BY <1>1, <1>2 DEF HomeInv, SceneTyped
<1>5. Used'
  <2>1. \A t \in LeftBehind(p, r) : owner[t] # None
    BY <1>3, SceneConstants DEF HomeInv, SlotSound
  <2>2. \A t \in Scenes : owner[t] # None => owner'[t] = owner[t]
    BY <1>1
  <2> QED
    BY <1>3, <2>1, <2>2 DEF HomeInv, Used, Starts
<1>6. ASSUME NEW q \in Projects
      PROVE  SlotSound(q)'
  <2>1. CASE q = p
    BY <1>1, <1>2, <2>1, SceneConstants DEF SlotSound, Serves
  <2>2. CASE q # p
    <3> SUFFICES ASSUME slot[q].scene # None
                 PROVE  SlotSound(q)'
      BY <1>2, <2>2 DEF SlotSound
    <3>1. /\ slot[q].rt \in Runtimes /\ owner[slot[q].scene] = q /\ slot[q].scene \in Scenes
          /\ slot[q].scene \in cut \cup astray \/ Serves(slot[q].rt, slot[q].scene)
      BY DEF HomeInv, SceneTyped, SlotSound
    <3>2. Serves(slot[q].rt, slot[q].scene) => Serves(slot[q].rt, slot[q].scene)'
      BY <1>1, <1>2, <2>2, <3>1 DEF Serves
    <3> QED
      BY <1>1, <1>2, <2>2, <3>1, <3>2 DEF SlotSound, Starts
  <2> QED
    BY <2>1, <2>2
<1>7. ASSUME NEW q \in Runtimes
      PROVE  RuntimeSound(q)'
  <2>1. CASE q = r
    BY <1>1, <1>2, <2>1, SceneConstants DEF RuntimeSound, Starts
  <2>2. CASE q # r /\ runtime[q].scene # None
    <3>1. /\ owner[runtime[q].scene] \in Projects /\ runtime[q].up /\ runtime[q].scene \in Scenes
          /\ runtime[q].scene \notin cut /\ runtime'[q] = runtime[q]
          /\ owner'[runtime[q].scene] = owner[runtime[q].scene]
      BY <1>1, <2>2 DEF HomeInv, SceneTyped, RuntimeSound
    <3>2. CASE runtime[q].scene \in astray
      BY <3>1, <3>2, SceneConstants DEF RuntimeSound, Starts
    <3>3. CASE /\ slot[owner[runtime[q].scene]].scene = runtime[q].scene
               /\ slot[owner[runtime[q].scene]].rt = q
      <4>1. CASE owner[runtime[q].scene] # p
        BY <1>2, <3>1, <3>3, <4>1, SceneConstants DEF RuntimeSound, Starts
      <4>2. CASE owner[runtime[q].scene] = p
        <5>1. runtime[q].scene \in LeftBehind(p, r)
          BY <2>2, <3>1, <3>3, <4>2, SceneConstants DEF LeftBehind, Serves
        <5> QED
          BY <3>1, <5>1, SceneConstants DEF RuntimeSound, Starts
      <4> QED
        BY <4>1, <4>2
    <3> QED
      BY <2>2, <3>2, <3>3 DEF HomeInv, RuntimeSound
  <2>3. CASE q # r /\ runtime[q].scene = None
    BY <1>1, <2>3 DEF RuntimeSound
  <2> QED
    BY <2>1, <2>2, <2>3
<1> QED
  BY <1>1, <1>4, <1>5, <1>6, <1>7 DEF HomeInv

LEMMA UnrecordedStartKeeps ==
  ASSUME HomeInv, NEW p \in Projects, NEW r \in Runtimes, NEW s \in Scenes, owner[s] = None,
         runtime[r].up, runtime[r].scene = None, Starts(p, r, s), slot' = slot,
         astray' = astray \cup {s}
  PROVE  HomeInv'
<1>1. /\ DOMAIN runtime' = Runtimes /\ \A q \in Runtimes \ {r} : runtime'[q] = runtime[q]
      /\ DOMAIN runtime'[r] = DOMAIN Down /\ runtime'[r].scene = s /\ runtime'[r].up
      /\ DOMAIN owner' = Scenes /\ owner'[s] = p
      /\ \A t \in Scenes \ {s} : owner'[t] = owner[t]
      /\ s # None /\ s \notin cut \cup astray
      /\ \A q \in Runtimes : runtime[q].scene # s
      /\ \A q \in Projects : slot[q].scene # s
      /\ OneHome'
  BY StartsTyped
<1>2. SceneTyped'
  BY <1>1 DEF HomeInv, SceneTyped
<1>3. Used'
  BY <1>1, SceneConstants DEF HomeInv, Used, Starts
<1>4. ASSUME NEW q \in Projects, slot[q].scene # None
      PROVE  SlotSound(q)'
  <2>1. /\ slot[q].rt \in Runtimes /\ owner[slot[q].scene] = q /\ slot[q].scene \in Scenes
        /\ slot[q].scene \in cut \cup astray \/ Serves(slot[q].rt, slot[q].scene)
    BY <1>4 DEF HomeInv, SceneTyped, SlotSound
  <2>2. Serves(slot[q].rt, slot[q].scene) => Serves(slot[q].rt, slot[q].scene)'
    BY <1>1, <1>4, <2>1 DEF Serves
  <2> QED
    BY <1>1, <2>1, <2>2 DEF SlotSound, Starts
<1>5. ASSUME NEW q \in Runtimes
      PROVE  RuntimeSound(q)'
  <2>1. CASE q = r
    BY <1>1, <2>1, SceneConstants DEF RuntimeSound, Starts
  <2>2. CASE q # r
    BY <1>1, <2>2 DEF HomeInv, SceneTyped, RuntimeSound, Starts
  <2> QED
    BY <2>1, <2>2
<1> QED
  BY <1>1, <1>2, <1>3, <1>4, <1>5 DEF HomeInv, SlotSound

\* A scene leaves the slot of its Project when no Runtime runs it, or its own stops it.
LEMMA FreedKeeps ==
  ASSUME HomeInv, NEW p \in Projects, slot' = [slot EXCEPT ![p].scene = None],
         DOMAIN runtime' = Runtimes,
         \A r \in Runtimes : /\ DOMAIN runtime'[r] = DOMAIN Down
                             /\ runtime[r].up => runtime'[r].up
                             /\ \/ runtime'[r].scene = runtime[r].scene
                                \/ runtime'[r].scene = None /\ runtime[r].scene = slot[p].scene,
         \A r \in Runtimes : runtime'[r].scene = slot[p].scene => slot[p].scene \in astray',
         astray \subseteq astray', astray' \subseteq astray \cup {slot[p].scene},
         slot[p].scene # None, UNCHANGED <<owner, cut>>
  PROVE  HomeInv'
<1>1. /\ DOMAIN slot' = Projects /\ \A q \in Projects \ {p} : slot'[q] = slot[q]
      /\ DOMAIN slot'[p] = {"scene", "rt", "gen"} /\ slot'[p].scene = None
      /\ slot'[p].rt = slot[p].rt
  BY DEF HomeInv, SceneTyped
<1>3. owner[slot[p].scene] = p /\ slot[p].scene \in Scenes
  BY DEF HomeInv, SceneTyped, SlotSound
<1>2. SceneTyped' /\ OneHome' /\ Used'
  BY <1>1, <1>3, SceneConstants DEF HomeInv, SceneTyped, OneHome, Used
<1>4. ASSUME NEW q \in Projects \ {p}, slot[q].scene # None
      PROVE  SlotSound(q)'
  <2>1. /\ slot[q].rt \in Runtimes /\ owner[slot[q].scene] = q
        /\ slot[q].scene \in cut \cup astray \/ Serves(slot[q].rt, slot[q].scene)
    BY <1>4 DEF HomeInv, SlotSound
  <2>2. slot[q].scene # slot[p].scene
    BY <1>3, <2>1
  <2> QED
    BY <1>1, <2>1, <2>2 DEF SlotSound, Serves
<1>5. ASSUME NEW r \in Runtimes, runtime'[r].scene # None
      PROVE  RuntimeSound(r)'
  <2>1. /\ runtime'[r].scene = runtime[r].scene /\ owner[runtime[r].scene] \in Projects
        /\ runtime[r].up /\ owner[runtime[r].scene] # None /\ runtime[r].scene \notin cut
    BY <1>5 DEF HomeInv, SceneTyped, RuntimeSound
  <2>2. CASE runtime[r].scene \in astray'
    BY <2>1, <2>2 DEF RuntimeSound
  <2>3. CASE runtime[r].scene \notin astray'
    <3>1. runtime[r].scene # slot[p].scene /\ runtime[r].scene \notin astray
      BY <2>1, <2>3
    <3>2. /\ slot[owner[runtime[r].scene]].scene = runtime[r].scene
          /\ slot[owner[runtime[r].scene]].rt = r
      BY <1>5, <2>1, <3>1 DEF HomeInv, RuntimeSound
    <3>3. owner[runtime[r].scene] # p
      BY <3>1, <3>2
    <3> QED
      BY <1>1, <2>1, <3>2, <3>3 DEF RuntimeSound
  <2> QED
    BY <2>2, <2>3
<1> QED
  BY <1>1, <1>2, <1>4, <1>5 DEF HomeInv, SlotSound, RuntimeSound

\* A scene that stopped although the answer is lost stays in the slot.
LEMMA LostStopKeeps ==
  ASSUME HomeInv, NEW p \in Projects, slot' = slot, cut' = cut \cup {slot[p].scene},
         DOMAIN runtime' = Runtimes,
         \A r \in Runtimes : /\ DOMAIN runtime'[r] = DOMAIN Down
                             /\ runtime[r].up => runtime'[r].up
                             /\ \/ runtime'[r].scene = runtime[r].scene
                                \/ runtime'[r].scene = None /\ runtime[r].scene = slot[p].scene
                             /\ runtime'[r].scene # slot[p].scene,
         slot[p].scene # None, UNCHANGED <<owner, astray>>
  PROVE  HomeInv'
<1>1. owner[slot[p].scene] = p /\ slot[p].scene \in Scenes
  BY DEF HomeInv, SceneTyped, SlotSound
<1>2. SceneTyped' /\ OneHome' /\ Used'
  BY <1>1, SceneConstants DEF HomeInv, SceneTyped, OneHome, Used
<1>3. ASSUME NEW q \in Projects, slot[q].scene # None
      PROVE  SlotSound(q)'
  <2>1. /\ slot[q].rt \in Runtimes /\ owner[slot[q].scene] = q
        /\ slot[q].scene \in cut \cup astray \/ Serves(slot[q].rt, slot[q].scene)
    BY <1>3 DEF HomeInv, SlotSound
  <2>2. slot[q].scene = slot[p].scene \/ Serves(slot[q].rt, slot[q].scene)' \/ slot[q].scene \in cut \cup astray
    BY <2>1 DEF Serves
  <2> QED
    BY <2>1, <2>2 DEF SlotSound
<1>4. ASSUME NEW r \in Runtimes, runtime'[r].scene # None
      PROVE  RuntimeSound(r)'
  <2>1. runtime'[r].scene = runtime[r].scene /\ runtime[r].scene # slot[p].scene
    BY <1>4
  <2> QED
    BY <1>4, <2>1 DEF HomeInv, RuntimeSound
<1> QED
  BY <1>2, <1>3, <1>4 DEF HomeInv, SlotSound, RuntimeSound

\* The jobs of the others go on as they are.
JobsStay(moved) ==
  /\ DOMAIN job' = Actors /\ \A b \in Actors \ moved : job'[b] = job[b]
  /\ \A b \in Actors \ moved : job[b].step \in UnderLock =>
       mutex' = mutex /\ slot'[b[1]].scene = slot[b[1]].scene

LEMMA JobsKeep ==
  ASSUME JobInv, NEW moved, JobsStay(moved), \A a \in Actors \cap moved : JobSound(a)'
  PROVE  JobInv'
<1>1. ASSUME NEW b \in Actors \ moved
      PROVE  JobSound(b)'
  <2>1. /\ job'[b] = job[b] /\ JobSound(b)
        /\ job[b].step \in UnderLock => mutex' = mutex /\ slot'[b[1]].scene = slot[b[1]].scene
    BY DEF JobsStay, JobInv
  <2> QED
    BY <2>1 DEF JobSound
<1> QED
  BY <1>1 DEF JobInv, JobsStay

\* A finished job is sound.
LEMMA IdleSound == ASSUME NEW a \in Actors, job'[a] = NoJob PROVE JobSound(a)'
BY DEF JobSound, NoJob, UnderLock

LEMMA FreshKeeps ==
  ASSUME Fresh, DOMAIN observer' = Scenes,
         \A s \in Scenes :
           /\ owner'[s] = owner[s] \/ (owner[s] = None /\ owner'[s] # None)
           /\ \/ observer'[s] = "off" \/ observer[s] # "off"
              \/ owner[s] = None /\ owner'[s] # None
           /\ \A b \in Robots : starter[<<s, b>>].step = "off" => starter'[<<s, b>>].step = "off"
  PROVE  Fresh'
<1>1. ASSUME NEW s \in Scenes
      PROVE  FreshScene(s)'
  <2>1. FreshScene(s)
    BY DEF Fresh
  <2>2. owner'[s] = None => observer'[s] = "off"
    BY <2>1 DEF FreshScene
  <2>3. ASSUME owner'[s] = None \/ observer'[s] # "off", NEW b \in Robots
        PROVE  starter'[<<s, b>>].step = "off"
    <3>1. owner[s] = None \/ observer[s] # "off"
      BY <2>3
    <3> QED
      BY <2>1, <3>1 DEF FreshScene
  <2> QED
    BY <2>2, <2>3 DEF FreshScene
<1> QED
  BY <1>1 DEF Fresh

\* A call of a Project takes a free caller.
LEMMA CallerTaken ==
  ASSUME JobInv, NEW p \in Projects, NEW j, Begin(p, j)
  PROVE  \E a \in Actors : /\ a[1] = p /\ DOMAIN job' = Actors /\ job'[a] = j
                           /\ \A b \in Actors \ {a} : job'[b] = job[b]
                           /\ job[a] = NoJob
<1>1. PICK u \in Callers : job[<<p, u>>] = NoJob /\ job' = [job EXCEPT ![<<p, u>>] = j]
  BY DEF Begin, Free
<1>2. <<p, u>> \in Actors
  BY DEF Actors
<1> QED
  BY <1>1, <1>2 DEF JobInv

\* What a move of one actor has to show when Runtimes and slots keep their scenes.
LEMMA MoveKeeps ==
  ASSUME SceneInv, HomesStay, NEW a, DOMAIN job' = Actors, \A b \in Actors \ {a} : job'[b] = job[b],
         mutex' = mutex \/ mutex \in {None, a}, a \in Actors => JobSound(a)'
  PROVE  HomeInv' /\ JobInv'
<1>1. HomeInv'
  BY HomesKeep DEF SceneInv
<1>2. JobsStay({a})
  <2>1. \A b \in Actors \ {a} : job[b].step \in UnderLock =>
          mutex' = mutex /\ slot'[b[1]].scene = slot[b[1]].scene
    <3> SUFFICES ASSUME NEW b \in Actors \ {a}, job[b].step \in UnderLock
                 PROVE  mutex' = mutex /\ slot'[b[1]].scene = slot[b[1]].scene
      OBVIOUS
    <3>1. mutex = b /\ b[1] \in Projects
      BY DEF SceneInv, JobInv, JobSound, Actors
    <3>2. b # None
      BY SceneConstants DEF Actors
    <3> QED
      BY <3>1, <3>2 DEF HomesStay
  <2> QED
    BY <2>1 DEF JobsStay, HomesStay
<1>3. JobInv'
  BY <1>2, JobsKeep DEF SceneInv
<1> QED
  BY <1>1, <1>3

\* Everything about homes stays as it is.
LEMMA NothingMoves ==
  ASSUME HomeInv, UNCHANGED <<runtime, slot, owner, cut, astray>>
  PROVE  HomesStay
BY DEF HomesStay, HomeInv, SceneTyped

LEMMA RobotSteps ==
  ASSUME SceneInv, RobotsStep \/ RobotsMishap, UNCHANGED sceneVars
  PROVE  SceneInv'
<1>1. InstInv'
  BY RobotsKeep DEF SceneInv
<1>2. HomeInv' /\ JobInv'
  BY DEF sceneVars, SceneInv, HomeInv, SceneTyped, OneHome, Used, SlotSound, Serves, RuntimeSound,
         JobInv, JobSound
<1>3. Fresh'
  <2>1. \A s \in Scenes, b \in Robots : <<s, b>> \in Instances
    BY DEF Instances
  <2>2. \A s \in Scenes, b \in Robots :
          starter[<<s, b>>].step = "off" => starter'[<<s, b>>].step = "off"
    BY <2>1, StartersStayOff DEF SceneInv
  <2> QED
    BY <2>2, FreshKeeps DEF sceneVars, SceneInv, Fresh
<1> QED
  BY <1>1, <1>2, <1>3 DEF SceneInv

\* The end of the Server.
LEMMA ForgetKeeps ==
  ASSUME SceneInv, Forget, UNCHANGED <<robotInst, portLease, supervisor, slot, owner, astray>>,
         CrashServer \/ FinishShutdown
  PROVE  SceneInv'
<1>1. InstInv'
  BY LostCallsKeep DEF Forget, SceneInv
<1>2. HomeInv'
  <2>1. CASE CrashServer
    <3>1. HomesStay
      BY <2>1 DEF CrashServer, HomesStay, SceneInv, HomeInv, SceneTyped, Down
    <3> QED
      BY <3>1, HomesKeep DEF SceneInv
  <2>2. CASE FinishShutdown
    <3> DEFINE ended == {r \in Runtimes : runtime[r].child}
    <3>1. RuntimesEnd(ended)
      BY <2>2 DEF FinishShutdown, RuntimesEnd
    <3> QED
      BY <3>1, EndsKeep DEF SceneInv
  <2> QED
    BY <2>1, <2>2
<1>3. JobInv'
  <2>1. DOMAIN job' = Actors /\ \A a \in Actors : job'[a] = NoJob
    BY DEF Forget
  <2> QED
    BY <2>1, IdleSound DEF JobInv
<1>4. Fresh'
  BY DEF Forget, LoseRobotCalls, Resting, SceneInv, Fresh, FreshScene, Instances
<1> QED
  BY <1>1, <1>2, <1>3, <1>4 DEF SceneInv

-----------------------------------------------------------------------------
(* The steps of the scenes.                                                *)

LEMMA CallSteps ==
  ASSUME SceneInv, NEW p \in Projects,
         \/ \E r \in Runtimes : CallStart(p, r)
         \/ CallRecover(p)
         \/ \E op \in {"stop", "reset", "switch", "release"} : CallSceneOperation(p, op)
  PROVE  HomeInv' /\ JobInv'
<1>1. ASSUME NEW r \in Runtimes, CallStart(p, r)
      PROVE  HomeInv' /\ JobInv'
  <2> DEFINE j == [NoJob EXCEPT !.op = "start", !.step = "locked", !.rt = r, !.seen = Ensured(r).scene]
  <2>1. Begin(p, j)
    BY <1>1 DEF CallStart
  <2>2. DOMAIN j = DOMAIN NoJob /\ j.op = "start" /\ j.step = "locked" /\ j.rt = r
    BY DEF NoJob
  <2> HIDE DEF j
  <2>3. PICK a \in Actors : /\ DOMAIN job' = Actors /\ job'[a] = j
                            /\ \A b \in Actors \ {a} : job'[b] = job[b]
    BY <2>1, CallerTaken DEF SceneInv
  <2>4. JobSound(a)'
    BY <2>2, <2>3 DEF JobSound, UnderLock
  <2>5. HomesStay
    BY <1>1, EnsuredKeeps DEF CallStart, HomesStay, SceneInv, HomeInv, SceneTyped
  <2> QED
    BY <1>1, <2>3, <2>4, <2>5, MoveKeeps DEF CallStart
<1>2. ASSUME NEW op \in {"stop", "reset", "switch", "release", "recover"}, CallSceneOperation(p, op)
      PROVE  HomeInv' /\ JobInv'
  <2> DEFINE j == [NoJob EXCEPT !.op = op, !.step = "hold", !.scene = slot[p].scene,
                                !.rt = slot[p].rt]
  <2>1. PICK a \in Actors : /\ a[1] = p /\ DOMAIN job' = Actors /\ job'[a] = j
                            /\ \A b \in Actors \ {a} : job'[b] = job[b]
    BY <1>2, CallerTaken DEF CallSceneOperation, SceneInv
  <2>2. /\ DOMAIN j = DOMAIN NoJob /\ j.op = op /\ j.step = "hold" /\ j.scene = slot[p].scene
        /\ j.rt = slot[p].rt
    BY DEF NoJob
  <2> HIDE DEF j
  <2>3. /\ slot[p].scene # None /\ slot[p].rt \in Runtimes /\ slot[p].scene \in Scenes
        /\ owner[slot[p].scene] = p /\ UNCHANGED <<runtime, owner, astray>>
    BY <1>2 DEF CallSceneOperation, SceneInv, HomeInv, SceneTyped, SlotSound
  <2>5. JobSound(a)'
    BY <2>1, <2>2, <2>3 DEF JobSound, UnderLock
  <2>6. HomesStay
    BY <1>2, NothingMoves DEF CallSceneOperation, SceneInv
  <2> QED
    BY <1>2, <2>1, <2>5, <2>6, MoveKeeps DEF CallSceneOperation
<1> QED
  BY <1>1, <1>2 DEF CallRecover

LEMMA EndSteps ==
  ASSUME SceneInv, NEW r \in Runtimes, StopInstallation(r) \/ RuntimeExits(r)
  PROVE  HomeInv' /\ JobInv'
<1>1. Ends(r) /\ UNCHANGED <<slot, owner, job, mutex, astray>>
  BY DEF StopInstallation, RuntimeExits
<1>2. HomeInv' /\ \A q \in Runtimes : runtime'[q].scene \in {runtime[q].scene, None}
  BY <1>1, EndsKeep, EndIsOneEnd DEF SceneInv
<1>3. JobsStay({})
  BY <1>1, <1>2 DEF JobsStay, SceneInv, JobInv
<1> QED
  BY <1>2, <1>3, JobsKeep DEF SceneInv

LEMMA EnsureSteps ==
  ASSUME SceneInv, NEW p \in Projects, NEW r \in Runtimes, CallEnsure(p, r)
  PROVE  HomeInv' /\ JobInv'
<1>1. HomeInv'
  BY TurnKeeps DEF CallEnsure, EnsureProject, SceneInv
<1>2. \A q \in Projects : slot'[q].scene = slot[q].scene
  BY DEF CallEnsure, EnsureProject, SceneInv, HomeInv, SceneTyped
<1>3. JobsStay({})
  BY <1>2 DEF CallEnsure, EnsureProject, JobsStay, SceneInv, JobInv, Actors
<1> QED
  BY <1>1, <1>3, JobsKeep DEF SceneInv

\* The same, at the end of a recovery.
LEMMA EnsureAfterSteps ==
  ASSUME SceneInv, NEW a \in Actors, EnsureAfter(a)
  PROVE  HomeInv' /\ JobInv'
<1>1. PICK r \in Runtimes : EnsureProject(a[1], r)
  BY DEF EnsureAfter
<1>2. a[1] \in Projects
  BY DEF Actors
<1>3. HomeInv'
  BY <1>1, <1>2, TurnKeeps DEF EnsureProject, SceneInv
<1>4. \A q \in Projects : slot'[q].scene = slot[q].scene
  BY <1>1, <1>2 DEF EnsureProject, SceneInv, HomeInv, SceneTyped
<1>5. /\ DOMAIN job' = Actors /\ job'[a] = NoJob
      /\ \A b \in Actors \ {a} : job'[b] = job[b]
  BY DEF EnsureAfter, Finish, SceneInv, JobInv
<1>6. JobsStay({a})
  BY <1>1, <1>4, <1>5 DEF EnsureProject, JobsStay, Actors
<1> QED
  BY <1>3, <1>5, <1>6, IdleSound, JobsKeep DEF SceneInv

LEMMA SnapshotSteps ==
  ASSUME SceneInv, NEW p \in Projects, Snapshot(p)
  PROVE  HomeInv' /\ JobInv'
<1>1. HomesStay
  BY DEF Snapshot, HomesStay, SceneInv, HomeInv, SceneTyped
<1> QED
  BY <1>1, MoveKeeps, SceneConstants DEF Snapshot, SceneInv, JobInv, Actors

LEMMA LeaseSteps ==
  ASSUME SceneInv, NEW p \in Projects,
         Connected(p) \/ Disconnected(p) \/ TimerFires(p) \/ ReleaseIfStillUnused(p)
  PROVE  HomeInv' /\ JobInv'
<1>1. HomesStay /\ mutex' = mutex
  BY NothingMoves DEF Connected, Disconnected, TimerFires, ReleaseIfStillUnused, leaseOthers,
     SceneInv
<1>2. CASE job' = job
  BY <1>1, <1>2, MoveKeeps, SceneConstants DEF SceneInv, JobInv, Actors
<1>3. CASE /\ slot[p].rt # None
           /\ job' = [job EXCEPT ![<<p, "lease">>] =
                        [NoJob EXCEPT !.op = "release", !.scene = slot[p].scene, !.rt = slot[p].rt,
                                      !.step = IF slot[p].scene = None THEN "after" ELSE "hold"]]
  <2> DEFINE a == <<p, "lease">>
  <2>1. /\ a \in Actors /\ DOMAIN job' = Actors
        /\ \A b \in Actors \ {a} : job'[b] = job[b]
        /\ DOMAIN job'[a] = DOMAIN NoJob /\ job'[a].op = "release"
        /\ job'[a].scene = slot[p].scene /\ job'[a].rt = slot[p].rt
        /\ job'[a].step = IF slot[p].scene = None THEN "after" ELSE "hold"
    BY <1>3 DEF NoJob, SceneInv, JobInv, Actors
  <2>2. slot[p].rt \in Runtimes
    BY <1>3 DEF SceneInv, HomeInv, SceneTyped
  <2> HIDE DEF a
  <2>3. JobSound(a)'
    BY <2>1, <2>2 DEF JobSound, UnderLock
  <2> QED
    BY <1>1, <2>1, <2>3, MoveKeeps
<1> QED
  BY <1>2, <1>3 DEF Connected, Disconnected, TimerFires, ReleaseIfStillUnused

\* The observer of a start that finds no map stops the scene again.
LEMMA ObserveSteps ==
  ASSUME SceneInv, NEW s \in Scenes, Observe(s) \/ ObserveEnds(s) \/ StartSceneRobots(s)
  PROVE  HomeInv' /\ JobInv'
<1>1. HomesStay /\ mutex' = mutex
  BY NothingMoves DEF Observe, ObserveEnds, StartSceneRobots, SceneInv
<1>2. CASE job' = job
  BY <1>1, <1>2, MoveKeeps, SceneConstants DEF SceneInv, JobInv, Actors
<1>3. CASE /\ Observe(s)
           /\ job' = [job EXCEPT ![<<owner[s], "watch">>] =
                        [NoJob EXCEPT !.op = "stop", !.step = "hold", !.scene = s,
                                      !.rt = slot[owner[s]].rt]]
  <2>0. owner[s] \in Projects
    BY <1>3 DEF Observe, SceneInv, Fresh, FreshScene, HomeInv, SceneTyped
  <2>1. PICK a \in Actors : a = <<owner[s], "watch">>
    BY <2>0 DEF Actors
  <2>2. /\ a \in Actors /\ DOMAIN job' = Actors
        /\ \A b \in Actors \ {a} : job'[b] = job[b]
        /\ DOMAIN job'[a] = DOMAIN NoJob /\ job'[a].op = "stop"
        /\ job'[a].scene = s /\ job'[a].rt = slot[owner[s]].rt /\ job'[a].step = "hold"
    BY <1>3, <2>1 DEF NoJob, SceneInv, JobInv
  <2>3. s # None /\ slot[owner[s]].rt \in Runtimes
    BY <1>3, <2>0, SceneConstants DEF Observe, Serves, SceneInv, HomeInv, SceneTyped
  <2>4. JobSound(a)'
    BY <2>2, <2>3 DEF JobSound, UnderLock
  <2> QED
    BY <1>1, <2>2, <2>4, MoveKeeps
<1> QED
  BY <1>2, <1>3 DEF Observe, ObserveEnds, StartSceneRobots

LEMMA StartSteps ==
  ASSUME SceneInv, NEW a \in Actors, StartScene(a)
  PROVE  HomeInv' /\ JobInv'
<1> DEFINE p == a[1]
           r == job[a].rt
<1>1. /\ p \in Projects /\ r \in Runtimes /\ mutex = None /\ mutex' = None /\ cut' = cut
      /\ DOMAIN job' = Actors /\ \A b \in Actors \ {a} : job'[b] = job[b]
  BY DEF StartScene, StartCatalogScene, AtStep, Finish, SceneInv, JobInv, JobSound, Actors
<1>2. JobSound(a)'
  <2>1. CASE Finish(a)
    <3>1. job'[a] = NoJob
      BY <2>1 DEF Finish, SceneInv, JobInv
    <3> QED
      BY <1>1, <3>1, IdleSound
  <2>2. CASE /\ ~StartRefused(a)
             /\ job' = [job EXCEPT ![a] = [NoJob EXCEPT !.op = "stop", !.step = "hold",
                                             !.scene = Min(Unused), !.rt = job[a].rt]]
    <3>1. Min(Unused) \in Scenes
      BY <2>2, NextScene DEF StartRefused, SceneInv
    <3>2. Min(Unused) # None
      BY <3>1, SceneConstants
    <3>3. /\ DOMAIN job'[a] = DOMAIN NoJob /\ job'[a].op = "stop" /\ job'[a].step = "hold"
          /\ job'[a].scene = Min(Unused) /\ job'[a].rt = r
      BY <2>2 DEF NoJob, SceneInv, JobInv
    <3> HIDE DEF r, p
    <3> QED
      BY <1>1, <3>2, <3>3 DEF JobSound, UnderLock
  <2> QED
    BY <2>1, <2>2 DEF StartScene, StartCatalogScene
<1>3. CASE UNCHANGED <<runtime, slot, owner, astray>>
  <2>1. HomesStay
    BY <1>1, <1>3, NothingMoves DEF SceneInv
  <2> QED
    BY <1>1, <1>2, <2>1, MoveKeeps
<1>4. CASE /\ ~StartRefused(a)
           /\ LET s == Min(Unused) IN
                /\ runtime' = [runtime EXCEPT ![r].scene = s, ![r].gen = 1]
                /\ owner' = [owner EXCEPT ![s] = p]
                /\ \/ /\ slot' = [slot EXCEPT ![p] = [scene |-> s, rt |-> r, gen |-> 1]]
                      /\ astray' = astray \cup LeftBehind(p, r)
                   \/ astray' = astray \cup {s} /\ UNCHANGED slot
  <2> DEFINE s == Min(Unused)
  <2>1. runtime[r].up /\ runtime[r].scene = None /\ Unused # {}
    BY <1>4 DEF StartRefused
  <2>2. s \in Scenes /\ owner[s] = None /\ s # None
    BY <2>1, NextScene DEF SceneInv
  <2> HIDE DEF s
  <2>3. Starts(p, r, s)
    BY <1>1, <1>4 DEF Starts, s
  <2>4. /\ DOMAIN runtime' = Runtimes /\ \A q \in Runtimes \ {r} : runtime'[q] = runtime[q]
        /\ runtime'[r].scene = s
        /\ \A t \in Scenes \ {s} : owner'[t] = owner[t]
    <3> HIDE DEF p, r
    <3> QED
      BY <1>1, <2>1, <2>2, <2>3, StartsTyped DEF SceneInv
  <2>5. HomeInv'
    <3>1. \/ /\ slot' = [slot EXCEPT ![p] = [scene |-> s, rt |-> r, gen |-> 1]]
             /\ astray' = astray \cup LeftBehind(p, r)
          \/ slot' = slot /\ astray' = astray \cup {s}
      BY <1>4 DEF s
    <3> HIDE DEF p, r
    <3> QED
      BY <1>1, <2>1, <2>2, <2>3, <3>1, RecordedStartKeeps, UnrecordedStartKeeps DEF SceneInv
  <2>6. astray \subseteq astray'
    BY <1>4
  <2> HIDE DEF p, r
  <2>7. \A b \in Actors \ {a} : job[b].step \notin UnderLock
    <3>1. \A b \in Actors : b # None
      BY SceneConstants DEF Actors
    <3> QED
      BY <1>1, <3>1 DEF SceneInv, JobInv, JobSound
  <2>8. JobsStay({a})
    BY <1>1, <2>2, <2>4, <2>6, <2>7 DEF JobsStay
  <2> QED
    BY <1>2, <2>5, <2>8, JobsKeep DEF SceneInv
<1> QED
  BY <1>1, <1>3, <1>4 DEF StartScene, StartCatalogScene

\* Only the step and the outcome of a job change.
LEMMA BecomesTyped ==
  ASSUME JobInv, NEW a \in Actors, NEW step, Becomes(a, step)
  PROVE  /\ DOMAIN job' = Actors /\ \A b \in Actors \ {a} : job'[b] = job[b]
         /\ DOMAIN job'[a] = DOMAIN NoJob /\ job'[a].step = step /\ job'[a].op = job[a].op
         /\ job'[a].scene = job[a].scene /\ job'[a].rt = job[a].rt
BY DEF Becomes, JobInv, JobSound, NoJob

LEMMA ResultTyped ==
  ASSUME JobInv, NEW a \in Actors, NEW ok, Result(a, ok)
  PROVE  /\ DOMAIN job' = Actors /\ \A b \in Actors \ {a} : job'[b] = job[b]
         /\ DOMAIN job'[a] = DOMAIN NoJob /\ job'[a].step = "after" /\ job'[a].op = job[a].op
         /\ job'[a].scene = job[a].scene /\ job'[a].rt = job[a].rt
BY DEF Result, JobInv, JobSound, NoJob

\* A job that goes on without the lock.
LEMMA GoesOnSound ==
  ASSUME JobInv, NEW a \in Actors, job[a].step # "none", DOMAIN job'[a] = DOMAIN NoJob,
         job'[a].step \in {"after", "clear", "ensure"}, job'[a].op = job[a].op,
         job'[a].step = "clear" => job[a].op = "recover",
         job'[a].scene = job[a].scene, job'[a].rt = job[a].rt
  PROVE  JobSound(a)'
BY DEF JobInv, JobSound, UnderLock

LEMMA HoldSteps ==
  ASSUME SceneInv, NEW a \in Actors, Hold(a)
  PROVE  HomeInv' /\ JobInv'
<1>1. /\ job[a].step = "hold" /\ mutex = None /\ UNCHANGED <<runtime, slot, owner, cut, astray>>
  BY DEF Hold, AtStep
<1>2. HomesStay
  BY <1>1, NothingMoves DEF SceneInv
<1>3. CASE Result(a, FALSE) /\ mutex' = mutex
  <2>1. /\ DOMAIN job' = Actors /\ \A b \in Actors \ {a} : job'[b] = job[b]
        /\ DOMAIN job'[a] = DOMAIN NoJob /\ job'[a].step = "after" /\ job'[a].op = job[a].op
        /\ job'[a].scene = job[a].scene /\ job'[a].rt = job[a].rt
    BY <1>3, ResultTyped DEF SceneInv
  <2>2. JobSound(a)'
    BY <1>1, <2>1, GoesOnSound DEF SceneInv
  <2> QED
    BY <1>2, <1>3, <2>1, <2>2, MoveKeeps
<1>4. CASE /\ slot[a[1]].scene = job[a].scene /\ mutex' = a
           /\ Becomes(a, "settle") \/ Becomes(a, "sweep")
  <2>1. PICK step \in {"settle", "sweep"} : Becomes(a, step)
    BY <1>4
  <2>2. /\ DOMAIN job' = Actors /\ \A b \in Actors \ {a} : job'[b] = job[b]
        /\ DOMAIN job'[a] = DOMAIN NoJob /\ job'[a].step = step /\ job'[a].op = job[a].op
        /\ job'[a].scene = job[a].scene /\ job'[a].rt = job[a].rt
    BY <2>1, BecomesTyped DEF SceneInv
  <2>3. JobSound(a)
    BY DEF SceneInv, JobInv
  <2>4. JobSound(a)'
    BY <1>1, <1>4, <2>2, <2>3 DEF JobSound, UnderLock
  <2> QED
    BY <1>1, <1>2, <2>2, <2>4, MoveKeeps
<1> QED
  BY <1>3, <1>4 DEF Hold

\* Under the lock, up to the Runtime's own stop or reset.
LEMMA LockedSteps ==
  ASSUME SceneInv, NEW a \in Actors, HoldSceneRobots(a) \/ RobotsStopped(a)
  PROVE  HomeInv' /\ JobInv'
<1>1. /\ job[a].step \in {"settle", "sweep"} /\ UNCHANGED <<runtime, slot, owner, cut, astray>>
  BY DEF HoldSceneRobots, RobotsStopped, AtStep
<1>2. JobSound(a) /\ mutex = a
  BY <1>1 DEF SceneInv, JobInv, JobSound, UnderLock
<1>3. HomesStay
  BY <1>1, NothingMoves DEF SceneInv
<1>4. CASE Result(a, FALSE) /\ mutex' = None
  <2>1. /\ DOMAIN job' = Actors /\ \A b \in Actors \ {a} : job'[b] = job[b]
        /\ DOMAIN job'[a] = DOMAIN NoJob /\ job'[a].step = "after" /\ job'[a].op = job[a].op
        /\ job'[a].scene = job[a].scene /\ job'[a].rt = job[a].rt
    BY <1>4, ResultTyped DEF SceneInv
  <2>2. JobSound(a)'
    BY <1>1, <2>1, GoesOnSound DEF SceneInv
  <2> QED
    BY <1>2, <1>3, <2>1, <2>2, MoveKeeps
<1>5. CASE mutex' = mutex /\ (Becomes(a, "apply") \/ Becomes(a, "halt"))
  <2>1. PICK step \in {"apply", "halt"} : Becomes(a, step)
    BY <1>5
  <2>2. /\ DOMAIN job' = Actors /\ \A b \in Actors \ {a} : job'[b] = job[b]
        /\ DOMAIN job'[a] = DOMAIN NoJob /\ job'[a].step = step /\ job'[a].op = job[a].op
        /\ job'[a].scene = job[a].scene /\ job'[a].rt = job[a].rt
    BY <2>1, BecomesTyped DEF SceneInv
  <2>3. JobSound(a)'
    BY <1>1, <1>2, <1>5, <2>2 DEF JobSound, UnderLock
  <2> QED
    BY <1>2, <1>3, <1>5, <2>2, <2>3, MoveKeeps
<1> QED
  BY <1>4, <1>5 DEF HoldSceneRobots, RobotsStopped

\* The Runtime stopped the scene: it leaves the slot in the same step, unless the answer is
\* lost.
LEMMA HaltSteps ==
  ASSUME SceneInv, NEW a \in Actors, Halt(a)
  PROVE  HomeInv' /\ JobInv'
<1> DEFINE p == a[1]
           r == slot[p].rt
<1>1. job[a].step = "halt" /\ mutex' = None /\ UNCHANGED <<owner, astray>> /\ p \in Projects
  BY DEF Halt, AtStep, Actors
<1>2. mutex = a /\ job[a].scene # None /\ slot[p].scene = job[a].scene
  BY <1>1 DEF SceneInv, JobInv, JobSound, UnderLock
<1>3. PICK ok \in BOOLEAN : Result(a, ok)
  BY DEF Halt
<1>4. /\ DOMAIN job' = Actors /\ \A b \in Actors \ {a} : job'[b] = job[b]
      /\ DOMAIN job'[a] = DOMAIN NoJob /\ job'[a].step = "after" /\ job'[a].op = job[a].op
      /\ job'[a].scene = job[a].scene /\ job'[a].rt = job[a].rt
  BY <1>3, ResultTyped DEF SceneInv
<1>5. CASE UNCHANGED <<runtime, slot, cut>>
  <2>1. HomesStay
    BY <1>1, <1>5, NothingMoves DEF SceneInv
  <2>2. JobSound(a)'
    BY <1>1, <1>4, <1>5, GoesOnSound DEF SceneInv
  <2> QED
    BY <1>2, <1>4, <2>1, <2>2, MoveKeeps
<1>6. CASE /\ Serves(r, job[a].scene) /\ runtime' = [runtime EXCEPT ![r].scene = None]
           /\ \/ slot' = [slot EXCEPT ![p].scene = None] /\ cut' = cut
              \/ slot' = slot /\ cut' = cut \cup {job[a].scene}
  <2>1. r \in Runtimes /\ slot[p].scene # None /\ runtime[r].scene = slot[p].scene
    BY <1>1, <1>2, <1>6 DEF Serves, SceneInv, HomeInv, SlotSound
  <2>2. /\ DOMAIN runtime' = Runtimes
        /\ \A q \in Runtimes \ {r} : runtime'[q] = runtime[q]
        /\ DOMAIN runtime'[r] = DOMAIN Down /\ runtime'[r].scene = None
        /\ runtime'[r].up = runtime[r].up
    BY <1>6, <2>1 DEF SceneInv, HomeInv, SceneTyped, Down
  <2>3. \A q \in Runtimes : runtime'[q].scene # None => runtime'[q].scene # slot[p].scene
    BY <2>1, <2>2 DEF SceneInv, HomeInv, OneHome
  <2>4. \A q \in Runtimes : DOMAIN runtime'[q] = DOMAIN Down
    BY <2>2 DEF SceneInv, HomeInv, SceneTyped
  <2>6. \A b \in Actors \ {a} : job[b].step \notin UnderLock
    BY <1>2 DEF SceneInv, JobInv, JobSound
  <2>7. \/ slot' = [slot EXCEPT ![p].scene = None] /\ cut' = cut
        \/ slot' = slot /\ cut' = cut \cup {slot[p].scene}
    BY <1>2, <1>6
  <2> HIDE DEF p, r
  <2>8. HomeInv'
    BY <1>1, <2>1, <2>2, <2>3, <2>4, <2>7, FreedKeeps, LostStopKeeps DEF SceneInv
  <2>9. JobsStay({a})
    BY <1>4, <2>6 DEF JobsStay
  <2>10. JobSound(a)'
    BY <1>1, <1>4, <2>7, GoesOnSound DEF SceneInv
  <2> QED
    BY <2>8, <2>9, <2>10, JobsKeep DEF SceneInv
<1> QED
  BY <1>5, <1>6 DEF Halt, Freed

LEMMA ResetSteps ==
  ASSUME SceneInv, NEW a \in Actors, Reset(a)
  PROVE  HomeInv' /\ JobInv'
<1>1. /\ job[a].step = "apply" /\ mutex' = None /\ UNCHANGED <<owner, cut, astray>>
      /\ DOMAIN job' = Actors /\ \A b \in Actors \ {a} : job'[b] = job[b] /\ job'[a] = NoJob
      /\ a[1] \in Projects
  BY DEF Reset, AtStep, Finish, SceneInv, JobInv, Actors
<1>2. mutex = a
  BY <1>1 DEF SceneInv, JobInv, JobSound, UnderLock
<1>3. HomesStay
  <2> DEFINE r == slot[a[1]].rt
  <2>1. CASE runtime' = runtime /\ slot' = slot
    BY <1>1, <2>1, NothingMoves DEF SceneInv
  <2>2. CASE /\ Serves(r, job[a].scene) /\ runtime' = [runtime EXCEPT ![r].gen = @ + 1]
             /\ slot' = slot \/ slot' = [slot EXCEPT ![a[1]].gen = runtime[r].gen + 1]
    <3>1. r \in Runtimes
      BY <1>1, <2>2 DEF Serves, SceneInv, HomeInv, SceneTyped
    <3>2. /\ DOMAIN runtime' = Runtimes
          /\ \A q \in Runtimes : /\ DOMAIN runtime'[q] = DOMAIN Down
                                 /\ runtime'[q].scene = runtime[q].scene
                                 /\ runtime[q].up => runtime'[q].up
      BY <2>2, <3>1 DEF SceneInv, HomeInv, SceneTyped, Down
    <3>3. /\ DOMAIN slot' = Projects
          /\ \A q \in Projects : /\ DOMAIN slot'[q] = {"scene", "rt", "gen"}
                                 /\ slot'[q].scene = slot[q].scene /\ slot'[q].rt = slot[q].rt
      BY <1>1, <2>2 DEF SceneInv, HomeInv, SceneTyped
    <3> QED
      BY <1>1, <3>2, <3>3 DEF HomesStay
  <2> QED
    BY <2>1, <2>2 DEF Reset
<1>4. \A b \in Actors \ {a} : job'[b] = job[b]
  BY DEF Reset, Finish, SceneInv, JobInv
<1>5. JobSound(a)'
  BY IdleSound DEF Reset, Finish, SceneInv, JobInv
<1> QED
  BY <1>1, <1>2, <1>3, <1>4, <1>5, MoveKeeps

\* The end of a Runtime process by its supervisor.
LEMMA StopManagedKeeps ==
  ASSUME HomeInv, NEW r \in Runtimes, StopManaged(r), UNCHANGED <<slot, owner, astray>>
  PROVE  HomeInv' /\ \A q \in Runtimes : runtime'[q].scene \in {runtime[q].scene, None}
<1>1. CASE UNCHANGED <<runtime, cut>>
  BY <1>1, NothingMoves, HomesKeep
<1>2. CASE Ends(r)
  BY <1>2, EndIsOneEnd, EndsKeep
<1> QED
  BY <1>1, <1>2 DEF StopManaged

LEMMA AfterSteps ==
  ASSUME SceneInv, NEW a \in Actors, AfterStop(a) \/ AfterRelease(a) \/ AfterRecover(a)
  PROVE  HomeInv' /\ JobInv'
<1>1. /\ job[a].step = "after" /\ job[a].rt \in Runtimes /\ JobSound(a)
      /\ UNCHANGED <<slot, owner, mutex, astray>>
  BY DEF AfterStop, AfterRelease, AfterRecover, AtStep, SceneInv, JobInv, JobSound
<1>2. CASE /\ cut' = cut /\ Finish(a)
           /\ runtime' = runtime \/ runtime' = [runtime EXCEPT ![job[a].rt] = Ensured(job[a].rt)]
  <2>1. HomesStay
    BY <1>1, <1>2, EnsuredKeeps, NothingMoves DEF HomesStay, SceneInv, HomeInv, SceneTyped
  <2>2. /\ DOMAIN job' = Actors /\ job'[a] = NoJob
        /\ \A b \in Actors \ {a} : job'[b] = job[b]
    BY <1>2 DEF Finish, SceneInv, JobInv
  <2> QED
    BY <1>1, <2>1, <2>2, IdleSound, MoveKeeps
<1>3. CASE /\ job[a].op = "switch" /\ cut' = cut
           /\ runtime' = [runtime EXCEPT ![job[a].rt] = Ensured(job[a].rt)]
           /\ job' = [job EXCEPT ![a].step = "locked", ![a].seen = Ensured(job[a].rt).scene]
  <2>1. HomesStay
    BY <1>1, <1>3, EnsuredKeeps DEF HomesStay, SceneInv, HomeInv, SceneTyped
  <2>2. /\ DOMAIN job' = Actors /\ \A b \in Actors \ {a} : job'[b] = job[b]
        /\ DOMAIN job'[a] = DOMAIN NoJob /\ job'[a].step = "locked" /\ job'[a].op = "switch"
        /\ job'[a].rt = job[a].rt
    BY <1>1, <1>3 DEF NoJob, SceneInv, JobInv, JobSound
  <2>3. JobSound(a)'
    BY <1>1, <2>2 DEF JobSound, UnderLock
  <2> QED
    BY <1>1, <2>1, <2>2, <2>3, MoveKeeps
<1>4. CASE /\ \/ StopManaged(job[a].rt)
              \/ job[a].op = "recover" /\ slot[a[1]].scene = job[a].scene /\ StopManaged(slot[a[1]].rt)
              \/ job[a].op = "recover" /\ UNCHANGED <<runtime, cut>>
           /\ \/ Finish(a)
              \/ \E step \in {"clear", "ensure"} : job[a].op = "recover" /\ Becomes(a, step)
  <2>1. HomeInv'
    <3>1. CASE UNCHANGED <<runtime, cut>>
      BY <1>1, <3>1, NothingMoves, HomesKeep DEF SceneInv
    <3>2. CASE job[a].op = "recover" /\ slot[a[1]].scene = job[a].scene /\ StopManaged(slot[a[1]].rt)
      <4>1. slot[a[1]].rt \in Runtimes
        BY <1>1, <3>2 DEF JobSound, Actors, SceneInv, HomeInv, SlotSound
      <4> QED
        BY <1>1, <3>2, <4>1, StopManagedKeeps DEF SceneInv
    <3>3. CASE StopManaged(job[a].rt)
      BY <1>1, <3>3, StopManagedKeeps DEF SceneInv
    <3> QED
      BY <1>4, <3>1, <3>2, <3>3
  <2>2. DOMAIN job' = Actors /\ \A b \in Actors \ {a} : job'[b] = job[b]
    BY <1>4 DEF Finish, Becomes, SceneInv, JobInv
  <2>3. JobsStay({a})
    BY <1>1, <2>2 DEF JobsStay
  <2>4. JobSound(a)'
    <3>1. CASE Finish(a)
      <4>1. job'[a] = NoJob
        BY <3>1 DEF Finish, SceneInv, JobInv
      <4> QED
        BY <4>1, IdleSound
    <3>2. ASSUME NEW step \in {"clear", "ensure"}, job[a].op = "recover", Becomes(a, step)
          PROVE  JobSound(a)'
      <4>1. /\ DOMAIN job'[a] = DOMAIN NoJob /\ job'[a].step = step /\ job'[a].op = job[a].op
            /\ job'[a].scene = job[a].scene /\ job'[a].rt = job[a].rt
        BY <3>2, BecomesTyped DEF SceneInv
      <4> QED
        BY <1>1, <3>2, <4>1, GoesOnSound DEF SceneInv
    <3> QED
      BY <1>4, <3>1, <3>2
  <2> QED
    BY <2>1, <2>3, <2>4, JobsKeep DEF SceneInv
<1> QED
  <2>1. CASE AfterStop(a)
    BY <1>2, <1>3, <2>1 DEF AfterStop
  <2>2. CASE AfterRelease(a)
    <3>1. StopManaged(job[a].rt) /\ Finish(a)
      BY <2>2 DEF AfterRelease
    <3> QED
      BY <1>4, <3>1
  <2>3. CASE AfterRecover(a)
    BY <1>4, <2>3 DEF AfterRecover
  <2> QED
    BY <2>1, <2>2, <2>3

\* A recovery frees the slot; a scene that a Runtime still runs goes astray.
LEMMA ClearSteps ==
  ASSUME SceneInv, NEW a \in Actors, ClearSlot(a)
  PROVE  HomeInv' /\ JobInv'
<1> DEFINE p == a[1]
<1>1. /\ job[a].step = "clear" /\ JobSound(a) /\ job[a].scene # None
      /\ mutex = None /\ mutex' = None /\ UNCHANGED <<runtime, owner, cut>> /\ p \in Projects
      /\ Becomes(a, "ensure")
  BY DEF ClearSlot, AtStep, SceneInv, JobInv, JobSound, Actors
<1>2. /\ DOMAIN job' = Actors /\ \A b \in Actors \ {a} : job'[b] = job[b]
      /\ DOMAIN job'[a] = DOMAIN NoJob /\ job'[a].step = "ensure" /\ job'[a].op = job[a].op
      /\ job'[a].scene = job[a].scene /\ job'[a].rt = job[a].rt
  BY <1>1, BecomesTyped DEF SceneInv
<1>3. JobSound(a)'
  BY <1>1, <1>2, GoesOnSound DEF SceneInv
<1>4. CASE UNCHANGED <<slot, astray>>
  <2>1. HomesStay
    BY <1>1, <1>4, NothingMoves DEF SceneInv
  <2> QED
    BY <1>1, <1>2, <1>3, <2>1, MoveKeeps
<1>5. CASE /\ slot[p].scene = job[a].scene /\ slot' = [slot EXCEPT ![p].scene = None]
           /\ astray' = astray \cup GivenUp(job[a].scene)
  <2>1. /\ slot[p].scene # None
        /\ \A r \in Runtimes : runtime'[r].scene = slot[p].scene => slot[p].scene \in astray'
        /\ astray \subseteq astray' /\ astray' \subseteq astray \cup {slot[p].scene}
    BY <1>1, <1>5 DEF GivenUp
  <2>2. slot' = [slot EXCEPT ![p].scene = None]
    BY <1>5
  <2> HIDE DEF p
  <2>3. HomeInv'
    BY <1>1, <2>1, <2>2, FreedKeeps DEF SceneInv, HomeInv, SceneTyped
  <2>4. \A b \in Actors \ {a} : job[b].step \notin UnderLock
    <3>1. \A b \in Actors : b # None
      BY SceneConstants DEF Actors
    <3> QED
      BY <1>1, <3>1 DEF SceneInv, JobInv, JobSound
  <2>5. JobsStay({a})
    BY <1>2, <2>4 DEF JobsStay
  <2> QED
    BY <1>3, <2>3, <2>5, JobsKeep DEF SceneInv
<1> QED
  BY <1>4, <1>5 DEF ClearSlot

\* A scene whose observer ends starts its Robots, which nobody started before.
LEMMA RobotsOfTheScene ==
  ASSUME SceneInv, NEW s \in Scenes, StartSceneRobots(s)
  PROVE  InstInv' /\ Fresh'
<1>1. /\ observer[s] = "robots" /\ UNCHANGED <<robotInst, portLease, supervisor, busy, owner>>
      /\ observer' = [observer EXCEPT ![s] = "off"]
      /\ starter' = [i \in Instances |-> IF i[1] = s /\ i[2] \in cast[s]
                                         THEN [step |-> "prepare", old |-> None] ELSE starter[i]]
  BY DEF StartSceneRobots
<1>2. \A i \in Instances : i[1] = s => starter[i].step = "off"
  <2>1. \A b \in Robots : starter[<<s, b>>].step = "off"
    BY <1>1 DEF SceneInv, Fresh, FreshScene
  <2>2. \A i \in Instances : i[1] = s => \E b \in Robots : i = <<s, b>>
    BY DEF Instances
  <2> QED
    BY <2>1, <2>2
<1>3. /\ DOMAIN starter' = Instances
      /\ \A i \in Instances : DOMAIN starter'[i] = {"step", "old"}
      /\ \A i \in Instances :
           starter[i].step # "off" \/ starter'[i].step \in Launching => starter'[i] = starter[i]
  BY <1>1, <1>2 DEF SceneInv, InstInv, InstTyped, Launching
<1>4. InstInv'
  <2>1. InstTyped' /\ OneActive' /\ OnRecord' /\ LeasesApart'
    BY <1>1, <1>3 DEF SceneInv, InstInv, InstTyped, OneActive, OnRecord, LeasesApart, Running
  <2>2. \A b \in Robots : LockSound(b)'
    BY <1>1, <1>3 DEF SceneInv, InstInv, LockSound, Launching, At
  <2>3. \A i \in Instances : StartSound(i)'
    BY <1>1, <1>3 DEF SceneInv, InstInv, StartSound, Running
  <2> QED
    BY <2>1, <2>2, <2>3 DEF InstInv
<1>5. Fresh'
  <2>1. DOMAIN observer' = Scenes /\ observer'[s] = "off"
    BY <1>1 DEF SceneInv, Fresh
  <2>2. owner[s] # None
    BY <1>1 DEF SceneInv, Fresh, FreshScene
  <2>3. \A t \in Scenes \ {s} : observer'[t] = observer[t] /\ owner'[t] = owner[t]
    BY <1>1 DEF SceneInv, Fresh
  <2>4. \A t \in Scenes \ {s}, b \in Robots : starter'[<<t, b>>] = starter[<<t, b>>]
    BY <1>1 DEF Instances
  <2> QED
    BY <1>1, <2>1, <2>2, <2>3, <2>4 DEF SceneInv, Fresh, FreshScene
<1> QED
  BY <1>4, <1>5

-----------------------------------------------------------------------------
(* The whole.                                                              *)

\* A step of the scenes that leaves Robots and observers alone.
LEMMA QuietStep ==
  ASSUME SceneInv, UNCHANGED <<robotInst, portLease, supervisor, busy, starter, owner, observer>>
  PROVE  InstInv' /\ Fresh'
<1>1. InstInv'
  BY RobotsUntouched DEF SceneInv
<1>2. Fresh'
  BY DEF SceneInv, Fresh, FreshScene
<1> QED
  BY <1>1, <1>2

LEMMA JobActions ==
  ASSUME SceneInv, NEW a \in Actors,
         \/ StartScene(a) \/ Hold(a) \/ HoldSceneRobots(a) \/ RobotsStopped(a) \/ Halt(a) \/ Reset(a)
         \/ AfterStop(a) \/ AfterRelease(a) \/ AfterRecover(a) \/ ClearSlot(a) \/ EnsureAfter(a)
  PROVE  SceneInv'
<1>1. HomeInv' /\ JobInv'
  BY StartSteps, HoldSteps, LockedSteps, HaltSteps, ResetSteps, AfterSteps, ClearSteps,
     EnsureAfterSteps
<1>2. CASE StartScene(a)
  <2>1. InstInv'
    BY <1>2, RobotsUntouched DEF StartScene, SceneInv
  <2>2. CASE UNCHANGED <<owner, observer>>
    BY <1>1, <1>2, <2>2, QuietStep DEF StartScene, SceneInv
  <2>3. CASE /\ ~StartRefused(a) /\ owner' = [owner EXCEPT ![Min(Unused)] = a[1]]
             /\ \/ observer' = [observer EXCEPT ![Min(Unused)] = "watch"]
                \/ observer' = observer
    <3> DEFINE s == Min(Unused)
    <3>1. s \in Scenes /\ owner[s] = None
      BY <2>3, NextScene DEF StartRefused, SceneInv
    <3>2. a[1] # None
      BY SceneConstants DEF Actors
    <3>3. \A t \in Scenes : /\ owner'[t] = owner[t] \/ (owner[t] = None /\ owner'[t] # None)
                            /\ \/ observer'[t] = observer[t]
                               \/ owner[t] = None /\ owner'[t] # None
      BY <2>3, <3>1, <3>2 DEF SceneInv, Fresh, HomeInv, SceneTyped
    <3>4. DOMAIN observer' = Scenes
      BY <2>3 DEF SceneInv, Fresh
    <3>5. starter' = starter
      BY <1>2 DEF StartScene
    <3>6. Fresh'
      BY <3>3, <3>4, <3>5, FreshKeeps DEF SceneInv
    <3> QED
      BY <1>1, <2>1, <3>6 DEF SceneInv
  <2> QED
    BY <1>2, <2>2, <2>3 DEF StartScene, StartCatalogScene
<1>3. CASE \/ Hold(a) \/ HoldSceneRobots(a) \/ RobotsStopped(a) \/ Halt(a) \/ Reset(a)
           \/ AfterStop(a) \/ AfterRelease(a) \/ AfterRecover(a) \/ ClearSlot(a) \/ EnsureAfter(a)
  <2>1. UNCHANGED <<robotInst, portLease, supervisor, busy, starter, owner, observer>>
    BY <1>3 DEF Hold, HoldSceneRobots, RobotsStopped, Halt, Reset, AfterStop, AfterRelease,
                AfterRecover, ClearSlot, EnsureAfter, EnsureProject, robotVars
  <2> QED
    BY <1>1, <2>1, QuietStep DEF SceneInv
<1> QED
  BY <1>2, <1>3

LEMMA ObserverActions ==
  ASSUME SceneInv, NEW s \in Scenes, Observe(s) \/ ObserveEnds(s) \/ StartSceneRobots(s)
  PROVE  SceneInv'
<1>1. HomeInv' /\ JobInv'
  BY ObserveSteps
<1>2. CASE Observe(s) \/ ObserveEnds(s)
  <2>1. /\ UNCHANGED <<robotInst, portLease, supervisor, busy, starter, owner>>
        /\ observer[s] # "off" /\ DOMAIN observer' = Scenes
        /\ \A t \in Scenes \ {s} : observer'[t] = observer[t]
    BY <1>2 DEF Observe, ObserveEnds, robotVars, SceneInv, Fresh
  <2>2. InstInv'
    BY <2>1, RobotsUntouched DEF SceneInv
  <2>3. Fresh'
    BY <2>1, FreshKeeps DEF SceneInv
  <2> QED
    BY <1>1, <2>2, <2>3 DEF SceneInv
<1>3. CASE StartSceneRobots(s)
  BY <1>1, <1>3, RobotsOfTheScene DEF SceneInv
<1> QED
  BY <1>2, <1>3

LEMMA CallActions ==
  ASSUME SceneInv, ScenesCall \/ \E p \in Projects : TimerFires(p) \/ ReleaseIfStillUnused(p)
  PROVE  SceneInv'
<1>1. HomeInv' /\ JobInv'
  BY CallSteps, SnapshotSteps, LeaseSteps, EnsureSteps, EndSteps DEF ScenesCall
<1>2. UNCHANGED <<robotInst, portLease, supervisor, busy, starter, owner, observer>>
  BY DEF ScenesCall, CallRecover, Snapshot, Connected, Disconnected, CallSceneOperation,
     CallStart, CallEnsure, EnsureProject, StopInstallation, TimerFires, ReleaseIfStillUnused, leaseOthers,
     robotVars
<1> QED
  BY <1>1, <1>2, QuietStep DEF SceneInv

LEMMA SceneStep == ASSUME SceneInv, [ScenesNext]_vars PROVE SceneInv'
<1>1. ASSUME NEW r \in Runtimes, RuntimeExits(r)
      PROVE  SceneInv'
  BY <1>1, EndSteps, QuietStep DEF RuntimeExits, SceneInv
<1>2. ASSUME CrashServer \/ FinishShutdown
      PROVE  SceneInv'
  BY <1>2, ForgetKeeps DEF CrashServer, FinishShutdown
<1>3. ASSUME UNCHANGED vars
      PROVE  SceneInv'
  <2>1. HomeInv' /\ JobInv'
    BY <1>3 DEF vars, sceneVars, SceneInv, HomeInv, SceneTyped, OneHome, Used, SlotSound, Serves,
                RuntimeSound, JobInv, JobSound
  <2> QED
    BY <1>3, <2>1, QuietStep DEF vars, robotVars, sceneVars, SceneInv
<1>4. ASSUME ScenesStep
      PROVE  SceneInv'
  BY <1>2, <1>4, JobActions, ObserverActions, CallActions DEF ScenesStep
<1>5. ASSUME ScenesCall
      PROVE  SceneInv'
  BY <1>5, CallActions
<1>6. ASSUME (RobotsStep \/ RobotsMishap) /\ UNCHANGED sceneVars
      PROVE  SceneInv'
  BY <1>6, RobotSteps
<1> QED
  BY <1>1, <1>2, <1>3, <1>4, <1>5, <1>6 DEF ScenesNext

\* Instances never share a Robot or a port, whatever scene started them: also after failed
\* starts, stops without evidence, lost supervisors and the end of the Server
\* (robotruntime.Orchestrator, store/robot_runtime.go).
THEOREM InstancesNeverShare == ScenesSpec => []InstancesAreExclusive
<1>1. ASSUME InstInv
      PROVE  InstancesAreExclusive
  <2>1. ASSUME NEW b \in Robots
        PROVE  Cardinality(ActiveOn(b)) <= 1
    <3>1. CASE ActiveOn(b) = {}
      BY <3>1, FS_EmptySet
    <3>2. CASE ActiveOn(b) # {}
      <4>1. PICK i : i \in ActiveOn(b)
        BY <3>2
      <4>2. ActiveOn(b) = {i}
        BY <1>1, <4>1 DEF InstInv, OneActive, ActiveOn
      <4> QED
        BY <4>2, FS_Singleton, SMTT(30)
    <3> QED
      BY <3>1, <3>2
  <2>2. OneRunningInstance
    BY <1>1, <2>1 DEF OneRunningInstance, InstInv, OnRecord, ActiveOn
  <2>3. PortsAreExclusive
    BY <1>1 DEF PortsAreExclusive, InstInv, OnRecord, LeasesApart
  <2> QED
    BY <2>2, <2>3 DEF InstancesAreExclusive
<1> QED
  BY <1>1, ScenesGood, SceneStep, PTL DEF ScenesSpec, SceneInv

\* The scene a Project records is the one its Runtime runs, and a Runtime runs no scene but
\* one its owner records, whatever starts, stops, switches, recoveries and releases do at
\* the same time (simulation.Service under stateMu).
THEOREM SlotsMatchRuntimes == ScenesSpec => []SlotMatchesRuntime
<1>1. SceneInv => SlotMatchesRuntime
  BY DEF SceneInv, HomeInv, SlotSound, RuntimeSound, SlotMatchesRuntime
<1> QED
  BY <1>1, ScenesGood, SceneStep, PTL DEF ScenesSpec

=============================================================================
