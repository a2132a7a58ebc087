--------------------------- MODULE RobotLinkProofs ---------------------------
(***************************************************************************)
(* Proofs about the Robot service, the Pilot and the connection between     *)
(* them: an end in the database is true of the Robot, a stop never          *)
(* overtakes its start, and the Robot works on one Execution at a time.     *)
(*                                                                          *)
(* LinkInv says of everybody who will write the status of an Execution, a   *)
(* handler, the log or a message under way, that what he holds is true, and *)
(* LinkGrows that no step makes something true of an Execution untrue.      *)
(***************************************************************************)
EXTENDS RobotLink, SequenceTheorems, TLAPS

Statuses == Status \ {"none"}

LinkTyped ==
  /\ exec \in [Execs -> Status] /\ log \in [Execs -> Status]
  /\ work \in [Execs -> Status \ {"queued"}] /\ left \in [Limits -> Nat]

\* st is true of e as far as an end goes: someone vouched for e, the Pilot reached that
\* end, or no start of e ever reaches the Pilot.
NeverStarts(e) == work[e] = "none" /\ ~Starting(e) /\ Coming("start", e) = {}
TrueEnd(e, st) ==
  st \in Ends =>
    \/ Vouched(e)
    \/ work[e] = st
    \/ st \in {"failed", "stopped"} /\ NeverStarts(e)

Spoken(e) == e \in Execs /\ exec[e] # "none"

\* What the database says of an Execution.
RowsAreTrue ==
  \A e \in Execs :
    /\ TrueEnd(e, exec[e])
    /\ log[e] # "none" => exec[e] # "none" /\ TrueEnd(e, log[e])
    /\ work[e] # "none" => exec[e] # "none"

\* robot.run and robot.stop exclude each other; what is being validated has no row yet,
\* and of what is being started nothing is on its way.
RunSound ==
  /\ DOMAIN run = {"pc", "e"}
  /\ run.pc \in {"idle", "validating", "closed", "admitted", "pointed", "registering", "unsent"}
  /\ run.pc # "idle" => run.e \in Execs /\ stop.pc = "idle"
  /\ run.pc = "validating" => exec[run.e] = "none"
  /\ run.pc \in {"admitted", "pointed"} =>
       /\ Spoken(run.e) /\ work[run.e] = "none"
       /\ \A i \in 1..Len(down) : down[i].e # run.e

StopSound ==
  /\ DOMAIN stop = {"pc", "e", "n"}
  /\ stop.pc \in {"idle", "read", "saved", "registering"}
  /\ IF stop.pc = "idle" THEN stop.e = None ELSE Spoken(stop.e) /\ stop.n \in Nat \ {0}

ConfirmSound ==
  /\ "pc" \in DOMAIN op
  /\ op.pc # "idle" => Spoken(op.e) /\ op.by \in {"operator", "hold"}

\* What the gateway is about to write is true.
GatewaySound ==
  /\ "pc" \in DOMAIN gw
  /\ gw.pc = "save" => Spoken(gw.e) /\ gw.next \in Statuses /\ TrueEnd(gw.e, gw.next)
  /\ gw.pc = "recon" =>
       /\ DOMAIN gw = {"pc", "row", "local", "remote", "todo", "free"}
       /\ \A e \in gw.todo :
            /\ Spoken(e) /\ gw.local[e] \in Statuses /\ TrueEnd(e, gw.local[e])
            /\ gw.remote[e] \in Status \ Ends

\* Starts go to Executions the Pilot has not begun, once, and before their stops.
Command == [k : {"start", "stop", "recon"}, e : Execs \cup {None}, n : Nat]
CommandsSound ==
  /\ down \in Seq(Command)
  /\ \A i \in 1..Len(down) :
       /\ IF down[i].k = "recon" THEN down[i].e = None ELSE Spoken(down[i].e)
       /\ down[i].k = "start" => down[i].n = 0 /\ work[down[i].e] = "none"
       /\ down[i].k = "stop" => down[i].n # 0
       /\ \A j \in 1..Len(down) :
            down[i].k = "start" /\ down[j].k \in {"start", "stop"} /\ down[i].e = down[j].e => i <= j

\* What the Pilot says is true.
Message ==
  [k : {"event"}, e : Execs, st : Statuses, terminal : BOOLEAN]
    \cup [k : {"ack"}, e : Execs, n : Nat, ok : BOOLEAN]
    \cup [k : {"recon"}, remote : [Execs -> Status]]
    \cup [k : {"beat"}, ptr : Execs \cup {None}]
Sound(m) ==
  /\ m.k = "event" => Spoken(m.e) /\ TrueEnd(m.e, m.st)
  /\ m.k = "ack" => Spoken(m.e) /\ (m.n = 0 => m.ok \/ TrueEnd(m.e, "failed"))
  /\ m.k = "recon" => \A e \in Execs : m.remote[e] \notin Ends
SoundMessages == {m \in Message : Sound(m)}

\* What holds the Robot has the only Worker, and a stop in progress keeps it stopping.
PilotSound ==
  /\ live \subseteq {busy} \cap Execs
  /\ \A e \in Execs : work[e] \in {"running", "stopping"} => busy = e
  /\ \A e \in live : work[e] # "none"
  /\ beat.ptr \in Execs \cup {None}
  /\ DOMAIN hand = {"k", "e", "n"}
  /\ \/ hand = HandFree
     \/ hand.k = "start" /\ Spoken(hand.e) /\ hand.n = 0
     \/ hand.k = "stop" /\ Spoken(hand.e) /\ hand.n \in Nat \ {0} /\ work[hand.e] = "stopping"

LinkInv ==
  /\ LinkTyped /\ RowsAreTrue /\ RunSound /\ StopSound /\ ConfirmSound /\ GatewaySound
  /\ CommandsSound /\ up \in Seq(SoundMessages) /\ PilotSound

\* What is true of an Execution that has a row stays true.
LinkGrows ==
  /\ vouched \subseteq vouched'
  /\ \A e \in Execs :
       /\ exec[e] # "none" => exec'[e] # "none"
       /\ work[e] \in Ends => work'[e] = work[e]
       /\ exec[e] # "none" /\ NeverStarts(e) => NeverStarts(e)'

-----------------------------------------------------------------------------
LEMMA NothingComing ==
  ASSUME down \in Seq(Command), NEW e, NEW k
  PROVE  Coming(k, e) = {} <=> \A i \in 1..Len(down) : ~(down[i].k = k /\ down[i].e = e)
  BY DEF Coming

LEMMA NothingComingNext ==
  ASSUME (down \in Seq(Command))', NEW e, NEW k
  PROVE  Coming(k, e)' = {} <=> \A i \in 1..Len(down') : ~(down'[i].k = k /\ down'[i].e = e)
  BY DEF Coming

LEMMA TruthStays ==
  ASSUME LinkGrows, NEW e, Spoken(e), NEW st, TrueEnd(e, st)
  PROVE  Spoken(e)' /\ TrueEnd(e, st)'
  BY DEF LinkGrows, Spoken, TrueEnd, Vouched, Ends

LEMMA MessagesStay ==
  ASSUME LinkGrows
  PROVE  SoundMessages \subseteq SoundMessages'
<1>1. \A m \in Message : Sound(m) => Sound(m)'
  BY TruthStays DEF Sound, Spoken, LinkGrows
<1> QED
  BY <1>1 DEF SoundMessages, Message, Statuses

LEMMA SequenceGrows ==
  ASSUME NEW S, NEW T, S \subseteq T, NEW s \in Seq(S)
  PROVE  s \in Seq(T)
  OBVIOUS

\* What the Pilot tells is added to what it told, unless the connection is lost.
LEMMA Told ==
  ASSUME LinkGrows, up \in Seq(SoundMessages), NEW ms \in Seq(SoundMessages'), Tell(ms)
  PROVE  up' \in Seq(SoundMessages')
<1>1. up \in Seq(SoundMessages')
  BY MessagesStay, SequenceGrows
<1>2. up \o ms \in Seq(SoundMessages')
  BY <1>1
<1> QED
  BY <1>1, <1>2 DEF Tell

LEMMA UpStays ==
  ASSUME LinkGrows, up \in Seq(SoundMessages), UNCHANGED up
  PROVE  up' \in Seq(SoundMessages')
  BY MessagesStay, SequenceGrows

LEMMA UpTaken ==
  ASSUME LinkGrows, up \in Seq(SoundMessages), up # <<>>, up' = Tail(up)
  PROVE  up' \in Seq(SoundMessages')
<1>1. Tail(up) \in Seq(SoundMessages)
  BY HeadTailProperties
<1> QED
  BY <1>1, MessagesStay, SequenceGrows

LEMMA RowsStay ==
  ASSUME LinkGrows, LinkTyped, RowsAreTrue, UNCHANGED <<exec, log>>,
         \A e \in Execs : work'[e] # "none" => exec[e] # "none"
  PROVE  RowsAreTrue'
<1>1. \A e \in Execs : exec[e] # "none" => TrueEnd(e, exec[e])'
  BY TruthStays DEF RowsAreTrue, Spoken
<1>2. \A e \in Execs : exec[e] = "none" => TrueEnd(e, exec[e])'
  BY DEF TrueEnd, Ends
<1>3. \A e \in Execs : log[e] # "none" => TrueEnd(e, log[e])'
  BY TruthStays DEF RowsAreTrue, Spoken
<1> QED
  BY <1>1, <1>2, <1>3 DEF RowsAreTrue

LEMMA StopStays ==
  ASSUME LinkGrows, StopSound, UNCHANGED stop
  PROVE  StopSound'
  BY DEF LinkGrows, StopSound, Spoken

LEMMA ConfirmStays ==
  ASSUME LinkGrows, ConfirmSound, UNCHANGED op
  PROVE  ConfirmSound'
  BY DEF LinkGrows, ConfirmSound, Spoken

LEMMA GatewayStays ==
  ASSUME LinkGrows, GatewaySound, UNCHANGED gw
  PROVE  GatewaySound'
<1>1. ("pc" \in DOMAIN gw)' BY DEF GatewaySound
<1>2. (gw.pc = "save" => Spoken(gw.e) /\ gw.next \in Statuses /\ TrueEnd(gw.e, gw.next))'
  BY TruthStays DEF GatewaySound, Statuses
<1>3. ASSUME gw.pc = "recon", NEW e \in gw.todo
      PROVE  Spoken(e)' /\ TrueEnd(e, gw.local[e])'
  BY <1>3, TruthStays DEF GatewaySound
<1> QED
  BY <1>1, <1>2, <1>3 DEF GatewaySound, Statuses

LEMMA PilotStays ==
  ASSUME LinkGrows, PilotSound, UNCHANGED <<work, busy, live, hand, beat>>
  PROVE  PilotSound'
  BY DEF LinkGrows, PilotSound, Spoken, HandFree

LEMMA CommandsStay ==
  ASSUME LinkGrows, CommandsSound, UNCHANGED <<down, work>>
  PROVE  CommandsSound'
  BY DEF LinkGrows, CommandsSound, Spoken, Command
-----------------------------------------------------------------------------
LEMMA LinkInitGood == Init => LinkInv
  BY NoneAssumption, BudgetAssumption
  DEF Init, NoBeat, LinkInv, LinkTyped, RowsAreTrue, RunSound, StopSound, ConfirmSound,
     GatewaySound,
      CommandsSound, PilotSound, Status, Active, Terminal, Ends, Idle, HandFree, TrueEnd
-----------------------------------------------------------------------------
(* robot.run.                                                               *)


\* What robot.run changes, and that it leaves alone what is true.
LEMMA RunGrows ==
  ASSUME LinkInv, Run
  PROVE  /\ UNCHANGED <<log, vouched, stop, op, gw, up, work, busy, live, hand, beat>>
         /\ LinkTyped' /\ LinkGrows
<1> USE NoneAssumption DEF LinkInv
<1>1. UNCHANGED <<log, vouched, stop, op, gw, up, work, busy, live, hand, beat>>
  BY DEF Run, RunBegins, RunRefused, RunAdmits, RunAbandons, RunPoints, RunSends, RunRegisters,
         RunInterrupts, Spend, server, calls, wire, pilot, SetPilot
<1>2. LinkTyped'
  BY <1>1 DEF LinkTyped, Run, RunBegins, RunRefused, RunAdmits, RunAbandons, RunPoints, RunSends,
     RunRegisters, RunInterrupts, Spend, server, Status, Active, Terminal, Ends, Limits, RunSound
<1>3. /\ \A e \in Execs : exec[e] # "none" => exec'[e] # "none"
      /\ \A e \in Execs : exec[e] # "none" /\ ~Starting(e) => ~Starting(e)'
  BY <1>1 DEF LinkTyped, Run, RunBegins, RunRefused, RunAdmits, RunAbandons, RunPoints, RunSends,
     RunRegisters, RunInterrupts, Spend, server, Status, Active, Terminal, Ends, RunSound,
     Starting,
     Idle
<1>4. CASE UNCHANGED down
  <2>1. ASSUME NEW e \in Execs, NeverStarts(e), exec[e] # "none"  PROVE NeverStarts(e)'
    <3>1. Coming("start", e)' = {} BY <1>4, <2>1 DEF NeverStarts, Coming
    <3> QED BY <1>1, <1>3, <2>1, <3>1 DEF NeverStarts
  <2> QED BY <1>1, <1>2, <1>3, <2>1 DEF LinkGrows
<1>5. CASE ~UNCHANGED down
  <2>1. /\ run.pc = "pointed" /\ run.e \in Execs
        /\ down' = Append(down, [k |-> "start", e |-> run.e, n |-> 0])
    BY <1>5 DEF Run, RunBegins, RunRefused, RunAdmits, RunAbandons, RunPoints, RunSends,
       RunRegisters, RunInterrupts, Sent, wire, RunSound
  <2>2. ASSUME NEW e \in Execs, NeverStarts(e), exec[e] # "none"  PROVE NeverStarts(e)'
    <3>1. e # run.e BY <2>1, <2>2 DEF NeverStarts, Starting
    <3>2. down' \in Seq(Command) BY <2>1 DEF Command, CommandsSound
    <3>3. \A i \in 1..Len(down) : ~(down[i].k = "start" /\ down[i].e = e)
      BY <2>2, NothingComing DEF NeverStarts, CommandsSound
    <3>4. \A i \in 1..Len(down') : ~(down'[i].k = "start" /\ down'[i].e = e)
      BY <2>1, <3>1, <3>3 DEF CommandsSound
    <3>5. Coming("start", e)' = {} BY <3>2, <3>4, NothingComingNext
    <3> QED BY <1>1, <1>3, <2>2, <3>5 DEF NeverStarts
  <2> QED BY <1>1, <1>2, <1>3, <2>2 DEF LinkGrows
<1> QED BY <1>1, <1>2, <1>4, <1>5

LEMMA RunStep ==
  ASSUME LinkInv, Run
  PROVE  LinkInv'
<1> USE NoneAssumption DEF LinkInv
<1>1. /\ UNCHANGED <<log, vouched, stop, op, gw, up, work, busy, live, hand, beat>>
      /\ LinkTyped' /\ LinkGrows
  BY RunGrows
<1>2. RowsAreTrue' /\ RunSound' /\ CommandsSound'
  <2>1. ASSUME NEW e \in Execs, RunBegins(e)  PROVE RowsAreTrue' /\ RunSound' /\ CommandsSound'
    <3>1. UNCHANGED <<exec, down>> BY <2>1 DEF RunBegins, server, wire
    <3>2. RunSound' BY <1>1, <2>1, <3>1 DEF RunBegins, RunSound, Spoken, Admissions
    <3> QED BY <1>1, <3>1, <3>2, RowsStay, CommandsStay DEF RowsAreTrue
  <2>2. CASE RunRefused
    <3>1. UNCHANGED <<exec, down>> BY <2>2 DEF RunRefused, server, wire
    <3>2. RunSound' BY <1>1, <2>2, <3>1 DEF RunRefused, RunSound, Idle
    <3> QED BY <1>1, <3>1, <3>2, RowsStay, CommandsStay DEF RowsAreTrue
  <2>3. CASE RunAdmits
    <3>1. UNCHANGED down BY <2>3 DEF RunAdmits, wire
    <3>2. RunSound'
      BY <1>1, <2>3, <3>1 DEF RunAdmits, RunSound, Idle, Spoken, RowsAreTrue, CommandsSound,
         LinkTyped, Command
    <3>3. RowsAreTrue'
      <4>1. \A e \in Execs : exec'[e] = exec[e] \/ exec'[e] = "queued"
        BY <2>3 DEF RunAdmits, LinkTyped
      <4> QED BY <1>1, <4>1, TruthStays DEF RowsAreTrue, Spoken, TrueEnd, Ends
    <3> QED BY <1>1, <3>1, <3>2, <3>3, CommandsStay
  <2>4. CASE RunAbandons
    <3>1. UNCHANGED down BY <2>4 DEF RunAbandons, wire
    <3>2. RunSound' BY <1>1, <2>4, <3>1 DEF RunAbandons, RunSound, Idle
    <3>3. PICK r \in Execs : r = run.e BY <2>4 DEF RunAbandons, RunSound
    <3>4. NeverStarts(r)'
      <4>1. work'[r] = "none" /\ run' = Idle
        BY <1>1, <2>4, <3>3 DEF RunAbandons, RunSound
      <4>2. (down \in Seq(Command))' BY <3>1 DEF CommandsSound
      <4>3. \A i \in 1..Len(down') : ~(down'[i].k = "start" /\ down'[i].e = r)
        BY <2>4, <3>1, <3>3 DEF RunAbandons, RunSound
      <4>4. Coming("start", r)' = {} BY <4>2, <4>3, NothingComingNext
      <4> QED BY <4>1, <4>4 DEF NeverStarts, Starting, Idle
    <3>5. RowsAreTrue'
      <4>1. \A e \in Execs : exec'[e] = exec[e] \/ (e = r /\ exec'[e] \in {"failed", "stopped"})
        BY <2>4, <3>3 DEF RunAbandons, LinkTyped
      <4>2. \A st : \A e \in Execs : exec[e] # "none" /\ TrueEnd(e, st) => TrueEnd(e, st)'
        BY <1>1, TruthStays DEF Spoken
      <4>3. TrueEnd(r, "failed")' /\ TrueEnd(r, "stopped")'
        BY <3>4 DEF TrueEnd
      <4>4. ASSUME NEW e \in Execs  PROVE TrueEnd(e, exec[e])'
        <5>1. CASE exec'[e] = exec[e] /\ exec[e] # "none" BY <4>2, <5>1 DEF RowsAreTrue
        <5>2. CASE exec'[e] = exec[e] /\ exec[e] = "none" BY <5>2 DEF TrueEnd, Ends
        <5>3. CASE e = r /\ exec'[e] \in {"failed", "stopped"} BY <4>3, <5>3
        <5> QED BY <4>1, <5>1, <5>2, <5>3
      <4>5. \A e \in Execs : log[e] # "none" => TrueEnd(e, log[e])'
        BY <1>1, <4>2 DEF RowsAreTrue
      <4> QED BY <1>1, <4>1, <4>4, <4>5 DEF RowsAreTrue
    <3> QED BY <1>1, <3>1, <3>2, <3>5, CommandsStay
  <2>5. CASE RunPoints
    <3>1. UNCHANGED <<exec, down>> BY <2>5 DEF RunPoints, wire
    <3>2. RunSound' BY <1>1, <2>5, <3>1 DEF RunPoints, RunSound, Spoken
    <3> QED BY <1>1, <3>1, <3>2, RowsStay, CommandsStay DEF RowsAreTrue
  <2>6. CASE RunSends
    <3>1. RunSound' BY <1>1, <2>6 DEF RunSends, RunSound
    <3>2. RowsAreTrue'
      <4>1. \A e \in Execs : exec'[e] = exec[e] \/ exec'[e] = "interrupted"
        BY <2>6 DEF RunSends, LinkTyped
      <4> QED BY <1>1, <4>1, TruthStays DEF RowsAreTrue, Spoken, TrueEnd, Ends
    <3>3. CASE UNCHANGED down
      BY <1>1, <3>1, <3>2, <3>3, CommandsStay
    <3>4. CASE down' = Append(down, [k |-> "start", e |-> run.e, n |-> 0])
      <4>1. CommandsSound'
        BY <1>1, <2>6, <3>4 DEF RunSends, CommandsSound, RunSound, Spoken, LinkGrows, Command
      <4> QED BY <3>1, <3>2, <4>1
    <3> QED BY <2>6, <3>3, <3>4 DEF RunSends, Sent
  <2>7. CASE RunRegisters
    <3>1. UNCHANGED <<exec, down>> BY <2>7 DEF RunRegisters, server, wire
    <3>2. RunSound' BY <1>1, <2>7, <3>1 DEF RunRegisters, RunSound, Idle
    <3> QED BY <1>1, <3>1, <3>2, RowsStay, CommandsStay DEF RowsAreTrue
  <2>8. CASE RunInterrupts
    <3>1. UNCHANGED <<exec, down>> BY <2>8 DEF RunInterrupts, wire
    <3>2. RunSound' BY <1>1, <2>8, <3>1 DEF RunInterrupts, RunSound, Idle
    <3> QED BY <1>1, <3>1, <3>2, RowsStay, CommandsStay DEF RowsAreTrue
  <2> QED BY <2>1, <2>2, <2>3, <2>4, <2>5, <2>6, <2>7, <2>8 DEF Run
<1> QED BY <1>1, <1>2, StopStays, ConfirmStays, GatewayStays, UpStays, PilotStays
-----------------------------------------------------------------------------
(* robot.stop.                                                              *)

LEMMA StopGrows ==
  ASSUME LinkInv, Stop
  PROVE  /\ UNCHANGED <<log, vouched, run, op, gw, up, work, busy, live, hand, beat>>
         /\ LinkTyped' /\ LinkGrows
<1> USE DEF LinkInv
<1>1. UNCHANGED <<log, vouched, run, op, gw, up, work, busy, live, hand, beat>>
  BY DEF Stop, StopReads, StopSaves, StopSends, StopRegisters, Spend, server, wire, pilot
<1>2. LinkTyped'
  BY <1>1 DEF LinkTyped, Stop, StopReads, StopSaves, StopSends, StopRegisters, Spend, server,
     Status, Active, Terminal, Ends, Limits, StopSound
<1>3. \A e \in Execs : exec[e] # "none" => exec'[e] # "none"
  BY <1>1 DEF LinkTyped, Stop, StopReads, StopSaves, StopSends, StopRegisters, Spend, server
<1>4. ASSUME NEW e \in Execs, NeverStarts(e)  PROVE NeverStarts(e)'
  <2>1. CASE UNCHANGED down
    <3>1. Coming("start", e)' = {} BY <1>4, <2>1 DEF NeverStarts, Coming
    <3> QED BY <1>1, <1>4, <3>1 DEF NeverStarts, Starting
  <2>2. CASE ~UNCHANGED down
    <3>1. /\ stop.e \in Execs /\ stop.n \in Nat
          /\ down' = Append(down, [k |-> "stop", e |-> stop.e, n |-> stop.n])
      BY <2>2 DEF Stop, StopReads, StopSaves, StopSends, StopRegisters, Sent, wire, StopSound,
         Spoken
    <3>2. (down \in Seq(Command))' BY <3>1 DEF Command, CommandsSound
    <3>3. \A i \in 1..Len(down) : ~(down[i].k = "start" /\ down[i].e = e)
      BY <1>4, NothingComing DEF NeverStarts, CommandsSound
    <3>4. \A i \in 1..Len(down') : ~(down'[i].k = "start" /\ down'[i].e = e)
      BY <3>1, <3>3 DEF CommandsSound
    <3>5. Coming("start", e)' = {} BY <3>2, <3>4, NothingComingNext
    <3> QED BY <1>1, <1>4, <3>5 DEF NeverStarts, Starting
  <2> QED BY <2>1, <2>2
<1> QED BY <1>1, <1>2, <1>3, <1>4 DEF LinkGrows

LEMMA StopStep ==
  ASSUME LinkInv, Stop
  PROVE  LinkInv'
<1> USE DEF LinkInv
<1>1. /\ UNCHANGED <<log, vouched, run, op, gw, up, work, busy, live, hand, beat>>
      /\ LinkTyped' /\ LinkGrows
  BY StopGrows
<1>2. RunSound'
  BY <1>1 DEF Stop, StopReads, StopSaves, StopSends, StopRegisters, RunSound, Admissions
<1>3. RowsAreTrue'
  <2>1. \A e \in Execs : exec'[e] = exec[e] \/ exec'[e] \in {"stopping", "interrupted"}
    BY DEF Stop, StopReads, StopSaves, StopSends, StopRegisters, LinkTyped, server
  <2> QED BY <1>1, <2>1, TruthStays DEF RowsAreTrue, Spoken, TrueEnd, Ends
<1>4. StopSound'
  <2>1. ASSUME NEW e \in Execs, StopReads(e)  PROVE StopSound'
    <3>1. left["ask"] \in Nat BY DEF LinkTyped, Limits
    <3> QED BY <2>1, <3>1 DEF StopReads, StopSound, Stoppable, Spoken, Active, Spend, server
  <2>2. CASE StopSaves BY <1>1, <2>2 DEF StopSaves, StopSound, Spoken, LinkGrows
  <2>3. CASE StopSends BY <1>1, <2>3 DEF StopSends, StopSound, Spoken, LinkGrows
  <2>4. CASE StopRegisters BY <2>4 DEF StopRegisters, StopSound
  <2> QED BY <2>1, <2>2, <2>3, <2>4 DEF Stop
<1>5. CommandsSound'
  <2>1. CASE UNCHANGED down BY <1>1, <2>1, CommandsStay
  <2>2. CASE ~UNCHANGED down
    <3>1. /\ Spoken(stop.e) /\ stop.n \in Nat \ {0}
          /\ down' = Append(down, [k |-> "stop", e |-> stop.e, n |-> stop.n])
      BY <2>2 DEF Stop, StopReads, StopSaves, StopSends, StopRegisters, Sent, wire, StopSound
    <3> QED BY <1>1, <3>1 DEF CommandsSound, Spoken, LinkGrows, Command
  <2> QED BY <2>1, <2>2
<1> QED BY <1>1, <1>2, <1>3, <1>4, <1>5, ConfirmStays, GatewayStays, UpStays, PilotStays
-----------------------------------------------------------------------------
(* Confirmations, registrations and a crash of the Server.                  *)

LEMMA ConfirmStep ==
  ASSUME LinkInv, Confirm
  PROVE  LinkInv'
<1> USE DEF LinkInv
<1>1. UNCHANGED <<log, run, stop, gw, up, down, work, busy, live, hand, beat>>
  BY DEF Confirm, ConfirmReads, ConfirmSaves, ConfirmReleases, Spend, server, wire, pilot
<1>2. LinkTyped'
  BY <1>1 DEF LinkTyped, Confirm, ConfirmReads, ConfirmSaves, ConfirmReleases, Spend, server,
     Status, Active, Terminal, Ends, Limits, ConfirmSound
<1>3. /\ vouched \subseteq vouched'
      /\ \A e \in Execs : exec'[e] = exec[e] \/ (exec[e] # "none" /\ exec'[e] = "stopped" /\ Vouched(e)')
  BY DEF Confirm, ConfirmReads, ConfirmSaves, ConfirmReleases, server, LinkTyped, ConfirmSound,
     Spoken, Vouched
<1>4. LinkGrows
  <2>1. ASSUME NEW e \in Execs, NeverStarts(e)  PROVE NeverStarts(e)'
    <3>1. Coming("start", e)' = {} BY <1>1, <2>1 DEF NeverStarts, Coming
    <3> QED BY <1>1, <2>1, <3>1 DEF NeverStarts, Starting
  <2> QED BY <1>1, <1>3, <2>1 DEF LinkGrows
<1>5. RunSound' BY <1>1, <1>3 DEF RunSound, Spoken
<1>6. RowsAreTrue'
  <2>1. \A st : \A e \in Execs : exec[e] # "none" /\ TrueEnd(e, st) => TrueEnd(e, st)'
    BY <1>4, TruthStays DEF Spoken
  <2>2. ASSUME NEW e \in Execs  PROVE TrueEnd(e, exec[e])'
    <3>1. CASE exec'[e] = exec[e] /\ exec[e] # "none" BY <2>1, <3>1 DEF RowsAreTrue
    <3>2. CASE exec'[e] = exec[e] /\ exec[e] = "none" BY <3>2 DEF TrueEnd, Ends
    <3>3. CASE Vouched(e)' BY <3>3 DEF TrueEnd
    <3> QED BY <1>3, <3>1, <3>2, <3>3
  <2>3. \A e \in Execs : log[e] # "none" => TrueEnd(e, log[e])'
    BY <1>1, <2>1 DEF RowsAreTrue
  <2> QED BY <1>1, <1>3, <2>2, <2>3 DEF RowsAreTrue
<1>7. ConfirmSound'
  <2>1. ASSUME NEW e \in Execs, ConfirmReads(e)  PROVE ConfirmSound'
    BY <2>1 DEF ConfirmReads, ConfirmSound, Vouchable, Spoken, Active, Spend, server
  <2>2. CASE ConfirmSaves BY <1>4, <2>2 DEF ConfirmSaves, ConfirmSound, Spoken, LinkGrows
  <2>3. CASE ConfirmReleases BY <2>3 DEF ConfirmReleases, ConfirmSound, Idle
  <2> QED BY <2>1, <2>2, <2>3 DEF Confirm
<1> QED
  BY <1>1, <1>2, <1>4, <1>5, <1>6, <1>7, StopStays, GatewayStays, UpStays, PilotStays,
     CommandsStay

LEMMA ConnectStep ==
  ASSUME LinkInv, Connect
  PROVE  LinkInv'
<1> USE DEF LinkInv
<1>1. /\ UNCHANGED <<exec, log, vouched, stop, op, gw, up, work, busy, live, hand, beat, left>>
      /\ \/ UNCHANGED down
         \/ down' = Append(down, [k |-> "recon", e |-> None, n |-> 0])
      /\ \/ UNCHANGED run
         \/ run.pc = "validating" /\ run' = [run EXCEPT !.pc = "closed"]
  BY DEF Connect, ConnectReads, ConnectInstalls, ConnectSaves, server, calls, wire, pilot
<1>2. LinkTyped' BY <1>1 DEF LinkTyped
<1>3. CommandsSound' /\ \A e \in Execs : NeverStarts(e) => NeverStarts(e)'
  <2>1. ASSUME NEW e \in Execs, ~Starting(e)  PROVE ~Starting(e)'
    BY <1>1, <2>1 DEF Starting, RunSound
  <2>2. CASE UNCHANGED down
    <3>1. ASSUME NEW e \in Execs, NeverStarts(e)  PROVE NeverStarts(e)'
      <4>1. Coming("start", e)' = {} BY <2>2, <3>1 DEF NeverStarts, Coming
      <4> QED BY <1>1, <2>1, <3>1, <4>1 DEF NeverStarts
    <3> QED BY <1>1, <2>2, <3>1 DEF CommandsSound, Command, Spoken
  <2>3. CASE down' = Append(down, [k |-> "recon", e |-> None, n |-> 0])
    <3>1. CommandsSound' BY <1>1, <2>3 DEF CommandsSound, Spoken, Command
    <3>2. ASSUME NEW e \in Execs, NeverStarts(e)  PROVE NeverStarts(e)'
      <4>1. \A i \in 1..Len(down) : ~(down[i].k = "start" /\ down[i].e = e)
        BY <3>2, NothingComing DEF NeverStarts, CommandsSound
      <4>2. \A i \in 1..Len(down') : ~(down'[i].k = "start" /\ down'[i].e = e)
        BY <2>3, <4>1 DEF CommandsSound
      <4>3. Coming("start", e)' = {} BY <3>1, <4>2, NothingComingNext DEF CommandsSound
      <4> QED BY <1>1, <2>1, <3>2, <4>3 DEF NeverStarts
    <3> QED BY <3>1, <3>2
  <2> QED BY <1>1, <2>2, <2>3
<1>4. LinkGrows BY <1>1, <1>3 DEF LinkGrows
<1>5. RunSound'
  <2>1. CASE UNCHANGED down BY <1>1, <2>1 DEF RunSound, Spoken
  <2>2. CASE down' = Append(down, [k |-> "recon", e |-> None, n |-> 0])
    BY <1>1, <2>2, NoneAssumption DEF RunSound, Spoken, CommandsSound
  <2> QED BY <1>1, <2>1, <2>2
<1>6. RowsAreTrue' BY <1>1, <1>4, RowsStay DEF RowsAreTrue
<1> QED
  BY <1>1, <1>2, <1>3, <1>4, <1>5, <1>6, StopStays, ConfirmStays, GatewayStays, UpStays,
     PilotStays

\* A crash loses everything that was about to be written.
LEMMA CrashStep ==
  ASSUME LinkInv, ServerCrashes
  PROVE  LinkInv'
<1> USE DEF LinkInv
<1>1. /\ UNCHANGED <<exec, log, vouched, work, busy, live, hand, beat>>
      /\ run' = Idle /\ stop' = [pc |-> "idle", e |-> None, n |-> 0] /\ op' = Idle
      /\ gw' = [pc |-> "idle"] /\ down' = <<>> /\ up' = <<>>
  BY DEF ServerCrashes, server, pilot
<1>2. LinkTyped' BY <1>1 DEF LinkTyped, ServerCrashes, Spend, Limits
<1>3. LinkGrows
  <2>1. ASSUME NEW e \in Execs, NeverStarts(e)  PROVE NeverStarts(e)'
    <3>1. Coming("start", e)' = {} BY <1>1 DEF Coming
    <3> QED BY <1>1, <2>1, <3>1 DEF NeverStarts, Starting, Idle
  <2> QED BY <1>1, <2>1 DEF LinkGrows
<1>4. RowsAreTrue' BY <1>1, <1>3, RowsStay DEF RowsAreTrue
<1>5. PilotSound' BY <1>1, <1>3, PilotStays
<1> QED
  BY <1>1, <1>2, <1>4, <1>5
  DEF RunSound, StopSound, ConfirmSound, GatewaySound, CommandsSound, Idle
-----------------------------------------------------------------------------
(* The gateway goroutine.                                                   *)

\* What is taken from the Pilot is a true message.
LEMMA Received ==
  ASSUME LinkInv, NEW k, Receives(k)
  PROVE  /\ Head(up) \in Message /\ Sound(Head(up)) /\ Head(up).k = k
         /\ up # <<>> /\ up' = Tail(up)
<1>1. up \in Seq(SoundMessages) /\ up # <<>> BY DEF LinkInv, Receives
<1>2. Head(up) \in SoundMessages BY <1>1, HeadTailProperties
<1> QED BY <1>1, <1>2 DEF SoundMessages, Receives

\* What the gateway leaves in its own variable is true if nothing but log changes.
LEMMA EventSound ==
  ASSUME LinkInv, GatewayEvent
  PROVE  /\ gw'.pc = "save" /\ "pc" \in DOMAIN gw'
         /\ Spoken(gw'.e) /\ gw'.next \in Statuses /\ TrueEnd(gw'.e, gw'.next)
         /\ \A e \in Execs : \/ log'[e] = log[e]
                             \/ /\ exec[e] # "none" /\ log'[e] \in Statuses
                                /\ TrueEnd(e, log'[e])
         /\ log' \in [Execs -> Status]
<1> DEFINE m == Head(up)
<1>1. /\ m.e \in Execs /\ m.st \in Statuses /\ exec[m.e] # "none" /\ TrueEnd(m.e, m.st)
  BY Received DEF GatewayEvent, Message, Sound, Spoken
<1>2. /\ log' = IF m.terminal THEN [log EXCEPT ![m.e] = m.st] ELSE log
      /\ gw' = [pc |-> "save", e |-> m.e, next |-> Projected(exec[m.e], m.st), own |-> FALSE]
  BY DEF GatewayEvent
<1> HIDE DEF m
<1>3. exec[m.e] \in Statuses /\ TrueEnd(m.e, exec[m.e])
  BY <1>1 DEF LinkInv, LinkTyped, RowsAreTrue, Statuses
<1>4. \/ Projected(exec[m.e], m.st) = exec[m.e]
      \/ Projected(exec[m.e], m.st) = m.st
  BY DEF Projected
<1>5. log \in [Execs -> Status] BY DEF LinkInv, LinkTyped
<1> QED BY <1>1, <1>2, <1>3, <1>4, <1>5 DEF Spoken, Statuses

LEMMA AckSound ==
  ASSUME LinkInv, GatewayAck
  PROVE  \/ UNCHANGED gw
         \/ /\ gw'.pc = "save" /\ "pc" \in DOMAIN gw'
            /\ Spoken(gw'.e) /\ gw'.next \in Statuses /\ TrueEnd(gw'.e, gw'.next)
<1> DEFINE m == Head(up)
<1>1. /\ m.e \in Execs /\ exec[m.e] # "none" /\ (m.n = 0 => m.ok \/ TrueEnd(m.e, "failed"))
  BY Received DEF GatewayAck, Message, Sound, Spoken
<1>2. \/ UNCHANGED gw
      \/ ~m.ok /\ gw' = [pc |-> "save", e |-> m.e, next |-> Refusal(m), own |-> TRUE]
  BY DEF GatewayAck
<1> HIDE DEF m
<1>3. ~m.ok => Refusal(m) \in Statuses /\ TrueEnd(m.e, Refusal(m))
  BY <1>1 DEF Refusal, TrueEnd, Ends, Statuses, Status, Active, Terminal
<1> QED BY <1>1, <1>2, <1>3 DEF Spoken

\* What Reconcile writes of an Execution is true: the logged end, the status it read, or
\* one that is no end.
LEMMA ReconciledSound ==
  ASSUME LinkInv, gw.pc = "recon", NEW e \in gw.todo
  PROVE  Spoken(e) /\ Reconciled(e) \in Statuses /\ TrueEnd(e, Reconciled(e))
<1>1. /\ Spoken(e) /\ gw.local[e] \in Statuses /\ TrueEnd(e, gw.local[e])
      /\ gw.remote[e] \in Status \ Ends
  BY DEF LinkInv, GatewaySound
<1>2. Recovered(e) \in Statuses /\ TrueEnd(e, Recovered(e))
  BY <1>1 DEF Recovered, LinkInv, LinkTyped, RowsAreTrue, Spoken, Statuses
<1> QED
  BY <1>1, <1>2
  DEF Reconciled, TrueEnd, Statuses, Status, Active, Terminal, Ends

LEMMA GatewayFrame ==
  ASSUME LinkInv, Gateway
  PROVE  /\ UNCHANGED <<vouched, stop, op, down, work, busy, live, hand, beat, left>>
         /\ UNCHANGED up \/ (up # <<>> /\ up' = Tail(up))
         /\ UNCHANGED run \/ (run.pc = "validating" /\ run' = [run EXCEPT !.pc = "closed"])
<1>1. CASE GatewayEvent BY <1>1 DEF GatewayEvent, Receives, calls, pilot
<1>2. CASE GatewayAck BY <1>2 DEF GatewayAck, Receives, server, calls, pilot
<1>3. CASE GatewaySaves BY <1>3 DEF GatewaySaves, calls, wire, pilot
<1>4. CASE GatewayPoints BY <1>4 DEF GatewayPoints, calls, wire, pilot
<1>5. CASE GatewayBeat BY <1>5 DEF GatewayBeat, Receives, server, calls, pilot
<1>6. CASE GatewayLeaves BY <1>6 DEF GatewayLeaves, server, wire, pilot
<1>7. CASE GatewaySavesRow BY <1>7 DEF GatewaySavesRow, calls, wire, pilot
<1>8. CASE GatewayReconciles BY <1>8 DEF GatewayReconciles, Receives, server, calls, pilot
<1>9. ASSUME NEW e \in Execs, ReconcileOne(e)
      PROVE  /\ UNCHANGED <<vouched, stop, op, down, work, busy, live, hand, beat, left>>
             /\ UNCHANGED up /\ UNCHANGED run
  BY <1>9 DEF ReconcileOne, calls, wire, pilot
<1>10. CASE ReconcileEnds BY <1>10 DEF ReconcileEnds, calls, wire, pilot
<1> QED BY <1>1, <1>2, <1>3, <1>4, <1>5, <1>6, <1>7, <1>8, <1>9, <1>10 DEF Gateway

\* The rows and the log change only to what is true.
LEMMA GatewayWrites ==
  ASSUME LinkInv, Gateway
  PROVE  /\ exec' \in [Execs -> Status] /\ log' \in [Execs -> Status]
         /\ \A e \in Execs :
              /\ \/ exec'[e] = exec[e]
                 \/ exec[e] # "none" /\ exec'[e] \in Statuses /\ TrueEnd(e, exec'[e])
              /\ \/ log'[e] = log[e]
                 \/ exec[e] # "none" /\ log'[e] \in Statuses /\ TrueEnd(e, log'[e])
<1>0. exec \in [Execs -> Status] /\ log \in [Execs -> Status] BY DEF LinkInv, LinkTyped
<1>1. CASE UNCHANGED <<exec, log>> BY <1>0, <1>1
<1>2. CASE GatewayEvent
  <2>1. UNCHANGED exec BY <1>2 DEF GatewayEvent
  <2> QED BY <1>0, <1>2, <2>1, EventSound
<1>3. CASE GatewaySaves
  <2>1. /\ Spoken(gw.e) /\ gw.next \in Statuses /\ TrueEnd(gw.e, gw.next)
        /\ exec' = [exec EXCEPT ![gw.e] = gw.next] /\ UNCHANGED log
    BY <1>3 DEF GatewaySaves, LinkInv, GatewaySound
  <2> QED BY <1>0, <2>1 DEF Spoken, Statuses
<1>4. ASSUME NEW e \in Execs, ReconcileOne(e)
      PROVE  UNCHANGED log /\ (UNCHANGED exec \/ exec' = [exec EXCEPT ![e] = Reconciled(e)])
             /\ Spoken(e) /\ Reconciled(e) \in Statuses /\ TrueEnd(e, Reconciled(e))
  BY <1>4, ReconciledSound DEF ReconcileOne
<1>5. UNCHANGED <<exec, log>> \/ GatewayEvent \/ GatewaySaves \/ \E e \in Execs : ReconcileOne(e)
  BY DEF Gateway, GatewayAck, GatewayPoints, GatewayBeat, GatewayLeaves, GatewaySavesRow,
         GatewayReconciles, ReconcileEnds, server
<1>6. ASSUME NEW e \in Execs, ReconcileOne(e)
      PROVE  /\ exec' \in [Execs -> Status] /\ log' \in [Execs -> Status]
             /\ \A f \in Execs :
                  /\ \/ exec'[f] = exec[f]
                     \/ exec[f] # "none" /\ exec'[f] \in Statuses /\ TrueEnd(f, exec'[f])
                  /\ log'[f] = log[f]
  BY <1>0, <1>4, <1>6 DEF Spoken, Statuses
<1> QED BY <1>1, <1>2, <1>3, <1>5, <1>6

LEMMA GatewayGrows ==
  ASSUME LinkInv, Gateway
  PROVE  LinkGrows
<1>1. ASSUME NEW e \in Execs, NeverStarts(e)  PROVE NeverStarts(e)'
  <2>1. Coming("start", e)' = {} BY <1>1, GatewayFrame DEF NeverStarts, Coming
  <2>2. ~Starting(e)' BY <1>1, GatewayFrame DEF NeverStarts, Starting, LinkInv, RunSound
  <2> QED BY <1>1, <2>1, <2>2, GatewayFrame DEF NeverStarts
<1> QED BY <1>1, GatewayFrame, GatewayWrites DEF LinkGrows, Statuses

LEMMA GatewayHolds ==
  ASSUME LinkInv, Gateway
  PROVE  GatewaySound'
<1> USE DEF LinkInv
<1>0. LinkGrows BY GatewayGrows
<1>1. CASE /\ gw'.pc = "save" /\ "pc" \in DOMAIN gw'
           /\ Spoken(gw'.e) /\ gw'.next \in Statuses /\ TrueEnd(gw'.e, gw'.next)
  BY <1>0, <1>1, TruthStays DEF GatewaySound, Statuses
<1>2. CASE UNCHANGED gw BY <1>0, <1>2, GatewayStays
<1>3. CASE "pc" \in DOMAIN gw' /\ gw'.pc \notin {"save", "recon"}
  BY <1>3 DEF GatewaySound
<1>4. CASE GatewayReconciles
  <2> DEFINE m == Head(up)
  <2>1. m.remote \in [Execs -> Status] /\ \A e \in Execs : m.remote[e] \notin Ends
    BY <1>4, Received DEF GatewayReconciles, Message, Sound
  <2>2. /\ gw' = [pc |-> "recon", row |-> row, local |-> exec, remote |-> m.remote,
                  todo |-> {e \in Execs : exec[e] # "none"}, free |-> None]
        /\ UNCHANGED exec
    BY <1>4 DEF GatewayReconciles, server
  <2> HIDE DEF m
  <2>3. \A e \in Execs : exec[e] # "none" =>
          Spoken(e) /\ exec[e] \in Statuses /\ TrueEnd(e, exec[e])
    BY DEF LinkTyped, RowsAreTrue, Spoken, Statuses
  <2>4. \A e \in Execs : exec[e] # "none" => Spoken(e)' /\ TrueEnd(e, exec[e])'
    BY <1>0, <2>2, <2>3, TruthStays
  <2> QED BY <2>1, <2>2, <2>3, <2>4 DEF GatewaySound, Statuses
<1>5. ASSUME NEW e \in Execs, ReconcileOne(e)  PROVE GatewaySound'
  <2>1. /\ gw.pc = "recon"
        /\ \E f : gw' = [gw EXCEPT !.todo = @ \ {e}, !.free = f]
    BY <1>5 DEF ReconcileOne
  <2>2. DOMAIN gw = {"pc", "row", "local", "remote", "todo", "free"}
    BY <2>1 DEF GatewaySound
  <2>3. /\ DOMAIN gw' = DOMAIN gw /\ gw'.pc = "recon" /\ gw'.local = gw.local
        /\ gw'.remote = gw.remote /\ gw'.todo \subseteq gw.todo
    BY <2>1, <2>2
  <2>4. \A f \in gw.todo : Spoken(f)' /\ TrueEnd(f, gw.local[f])'
    <3>1. \A f \in gw.todo : Spoken(f) /\ TrueEnd(f, gw.local[f])
      BY <2>1 DEF GatewaySound
    <3>2. \A f, st : Spoken(f) /\ TrueEnd(f, st) => Spoken(f)' /\ TrueEnd(f, st)'
      BY <1>0, TruthStays
    <3> QED BY <2>3, <3>1, <3>2
  <2> QED BY <2>1, <2>2, <2>3, <2>4 DEF GatewaySound, Statuses
<1>6. \/ UNCHANGED gw
      \/ "pc" \in DOMAIN gw' /\ gw'.pc \notin {"save", "recon"}
      \/ GatewayEvent \/ GatewayAck \/ GatewayReconciles \/ \E e \in Execs : ReconcileOne(e)
  BY DEF Gateway, GatewaySaves, GatewayPoints, GatewayBeat, GatewayLeaves, GatewaySavesRow,
         ReconcileEnds, GatewaySound
<1> QED BY <1>1, <1>2, <1>3, <1>4, <1>5, <1>6, EventSound, AckSound

LEMMA GatewayStep ==
  ASSUME LinkInv, Gateway
  PROVE  LinkInv'
<1> USE DEF LinkInv
<1>1. LinkGrows BY GatewayGrows
<1>2. LinkTyped' BY GatewayFrame, GatewayWrites DEF LinkTyped
<1>3. RunSound'
  <2>1. \A e \in Execs : (exec[e] # "none" <=> exec'[e] # "none")
    BY <1>1, GatewayWrites DEF LinkGrows
  <2> QED BY <2>1, GatewayFrame DEF RunSound, Spoken
<1>4. RowsAreTrue'
  <2>1. \A st : \A e \in Execs : exec[e] # "none" /\ TrueEnd(e, st) => TrueEnd(e, st)'
    BY <1>1, TruthStays DEF Spoken
  <2>2. ASSUME NEW e \in Execs  PROVE TrueEnd(e, exec[e])'
    <3>1. CASE exec[e] # "none" BY <2>1, <3>1, GatewayWrites DEF RowsAreTrue
    <3>2. CASE exec'[e] = exec[e] /\ exec[e] = "none" BY <3>2 DEF TrueEnd, Ends
    <3> QED BY <3>1, <3>2, GatewayWrites
  <2>3. \A e \in Execs : log'[e] # "none" => exec[e] # "none" /\ TrueEnd(e, log[e])'
    BY <2>1, GatewayWrites DEF RowsAreTrue
  <2> QED BY <1>1, <2>2, <2>3, GatewayFrame DEF RowsAreTrue, LinkGrows
<1>5. up' \in Seq(SoundMessages') BY <1>1, UpStays, UpTaken, GatewayFrame
<1> QED
  BY <1>1, <1>2, <1>3, <1>4, <1>5, GatewayHolds, GatewayFrame, StopStays, ConfirmStays,
     PilotStays,
     CommandsStay
-----------------------------------------------------------------------------
(* The Pilot.                                                               *)

\* What the Pilot leaves alone, how it takes commands, and what becomes of its records.
LEMMA PilotFrame ==
  ASSUME LinkInv, Pilot
  PROVE  /\ UNCHANGED <<exec, log, vouched, run, stop, op, gw>>
         /\ work' \in [Execs -> Status \ {"queued"}] /\ left' \in [Limits -> Nat]
         /\ UNCHANGED down \/ down' = <<>> \/ (down # <<>> /\ down' = Tail(down))
         /\ \A e \in Execs :
              \/ work'[e] = work[e]
              \/ work[e] \in {"running", "stopping", "interrupted"} /\ work'[e] # "none"
              \/ /\ work[e] = "none" /\ work'[e] # "none" /\ down # <<>> /\ down' = Tail(down)
                 /\ Head(down).k = "start" /\ Head(down).e = e
<1> DEFINE Kept == /\ UNCHANGED <<exec, log, vouched, run, stop, op, gw>>
                   /\ left' \in [Limits -> Nat]
           Moved == /\ work' \in [Execs -> Status \ {"queued"}]
                    /\ \A e \in Execs :
                         \/ work'[e] = work[e]
                         \/ work[e] \in {"running", "stopping", "interrupted"} /\ work'[e] # "none"
                         \/ /\ work[e] = "none" /\ work'[e] # "none"
                            /\ down # <<>> /\ down' = Tail(down)
                            /\ Head(down).k = "start" /\ Head(down).e = e
<1>0. /\ work \in [Execs -> Status \ {"queued"}] /\ left \in [Limits -> Nat]
  BY DEF LinkInv, LinkTyped
<1>1. ASSUME down # <<>>
      PROVE  /\ down \in Seq(Command) /\ Head(down) = down[1] /\ 1 \in 1..Len(down)
             /\ Head(down).k = "start" => work[Head(down).e] = "none"
  BY <1>1 DEF LinkInv, CommandsSound
<1>2. Kept
  <2> USE <1>0 DEF Spend, Limits, server, calls
  <2>1. CASE PilotStarts BY <2>1 DEF PilotStarts
  <2>2. CASE PilotAccepts BY <2>2 DEF PilotAccepts
  <2>3. CASE PilotStops BY <2>3 DEF PilotStops
  <2>4. CASE PilotHalts BY <2>4 DEF PilotHalts
  <2>5. CASE PilotReconciles BY <2>5 DEF PilotReconciles
  <2>6. ASSUME NEW e \in Execs, WorkerEnds(e)  PROVE Kept BY <2>6 DEF WorkerEnds
  <2>7. CASE BeatReads BY <2>7 DEF BeatReads
  <2>8. CASE BeatWrites BY <2>8 DEF BeatWrites
  <2>9. CASE LinkDrops BY <2>9 DEF LinkDrops
  <2>10. CASE PilotDials BY <2>10 DEF PilotDials
  <2>11. CASE PilotReboots BY <2>11 DEF PilotReboots
  <2> HIDE DEF Kept
  <2> QED BY <2>1, <2>2, <2>3, <2>4, <2>5, <2>6, <2>7, <2>8, <2>9, <2>10, <2>11 DEF Pilot
<1>3. UNCHANGED down \/ down' = <<>> \/ (down # <<>> /\ down' = Tail(down))
  BY DEF Pilot, PilotStarts, PilotAccepts, PilotStops, PilotHalts, PilotReconciles, WorkerEnds,
         BeatReads, BeatWrites, LinkDrops, PilotDials, PilotReboots, Takes, wire
<1>4. Moved
  <2> USE <1>0 DEF Status, Active, Terminal, Ends
  <2>1. CASE PilotStarts BY <1>1, <2>1 DEF PilotStarts, Takes
  <2>2. CASE PilotStops
    <3> DEFINE r == Head(down).e
    <3>1. \/ UNCHANGED work
          \/ work[r] \notin Ends \cup {"none"} /\ work' = [work EXCEPT ![r] = "interrupted"]
          \/ work[r] \notin Ends /\ r \in live /\ work' = [work EXCEPT ![r] = "stopping"]
      BY <2>2 DEF PilotStops
    <3>2. \A e \in live : e \in Execs /\ work[e] # "none" BY DEF LinkInv, PilotSound
    <3> HIDE DEF r
    <3> QED BY <3>1, <3>2
  <2>3. CASE PilotHalts
    <3>1. work[hand.e] = "stopping" BY <2>3 DEF PilotHalts, LinkInv, PilotSound, HandFree
    <3>2. \/ work' = [work EXCEPT ![hand.e] = "stopped"]
          \/ work' = [work EXCEPT ![hand.e] = "interrupted"]
      BY <2>3 DEF PilotHalts
    <3> QED BY <3>1, <3>2
  <2>4. ASSUME NEW e \in Execs, WorkerEnds(e)  PROVE Moved BY <2>4 DEF WorkerEnds
  <2>5. CASE PilotReboots BY <2>5 DEF PilotReboots
  <2>6. CASE UNCHANGED work BY <2>6
  <2> HIDE DEF Moved
  <2> QED
    BY <2>1, <2>2, <2>3, <2>4, <2>5, <2>6
    DEF Pilot, PilotAccepts, PilotReconciles, BeatReads, BeatWrites, LinkDrops, PilotDials, pilot
<1> QED BY <1>2, <1>3, <1>4

\* Where commands go from the Pilot's point of view: those left are commands it had.
LEMMA CommandsLeft ==
  ASSUME LinkInv, Pilot
  PROVE  /\ down' \in Seq(Command)
         /\ \E d \in {0, 1} :
              /\ \A i \in 1..Len(down') : i + d \in 1..Len(down) /\ down'[i] = down[i + d]
              /\ down # <<>> /\ down' = Tail(down) => d = 1
<1>1. down \in Seq(Command) BY DEF LinkInv, CommandsSound
<1>2. CASE down # <<>> /\ down' = Tail(down) BY <1>1, <1>2
<1>3. CASE (UNCHANGED down \/ down' = <<>>) /\ ~(down # <<>> /\ down' = Tail(down))
  <2>1. \A i \in 1..Len(down') : i + 0 \in 1..Len(down) /\ down'[i] = down[i + 0]
    BY <1>1, <1>3
  <2>2. CASE UNCHANGED down BY <1>1, <2>2
  <2>3. CASE down' = <<>> BY <2>3
  <2> QED BY <1>3, <2>1, <2>2, <2>3
<1> QED BY <1>2, <1>3, PilotFrame

LEMMA PilotGrows ==
  ASSUME LinkInv, Pilot
  PROVE  /\ LinkGrows /\ CommandsSound' /\ RunSound'
         /\ \A e \in Execs : work'[e] # "none" => exec[e] # "none"
<1> USE DEF LinkInv
<1>0. PICK d \in {0, 1} :
           /\ \A i \in 1..Len(down') : i + d \in 1..Len(down) /\ down'[i] = down[i + d]
           /\ down # <<>> /\ down' = Tail(down) => d = 1
  BY CommandsLeft
<1>1. down \in Seq(Command) /\ down' \in Seq(Command) BY CommandsLeft DEF CommandsSound
<1>2. ASSUME NEW e \in Execs, work[e] = "none", work'[e] # "none"
      PROVE  /\ d = 1 /\ 1 \in 1..Len(down) /\ down[1].k = "start" /\ down[1].e = e
             /\ exec[e] # "none" /\ ~Starting(e)
             /\ \A i \in 1..Len(down') : ~(down'[i].e = e /\ down'[i].k = "start")
  <2>1. /\ d = 1 /\ 1 \in 1..Len(down) /\ down[1].k = "start" /\ down[1].e = e
    BY <1>0, <1>1, <1>2, PilotFrame
  <2>2. exec[e] # "none" /\ ~Starting(e)
    BY <2>1 DEF CommandsSound, RunSound, Starting, Spoken
  <2>3. \A i \in 1..Len(down') : ~(down'[i].e = e /\ down'[i].k = "start")
    <3> SUFFICES ASSUME NEW i \in 1..Len(down'), down'[i].e = e, down'[i].k = "start"  PROVE FALSE
      OBVIOUS
    <3>1. i + 1 \in 1..Len(down) /\ down[i + 1].e = e /\ down[i + 1].k = "start" BY <1>0, <2>1
    <3>2. i + 1 <= 1 BY <2>1, <3>1 DEF CommandsSound
    <3> QED BY <3>2, <1>1
  <2> QED BY <2>1, <2>2, <2>3
<1>3. ASSUME NEW e \in Execs, NeverStarts(e)  PROVE NeverStarts(e)'
  <2>1. \A i \in 1..Len(down) : ~(down[i].k = "start" /\ down[i].e = e)
    BY <1>1, <1>3, NothingComing DEF NeverStarts
  <2>2. Coming("start", e)' = {} BY <1>0, <1>1, <2>1, NothingComingNext
  <2>3. work'[e] = "none" BY <1>2, <1>3, <2>1 DEF NeverStarts
  <2> QED BY <1>3, <2>2, <2>3, PilotFrame DEF NeverStarts, Starting
<1>4. LinkGrows BY <1>3, PilotFrame DEF LinkGrows, Ends
<1>5. CommandsSound'
  <2>1. ASSUME NEW i \in 1..Len(down')
        PROVE  /\ IF down'[i].k = "recon" THEN down'[i].e = None ELSE Spoken(down[i].e)'
               /\ down'[i].k = "stop" => down'[i].n # 0
               /\ down'[i].k = "start" => down'[i].n = 0
               /\ \A j \in 1..Len(down') :
                    down'[i].k = "start" /\ down'[j].k \in {"start", "stop"}
                      /\ down'[i].e = down'[j].e => i <= j
    <3>1. i + d \in 1..Len(down) /\ down'[i] = down[i + d] BY <1>0
    <3>2. \A e : Spoken(e) => Spoken(e)' BY <1>4 DEF LinkGrows, Spoken
    <3>3. /\ IF down[i + d].k = "recon" THEN down[i + d].e = None ELSE Spoken(down[i + d].e)
          /\ down[i + d].k = "stop" => down[i + d].n # 0
          /\ down[i + d].k = "start" => down[i + d].n = 0
      BY <3>1 DEF CommandsSound
    <3>4. ASSUME NEW j \in 1..Len(down'), down'[i].k = "start", down'[j].k \in {"start", "stop"},
                 down'[i].e = down'[j].e
          PROVE  i <= j
      <4>1. j + d \in 1..Len(down) /\ down'[j] = down[j + d] BY <1>0
      <4>2. i + d <= j + d BY <3>1, <3>4, <4>1 DEF CommandsSound
      <4> QED BY <4>2, <1>1
    <3> QED BY <3>1, <3>2, <3>3, <3>4
  <2>2. ASSUME NEW i \in 1..Len(down'), down'[i].k = "start"  PROVE work'[down'[i].e] = "none"
    <3>1. down'[i].e \in Execs /\ work[down'[i].e] = "none"
      BY <1>0, <2>2 DEF CommandsSound, Spoken
    <3> QED BY <1>2, <2>2, <3>1
  <2> QED BY <1>1, <2>1, <2>2 DEF CommandsSound
<1>6. RunSound'
  <2>1. run.pc \in {"admitted", "pointed"} => work'[run.e] = "none"
    BY <1>2 DEF RunSound, Starting, Spoken
  <2> QED BY <1>0, <1>1, <2>1, PilotFrame DEF RunSound, Spoken
<1> QED BY <1>2, <1>4, <1>5, <1>6, PilotFrame DEF RowsAreTrue

LEMMA EventTold ==
  ASSUME NEW e, NEW st \in Statuses, NEW b \in BOOLEAN, Spoken(e)', TrueEnd(e, st)'
  PROVE  Event(e, st, b) \in SoundMessages'
<1>1. Event(e, st, b) \in Message BY DEF Event, Message, Spoken
<1>2. Sound(Event(e, st, b))' BY DEF Event, Sound
<1> QED BY <1>1, <1>2 DEF SoundMessages, Message

LEMMA YesTold ==
  ASSUME NEW c, c.n \in Nat, Spoken(c.e)'
  PROVE  Ack(c, TRUE) \in SoundMessages'
<1>1. Ack(c, TRUE) \in Message BY DEF Ack, Message, Spoken
<1>2. Sound(Ack(c, TRUE))' BY DEF Ack, Sound
<1> QED BY <1>1, <1>2 DEF SoundMessages, Message

LEMMA NoTold ==
  ASSUME NEW c, c.n \in Nat, Spoken(c.e)', c.n = 0 => TrueEnd(c.e, "failed")'
  PROVE  Ack(c, FALSE) \in SoundMessages'
<1>1. Ack(c, FALSE) \in Message BY DEF Ack, Message, Spoken
<1>2. Sound(Ack(c, FALSE))' BY DEF Ack, Sound
<1> QED BY <1>1, <1>2 DEF SoundMessages, Message

LEMMA Tells ==
  ASSUME NEW S
  PROVE  (\A a \in S : <<a>> \in Seq(S)) /\ \A a, b \in S : <<a, b>> \in Seq(S)
  OBVIOUS
\* The command the Pilot takes.
LEMMA CommandTaken ==
  ASSUME LinkInv, NEW k, k # "recon", Takes(k)
  PROVE  /\ DOMAIN Head(down) = {"k", "e", "n"} /\ Head(down).k = k /\ Spoken(Head(down).e)
         /\ Head(down).n \in Nat /\ (k = "stop" => Head(down).n # 0)
         /\ k = "start" => Head(down).n = 0 /\ work[Head(down).e] = "none"
                           /\ ~Starting(Head(down).e)
         /\ down # <<>> /\ down' = Tail(down)
<1>1. down \in Seq(Command) /\ down # <<>> BY DEF LinkInv, CommandsSound, Takes
<1>2. Head(down) \in Command /\ Head(down) = down[1] /\ 1 \in 1..Len(down)
  BY <1>1, HeadTailProperties
<1>3. down[1].k = k BY <1>2 DEF Takes
<1>4. Spoken(down[1].e) /\ (k = "stop" => down[1].n # 0)
      /\ (k = "start" => down[1].n = 0 /\ work[down[1].e] = "none")
  BY <1>2, <1>3 DEF LinkInv, CommandsSound
<1>5. ~Starting(down[1].e) BY <1>2 DEF LinkInv, RunSound, Starting
<1>6. DOMAIN down[1] = {"k", "e", "n"} /\ down[1].n \in Nat BY <1>2 DEF Command
<1> QED BY <1>2, <1>3, <1>4, <1>5, <1>6 DEF Takes

LEMMA StartsStep ==
  ASSUME LinkInv, PilotStarts
  PROVE  PilotSound' /\ up' \in Seq(SoundMessages')
<1>1. PICK c : c = Head(down) OBVIOUS
<1>2. /\ DOMAIN c = {"k", "e", "n"} /\ c.k = "start" /\ Spoken(c.e) /\ c.n = 0 /\ c.n \in Nat
      /\ work[c.e] = "none" /\ ~Starting(c.e) /\ down # <<>> /\ down' = Tail(down)
  BY <1>1, CommandTaken DEF PilotStarts
<1>3. LinkGrows /\ CommandsSound' /\ RunSound' /\ UNCHANGED <<exec, run>>
  BY PilotGrows, PilotFrame DEF Pilot
<1>4. Spoken(c.e)' BY <1>2, <1>3 DEF Spoken
<1>5. /\ up \in Seq(SoundMessages) /\ LinkTyped /\ PilotSound /\ hand = HandFree /\ beat' = beat
  BY DEF LinkInv, PilotStarts, Takes
<1>6. work'[c.e] \in {"none", "failed"} => TrueEnd(c.e, "failed")'
  <2>1. CASE work'[c.e] = "failed" BY <2>1 DEF TrueEnd
  <2>2. CASE work'[c.e] = "none"
    <3>1. down \in Seq(Command) /\ down' \in Seq(Command)
      BY <1>3 DEF LinkInv, CommandsSound
    <3>2. \A i \in 1..Len(down') : i + 1 \in 1..Len(down) /\ down'[i] = down[i + 1]
      BY <1>2, <3>1
    <3>3. 1 \in 1..Len(down) /\ down[1] = c BY <1>1, <1>2, <3>1
    <3>4. ASSUME NEW i \in 1..Len(down'), down'[i].k = "start", down'[i].e = c.e  PROVE FALSE
      <4>1. i + 1 <= 1 BY <1>2, <3>2, <3>3, <3>4 DEF LinkInv, CommandsSound
      <4> QED BY <4>1, <3>1
    <3>5. PICK r \in Execs : r = c.e BY <1>2 DEF Spoken
    <3>6. Coming("start", r)' = {} BY <3>1, <3>4, <3>5, NothingComingNext
    <3>7. NeverStarts(r)' BY <1>2, <1>3, <2>2, <3>5, <3>6 DEF NeverStarts, Starting
    <3> QED BY <3>5, <3>7 DEF TrueEnd
  <2> QED BY <2>1, <2>2
<1>7. CASE /\ RobotFree
           /\ work' = [work EXCEPT ![c.e] = "running"] /\ busy' = c.e /\ live' = live \cup {c.e}
           /\ Tell(<<Event(c.e, "running", FALSE)>>) /\ hand' = c
  <2>1. PilotSound'
    BY <1>2, <1>4, <1>5, <1>7, NoneAssumption DEF PilotSound, RobotFree, Spoken, LinkTyped
  <2>2. TrueEnd(c.e, "running")' BY DEF TrueEnd, Ends
  <2>3. "running" \in Statuses BY DEF Statuses, Status, Active
  <2>4. Event(c.e, "running", FALSE) \in SoundMessages' BY <1>4, <2>2, <2>3, EventTold
  <2> QED BY <1>3, <1>5, <1>7, <2>1, <2>4, Told, Tells
<1>8. CASE /\ \E st \in {"none", "failed"} : work' = [work EXCEPT ![c.e] = st]
           /\ Tell(<<Ack(c, FALSE)>>) /\ UNCHANGED <<busy, live, hand>>
  <2>1. work'[c.e] \in {"none", "failed"} BY <1>2, <1>5, <1>8 DEF LinkTyped, Spoken
  <2>2. live' \subseteq {busy'} \cap Execs /\ \A e \in live : e # c.e
    BY <1>2, <1>5, <1>8 DEF PilotSound
  <2>3. PilotSound'
    BY <1>3, <1>5, <1>8, <2>2 DEF PilotSound, LinkTyped, HandFree
  <2> QED BY <1>2, <1>3, <1>4, <1>5, <1>6, <1>8, <2>1, <2>3, NoTold, Told, Tells
<1>9. CASE UNCHANGED <<work, busy, live, hand>> /\ Tell(<<Ack(c, FALSE)>>)
  <2>1. PilotSound' BY <1>3, <1>5, <1>9, PilotStays
  <2> QED BY <1>2, <1>3, <1>4, <1>5, <1>6, <1>9, <2>1, NoTold, Told, Tells
<1> QED BY <1>1, <1>7, <1>8, <1>9 DEF PilotStarts

LEMMA StopsStep ==
  ASSUME LinkInv, PilotStops
  PROVE  PilotSound' /\ up' \in Seq(SoundMessages')
<1>1. PICK c : c = Head(down) OBVIOUS
<1>2. /\ DOMAIN c = {"k", "e", "n"} /\ c.k = "stop" /\ Spoken(c.e) /\ c.n \in Nat /\ c.n # 0
  BY <1>1, CommandTaken DEF PilotStops
<1>3. LinkGrows /\ UNCHANGED exec BY PilotGrows, PilotFrame DEF Pilot
<1>4. Spoken(c.e)' BY <1>2, <1>3 DEF Spoken
<1>5. /\ up \in Seq(SoundMessages) /\ LinkTyped /\ PilotSound /\ hand = HandFree /\ beat' = beat
      /\ UNCHANGED <<busy, live>>
  BY DEF LinkInv, PilotStops, Takes
<1>6. Ack(c, TRUE) \in SoundMessages' /\ Ack(c, FALSE) \in SoundMessages'
  BY <1>2, <1>4, YesTold, NoTold
<1>7. CASE Tell(<<Ack(c, work[c.e] # "none")>>) /\ UNCHANGED <<work, hand>>
  <2>1. PilotSound' BY <1>3, <1>5, <1>7, PilotStays
  <2>2. Tell(<<Ack(c, TRUE)>>) \/ Tell(<<Ack(c, FALSE)>>)
    <3>1. CASE work[c.e] # "none"
      <4>1. (work[c.e] # "none") = TRUE BY <3>1
      <4> QED BY <1>7, <4>1
    <3>2. CASE work[c.e] = "none"
      <4>1. (work[c.e] # "none") = FALSE BY <3>2
      <4> QED BY <1>7, <4>1
    <3> QED BY <3>1, <3>2
  <2> QED BY <1>3, <1>5, <1>6, <2>1, <2>2, Told, Tells
<1>8. CASE /\ c.e \notin live /\ work' = [work EXCEPT ![c.e] = "interrupted"]
           /\ Tell(<<Ack(c, FALSE)>>) /\ hand' = hand
  <2>1. PilotSound' BY <1>2, <1>5, <1>8 DEF PilotSound, LinkTyped, HandFree
  <2> QED BY <1>3, <1>5, <1>6, <1>8, <2>1, Told, Tells
<1>9. CASE /\ c.e \in live /\ work' = [work EXCEPT ![c.e] = "stopping"] /\ hand' = c /\ up' = up
  <2>1. PilotSound' BY <1>2, <1>4, <1>5, <1>9 DEF PilotSound, LinkTyped, Spoken
  <2> QED BY <1>3, <1>5, <1>9, <2>1, UpStays
<1> QED BY <1>1, <1>7, <1>8, <1>9 DEF PilotStops

LEMMA AcceptsStep ==
  ASSUME LinkInv, PilotAccepts
  PROVE  PilotSound' /\ up' \in Seq(SoundMessages')
<1>1. LinkGrows /\ UNCHANGED exec BY PilotGrows, PilotFrame DEF Pilot
<1>2. /\ up \in Seq(SoundMessages) /\ PilotSound /\ hand.k = "start" /\ hand' = HandFree
      /\ UNCHANGED <<work, busy, live, beat>>
  BY DEF LinkInv, PilotAccepts
<1>3. PICK c : c = hand OBVIOUS
<1>4. Spoken(c.e) /\ c.n \in Nat BY <1>2, <1>3 DEF PilotSound, HandFree
<1>5. Spoken(c.e)' /\ TrueEnd(c.e, "running")' /\ "running" \in Statuses
  BY <1>1, <1>4 DEF Spoken, TrueEnd, Ends, Statuses, Status, Active
<1>6. Event(c.e, "running", FALSE) \in SoundMessages' /\ Ack(c, TRUE) \in SoundMessages'
  BY <1>4, <1>5, EventTold, YesTold
<1>7. Tell(<<Event(c.e, "running", FALSE), Ack(c, TRUE)>>) BY <1>3 DEF PilotAccepts
<1>8. PilotSound' BY <1>1, <1>2 DEF PilotSound, HandFree
<1> QED BY <1>1, <1>2, <1>6, <1>7, <1>8, Told, Tells

LEMMA HaltsStep ==
  ASSUME LinkInv, PilotHalts
  PROVE  PilotSound' /\ up' \in Seq(SoundMessages')
<1>1. LinkGrows /\ UNCHANGED exec BY PilotGrows, PilotFrame DEF Pilot
<1>2. /\ up \in Seq(SoundMessages) /\ PilotSound /\ LinkTyped /\ hand.k = "stop" /\ hand' = HandFree
      /\ beat' = beat
  BY DEF LinkInv, PilotHalts
<1>3. PICK c : c = hand OBVIOUS
<1>4. Spoken(c.e) /\ c.n \in Nat /\ c.n # 0 /\ work[c.e] = "stopping" /\ busy = c.e
  BY <1>2, <1>3 DEF PilotSound, HandFree, Spoken
<1>5. Spoken(c.e)' /\ TrueEnd(c.e, "interrupted")' /\ {"interrupted", "stopped"} \subseteq Statuses
  BY <1>1, <1>4 DEF Spoken, TrueEnd, Ends, Statuses, Status, Active, Terminal
<1>6. Ack(c, TRUE) \in SoundMessages' /\ Ack(c, FALSE) \in SoundMessages'
  BY <1>4, <1>5, YesTold, NoTold
<1>7. CASE /\ work' = [work EXCEPT ![c.e] = "stopped"] /\ live' = live \ {c.e}
           /\ busy' = IF busy = c.e THEN None ELSE busy
           /\ Tell(<<Event(c.e, "stopped", FALSE), Ack(c, TRUE)>>)
  <2>1. PilotSound' BY <1>1, <1>2, <1>4, <1>7 DEF PilotSound, HandFree, LinkTyped
  <2>2. work'[c.e] = "stopped" BY <1>2, <1>4, <1>7 DEF LinkTyped, Spoken
  <2>3. TrueEnd(c.e, "stopped")' BY <2>2 DEF TrueEnd
  <2>4. Event(c.e, "stopped", FALSE) \in SoundMessages' BY <1>5, <2>3, EventTold
  <2> QED BY <1>1, <1>2, <1>6, <1>7, <2>1, <2>4, Told, Tells
<1>8. CASE /\ work' = [work EXCEPT ![c.e] = "interrupted"]
           /\ \/ Tell(<<Event(c.e, "interrupted", FALSE), Ack(c, TRUE)>>)
              \/ Tell(<<Event(c.e, "interrupted", FALSE), Ack(c, FALSE)>>)
              \/ Tell(<<Ack(c, FALSE)>>)
           /\ UNCHANGED <<live, busy>>
  <2>1. PilotSound' BY <1>1, <1>2, <1>4, <1>8 DEF PilotSound, HandFree, LinkTyped
  <2>2. Event(c.e, "interrupted", FALSE) \in SoundMessages' BY <1>5, EventTold
  <2> QED BY <1>1, <1>2, <1>6, <1>8, <2>1, <2>2, Told, Tells
<1> QED BY <1>3, <1>7, <1>8 DEF PilotHalts

LEMMA EndsStep ==
  ASSUME LinkInv, NEW e \in Execs, WorkerEnds(e)
  PROVE  PilotSound' /\ up' \in Seq(SoundMessages')
<1>1. LinkGrows /\ UNCHANGED exec BY PilotGrows, PilotFrame DEF Pilot
<1>2. /\ up \in Seq(SoundMessages) /\ PilotSound /\ LinkTyped /\ UNCHANGED <<hand, beat>>
      /\ e \in live /\ work[e] = "running" /\ exec[e] # "none"
  BY DEF LinkInv, WorkerEnds, RowsAreTrue
<1>3. PICK st \in {"completed", "failed", "interrupted"} :
           /\ work' = [work EXCEPT ![e] = st]
           /\ IF st = "interrupted" THEN UNCHANGED <<busy, live>>
              ELSE busy' = None /\ live' = live \ {e}
           /\ Tell(<<Event(e, st, TRUE)>>)
  BY DEF WorkerEnds
<1>4. PilotSound' BY <1>1, <1>2, <1>3 DEF PilotSound, HandFree, LinkTyped, Spoken
<1>5. work'[e] = st BY <1>2, <1>3 DEF LinkTyped
<1>6. Spoken(e)' /\ TrueEnd(e, st)' /\ st \in Statuses
  BY <1>1, <1>2, <1>5 DEF Spoken, TrueEnd, Statuses, Status, Terminal, Ends
<1> QED BY <1>1, <1>2, <1>3, <1>4, <1>6, EventTold, Told, Tells

LEMMA OthersStep ==
  ASSUME LinkInv, PilotReconciles \/ BeatReads \/ BeatWrites \/ LinkDrops \/ PilotDials
  PROVE  PilotSound' /\ up' \in Seq(SoundMessages')
<1>1. LinkGrows BY PilotGrows DEF Pilot
<1>2. PilotSound /\ up \in Seq(SoundMessages) /\ LinkTyped BY DEF LinkInv
<1>3. UNCHANGED <<work, busy, live, hand>>
  BY DEF PilotReconciles, BeatReads, BeatWrites, LinkDrops, PilotDials, pilot
<1>7. PilotSound'
  <2>1. beat'.ptr \in Execs \cup {None}
    BY <1>2 DEF PilotReconciles, BeatReads, BeatWrites, LinkDrops, PilotDials, pilot, PilotSound,
       NoBeat
  <2> QED BY <1>1, <1>2, <1>3, <2>1 DEF LinkGrows, PilotSound, Spoken, HandFree
<1>4. CASE PilotReconciles
  <2>1. PICK r : r = [e \in Execs |-> IF work[e] \in Terminal THEN "none" ELSE work[e]]
    OBVIOUS
  <2>2. r \in [Execs -> Status] /\ \A e \in Execs : r[e] \notin Ends
    BY <1>2, <2>1 DEF LinkTyped, Status, Terminal, Ends
  <2>3. PICK m : m = [k |-> "recon", remote |-> r] OBVIOUS
  <2>4. m \in Message BY <2>2, <2>3 DEF Message
  <2>5. Sound(m)' BY <2>2, <2>3 DEF Sound
  <2>6. m \in SoundMessages' BY <2>4, <2>5 DEF SoundMessages, Message
  <2>7. Tell(<<m>>) BY <1>4, <2>1, <2>3 DEF PilotReconciles
  <2> QED BY <1>1, <1>2, <1>7, <2>6, <2>7, Told, Tells
<1>5. CASE BeatWrites
  <2>1. PICK m : m = [k |-> "beat", ptr |-> beat.ptr] OBVIOUS
  <2>2. m \in Message BY <1>2, <2>1 DEF Message, PilotSound
  <2>3. Sound(m)' BY <2>1 DEF Sound
  <2>4. m \in SoundMessages' BY <2>2, <2>3 DEF SoundMessages, Message
  <2>5. Tell(<<m>>) BY <1>5, <2>1 DEF BeatWrites
  <2> QED BY <1>1, <1>2, <1>7, <2>4, <2>5, Told, Tells
<1>6. CASE UNCHANGED up BY <1>1, <1>2, <1>6, <1>7, UpStays
<1>8. CASE up' = <<>> BY <1>7, <1>8
<1> QED BY <1>4, <1>5, <1>6, <1>8 DEF BeatReads, LinkDrops, PilotDials, wire

\* Recover: at most one Execution was open, and only that gets a Worker or is interrupted.
LEMMA RebootsStep ==
  ASSUME LinkInv, PilotReboots
  PROVE  PilotSound' /\ up' \in Seq(SoundMessages')
<1> DEFINE open == {e \in Execs : work[e] \in {"running", "stopping"}}
<1>1. PilotSound /\ LinkTyped BY DEF LinkInv
<1>2. PICK st \in {"running", "interrupted", "stopped"}, held \in Execs \cup {None} :
           /\ work' = [e \in Execs |-> IF e \in open THEN st ELSE work[e]]
           /\ live' = IF st = "running" THEN open ELSE {}
           /\ IF open # {} /\ st # "stopped" THEN busy' \in open ELSE busy' = held
  BY DEF PilotReboots
<1>3. \A e \in open : e = busy BY <1>1 DEF PilotSound
<1>4. hand' = HandFree /\ beat' = NoBeat /\ up' = <<>> BY DEF PilotReboots
<1>5. live' \subseteq {busy'} \cap Execs /\ \A e \in live' : work'[e] # "none"
  BY <1>2, <1>3
<1>6. ASSUME NEW e \in Execs, work'[e] \in {"running", "stopping"}  PROVE busy' = e
  <2>1. e \in open /\ st # "stopped" BY <1>2, <1>6
  <2> QED BY <1>2, <1>3, <2>1
<1>7. PilotSound' BY <1>4, <1>5, <1>6 DEF PilotSound, HandFree, NoBeat
<1>8. up' \in Seq(SoundMessages') BY <1>4
<1> QED BY <1>7, <1>8

LEMMA PilotStep ==
  ASSUME LinkInv, Pilot
  PROVE  LinkInv'
<1> USE DEF LinkInv
<1>1. LinkGrows /\ CommandsSound' /\ RunSound'
      /\ \A e \in Execs : work'[e] # "none" => exec[e] # "none"
  BY PilotGrows
<1>2. UNCHANGED <<exec, log, stop, op, gw>> BY PilotFrame
<1>3. LinkTyped' BY PilotFrame DEF LinkTyped
<1>4. RowsAreTrue' BY <1>1, <1>2, RowsStay
<1>5. PilotSound' /\ up' \in Seq(SoundMessages')
  BY StartsStep, AcceptsStep, StopsStep, HaltsStep, EndsStep, OthersStep, RebootsStep DEF Pilot
<1> QED BY <1>1, <1>2, <1>3, <1>4, <1>5, StopStays, ConfirmStays, GatewayStays
-----------------------------------------------------------------------------
LEMMA LinkStep == LinkInv /\ [Next]_vars => LinkInv'
<1> SUFFICES ASSUME LinkInv, [Next]_vars  PROVE LinkInv'
  OBVIOUS
<1>1. CASE UNCHANGED <<exec, log, vouched, run, stop, op, gw, down, up, work, busy, live, hand,
                       beat, left>>
  <2>1. ASSUME NEW e \in Execs, NeverStarts(e)  PROVE NeverStarts(e)'
    <3>1. Coming("start", e)' = {} BY <1>1, <2>1 DEF NeverStarts, Coming
    <3> QED BY <1>1, <2>1, <3>1 DEF NeverStarts, Starting
  <2>2. LinkGrows BY <1>1, <2>1 DEF LinkGrows
  <2>3. LinkTyped' /\ RunSound' BY <1>1 DEF LinkInv, LinkTyped, RunSound, Spoken
  <2>4. RowsAreTrue' BY <1>1, <2>2, RowsStay DEF LinkInv, RowsAreTrue
  <2> QED
    BY <1>1, <2>2, <2>3, <2>4, StopStays, ConfirmStays, GatewayStays, UpStays, PilotStays,
       CommandsStay DEF LinkInv
<1>2. ASSUME NEW p \in Writers, SetSession(p)
      PROVE  UNCHANGED <<exec, log, vouched, run, stop, op, gw, down, up, work, busy, live, hand,
                         beat, left>>
  BY <1>2 DEF SetSession, server, calls, wire, pilot
<1>3. UNCHANGED vars => UNCHANGED <<exec, log, vouched, run, stop, op, gw, down, up, work, busy,
                                    live, hand, beat, left>>
  BY DEF vars
<1> QED
  BY <1>1, <1>2, <1>3, RunStep, StopStep, ConfirmStep, GatewayStep, ConnectStep, CrashStep,
     PilotStep
  DEF Next

LEMMA LinkSound == Spec => []LinkInv
  BY LinkInitGood, LinkStep, PTL DEF Spec

\* Whoever wrote it, an end in the database is what the Pilot reached, unless somebody
\* vouched for it or no start ever reaches the Pilot (HandlePilotEvent, Reconcile,
\* Stop and ConfirmOperatorStop of src/internal/robot/service.go).
THEOREM EndsAreTrueOfTheRobot == Spec => []EndsAreTrue
<1>1. LinkInv => EndsAreTrue
  BY DEF LinkInv, RowsAreTrue, TrueEnd, NeverStarts, EndsAreTrue
<1> QED BY <1>1, LinkSound, PTL

\* The admission mutex and the order of the connection keep a stop behind its start (Run and
\* Stop of src/internal/robot/service.go).
THEOREM StopsFollowStarts == Spec => []StopFollowsStart
<1>1. ASSUME LinkInv  PROVE StopFollowsStart
  <2>1. down \in Seq(Command) BY <1>1 DEF LinkInv, CommandsSound
  <2>2. ASSUME NEW e \in Execs, Starting(e)  PROVE stop.e # e /\ Coming("stop", e) = {}
    <3>1. stop.e # e
      BY <1>1, <2>2, NoneAssumption DEF LinkInv, RunSound, StopSound, Starting
    <3>2. \A i \in 1..Len(down) : ~(down[i].k = "stop" /\ down[i].e = e)
      BY <1>1, <2>2 DEF LinkInv, RunSound, Starting
    <3> QED BY <2>1, <3>1, <3>2, NothingComing
  <2>3. ASSUME NEW e \in Execs, NEW i \in Coming("start", e), NEW j \in Coming("stop", e)
        PROVE  i < j
    <3>1. /\ i \in 1..Len(down) /\ down[i].k = "start" /\ down[i].e = e
          /\ j \in 1..Len(down) /\ down[j].k = "stop" /\ down[j].e = e
      BY <2>1, <2>3 DEF Coming
    <3>2. i <= j BY <1>1, <3>1 DEF LinkInv, CommandsSound
    <3> QED BY <3>1, <3>2
  <2> QED BY <2>2, <2>3 DEF StopFollowsStart
<1> QED BY <1>1, LinkSound, PTL

\* Two Executions never run on the Pilot at once: what runs holds the Robot (activeRobots,
\* src/internal/pilot/runtime.go).
THEOREM RobotHasOneWorker == Spec => []OneWorker
<1>1. LinkInv => OneWorker BY DEF LinkInv, PilotSound, OneWorker
<1> QED BY <1>1, LinkSound, PTL
=============================================================================
