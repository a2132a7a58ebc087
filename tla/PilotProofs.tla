----------------------------- MODULE PilotProofs -----------------------------
(***************************************************************************)
(* Proofs about the Skill Executions of a Robot on its Pilot: a step of an *)
(* Execution leaves the others alone, an Action of a Worker reaches its    *)
(* Ability once, what moves has the lock of the Robot, and an Execution    *)
(* that was reported as completed or stopped has nothing moving.           *)
(***************************************************************************)
EXTENDS PilotSkills, SequenceTheorems, TLAPS

SkillStatus == SkillEnds \cup {"none", "starting", "running", "stopping", "waiting_agent"}
Journaled == ActionEnds \cup {"accepted", "running", "stopping"}
DeviceStates == {"none", "moving", "done", "broken", "halted"}
Asked == {"start", "result", "ask", "note", "outcome"}
Answers == Asked \cup {"none", "ready", "busy", "completed", "failed", "stopping"}

CommandTyped ==
  /\ DOMAIN cmd = DOMAIN CmdIdle
  /\ cmd.pc \in {"idle", "launch", "latch", "actions", "halt", "worker"}
  /\ cmd.pc # "idle" => cmd.e \in Execs
  /\ cmd.keys \subseteq Keys /\ (cmd.pc = "halt" => cmd.key \in Keys)

Domains ==
  /\ DOMAIN skill = Execs /\ DOMAIN evidence = Execs /\ DOMAIN told = Execs
  /\ DOMAIN live = Execs /\ DOMAIN worker = Execs /\ DOMAIN handler = Execs /\ DOMAIN run = Execs
  /\ DOMAIN journal = Invocations /\ DOMAIN device = Invocations /\ DOMAIN sent = Invocations
  /\ owner \in Invocations \cup {None} /\ boots \in Nat \ {0} /\ CommandTyped

TypedAt(e) ==
  /\ skill[e] \in SkillStatus
  /\ DOMAIN live[e] = DOMAIN NotLive /\ live[e].acts \subseteq Keys /\ live[e].gen \in {0, 1, 2}
  /\ DOMAIN worker[e] = Gens /\ DOMAIN handler[e] = Gens /\ DOMAIN run[e] = Gens
  /\ \A k \in Keys : /\ journal[<<e, k>>] \in Journaled \cup {"none"}
                     /\ device[<<e, k>>] \in DeviceStates /\ sent[<<e, k>>] \in Nat
  /\ \A g \in Gens :
       /\ DOMAIN worker[e][g] = DOMAIN NoWorker /\ worker[e][g].requests \in Seq({"go", "stop"})
       /\ worker[e][g].go \in Answers /\ worker[e][g].stop \in Answers
       /\ DOMAIN handler[e][g] = DOMAIN HandlerIdle /\ handler[e][g].who \in {"go", "stop"}
       /\ handler[e][g].pc = "note" => handler[e][g].seen \in SkillStatus
       /\ handler[e][g].pc = "state" => handler[e][g].seen \in Journaled \cup {"error"}

\* An Action is journaled before it is sent, by one handler, and the journal is not erased.
SentOnce(e) ==
  /\ \A k \in Keys : sent[<<e, k>>] <= 1 /\ (journal[<<e, k>>] = "none" => sent[<<e, k>>] = 0)
  /\ \A g \in Gens :
       handler[e][g].pc = "send" => journal[Act(e, g)] # "none" /\ sent[Act(e, g)] = 0
  /\ ~(handler[e][1].pc = "send" /\ handler[e][2].pc = "send" /\ Act(e, 1) = Act(e, 2))

\* In the first process, nothing is left of an Execution that was not started.
Untouched(e) ==
  /\ live[e] = NotLive /\ told[e] = "none" /\ ~evidence[e]
  /\ \A g \in Gens : /\ worker[e][g] = NoWorker /\ handler[e][g] = HandlerIdle
                     /\ run[e][g] = "none"
  /\ \A k \in Keys : journal[<<e, k>>] = "none"
Launching(e) == cmd.pc = "launch" /\ cmd.e = e
Known(e) ==
  /\ skill[e] = "none" \/ Launching(e) => Untouched(e)
  /\ InStop(e) => skill[e] # "none"
  /\ \A g \in Gens : handler[e][g].pc = "note" => handler[e][g].seen # "none"

Base(e) == TypedAt(e) /\ SentOnce(e) /\ (boots = 1 => Known(e))
BaseInv == Domains /\ \A e \in Execs : Base(e)

-----------------------------------------------------------------------------
\* A step leaves everything of f alone.
Apart(f) ==
  /\ skill'[f] = skill[f] /\ evidence'[f] = evidence[f] /\ told'[f] = told[f]
  /\ live'[f] = live[f] /\ worker'[f] = worker[f] /\ handler'[f] = handler[f] /\ run'[f] = run[f]
  /\ \A k \in Keys : /\ journal'[<<f, k>>] = journal[<<f, k>>]
                     /\ device'[<<f, k>>] = device[<<f, k>>] /\ sent'[<<f, k>>] = sent[<<f, k>>]

\* A step changes the Worker, or the handler, of one generation of one Execution.
WorkerOnly(e, g) ==
  /\ DOMAIN worker' = Execs /\ DOMAIN worker'[e] = Gens
  /\ \A f \in Execs \ {e} : worker'[f] = worker[f]
  /\ \A k \in Gens \ {g} : worker'[e][k] = worker[e][k]
  /\ DOMAIN worker'[e][g] = DOMAIN NoWorker
HandlerOnly(e, g) ==
  /\ DOMAIN handler' = Execs /\ DOMAIN handler'[e] = Gens
  /\ \A f \in Execs \ {e} : handler'[f] = handler[f]
  /\ \A k \in Gens \ {g} : handler'[e][k] = handler[e][k]
  /\ DOMAIN handler'[e][g] = DOMAIN HandlerIdle

\* The effect of a response.
Answering(e, g) ==
  /\ WorkerOnly(e, g) /\ HandlerOnly(e, g)
  /\ handler'[e][g] = HandlerIdle
  /\ worker'[e][g].on = worker[e][g].on /\ worker'[e][g].requests = worker[e][g].requests
  /\ handler[e][g].who = "go" =>
       /\ worker'[e][g].go = "ready" /\ worker'[e][g].stop = worker[e][g].stop
       /\ worker'[e][g].hold = worker[e][g].hold
  /\ handler[e][g].who # "go" =>
       /\ worker'[e][g].stop = "ready" /\ worker'[e][g].go = worker[e][g].go
       /\ worker'[e][g].step = worker[e][g].step

LEMMA BystandersStay ==
  ASSUME NEW f \in Execs, Base(f), Apart(f), boots' = 1 => boots = 1, Launching(f)' => Launching(f),
         InStop(f)' => InStop(f)
  PROVE  Base(f)'
<1>1. TypedAt(f)'
  BY DEF Base, TypedAt, Apart
<1>2. SentOnce(f)'
  BY DEF Base, SentOnce, Apart, Act, KeyOf, Keys
<1>3. boots' = 1 => Known(f)'
  BY DEF Base, Known, Untouched, Apart
<1> QED
  BY <1>1, <1>2, <1>3 DEF Base

LEMMA HandlerMoves ==
  ASSUME Domains, NEW e \in Execs, NEW g \in Gens, TypedAt(e), NEW pc, NEW seen,
         HandlerAt(e, g, pc, seen)
  PROVE  /\ HandlerOnly(e, g)
         /\ handler'[e][g].pc = pc /\ handler'[e][g].seen = seen
         /\ handler'[e][g].who = handler[e][g].who /\ handler'[e][g].req = handler[e][g].req
  BY DEF Domains, TypedAt, HandlerAt, HandlerOnly, HandlerIdle, Gens

LEMMA HandlerResponds ==
  ASSUME Domains, NEW e \in Execs, NEW g \in Gens, TypedAt(e), NEW r, Responds(e, g, r)
  PROVE  Answering(e, g)
<1>1. HandlerOnly(e, g) /\ handler'[e][g] = HandlerIdle
  BY DEF Domains, TypedAt, Responds, HandlerOnly, HandlerIdle
<1>2. CASE handler[e][g].who = "go"
  BY <1>1, <1>2 DEF Domains, TypedAt, Responds, Answered, WorkerOnly, Answering, NoWorker
<1>3. CASE handler[e][g].who # "go"
  BY <1>1, <1>3 DEF Domains, TypedAt, Responds, Answered, WorkerOnly, Answering, NoWorker
<1> QED
  BY <1>2, <1>3

\* What every step of a handler keeps, and what it may change.
HandlerFrame == UNCHANGED <<boots, cmd, told, run, robot, exit>>
HandlerTyped(e, g) ==
  /\ HandlerOnly(e, g)
  /\ handler'[e][g].who \in {"go", "stop"}
  /\ handler'[e][g].pc = "note" => handler'[e][g].seen \in SkillStatus
  /\ handler'[e][g].pc = "state" => handler'[e][g].seen \in Journaled \cup {"error"}
WorkerTyped(e, g) ==
  /\ WorkerOnly(e, g)
  /\ worker'[e][g].on = worker[e][g].on
  /\ worker'[e][g].requests \in Seq({"go", "stop"})
  /\ worker'[e][g].go \in Answers /\ worker'[e][g].stop \in Answers
LiveTyped(e) ==
  /\ DOMAIN live' = Execs /\ \A f \in Execs \ {e} : live'[f] = live[f]
  /\ DOMAIN live'[e] = DOMAIN NotLive /\ live'[e].acts \subseteq Keys
  /\ live'[e].gen = live[e].gen /\ live'[e].on = live[e].on
  /\ live'[e].stopping = live[e].stopping /\ live'[e].cancelled = live[e].cancelled
RowTyped(e) ==
  /\ DOMAIN skill' = Execs /\ \A f \in Execs \ {e} : skill'[f] = skill[f]
  /\ skill'[e] \in SkillStatus
  /\ DOMAIN evidence' = Execs /\ \A f \in Execs \ {e} : evidence'[f] = evidence[f]
ActionTyped(i) ==
  /\ DOMAIN journal' = Invocations /\ DOMAIN device' = Invocations /\ DOMAIN sent' = Invocations
  /\ owner' \in Invocations \cup {None}
  /\ \A j \in Invocations \ {i} :
       journal'[j] = journal[j] /\ device'[j] = device[j] /\ sent'[j] = sent[j]
  /\ journal'[i] \in {journal[i]} \cup Journaled
  /\ device'[i] \in DeviceStates
Sending(e, g) ==
  /\ \/ sent' = sent
     \/ /\ handler[e][g].pc = "send" /\ handler'[e][g].pc # "send"
        /\ sent'[Act(e, g)] = sent[Act(e, g)] + 1
  /\ handler'[e][g].pc = "send" =>
       /\ handler[e][g].pc = "save" /\ handler'[e][g].who = handler[e][g].who
       /\ journal[Act(e, g)] = "none" /\ journal'[Act(e, g)] # "none" /\ sent' = sent
OfAStarted(e, g) ==
  boots = 1 => /\ skill[e] # "none" /\ ~Launching(e) /\ skill'[e] # "none"
               /\ handler'[e][g].pc = "note" => handler'[e][g].seen # "none"
HandlerStep(e, g) ==
  /\ HandlerFrame /\ HandlerTyped(e, g) /\ WorkerTyped(e, g) /\ LiveTyped(e) /\ RowTyped(e)
  /\ ActionTyped(Act(e, g)) /\ Sending(e, g) /\ OfAStarted(e, g)

LEMMA KeyKnown ==
  ASSUME NEW e \in Execs, NEW g \in Gens
  PROVE  /\ Act(e, g) = <<e, KeyOf(handler[e][g])>> /\ KeyOf(handler[e][g]) \in Keys
         /\ Act(e, g) \in Invocations
  BY DEF Act, KeyOf, Keys, Invocations

LEMMA HandlerStepKeeps ==
  ASSUME BaseInv, NEW e \in Execs, NEW g \in Gens, HandlerStep(e, g)
  PROVE  BaseInv'
<1>1. Domains'
  BY DEF BaseInv, Domains, CommandTyped, HandlerStep, HandlerFrame, HandlerTyped, WorkerTyped,
     LiveTyped, RowTyped,
       ActionTyped, Sending, OfAStarted, HandlerOnly, WorkerOnly
<1>2. TypedAt(e)'
  <2>1. \A k \in Keys : /\ <<e, k>> \in Invocations /\ journal[<<e, k>>] \in Journaled \cup {"none"}
                        /\ device[<<e, k>>] \in DeviceStates /\ sent[<<e, k>>] \in Nat
    BY DEF BaseInv, Base, TypedAt, Invocations
  <2>2. sent'[Act(e, g)] \in Nat
    BY <2>1, KeyKnown DEF HandlerStep, HandlerFrame, HandlerTyped, WorkerTyped, LiveTyped,
       RowTyped,
       ActionTyped, Sending, OfAStarted
  <2>3. \A k \in Keys : /\ journal'[<<e, k>>] \in Journaled \cup {"none"}
                        /\ device'[<<e, k>>] \in DeviceStates /\ sent'[<<e, k>>] \in Nat
    BY <2>1, <2>2, KeyKnown DEF HandlerStep, HandlerFrame, HandlerTyped, WorkerTyped, LiveTyped,
       RowTyped,
       ActionTyped, Sending, OfAStarted
  <2>4. \A k \in Gens \ {g} :
          worker'[e][k] = worker[e][k] /\ handler'[e][k] = handler[e][k] /\ run'[e] = run[e]
    BY DEF HandlerStep, HandlerFrame, HandlerTyped, WorkerTyped, LiveTyped, RowTyped,
       ActionTyped, Sending, OfAStarted, HandlerOnly, WorkerOnly
  <2>5. skill'[e] \in SkillStatus /\ DOMAIN live'[e] = DOMAIN NotLive /\ live'[e].acts \subseteq Keys
        /\ live'[e].gen \in {0, 1, 2} /\ DOMAIN worker'[e] = Gens /\ DOMAIN handler'[e] = Gens
        /\ DOMAIN run'[e] = Gens
    BY DEF BaseInv, Base, TypedAt, HandlerStep, HandlerFrame, HandlerTyped, WorkerTyped,
       LiveTyped, RowTyped,
       ActionTyped, Sending, OfAStarted, HandlerOnly, WorkerOnly
  <2>6. \A k \in Gens :
       /\ DOMAIN worker'[e][k] = DOMAIN NoWorker /\ worker'[e][k].requests \in Seq({"go", "stop"})
       /\ worker'[e][k].go \in Answers /\ worker'[e][k].stop \in Answers
    BY <2>4 DEF BaseInv, Base, TypedAt, HandlerStep, HandlerFrame, HandlerTyped, WorkerTyped,
       LiveTyped, RowTyped,
       ActionTyped, Sending, OfAStarted, WorkerOnly
  <2>7. ASSUME NEW k \in Gens
        PROVE
       /\ DOMAIN handler'[e][k] = DOMAIN HandlerIdle /\ handler'[e][k].who \in {"go", "stop"}
       /\ handler'[e][k].pc = "note" => handler'[e][k].seen \in SkillStatus
       /\ handler'[e][k].pc = "state" => handler'[e][k].seen \in Journaled \cup {"error"}
    <3>1. CASE k = g
      BY <3>1 DEF HandlerStep, HandlerFrame, HandlerTyped, WorkerTyped, LiveTyped, RowTyped,
       ActionTyped, Sending, OfAStarted, HandlerOnly
    <3>2. CASE k # g
      BY <2>4, <3>2 DEF BaseInv, Base, TypedAt
    <3> QED
      BY <3>1, <3>2
  <2> QED
    BY <2>3, <2>5, <2>6, <2>7 DEF TypedAt
<1>3. SentOnce(e)'
  <2>1. \A k \in Gens \ {g} : handler'[e][k] = handler[e][k] /\ Act(e, k)' = Act(e, k)
    BY DEF HandlerStep, HandlerFrame, HandlerTyped, WorkerTyped, LiveTyped, RowTyped,
       ActionTyped, Sending, OfAStarted, HandlerOnly, Act
  <2>2. handler'[e][g].who = handler[e][g].who => Act(e, g)' = Act(e, g)
    BY DEF Act, KeyOf
  <2>3. \A k \in Keys : <<e, k>> \in Invocations
    BY DEF Invocations
  <2>4. \A k \in Keys : /\ sent[<<e, k>>] \in Nat /\ sent[<<e, k>>] <= 1
                        /\ journal[<<e, k>>] = "none" => sent[<<e, k>>] = 0
    BY DEF BaseInv, Base, TypedAt, SentOnce
  <2>5. \A k \in Gens : Act(e, k) \in Invocations /\ sent[Act(e, k)] \in Nat
                        /\ \E n \in Keys : Act(e, k) = <<e, n>>
    BY KeyKnown, <2>4
  <2>6. \A k \in Keys : sent'[<<e, k>>] <= 1 /\ (journal'[<<e, k>>] = "none" => sent'[<<e, k>>] = 0)
    BY <2>3, <2>4, <2>5 DEF BaseInv, Base, SentOnce, HandlerStep, HandlerFrame, HandlerTyped,
       WorkerTyped, LiveTyped, RowTyped,
       ActionTyped, Sending, OfAStarted, Journaled, ActionEnds
  <2>7. \A k \in Gens : handler'[e][k].pc = "send" => journal'[Act(e, k)'] # "none" /\ sent'[Act(e, k)'] = 0
    BY <2>1, <2>2, <2>3, <2>4, <2>5 DEF BaseInv, Base, SentOnce, HandlerStep, HandlerFrame,
       HandlerTyped, WorkerTyped, LiveTyped, RowTyped,
       ActionTyped, Sending, OfAStarted, Journaled, ActionEnds, Gens
  <2>8. ~(handler'[e][1].pc = "send" /\ handler'[e][2].pc = "send" /\ Act(e, 1)' = Act(e, 2)')
    BY <2>1, <2>2, <2>5 DEF BaseInv, Base, SentOnce, HandlerStep, HandlerFrame, HandlerTyped,
       WorkerTyped, LiveTyped, RowTyped,
       ActionTyped, Sending, OfAStarted, Gens
  <2> QED
    BY <2>6, <2>7, <2>8 DEF SentOnce
<1>4. boots' = 1 => Known(e)'
  BY DEF BaseInv, Base, Known, HandlerStep, HandlerFrame, HandlerTyped, WorkerTyped, LiveTyped,
     RowTyped,
       ActionTyped, Sending, OfAStarted, HandlerOnly, Launching, InStop
<1>5. ASSUME NEW f \in Execs \ {e}
      PROVE  Apart(f) /\ (Launching(f)' => Launching(f)) /\ (InStop(f)' => InStop(f))
  <2>1. \A k \in Keys : <<f, k>> \in Invocations \ {Act(e, g)}
    BY KeyKnown DEF Invocations
  <2> QED
    BY <2>1 DEF HandlerStep, HandlerFrame, HandlerTyped, WorkerTyped, LiveTyped, RowTyped,
       ActionTyped, HandlerOnly, WorkerOnly, Apart, Launching, InStop
<1>6. \A f \in Execs \ {e} : Base(f)'
  BY <1>5, BystandersStay DEF BaseInv, HandlerStep, HandlerFrame
<1> QED
  BY <1>1, <1>2, <1>3, <1>4, <1>6 DEF BaseInv, Base

-----------------------------------------------------------------------------
(* The steps of a handler.                                                  *)

LEMMA HandlerOfAStarted ==
  ASSUME BaseInv, NEW e \in Execs, NEW g \in Gens, boots = 1,
         handler[e][g].pc # "idle" \/ worker[e][g].requests # <<>>
  PROVE  skill[e] # "none" /\ ~Launching(e)
  BY DEF BaseInv, Base, Known, Untouched, NoWorker, HandlerIdle

LEMMA WorkerLeft ==
  ASSUME BaseInv, NEW e \in Execs, NEW g \in Gens, worker' = worker
  PROVE  WorkerTyped(e, g)
  BY DEF BaseInv, Domains, Base, TypedAt, WorkerOnly, WorkerTyped

LEMMA Responded ==
  ASSUME BaseInv, NEW e \in Execs, NEW g \in Gens, NEW r, Responds(e, g, r)
  PROVE  /\ WorkerTyped(e, g) /\ HandlerTyped(e, g)
         /\ handler'[e][g] = HandlerIdle /\ handler'[e][g].pc = "idle"
<1>1. Answering(e, g)
  BY HandlerResponds DEF BaseInv, Base
<1>2. WorkerTyped(e, g)
  BY <1>1 DEF BaseInv, Base, TypedAt, Answering, Answers, WorkerTyped
<1>3. HandlerTyped(e, g) /\ handler'[e][g] = HandlerIdle /\ handler'[e][g].pc = "idle"
  BY <1>1 DEF Answering, HandlerTyped, HandlerIdle
<1> QED
  BY <1>2, <1>3

LEMMA HandlerWent ==
  ASSUME BaseInv, NEW e \in Execs, NEW g \in Gens, NEW pc, NEW seen,
         HandlerAt(e, g, pc, seen), pc # "note", pc = "state" => seen \in Journaled \cup {"error"}
  PROVE  /\ HandlerTyped(e, g) /\ handler'[e][g].pc = pc /\ handler'[e][g].seen = seen
         /\ handler'[e][g].who = handler[e][g].who /\ handler'[e][g].req = handler[e][g].req
<1>1. TypedAt(e) /\ Domains
  BY DEF BaseInv, Base
<1>2. /\ HandlerOnly(e, g)
      /\ handler'[e][g].pc = pc /\ handler'[e][g].seen = seen
      /\ handler'[e][g].who = handler[e][g].who /\ handler'[e][g].req = handler[e][g].req
  BY <1>1, HandlerMoves
<1> QED
  BY <1>1, <1>2 DEF TypedAt, HandlerTyped

LEMMA LiveLeft ==
  ASSUME BaseInv, NEW e \in Execs, live' = live
  PROVE  LiveTyped(e)
  BY DEF BaseInv, Domains, Base, TypedAt, LiveTyped

LEMMA LiveRegistered ==
  ASSUME BaseInv, NEW e \in Execs, NEW k \in Keys, NEW m,
         Registered(e, k, m) \/ live' = [live EXCEPT ![e].acts = @ \ {k}]
  PROVE  LiveTyped(e)
  BY DEF BaseInv, Domains, Base, TypedAt, Registered, NotLive, LiveTyped

LEMMA RowLeft ==
  ASSUME BaseInv, NEW e \in Execs, UNCHANGED <<skill, evidence>>
  PROVE  RowTyped(e)
  BY DEF BaseInv, Domains, Base, TypedAt, RowTyped

LEMMA RowSaved ==
  ASSUME BaseInv, NEW e \in Execs, NEW s \in SkillStatus, skill' = Saved(e, s), evidence' = evidence
  PROVE  RowTyped(e) /\ skill'[e] \in {skill[e], s}
  BY DEF BaseInv, Domains, Base, TypedAt, RowTyped, Saved

LEMMA ActionLeft ==
  ASSUME BaseInv, NEW e \in Execs, NEW g \in Gens, UNCHANGED <<journal, device, sent, owner>>
  PROVE  ActionTyped(Act(e, g))
<1>1. \E k \in Keys : Act(e, g) = <<e, k>>
  BY KeyKnown
<1> QED
  BY <1>1, KeyKnown DEF BaseInv, Domains, Base, TypedAt, ActionTyped

LEMMA JournalLeft ==
  ASSUME BaseInv, NEW e \in Execs, NEW g \in Gens
  PROVE  /\ DOMAIN journal = Invocations /\ DOMAIN device = Invocations /\ DOMAIN sent = Invocations
         /\ DOMAIN skill = Execs /\ DOMAIN evidence = Execs
         /\ skill[e] \in SkillStatus
         /\ Act(e, g) \in Invocations
         /\ Act(e, g)[2] \in Keys
         /\ owner \in Invocations \cup {None}
         /\ journal[Act(e, g)] \in Journaled \cup {"none"}
         /\ device[Act(e, g)] \in DeviceStates /\ sent[Act(e, g)] \in Nat
<1>1. \E k \in Keys : Act(e, g) = <<e, k>>
  BY KeyKnown
<1>2. /\ Act(e, g)[2] \in Keys
      /\ journal[Act(e, g)] \in Journaled \cup {"none"}
      /\ device[Act(e, g)] \in DeviceStates /\ sent[Act(e, g)] \in Nat
  BY <1>1 DEF BaseInv, Base, TypedAt
<1> QED
  BY <1>2, KeyKnown DEF BaseInv, Domains, Base, TypedAt

LEMMA JournalWritten ==
  ASSUME BaseInv, NEW e \in Execs, NEW g \in Gens, NEW s \in Journaled,
         journal' = [journal EXCEPT ![Act(e, g)] = s], UNCHANGED <<device, sent>>,
         owner' \in {owner, None, Act(e, g), AfterState(Act(e, g), s)}
  PROVE  ActionTyped(Act(e, g)) /\ journal'[Act(e, g)] = s
<1> DEFINE i == Act(e, g)
<1>1. i \in Invocations /\ DOMAIN journal = Invocations /\ device[i] \in DeviceStates
      /\ DOMAIN device = Invocations /\ DOMAIN sent = Invocations
  BY JournalLeft
<1>2. owner' \in Invocations \cup {None}
  BY <1>1, JournalLeft DEF AfterState, releasePhysical
<1> HIDE DEF i
<1> QED
  BY <1>1, <1>2 DEF ActionTyped, i

LEMMA StateKnown ==
  /\ \A d : StateOf(d) \in Journaled
  /\ \A d \in DeviceStates : StateOf(d) \in Journaled
  BY DEF StateOf, Journaled, ActionEnds

LEMMA TakesStep ==
  ASSUME BaseInv, NEW e \in Execs, NEW g \in Gens, boots' = boots, HandlerTakes(e, g)
  PROVE  HandlerStep(e, g)
<1>1. boots = 1 => skill[e] # "none" /\ ~Launching(e)
  BY HandlerOfAStarted DEF HandlerTakes
<1>2. TypedAt(e) /\ Domains
  BY DEF BaseInv, Base
<1>3. PICK who \in {"go", "stop"} : who = Head(worker[e][g].requests)
  BY <1>2 DEF HandlerTakes, TypedAt
<1>4. Tail(worker[e][g].requests) \in Seq({"go", "stop"})
  BY <1>2 DEF HandlerTakes, TypedAt
<1>5. worker[e][g][who] \in Answers
  BY <1>2, <1>3 DEF TypedAt
<1>6. /\ worker' = [worker EXCEPT ![e][g][who] = "busy", ![e][g].requests = Tail(@)]
      /\ handler' = [handler EXCEPT ![e][g] =
                       [pc |-> worker[e][g][who], who |-> who, req |-> worker[e][g][who], seen |-> skill[e]]]
  BY <1>3 DEF HandlerTakes
<1>7. HandlerOnly(e, g) /\ handler'[e][g].who \in {"go", "stop"} /\ handler'[e][g].pc \in Answers
      /\ handler'[e][g].seen = skill[e]
  BY <1>2, <1>5, <1>6 DEF Domains, TypedAt, HandlerOnly, HandlerIdle
<1>8. WorkerTyped(e, g)
  <2>1. CASE who = "go"
    BY <1>2, <1>4, <1>6, <2>1 DEF Domains, TypedAt, WorkerOnly, NoWorker, Answers, WorkerTyped
  <2>2. CASE who = "stop"
    BY <1>2, <1>4, <1>6, <2>2 DEF Domains, TypedAt, WorkerOnly, NoWorker, Answers, WorkerTyped
  <2> QED
    BY <2>1, <2>2
<1>9. HandlerTyped(e, g) /\ handler'[e][g].pc # "send"
  BY <1>2, <1>7 DEF HandlerTyped, TypedAt, Answers, Asked
<1>10. LiveTyped(e) /\ RowTyped(e) /\ ActionTyped(Act(e, g)) /\ HandlerFrame /\ sent' = sent /\ skill' = skill
  BY LiveLeft, RowLeft, ActionLeft DEF HandlerTakes, stored, HandlerFrame
<1> QED
  BY <1>1, <1>7, <1>8, <1>9, <1>10 DEF HandlerStep, Sending, OfAStarted

LEMMA CheckedStep ==
  ASSUME BaseInv, NEW e \in Execs, NEW g \in Gens, boots' = boots, ActionChecked(e, g)
  PROVE  HandlerStep(e, g)
<1>1. boots = 1 => skill[e] # "none" /\ ~Launching(e)
  BY HandlerOfAStarted DEF ActionChecked
<1>2. WorkerTyped(e, g) /\ HandlerTyped(e, g)
  BY WorkerLeft, Responded, HandlerWent DEF ActionChecked
<1>3. LiveTyped(e)
  BY LiveLeft, LiveRegistered, JournalLeft DEF ActionChecked
<1>4. RowTyped(e)
  BY RowLeft, RowSaved DEF ActionChecked, stored, SkillStatus, SkillEnds
<1>5. ActionTyped(Act(e, g))
  BY ActionLeft, JournalLeft DEF ActionChecked, ActionTyped, stored
<1>6. Sending(e, g)
  BY Responded, HandlerWent DEF ActionChecked, Sending, HandlerIdle
<1>7. OfAStarted(e, g)
  BY <1>1, Responded, HandlerWent, RowSaved DEF ActionChecked, OfAStarted, HandlerIdle, stored,
     SkillStatus, SkillEnds
<1> QED
  BY <1>2, <1>3, <1>4, <1>5, <1>6, <1>7 DEF ActionChecked, HandlerStep, HandlerFrame

LEMMA SavedStep ==
  ASSUME BaseInv, NEW e \in Execs, NEW g \in Gens, boots' = boots, ActionSaved(e, g)
  PROVE  HandlerStep(e, g)
<1>1. boots = 1 => skill[e] # "none" /\ ~Launching(e)
  BY HandlerOfAStarted DEF ActionSaved
<1>2. WorkerTyped(e, g) /\ HandlerTyped(e, g)
  BY WorkerLeft, Responded, HandlerWent DEF ActionSaved
<1>3. LiveTyped(e)
  BY LiveLeft, LiveRegistered, JournalLeft DEF ActionSaved
<1>4. RowTyped(e)
  BY RowLeft, RowSaved DEF ActionSaved, stored, SkillStatus, SkillEnds
<1>5. ActionTyped(Act(e, g)) /\ (CanJournal(Act(e, g)) => journal'[Act(e, g)] = "accepted")
  <2>1. CASE CanJournal(Act(e, g))
    BY <2>1, JournalWritten DEF ActionSaved, Journaled
  <2>2. CASE ~CanJournal(Act(e, g))
    BY <2>2, ActionLeft DEF ActionSaved
  <2> QED
    BY <2>1, <2>2
<1>6. Sending(e, g)
  <2>1. CASE CanJournal(Act(e, g))
    BY <1>5, <2>1, HandlerWent DEF ActionSaved, Sending, CanJournal
  <2>2. CASE ~CanJournal(Act(e, g))
    BY <2>2, Responded DEF ActionSaved, Sending, HandlerIdle
  <2> QED
    BY <2>1, <2>2
<1>7. OfAStarted(e, g)
  BY <1>1, Responded, HandlerWent, RowSaved DEF ActionSaved, OfAStarted, HandlerIdle, stored,
     SkillStatus, SkillEnds
<1> QED
  BY <1>2, <1>3, <1>4, <1>5, <1>6, <1>7 DEF ActionSaved, HandlerStep, HandlerFrame

LEMMA SentStep ==
  ASSUME BaseInv, NEW e \in Execs, NEW g \in Gens, boots' = boots, ActionSent(e, g)
  PROVE  HandlerStep(e, g)
<1>1. boots = 1 => skill[e] # "none" /\ ~Launching(e)
  BY HandlerOfAStarted DEF ActionSent
<1>2. WorkerTyped(e, g) /\ HandlerTyped(e, g)
  BY WorkerLeft, Responded, HandlerWent DEF ActionSent
<1>3. LiveTyped(e)
  BY LiveLeft, LiveRegistered, JournalLeft DEF ActionSent
<1>4. RowTyped(e)
  BY RowLeft, RowSaved DEF ActionSent, stored, SkillStatus, SkillEnds
<1>5. ActionTyped(Act(e, g)) /\ (sent' = sent \/ sent'[Act(e, g)] = sent[Act(e, g)] + 1)
  <2>1. Act(e, g) \in Invocations /\ DOMAIN sent = Invocations /\ DOMAIN device = Invocations
        /\ DOMAIN journal = Invocations
        /\ owner \in Invocations \cup {None} /\ device[Act(e, g)] \in DeviceStates
    BY JournalLeft
  <2>2. device' = device \/ device' = [device EXCEPT ![Act(e, g)] = "moving"]
    BY DEF ActionSent
  <2>3. sent' = sent \/ sent' = [sent EXCEPT ![Act(e, g)] = @ + 1]
    BY DEF ActionSent
  <2>4. journal' = journal /\ owner' = owner
    BY DEF ActionSent, stored
  <2> QED
    BY <2>1, <2>2, <2>3, <2>4 DEF ActionTyped, DeviceStates
<1>6. Sending(e, g)
  <2>1. handler[e][g].pc = "send" /\ handler'[e][g].pc = "sent"
    BY HandlerWent DEF ActionSent
  <2> QED
    BY <1>5, <2>1 DEF Sending
<1>7. OfAStarted(e, g)
  BY <1>1, Responded, HandlerWent, RowSaved DEF ActionSent, OfAStarted, HandlerIdle, stored,
     SkillStatus, SkillEnds
<1> QED
  BY <1>2, <1>3, <1>4, <1>5, <1>6, <1>7 DEF ActionSent, HandlerStep, HandlerFrame

LEMMA StartedStep ==
  ASSUME BaseInv, NEW e \in Execs, NEW g \in Gens, boots' = boots, ActionStarted(e, g)
  PROVE  HandlerStep(e, g)
<1>1. boots = 1 => skill[e] # "none" /\ ~Launching(e)
  BY HandlerOfAStarted DEF ActionStarted
<1>2. WorkerTyped(e, g) /\ HandlerTyped(e, g) /\ handler'[e][g].pc = "idle"
  BY WorkerLeft, Responded, HandlerWent DEF ActionStarted
<1>3. LiveTyped(e)
  BY LiveLeft, LiveRegistered, JournalLeft DEF ActionStarted
<1>4. RowTyped(e)
  BY RowLeft, RowSaved DEF ActionStarted, stored, SkillStatus, SkillEnds
<1>5. ActionTyped(Act(e, g))
  <2>1. \E s \in Journaled : /\ journal' = [journal EXCEPT ![Act(e, g)] = s]
                           /\ owner' \in {owner, None, AfterState(Act(e, g), s)}
    BY StateKnown DEF ActionStarted, markInterrupted, Journaled, ActionEnds
  <2> QED
    BY <2>1, JournalWritten DEF ActionStarted
<1>6. Sending(e, g)
  <2>1. sent' = sent /\ handler'[e][g].pc # "send"
    BY <1>2 DEF ActionStarted, stored
  <2> QED
    BY <2>1 DEF Sending
<1>7. OfAStarted(e, g)
  <2>1. skill' = skill /\ handler'[e][g].pc # "note"
    BY <1>2 DEF ActionStarted, stored
  <2> QED
    BY <1>1, <2>1 DEF OfAStarted
<1> QED
  BY <1>2, <1>3, <1>4, <1>5, <1>6, <1>7 DEF ActionStarted, HandlerStep, HandlerFrame

LEMMA QueriedStep ==
  ASSUME BaseInv, NEW e \in Execs, NEW g \in Gens, boots' = boots, ActionQueried(e, g)
  PROVE  HandlerStep(e, g)
<1>1. boots = 1 => skill[e] # "none" /\ ~Launching(e)
  BY HandlerOfAStarted DEF ActionQueried
<1>2. WorkerTyped(e, g) /\ HandlerTyped(e, g) /\ handler'[e][g].pc \in {"idle", "state"}
  <2>1. CASE journal[Act(e, g)] \in ActionEnds
    BY <2>1, Responded DEF ActionQueried, HandlerIdle
  <2>2. CASE journal[Act(e, g)] \notin ActionEnds
    BY <2>2, WorkerLeft, HandlerWent, StateKnown DEF ActionQueried, AbilityAsked
  <2> QED
    BY <2>1, <2>2
<1>3. LiveTyped(e)
  <2>1. PICK k \in Keys : k = Act(e, g)[2]
    BY JournalLeft
  <2>2. \/ live' = live
        \/ live' = [live EXCEPT ![e].acts = @ \ {k}]
        \/ live' = [live EXCEPT ![e].acts = @ \cup {k}, ![e].moved = TRUE]
    BY <2>1 DEF ActionQueried
  <2>3. live' = [live EXCEPT ![e].acts = @ \cup {k}, ![e].moved = TRUE] => LiveTyped(e)
    BY DEF BaseInv, Domains, Base, TypedAt, NotLive, LiveTyped
  <2> QED
    BY <2>2, <2>3, LiveLeft, LiveRegistered
<1>4. RowTyped(e)
  BY RowLeft, RowSaved DEF ActionQueried, stored, SkillStatus, SkillEnds
<1>5. ActionTyped(Act(e, g))
  BY ActionLeft, JournalLeft DEF ActionQueried, ActionTyped, stored
<1>6. Sending(e, g)
  BY <1>2 DEF ActionQueried, Sending
<1>7. OfAStarted(e, g)
  BY <1>1, <1>2 DEF ActionQueried, OfAStarted, stored
<1> QED
  BY <1>2, <1>3, <1>4, <1>5, <1>6, <1>7 DEF ActionQueried, HandlerStep, HandlerFrame

LEMMA RefreshedStep ==
  ASSUME BaseInv, NEW e \in Execs, NEW g \in Gens, boots' = boots, ActionRefreshed(e, g)
  PROVE  HandlerStep(e, g)
<1>1. boots = 1 => skill[e] # "none" /\ ~Launching(e)
  BY HandlerOfAStarted DEF ActionRefreshed
<1>2. WorkerTyped(e, g) /\ HandlerTyped(e, g) /\ handler'[e][g].pc \in {"idle", "result"}
  <2>1. \/ \E r : Responds(e, g, r)
        \/ HandlerAt(e, g, "result", "none") /\ worker' = worker
    BY DEF ActionRefreshed
  <2> QED
    BY <2>1, WorkerLeft, Responded, HandlerWent
<1>3. LiveTyped(e)
  BY LiveLeft, LiveRegistered, JournalLeft DEF ActionRefreshed
<1>4. RowTyped(e)
  BY RowLeft, RowSaved DEF ActionRefreshed, stored, SkillStatus, SkillEnds
<1>5. ActionTyped(Act(e, g))
  <2>1. handler[e][g].seen \in Journaled \cup {"error"}
    BY DEF BaseInv, Base, TypedAt, ActionRefreshed
  <2>2. \E s \in Journaled : /\ journal' = [journal EXCEPT ![Act(e, g)] = s]
                           /\ owner' = AfterState(Act(e, g), s)
    BY <2>1 DEF ActionRefreshed, Journaled, ActionEnds
  <2> QED
    BY <2>2, JournalWritten DEF ActionRefreshed
<1>6. Sending(e, g)
  <2>1. sent' = sent /\ handler'[e][g].pc # "send"
    BY <1>2 DEF ActionRefreshed, stored
  <2> QED
    BY <2>1 DEF Sending
<1>7. OfAStarted(e, g)
  <2>1. skill' = skill /\ handler'[e][g].pc # "note"
    BY <1>2 DEF ActionRefreshed, stored
  <2> QED
    BY <1>1, <2>1 DEF OfAStarted
<1> QED
  BY <1>2, <1>3, <1>4, <1>5, <1>6, <1>7 DEF ActionRefreshed, HandlerStep, HandlerFrame

LEMMA WrittenStep ==
  ASSUME BaseInv, NEW e \in Execs, NEW g \in Gens, boots' = boots, RowWrittenBack(e, g)
  PROVE  HandlerStep(e, g)
<1>1. boots = 1 => skill[e] # "none" /\ ~Launching(e)
  BY HandlerOfAStarted DEF RowWrittenBack
<1>2. WorkerTyped(e, g) /\ HandlerTyped(e, g)
  BY WorkerLeft, Responded, HandlerWent DEF RowWrittenBack
<1>3. LiveTyped(e)
  BY LiveLeft, LiveRegistered, JournalLeft DEF RowWrittenBack
<1>4. RowTyped(e) /\ skill'[e] \in {skill[e], handler[e][g].seen}
  <2>1. handler[e][g].seen \in SkillStatus
    BY DEF BaseInv, Base, TypedAt, RowWrittenBack
  <2> QED
    BY <2>1, RowSaved DEF RowWrittenBack
<1>5. ActionTyped(Act(e, g))
  BY ActionLeft, JournalLeft DEF RowWrittenBack, ActionTyped, stored
<1>6. Sending(e, g)
  BY Responded, HandlerWent DEF RowWrittenBack, Sending, HandlerIdle
<1>7. OfAStarted(e, g)
  <2>1. boots = 1 => handler[e][g].seen # "none"
    BY DEF BaseInv, Base, Known, RowWrittenBack
  <2>2. handler'[e][g].pc # "note"
    BY Responded DEF RowWrittenBack, HandlerIdle
  <2> QED
    BY <1>1, <1>4, <2>1, <2>2 DEF OfAStarted
<1> QED
  BY <1>2, <1>3, <1>4, <1>5, <1>6, <1>7 DEF RowWrittenBack, HandlerStep, HandlerFrame

LEMMA OutcomeStep ==
  ASSUME BaseInv, NEW e \in Execs, NEW g \in Gens, boots' = boots, OutcomeSaved(e, g)
  PROVE  HandlerStep(e, g)
<1>1. boots = 1 => skill[e] # "none" /\ ~Launching(e)
  BY HandlerOfAStarted DEF OutcomeSaved
<1>2. WorkerTyped(e, g) /\ HandlerTyped(e, g)
  BY WorkerLeft, Responded, HandlerWent DEF OutcomeSaved
<1>3. LiveTyped(e)
  BY LiveLeft, LiveRegistered, JournalLeft DEF OutcomeSaved
<1>4. RowTyped(e)
  BY JournalLeft DEF OutcomeSaved, RowTyped
<1>5. ActionTyped(Act(e, g))
  BY ActionLeft, JournalLeft DEF OutcomeSaved, ActionTyped, stored
<1>6. Sending(e, g)
  BY Responded, HandlerWent DEF OutcomeSaved, Sending, HandlerIdle
<1>7. OfAStarted(e, g)
  BY <1>1, Responded, HandlerWent, RowSaved DEF OutcomeSaved, OfAStarted, HandlerIdle, stored,
     SkillStatus, SkillEnds
<1> QED
  BY <1>2, <1>3, <1>4, <1>5, <1>6, <1>7 DEF OutcomeSaved, HandlerStep, HandlerFrame

LEMMA AskedStep ==
  ASSUME BaseInv, NEW e \in Execs, NEW g \in Gens, boots' = boots, AgentAsked(e, g)
  PROVE  HandlerStep(e, g)
<1>1. boots = 1 => skill[e] # "none" /\ ~Launching(e)
  BY HandlerOfAStarted DEF AgentAsked
<1>2. WorkerTyped(e, g) /\ HandlerTyped(e, g)
  BY WorkerLeft, Responded, HandlerWent DEF AgentAsked
<1>3. LiveTyped(e)
  BY LiveLeft, LiveRegistered, JournalLeft DEF AgentAsked
<1>4. RowTyped(e)
  BY RowLeft, RowSaved DEF AgentAsked, stored, SkillStatus, SkillEnds
<1>5. ActionTyped(Act(e, g))
  BY ActionLeft, JournalLeft DEF AgentAsked, ActionTyped, stored
<1>6. Sending(e, g)
  BY Responded, HandlerWent DEF AgentAsked, Sending, HandlerIdle
<1>7. OfAStarted(e, g)
  BY <1>1, Responded, HandlerWent, RowSaved DEF AgentAsked, OfAStarted, HandlerIdle, stored,
     SkillStatus, SkillEnds
<1> QED
  BY <1>2, <1>3, <1>4, <1>5, <1>6, <1>7 DEF AgentAsked, HandlerStep, HandlerFrame

LEMMA WaitsStep ==
  ASSUME BaseInv, NEW e \in Execs, NEW g \in Gens, boots' = boots, AgentWaits(e, g)
  PROVE  HandlerStep(e, g)
<1>1. boots = 1 => skill[e] # "none" /\ ~Launching(e)
  BY HandlerOfAStarted DEF AgentWaits
<1>2. WorkerTyped(e, g) /\ HandlerTyped(e, g)
  BY WorkerLeft, Responded, HandlerWent DEF AgentWaits
<1>3. LiveTyped(e)
  BY LiveLeft, LiveRegistered, JournalLeft DEF AgentWaits
<1>4. RowTyped(e)
  BY RowLeft, RowSaved DEF AgentWaits, stored, SkillStatus, SkillEnds
<1>5. ActionTyped(Act(e, g))
  BY ActionLeft, JournalLeft DEF AgentWaits, ActionTyped, stored
<1>6. Sending(e, g)
  BY Responded, HandlerWent DEF AgentWaits, Sending, HandlerIdle
<1>7. OfAStarted(e, g)
  BY <1>1, Responded, HandlerWent, RowSaved DEF AgentWaits, OfAStarted, HandlerIdle, stored,
     SkillStatus, SkillEnds
<1> QED
  BY <1>2, <1>3, <1>4, <1>5, <1>6, <1>7 DEF AgentWaits, HandlerStep, HandlerFrame

LEMMA RepliesStep ==
  ASSUME BaseInv, NEW e \in Execs, NEW g \in Gens, boots' = boots, AgentReplies(e, g)
  PROVE  HandlerStep(e, g)
<1>1. boots = 1 => skill[e] # "none" /\ ~Launching(e)
  BY HandlerOfAStarted DEF AgentReplies
<1>2. WorkerTyped(e, g) /\ HandlerTyped(e, g)
  BY WorkerLeft, Responded, HandlerWent DEF AgentReplies
<1>3. LiveTyped(e)
  BY LiveLeft, LiveRegistered, JournalLeft DEF AgentReplies
<1>4. RowTyped(e)
  BY RowLeft, RowSaved DEF AgentReplies, stored, SkillStatus, SkillEnds
<1>5. ActionTyped(Act(e, g))
  BY ActionLeft, JournalLeft DEF AgentReplies, ActionTyped, stored
<1>6. Sending(e, g)
  BY Responded, HandlerWent DEF AgentReplies, Sending, HandlerIdle
<1>7. OfAStarted(e, g)
  BY <1>1, Responded, HandlerWent, RowSaved DEF AgentReplies, OfAStarted, HandlerIdle, stored,
     SkillStatus, SkillEnds
<1> QED
  BY <1>2, <1>3, <1>4, <1>5, <1>6, <1>7 DEF AgentReplies, HandlerStep, HandlerFrame

LEMMA AnsweredStep ==
  ASSUME BaseInv, NEW e \in Execs, NEW g \in Gens, boots' = boots, AgentAnswered(e, g)
  PROVE  HandlerStep(e, g)
<1>1. boots = 1 => skill[e] # "none" /\ ~Launching(e)
  BY HandlerOfAStarted DEF AgentAnswered
<1>2. WorkerTyped(e, g) /\ HandlerTyped(e, g)
  BY WorkerLeft, Responded, HandlerWent DEF AgentAnswered
<1>3. LiveTyped(e)
  BY LiveLeft, LiveRegistered, JournalLeft DEF AgentAnswered
<1>4. RowTyped(e)
  BY RowLeft, RowSaved DEF AgentAnswered, stored, SkillStatus, SkillEnds
<1>5. ActionTyped(Act(e, g))
  BY ActionLeft, JournalLeft DEF AgentAnswered, ActionTyped, stored
<1>6. Sending(e, g)
  BY Responded, HandlerWent DEF AgentAnswered, Sending, HandlerIdle
<1>7. OfAStarted(e, g)
  BY <1>1, Responded, HandlerWent, RowSaved DEF AgentAnswered, OfAStarted, HandlerIdle, stored,
     SkillStatus, SkillEnds
<1> QED
  BY <1>2, <1>3, <1>4, <1>5, <1>6, <1>7 DEF AgentAnswered, HandlerStep, HandlerFrame

LEMMA HandlingKeeps ==
  ASSUME BaseInv, NEW e \in Execs, NEW g \in Gens, boots' = boots,
         Handling(e, g) \/ AgentReplies(e, g)
  PROVE  HandlerStep(e, g)
  BY TakesStep, CheckedStep, SavedStep, SentStep, StartedStep, QueriedStep, RefreshedStep,
     WrittenStep, OutcomeStep, AskedStep, WaitsStep, RepliesStep, AnsweredStep DEF Handling

-----------------------------------------------------------------------------
(* The steps of Workers, of runWorker and of commands.                      *)

LiveOnly(e) ==
  /\ DOMAIN live' = Execs /\ \A f \in Execs \ {e} : live'[f] = live[f]
  /\ DOMAIN live'[e] = DOMAIN NotLive /\ live'[e].acts \subseteq Keys /\ live'[e].gen \in {0, 1, 2}
WorkersOnly(e) ==
  /\ DOMAIN worker' = Execs /\ DOMAIN worker'[e] = Gens
  /\ \A f \in Execs \ {e} : worker'[f] = worker[f]
  /\ \A g \in Gens :
       /\ DOMAIN worker'[e][g] = DOMAIN NoWorker /\ worker'[e][g].requests \in Seq({"go", "stop"})
       /\ worker'[e][g].go \in Answers /\ worker'[e][g].stop \in Answers
HandlersOnly(e) ==
  /\ DOMAIN handler' = Execs /\ DOMAIN handler'[e] = Gens
  /\ \A f \in Execs \ {e} : handler'[f] = handler[f]
  /\ \A g \in Gens :
       /\ DOMAIN handler'[e][g] = DOMAIN HandlerIdle
       /\ handler'[e][g].who = handler[e][g].who /\ handler'[e][g].pc = handler[e][g].pc
       /\ handler[e][g].pc # "wait" => handler'[e][g] = handler[e][g]
RunsOnly(e) ==
  /\ DOMAIN run' = Execs /\ DOMAIN run'[e] = Gens /\ \A f \in Execs \ {e} : run'[f] = run[f]
  /\ DOMAIN told' = Execs /\ \A f \in Execs \ {e} : told'[f] = told[f]
ActionsOnly(e) ==
  /\ DOMAIN journal' = Invocations /\ DOMAIN device' = Invocations /\ sent' = sent
  /\ owner' \in Invocations \cup {None}
  /\ \A f \in Execs \ {e}, k \in Keys :
       journal'[<<f, k>>] = journal[<<f, k>>] /\ device'[<<f, k>>] = device[<<f, k>>]
  /\ \A k \in Keys : /\ journal'[<<e, k>>] \in {journal[<<e, k>>]} \cup Journaled
                     /\ device'[<<e, k>>] \in DeviceStates
CommandOf(e) ==
  /\ CommandTyped' /\ boots' = boots
  /\ \A f \in Execs \ {e} : (Launching(f)' => Launching(f)) /\ (InStop(f)' => InStop(f))
Changes(e) ==
  /\ RowTyped(e) /\ LiveOnly(e) /\ WorkersOnly(e) /\ HandlersOnly(e) /\ RunsOnly(e)
  /\ ActionsOnly(e) /\ CommandOf(e) /\ (boots = 1 => Known(e)')

LEMMA SentStays ==
  ASSUME NEW e \in Execs, SentOnce(e),
         \A k \in Keys : /\ sent'[<<e, k>>] = sent[<<e, k>>]
                         /\ journal[<<e, k>>] # "none" => journal'[<<e, k>>] # "none",
         \A g \in Gens : handler'[e][g].pc = "send" =>
                          handler[e][g].pc = "send" /\ handler'[e][g].who = handler[e][g].who
  PROVE  SentOnce(e)'
<1>1. \A g \in Gens : handler'[e][g].who = handler[e][g].who => Act(e, g)' = Act(e, g)
  BY DEF Act, KeyOf
<1>2. \A g \in Gens : \E k \in Keys : Act(e, g) = <<e, k>>
  BY KeyKnown
<1>3. \A g \in Gens : handler'[e][g].pc = "send" =>
                       journal'[Act(e, g)'] # "none" /\ sent'[Act(e, g)'] = 0
  <2> SUFFICES ASSUME NEW g \in Gens, handler'[e][g].pc = "send"
               PROVE  journal'[Act(e, g)'] # "none" /\ sent'[Act(e, g)'] = 0
    OBVIOUS
  <2>1. PICK k \in Keys : Act(e, g) = <<e, k>>
    BY <1>2
  <2>2. Act(e, g)' = <<e, k>> /\ handler[e][g].pc = "send"
    BY <1>1, <2>1
  <2> QED
    BY <2>1, <2>2 DEF SentOnce
<1>4. ~(handler'[e][1].pc = "send" /\ handler'[e][2].pc = "send" /\ Act(e, 1)' = Act(e, 2)')
  BY <1>1 DEF SentOnce, Gens
<1>5. ASSUME NEW k \in Keys
      PROVE  sent'[<<e, k>>] <= 1 /\ (journal'[<<e, k>>] = "none" => sent'[<<e, k>>] = 0)
  <2>1. sent[<<e, k>>] <= 1 /\ (journal[<<e, k>>] = "none" => sent[<<e, k>>] = 0)
    BY DEF SentOnce
  <2>2. sent'[<<e, k>>] = sent[<<e, k>>] /\ (journal[<<e, k>>] # "none" => journal'[<<e, k>>] # "none")
    OBVIOUS
  <2> QED
    BY <2>1, <2>2
<1> QED
  BY <1>3, <1>4, <1>5 DEF SentOnce

LEMMA ChangesKeep ==
  ASSUME BaseInv, NEW e \in Execs, Changes(e)
  PROVE  BaseInv'
<1>1. Domains'
  BY DEF BaseInv, Domains, Changes, RowTyped, LiveOnly, WorkersOnly, HandlersOnly, RunsOnly,
         ActionsOnly, CommandOf
<1>2. TypedAt(e)'
  <2>1. skill'[e] \in SkillStatus /\ DOMAIN live'[e] = DOMAIN NotLive /\ live'[e].acts \subseteq Keys
        /\ live'[e].gen \in {0, 1, 2} /\ DOMAIN worker'[e] = Gens /\ DOMAIN handler'[e] = Gens
        /\ DOMAIN run'[e] = Gens
    BY DEF Changes, RowTyped, LiveOnly, WorkersOnly, HandlersOnly, RunsOnly
  <2>2. \A k \in Keys : /\ journal'[<<e, k>>] \in Journaled \cup {"none"}
                        /\ device'[<<e, k>>] \in DeviceStates /\ sent'[<<e, k>>] \in Nat
    BY DEF BaseInv, Base, TypedAt, Changes, ActionsOnly
  <2>3. \A g \in Gens :
       /\ DOMAIN worker'[e][g] = DOMAIN NoWorker /\ worker'[e][g].requests \in Seq({"go", "stop"})
       /\ worker'[e][g].go \in Answers /\ worker'[e][g].stop \in Answers
    BY DEF Changes, WorkersOnly
  <2>4. \A g \in Gens :
       /\ DOMAIN handler'[e][g] = DOMAIN HandlerIdle /\ handler'[e][g].who \in {"go", "stop"}
       /\ handler'[e][g].pc = "note" => handler'[e][g].seen \in SkillStatus
       /\ handler'[e][g].pc = "state" => handler'[e][g].seen \in Journaled \cup {"error"}
    BY DEF BaseInv, Base, TypedAt, Changes, HandlersOnly
  <2> QED
    BY <2>1, <2>2, <2>3, <2>4 DEF TypedAt
<1>3. SentOnce(e)'
  <2>1. \A k \in Keys : /\ sent'[<<e, k>>] = sent[<<e, k>>]
                        /\ journal[<<e, k>>] # "none" => journal'[<<e, k>>] # "none"
    BY DEF Changes, ActionsOnly, Journaled, ActionEnds
  <2>2. \A g \in Gens : handler'[e][g].pc = "send" =>
                          handler[e][g].pc = "send" /\ handler'[e][g].who = handler[e][g].who
    BY DEF Changes, HandlersOnly
  <2> QED
    BY <2>1, <2>2, SentStays DEF BaseInv, Base
<1>4. \A f \in Execs \ {e} : /\ Apart(f) /\ boots' = boots
                             /\ (Launching(f)' => Launching(f)) /\ (InStop(f)' => InStop(f))
  BY DEF Changes, RowTyped, LiveOnly, WorkersOnly, HandlersOnly, RunsOnly, ActionsOnly,
     CommandOf, Apart
<1>5. \A f \in Execs \ {e} : Base(f)'
  BY <1>4, BystandersStay DEF BaseInv
<1>6. boots' = boots
  BY DEF Changes, CommandOf
<1> QED
  BY <1>1, <1>2, <1>3, <1>5, <1>6 DEF BaseInv, Base, Changes

LEMMA PartsLeft ==
  ASSUME BaseInv, NEW e \in Execs
  PROVE  /\ live' = live => LiveOnly(e)
         /\ worker' = worker => WorkersOnly(e)
         /\ handler' = handler => HandlersOnly(e)
         /\ UNCHANGED <<run, told>> => RunsOnly(e)
         /\ UNCHANGED <<journal, device, sent, owner>> => ActionsOnly(e)
         /\ cmd' = cmd /\ boots' = boots => CommandOf(e)
         /\ cmd' = CmdIdle /\ boots' = boots => CommandOf(e)
<1> USE DEF BaseInv, Domains, Base, TypedAt
<1>1. live' = live => LiveOnly(e)
  BY DEF LiveOnly
<1>2. worker' = worker => WorkersOnly(e)
  BY DEF WorkersOnly
<1>3. handler' = handler => HandlersOnly(e)
  BY DEF HandlersOnly
<1>4. UNCHANGED <<run, told>> => RunsOnly(e)
  BY DEF RunsOnly
<1>5. UNCHANGED <<journal, device, sent, owner>> => ActionsOnly(e)
  BY DEF ActionsOnly
<1>6. cmd' = cmd /\ boots' = boots => CommandOf(e)
  BY DEF CommandOf, CommandTyped, Launching, InStop
<1>7. cmd' = CmdIdle /\ boots' = boots => CommandOf(e)
  BY DEF CommandOf, CommandTyped, Launching, InStop, CmdIdle
<1> QED
  BY <1>1, <1>2, <1>3, <1>4, <1>5, <1>6, <1>7

LEMMA WorkersKilled ==
  ASSUME BaseInv, NEW e \in Execs, NEW g \in Gens
  PROVE  /\ worker' = Killed(e) => WorkersOnly(e)
         /\ worker' = KilledGen(e, g) => WorkersOnly(e)
<1> USE DEF BaseInv, Domains, Base, TypedAt, WorkersOnly, NoWorker
<1>1. worker' = Killed(e) => WorkersOnly(e)
  BY DEF Killed
<1>2. worker' = KilledGen(e, g) => WorkersOnly(e)
  BY DEF KilledGen
<1> QED
  BY <1>1, <1>2

LEMMA LiveGone ==
  ASSUME BaseInv, NEW e \in Execs
  PROVE  /\ live' = Gone(e) => LiveOnly(e)
         /\ live' = [live EXCEPT ![e].cancelled = TRUE] => LiveOnly(e)
         /\ live' = [live EXCEPT ![e].stopping = TRUE] => LiveOnly(e)
         /\ live' = [live EXCEPT ![e].gen = 2] => LiveOnly(e)
<1> USE DEF BaseInv, Domains, Base, TypedAt, LiveOnly, NotLive
<1>1. live' = Gone(e) => LiveOnly(e)
  BY DEF Gone
<1>2. live' = [live EXCEPT ![e].cancelled = TRUE] => LiveOnly(e)
  OBVIOUS
<1>3. live' = [live EXCEPT ![e].stopping = TRUE] => LiveOnly(e)
  OBVIOUS
<1>4. live' = [live EXCEPT ![e].gen = 2] => LiveOnly(e)
  OBVIOUS
<1> QED
  BY <1>1, <1>2, <1>3, <1>4

LEMMA KnownStays ==
  ASSUME BaseInv, NEW e \in Execs, boots = 1, HandlersOnly(e), skill'[e] # "none", ~Launching(e)'
  PROVE  Known(e)'
  BY DEF BaseInv, Base, Known, HandlersOnly

\* A Worker that is on, runWorker and the command loop are those of a started Execution.
LEMMA RunsOfAStarted ==
  ASSUME BaseInv, NEW e \in Execs, NEW g \in Gens, boots = 1,
         worker[e][g].on \/ run[e][g] # "none"
  PROVE  skill[e] # "none" /\ ~Launching(e)
  BY DEF BaseInv, Base, Known, Untouched, NoWorker

LEMMA WorkerSteps ==
  ASSUME BaseInv, NEW e \in Execs, NEW g \in Gens, boots' = boots,
         \/ \E req \in {"start", "result", "ask", "note"} : WorkerAsks(e, g, req)
         \/ WorkerReturns(e, g) \/ WorkerHolds(e, g) \/ WorkerDies(e, g)
  PROVE  Changes(e)
<1>1. worker[e][g].on
  BY DEF WorkerAsks, WorkerReturns, WorkerHolds, WorkerDies
<1>2. UNCHANGED <<stored, device, sent, robot, owner, live, handler, run, cmd, told, exit>>
  BY DEF WorkerAsks, WorkerReturns, WorkerHolds, WorkerDies
<1>3. WorkersOnly(e)
  <2>1. DOMAIN worker = Execs /\ DOMAIN worker[e] = Gens
        /\ \A k \in Gens :
            /\ DOMAIN worker[e][k] = DOMAIN NoWorker /\ worker[e][k].requests \in Seq({"go", "stop"})
            /\ worker[e][k].go \in Answers /\ worker[e][k].stop \in Answers
    BY DEF BaseInv, Domains, Base, TypedAt
  <2>2. ASSUME NEW req \in {"start", "result", "ask", "note"}, WorkerAsks(e, g, req)
        PROVE  WorkersOnly(e)
    BY <2>1, <2>2 DEF WorkerAsks, WorkersOnly, NoWorker, Answers, Asked
  <2>3. CASE WorkerReturns(e, g)
    BY <2>1, <2>3 DEF WorkerReturns, WorkersOnly, NoWorker, Answers
  <2>4. CASE WorkerHolds(e, g)
    <3>1. PICK a \in {"start", "result", "outcome"} :
            worker' = [worker EXCEPT ![e][g].stop = a, ![e][g].requests = Append(@, "stop")]
      <4> DEFINE a == CASE worker[e][g].hold = 0 -> "start"
                        [] worker[e][g].hold = 1 -> "result"
                        [] OTHER -> "outcome"
      <4>1. a \in {"start", "result", "outcome"}
        OBVIOUS
      <4>2. worker' = [worker EXCEPT ![e][g].stop = a, ![e][g].requests = Append(@, "stop")]
        BY <2>4 DEF WorkerHolds
      <4> QED
        BY <4>1, <4>2
    <3> QED
      BY <2>1, <3>1 DEF WorkersOnly, NoWorker, Answers, Asked
  <2>5. CASE WorkerDies(e, g)
    BY <2>5, WorkersKilled DEF WorkerDies
  <2> QED
    BY <2>2, <2>3, <2>4, <2>5
<1>4. RowTyped(e) /\ LiveOnly(e) /\ HandlersOnly(e) /\ RunsOnly(e) /\ ActionsOnly(e) /\ CommandOf(e)
  BY <1>2, PartsLeft, RowLeft DEF stored
<1>5. boots = 1 => Known(e)'
  BY <1>1, <1>2, <1>4, RunsOfAStarted, KnownStays DEF stored, Launching
<1> QED
  BY <1>3, <1>4, <1>5 DEF Changes

LEMMA DeviceStep ==
  ASSUME BaseInv, NEW e \in Execs, NEW k \in Keys, boots' = boots, DeviceEnds(<<e, k>>)
  PROVE  Changes(e)
<1>1. UNCHANGED <<stored, sent, robot, owner, live, worker, handler, run, cmd, told>>
  BY DEF DeviceEnds
<1>2. ActionsOnly(e)
  <2>1. PICK d \in {"done", "broken"} : device' = [device EXCEPT ![<<e, k>>] = d]
    BY DEF DeviceEnds
  <2> QED
    BY <1>1, <2>1 DEF BaseInv, Domains, Base, TypedAt, ActionsOnly, stored, Invocations,
       DeviceStates
<1>3. RowTyped(e) /\ LiveOnly(e) /\ WorkersOnly(e) /\ HandlersOnly(e) /\ RunsOnly(e) /\ CommandOf(e)
  BY <1>1, PartsLeft, RowLeft DEF stored
<1>4. boots = 1 => Known(e)'
  BY <1>1 DEF BaseInv, Base, Known, Untouched, stored, Launching, InStop
<1> QED
  BY <1>2, <1>3, <1>4 DEF Changes

EndTyped(e) ==
  /\ RowTyped(e) /\ LiveOnly(e) /\ WorkersOnly(e)
  /\ DOMAIN told' = Execs /\ \A f \in Execs \ {e} : told'[f] = told[f]
  /\ skill[e] # "none" => skill'[e] # "none"

LEMMA EndsTyped ==
  ASSUME BaseInv, NEW e \in Execs, NEW s \in {"completed", "failed"}, Ends(e, s), evidence' = evidence
  PROVE  EndTyped(e)
<1>1. RowTyped(e) /\ skill'[e] # "none"
  BY RowSaved DEF Ends, Saved, SkillStatus, SkillEnds, BaseInv, Domains
<1>2. LiveOnly(e) /\ WorkersOnly(e)
  BY LiveGone, WorkersKilled DEF Ends, Gens
<1> QED
  BY <1>1, <1>2 DEF Ends, BaseInv, Domains, EndTyped

LEMMA InterruptsTyped ==
  ASSUME BaseInv, NEW e \in Execs, Interrupts(e), evidence' = evidence
  PROVE  EndTyped(e)
<1>1. RowTyped(e) /\ skill'[e] # "none"
  BY RowSaved DEF Interrupts, Saved, SkillStatus, SkillEnds, BaseInv, Domains
<1>2. LiveOnly(e) /\ WorkersOnly(e)
  BY PartsLeft DEF Interrupts
<1> QED
  BY <1>1, <1>2 DEF Interrupts, BaseInv, Domains, EndTyped

LEMMA RunSteps ==
  ASSUME BaseInv, NEW e \in Execs, NEW g \in Gens, boots' = boots, Running(e, g)
  PROVE  Changes(e)
<1>1. run[e][g] # "none"
  BY DEF Running, RunEnds, RunFails, RunRestarts, RunGivesUp
<1>2. UNCHANGED <<evidence, journal, device, sent, owner, handler, cmd>>
  BY DEF Running, RunEnds, RunFails, RunRestarts, RunGivesUp, stored
<1>3. HandlersOnly(e) /\ ActionsOnly(e) /\ CommandOf(e)
  BY <1>2, PartsLeft
<1>4. DOMAIN run' = Execs /\ DOMAIN run'[e] = Gens /\ \A f \in Execs \ {e} : run'[f] = run[f]
  BY DEF Running, RunEnds, RunFails, RunRestarts, RunGivesUp, BaseInv, Domains, Base, TypedAt
<1>5. \/ Interrupts(e) \/ \E s \in {"completed", "failed"} : Ends(e, s)
      \/ UNCHANGED <<skill, told, live, robot, worker>>
      \/ RunRestarts(e, g)
  BY DEF Running, RunEnds, RunFails, RunGivesUp, stored
<1>6. RunRestarts(e, g) => LiveOnly(e) /\ WorkersOnly(e)
  <2> SUFFICES ASSUME RunRestarts(e, g)
               PROVE  LiveOnly(e) /\ WorkersOnly(e)
    OBVIOUS
  <2>1. LiveOnly(e)
    BY LiveGone DEF RunRestarts
  <2>2. worker' = [worker EXCEPT ![e][2] = FreshWorker]
    BY DEF RunRestarts
  <2>3. WorkersOnly(e)
    BY <2>2 DEF BaseInv, Domains, Base, TypedAt, WorkersOnly, FreshWorker, NoWorker, Gens, Answers
  <2> QED
    BY <2>1, <2>3
<1>7. EndTyped(e)
  <2>1. CASE Interrupts(e)
    BY <1>2, <2>1, InterruptsTyped
  <2>2. ASSUME NEW s \in {"completed", "failed"}, Ends(e, s)
        PROVE  EndTyped(e)
    BY <1>2, <2>2, EndsTyped
  <2>3. CASE UNCHANGED <<skill, told, live, robot, worker>>
    BY <1>2, <2>3, PartsLeft, RowLeft DEF BaseInv, Domains, EndTyped
  <2>4. CASE RunRestarts(e, g)
    BY <1>2, <1>6, <2>4, RowLeft DEF RunRestarts, BaseInv, Domains, stored, EndTyped
  <2> QED
    BY <1>5, <2>1, <2>2, <2>3, <2>4
<1>8. boots = 1 => Known(e)'
  BY <1>1, <1>2, <1>3, <1>7, RunsOfAStarted, KnownStays DEF Launching, EndTyped
<1> QED
  BY <1>3, <1>4, <1>7, <1>8 DEF Changes, RunsOnly, EndTyped

LEMMA NewWorkers ==
  \A w \in {FreshWorker, NoWorker} :
    /\ DOMAIN w = DOMAIN NoWorker /\ w.requests \in Seq({"go", "stop"})
    /\ w.go \in Answers /\ w.stop \in Answers
<1>1. FreshWorker.requests = <<>> /\ NoWorker.requests = <<>> /\ <<>> \in Seq({"go", "stop"})
  BY DEF FreshWorker, NoWorker
<1>2. /\ DOMAIN FreshWorker = DOMAIN NoWorker
      /\ FreshWorker.go \in Answers /\ FreshWorker.stop \in Answers
  BY DEF FreshWorker, NoWorker, Answers
<1>3. NoWorker.go \in Answers /\ NoWorker.stop \in Answers
  BY DEF NoWorker, Answers
<1> QED
  BY <1>1, <1>2, <1>3

\* What a command does, to the Execution it is for.
LEMMA StartSteps ==
  ASSUME BaseInv, NEW e \in Execs, boots' = boots, SkillStarts(e)
  PROVE  Changes(e)
<1>1. UNCHANGED <<evidence, journal, device, sent, owner, live, worker, handler, run, told>>
  BY DEF SkillStarts
<1>2. LiveOnly(e) /\ WorkersOnly(e) /\ HandlersOnly(e) /\ RunsOnly(e) /\ ActionsOnly(e)
  BY <1>1, PartsLeft
<1>3. RowTyped(e) /\ skill'[e] # "none"
  BY DEF SkillStarts, BaseInv, Domains, RowTyped, SkillStatus
<1>4. CommandOf(e)
  BY DEF SkillStarts, CommandOf, CommandTyped, CmdIdle, Launching, InStop
<1>5. boots = 1 => Known(e)'
  BY <1>1, <1>3 DEF SkillStarts, BaseInv, Base, Known, Untouched
<1> QED
  BY <1>2, <1>3, <1>4, <1>5 DEF Changes

LEMMA StopBeginSteps ==
  ASSUME BaseInv, NEW e \in Execs, boots' = boots, StopBegins(e)
  PROVE  Changes(e)
<1>1. UNCHANGED <<evidence, journal, device, sent, owner, live, worker, handler, run, told>>
  BY DEF StopBegins
<1>2. LiveOnly(e) /\ WorkersOnly(e) /\ HandlersOnly(e) /\ RunsOnly(e) /\ ActionsOnly(e)
  BY <1>1, PartsLeft
<1>3. skill[e] # "none" /\ cmd.pc = "idle"
  BY DEF StopBegins
<1>4. RowTyped(e) /\ skill'[e] # "none" /\ CommandOf(e) /\ ~Launching(e)'
  <2>1. CASE live[e].on
    BY <1>1, <1>3, <2>1, RowLeft DEF StopBegins, CommandOf, CommandTyped, CmdIdle, Launching,
       InStop
  <2>2. CASE ~live[e].on
    <3>1. RowTyped(e) /\ skill'[e] \in {skill[e], "interrupted"}
      BY <1>1, <2>2, RowSaved DEF StopBegins, SkillStatus, SkillEnds
    <3>2. cmd' = cmd
      BY <2>2 DEF StopBegins
    <3> QED
      BY <1>3, <3>1, <3>2, PartsLeft DEF Launching
  <2> QED
    BY <2>1, <2>2
<1>5. boots = 1 => Known(e)'
  BY <1>2, <1>4, KnownStays
<1> QED
  BY <1>2, <1>4, <1>5 DEF Changes

LEMMA LaunchSteps ==
  ASSUME BaseInv, boots' = boots, SkillLaunched
  PROVE  \E e \in Execs : e = cmd.e /\ Changes(e)
<1>1. PICK e \in Execs : e = cmd.e
  BY DEF SkillLaunched, BaseInv, Domains, CommandTyped
<1>2. UNCHANGED <<evidence, journal, device, sent, owner, handler, told>> /\ cmd' = CmdIdle
  BY DEF SkillLaunched
<1>3. HandlersOnly(e) /\ ActionsOnly(e) /\ CommandOf(e)
  BY <1>2, PartsLeft
<1>4. RowTyped(e) /\ skill'[e] # "none"
  <2>1. \E s \in {"running", "failed"} : skill' = Saved(e, s)
    BY <1>1 DEF SkillLaunched
  <2> QED
    BY <1>2, <2>1, RowSaved DEF Saved, SkillStatus, SkillEnds, BaseInv, Domains
<1>5. LiveOnly(e) /\ WorkersOnly(e) /\ DOMAIN run' = Execs /\ DOMAIN run'[e] = Gens
      /\ \A f \in Execs \ {e} : run'[f] = run[f]
  <2>1. CASE UNCHANGED <<live, worker, run>>
    BY <2>1, PartsLeft DEF BaseInv, Domains, Base, TypedAt
  <2>2. CASE Launched(e)
    <3>1. LiveOnly(e)
      BY <2>2 DEF Launched, BaseInv, Domains, LiveOnly, NotLive
    <3>2. WorkersOnly(e)
      <4>1. /\ DOMAIN worker' = Execs /\ \A f \in Execs \ {e} : worker'[f] = worker[f]
            /\ worker'[e] = [g \in Gens |-> IF g = 1 THEN FreshWorker ELSE NoWorker]
        BY <2>2 DEF Launched, BaseInv, Domains
      <4>3. \A g \in Gens : worker'[e][g] \in {FreshWorker, NoWorker}
        BY <4>1
      <4> QED
        BY <4>1, <4>3, NewWorkers DEF WorkersOnly
    <3>3. DOMAIN run' = Execs /\ DOMAIN run'[e] = Gens /\ \A f \in Execs \ {e} : run'[f] = run[f]
      BY <2>2 DEF Launched, BaseInv, Domains
    <3> QED
      BY <3>1, <3>2, <3>3
  <2> QED
    BY <1>1, <2>1, <2>2 DEF SkillLaunched
<1>6. boots = 1 => Known(e)'
  BY <1>2, <1>3, <1>4, KnownStays DEF Launching, CmdIdle
<1> QED
  BY <1>1, <1>2, <1>3, <1>4, <1>5, <1>6 DEF Changes, RunsOnly, BaseInv, Domains

LEMMA LatchSteps ==
  ASSUME BaseInv, boots' = boots, StopLatches
  PROVE  \E e \in Execs : e = cmd.e /\ Changes(e)
<1>1. PICK e \in Execs : e = cmd.e
  BY DEF StopLatches, BaseInv, Domains, CommandTyped
<1>2. UNCHANGED <<evidence, journal, device, sent, owner, worker, run, told>> /\ cmd.pc = "latch"
  BY DEF StopLatches
<1>3. WorkersOnly(e) /\ ActionsOnly(e) /\ RunsOnly(e)
  BY <1>2, PartsLeft
<1>4. RowTyped(e) /\ (skill'[e] # "none")
  <2>1. (UNCHANGED skill /\ skill[e] \in SkillEnds) \/ skill' = Saved(e, "stopping")
    BY <1>1 DEF StopLatches
  <2> QED
    BY <1>2, <2>1, RowLeft, RowSaved DEF Saved, SkillStatus, SkillEnds, BaseInv, Domains
<1>5. LiveOnly(e)
  <2>1. live' = live \/ live' = [live EXCEPT ![e].stopping = TRUE]
    BY <1>1 DEF StopLatches
  <2> QED
    BY <2>1, PartsLeft, LiveGone
<1>6. HandlersOnly(e)
  <2>1. CASE handler' = handler
    BY <2>1, PartsLeft
  <2>2. CASE CancelExecution(e)
    <3>1. /\ DOMAIN handler = Execs /\ DOMAIN handler[e] = Gens
          /\ \A g \in Gens : DOMAIN handler[e][g] = DOMAIN HandlerIdle
      BY DEF BaseInv, Domains, Base, TypedAt
    <3> QED
      BY <2>2, <3>1 DEF CancelExecution, HandlersOnly, HandlerIdle
  <2> QED
    BY <1>1, <2>1, <2>2 DEF StopLatches
<1>7. CommandOf(e) /\ ~Launching(e)'
  <2>1. cmd' = CmdIdle \/ cmd' = [cmd EXCEPT !.pc = "actions", !.keys = live[e].acts, !.gen = live[e].gen]
    BY <1>1 DEF StopLatches
  <2>2. cmd' = CmdIdle => ~Launching(e)'
    BY DEF Launching, CmdIdle
  <2>3. CASE cmd' = [cmd EXCEPT !.pc = "actions", !.keys = live[e].acts, !.gen = live[e].gen]
    BY <1>1, <1>2, <2>3 DEF CommandOf, CommandTyped, Launching, InStop, CmdIdle, BaseInv,
       Domains, Base, TypedAt
  <2> QED
    BY <2>1, <2>2, <2>3, PartsLeft
<1>8. boots = 1 => Known(e)'
  BY <1>4, <1>6, <1>7, KnownStays
<1> QED
  BY <1>1, <1>3, <1>4, <1>5, <1>6, <1>7, <1>8 DEF Changes

LEMMA StopActionSteps ==
  ASSUME BaseInv, NEW k \in Keys, boots' = boots, StopsAction(k)
  PROVE  \E e \in Execs : e = cmd.e /\ Changes(e)
<1>1. PICK e \in Execs : e = cmd.e
  BY DEF StopsAction, BaseInv, Domains, CommandTyped
<1>2. UNCHANGED <<skill, evidence, device, sent, owner, live, worker, handler, run, told>>
      /\ cmd.pc = "actions"
  BY DEF StopsAction
<1>3. RowTyped(e) /\ WorkersOnly(e) /\ LiveOnly(e) /\ HandlersOnly(e) /\ RunsOnly(e)
  BY <1>2, PartsLeft, RowLeft
<1>4. ActionsOnly(e)
  <2>1. journal' = journal \/ journal' = [journal EXCEPT ![<<e, k>>] = "stopping"]
    BY <1>1 DEF StopsAction
  <2> QED
    BY <1>2, <2>1 DEF ActionsOnly, Journaled, BaseInv, Domains, Base, TypedAt, Invocations
<1>5. CommandOf(e) /\ ~Launching(e)'
  <2>1. \/ cmd' = [cmd EXCEPT !.keys = @ \ {k}]
        \/ cmd' = [cmd EXCEPT !.pc = "halt", !.key = k]
    BY DEF StopsAction
  <2>2. CASE cmd' = [cmd EXCEPT !.keys = @ \ {k}]
    BY <1>1, <1>2, <2>2 DEF CommandOf, CommandTyped, Launching, InStop, CmdIdle, BaseInv, Domains
  <2>3. CASE cmd' = [cmd EXCEPT !.pc = "halt", !.key = k]
    BY <1>1, <1>2, <2>3 DEF CommandOf, CommandTyped, Launching, InStop, CmdIdle, BaseInv, Domains
  <2> QED
    BY <2>1, <2>2, <2>3
<1>6. boots = 1 => Known(e)'
  <2>1. boots = 1 => skill[e] # "none"
    BY <1>1, <1>2 DEF BaseInv, Base, Known, InStop
  <2> QED
    BY <1>2, <1>3, <1>5, <2>1, KnownStays
<1> QED
  BY <1>1, <1>3, <1>4, <1>5, <1>6 DEF Changes

LEMMA HaltSteps ==
  ASSUME BaseInv, boots' = boots, ActionHalted
  PROVE  \E e \in Execs : e = cmd.e /\ Changes(e)
<1>1. PICK e \in Execs, k \in Keys : e = cmd.e /\ k = cmd.key
  BY DEF ActionHalted, BaseInv, Domains, CommandTyped
<1>2. UNCHANGED <<evidence, sent, handler, run, told>> /\ cmd.pc = "halt"
  BY DEF ActionHalted
<1>3. HandlersOnly(e) /\ RunsOnly(e)
  BY <1>2, PartsLeft
<1>4. boots = 1 => skill[e] # "none"
  BY <1>1, <1>2 DEF BaseInv, Base, Known, InStop
<1>5. RowTyped(e) /\ (skill[e] # "none" => skill'[e] # "none")
  <2>1. skill' = skill \/ skill' = Saved(e, "interrupted")
    BY <1>1 DEF ActionHalted
  <2> QED
    BY <1>2, <2>1, RowLeft, RowSaved DEF Saved, SkillStatus, SkillEnds, BaseInv, Domains
<1>6. LiveOnly(e) /\ WorkersOnly(e)
  <2>1. live' = live \/ live' = [live EXCEPT ![e].cancelled = TRUE]
    BY <1>1 DEF ActionHalted
  <2>2. worker' = worker \/ worker' = Killed(e)
    BY <1>1 DEF ActionHalted
  <2> QED
    BY <2>1, <2>2, PartsLeft, LiveGone, WorkersKilled DEF Gens
<1>7. ActionsOnly(e)
  <2>1. \E s \in Journaled : /\ journal' = [journal EXCEPT ![<<e, k>>] = s]
                           /\ owner' \in {owner, AfterState(<<e, k>>, s)}
    BY <1>1, StateKnown DEF ActionHalted, markInterrupted, Journaled, ActionEnds
  <2>2. owner' \in Invocations \cup {None}
    BY <2>1 DEF AfterState, releasePhysical, BaseInv, Domains
  <2>3. \E d \in {"halted", device[<<e, k>>]} : device' \in {device, [device EXCEPT ![<<e, k>>] = d]}
    BY <1>1 DEF ActionHalted
  <2>4. device[<<e, k>>] \in DeviceStates /\ <<e, k>> \in Invocations
        /\ DOMAIN journal = Invocations /\ DOMAIN device = Invocations
        /\ \A n \in Keys : device[<<e, n>>] \in DeviceStates
    BY DEF BaseInv, Domains, Base, TypedAt, Invocations
  <2>5. DOMAIN device' = Invocations /\ (\A i \in Invocations \ {<<e, k>>} : device'[i] = device[i])
        /\ device'[<<e, k>>] \in DeviceStates
    BY <2>3, <2>4 DEF DeviceStates
  <2>6. DOMAIN journal' = Invocations /\ (\A i \in Invocations \ {<<e, k>>} : journal'[i] = journal[i])
        /\ journal'[<<e, k>>] \in Journaled
    BY <2>1, <2>4
  <2>7. \A f \in Execs, n \in Keys : <<f, n>> \in Invocations /\ (f # e \/ n # k => <<f, n>> # <<e, k>>)
    BY DEF Invocations
  <2> QED
    BY <1>2, <2>2, <2>4, <2>5, <2>6, <2>7 DEF ActionsOnly
<1>8. CommandOf(e) /\ ~Launching(e)'
  <2>1. cmd' = CmdIdle \/ cmd' = [cmd EXCEPT !.pc = "actions", !.keys = @ \ {k}]
    BY <1>1 DEF ActionHalted
  <2>2. cmd' = CmdIdle => ~Launching(e)'
    BY DEF Launching, CmdIdle
  <2>3. CASE cmd' = [cmd EXCEPT !.pc = "actions", !.keys = @ \ {k}]
    BY <1>1, <1>2, <2>3 DEF CommandOf, CommandTyped, Launching, InStop, CmdIdle, BaseInv, Domains
  <2> QED
    BY <2>1, <2>2, <2>3, PartsLeft
<1>9. boots = 1 => Known(e)'
  BY <1>3, <1>4, <1>5, <1>8, KnownStays
<1> QED
  BY <1>1, <1>3, <1>5, <1>6, <1>7, <1>8, <1>9 DEF Changes

LEMMA FinalizedSteps ==
  ASSUME BaseInv, NEW e \in Execs, boots' = boots, e = cmd.e, cmd.pc = "worker",
         NEW s \in {"stopped", "interrupted"}, Finalized(e, s),
         UNCHANGED <<journal, device, sent, owner, handler, run>>,
         evidence' \in {evidence, [evidence EXCEPT ![e] = TRUE]}
  PROVE  Changes(e)
<1>1. HandlersOnly(e) /\ ActionsOnly(e) /\ cmd' = CmdIdle /\ CommandOf(e) /\ ~Launching(e)'
  BY PartsLeft DEF Finalized, Launching, CmdIdle
<1>2. boots = 1 => skill[e] # "none"
  BY DEF BaseInv, Base, Known, InStop
<1>3. RowTyped(e) /\ (skill[e] # "none" => skill'[e] # "none")
  <2>1. skill' = Saved(e, s) /\ s \in SkillStatus
    BY DEF Finalized, SkillStatus, SkillEnds
  <2> QED
    BY <2>1 DEF Saved, RowTyped, BaseInv, Domains, Base, TypedAt
<1>4. LiveOnly(e) /\ WorkersOnly(e)
  BY LiveGone, WorkersKilled DEF Finalized, Gens
<1>5. RunsOnly(e)
  BY DEF Finalized, RunsOnly, BaseInv, Domains, Base, TypedAt
<1>6. boots = 1 => Known(e)'
  BY <1>1, <1>2, <1>3, KnownStays
<1> QED
  BY <1>1, <1>3, <1>4, <1>5, <1>6 DEF Changes

LEMMA TellSteps ==
  ASSUME BaseInv, boots' = boots, WorkerToldToStop
  PROVE  \E e \in Execs : e = cmd.e /\ Changes(e)
<1>1. PICK e \in Execs : e = cmd.e
  BY DEF WorkerToldToStop, BaseInv, Domains, CommandTyped
<1>2. UNCHANGED <<stored, device, sent, owner, live, handler, run, told>> /\ cmd.pc = "actions"
      /\ cmd' = [cmd EXCEPT !.pc = "worker"]
  BY DEF WorkerToldToStop
<1>3. RowTyped(e) /\ LiveOnly(e) /\ HandlersOnly(e) /\ RunsOnly(e) /\ ActionsOnly(e)
  BY <1>2, PartsLeft, RowLeft DEF stored
<1>4. CommandOf(e) /\ ~Launching(e)'
  BY <1>1, <1>2 DEF CommandOf, CommandTyped, Launching, InStop, CmdIdle, BaseInv, Domains
<1>5. boots = 1 => skill[e] # "none"
  BY <1>1, <1>2 DEF BaseInv, Base, Known, InStop
<1>6. WorkersOnly(e)
  <2>1. worker' = worker \/ worker' = [worker EXCEPT ![e][cmd.gen].stop = "ready", ![e][cmd.gen].hold = 0]
    BY <1>1 DEF WorkerToldToStop
  <2>2. CASE worker' = [worker EXCEPT ![e][cmd.gen].stop = "ready", ![e][cmd.gen].hold = 0]
    <3>1. DOMAIN worker = Execs /\ DOMAIN worker[e] = Gens
          /\ \A k \in Gens :
              /\ DOMAIN worker[e][k] = DOMAIN NoWorker /\ worker[e][k].requests \in Seq({"go", "stop"})
              /\ worker[e][k].go \in Answers /\ worker[e][k].stop \in Answers
      BY DEF BaseInv, Domains, Base, TypedAt
    <3> QED
      BY <2>2, <3>1 DEF WorkersOnly, NoWorker, Answers
  <2> QED
    BY <2>1, <2>2, PartsLeft
<1>7. boots = 1 => Known(e)'
  BY <1>2, <1>3, <1>4, <1>5, KnownStays DEF stored
<1> QED
  BY <1>1, <1>3, <1>4, <1>6, <1>7 DEF Changes

LEMMA StoppingSteps ==
  ASSUME BaseInv, boots' = boots, Stopping
  PROVE  \E e \in Execs : e = cmd.e /\ Changes(e)
<1>1. StopReplied \/ StopUnanswered => \E e \in Execs : e = cmd.e /\ Changes(e)
  <2> SUFFICES ASSUME StopReplied \/ StopUnanswered
               PROVE  \E e \in Execs : e = cmd.e /\ Changes(e)
    OBVIOUS
  <2>1. PICK e \in Execs : e = cmd.e
    BY DEF StopReplied, StopUnanswered, BaseInv, Domains, CommandTyped
  <2>2. /\ cmd.pc = "worker" /\ \E s \in {"stopped", "interrupted"} : Finalized(e, s)
        /\ UNCHANGED <<journal, device, sent, owner, handler, run>>
        /\ evidence' \in {evidence, [evidence EXCEPT ![e] = TRUE]}
    BY <2>1 DEF StopReplied, StopUnanswered
  <2> QED
    BY <2>1, <2>2, FinalizedSteps
<1> QED
  BY <1>1, LatchSteps, HaltSteps, TellSteps, StopActionSteps DEF Stopping

LEMMA BaseUnchanged ==
  ASSUME BaseInv, UNCHANGED <<stored, device, sent, owner, live, worker, handler, run, cmd, told, boots>>
  PROVE  BaseInv'
<1>1. Domains'
  BY DEF BaseInv, Domains, CommandTyped, stored
<1>2. \A f \in Execs : Base(f)'
  BY BystandersStay DEF BaseInv, Apart, Launching, InStop, stored
<1> QED
  BY <1>1, <1>2 DEF BaseInv

LEMMA RestartKeeps ==
  ASSUME BaseInv, PilotRestarts
  PROVE  BaseInv' /\ boots' # 1
<1>1. boots' # 1 /\ boots' \in Nat \ {0}
  <2>1. boots' = boots + 1
    BY DEF PilotRestarts
  <2> QED
    BY <2>1 DEF BaseInv, Domains
<1>2. UNCHANGED <<evidence, journal, device, sent, told>> /\ cmd' = CmdIdle
      /\ handler' = [e \in Execs |-> [g \in Gens |-> HandlerIdle]]
  BY DEF PilotRestarts
<1>3. DOMAIN skill' = Execs /\ \A e \in Execs : skill'[e] \in SkillStatus
  <2>1. skill' = skill \/ \E R \in SUBSET Execs, x \in Execs, up \in BOOLEAN :
          skill' = [e \in Execs |-> IF e \notin R THEN skill[e]
                                   ELSE IF e = x /\ up THEN "running" ELSE "interrupted"]
    <3> DEFINE R == ListRecoverableSkillExecutions
    <3>1. R \in SUBSET Execs
      BY DEF ListRecoverableSkillExecutions
    <3>2. skill' = skill \/ \E x \in R, up \in BOOLEAN :
            skill' = [e \in Execs |-> IF e \notin R THEN skill[e]
                                     ELSE IF e = x /\ up THEN "running" ELSE "interrupted"]
      BY DEF PilotRestarts
    <3> HIDE DEF R
    <3> QED
      BY <3>1, <3>2
  <2> QED
    BY <2>1 DEF BaseInv, Domains, Base, TypedAt, SkillStatus, SkillEnds
<1>4. DOMAIN live' = Execs /\ \A e \in Execs : live'[e] \in {NotLive, [NotLive EXCEPT !.on = TRUE, !.gen = 1]}
  BY DEF PilotRestarts
<1>5. DOMAIN worker' = Execs /\ \A e \in Execs : /\ DOMAIN worker'[e] = Gens
                                             /\ \A g \in Gens : worker'[e][g] \in {FreshWorker, NoWorker}
  BY DEF PilotRestarts
<1>6. DOMAIN run' = Execs /\ \A e \in Execs : DOMAIN run'[e] = Gens
  BY DEF PilotRestarts
<1>7. owner' \in Invocations \cup {None}
  BY DEF PilotRestarts, ListActiveActions, BaseInv, Domains
<1>8. Domains'
  BY <1>1, <1>2, <1>3, <1>4, <1>5, <1>6, <1>7 DEF BaseInv, Domains, CommandTyped, CmdIdle
<1>9. ASSUME NEW e \in Execs
      PROVE  TypedAt(e)' /\ SentOnce(e)'
  <2>1. \A l \in {NotLive, [NotLive EXCEPT !.on = TRUE, !.gen = 1]} :
          DOMAIN l = DOMAIN NotLive /\ l.acts = {} /\ l.gen \in {0, 1, 2}
    <3> DEFINE l == [NotLive EXCEPT !.on = TRUE, !.gen = 1]
    <3>1. DOMAIN l = DOMAIN NotLive /\ l.acts = {} /\ l.gen = 1
      BY DEF NotLive
    <3>2. NotLive.acts = {} /\ NotLive.gen = 0
      BY DEF NotLive
    <3> HIDE DEF l
    <3>3. DOMAIN l = DOMAIN NotLive /\ l.acts = {} /\ l.gen \in {0, 1, 2}
      BY <3>1
    <3>4. \A m \in {NotLive, l} : DOMAIN m = DOMAIN NotLive /\ m.acts = {} /\ m.gen \in {0, 1, 2}
      BY <3>2, <3>3
    <3> QED
      BY <3>4 DEF l
  <2>2. DOMAIN handler'[e] = Gens /\ \A g \in Gens : handler'[e][g] = HandlerIdle
    BY <1>2
  <2>3. \A k \in Keys : /\ journal'[<<e, k>>] \in Journaled \cup {"none"}
                        /\ device'[<<e, k>>] \in DeviceStates /\ sent'[<<e, k>>] \in Nat
    BY <1>2 DEF BaseInv, Base, TypedAt
  <2>4. DOMAIN live'[e] = DOMAIN NotLive /\ live'[e].acts \subseteq Keys /\ live'[e].gen \in {0, 1, 2}
    BY <1>4, <2>1 DEF Keys
  <2>5. \A g \in Gens :
       /\ DOMAIN worker'[e][g] = DOMAIN NoWorker /\ worker'[e][g].requests \in Seq({"go", "stop"})
       /\ worker'[e][g].go \in Answers /\ worker'[e][g].stop \in Answers
    BY <1>5, NewWorkers
  <2>6. HandlerIdle.pc = "idle" /\ HandlerIdle.who = "go"
    BY DEF HandlerIdle
  <2>7. TypedAt(e)'
    BY <1>3, <1>5, <1>6, <2>2, <2>3, <2>4, <2>5, <2>6 DEF TypedAt
  <2>8. \A g \in Gens : handler'[e][g].pc # "send"
    BY <2>2, <2>6
  <2>9. SentOnce(e)'
    BY <1>2, <2>8, SentStays DEF BaseInv, Base
  <2> QED
    BY <2>7, <2>9
<1> QED
  BY <1>1, <1>8, <1>9 DEF BaseInv, Base

LEMMA BaseGood == PilotInit => BaseInv
<1> SUFFICES ASSUME PilotInit PROVE BaseInv
  OBVIOUS
<1>1. Domains
  BY DEF PilotInit, Domains, CommandTyped, CmdIdle, Invocations
<1>2. ASSUME NEW e \in Execs
      PROVE  Base(e)
  <2>1. live[e] = NotLive /\ worker[e] = [g \in Gens |-> NoWorker]
        /\ handler[e] = [g \in Gens |-> HandlerIdle] /\ run[e] = [g \in Gens |-> "none"]
        /\ skill[e] = "none" /\ told[e] = "none" /\ evidence[e] = FALSE
        /\ \A k \in Keys : /\ journal[<<e, k>>] = "none" /\ device[<<e, k>>] = "none"
                           /\ sent[<<e, k>>] = 0
    BY DEF PilotInit, Invocations
  <2>2. HandlerIdle.pc = "idle" /\ HandlerIdle.who = "go"
    BY DEF HandlerIdle
  <2>3. TypedAt(e)
    BY <2>1, <2>2, NewWorkers DEF TypedAt, NotLive, SkillStatus, DeviceStates
  <2>4. SentOnce(e)
    BY <2>1, <2>2 DEF SentOnce, Gens
  <2>5. Known(e)
    BY <2>1, <2>2 DEF Known, Untouched, PilotInit, InStop, CmdIdle, Gens
  <2> QED
    BY <2>3, <2>4, <2>5 DEF Base
<1> QED
  BY <1>1, <1>2 DEF BaseInv

LEMMA BaseStep == BaseInv /\ [PilotNext]_pilotVars => BaseInv'
<1> SUFFICES ASSUME BaseInv, [PilotNext]_pilotVars PROVE BaseInv'
  OBVIOUS
<1>1. ASSUME NEW e \in Execs, Step(SkillStarts(e) \/ SkillStops(e) \/ ExitStops(e))
      PROVE  BaseInv'
  <2>1. CASE SkillStarts(e)
    BY <1>1, <2>1, StartSteps, ChangesKeep DEF Step
  <2>2. CASE StopBegins(e)
    BY <1>1, <2>2, StopBeginSteps, ChangesKeep DEF Step
  <2>3. CASE UNCHANGED <<stored, device, sent, robot, owner, live, worker, handler, run, cmd, told, credit>>
    BY <1>1, <2>3, BaseUnchanged DEF Step
  <2> QED
    BY <1>1, <2>1, <2>2, <2>3 DEF Step, SkillStops, ExitStops
<1>2. ASSUME NEW e \in Execs, NEW g \in Gens, Step(Handling(e, g) \/ AgentReplies(e, g) \/ Running(e, g))
      PROVE  BaseInv'
  BY <1>2, HandlingKeeps, HandlerStepKeeps, RunSteps, ChangesKeep DEF Step
<1>3. ASSUME NEW e \in Execs, NEW g \in Gens,
             \/ Step(WorkerReturns(e, g) \/ WorkerHolds(e, g) \/ WorkerDies(e, g))
             \/ \E req \in {"start", "result", "ask", "note"} : Step(WorkerAsks(e, g, req))
      PROVE  BaseInv'
  BY <1>3, WorkerSteps, ChangesKeep DEF Step
<1>4. ASSUME NEW i \in Invocations, Step(DeviceEnds(i))
      PROVE  BaseInv'
  <2>1. PICK e \in Execs, k \in Keys : i = <<e, k>>
    BY DEF Invocations
  <2> QED
    BY <1>4, <2>1, DeviceStep, ChangesKeep DEF Step
<1>5. ASSUME Step(SkillLaunched \/ Stopping \/ PilotExits \/ ExitReports)
      PROVE  BaseInv'
  BY <1>5, LaunchSteps, StoppingSteps, ChangesKeep, BaseUnchanged DEF Step, PilotExits,
     ExitReports
<1>6. CASE PilotRestarts
  BY <1>6, RestartKeeps
<1>7. CASE UNCHANGED pilotVars
  BY <1>7, BaseUnchanged DEF pilotVars
<1> QED
  BY <1>1, <1>2, <1>3, <1>4, <1>5, <1>6, <1>7 DEF PilotNext

\* StartTask is called at most once for an Action key (StartAction, runner.go): the row in
\* the Journal comes first, and no handler, restart or stop ever takes it away.
THEOREM ActionsAreSentOnce == PilotSpec => []ActionIsSentOnce
<1>1. BaseInv => ActionIsSentOnce
  BY DEF BaseInv, Base, SentOnce, ActionIsSentOnce, Invocations
<1> QED
  BY <1>1, BaseGood, BaseStep, PTL DEF PilotSpec

-----------------------------------------------------------------------------
(* As long as nothing was restarted: what moves is locked, what ended is quiet.             *)

W(e) == worker[e][1]
H(e) == handler[e][1]
Confirmed == ActionEnds \ {"interrupted"}

\* The second generation of Workers is not there.
SpareUnused(e) == /\ ~worker[e][2].on /\ worker[e][2].requests = <<>>
                  /\ handler[e][2].pc = "idle" /\ run[e][2] = "none"

\* Nothing is left of an Execution that was not launched; the command loop launches or stops
\* the one it says.
Launch(e) ==
  /\ live[e].gen = 0 => /\ Untouched(e) /\ skill[e] \in {"none", "starting", "failed"}
                        /\ (skill[e] = "starting" => Launching(e))
  /\ Launching(e) => robot = e /\ skill[e] = "starting"
  /\ cmd.pc \notin {"idle", "launch"} /\ cmd.e = e => live[e].gen # 0
  /\ InStop(e) => cmd.gen = 1

\* The two coroutines of a Worker and its handler: a request is in the queue, with the
\* handler, or answered; skill.run does not begin go once skill.stop came; hold is counted.
GoQueued == {<<"go">>, <<"go", "stop">>, <<"stop", "go">>}
StopQueued == {<<"stop">>, <<"go", "stop">>, <<"stop", "go">>}
Queues == {<<>>} \cup GoQueued \cup StopQueued
PcsOf(req) == CASE req = "start" -> {"start", "save", "send", "sent", "result", "state"}
                [] req = "result" -> {"result", "state"}
                [] req = "ask" -> {"ask", "register", "wait"}
                [] OTHER -> {req}
Talk(w, h) ==
  /\ w.requests \in Queues /\ w.hold \in {0, 1, 2, 3, 4}
  /\ w.go \in Asked <=> w.requests \in GoQueued
  /\ w.stop \in Asked <=> w.requests \in StopQueued
  /\ w.go = "busy" <=> h.pc # "idle" /\ h.who = "go"
  /\ w.stop = "busy" <=> h.pc # "idle" /\ h.who = "stop"
  /\ h.pc # "idle" => h.pc \in PcsOf(h.req)
  /\ w.go = "busy" => h.req \in {"start", "result", "ask", "note"}
  /\ w.stop = "busy" => h.req \in {"start", "result", "outcome"}
  /\ w.go # "outcome" /\ w.stop \in {"none", "ready", "busy", "start", "result", "outcome"}
  /\ w.go = "start" => w.requests \in {<<"go">>, <<"go", "stop">>} /\ h.pc = "idle"
  /\ w.stop \in {"none", "start"} => w.hold = 0
  /\ w.stop = "result" => w.hold = 1
  /\ w.stop = "outcome" => w.hold = 2
  /\ w.stop = "busy" => w.hold = CASE h.req = "start" -> 0 [] h.req = "result" -> 1 [] OTHER -> 2

\* The Journal tells the truth about ends, and a stop knows only Actions that were sent.
Tracked(e, k) ==
  \/ k \in live[e].acts
  \/ cmd.e = e /\ cmd.pc \in {"actions", "halt"} /\ k \in cmd.keys
  \/ cmd.e = e /\ cmd.pc = "halt" /\ k = cmd.key
Truth(e) ==
  /\ H(e).pc = "save" => journal[Act(e, 1)] = "none"
  /\ H(e).pc = "send" => journal[Act(e, 1)] = "accepted"
  /\ H(e).pc = "sent" /\ H(e).seen = "rejected" => device[Act(e, 1)] = "none"
  /\ H(e).pc = "state" /\ H(e).seen \in Confirmed => device[Act(e, 1)] # "moving"
  /\ \A k \in Keys :
       /\ sent[<<e, k>>] = 0 => device[<<e, k>>] = "none"
       /\ journal[<<e, k>>] \in Confirmed => device[<<e, k>>] # "moving"
       /\ Tracked(e, k) => /\ journal[<<e, k>>] # "none"
                           /\ ~(H(e).pc \in {"send", "sent"} /\ KeyOf(H(e)) = k)

\* hold begins after go, and is over when it succeeded.
HoldBegun(e) == \/ journal[<<e, "hold">>] # "none"
                \/ H(e).pc = "save" /\ H(e).who = "stop"
Held(e) ==
  /\ HoldBegun(e) => /\ W(e).stop # "none" /\ W(e).go # "start"
                     /\ ~(H(e).who = "go" /\ H(e).pc \in {"start", "save", "send", "sent"})
  /\ W(e).hold \in {1, 2, 3} => journal[<<e, "hold">>] # "none"
  /\ W(e).hold \in {2, 3} => device[<<e, "hold">>] # "moving"
  /\ H(e).who = "stop" /\ H(e).pc \in {"sent", "result", "state"} => journal[<<e, "hold">>] # "none"
  /\ evidence[e] \/ told[e] = "stopped" => W(e).hold = 3

\* The ends of an Execution.
Course(e) ==
  /\ run[e][1] = "failed" => ~W(e).on /\ W(e).go \notin {"completed", "failed", "stopping"}
  /\ W(e).on /\ W(e).stop # "none" => cmd.pc = "worker" /\ cmd.e = e
  /\ W(e).stop # "none" => InStop(e) \/ skill[e] \in SkillEnds
  /\ told[e] = "completed" => skill[e] = "completed" /\ robot # e
  /\ skill[e] = "failed" => ~W(e).on
  /\ H(e).pc = "note" /\ H(e).seen \in SkillEnds => skill[e] \in SkillEnds
  /\ live[e].gen # 0 /\ ~live[e].cancelled => robot = e

\* An Execution that gave the Robot back begins no Action, unless it was given up.
Quiet(e) ==
  live[e].gen # 0 /\ robot # e /\ ~GivenUp(e) =>
    /\ ~W(e).on
    /\ H(e).pc \notin {"save", "send", "sent"}
    /\ H(e).pc = "start" => journal[Act(e, 1)] # "none"
    /\ W(e).go = "start" => journal[<<e, "go">>] # "none"
    /\ W(e).stop = "start" => journal[<<e, "hold">>] # "none"

\* Action k moves, is about to, or will give the lock of the Robot back.
Claim(e, k) ==
  \/ device[<<e, k>>] = "moving"
  \/ H(e).pc = "send" /\ ~live[e].cancelled /\ KeyOf(H(e)) = k
  \/ H(e).pc = "sent" /\ H(e).seen = "rejected" /\ KeyOf(H(e)) = k
Locked(e) ==
  Undisturbed(e) =>
    /\ \A k \in Keys : Claim(e, k) => owner = <<e, k>> /\ robot \in {e, None}
    /\ H(e).pc = "save" => \A k \in Keys : ~Claim(e, k)
    /\ HoldBegun(e) => ~Claim(e, "go")
    /\ told[e] = "completed" => ~Moves(e)

Calm(e) == /\ SpareUnused(e) /\ Launch(e) /\ Talk(W(e), H(e)) /\ Truth(e) /\ Held(e)
           /\ Course(e) /\ Quiet(e) /\ Locked(e)
CalmInv == NothingRestarted => \A e \in Execs : Calm(e)

-----------------------------------------------------------------------------
(* The coroutines of a Worker.                                              *)

LEMMA QueueSteps ==
  /\ Append(<<>>, "go") = <<"go">> /\ Append(<<>>, "stop") = <<"stop">>
  /\ Append(<<"stop">>, "go") = <<"stop", "go">> /\ Append(<<"go">>, "stop") = <<"go", "stop">>
  /\ Head(<<"go">>) = "go" /\ Head(<<"stop">>) = "stop"
  /\ Head(<<"go", "stop">>) = "go" /\ Head(<<"stop", "go">>) = "stop"
  /\ Tail(<<"go">>) = <<>> /\ Tail(<<"stop">>) = <<>>
  /\ Tail(<<"go", "stop">>) = <<"stop">> /\ Tail(<<"stop", "go">>) = <<"go">>
<1>1. Append(<<>>, "go") = <<"go">> /\ Append(<<>>, "stop") = <<"stop">>
  OBVIOUS
<1>2. Append(<<"stop">>, "go") = <<"stop", "go">> /\ Append(<<"go">>, "stop") = <<"go", "stop">>
  <2>1. ASSUME NEW x \in {"go", "stop"}, NEW y \in {"go", "stop"}
        PROVE  Append(<<x>>, y) = <<x, y>>
    <3>1. <<x>> \in Seq({"go", "stop"}) /\ Len(<<x>>) = 1 /\ <<x>>[1] = x
      OBVIOUS
    <3>2. /\ Append(<<x>>, y) \in Seq({"go", "stop"}) /\ Len(Append(<<x>>, y)) = 2
          /\ Append(<<x>>, y)[1] = x /\ Append(<<x>>, y)[2] = y
      BY <3>1, AppendProperties
    <3>3. /\ <<x, y>> \in Seq({"go", "stop"}) /\ Len(<<x, y>>) = 2
          /\ <<x, y>>[1] = x /\ <<x, y>>[2] = y
      OBVIOUS
    <3>4. \A i \in 1 .. 2 : Append(<<x>>, y)[i] = <<x, y>>[i]
      BY <3>2, <3>3
    <3> QED
      BY <3>2, <3>3, <3>4, SeqEqual
  <2> QED
    BY <2>1
<1>3. /\ Head(<<"go">>) = "go" /\ Head(<<"stop">>) = "stop"
      /\ Head(<<"go", "stop">>) = "go" /\ Head(<<"stop", "go">>) = "stop"
  OBVIOUS
<1>4. Tail(<<"go">>) = <<>> /\ Tail(<<"stop">>) = <<>>
  OBVIOUS
<1>5. Tail(<<"go", "stop">>) = <<"stop">> /\ Tail(<<"stop", "go">>) = <<"go">>
  OBVIOUS
<1> QED
  BY <1>1, <1>2, <1>3, <1>4, <1>5

LEMMA QueuesDiffer ==
  /\ <<"go">> # <<"stop">> /\ <<"go">> # <<"go", "stop">> /\ <<"go">> # <<"stop", "go">>
  /\ <<"stop">> # <<"go", "stop">> /\ <<"stop">> # <<"stop", "go">>
  /\ <<"go", "stop">> # <<"stop", "go">>
  /\ <<"go">> # <<>> /\ <<"stop">> # <<>> /\ <<"go", "stop">> # <<>> /\ <<"stop", "go">> # <<>>
<1>1. /\ Len(<<"go">>) = 1 /\ Len(<<"stop">>) = 1 /\ Len(<<"go", "stop">>) = 2
      /\ Len(<<"stop", "go">>) = 2 /\ Len(<<>>) = 0
  OBVIOUS
<1>2. /\ <<"go">>[1] = "go" /\ <<"stop">>[1] = "stop" /\ <<"go", "stop">>[1] = "go"
      /\ <<"stop", "go">>[1] = "stop"
  OBVIOUS
<1>3. <<"go">> # <<"stop">> /\ <<"go", "stop">> # <<"stop", "go">>
  BY <1>2
<1> QED
  BY <1>1, <1>3

\* What a queue is after a request is added or taken.
LEMMA QueueAdds ==
  ASSUME NEW q \in Queues
  PROVE  /\ q \notin GoQueued =>
              /\ Append(q, "go") \in GoQueued
              /\ Append(q, "go") \in StopQueued <=> q \in StopQueued
              /\ q \notin StopQueued => Append(q, "go") = <<"go">>
         /\ q \notin StopQueued =>
              /\ Append(q, "stop") \in StopQueued
              /\ Append(q, "stop") \in GoQueued <=> q \in GoQueued
              /\ q \in GoQueued => q = <<"go">> /\ Append(q, "stop") = <<"go", "stop">>
<1>1. q \notin GoQueued => q \in {<<>>, <<"stop">>}
  BY DEF Queues, GoQueued, StopQueued
<1>2. q \notin StopQueued => q \in {<<>>, <<"go">>}
  BY DEF Queues, GoQueued, StopQueued
<1>3. q = <<>> => Append(q, "go") = <<"go">> /\ Append(q, "stop") = <<"stop">>
  BY QueueSteps
<1>4. q = <<"stop">> => Append(q, "go") = <<"stop", "go">>
  BY QueueSteps
<1>5. q = <<"go">> => Append(q, "stop") = <<"go", "stop">>
  BY QueueSteps
<1>6. /\ <<"go">> \in GoQueued /\ <<"go">> \notin StopQueued
      /\ <<"stop">> \in StopQueued /\ <<"stop">> \notin GoQueued
      /\ <<"go", "stop">> \in GoQueued \cap StopQueued /\ <<"stop", "go">> \in GoQueued \cap StopQueued
      /\ <<>> \notin GoQueued \cup StopQueued
  BY QueuesDiffer DEF GoQueued, StopQueued
<1> QED
  BY <1>1, <1>2, <1>3, <1>4, <1>5, <1>6

LEMMA QueueTakes ==
  ASSUME NEW q \in Queues, q # <<>>
  PROVE  /\ Tail(q) \in Queues
         /\ Head(q) = "go" => /\ q \in GoQueued /\ Tail(q) \notin GoQueued
                              /\ Tail(q) \in StopQueued <=> q \in StopQueued
         /\ Head(q) # "go" => /\ Head(q) = "stop" /\ q \in StopQueued /\ Tail(q) \notin StopQueued
                              /\ Tail(q) \in GoQueued <=> q \in GoQueued
                              /\ q \notin {<<"go">>, <<"go", "stop">>}
<1>1. q \in {<<"go">>, <<"stop">>, <<"go", "stop">>, <<"stop", "go">>}
  BY DEF Queues, GoQueued, StopQueued
<1>2. /\ <<"go">> \in GoQueued /\ <<"go">> \notin StopQueued
      /\ <<"stop">> \in StopQueued /\ <<"stop">> \notin GoQueued
      /\ <<"go", "stop">> \in GoQueued \cap StopQueued /\ <<"stop", "go">> \in GoQueued \cap StopQueued
      /\ <<>> \notin GoQueued \cup StopQueued
  BY QueuesDiffer DEF GoQueued, StopQueued
<1>3. CASE q = <<"go">>
  BY <1>2, <1>3, QueueSteps DEF Queues
<1>4. CASE q = <<"stop">>
  BY <1>2, <1>4, QueueSteps, QueuesDiffer DEF Queues
<1>5. CASE q = <<"go", "stop">>
  BY <1>2, <1>5, QueueSteps DEF Queues
<1>6. CASE q = <<"stop", "go">>
  BY <1>2, <1>6, QueueSteps, QueuesDiffer DEF Queues
<1> QED
  BY <1>1, <1>3, <1>4, <1>5, <1>6

LEMMA PcsOfRequests ==
  /\ PcsOf("start") = {"start", "save", "send", "sent", "result", "state"}
  /\ PcsOf("result") = {"result", "state"} /\ PcsOf("ask") = {"ask", "register", "wait"}
  /\ PcsOf("note") = {"note"} /\ PcsOf("outcome") = {"outcome"}
  /\ \A req \in Asked : req \in PcsOf(req) /\ "idle" \notin PcsOf(req)
  BY DEF PcsOf, Asked

LEMMA TalkAnswers ==
  ASSUME NEW w, NEW h, NEW w2, Talk(w, h), h.pc # "idle", h.who \in {"go", "stop"},
         w2.requests = w.requests,
         h.who = "go" => w2.go = "ready" /\ w2.stop = w.stop /\ w2.hold = w.hold,
         h.who # "go" => w2.stop = "ready" /\ w2.go = w.go /\ w2.hold \in {0, 1, 2, 3, 4}
  PROVE  Talk(w2, HandlerIdle)
<1>1. HandlerIdle.pc = "idle" /\ "ready" \notin Asked /\ "busy" \notin Asked
  BY DEF HandlerIdle, Asked
<1>2. CASE h.who = "go"
  BY <1>1, <1>2 DEF Talk
<1>3. CASE h.who = "stop"
  BY <1>1, <1>3 DEF Talk
<1> QED
  BY <1>2, <1>3

LEMMA TalkMoves ==
  ASSUME NEW w, NEW h, NEW h2, Talk(w, h), h.pc # "idle", h2.who = h.who, h2.req = h.req,
         h2.pc \in PcsOf(h.req), h2.pc # "idle"
  PROVE  Talk(w, h2)
  BY DEF Talk

LEMMA TalkTakes ==
  ASSUME NEW w, NEW h, NEW w2, NEW h2, NEW s, Talk(w, h), h.pc = "idle", w.requests # <<>>,
         NEW who, who = Head(w.requests), w2.requests = Tail(w.requests),
         who = "go" => w2.go = "busy" /\ w2.stop = w.stop,
         who # "go" => w2.stop = "busy" /\ w2.go = w.go,
         w2.hold = w.hold,
         h2 = [pc |-> w[who], who |-> who, req |-> w[who], seen |-> s]
  PROVE  /\ Talk(w2, h2) /\ who \in {"go", "stop"} /\ w[who] \in Asked
         /\ h2.pc = w[who] /\ h2.req = w[who] /\ h2.who = who /\ h2.seen = s
<1>1. w.requests \in Queues
  BY DEF Talk
<1>2. h2.pc = w[who] /\ h2.req = w[who] /\ h2.who = who /\ h2.seen = s
  OBVIOUS
<1>3. CASE who = "go"
  <2>1. w.requests \in GoQueued /\ w2.requests \notin GoQueued /\ w2.requests \in Queues
        /\ (w2.requests \in StopQueued <=> w.requests \in StopQueued)
    BY <1>1, <1>3, QueueTakes
  <2>2. w.go \in Asked /\ w.go # "outcome" /\ w[who] = w.go
    BY <1>3, <2>1 DEF Talk
  <2>3. w.go \in PcsOf(w.go) /\ w.go \in {"start", "result", "ask", "note"} /\ "busy" \notin Asked
    BY <2>2, PcsOfRequests DEF Asked
  <2>4. w.go # "idle"
    BY <2>3
  <2> QED
    BY <1>2, <1>3, <2>1, <2>2, <2>3, <2>4 DEF Talk
<1>4. CASE who # "go"
  <2>1. /\ who = "stop" /\ w.requests \in StopQueued /\ w2.requests \notin StopQueued
        /\ w2.requests \in Queues /\ w.requests \notin {<<"go">>, <<"go", "stop">>}
        /\ (w2.requests \in GoQueued <=> w.requests \in GoQueued)
    BY <1>1, <1>4, QueueTakes
  <2>2. w.stop \in {"start", "result", "outcome"} /\ w[who] = w.stop
    BY <2>1 DEF Talk, Asked
  <2>3. w.stop \in PcsOf(w.stop) /\ "busy" \notin Asked /\ w.stop # "idle" /\ w.stop \in Asked
    BY <2>2, PcsOfRequests DEF Asked
  <2>4. w.go # "start"
    BY <2>1 DEF Talk
  <2>5. w2.hold = CASE w.stop = "start" -> 0 [] w.stop = "result" -> 1 [] OTHER -> 2
    BY <2>2 DEF Talk
  <2>6. /\ h2.pc = w.stop /\ h2.req = w.stop /\ h2.who = "stop" /\ w2.stop = "busy"
        /\ w2.go = w.go /\ w.go # "busy"
    BY <1>2, <1>4, <2>1, <2>2 DEF Talk
  <2> HIDE DEF Queues, GoQueued, StopQueued
  <2> QED
    BY <1>2, <2>1, <2>2, <2>3, <2>4, <2>5, <2>6 DEF Talk
<1> QED
  BY <1>2, <1>3, <1>4

LEMMA TalkAsks ==
  ASSUME NEW w, NEW h, NEW w2, Talk(w, h), h.who \in {"go", "stop"}, w.go = "ready",
         NEW req \in {"start", "result", "ask", "note"},
         req = "start" => w.stop = "none",
         w2.go = req, w2.requests = Append(w.requests, "go"), w2.stop = w.stop, w2.hold = w.hold
  PROVE  Talk(w2, h)
<1>1. req \in Asked /\ "ready" \notin Asked /\ req \notin {"busy", "outcome"}
      /\ "none" \notin Asked
  BY DEF Asked
<1>2. w.requests \in Queues /\ w.requests \notin GoQueued
  BY <1>1 DEF Talk
<1>3. /\ w2.requests \in GoQueued /\ (w2.requests \in StopQueued <=> w.requests \in StopQueued)
      /\ w.requests \notin StopQueued => w2.requests = <<"go">>
  BY <1>2, QueueAdds
<1>4. w2.requests \in Queues
  BY <1>3 DEF Queues
<1>5. req = "start" => w2.requests = <<"go">> /\ h.pc = "idle"
  BY <1>1, <1>3 DEF Talk
<1> QED
  BY <1>1, <1>3, <1>4, <1>5 DEF Talk

LEMMA TalkHolds ==
  ASSUME NEW w, NEW h, NEW w2, Talk(w, h), w.stop = "ready",
         w2.stop = CASE w.hold = 0 -> "start" [] w.hold = 1 -> "result" [] OTHER -> "outcome",
         w.hold < 3,
         w2.requests = Append(w.requests, "stop"), w2.go = w.go, w2.hold = w.hold
  PROVE  Talk(w2, h)
<1>8. w.hold \in {0, 1, 2}
  BY DEF Talk
<1>1. "ready" \notin Asked /\ w2.stop \in {"start", "result", "outcome"} /\ w2.stop \in Asked
  BY DEF Asked
<1>2. w.requests \in Queues /\ w.requests \notin StopQueued
  BY <1>1 DEF Talk
<1>3. /\ w2.requests \in StopQueued /\ (w2.requests \in GoQueued <=> w.requests \in GoQueued)
      /\ w.requests \in GoQueued => w2.requests = <<"go", "stop">>
  BY <1>2, QueueAdds
<1>4. w2.requests \in Queues
  BY <1>3 DEF Queues
<1>5. w.go = "start" => w2.requests = <<"go", "stop">> /\ h.pc = "idle"
  BY <1>3 DEF Talk, Asked
<1>6. /\ w2.stop = "start" => w2.hold = 0
      /\ w2.stop = "result" => w2.hold = 1
      /\ w2.stop = "outcome" => w2.hold = 2
  BY <1>8
<1>7. w.stop # "busy" /\ w2.stop # "busy"
  BY <1>1
<1> QED
  BY <1>1, <1>3, <1>4, <1>5, <1>6, <1>7 DEF Talk

\* skill.run returns, the process ends, skill.stop comes to a Worker that was not stopping.
LEMMA TalkSame ==
  ASSUME NEW w, NEW h, NEW w2, Talk(w, h), w2.requests = w.requests, w2.hold = w.hold,
         w2.stop = w.stop,
         w2.go = w.go \/ (w.go = "ready" /\ w2.go \in {"completed", "failed", "stopping"})
  PROVE  Talk(w2, h)
  BY DEF Talk, Asked

LEMMA TalkTold ==
  ASSUME NEW w, NEW h, NEW w2, Talk(w, h), w2.requests = w.requests, w2.hold = 0,
         w.stop = "none", w2.stop = "ready", w2.go = w.go
  PROVE  Talk(w2, h)
  BY DEF Talk, Asked

LEMMA TalkBegins == Talk(FreshWorker, HandlerIdle) /\ Talk(NoWorker, HandlerIdle)
<1>1. /\ FreshWorker.requests = <<>> /\ FreshWorker.go = "ready" /\ FreshWorker.stop = "none"
      /\ FreshWorker.hold = 0 /\ NoWorker.requests = <<>> /\ NoWorker.go = "none"
      /\ NoWorker.stop = "none" /\ NoWorker.hold = 0 /\ HandlerIdle.pc = "idle"
  BY DEF FreshWorker, NoWorker, HandlerIdle
<1>2. <<>> \in Queues /\ <<>> \notin GoQueued \cup StopQueued
  BY QueuesDiffer DEF Queues, GoQueued, StopQueued
<1> QED
  BY <1>1, <1>2 DEF Talk, Asked

-----------------------------------------------------------------------------
(* What every step of a handler keeps.                                      *)

\* What is known before a step that restarts nothing.
Calmly == BaseInv /\ NothingRestarted /\ \A e \in Execs : Calm(e)

\* The end of an Execution stays, and so does that it was given up.
EndKept(e) ==
  /\ skill'[e] = skill[e] \/ (skill[e] \notin SkillEnds /\ skill'[e] \notin SkillEnds)
  /\ H(e)'.pc = "note" /\ H(e)'.seen \in SkillEnds => skill'[e] \in SkillEnds
CoroutinesKept(e) ==
  /\ W(e)'.stop = "none" <=> W(e).stop = "none"
  /\ W(e)'.go = W(e).go \/ W(e)'.go \in {"ready", "busy"}
  /\ W(e)'.stop = W(e).stop \/ W(e)'.stop \in {"ready", "busy"}
Handled(e) == HandlerStep(e, 1) /\ Talk(W(e), H(e))' /\ EndKept(e) /\ CoroutinesKept(e)

\* The one generation there is, of an Execution that was launched.
LEMMA HandlerOfFirst ==
  ASSUME Calmly, NEW e \in Execs, NEW g \in Gens,
         handler[e][g].pc # "idle" \/ worker[e][g].requests # <<>>
  PROVE  g = 1 /\ live[e].gen = 1 /\ boots = 1
<1>1. g = 1
  BY DEF Calmly, Calm, SpareUnused, Gens
<1>2. live[e].gen # 0
  BY <1>1 DEF Calmly, Calm, Launch, Untouched, NoWorker, HandlerIdle, Gens
<1>3. live[e].gen \in {0, 1, 2} /\ live[e].gen < 2 /\ boots = 1
  BY DEF Calmly, NothingRestarted, BaseInv, Base, TypedAt
<1> QED
  BY <1>1, <1>2, <1>3

LEMMA AnswerOf ==
  ASSUME Calmly, NEW e \in Execs, NEW r, Responds(e, 1, r), H(e).pc # "idle"
  PROVE  /\ Talk(W(e), H(e))' /\ CoroutinesKept(e) /\ H(e)'.pc = "idle"
         /\ W(e).hold = 3 => W(e)'.hold = 3
         /\ H(e).who = "stop" /\ H(e).req = "outcome" => W(e)'.hold = 3
         /\ \/ W(e)'.hold = W(e).hold \/ W(e)'.hold = 4
            \/ H(e).who = "stop" /\ H(e).req = "start" /\ r # "error" /\ W(e)'.hold = 1
            \/ H(e).who = "stop" /\ H(e).req = "result" /\ r = "succeeded" /\ W(e)'.hold = 2
            \/ H(e).who = "stop" /\ H(e).req = "outcome" /\ W(e)'.hold = 3
<1>1. Answering(e, 1)
  BY HandlerResponds DEF Calmly, BaseInv, Base, Gens
<1>2. Talk(W(e), H(e)) /\ TypedAt(e) /\ Domains /\ H(e).who \in {"go", "stop"}
  BY DEF Calmly, Calm, BaseInv, Base, TypedAt, H, Gens
<1>3. H(e)' = HandlerIdle /\ H(e)'.pc = "idle"
  BY <1>1 DEF Answering, H, HandlerIdle
<1>4. /\ W(e)'.requests = W(e).requests
      /\ H(e).who = "go" => /\ W(e)'.go = "ready" /\ W(e)'.stop = W(e).stop
                            /\ W(e)'.hold = W(e).hold
      /\ H(e).who # "go" => W(e)'.stop = "ready" /\ W(e)'.go = W(e).go
  BY <1>1 DEF Answering, H, W
<1>5. H(e).who # "go" =>
        W(e)'.hold = CASE H(e).req = "start" /\ r # "error" -> 1
                       [] H(e).req = "result" /\ r = "succeeded" -> 2
                       [] H(e).req = "outcome" -> 3
                       [] OTHER -> 4
  BY <1>2 DEF Responds, Answered, W, H, Domains, TypedAt, Gens, NoWorker
<1>6. H(e).who # "go" => /\ H(e).who = "stop" /\ W(e)'.hold \in {1, 2, 3, 4}
                         /\ \/ W(e)'.hold = 4
                            \/ H(e).req = "start" /\ r # "error" /\ W(e)'.hold = 1
                            \/ H(e).req = "result" /\ r = "succeeded" /\ W(e)'.hold = 2
                            \/ H(e).req = "outcome" /\ W(e)'.hold = 3
  BY <1>2, <1>5
<1>7. Talk(W(e)', HandlerIdle)
  BY <1>2, <1>4, <1>6, TalkAnswers
<1>8. H(e).who = "stop" => W(e).stop = "busy" /\ W(e).hold # 3
  BY <1>2 DEF Talk
<1>9. CoroutinesKept(e)
  BY <1>2, <1>4, <1>8 DEF CoroutinesKept
<1>10. Talk(W(e), H(e))'
  BY <1>3, <1>7
<1>11. /\ W(e).hold = 3 => W(e)'.hold = 3
       /\ H(e).who = "stop" /\ H(e).req = "outcome" => W(e)'.hold = 3
  <2>1. CASE H(e).who = "go"
    BY <1>4, <2>1
  <2>2. CASE H(e).who = "stop"
    <3>1. H(e).req = "outcome" => W(e)'.hold = 3
      BY <1>5, <2>2
    <3> QED
      BY <1>8, <2>2, <3>1
  <2> QED
    BY <1>2, <2>1, <2>2
<1>12. \/ W(e)'.hold = W(e).hold \/ W(e)'.hold = 4
       \/ H(e).who = "stop" /\ H(e).req = "start" /\ r # "error" /\ W(e)'.hold = 1
       \/ H(e).who = "stop" /\ H(e).req = "result" /\ r = "succeeded" /\ W(e)'.hold = 2
       \/ H(e).who = "stop" /\ H(e).req = "outcome" /\ W(e)'.hold = 3
  BY <1>2, <1>4, <1>6
<1> QED
  BY <1>3, <1>9, <1>10, <1>11, <1>12

LEMMA MoveOf ==
  ASSUME Calmly, NEW e \in Execs, NEW pc, NEW seen, HandlerAt(e, 1, pc, seen), worker' = worker,
         H(e).pc # "idle", pc \in PcsOf(H(e).req), pc # "idle"
  PROVE  /\ Talk(W(e), H(e))' /\ CoroutinesKept(e) /\ W(e)' = W(e)
         /\ H(e)'.pc = pc /\ H(e)'.seen = seen
         /\ H(e)'.who = H(e).who /\ H(e)'.req = H(e).req
<1>1. Domains /\ TypedAt(e) /\ Talk(W(e), H(e))
  BY DEF Calmly, Calm, BaseInv, Base
<1>2. /\ H(e)'.pc = pc /\ H(e)'.seen = seen
      /\ H(e)'.who = H(e).who /\ H(e)'.req = H(e).req
  BY <1>1, HandlerMoves DEF H, Gens
<1>3. W(e)' = W(e)
  BY DEF W
<1>4. Talk(W(e), H(e)')
  BY <1>1, <1>2, TalkMoves
<1> QED
  BY <1>2, <1>3, <1>4 DEF CoroutinesKept

\* Everything of an Execution that a step of its handler cannot change.
LEMMA HandledKeeps ==
  ASSUME Calmly, NEW e \in Execs, Handled(e), live[e].gen = 1
  PROVE  /\ SpareUnused(e)' /\ Launch(e)' /\ Course(e)'
         /\ W(e)'.on = W(e).on /\ live'[e].gen = live[e].gen
         /\ live'[e].cancelled = live[e].cancelled
         /\ GivenUp(e) => GivenUp(e)'
         /\ Undisturbed(e)' => Undisturbed(e)
<1>1. /\ boots = 1 /\ cmd' = cmd /\ told' = told /\ run' = run /\ robot' = robot
      /\ worker'[e][2] = worker[e][2] /\ handler'[e][2] = handler[e][2]
      /\ W(e)'.on = W(e).on /\ live'[e].gen = live[e].gen
      /\ live'[e].cancelled = live[e].cancelled
      /\ skill[e] # "none" /\ ~Launching(e)
      /\ \A f \in Execs \ {e} : skill'[f] = skill[f] /\ live'[f] = live[f] /\ worker'[f] = worker[f]
  BY DEF Handled, HandlerStep, HandlerFrame, HandlerTyped, WorkerTyped, HandlerOnly, WorkerOnly,
     LiveTyped, RowTyped, OfAStarted, Calmly, NothingRestarted, Gens, W
<1>2. SpareUnused(e) /\ Launch(e) /\ Course(e)
  BY DEF Calmly, Calm
<1>3. SpareUnused(e)'
  BY <1>1, <1>2 DEF SpareUnused
<1>4. Launch(e)'
  BY <1>1, <1>2 DEF Launch, Launching, InStop
<1>5. EndKept(e) /\ CoroutinesKept(e)
  BY DEF Handled
<1>6. Course(e)'
  <2>1. run'[e][1] = "failed" => ~W(e)'.on /\ W(e)'.go \notin {"completed", "failed", "stopping"}
    BY <1>1, <1>2, <1>5 DEF Course, CoroutinesKept
  <2>2. W(e)'.on /\ W(e)'.stop # "none" => cmd'.pc = "worker" /\ cmd'.e = e
    BY <1>1, <1>2, <1>5 DEF Course, CoroutinesKept
  <2>3. W(e)'.stop # "none" => InStop(e)' \/ skill'[e] \in SkillEnds
    BY <1>1, <1>2, <1>5 DEF Course, CoroutinesKept, InStop, EndKept
  <2>4. /\ told'[e] = "completed" => skill'[e] = "completed" /\ robot' # e
        /\ skill'[e] = "failed" => ~W(e)'.on
    BY <1>1, <1>2, <1>5 DEF Course, EndKept, SkillEnds
  <2>5. /\ H(e)'.pc = "note" /\ H(e)'.seen \in SkillEnds => skill'[e] \in SkillEnds
        /\ live'[e].gen # 0 /\ ~live'[e].cancelled => robot' = e
    BY <1>1, <1>2, <1>5 DEF Course, EndKept
  <2> QED
    BY <2>1, <2>2, <2>3, <2>4, <2>5 DEF Course
<1>7. GivenUp(e) => GivenUp(e)'
  BY <1>1, <1>5 DEF GivenUp, EndKept, CoroutinesKept, SkillEnds, W
<1>8. Undisturbed(e)' => Undisturbed(e)
  BY <1>1 DEF Undisturbed, GivenUp
<1> QED
  BY <1>1, <1>3, <1>4, <1>6, <1>7, <1>8

\* A step that begins no Action: the Journal may learn an end of the handler's Action, and
\* the lock of that Action may be given back.
JournalLearns(e) ==
  /\ UNCHANGED <<device, sent>>
  /\ \A k \in Keys : <<e, k>> # Act(e, 1) => journal'[<<e, k>>] = journal[<<e, k>>]
  /\ \/ journal'[Act(e, 1)] = journal[Act(e, 1)]
     \/ /\ journal'[Act(e, 1)] # "none"
        /\ journal'[Act(e, 1)] \in Confirmed => device[Act(e, 1)] # "moving"
        /\ H(e).who = "stop" => journal[Act(e, 1)] # "none"
  /\ \A k \in live'[e].acts : k \in live[e].acts \/ journal'[<<e, k>>] # "none"
  /\ \/ owner' = owner
     \/ device[Act(e, 1)] # "moving" /\ (Undisturbed(e) => owner' = releasePhysical(Act(e, 1)))
BeginsNothing(e) ==
  /\ H(e)'.pc \notin {"start", "save", "send", "sent"}
  /\ H(e)'.pc \in {"result", "state"} => /\ H(e)'.who = H(e).who
                                         /\ H(e).who = "stop" => journal[<<e, "hold">>] # "none"
  /\ H(e)'.pc = "state" /\ H(e)'.seen \in Confirmed => device[Act(e, 1)] # "moving"
  /\ W(e).hold = 3 => W(e)'.hold = 3
  /\ evidence'[e] => evidence[e] \/ W(e)'.hold = 3
  /\ W(e)'.hold \in {1, 2, 3} => W(e).hold \in {1, 2, 3} \/ journal[<<e, "hold">>] # "none"
  /\ W(e)'.hold \in {2, 3} => W(e).hold \in {2, 3} \/ device[<<e, "hold">>] # "moving"

LEMMA ActOf ==
  ASSUME NEW e \in Execs
  PROVE  /\ H(e).who = "stop" => Act(e, 1) = <<e, "hold">>
         /\ H(e).who = "go" => Act(e, 1) = <<e, "go">>
         /\ Act(e, 1) = <<e, KeyOf(H(e))>> /\ KeyOf(H(e)) \in Keys
         /\ \A k \in Keys : <<e, k>> = Act(e, 1) <=> k = KeyOf(H(e))
         /\ H(e)'.who = H(e).who => Act(e, 1)' = Act(e, 1) /\ KeyOf(H(e))' = KeyOf(H(e))
  BY DEF Act, KeyOf, H, Keys

LEMMA BeginsNothingKeeps ==
  ASSUME Calmly, NEW e \in Execs, live[e].gen = 1, Handled(e), JournalLearns(e), BeginsNothing(e)
  PROVE  Truth(e)' /\ Held(e)' /\ Quiet(e)' /\ Locked(e)'
<1>1. /\ cmd' = cmd /\ told' = told /\ robot' = robot /\ CoroutinesKept(e)
      /\ device' = device /\ sent' = sent
  BY DEF Handled, HandlerStep, HandlerFrame, JournalLearns
<1>2. Truth(e) /\ Held(e) /\ Quiet(e) /\ Locked(e) /\ H(e).who \in {"go", "stop"}
  BY DEF Calmly, Calm, BaseInv, Base, TypedAt, H, Gens
<1>3. /\ W(e)'.on = W(e).on /\ live'[e].gen = live[e].gen
      /\ GivenUp(e) => GivenUp(e)'
      /\ Undisturbed(e)' => Undisturbed(e)
  BY HandledKeeps
<1>4. \A k \in Keys : journal[<<e, k>>] # "none" => journal'[<<e, k>>] # "none"
  BY ActOf DEF JournalLearns
<1>5. journal'[<<e, "hold">>] # "none" => journal[<<e, "hold">>] # "none"
  BY <1>2, ActOf DEF JournalLearns, Keys
<1>6. Truth(e)'
  <2>1. H(e)'.pc = "state" /\ H(e)'.seen \in Confirmed => device'[Act(e, 1)'] # "moving"
    BY <1>1, ActOf DEF BeginsNothing
  <2>2. ASSUME NEW k \in Keys
        PROVE  /\ sent'[<<e, k>>] = 0 => device'[<<e, k>>] = "none"
               /\ journal'[<<e, k>>] \in Confirmed => device'[<<e, k>>] # "moving"
    BY <1>1, <1>2, ActOf DEF Truth, JournalLearns
  <2>3. ASSUME NEW k \in Keys, Tracked(e, k)'
        PROVE  journal'[<<e, k>>] # "none"
    BY <1>1, <1>2, <1>4, <2>3 DEF Truth, Tracked, JournalLearns
  <2> QED
    BY <2>1, <2>2, <2>3 DEF Truth, BeginsNothing
<1>7. Held(e)'
  <2>1. HoldBegun(e)' => HoldBegun(e)
    BY <1>5 DEF HoldBegun, BeginsNothing
  <2>2. HoldBegun(e)' => W(e)'.stop # "none" /\ W(e)'.go # "start"
    BY <1>1, <1>2, <2>1 DEF Held, CoroutinesKept
  <2>3. W(e)'.hold \in {1, 2, 3} => journal'[<<e, "hold">>] # "none"
    BY <1>2, <1>4 DEF Held, BeginsNothing, Keys
  <2>4. W(e)'.hold \in {2, 3} => device'[<<e, "hold">>] # "moving"
    BY <1>1, <1>2 DEF Held, BeginsNothing
  <2>5. H(e)'.who = "stop" /\ H(e)'.pc \in {"sent", "result", "state"} => journal'[<<e, "hold">>] # "none"
    BY <1>4 DEF BeginsNothing, Keys
  <2>6. evidence'[e] \/ told'[e] = "stopped" => W(e)'.hold = 3
    BY <1>1, <1>2 DEF Held, BeginsNothing
  <2> QED
    BY <2>2, <2>3, <2>4, <2>5, <2>6 DEF Held, BeginsNothing
<1>8. Quiet(e)'
  BY <1>1, <1>2, <1>3, <1>4 DEF Quiet, BeginsNothing, CoroutinesKept, Keys
<1>9. Locked(e)'
  <2> SUFFICES ASSUME Undisturbed(e)'
               PROVE  /\ \A k \in Keys : Claim(e, k)' => owner' = <<e, k>> /\ robot' \in {e, None}
                      /\ H(e)'.pc = "save" => \A k \in Keys : ~Claim(e, k)'
                      /\ HoldBegun(e)' => ~Claim(e, "go")'
                      /\ told'[e] = "completed" => ~Moves(e)'
    BY DEF Locked
  <2>1. Undisturbed(e)
    BY <1>3
  <2>2. \A k \in Keys : Claim(e, k)' => device[<<e, k>>] = "moving" /\ Claim(e, k)
    BY <1>1 DEF Claim, BeginsNothing
  <2>3. \A k \in Keys : Claim(e, k)' => owner' = <<e, k>> /\ robot' \in {e, None}
    BY <1>1, <1>2, <2>1, <2>2, ActOf DEF Locked, JournalLearns, releasePhysical
  <2>4. HoldBegun(e)' => HoldBegun(e)
    BY <1>5 DEF HoldBegun, BeginsNothing
  <2>5. HoldBegun(e)' => ~Claim(e, "go")'
    BY <1>2, <2>1, <2>2, <2>4 DEF Locked, Keys
  <2>6. told'[e] = "completed" => ~Moves(e)'
    BY <1>1, <1>2, <2>1 DEF Locked, Moves
  <2> QED
    BY <2>3, <2>5, <2>6 DEF BeginsNothing
<1> QED
  BY <1>6, <1>7, <1>8, <1>9

-----------------------------------------------------------------------------
(* What a step of e keeps of the other Executions.                          *)

Beside(e) ==
  \A f \in Execs \ {e} :
    /\ Apart(f)
    /\ cmd.e = f /\ cmd.pc # "idle" => cmd' = cmd
    /\ cmd' = cmd \/ cmd'.pc = "idle" \/ cmd'.e # f
    /\ robot' = f <=> robot = f
    /\ \A k \in Keys : Undisturbed(f) /\ owner = <<f, k>> /\ robot \in {f, None} =>
                         owner' = <<f, k>> /\ robot' \in {f, None}

LEMMA OthersKeep ==
  ASSUME Calmly, NEW e \in Execs, Beside(e), GivenUp(e) => GivenUp(e)'
  PROVE  \A f \in Execs \ {e} : Calm(f)'
<1> SUFFICES ASSUME NEW f \in Execs \ {e}
             PROVE  Calm(f)'
  OBVIOUS
<1>1. /\ Apart(f)
      /\ cmd.e = f /\ cmd.pc # "idle" => cmd' = cmd
      /\ cmd' = cmd \/ cmd'.pc = "idle" \/ cmd'.e # f
      /\ robot' = f <=> robot = f
  BY DEF Beside
<1>2. Calm(f)
  BY DEF Calmly
<1>3. /\ skill'[f] = skill[f] /\ evidence'[f] = evidence[f] /\ told'[f] = told[f]
      /\ live'[f] = live[f] /\ worker'[f] = worker[f] /\ handler'[f] = handler[f] /\ run'[f] = run[f]
      /\ W(f)' = W(f) /\ H(f)' = H(f) /\ Act(f, 1)' = Act(f, 1) /\ KeyOf(H(f))' = KeyOf(H(f))
      /\ \A k \in Keys : /\ journal'[<<f, k>>] = journal[<<f, k>>]
                         /\ device'[<<f, k>>] = device[<<f, k>>] /\ sent'[<<f, k>>] = sent[<<f, k>>]
      /\ \E k \in Keys : Act(f, 1) = <<f, k>>
  BY <1>1, KeyKnown, ActOf DEF Apart, W, H, Act, KeyOf, Gens
<1>4. SpareUnused(f)'
  BY <1>2, <1>3 DEF Calm, SpareUnused
<1>5. Launch(f)'
  <2>1. Untouched(f) => Untouched(f)'
    BY <1>3 DEF Untouched
  <2>2. Launching(f)' <=> Launching(f)
    BY <1>1 DEF Launching
  <2>3. InStop(f)' => InStop(f) /\ cmd' = cmd
    BY <1>1 DEF InStop
  <2> QED
    BY <1>1, <1>2, <1>3, <2>1, <2>2, <2>3 DEF Calm, Launch
<1>6. Talk(W(f), H(f))'
  BY <1>2, <1>3 DEF Calm
<1>7. Truth(f)'
  <2>1. \A k \in Keys : Tracked(f, k)' => Tracked(f, k)
    BY <1>1, <1>3 DEF Tracked
  <2> QED
    BY <1>2, <1>3, <2>1 DEF Calm, Truth
<1>8. HoldBegun(f)' <=> HoldBegun(f)
  BY <1>3 DEF HoldBegun, Keys
<1>9. Held(f)'
  BY <1>2, <1>3, <1>8 DEF Calm, Held, Keys
<1>10. Course(f)'
  <2>1. InStop(f) => InStop(f)'
    BY <1>1 DEF InStop
  <2>2. cmd.pc = "worker" /\ cmd.e = f => cmd'.pc = "worker" /\ cmd'.e = f
    BY <1>1
  <2> QED
    BY <1>1, <1>2, <1>3, <2>1, <2>2 DEF Calm, Course
<1>11. GivenUp(f)' <=> GivenUp(f)
  BY <1>3 DEF GivenUp, W
<1>12. Quiet(f)'
  BY <1>1, <1>2, <1>3, <1>11 DEF Calm, Quiet, Keys
<1>13. Undisturbed(f)' => Undisturbed(f)
  <2>1. \A x \in Execs \ {e} : GivenUp(x) => GivenUp(x)'
    BY DEF Beside, Apart, GivenUp
  <2> QED
    BY <2>1 DEF Undisturbed
<1>14. \A k \in Keys : Claim(f, k)' <=> Claim(f, k)
  BY <1>3 DEF Claim
<1>15. Moves(f)' <=> Moves(f)
  BY <1>3 DEF Moves
<1>16. Locked(f)'
  <2> SUFFICES ASSUME Undisturbed(f)'
               PROVE  /\ \A k \in Keys : Claim(f, k)' => owner' = <<f, k>> /\ robot' \in {f, None}
                      /\ H(f)'.pc = "save" => \A k \in Keys : ~Claim(f, k)'
                      /\ HoldBegun(f)' => ~Claim(f, "go")'
                      /\ told'[f] = "completed" => ~Moves(f)'
    BY DEF Locked
  <2>1. Undisturbed(f)
    BY <1>13
  <2>2. \A k \in Keys : Claim(f, k)' => owner' = <<f, k>> /\ robot' \in {f, None}
    BY <1>2, <1>14, <2>1 DEF Calm, Locked, Beside
  <2> QED
    BY <1>2, <1>3, <1>8, <1>14, <1>15, <2>1, <2>2 DEF Calm, Locked, Keys
<1> QED
  BY <1>4, <1>5, <1>6, <1>7, <1>9, <1>10, <1>12, <1>16 DEF Calm

\* A step of a handler is a step of its Execution.
LEMMA HandledBeside ==
  ASSUME Calmly, NEW e \in Execs, Handled(e),
         \/ owner' \in {owner, releasePhysical(Act(e, 1))}
         \/ H(e).pc \in {"save", "sent"}
  PROVE  Beside(e)
<1> SUFFICES ASSUME NEW f \in Execs \ {e}
             PROVE  /\ Apart(f)
                    /\ \A k \in Keys : Undisturbed(f) /\ owner = <<f, k>> /\ robot \in {f, None} =>
                         owner' = <<f, k>> /\ robot' \in {f, None}
  BY DEF Beside, Handled, HandlerStep, HandlerFrame
<1>1. \A k \in Keys : <<f, k>> \in Invocations \ {Act(e, 1)}
  BY KeyKnown DEF Invocations, Gens
<1>2. Apart(f)
  BY <1>1 DEF Handled, HandlerStep, HandlerFrame, HandlerTyped, WorkerTyped, LiveTyped, RowTyped,
       ActionTyped, Sending, HandlerOnly, WorkerOnly, Apart
<1>3. robot' = robot
  BY DEF Handled, HandlerStep, HandlerFrame
<1>4. CASE owner' \in {owner, releasePhysical(Act(e, 1))}
  BY <1>1, <1>2, <1>3, <1>4 DEF releasePhysical
<1>5. CASE H(e).pc \in {"save", "sent"}
  <2>1. robot = e \/ GivenUp(e)
    <3>1. Quiet(e) /\ Launch(e)
      BY DEF Calmly, Calm
    <3>2. live[e].gen # 0
      BY <1>5, <3>1 DEF Launch, Untouched, HandlerIdle, H, Gens
    <3> QED
      BY <1>5, <3>1, <3>2 DEF Quiet
  <2>2. e # None /\ (GivenUp(e) => ~Undisturbed(f))
    BY PilotConstants DEF Undisturbed
  <2> QED
    BY <1>2, <2>1, <2>2
<1> QED
  BY <1>2, <1>4, <1>5

\* The steps that begin no Action.
LEMMA BeginsNothingCalm ==
  ASSUME Calmly, NEW e \in Execs, live[e].gen = 1, Handled(e), JournalLearns(e), BeginsNothing(e),
         owner' \in {owner, releasePhysical(Act(e, 1))} \/ H(e).pc = "sent"
  PROVE  \A f \in Execs : Calm(f)'
<1>1. Calm(e)'
  BY BeginsNothingKeeps, HandledKeeps DEF Calm, Handled
<1>2. \A f \in Execs \ {e} : Calm(f)'
  BY OthersKeep, HandledBeside, HandledKeeps
<1> QED
  BY <1>1, <1>2

-----------------------------------------------------------------------------
(* The steps of a handler, as long as nothing was restarted.                *)

\* What a handler is at, and for whom.
LEMMA RequestOf ==
  ASSUME Calmly, NEW e \in Execs, H(e).pc # "idle"
  PROVE  /\ H(e).who \in {"go", "stop"} /\ H(e).req \in Asked /\ H(e).pc \in PcsOf(H(e).req)
         /\ H(e).who = "stop" => H(e).req \in {"start", "result", "outcome"} /\ W(e).stop = "busy"
         /\ H(e).who = "go" => H(e).req \in {"start", "result", "ask", "note"} /\ W(e).go = "busy"
         /\ H(e).pc \in {"register", "wait"} => H(e).req = "ask"
         /\ H(e).pc \in {"start", "save", "send", "sent"} => H(e).req = "start"
         /\ H(e).pc \in {"result", "state"} => H(e).req \in {"start", "result"}
<1>1. Talk(W(e), H(e)) /\ H(e).who \in {"go", "stop"}
  BY DEF Calmly, Calm, BaseInv, Base, TypedAt, H, Gens
<1>2. /\ H(e).req \in Asked /\ H(e).pc \in PcsOf(H(e).req)
      /\ H(e).who = "stop" => H(e).req \in {"start", "result", "outcome"} /\ W(e).stop = "busy"
      /\ H(e).who = "go" => H(e).req \in {"start", "result", "ask", "note"} /\ W(e).go = "busy"
  BY <1>1 DEF Talk, Asked
<1> QED
  BY <1>1, <1>2, PcsOfRequests DEF Asked

\* An answer that tells of no Action.
LEMMA PlainAnswer ==
  ASSUME Calmly, NEW e \in Execs, NEW r, live[e].gen = 1, HandlerStep(e, 1), Responds(e, 1, r),
         H(e).pc # "idle", r = "error" \/ H(e).req \notin {"start", "result"}, EndKept(e),
         UNCHANGED <<journal, device, sent, owner, live>>,
         evidence'[e] => evidence[e] \/ (H(e).who = "stop" /\ H(e).req = "outcome")
  PROVE  \A f \in Execs : Calm(f)'
<1>1. /\ Talk(W(e), H(e))' /\ CoroutinesKept(e) /\ H(e)'.pc = "idle"
      /\ W(e).hold = 3 => W(e)'.hold = 3
      /\ H(e).who = "stop" /\ H(e).req = "outcome" => W(e)'.hold = 3
      /\ \/ W(e)'.hold = W(e).hold \/ W(e)'.hold = 4
         \/ H(e).who = "stop" /\ H(e).req = "outcome" /\ W(e)'.hold = 3
  BY AnswerOf
<1>2. H(e).who = "stop" /\ H(e).req = "outcome" => W(e).hold = 2
  BY DEF Calmly, Calm, Talk
<1>3. Handled(e)
  BY <1>1 DEF Handled
<1>4. JournalLearns(e)
  BY DEF JournalLearns
<1>5. BeginsNothing(e)
  BY <1>1, <1>2 DEF BeginsNothing
<1> QED
  BY <1>3, <1>4, <1>5, BeginsNothingCalm

\* The handler goes on, without a change.
LEMMA PlainMove ==
  ASSUME Calmly, NEW e \in Execs, NEW pc, NEW seen, live[e].gen = 1, HandlerStep(e, 1),
         HandlerAt(e, 1, pc, seen), H(e).pc # "idle", pc \in PcsOf(H(e).req),
         pc \notin {"idle", "start", "save", "send", "sent", "note"}, EndKept(e), worker' = worker,
         UNCHANGED <<journal, device, sent, owner, live, evidence>>,
         pc \in {"result", "state"} /\ H(e).who = "stop" => journal[<<e, "hold">>] # "none",
         pc = "state" /\ seen \in Confirmed => device[Act(e, 1)] # "moving"
  PROVE  \A f \in Execs : Calm(f)'
<1>1. /\ Talk(W(e), H(e))' /\ CoroutinesKept(e) /\ W(e)' = W(e)
      /\ H(e)'.pc = pc /\ H(e)'.seen = seen
      /\ H(e)'.who = H(e).who /\ H(e)'.req = H(e).req
  BY MoveOf
<1>2. Handled(e)
  BY <1>1 DEF Handled
<1>3. JournalLearns(e)
  BY DEF JournalLearns
<1>4. BeginsNothing(e)
  BY <1>1 DEF BeginsNothing
<1> QED
  BY <1>2, <1>3, <1>4, BeginsNothingCalm

LEMMA WrittenCalm ==
  ASSUME Calmly, NEW e \in Execs, NEW g \in Gens, boots' = boots, RowWrittenBack(e, g)
  PROVE  \A f \in Execs : Calm(f)'
<1>1. g = 1 /\ live[e].gen = 1 /\ H(e).pc = "note"
  BY HandlerOfFirst DEF RowWrittenBack, H
<1>2. HandlerStep(e, 1) /\ Responds(e, 1, "ok")
  BY <1>1, WrittenStep DEF Calmly, RowWrittenBack
<1>3. H(e).req = "note"
  BY <1>1 DEF Calmly, Calm, Talk, PcsOf
<1>4. EndKept(e)
  <2>1. H(e).seen \in SkillEnds => skill[e] \in SkillEnds
    BY <1>1 DEF Calmly, Calm, Course
  <2>2. H(e)'.pc = "idle"
    BY <1>1, <1>2, AnswerOf
  <2> QED
    BY <1>1, <2>1, <2>2 DEF RowWrittenBack, Saved, EndKept, H, Calmly, BaseInv, Domains
<1> QED
  BY <1>1, <1>2, <1>3, <1>4, PlainAnswer DEF RowWrittenBack

LEMMA OutcomeCalm ==
  ASSUME Calmly, NEW e \in Execs, NEW g \in Gens, boots' = boots, OutcomeSaved(e, g)
  PROVE  \A f \in Execs : Calm(f)'
<1>1. g = 1 /\ live[e].gen = 1 /\ H(e).pc = "outcome"
  BY HandlerOfFirst DEF OutcomeSaved, H
<1>2. HandlerStep(e, 1) /\ Responds(e, 1, "ok")
  BY <1>1, OutcomeStep DEF Calmly, OutcomeSaved
<1>3. H(e).req = "outcome"
  BY <1>1 DEF Calmly, Calm, Talk, PcsOf
<1>4. H(e).who = "stop"
  BY <1>1, <1>3 DEF Calmly, Calm, Talk, BaseInv, Base, TypedAt, H, Gens
<1>5. EndKept(e)
  <2>1. H(e)'.pc = "idle"
    BY <1>1, <1>2, AnswerOf
  <2> QED
    BY <2>1 DEF OutcomeSaved, EndKept
<1> QED
  BY <1>1, <1>2, <1>3, <1>4, <1>5, PlainAnswer DEF OutcomeSaved

LEMMA AskedCalm ==
  ASSUME Calmly, NEW e \in Execs, NEW g \in Gens, boots' = boots, AgentAsked(e, g)
  PROVE  \A f \in Execs : Calm(f)'
<1>1. g = 1 /\ live[e].gen = 1 /\ H(e).pc = "ask"
  BY HandlerOfFirst DEF AgentAsked, H
<1>2. HandlerStep(e, 1)
  BY <1>1, AskedStep DEF Calmly
<1>3. H(e).req = "ask"
  BY <1>1 DEF Calmly, Calm, Talk, PcsOf
<1>4. CASE Responds(e, 1, "error") /\ UNCHANGED skill
  <2>1. EndKept(e)
    BY <1>1, <1>4, AnswerOf DEF EndKept
  <2> QED
    BY <1>1, <1>2, <1>4, <2>1, PlainAnswer DEF AgentAsked
<1>5. CASE skill' = Saved(e, "waiting_agent") /\ HandlerAt(e, 1, "register", "none") /\ UNCHANGED worker
  <2>1. "register" \in PcsOf(H(e).req)
    BY <1>3, PcsOfRequests
  <2>2. EndKept(e)
    <3>1. H(e)'.pc = "register"
      BY <1>1, <1>5, <2>1, MoveOf
    <3> QED
      BY <1>5, <3>1 DEF EndKept, Saved, SkillEnds, Calmly, BaseInv, Domains
  <2> QED
    BY <1>1, <1>2, <1>5, <2>1, <2>2, PlainMove DEF AgentAsked
<1> QED
  BY <1>1, <1>4, <1>5 DEF AgentAsked

LEMMA WaitsCalm ==
  ASSUME Calmly, NEW e \in Execs, NEW g \in Gens, boots' = boots, AgentWaits(e, g)
  PROVE  \A f \in Execs : Calm(f)'
<1>1. g = 1 /\ live[e].gen = 1 /\ H(e).pc = "register"
  BY HandlerOfFirst DEF AgentWaits, H
<1>2. HandlerStep(e, 1) /\ UNCHANGED <<stored, device, sent, owner, live>>
  BY <1>1, WaitsStep DEF Calmly, AgentWaits
<1>3. H(e).req = "ask"
  BY <1>1, RequestOf
<1>4. CASE Responds(e, 1, "error")
  <2>1. EndKept(e)
    BY <1>1, <1>2, <1>4, AnswerOf DEF EndKept, stored
  <2> QED
    BY <1>1, <1>2, <1>4, <2>1, PlainAnswer DEF stored
<1>5. CASE HandlerAt(e, 1, "wait", "none") /\ UNCHANGED worker
  <2>1. "wait" \in PcsOf(H(e).req)
    BY <1>3, PcsOfRequests
  <2>2. EndKept(e)
    BY <1>1, <1>2, <1>5, <2>1, MoveOf DEF EndKept, stored
  <2> QED
    BY <1>1, <1>2, <1>5, <2>1, <2>2, PlainMove DEF stored
<1> QED
  BY <1>1, <1>4, <1>5 DEF AgentWaits

LEMMA RepliesCalm ==
  ASSUME Calmly, NEW e \in Execs, NEW g \in Gens, boots' = boots, AgentReplies(e, g)
  PROVE  \A f \in Execs : Calm(f)'
<1>1. g = 1 /\ live[e].gen = 1 /\ H(e).pc = "wait"
  BY HandlerOfFirst DEF AgentReplies, H
<1>2. HandlerStep(e, 1) /\ UNCHANGED <<stored, device, sent, owner, live, worker>>
      /\ HandlerAt(e, 1, "wait", "reply")
  BY <1>1, RepliesStep DEF Calmly, AgentReplies
<1>3. "wait" \in PcsOf(H(e).req)
  BY <1>1 DEF Calmly, Calm, Talk
<1>4. EndKept(e)
  BY <1>1, <1>2, <1>3, MoveOf DEF EndKept, stored
<1> QED
  BY <1>1, <1>2, <1>3, <1>4, PlainMove DEF stored

LEMMA AnsweredCalm ==
  ASSUME Calmly, NEW e \in Execs, NEW g \in Gens, boots' = boots, AgentAnswered(e, g)
  PROVE  \A f \in Execs : Calm(f)'
<1>1. g = 1 /\ live[e].gen = 1 /\ H(e).pc = "wait"
  BY HandlerOfFirst DEF AgentAnswered, H
<1>2. HandlerStep(e, 1)
  BY <1>1, AnsweredStep DEF Calmly
<1>3. H(e).req = "ask"
  BY <1>1, RequestOf
<1>4. PICK r \in {"ok", "error"} :
        Responds(e, 1, r) /\ (skill' = Saved(e, "running") \/ UNCHANGED skill)
  BY <1>1 DEF AgentAnswered
<1>5. EndKept(e)
  <2>1. H(e)'.pc = "idle"
    BY <1>1, <1>4, AnswerOf
  <2> QED
    BY <1>4, <2>1 DEF EndKept, Saved, SkillEnds, Calmly, BaseInv, Domains
<1> QED
  BY <1>1, <1>2, <1>3, <1>4, <1>5, PlainAnswer DEF AgentAnswered

LEMMA QueriedCalm ==
  ASSUME Calmly, NEW e \in Execs, NEW g \in Gens, boots' = boots, ActionQueried(e, g)
  PROVE  \A f \in Execs : Calm(f)'
<1>1. g = 1 /\ live[e].gen = 1 /\ H(e).pc = "result"
  BY HandlerOfFirst DEF ActionQueried, H
<1>2. HandlerStep(e, 1) /\ UNCHANGED <<stored, device, sent, owner>>
  BY <1>1, QueriedStep DEF Calmly, ActionQueried
<1>3. H(e).who \in {"go", "stop"} /\ H(e).req \in {"start", "result"} /\ H(e).pc \in PcsOf(H(e).req)
      /\ (H(e).who = "stop" => journal[<<e, "hold">>] # "none")
  BY <1>1, RequestOf DEF Calmly, Calm, Held
<1>4. CASE journal[Act(e, 1)] \in ActionEnds
  <2>1. Responds(e, 1, journal[Act(e, 1)])
    BY <1>1, <1>4 DEF ActionQueried
  <2>2. EndKept(e) /\ Handled(e)
    BY <1>1, <1>2, <2>1, AnswerOf DEF EndKept, Handled, stored
  <2>3. \A k \in live'[e].acts : k \in live[e].acts \/ journal'[<<e, k>>] # "none"
    <3>1. Act(e, 1)[2] \in Keys /\ Act(e, 1) = <<e, Act(e, 1)[2]>>
      BY KeyKnown DEF Gens
    <3>2. journal[Act(e, 1)] # "none"
      BY <1>4 DEF ActionEnds
    <3>3. live'[e].acts \in {live[e].acts, live[e].acts \cup {Act(e, 1)[2]}, live[e].acts \ {Act(e, 1)[2]}}
      BY <1>1, <1>4 DEF ActionQueried, H, Calmly, BaseInv, Domains, Base, TypedAt, NotLive
    <3> QED
      BY <1>2, <3>1, <3>2, <3>3 DEF stored
  <2>4. JournalLearns(e)
    BY <1>2, <2>3 DEF JournalLearns, stored
  <2>5. BeginsNothing(e)
    <3>1. H(e)'.pc = "idle"
      BY <1>1, <2>1, AnswerOf
    <3>2. W(e)'.hold \in {2, 3} => W(e).hold \in {2, 3} \/ device[<<e, "hold">>] # "moving"
      <4>1. H(e).who = "stop" /\ journal[Act(e, 1)] = "succeeded" => device[<<e, "hold">>] # "moving"
        BY ActOf DEF Calmly, Calm, Truth, Confirmed, ActionEnds, Keys
      <4> QED
        BY <1>1, <1>3, <2>1, <4>1, AnswerOf
    <3>3. W(e)'.hold \in {1, 2, 3} => W(e).hold \in {1, 2, 3} \/ journal[<<e, "hold">>] # "none"
      BY <1>1, <1>3, <2>1, AnswerOf
    <3>4. W(e).hold = 3 => W(e)'.hold = 3
      BY <1>1, <2>1, AnswerOf
    <3> QED
      BY <1>2, <3>1, <3>2, <3>3, <3>4 DEF BeginsNothing, stored
  <2> QED
    BY <1>1, <1>2, <2>2, <2>4, <2>5, BeginsNothingCalm
<1>5. CASE journal[Act(e, 1)] \notin ActionEnds
  <2>1. AbilityAsked(e, 1, Act(e, 1)) /\ UNCHANGED <<worker, live>>
    BY <1>1, <1>5 DEF ActionQueried
  <2>2. PICK s \in {"error", StateOf(device[Act(e, 1)])} : HandlerAt(e, 1, "state", s)
    BY <2>1 DEF AbilityAsked
  <2>3. s \in Confirmed => device[Act(e, 1)] # "moving"
    BY DEF Confirmed, ActionEnds, StateOf
  <2>4. "state" \in PcsOf(H(e).req)
    BY <1>3, PcsOfRequests
  <2>5. EndKept(e)
    BY <1>1, <1>2, <2>1, <2>2, <2>4, MoveOf DEF EndKept, stored
  <2> QED
    BY <1>1, <1>2, <1>3, <2>1, <2>2, <2>3, <2>4, <2>5, PlainMove DEF stored
<1> QED
  BY <1>4, <1>5

LEMMA RefreshedCalm ==
  ASSUME Calmly, NEW e \in Execs, NEW g \in Gens, boots' = boots, ActionRefreshed(e, g)
  PROVE  \A f \in Execs : Calm(f)'
<1> DEFINE i == Act(e, 1)
           s == IF H(e).seen = "error" THEN "interrupted" ELSE H(e).seen
<1>1. g = 1 /\ live[e].gen = 1 /\ H(e).pc = "state"
  BY HandlerOfFirst DEF ActionRefreshed, H
<1>2. HandlerStep(e, 1) /\ UNCHANGED <<skill, evidence, device, sent>>
      /\ journal' = [journal EXCEPT ![i] = s] /\ owner' = AfterState(i, s)
  BY <1>1, RefreshedStep DEF Calmly, ActionRefreshed, H
<1>3. H(e).who \in {"go", "stop"} /\ H(e).req \in {"start", "result"} /\ H(e).pc \in PcsOf(H(e).req)
      /\ (H(e).who = "stop" => journal[<<e, "hold">>] # "none")
  BY <1>1, RequestOf DEF Calmly, Calm, Held
<1>4. s \in Journaled /\ s # "none" /\ (s \in Confirmed => device[i] # "moving")
  <2>1. H(e).seen \in Journaled \cup {"error"}
    BY <1>1 DEF Calmly, BaseInv, Base, TypedAt, H, Gens
  <2>2. H(e).seen \in Confirmed => device[i] # "moving"
    BY <1>1 DEF Calmly, Calm, Truth
  <2> QED
    BY <2>1, <2>2 DEF Journaled, ActionEnds, Confirmed
<1>5. /\ journal'[i] = s /\ i = <<e, i[2]>> /\ i[2] \in Keys
      /\ \A k \in Keys : <<e, k>> # i => journal'[<<e, k>>] = journal[<<e, k>>]
  BY <1>2, KeyKnown, JournalLeft DEF Calmly, Gens, Invocations
<1>6. owner' = owner \/ (device[i] # "moving" /\ owner' = releasePhysical(i))
  BY <1>2, <1>4 DEF AfterState, Confirmed
<1>7. \A k \in live'[e].acts : k \in live[e].acts \/ journal'[<<e, k>>] # "none"
  <2>1. live'[e].acts \in {live[e].acts, live[e].acts \cup {i[2]}, live[e].acts \ {i[2]}}
    BY <1>1 DEF ActionRefreshed, Registered, H, Calmly, BaseInv, Domains, Base, TypedAt, NotLive
  <2> QED
    BY <1>4, <1>5, <2>1
<1>8. H(e).who = "stop" => i = <<e, "hold">>
  BY ActOf
<1>9. JournalLearns(e)
  <2>1. H(e).who = "stop" => journal[i] # "none"
    BY <1>3, <1>8
  <2> HIDE DEF i, s
  <2>2. \/ owner' = owner
        \/ device[i] # "moving" /\ (Undisturbed(e) => owner' = releasePhysical(i))
    BY <1>6
  <2> QED
    BY <1>2, <1>4, <1>5, <1>7, <2>1, <2>2 DEF JournalLearns, i
<1>10. CASE \E r \in {s, "error"} : Responds(e, 1, r)
  <2>1. PICK r \in {s, "error"} : Responds(e, 1, r)
    BY <1>10
  <2>2. H(e)'.pc = "idle"
    BY <1>1, <2>1, AnswerOf
  <2>3. EndKept(e) /\ Handled(e)
    BY <1>1, <1>2, <2>1, <2>2, AnswerOf DEF EndKept, Handled
  <2>4. BeginsNothing(e)
    <3>1. r = "succeeded" /\ H(e).who = "stop" => device[<<e, "hold">>] # "moving"
      BY <1>4, <1>8, <2>1 DEF Confirmed, ActionEnds
    <3>2. W(e)'.hold \in {2, 3} => W(e).hold \in {2, 3} \/ device[<<e, "hold">>] # "moving"
      BY <1>1, <1>3, <2>1, <3>1, AnswerOf
    <3>3. W(e)'.hold \in {1, 2, 3} => W(e).hold \in {1, 2, 3} \/ journal[<<e, "hold">>] # "none"
      BY <1>1, <1>3, <2>1, AnswerOf
    <3>4. W(e).hold = 3 => W(e)'.hold = 3
      BY <1>1, <2>1, AnswerOf
    <3> QED
      BY <1>2, <2>2, <3>2, <3>3, <3>4 DEF BeginsNothing
  <2> QED
    BY <1>1, <1>6, <1>9, <2>3, <2>4, BeginsNothingCalm
<1>11. CASE HandlerAt(e, 1, "result", "none") /\ UNCHANGED worker
  <2>1. "result" \in PcsOf(H(e).req)
    BY <1>3, PcsOfRequests
  <2>2. /\ Talk(W(e), H(e))' /\ CoroutinesKept(e) /\ W(e)' = W(e)
        /\ H(e)'.pc = "result" /\ H(e)'.who = H(e).who
    BY <1>1, <1>11, <2>1, MoveOf
  <2>3. EndKept(e) /\ Handled(e)
    BY <1>2, <2>2 DEF EndKept, Handled
  <2>4. BeginsNothing(e)
    BY <1>2, <1>3, <2>2 DEF BeginsNothing
  <2> QED
    BY <1>1, <1>6, <1>9, <2>3, <2>4, BeginsNothingCalm
<1>12. \/ \E r \in {s, "error"} : Responds(e, 1, r)
       \/ HandlerAt(e, 1, "result", "none") /\ UNCHANGED worker
  BY <1>1 DEF ActionRefreshed, H
<1> QED
  BY <1>10, <1>11, <1>12

LEMMA StartedCalm ==
  ASSUME Calmly, NEW e \in Execs, NEW g \in Gens, boots' = boots, ActionStarted(e, g)
  PROVE  \A f \in Execs : Calm(f)'
<1> DEFINE i == Act(e, 1)
<1>1. g = 1 /\ live[e].gen = 1 /\ H(e).pc = "sent"
  BY HandlerOfFirst DEF ActionStarted, H
<1>2. HandlerStep(e, 1) /\ UNCHANGED <<skill, evidence, device, sent>>
  BY <1>1, StartedStep DEF Calmly, ActionStarted
<1>3. H(e).who \in {"go", "stop"} /\ H(e).req = "start" /\ H(e).pc \in PcsOf(H(e).req)
      /\ (H(e).who = "stop" => journal[<<e, "hold">>] # "none" /\ i = <<e, "hold">>)
  BY <1>1, RequestOf, ActOf DEF Calmly, Calm, Held
<1>4. PICK s \in Journaled, r \in {"running", "error"}, m \in BOOLEAN :
        /\ journal' = [journal EXCEPT ![i] = s] /\ Responds(e, 1, r) /\ Registered(e, i[2], m)
        /\ s \in Confirmed => device[i] # "moving"
        /\ owner' = owner \/ (device[i] # "moving" /\ (Undisturbed(e) => owner' = releasePhysical(i)))
  <2>1. CASE H(e).seen = "ok"
    BY <1>1, <2>1 DEF ActionStarted, H, Journaled, Confirmed, ActionEnds
  <2>2. CASE H(e).seen = "rejected"
    <3>1. device[i] = "none"
      BY <1>1, <2>2 DEF Calmly, Calm, Truth
    <3>2. Undisturbed(e) => owner = i
      BY <1>1, <2>2, ActOf DEF Calmly, Calm, Locked, Claim
    <3> QED
      BY <1>1, <2>2, <3>1, <3>2 DEF ActionStarted, H, Journaled, ActionEnds, releasePhysical
  <2>3. CASE H(e).seen = "error"
    <3>1. StateOf(device[i]) \in Journaled
      BY StateKnown
    <3>2. StateOf(device[i]) \in ActionEnds \ {"interrupted"} => device[i] # "moving"
      BY DEF StateOf, ActionEnds
    <3>3. "interrupted" \in Journaled
      BY DEF Journaled, ActionEnds
    <3>4. \/ /\ StateOf(device[i]) \in ActionEnds \ {"interrupted"}
             /\ journal' = [journal EXCEPT ![i] = StateOf(device[i])]
             /\ owner' = AfterState(i, StateOf(device[i]))
             /\ Registered(e, i[2], TRUE) /\ Responds(e, 1, "error")
          \/ /\ journal' = [journal EXCEPT ![i] = "interrupted"] /\ owner' = owner
             /\ Registered(e, i[2], TRUE) /\ Responds(e, 1, "error")
      BY <1>1, <2>3 DEF ActionStarted, H, markInterrupted
    <3> QED
      BY <3>1, <3>2, <3>3, <3>4 DEF AfterState, Confirmed
  <2> QED
    BY <1>1, <2>1, <2>2, <2>3 DEF ActionStarted, H
<1>5. /\ journal'[i] = s /\ i = <<e, i[2]>> /\ i[2] \in Keys /\ s # "none"
      /\ \A k \in Keys : <<e, k>> # i => journal'[<<e, k>>] = journal[<<e, k>>]
  BY <1>4, KeyKnown, JournalLeft DEF Calmly, Gens, Invocations, Journaled, ActionEnds
<1>6. live'[e].acts = live[e].acts \cup {i[2]}
  BY <1>4 DEF Registered, Calmly, BaseInv, Domains, Base, TypedAt, NotLive
<1>7. JournalLearns(e)
  <2>1. H(e).who = "stop" => journal[i] # "none"
    BY <1>3
  <2> HIDE DEF i
  <2> QED
    BY <1>2, <1>4, <1>5, <1>6, <2>1 DEF JournalLearns, i
<1>8. H(e)'.pc = "idle"
  BY <1>1, <1>4, AnswerOf
<1>9. EndKept(e) /\ Handled(e)
  BY <1>1, <1>2, <1>4, <1>8, AnswerOf DEF EndKept, Handled
<1>10. BeginsNothing(e)
  <2>1. W(e)'.hold \in {2, 3} => W(e).hold \in {2, 3}
    BY <1>1, <1>3, <1>4, AnswerOf
  <2>2. W(e)'.hold \in {1, 2, 3} => W(e).hold \in {1, 2, 3} \/ journal[<<e, "hold">>] # "none"
    BY <1>1, <1>3, <1>4, AnswerOf
  <2>3. W(e).hold = 3 => W(e)'.hold = 3
    BY <1>1, <1>4, AnswerOf
  <2> QED
    BY <1>2, <1>8, <2>1, <2>2, <2>3 DEF BeginsNothing
<1> QED
  BY <1>1, <1>7, <1>9, <1>10, BeginsNothingCalm

\* StartAction finds the Robot free: then nothing of the Execution moves.
LEMMA FreeCalm ==
  ASSUME Calmly, NEW e \in Execs, live[e].gen = 1, HandlerStep(e, 1), H(e).pc = "start",
         HandlerAt(e, 1, "save", "none"), journal[Act(e, 1)] = "none", owner = None,
         UNCHANGED <<stored, device, sent, owner, worker, live>>
  PROVE  \A f \in Execs : Calm(f)'
<1>1. /\ H(e).who \in {"go", "stop"} /\ "save" \in PcsOf(H(e).req)
      /\ H(e).who = "stop" => W(e).stop = "busy"
  BY RequestOf, PcsOfRequests
<1>2. /\ Talk(W(e), H(e))' /\ CoroutinesKept(e) /\ W(e)' = W(e)
      /\ H(e)'.pc = "save" /\ H(e)'.who = H(e).who /\ Act(e, 1)' = Act(e, 1)
  BY <1>1, MoveOf, ActOf
<1>3. EndKept(e) /\ Handled(e)
  BY <1>2 DEF EndKept, Handled, stored
<1>4. Truth(e) /\ Held(e) /\ Quiet(e) /\ Locked(e) /\ Talk(W(e), H(e))
  BY DEF Calmly, Calm
<1>5. /\ cmd' = cmd /\ told' = told /\ robot' = robot
      /\ live'[e].gen = live[e].gen
      /\ GivenUp(e) => GivenUp(e)'
      /\ Undisturbed(e)' => Undisturbed(e)
  BY <1>3, HandledKeeps DEF HandlerStep, HandlerFrame
<1>6. Truth(e)'
  BY <1>2, <1>4, <1>5 DEF Truth, Tracked, stored
<1>7. Held(e)'
  <2>1. HoldBegun(e)' => HoldBegun(e) \/ H(e).who = "stop"
    BY <1>2 DEF HoldBegun, stored
  <2>2. HoldBegun(e)' => H(e).who = "stop"
    BY <1>1, <1>4, <2>1 DEF Held
  <2>3. W(e).go # "start"
    BY <1>4 DEF Talk
  <2> QED
    BY <1>1, <1>2, <1>4, <1>5, <2>2, <2>3 DEF Held, stored
<1>8. Quiet(e)'
  BY <1>4, <1>5 DEF Quiet, stored
<1>9. Locked(e)'
  <2> SUFFICES ASSUME Undisturbed(e)'
               PROVE  /\ \A k \in Keys : ~Claim(e, k)'
                      /\ told'[e] = "completed" => ~Moves(e)'
    BY DEF Locked, Keys
  <2>1. Undisturbed(e) /\ \A k \in Keys : <<e, k>> # None
    BY <1>5, PilotConstants DEF Invocations
  <2>2. \A k \in Keys : Claim(e, k)' => Claim(e, k)
    BY <1>2 DEF Claim
  <2> QED
    BY <1>4, <1>5, <2>1, <2>2 DEF Locked, Moves
<1>10. Calm(e)'
  BY <1>2, <1>3, <1>6, <1>7, <1>8, <1>9, HandledKeeps DEF Calm
<1>11. \A f \in Execs \ {e} : Calm(f)'
  BY <1>3, <1>5, OthersKeep, HandledBeside
<1> QED
  BY <1>10, <1>11

LEMMA CheckedCalm ==
  ASSUME Calmly, NEW e \in Execs, NEW g \in Gens, boots' = boots, ActionChecked(e, g)
  PROVE  \A f \in Execs : Calm(f)'
<1> DEFINE i == Act(e, 1)
<1>1. g = 1 /\ live[e].gen = 1 /\ H(e).pc = "start"
  BY HandlerOfFirst DEF ActionChecked, H
<1>2. HandlerStep(e, 1) /\ UNCHANGED <<stored, device, sent, owner>>
  BY <1>1, CheckedStep DEF Calmly, ActionChecked
<1>3. H(e).who \in {"go", "stop"} /\ H(e).req = "start" /\ H(e).pc \in PcsOf(H(e).req)
      /\ (H(e).who = "stop" => i = <<e, "hold">>)
  BY <1>1, RequestOf, ActOf
<1>4. CASE /\ journal[i] = "none" /\ RobotIsFree
           /\ HandlerAt(e, 1, "save", "none") /\ UNCHANGED <<worker, live>>
  BY <1>1, <1>2, <1>4, FreeCalm DEF RobotIsFree
<1>5. CASE Responds(e, 1, "error") /\ UNCHANGED live
  <2>1. EndKept(e)
    BY <1>1, <1>2, <1>5, AnswerOf DEF EndKept, stored
  <2> QED
    BY <1>1, <1>2, <1>5, <2>1, PlainAnswer DEF stored
<1>6. CASE /\ journal[i] \in ActionEnds
           /\ Registered(e, i[2], journal[i] # "rejected")
           /\ Responds(e, 1, journal[i])
  <2>1. H(e)'.pc = "idle"
    BY <1>1, <1>6, AnswerOf
  <2>2. EndKept(e) /\ Handled(e)
    BY <1>1, <1>2, <1>6, <2>1, AnswerOf DEF EndKept, Handled, stored
  <2>3. live'[e].acts = live[e].acts \cup {i[2]} /\ i = <<e, i[2]>> /\ journal[i] # "none"
    BY <1>6, KeyKnown DEF Registered, Calmly, BaseInv, Domains, Base, TypedAt, NotLive, ActionEnds, Gens
  <2>4. JournalLearns(e)
    <3>1. \A k \in live'[e].acts : k \in live[e].acts \/ journal[<<e, k>>] # "none"
      BY <2>3
    <3> HIDE DEF i
    <3> QED
      BY <1>2, <3>1 DEF JournalLearns, stored
  <2>5. BeginsNothing(e)
    <3>1. W(e)'.hold \in {2, 3} => W(e).hold \in {2, 3}
      BY <1>1, <1>3, <1>6, AnswerOf
    <3>2. W(e)'.hold \in {1, 2, 3} => W(e).hold \in {1, 2, 3} \/ journal[<<e, "hold">>] # "none"
      BY <1>1, <1>3, <1>6, <2>3, AnswerOf
    <3>3. W(e).hold = 3 => W(e)'.hold = 3
      BY <1>1, <1>6, AnswerOf
    <3> QED
      BY <1>2, <2>1, <3>1, <3>2, <3>3 DEF BeginsNothing, stored
  <2> QED
    BY <1>1, <1>2, <2>2, <2>4, <2>5, BeginsNothingCalm
<1>7. CASE /\ journal[i] # "none"
           /\ HandlerAt(e, 1, "result", "none") /\ UNCHANGED <<worker, live>>
  <2>1. "result" \in PcsOf(H(e).req)
    BY <1>3, PcsOfRequests
  <2>2. EndKept(e)
    BY <1>1, <1>2, <1>7, <2>1, MoveOf DEF EndKept, stored
  <2>3. H(e).who = "stop" => journal[<<e, "hold">>] # "none"
    BY <1>3, <1>7
  <2> QED
    BY <1>1, <1>2, <1>7, <2>1, <2>2, <2>3, PlainMove DEF stored
<1> QED
  BY <1>1, <1>4, <1>5, <1>6, <1>7 DEF ActionChecked

LEMMA TakesCalm ==
  ASSUME Calmly, NEW e \in Execs, NEW g \in Gens, boots' = boots, HandlerTakes(e, g)
  PROVE  \A f \in Execs : Calm(f)'
<1> DEFINE who == Head(W(e).requests)
<1>1. g = 1 /\ live[e].gen = 1 /\ H(e).pc = "idle" /\ W(e).requests # <<>>
  BY HandlerOfFirst DEF HandlerTakes, H, W
<1>2. HandlerStep(e, 1) /\ UNCHANGED <<stored, device, sent, owner, live, robot, told, cmd>>
  BY <1>1, TakesStep DEF Calmly, HandlerTakes
<1>3. /\ Talk(W(e), H(e)) /\ Domains /\ TypedAt(e) /\ W(e).requests \in Queues
      /\ Truth(e) /\ Held(e) /\ Quiet(e) /\ Locked(e)
  BY DEF Calmly, Calm, BaseInv, Base, Talk
<1>4. who \in {"go", "stop"}
  BY <1>1, <1>3, QueueTakes
<1>5. /\ W(e)'.requests = Tail(W(e).requests) /\ W(e)'.hold = W(e).hold /\ W(e)'.on = W(e).on
      /\ who = "go" => W(e)'.go = "busy" /\ W(e)'.stop = W(e).stop
      /\ who # "go" => W(e)'.stop = "busy" /\ W(e)'.go = W(e).go
      /\ H(e)' = [pc |-> W(e)[who], who |-> who, req |-> W(e)[who], seen |-> skill[e]]
  BY <1>1, <1>3, <1>4 DEF HandlerTakes, W, H, Domains, TypedAt, NoWorker, Gens
<1>6. /\ Talk(W(e)', H(e)') /\ W(e)[who] \in Asked
      /\ H(e)'.pc = W(e)[who] /\ H(e)'.who = who /\ H(e)'.seen = skill[e]
  <2> HIDE DEF who
  <2>1. who = Head(W(e).requests)
    BY DEF who
  <2> QED
    BY <1>1, <1>3, <1>5, <2>1, TalkTakes
<1>7. /\ who = "go" => W(e).stop # "busy" /\ W(e)[who] = W(e).go /\ W(e).go \in Asked
      /\ who # "go" => who = "stop" /\ W(e)[who] = W(e).stop /\ W(e).stop \in Asked
  BY <1>1, <1>3, <1>4, <1>6 DEF Talk
<1>8. "none" \notin Asked /\ "idle" \notin Asked
      /\ \A pc \in Asked : pc \notin {"save", "send", "sent", "state"}
  BY DEF Asked
<1> HIDE DEF who
<1>9. CoroutinesKept(e)
  BY <1>5, <1>7, <1>8 DEF CoroutinesKept
<1>10. EndKept(e) /\ Handled(e)
  BY <1>2, <1>6, <1>9 DEF EndKept, Handled, stored
<1>11. /\ live'[e].gen = live[e].gen
       /\ GivenUp(e) => GivenUp(e)'
       /\ Undisturbed(e)' => Undisturbed(e)
  BY <1>1, <1>10, HandledKeeps
<1>12. Truth(e)'
  BY <1>2, <1>3, <1>6, <1>8 DEF Truth, Tracked, stored
<1>13. Held(e)'
  <2>1. HoldBegun(e)' => HoldBegun(e)
    BY <1>2, <1>6, <1>8 DEF HoldBegun, stored
  <2>2. HoldBegun(e)' => W(e)'.stop # "none" /\ W(e)'.go # "start"
    BY <1>3, <1>9, <2>1 DEF Held, CoroutinesKept
  <2>3. HoldBegun(e)' /\ who = "go" => H(e)'.pc # "start"
    BY <1>3, <1>6, <1>7, <2>1 DEF Held
  <2>4. who = "stop" /\ H(e)'.pc = "result" => W(e).hold = 1
    BY <1>3, <1>6, <1>7 DEF Talk
  <2>5. W(e)'.hold = W(e).hold /\ H(e)'.who = who
    BY <1>5, <1>6
  <2>6. H(e)'.pc \notin {"save", "send", "sent", "state"}
    BY <1>6, <1>8
  <2> QED
    BY <1>2, <1>3, <2>2, <2>3, <2>4, <2>5, <2>6 DEF Held, stored
<1>14. Quiet(e)'
  <2> SUFFICES ASSUME live'[e].gen # 0 /\ robot' # e /\ ~GivenUp(e)'
               PROVE  /\ ~W(e)'.on
                      /\ H(e)'.pc \notin {"save", "send", "sent"}
                      /\ H(e)'.pc = "start" => journal'[Act(e, 1)'] # "none"
                      /\ W(e)'.go = "start" => journal'[<<e, "go">>] # "none"
                      /\ W(e)'.stop = "start" => journal'[<<e, "hold">>] # "none"
    BY DEF Quiet
  <2>1. /\ ~W(e).on /\ (W(e).go = "start" => journal[<<e, "go">>] # "none")
        /\ (W(e).stop = "start" => journal[<<e, "hold">>] # "none")
    BY <1>2, <1>3, <1>11 DEF Quiet
  <2>2. /\ who = "go" => Act(e, 1)' = <<e, "go">>
        /\ who = "stop" => Act(e, 1)' = <<e, "hold">>
    BY <1>6 DEF Act, KeyOf, H
  <2> QED
    BY <1>2, <1>4, <1>5, <1>6, <1>7, <1>8, <1>9, <2>1, <2>2 DEF stored, CoroutinesKept
<1>15. Locked(e)'
  <2>1. \A k \in Keys : Claim(e, k)' => Claim(e, k)
    BY <1>2, <1>6, <1>8 DEF Claim
  <2>2. HoldBegun(e)' => HoldBegun(e)
    BY <1>2, <1>6, <1>8 DEF HoldBegun, stored
  <2>3. H(e)'.pc # "save" /\ (Moves(e)' => Moves(e))
    BY <1>2, <1>6, <1>8 DEF Moves
  <2> QED
    BY <1>2, <1>3, <1>11, <2>1, <2>2, <2>3 DEF Locked, Keys
<1>16. Calm(e)'
  BY <1>1, <1>6, <1>10, <1>12, <1>13, <1>14, <1>15, HandledKeeps DEF Calm
<1>17. \A f \in Execs \ {e} : Calm(f)'
  BY <1>2, <1>10, <1>11, OthersKeep, HandledBeside
<1> QED
  BY <1>16, <1>17

LEMMA SavedCalm ==
  ASSUME Calmly, NEW e \in Execs, NEW g \in Gens, boots' = boots, ActionSaved(e, g)
  PROVE  \A f \in Execs : Calm(f)'
<1> DEFINE i == Act(e, 1)
<1>1. g = 1 /\ live[e].gen = 1 /\ H(e).pc = "save"
  BY HandlerOfFirst DEF ActionSaved, H
<1>2. /\ HandlerStep(e, 1)
      /\ UNCHANGED <<skill, evidence, device, sent, robot, live, told, cmd>>
  BY <1>1, SavedStep DEF Calmly, ActionSaved
<1>3. /\ Truth(e) /\ Held(e) /\ Quiet(e) /\ Locked(e) /\ Course(e)
      /\ journal[i] = "none"
  BY <1>1 DEF Calmly, Calm, Truth
<1>4. /\ journal' = [journal EXCEPT ![i] = "accepted"] /\ owner' = i
      /\ HandlerAt(e, 1, "send", "none") /\ worker' = worker
  BY <1>1, <1>3 DEF ActionSaved, CanJournal
<1>5. /\ H(e).who \in {"go", "stop"} /\ "send" \in PcsOf(H(e).req)
      /\ (H(e).who = "stop" <=> i = <<e, "hold">>) /\ KeyOf(H(e)) \in Keys /\ i = <<e, KeyOf(H(e))>>
  BY <1>1, RequestOf, PcsOfRequests DEF Act, KeyOf, H, Keys
<1>6. /\ Talk(W(e), H(e))' /\ CoroutinesKept(e) /\ W(e)' = W(e)
      /\ H(e)'.pc = "send" /\ H(e)'.seen = "none" /\ H(e)'.who = H(e).who
      /\ Act(e, 1)' = i /\ KeyOf(H(e)') = KeyOf(H(e))
  BY <1>1, <1>4, <1>5, MoveOf, ActOf
<1>7. /\ journal'[i] = "accepted"
      /\ \A k \in Keys : <<e, k>> # i => journal'[<<e, k>>] = journal[<<e, k>>]
  BY <1>4, JournalLeft DEF Calmly, Gens, Invocations
<1>8. EndKept(e) /\ Handled(e)
  BY <1>2, <1>6 DEF EndKept, Handled
<1>9. /\ live'[e].gen = live[e].gen
      /\ GivenUp(e) => GivenUp(e)'
      /\ Undisturbed(e)' => Undisturbed(e)
  BY <1>1, <1>8, HandledKeeps
<1> HIDE DEF i
<1>10. Truth(e)'
  <2>1. ASSUME NEW k \in Keys
        PROVE  /\ sent'[<<e, k>>] = 0 => device'[<<e, k>>] = "none"
               /\ journal'[<<e, k>>] \in Confirmed => device'[<<e, k>>] # "moving"
               /\ Tracked(e, k)' => journal'[<<e, k>>] # "none" /\ KeyOf(H(e)') # k
    <3>1. "accepted" \notin Confirmed
      BY DEF Confirmed, ActionEnds
    <3>2. Tracked(e, k)' => Tracked(e, k)
      BY <1>2 DEF Tracked
    <3> QED
      BY <1>2, <1>3, <1>5, <1>6, <1>7, <3>1, <3>2 DEF Truth
  <2> QED
    BY <1>6, <1>7, <2>1 DEF Truth
<1>11. HoldBegun(e)' => HoldBegun(e)
  BY <1>1, <1>5, <1>6, <1>7 DEF HoldBegun, Keys
<1>12. Held(e)'
  <2>1. journal[<<e, "hold">>] # "none" => journal'[<<e, "hold">>] # "none"
    BY <1>7 DEF Keys
  <2> QED
    BY <1>1, <1>2, <1>3, <1>6, <1>11, <2>1 DEF Held
<1>13. Quiet(e)'
  BY <1>1, <1>2, <1>3, <1>9 DEF Quiet
<1>14. Locked(e)'
  <2> SUFFICES ASSUME Undisturbed(e)'
               PROVE  /\ \A k \in Keys : Claim(e, k)' => owner' = <<e, k>> /\ robot' \in {e, None}
                      /\ HoldBegun(e)' => ~Claim(e, "go")'
                      /\ told'[e] = "completed" => ~Moves(e)'
    BY <1>6 DEF Locked
  <2>1. Undisturbed(e) /\ \A k \in Keys : ~Claim(e, k)
    BY <1>1, <1>3, <1>9 DEF Locked
  <2>2. \A k \in Keys : Claim(e, k)' => k = KeyOf(H(e)) /\ ~live[e].cancelled
    BY <1>2, <1>6, <2>1 DEF Claim
  <2>3. ~live[e].cancelled => robot = e
    BY <1>1, <1>3 DEF Course
  <2>4. HoldBegun(e)' => KeyOf(H(e)) # "go"
    BY <1>1, <1>3, <1>5, <1>11 DEF Held, KeyOf
  <2>5. told'[e] = "completed" => ~Moves(e)'
    BY <1>2, <1>3, <2>1 DEF Locked, Moves
  <2> QED
    BY <1>2, <1>4, <1>5, <2>2, <2>3, <2>4, <2>5 DEF Keys
<1>15. Calm(e)'
  BY <1>1, <1>6, <1>8, <1>10, <1>12, <1>13, <1>14, HandledKeeps DEF Calm
<1>16. Beside(e)
  BY <1>1, <1>8, HandledBeside
<1>17. \A f \in Execs \ {e} : Calm(f)'
  BY <1>9, <1>16, OthersKeep
<1> QED
  BY <1>15, <1>17

LEMMA SentCalm ==
  ASSUME Calmly, NEW e \in Execs, NEW g \in Gens, boots' = boots, ActionSent(e, g)
  PROVE  \A f \in Execs : Calm(f)'
<1> DEFINE i == Act(e, 1)
<1>1. g = 1 /\ live[e].gen = 1 /\ H(e).pc = "send"
  BY HandlerOfFirst DEF ActionSent, H
<1>2. HandlerStep(e, 1) /\ UNCHANGED <<stored, robot, owner, live, worker, told, cmd>>
  BY <1>1, SentStep DEF Calmly, ActionSent
<1>3. /\ Truth(e) /\ Held(e) /\ Quiet(e) /\ Locked(e) /\ Course(e)
      /\ journal[i] = "accepted" /\ sent[i] = 0
  BY <1>1 DEF Calmly, Calm, Truth, BaseInv, Base, SentOnce, H, Gens
<1>4. PICK out \in {"ok", "rejected", "error"} :
        /\ HandlerAt(e, 1, "sent", out)
        /\ \/ device' = device /\ (sent' = sent \/ sent' = [sent EXCEPT ![i] = @ + 1])
           \/ /\ device' = [device EXCEPT ![i] = "moving"] /\ sent' = [sent EXCEPT ![i] = @ + 1]
              /\ ~live[e].cancelled /\ out # "rejected"
        /\ out = "rejected" => ~live[e].cancelled
  BY <1>1 DEF ActionSent
<1>5. /\ H(e).who \in {"go", "stop"} /\ "sent" \in PcsOf(H(e).req) /\ H(e).req = "start"
      /\ (H(e).who = "stop" <=> i = <<e, "hold">>) /\ KeyOf(H(e)) \in Keys /\ i = <<e, KeyOf(H(e))>>
      /\ i \in Invocations
      /\ H(e).who = "stop" => W(e).stop = "busy"
  BY <1>1, RequestOf, PcsOfRequests DEF Act, KeyOf, H, Keys, Invocations
<1>6. /\ Talk(W(e), H(e))' /\ CoroutinesKept(e) /\ W(e)' = W(e)
      /\ H(e)'.pc = "sent" /\ H(e)'.seen = out /\ H(e)'.who = H(e).who
      /\ Act(e, 1)' = i /\ KeyOf(H(e)') = KeyOf(H(e))
  BY <1>1, <1>2, <1>4, <1>5, MoveOf, ActOf
<1>7. /\ \A k \in Keys : <<e, k>> # i => device'[<<e, k>>] = device[<<e, k>>] /\ sent'[<<e, k>>] = sent[<<e, k>>]
      /\ \/ device'[i] = device[i] /\ sent'[i] \in {0, 1}
         \/ sent'[i] = 1 /\ ~live[e].cancelled /\ out # "rejected"
      /\ device[i] = "none"
  <2>1. device[i] = "none"
    BY <1>3, <1>5 DEF Truth
  <2>2. DOMAIN device = Invocations /\ DOMAIN sent = Invocations
        /\ \A k \in Keys : <<e, k>> \in Invocations
    BY DEF Calmly, BaseInv, Domains, Invocations
  <2> HIDE DEF i
  <2> QED
    BY <1>3, <1>4, <1>5, <2>1, <2>2
<1>8. EndKept(e) /\ Handled(e)
  BY <1>2, <1>6 DEF EndKept, Handled, stored
<1>9. /\ live'[e].gen = live[e].gen
      /\ GivenUp(e) => GivenUp(e)'
      /\ Undisturbed(e)' => Undisturbed(e)
  BY <1>1, <1>8, HandledKeeps
<1> HIDE DEF i
<1>10. Truth(e)'
  <2>1. ASSUME NEW k \in Keys
        PROVE  /\ sent'[<<e, k>>] = 0 => device'[<<e, k>>] = "none"
               /\ journal'[<<e, k>>] \in Confirmed => device'[<<e, k>>] # "moving"
               /\ Tracked(e, k)' => journal'[<<e, k>>] # "none" /\ KeyOf(H(e)') # k
    <3>1. "accepted" \notin Confirmed
      BY DEF Confirmed, ActionEnds
    <3>2. Tracked(e, k)' => Tracked(e, k)
      BY <1>2 DEF Tracked
    <3> QED
      BY <1>1, <1>2, <1>3, <1>5, <1>6, <1>7, <3>1, <3>2 DEF Truth, stored
  <2>2. out = "rejected" => device'[i] = "none"
    BY <1>7
  <2> QED
    BY <1>6, <2>1, <2>2 DEF Truth
<1>11. HoldBegun(e)' => HoldBegun(e)
  BY <1>2, <1>6 DEF HoldBegun, stored
<1>12. Held(e)'
  <2>1. H(e).who = "stop" => W(e).hold = 0 /\ journal[<<e, "hold">>] # "none"
    BY <1>3, <1>5 DEF Calmly, Calm, Talk
  <2>2. H(e).who # "stop" => device'[<<e, "hold">>] = device[<<e, "hold">>]
    BY <1>5, <1>7 DEF Keys
  <2> QED
    BY <1>1, <1>2, <1>3, <1>6, <1>11, <2>1, <2>2 DEF Held, stored
<1>13. Quiet(e)'
  BY <1>1, <1>2, <1>3, <1>9 DEF Quiet
<1>14. Locked(e)'
  <2> SUFFICES ASSUME Undisturbed(e)'
               PROVE  /\ \A k \in Keys : Claim(e, k)' => owner' = <<e, k>> /\ robot' \in {e, None}
                      /\ HoldBegun(e)' => ~Claim(e, "go")'
                      /\ told'[e] = "completed" => ~Moves(e)'
    BY <1>6 DEF Locked
  <2>1. Undisturbed(e)
    BY <1>9
  <2>2. \A k \in Keys : Claim(e, k)' => Claim(e, k)
    BY <1>1, <1>4, <1>5, <1>6, <1>7 DEF Claim
  <2>3. told[e] # "completed"
    <3>1. told[e] = "completed" => robot # e /\ ~GivenUp(e)
      BY <1>3 DEF Course, GivenUp
    <3> QED
      BY <1>1, <1>3, <3>1 DEF Quiet
  <2> QED
    BY <1>2, <1>3, <1>11, <2>1, <2>2, <2>3 DEF Locked, Keys
<1>15. Calm(e)'
  BY <1>1, <1>6, <1>8, <1>10, <1>12, <1>13, <1>14, HandledKeeps DEF Calm
<1>16. \A f \in Execs \ {e} : Calm(f)'
  BY <1>2, <1>8, <1>9, OthersKeep, HandledBeside
<1> QED
  BY <1>15, <1>16

LEMMA HandlingCalm ==
  ASSUME Calmly, NEW e \in Execs, NEW g \in Gens, boots' = boots,
         Handling(e, g) \/ AgentReplies(e, g)
  PROVE  \A f \in Execs : Calm(f)'
  BY TakesCalm, CheckedCalm, SavedCalm, SentCalm, StartedCalm, QueriedCalm, RefreshedCalm,
     WrittenCalm, OutcomeCalm, AskedCalm, WaitsCalm, RepliesCalm, AnsweredCalm DEF Handling

-----------------------------------------------------------------------------
(* What the other steps keep of an Execution.                               *)

SameHandler(e) ==
  /\ H(e)'.pc = H(e).pc /\ H(e)'.who = H(e).who /\ H(e)'.req = H(e).req
  /\ H(e).pc # "wait" => H(e)'.seen = H(e).seen
  /\ handler'[e][2].pc = handler[e][2].pc

\* What moves may stop, and the Journal of an Action a stop knows may say so.
Settles(e) ==
  /\ sent' = sent
  /\ \A k \in Keys :
       /\ \/ device'[<<e, k>>] = device[<<e, k>>]
          \/ device'[<<e, k>>] # "moving" /\ device[<<e, k>>] # "none"
       /\ \/ journal'[<<e, k>>] = journal[<<e, k>>]
          \/ /\ journal'[<<e, k>>] # "none" /\ Tracked(e, k)
             /\ journal'[<<e, k>>] \in Confirmed => device'[<<e, k>>] # "moving"

LEMMA TruthKept ==
  ASSUME Calmly, NEW e \in Execs, SameHandler(e), Settles(e),
         \A k \in Keys : Tracked(e, k)' => Tracked(e, k)
  PROVE  Truth(e)'
<1>1. Truth(e) /\ Act(e, 1)' = Act(e, 1) /\ KeyOf(H(e)') = KeyOf(H(e))
      /\ KeyOf(H(e)) \in Keys /\ Act(e, 1) = <<e, KeyOf(H(e))>>
  BY ActOf DEF Calmly, Calm, SameHandler
<1>2. \A k \in Keys : /\ Tracked(e, k) => journal[<<e, k>>] # "none"
                      /\ Tracked(e, k) /\ H(e).pc \in {"send", "sent"} => k # KeyOf(H(e))
  BY <1>1 DEF Truth
<1>3. /\ H(e).pc = "save" => journal'[Act(e, 1)] = "none"
      /\ H(e).pc = "send" => journal'[Act(e, 1)] = "accepted"
  BY <1>1, <1>2 DEF Truth, Settles
<1>4. /\ H(e).pc = "sent" /\ H(e).seen = "rejected" => device'[Act(e, 1)] = "none"
      /\ H(e).pc = "state" /\ H(e).seen \in Confirmed => device'[Act(e, 1)] # "moving"
  BY <1>1 DEF Truth, Settles
<1>5. ASSUME NEW k \in Keys
      PROVE  /\ sent'[<<e, k>>] = 0 => device'[<<e, k>>] = "none"
             /\ journal'[<<e, k>>] \in Confirmed => device'[<<e, k>>] # "moving"
             /\ Tracked(e, k)' => /\ journal'[<<e, k>>] # "none"
                                  /\ ~(H(e).pc \in {"send", "sent"} /\ KeyOf(H(e)) = k)
  BY <1>1, <1>2 DEF Truth, Settles
<1> QED
  BY <1>1, <1>3, <1>4, <1>5 DEF Truth, SameHandler

LEMMA HoldBegunKept ==
  ASSUME Calmly, NEW e \in Execs, SameHandler(e), Settles(e)
  PROVE  HoldBegun(e)' <=> HoldBegun(e)
<1>1. \A k \in Keys : Tracked(e, k) => journal[<<e, k>>] # "none"
  BY DEF Calmly, Calm, Truth
<1> QED
  BY <1>1 DEF HoldBegun, SameHandler, Settles, Keys

LEMMA HeldKept ==
  ASSUME Calmly, NEW e \in Execs, SameHandler(e), Settles(e),
         W(e).stop # "none" => W(e)'.stop # "none",
         HoldBegun(e) => W(e)'.go = W(e).go \/ W(e)'.go # "start",
         W(e)'.hold = W(e).hold, evidence'[e] \/ told'[e] = "stopped" => W(e).hold = 3
  PROVE  Held(e)'
<1>1. Held(e) /\ (HoldBegun(e)' <=> HoldBegun(e))
  BY HoldBegunKept DEF Calmly, Calm
<1>2. \A k \in Keys : /\ journal[<<e, k>>] # "none" => journal'[<<e, k>>] # "none"
                      /\ device[<<e, k>>] # "moving" => device'[<<e, k>>] # "moving"
  BY DEF Settles
<1> QED
  BY <1>1, <1>2 DEF Held, SameHandler, Keys

LEMMA LockedKept ==
  ASSUME Calmly, NEW e \in Execs, SameHandler(e), Settles(e),
         Undisturbed(e)' => Undisturbed(e), live[e].cancelled => live'[e].cancelled,
         robot \in {e, None} => robot' \in {e, None},
         \A k \in Keys : owner = <<e, k>> /\ Claim(e, k)' => owner' = owner,
         told'[e] = "completed" => told[e] = "completed" \/ (Undisturbed(e) => ~Moves(e))
  PROVE  Locked(e)'
<1> SUFFICES ASSUME Undisturbed(e)'
             PROVE  /\ \A k \in Keys : Claim(e, k)' => owner' = <<e, k>> /\ robot' \in {e, None}
                    /\ H(e)'.pc = "save" => \A k \in Keys : ~Claim(e, k)'
                    /\ HoldBegun(e)' => ~Claim(e, "go")'
                    /\ told'[e] = "completed" => ~Moves(e)'
  BY DEF Locked
<1>1. Locked(e) /\ Undisturbed(e) /\ (HoldBegun(e)' <=> HoldBegun(e))
  BY HoldBegunKept DEF Calmly, Calm
<1>2. \A k \in Keys : device'[<<e, k>>] = "moving" => device[<<e, k>>] = "moving"
  BY DEF Settles
<1>3. \A k \in Keys : Claim(e, k)' => Claim(e, k)
  BY <1>2 DEF Claim, SameHandler, KeyOf
<1>4. Moves(e)' => Moves(e)
  BY <1>2 DEF Moves
<1>5. \A k \in Keys : Claim(e, k)' => owner' = <<e, k>> /\ robot' \in {e, None}
  BY <1>1, <1>3 DEF Locked
<1> QED
  BY <1>1, <1>3, <1>4, <1>5 DEF Locked, SameHandler, Keys

LEMMA QuietKept ==
  ASSUME Calmly, NEW e \in Execs, SameHandler(e), Settles(e),
         live'[e].gen = live[e].gen, robot' = e <=> robot = e, GivenUp(e) => GivenUp(e)',
         W(e)'.on => W(e).on, W(e)'.go = "start" => W(e).go = "start" \/ W(e).on,
         W(e)'.stop = "start" => W(e).stop = "start" \/ W(e).on
  PROVE  Quiet(e)'
<1>1. Quiet(e) /\ Act(e, 1)' = Act(e, 1) /\ KeyOf(H(e)) \in Keys /\ Act(e, 1) = <<e, KeyOf(H(e))>>
  BY ActOf DEF Calmly, Calm, SameHandler
<1>2. \A k \in Keys : journal[<<e, k>>] # "none" => journal'[<<e, k>>] # "none"
  BY DEF Settles
<1> QED
  BY <1>1, <1>2 DEF Quiet, SameHandler, Keys

\* A step that leaves runWorker, the rows and the Robot alone.
LEMMA CourseKept ==
  ASSUME Calmly, NEW e \in Execs, SameHandler(e),
         run'[e][1] = "failed" =>
           run[e][1] = "failed" \/ (~W(e).on /\ W(e).go \notin {"completed", "failed", "stopping"}),
         cmd' = cmd, skill'[e] = skill[e], told'[e] = told[e],
         live'[e] = live[e], robot' = robot,
         W(e)'.on => W(e).on, W(e)'.stop = W(e).stop \/ W(e).stop # "none",
         W(e)'.go = W(e).go \/ W(e).on
  PROVE  Course(e)'
<1>1. Course(e)
  BY DEF Calmly, Calm
<1>2. InStop(e)' <=> InStop(e)
  BY DEF InStop
<1> QED
  BY <1>1, <1>2 DEF Course, SameHandler

LEMMA LaunchKept ==
  ASSUME Calmly, NEW e \in Execs, live'[e].gen = live[e].gen, live[e].gen # 0, ~Launching(e),
         ~Launching(e)', InStop(e)' => cmd'.gen = 1
  PROVE  Launch(e)'
  BY DEF Launch

\* A handler that a step does not touch.
LEMMA HandlersStay ==
  ASSUME Calmly, NEW e \in Execs, handler' = handler
  PROVE  SameHandler(e)
  BY DEF SameHandler, H

LEMMA NothingMoves ==
  ASSUME Calmly, NEW e \in Execs, UNCHANGED <<journal, device, sent>>
  PROVE  Settles(e)
  BY DEF Settles

\* Steps of one Execution, which is that of the command when the command changes.
LEMMA ChangesBeside ==
  ASSUME Calmly, NEW e \in Execs, Changes(e),
         cmd' = cmd \/ cmd.e = e \/ cmd.pc = "idle", cmd' = cmd \/ cmd'.pc = "idle" \/ cmd'.e = e,
         \/ robot' = robot
         \/ robot = e /\ robot' = None
         \/ robot = None /\ owner = None /\ robot' = e,
         owner' = owner \/ \E k \in Keys : owner' = releasePhysical(<<e, k>>)
  PROVE  Beside(e)
<1> SUFFICES ASSUME NEW f \in Execs \ {e}
             PROVE  /\ Apart(f)
                    /\ cmd.e = f /\ cmd.pc # "idle" => cmd' = cmd
                    /\ cmd' = cmd \/ cmd'.pc = "idle" \/ cmd'.e # f
                    /\ robot' = f <=> robot = f
                    /\ \A k \in Keys : Undisturbed(f) /\ owner = <<f, k>> /\ robot \in {f, None} =>
                         owner' = <<f, k>> /\ robot' \in {f, None}
  BY DEF Beside
<1>1. Apart(f)
  BY DEF Changes, RowTyped, LiveOnly, WorkersOnly, HandlersOnly, RunsOnly, ActionsOnly,
     CommandOf, Apart
<1>2. e # None /\ f # None /\ \A k \in Keys : <<f, k>> # None
  BY PilotConstants DEF Invocations
<1> QED
  BY <1>1, <1>2 DEF releasePhysical

-----------------------------------------------------------------------------
(* The steps of Workers and of the Ability, as long as nothing was restarted. *)

LEMMA StartedOf ==
  ASSUME Calmly, NEW e \in Execs
  PROVE  /\ boots = 1 /\ live[e].gen \in {0, 1}
         /\ live[e].gen # 0 => live[e].gen = 1 /\ ~Launching(e)
         /\ Launching(e) => skill[e] = "starting" /\ robot = e
         /\ W(e).on \/ H(e).pc # "idle" \/ W(e).requests # <<>> \/ run[e][1] # "none"
              \/ told[e] # "none" \/ evidence[e] => live[e].gen # 0
         /\ \A g \in Gens : worker[e][g].on \/ run[e][g] # "none" => g = 1
<1>1. /\ SpareUnused(e) /\ Launch(e) /\ TypedAt(e) /\ Known(e) /\ boots = 1
      /\ live[e].gen < 2 /\ live[e].gen \in {0, 1, 2}
  <2>1. boots = 1 /\ live[e].gen < 2
    BY DEF Calmly, NothingRestarted
  <2> QED
    BY <2>1 DEF Calmly, Calm, BaseInv, Base, TypedAt
<1>2. Launching(e) => live[e].gen = 0
  BY <1>1 DEF Known, Untouched, NotLive
<1> QED
  BY <1>1, <1>2 DEF Launch, Untouched, NoWorker, HandlerIdle, W, H, Gens, SpareUnused

\* Nothing but the two coroutines of the Worker changes.
LEMMA CoroutineCalm ==
  ASSUME Calmly, NEW e \in Execs, Changes(e), W(e).on,
         UNCHANGED <<stored, device, sent, robot, owner, live, handler, run, cmd, told>>,
         worker'[e][2] = worker[e][2], Talk(W(e)', H(e)),
         W(e)'.on => W(e).on, W(e)'.hold = W(e).hold,
         W(e)'.stop # "none" <=> W(e).stop # "none",
         W(e)'.go = "start" => W(e).go = "start" \/ W(e).stop = "none"
  PROVE  \A f \in Execs : Calm(f)'
<1>1. live[e].gen = 1 /\ ~Launching(e)
  BY StartedOf
<1>2. SameHandler(e) /\ Settles(e) /\ H(e)' = H(e)
  BY HandlersStay, NothingMoves DEF stored, H
<1>3. /\ SpareUnused(e) /\ Launch(e) /\ Held(e) /\ Course(e)
      /\ evidence' = evidence /\ skill' = skill
      /\ \A f \in Execs \ {e} : worker'[f] = worker[f]
  BY DEF Calmly, Calm, stored, Changes, WorkersOnly
<1>4. SpareUnused(e)'
  BY <1>3 DEF SpareUnused
<1>5. Launch(e)'
  BY <1>1, <1>3 DEF Launch, Launching, InStop
<1>6. Talk(W(e), H(e))'
  BY <1>2
<1>7. Truth(e)'
  BY <1>2, TruthKept DEF Tracked
<1>8. Held(e)'
  BY <1>2, <1>3, HeldKept DEF Held
<1>9. Course(e)'
  BY <1>2, <1>3, CourseKept
<1>10. GivenUp(e) => GivenUp(e)'
  BY <1>3 DEF Course, GivenUp
<1>11. Quiet(e)'
  BY <1>2, <1>10, QuietKept
<1>12. Undisturbed(e)' => Undisturbed(e)
  BY <1>3 DEF Undisturbed, GivenUp
<1>13. Locked(e)'
  BY <1>2, <1>12, LockedKept
<1>14. Beside(e)
  BY ChangesBeside
<1>15. \A f \in Execs \ {e} : Calm(f)'
  BY <1>10, <1>14, OthersKeep
<1> QED
  BY <1>4, <1>5, <1>6, <1>7, <1>8, <1>9, <1>11, <1>13, <1>15 DEF Calm

LEMMA WorkersCalm ==
  ASSUME Calmly, NEW e \in Execs, NEW g \in Gens, boots' = boots,
         \/ \E req \in {"start", "result", "ask", "note"} : WorkerAsks(e, g, req)
         \/ WorkerReturns(e, g) \/ WorkerHolds(e, g) \/ WorkerDies(e, g)
  PROVE  \A f \in Execs : Calm(f)'
<1>1. worker[e][g].on
  BY DEF WorkerAsks, WorkerReturns, WorkerHolds, WorkerDies
<1>2. UNCHANGED <<stored, device, sent, robot, owner, live, handler, run, cmd, told>>
  BY DEF WorkerAsks, WorkerReturns, WorkerHolds, WorkerDies
<1>3. g = 1 /\ W(e).on
  BY <1>1, StartedOf DEF W
<1>4. Changes(e)
  BY WorkerSteps DEF Calmly
<1>5. /\ Talk(W(e), H(e)) /\ H(e).who \in {"go", "stop"} /\ DOMAIN worker = Execs
      /\ DOMAIN worker[e] = Gens /\ DOMAIN W(e) = DOMAIN NoWorker
  BY DEF Calmly, Calm, BaseInv, Base, Domains, TypedAt, H, W, Gens
<1>6. ASSUME NEW req \in {"start", "result", "ask", "note"}, WorkerAsks(e, g, req)
      PROVE  \A f \in Execs : Calm(f)'
  <2>1. /\ W(e).go = "ready" /\ (req = "start" => W(e).stop = "none")
        /\ worker' = [worker EXCEPT ![e][1].go = req, ![e][1].requests = Append(@, "go")]
    BY <1>3, <1>6 DEF WorkerAsks, W
  <2>2. /\ W(e)'.go = req /\ W(e)'.requests = Append(W(e).requests, "go")
        /\ W(e)'.stop = W(e).stop /\ W(e)'.hold = W(e).hold /\ W(e)'.on = W(e).on
        /\ worker'[e][2] = worker[e][2]
    BY <1>5, <2>1 DEF W, Gens, NoWorker
  <2>3. Talk(W(e)', H(e))
    BY <1>5, <2>1, <2>2, TalkAsks
  <2> QED
    BY <1>2, <1>3, <1>4, <2>1, <2>2, <2>3, CoroutineCalm
<1>7. CASE WorkerReturns(e, g)
  <2>1. PICK s \in {"completed", "failed", "stopping"} :
          W(e).go = "ready" /\ worker' = [worker EXCEPT ![e][1].go = s]
    BY <1>3, <1>7 DEF WorkerReturns, W
  <2>2. /\ W(e)'.go = s /\ W(e)'.requests = W(e).requests
        /\ W(e)'.stop = W(e).stop /\ W(e)'.hold = W(e).hold /\ W(e)'.on = W(e).on
        /\ worker'[e][2] = worker[e][2]
    BY <1>5, <2>1 DEF W, Gens, NoWorker
  <2>3. Talk(W(e)', H(e))
    BY <1>5, <2>1, <2>2, TalkSame
  <2> QED
    BY <1>2, <1>3, <1>4, <2>2, <2>3, CoroutineCalm
<1>8. CASE WorkerHolds(e, g)
  <2> DEFINE a == CASE W(e).hold = 0 -> "start"
                    [] W(e).hold = 1 -> "result"
                    [] OTHER -> "outcome"
  <2>1. /\ W(e).stop = "ready" /\ W(e).hold < 3 /\ a # "none"
        /\ worker' = [worker EXCEPT ![e][1].stop = a, ![e][1].requests = Append(@, "stop")]
    BY <1>3, <1>8 DEF WorkerHolds, W
  <2> HIDE DEF a
  <2>2. /\ W(e)'.stop = a /\ W(e)'.requests = Append(W(e).requests, "stop")
        /\ W(e)'.go = W(e).go /\ W(e)'.hold = W(e).hold /\ W(e)'.on = W(e).on
        /\ worker'[e][2] = worker[e][2]
    BY <1>5, <2>1 DEF W, Gens, NoWorker
  <2>3. Talk(W(e)', H(e))
    BY <1>5, <2>1, <2>2, TalkHolds DEF a
  <2> QED
    BY <1>2, <1>3, <1>4, <2>1, <2>2, <2>3, CoroutineCalm
<1>9. CASE WorkerDies(e, g)
  <2>1. worker' = [worker EXCEPT ![e][1].on = FALSE]
    BY <1>3, <1>9 DEF WorkerDies, KilledGen
  <2>2. /\ W(e)'.go = W(e).go /\ W(e)'.requests = W(e).requests
        /\ W(e)'.stop = W(e).stop /\ W(e)'.hold = W(e).hold
        /\ worker'[e][2] = worker[e][2]
    BY <1>5, <2>1 DEF W, Gens, NoWorker
  <2>3. Talk(W(e)', H(e))
    BY <1>5, <2>2, TalkSame
  <2> QED
    BY <1>2, <1>3, <1>4, <2>2, <2>3, CoroutineCalm
<1> QED
  BY <1>6, <1>7, <1>8, <1>9

\* An invocation ends: what was sent and what is known of it stay.
LEMMA DeviceCalm ==
  ASSUME Calmly, NEW i \in Invocations, boots' = boots, DeviceEnds(i)
  PROVE  \A f \in Execs : Calm(f)'
<1>1. PICK e \in Execs, k \in Keys : i = <<e, k>>
  BY DEF Invocations
<1>2. /\ UNCHANGED <<stored, sent, robot, owner, live, worker, handler, run, cmd, told>>
      /\ Changes(e)
  BY <1>1, DeviceStep DEF Calmly, DeviceEnds
<1>3. SameHandler(e) /\ H(e)' = H(e) /\ W(e)' = W(e)
  BY <1>2, HandlersStay DEF H, W
<1>4. Settles(e)
  <2>1. PICK d \in {"done", "broken"} : device' = [device EXCEPT ![i] = d]
    BY DEF DeviceEnds
  <2>2. \A n \in Keys : <<e, n>> \in DOMAIN device
    BY DEF Calmly, BaseInv, Domains, Invocations
  <2>3. \A n \in Keys : \/ device'[<<e, n>>] = device[<<e, n>>]
                        \/ device'[<<e, n>>] # "moving" /\ device'[<<e, n>>] # "none"
    BY <2>1, <2>2
  <2>4. /\ device[i] = "moving"
        /\ \A n \in Keys : device[<<e, n>>] # "none" => device'[<<e, n>>] # "none"
    BY <2>1, <2>2 DEF DeviceEnds
  <2> QED
    BY <1>1, <1>2, <2>1, <2>2, <2>3, <2>4 DEF Settles, stored
<1>5. SpareUnused(e) /\ Launch(e) /\ Held(e) /\ Talk(W(e), H(e)) /\ skill' = skill /\ evidence' = evidence
  BY <1>2 DEF Calmly, Calm, stored
<1>6. SpareUnused(e)'
  BY <1>2, <1>5 DEF SpareUnused
<1>7. Launch(e)'
  BY <1>2, <1>5 DEF Launch, Launching, InStop, Untouched, stored
<1>8. Talk(W(e), H(e))'
  BY <1>3, <1>5
<1>9. Truth(e)'
  BY <1>2, <1>3, <1>4, TruthKept DEF Tracked
<1>10. Held(e)'
  BY <1>2, <1>3, <1>4, <1>5, HeldKept DEF Held
<1>11. Course(e)'
  BY <1>2, <1>3, <1>5, CourseKept
<1>12. GivenUp(e) => GivenUp(e)'
  BY <1>2, <1>5 DEF GivenUp
<1>13. Quiet(e)'
  BY <1>2, <1>3, <1>4, <1>12, QuietKept
<1>14. Locked(e)'
  BY <1>2, <1>3, <1>4, <1>5, LockedKept DEF Undisturbed, GivenUp
<1>15. Beside(e)
  BY <1>2, ChangesBeside
<1>16. \A f \in Execs \ {e} : Calm(f)'
  BY <1>12, <1>15, OthersKeep
<1> QED
  BY <1>6, <1>7, <1>8, <1>9, <1>10, <1>11, <1>13, <1>14, <1>16 DEF Calm

-----------------------------------------------------------------------------
(* The steps of runWorker, as long as nothing was restarted.                *)

\* What they leave alone; run failed only when the Worker is gone.
RunFrame(e) ==
  /\ Changes(e)
  /\ UNCHANGED <<evidence, journal, device, sent, owner, handler, cmd>>
  /\ live[e].gen = 1 /\ run'[e][2] = "none"
  /\ run'[e][1] = "failed" => ~W(e).on /\ W(e).go \notin {"completed", "failed", "stopping"}

LEMMA RunFrames ==
  ASSUME Calmly, NEW e \in Execs, RunFrame(e)
  PROVE  /\ SameHandler(e) /\ Settles(e) /\ H(e)' = H(e) /\ Act(e, 1)' = Act(e, 1)
         /\ InStop(e)' <=> InStop(e)
         /\ live'[e].acts = live[e].acts => \A k \in Keys : Tracked(e, k)' => Tracked(e, k)
         /\ Undisturbed(e)' => Undisturbed(e)
         /\ live'[e].gen = 1 => Launch(e)'
<1>1. SameHandler(e) /\ Settles(e)
  BY HandlersStay, NothingMoves DEF RunFrame
<1>2. /\ ~Launching(e) /\ Launch(e) /\ (InStop(e)' <=> InStop(e)) /\ cmd' = cmd
      /\ H(e)' = H(e) /\ Act(e, 1)' = Act(e, 1)
  BY StartedOf DEF RunFrame, Calmly, Calm, InStop, H, Act, KeyOf
<1>3. \A f \in Execs \ {e} : skill'[f] = skill[f] /\ live'[f] = live[f] /\ worker'[f] = worker[f]
  BY DEF RunFrame, Changes, RowTyped, LiveOnly, WorkersOnly
<1>4. Undisturbed(e)' => Undisturbed(e)
  BY <1>3 DEF Undisturbed, GivenUp
<1>5. live'[e].gen = 1 => Launch(e)'
  BY <1>2 DEF Launch, Launching
<1>6. live'[e].acts = live[e].acts => \A k \in Keys : Tracked(e, k)' => Tracked(e, k)
  BY DEF RunFrame, Tracked
<1> QED
  BY <1>1, <1>2, <1>4, <1>5, <1>6

\* Nothing else changes, or runWorker reports the Execution as interrupted.
LEMMA InterruptsCalm ==
  ASSUME Calmly, NEW e \in Execs, RunFrame(e),
         Interrupts(e) \/ UNCHANGED <<skill, told, live, robot, worker>>
  PROVE  \A f \in Execs : Calm(f)'
<1>1. /\ SameHandler(e) /\ Settles(e) /\ H(e)' = H(e)
      /\ (InStop(e)' <=> InStop(e)) /\ (Undisturbed(e)' => Undisturbed(e))
      /\ UNCHANGED <<robot, live, worker, cmd, evidence, owner, device>> /\ W(e)' = W(e)
      /\ Launch(e)' /\ live[e].gen = 1
      /\ \A k \in Keys : Tracked(e, k)' => Tracked(e, k)
  <2>1. UNCHANGED <<robot, live, worker, cmd, evidence, owner, device>> /\ live[e].gen = 1
    BY DEF RunFrame, Interrupts
  <2> QED
    BY <2>1, RunFrames DEF W
<1>2. \/ skill'[e] = skill[e] /\ told'[e] = told[e]
      \/ /\ skill[e] \notin SkillEnds
         /\ skill'[e] = "interrupted" /\ told'[e] = "interrupted"
  <2>1. DOMAIN skill = Execs /\ DOMAIN told = Execs
    BY DEF Calmly, BaseInv, Domains
  <2> QED
    BY <2>1 DEF Interrupts, Saved
<1>3. SpareUnused(e) /\ Held(e) /\ Course(e) /\ Talk(W(e), H(e))
  BY DEF Calmly, Calm
<1>4. SpareUnused(e)'
  BY <1>1, <1>3 DEF SpareUnused, RunFrame
<1>5. Talk(W(e), H(e))'
  BY <1>1, <1>3
<1>6. Truth(e)'
  BY <1>1, TruthKept
<1>7. Held(e)'
  BY <1>1, <1>2, <1>3, HeldKept DEF Held
<1>8. Course(e)'
  BY <1>1, <1>2, <1>3 DEF Course, RunFrame, SkillEnds
<1>9. GivenUp(e) => GivenUp(e)'
  BY <1>1, <1>2 DEF GivenUp, SkillEnds
<1>10. Quiet(e)'
  BY <1>1, <1>9, QuietKept
<1>11. Locked(e)'
  BY <1>1, <1>2, LockedKept
<1>12. Beside(e)
  BY <1>1, ChangesBeside DEF RunFrame
<1>13. \A f \in Execs \ {e} : Calm(f)'
  BY <1>9, <1>12, OthersKeep
<1> QED
  BY <1>1, <1>4, <1>5, <1>6, <1>7, <1>8, <1>10, <1>11, <1>13 DEF Calm

\* skill.run returned and no Action holds the Robot, or the Execution is given up.
LEMMA EndsCalm ==
  ASSUME Calmly, NEW e \in Execs, RunFrame(e), NEW s \in {"completed", "failed"}, Ends(e, s),
         skill[e] \notin SkillEnds, run'[e][1] # "failed",
         \/ W(e).go = s /\ ~InStop(e) /\ ~Unconfirmed(e)
         \/ s = "failed" /\ W(e).go # "failed"
  PROVE  \A f \in Execs : Calm(f)'
<1>1. /\ SameHandler(e) /\ Settles(e) /\ H(e)' = H(e) /\ live[e].gen = 1
      /\ (InStop(e)' <=> InStop(e)) /\ (Undisturbed(e)' => Undisturbed(e))
  BY RunFrames DEF RunFrame
<1>2. /\ SpareUnused(e) /\ Held(e) /\ Course(e) /\ Talk(W(e), H(e)) /\ Locked(e)
      /\ Domains /\ TypedAt(e)
  BY DEF Calmly, Calm, BaseInv, Base
<1>3. /\ skill'[e] = s /\ told'[e] = s
      /\ live'[e].gen = 1 /\ live'[e].cancelled /\ live'[e].acts = live[e].acts
      /\ ~W(e)'.on /\ W(e)'.go = W(e).go /\ W(e)'.stop = W(e).stop /\ W(e)'.hold = W(e).hold
      /\ W(e)'.requests = W(e).requests
      /\ ~worker'[e][2].on /\ worker'[e][2].requests = worker[e][2].requests
      /\ UNCHANGED <<evidence, journal, device, sent, owner, handler, cmd>>
  BY <1>1, <1>2 DEF Ends, Saved, Gone, Killed, Domains, TypedAt, W, Gens, NotLive, NoWorker, RunFrame
<1>4. robot' # e /\ (robot' = robot \/ (robot = e /\ robot' = None))
  BY PilotConstants DEF Ends, RobotAfter
<1>5. SpareUnused(e)'
  BY <1>2, <1>3 DEF SpareUnused, RunFrame
<1>6. Launch(e)'
  BY <1>3, RunFrames
<1>7. Talk(W(e), H(e))'
  BY <1>1, <1>2, <1>3, TalkSame
<1>8. Truth(e)'
  BY <1>1, <1>3, RunFrames, TruthKept
<1>9. Held(e)'
  BY <1>1, <1>2, <1>3, HeldKept DEF Held
<1>10. Course(e)'
  BY <1>1, <1>2, <1>3, <1>4 DEF Course, RunFrame, SkillEnds
<1>11. GivenUp(e) => GivenUp(e)'
  BY DEF GivenUp, SkillEnds
<1>12. ASSUME W(e).go = s, ~InStop(e), ~Unconfirmed(e)
       PROVE  /\ H(e).pc = "idle" /\ W(e).go # "start" /\ W(e).stop = "none"
              /\ Undisturbed(e) => ~Moves(e)
  <2>1. W(e).stop = "none"
    BY <1>2, <1>12 DEF Course
  <2>2. H(e).pc = "idle"
    BY <1>2, <1>12, <2>1 DEF Talk, TypedAt, H, Gens
  <2>3. Undisturbed(e) => ~Moves(e)
    <3>1. \A k \in Keys : owner # <<e, k>>
      BY <1>12, PilotConstants DEF Unconfirmed, Invocations
    <3> QED
      BY <1>2, <3>1 DEF Locked, Claim, Moves
  <2> QED
    BY <1>12, <2>1, <2>2, <2>3
<1>13. Quiet(e)'
  <2>1. CASE W(e).go = s /\ ~InStop(e) /\ ~Unconfirmed(e)
    BY <1>1, <1>3, <1>12, <2>1 DEF Quiet
  <2>2. CASE s = "failed" /\ W(e).go # "failed"
    BY <1>3, <2>2 DEF Quiet, GivenUp, W
  <2> QED
    BY <2>1, <2>2
<1>14. Locked(e)'
  BY <1>1, <1>3, <1>4, <1>12, LockedKept
<1>15. Beside(e)
  BY <1>3, <1>4, ChangesBeside DEF RunFrame
<1>16. \A f \in Execs \ {e} : Calm(f)'
  BY <1>11, <1>15, OthersKeep
<1> QED
  BY <1>5, <1>6, <1>7, <1>8, <1>9, <1>10, <1>13, <1>14, <1>16 DEF Calm

LEMMA RunningCalm ==
  ASSUME Calmly, NEW e \in Execs, NEW g \in Gens, boots' = boots, NothingRestarted', Running(e, g)
  PROVE  \A f \in Execs : Calm(f)'
<1>1. run[e][g] \in {"calling", "failed"}
  BY DEF Running, RunEnds, RunFails, RunRestarts, RunGivesUp
<1>2. g = 1 /\ live[e].gen = 1
  BY <1>1, StartedOf
<1>3. ~RunRestarts(e, g)
  <2>1. RunRestarts(e, g) => live'[e].gen = 2
    BY DEF RunRestarts, Calmly, BaseInv, Domains, Base, TypedAt, NotLive
  <2> QED
    BY <2>1 DEF NothingRestarted
<1>4. Changes(e)
  BY RunSteps DEF Calmly
<1>5. UNCHANGED <<evidence, journal, device, sent, owner, handler, cmd>>
  BY DEF Running, RunEnds, RunFails, RunRestarts, RunGivesUp, stored
<1>6. /\ run'[e][2] = run[e][2] /\ run[e][2] = "none"
      /\ RunEnds(e, g) \/ RunGivesUp(e, g) => run'[e][1] = "gone"
      /\ RunFails(e, g) => ~W(e).on /\ W(e).go \notin {"completed", "failed", "stopping"}
  BY <1>2, <1>3 DEF Running, RunEnds, RunFails, RunGivesUp, W, Calmly, Calm, SpareUnused,
     BaseInv, Domains, Base, TypedAt, Gens
<1>7. RunFrame(e)
  BY <1>2, <1>3, <1>4, <1>5, <1>6 DEF RunFrame, Running
<1>8. CASE RunEnds(e, g)
  <2>1. W(e).go \in {"completed", "failed", "stopping"} /\ ~InStop(e) /\ run'[e][1] # "failed"
    BY <1>2, <1>6, <1>8 DEF RunEnds, W
  <2>2. \/ UNCHANGED <<skill, told, live, robot, worker>>
        \/ Interrupts(e)
        \/ /\ skill[e] \notin SkillEnds /\ ~Unconfirmed(e) /\ Ends(e, W(e).go)
           /\ W(e).go \in {"completed", "failed"}
    BY <1>2, <1>8, <2>1 DEF RunEnds, W
  <2> QED
    BY <1>7, <2>1, <2>2, InterruptsCalm, EndsCalm
<1>9. CASE RunFails(e, g)
  BY <1>7, <1>9, InterruptsCalm DEF RunFails, stored
<1>10. CASE RunGivesUp(e, g)
  <2>1. run[e][1] = "failed" /\ W(e).go # "failed" /\ run'[e][1] # "failed"
    BY <1>2, <1>6, <1>10 DEF RunGivesUp, Calmly, Calm, Course
  <2>2. \/ UNCHANGED <<skill, told, live, robot, worker>>
        \/ Interrupts(e)
        \/ skill[e] \notin SkillEnds /\ Ends(e, "failed")
    BY <1>10 DEF RunGivesUp
  <2> QED
    BY <1>7, <2>1, <2>2, InterruptsCalm, EndsCalm
<1> QED
  BY <1>3, <1>8, <1>9, <1>10 DEF Running

-----------------------------------------------------------------------------
(* The steps of commands, as long as nothing was restarted.                 *)

LEMMA StartsCalm ==
  ASSUME Calmly, NEW e \in Execs, boots' = boots, SkillStarts(e)
  PROVE  \A f \in Execs : Calm(f)'
<1>1. /\ UNCHANGED <<evidence, journal, device, sent, owner, live, worker, handler, run, told>>
      /\ skill[e] = "none" /\ robot = None /\ owner = None /\ robot' = e /\ cmd.pc = "idle"
      /\ cmd'.pc = "launch" /\ cmd'.e = e
  BY DEF SkillStarts, CmdIdle
<1>2. Changes(e) /\ skill'[e] = "starting" /\ boots = 1
  BY StartSteps DEF SkillStarts, Calmly, BaseInv, Domains, NothingRestarted
<1>3. /\ Untouched(e) /\ SpareUnused(e) /\ Held(e) /\ Talk(W(e), H(e)) /\ Locked(e)
  BY <1>1, <1>2 DEF Calmly, Calm, BaseInv, Base, Known
<1>4. /\ live[e].gen = 0 /\ ~W(e).on /\ W(e).go = "none" /\ W(e).stop = "none" /\ H(e).pc = "idle"
      /\ run[e][1] = "none" /\ told[e] = "none"
  BY <1>3 DEF Untouched, NotLive, NoWorker, HandlerIdle, W, H, Gens
<1>5. SameHandler(e) /\ Settles(e) /\ H(e)' = H(e) /\ W(e)' = W(e)
  BY <1>1, HandlersStay, NothingMoves DEF H, W
<1>6. SpareUnused(e)'
  BY <1>1, <1>3 DEF SpareUnused
<1>7. Launch(e)'
  BY <1>1, <1>2, <1>3 DEF Launch, Untouched, Launching, InStop
<1>8. Talk(W(e), H(e))'
  BY <1>3, <1>5
<1>9. Truth(e)'
  BY <1>1, <1>5, TruthKept DEF Tracked
<1>10. Held(e)'
  BY <1>1, <1>3, <1>5, HeldKept DEF Held
<1>11. Course(e)'
  BY <1>1, <1>2, <1>4, <1>5 DEF Course, SkillEnds
<1>12. Quiet(e)'
  BY <1>1, <1>4 DEF Quiet
<1>13. Undisturbed(e)' => Undisturbed(e)
  BY <1>1, <1>2 DEF Undisturbed, GivenUp, Changes, RowTyped
<1>14. Locked(e)'
  BY <1>1, <1>4, <1>5, <1>13, LockedKept
<1>15. Beside(e)
  BY <1>1, <1>2, ChangesBeside
<1>16. GivenUp(e) => GivenUp(e)'
  BY <1>4 DEF GivenUp
<1>17. \A f \in Execs \ {e} : Calm(f)'
  BY <1>15, <1>16, OthersKeep
<1> QED
  BY <1>6, <1>7, <1>8, <1>9, <1>10, <1>11, <1>12, <1>14, <1>17 DEF Calm

LEMMA LaunchedCalm ==
  ASSUME Calmly, boots' = boots, SkillLaunched
  PROVE  \A f \in Execs : Calm(f)'
<1>1. PICK e \in Execs : e = cmd.e /\ Changes(e)
  BY LaunchSteps DEF Calmly
<1>2. /\ UNCHANGED <<evidence, journal, device, sent, owner, handler, told>>
      /\ cmd'.pc = "idle" /\ cmd.pc = "launch" /\ Launching(e) /\ boots = 1
  BY <1>1 DEF SkillLaunched, CmdIdle, Launching, Calmly, NothingRestarted
<1>3. /\ Untouched(e) /\ SpareUnused(e) /\ Held(e) /\ Talk(W(e), H(e)) /\ Truth(e) /\ Locked(e)
      /\ SentOnce(e) /\ robot = e /\ skill[e] = "starting" /\ Domains
  BY <1>2 DEF Calmly, Calm, BaseInv, Base, Known, Launch
<1>4. /\ live[e].gen = 0 /\ ~W(e).on /\ W(e).go = "none" /\ W(e).stop = "none" /\ H(e) = HandlerIdle
      /\ run[e][1] = "none" /\ told[e] = "none" /\ ~evidence[e]
      /\ H(e).pc = "idle" /\ worker[e][2].requests = <<>> /\ ~worker[e][2].on
  BY <1>3 DEF Untouched, NotLive, NoWorker, HandlerIdle, W, H, Gens
<1>5. SameHandler(e) /\ Settles(e) /\ H(e)' = H(e) /\ ~Launching(e)' /\ ~InStop(e)'
  BY <1>2, HandlersStay, NothingMoves DEF H, Launching, InStop
<1>6. \A k \in Keys : journal[<<e, k>>] = "none" /\ device[<<e, k>>] = "none"
  BY <1>3 DEF Untouched, SentOnce, Truth
<1>7. GivenUp(e) => GivenUp(e)'
  BY <1>4 DEF GivenUp
<1>8. CASE Launched(e) /\ skill' = Saved(e, "running") /\ robot' = robot
  <2>1. /\ skill'[e] = "running"
        /\ W(e)' = FreshWorker /\ worker'[e][2] = NoWorker /\ run'[e][1] = "calling"
        /\ run'[e][2] = "none" /\ live'[e].gen = 1 /\ live'[e].acts = {}
    BY <1>3, <1>8 DEF Launched, Saved, SkillEnds, W, Gens, Domains, NotLive
  <2>2. /\ W(e)'.stop = "none" /\ W(e)'.go = "ready" /\ W(e)'.hold = 0
        /\ ~worker'[e][2].on /\ worker'[e][2].requests = <<>>
    BY <2>1 DEF FreshWorker, NoWorker
  <2>3. SpareUnused(e)'
    BY <1>2, <1>3, <2>1, <2>2 DEF SpareUnused
  <2>4. Launch(e)'
    BY <1>2, <1>5, <2>1 DEF Launch
  <2>5. Talk(W(e), H(e))'
    BY <1>4, <1>5, <2>1, TalkBegins
  <2>6. Truth(e)'
    BY <1>2, <1>5, <2>1, TruthKept DEF Tracked
  <2>7. Held(e)'
    BY <1>2, <1>4, <1>5, <1>6, <2>2 DEF Held, HoldBegun, Keys
  <2>8. Course(e)'
    BY <1>2, <1>3, <1>4, <1>5, <1>8, <2>1, <2>2 DEF Course, SkillEnds
  <2>9. Quiet(e)'
    BY <1>3, <1>8 DEF Quiet
  <2>10. Locked(e)'
    BY <1>2, <1>4, <1>5, <1>6 DEF Locked, Claim, HoldBegun, Keys
  <2>11. Beside(e)
    BY <1>1, <1>2, <1>8, ChangesBeside
  <2> QED
    BY <1>7, <2>3, <2>4, <2>5, <2>6, <2>7, <2>8, <2>9, <2>10, <2>11, OthersKeep DEF Calm
<1>9. CASE UNCHANGED <<live, worker, run>> /\ skill' = Saved(e, "failed") /\ robot' = RobotAfter(e)
  <2>1. skill'[e] = "failed" /\ robot' = None /\ W(e)' = W(e) /\ robot' # e
    BY <1>3, <1>9, PilotConstants DEF Saved, SkillEnds, RobotAfter, W, Domains
  <2>2. SpareUnused(e)'
    BY <1>2, <1>3, <1>9 DEF SpareUnused
  <2>3. Launch(e)'
    BY <1>2, <1>3, <1>5, <1>9, <2>1 DEF Launch, Untouched
  <2>4. Talk(W(e), H(e))'
    BY <1>3, <1>5, <2>1
  <2>5. Truth(e)'
    BY <1>2, <1>5, <1>9, TruthKept DEF Tracked
  <2>6. Held(e)'
    BY <1>2, <1>3, <1>5, <2>1, HeldKept DEF Held
  <2>7. Course(e)'
    BY <1>2, <1>4, <1>5, <1>9, <2>1 DEF Course
  <2>8. Quiet(e)'
    BY <1>4, <1>9 DEF Quiet
  <2>9. Locked(e)'
    BY <1>2, <1>4, <1>5, <1>6 DEF Locked, Claim, HoldBegun, Keys
  <2>10. Beside(e)
    BY <1>1, <1>2, <1>3, <2>1, ChangesBeside
  <2> QED
    BY <1>7, <2>2, <2>3, <2>4, <2>5, <2>6, <2>7, <2>8, <2>9, <2>10, OthersKeep DEF Calm
<1> QED
  BY <1>1, <1>8, <1>9 DEF SkillLaunched

\* The commands that stop an Execution: its Worker is told, killed or left alone.
CommandFrame(e) ==
  /\ Changes(e) /\ SameHandler(e) /\ Settles(e) /\ run' = run
  /\ live[e].gen = 1 /\ live'[e].gen = 1
  /\ live[e].cancelled => live'[e].cancelled
  /\ worker'[e][2].requests = worker[e][2].requests /\ (worker'[e][2].on => worker[e][2].on)
  /\ W(e)'.go = W(e).go /\ W(e)'.requests = W(e).requests /\ W(e)'.hold = W(e).hold
  /\ W(e)'.on => W(e).on
  /\ W(e)'.stop = W(e).stop \/ (W(e).stop = "none" /\ W(e)'.stop = "ready")
  /\ \/ skill'[e] = skill[e]
     \/ skill[e] \notin SkillEnds /\ skill'[e] \in {"stopping", "interrupted", "stopped"}
  /\ cmd.pc = "idle" \/ cmd.e = e
  /\ cmd'.pc = "idle" \/ (cmd'.e = e /\ cmd'.pc # "launch")
  /\ InStop(e)' => cmd'.gen = 1
  /\ \A k \in Keys : Tracked(e, k)' => Tracked(e, k)
  /\ owner' = owner \/ \E k \in Keys : owner' = releasePhysical(<<e, k>>) /\ ~Claim(e, k)'
  /\ told'[e] = "completed" => told[e] = "completed"
  /\ evidence'[e] \/ told'[e] = "stopped" => W(e).hold = 3
  /\ W(e)'.on /\ W(e)'.stop # "none" => cmd'.pc = "worker" /\ cmd'.e = e
  /\ W(e)'.stop # "none" => InStop(e)' \/ skill'[e] \in SkillEnds
  /\ \/ robot' = robot
     \/ /\ robot = e /\ robot' = None
        /\ live'[e].cancelled /\ ~W(e)'.on /\ W(e).hold = 3

LEMMA CommandCalm ==
  ASSUME Calmly, NEW e \in Execs, CommandFrame(e)
  PROVE  \A f \in Execs : Calm(f)'
<1>1. /\ SpareUnused(e) /\ Talk(W(e), H(e)) /\ Held(e) /\ Course(e) /\ Quiet(e)
      /\ H(e).who \in {"go", "stop"}
  BY DEF Calmly, Calm, BaseInv, Base, TypedAt, H, Gens
<1>2. SameHandler(e) /\ Settles(e) /\ Act(e, 1)' = Act(e, 1)
  BY ActOf DEF CommandFrame, SameHandler
<1>3. SpareUnused(e)'
  BY <1>1 DEF SpareUnused, CommandFrame, SameHandler
<1>4. Launch(e)'
  BY DEF Launch, Launching, CommandFrame
<1>5. Talk(W(e), H(e))'
  <2>1. Talk(W(e)', H(e))
    <3>1. W(e).stop = "none" => W(e).hold = 0
      BY <1>1 DEF Talk
    <3> QED
      BY <1>1, <3>1, TalkSame, TalkTold DEF CommandFrame
  <2> QED
    BY <1>2, <2>1 DEF Talk, SameHandler
<1>6. Truth(e)'
  BY TruthKept DEF CommandFrame
<1>7. Held(e)'
  BY HeldKept DEF CommandFrame
<1>8. Course(e)'
  <2>1. skill[e] \in SkillEnds => skill'[e] = skill[e]
    BY DEF CommandFrame
  <2>2. robot # e => robot' # e
    BY PilotConstants DEF CommandFrame
  <2> QED
    BY <1>1, <1>2, <2>1, <2>2 DEF Course, CommandFrame, SameHandler, SkillEnds
<1>9. GivenUp(e) => GivenUp(e)'
  BY DEF GivenUp, CommandFrame, SkillEnds, W
<1>10. Quiet(e)'
  <2>1. CASE robot' = robot
    BY <1>9, <2>1, QuietKept DEF CommandFrame
  <2>2. CASE live'[e].cancelled /\ ~W(e)'.on /\ W(e).hold = 3
    <3>1. journal[<<e, "hold">>] # "none" /\ HoldBegun(e)
      BY <1>1, <2>2 DEF Held, HoldBegun
    <3>2. W(e).go # "start" /\ W(e).stop # "start"
      BY <1>1, <2>2, <3>1 DEF Held, Talk
    <3>3. H(e).who = "stop" => H(e).pc = "idle"
      BY <1>1, <2>2 DEF Talk
    <3>4. H(e).pc \notin {"start", "save", "send", "sent"}
      BY <1>1, <3>1, <3>3 DEF Held
    <3>5. W(e)'.stop # "start"
      BY <3>2 DEF CommandFrame
    <3> QED
      BY <1>2, <2>2, <3>2, <3>4, <3>5 DEF Quiet, SameHandler, CommandFrame
  <2> QED
    BY <2>1, <2>2 DEF CommandFrame
<1>11. Undisturbed(e)' => Undisturbed(e)
  BY DEF Undisturbed, GivenUp, CommandFrame, Changes, RowTyped, LiveOnly, WorkersOnly
<1>12. Locked(e)'
  <2>1. \A k \in Keys : owner = <<e, k>> /\ Claim(e, k)' => owner' = owner
    BY DEF CommandFrame, releasePhysical
  <2> QED
    BY <1>11, <2>1, LockedKept DEF CommandFrame
<1>13. Beside(e)
  BY ChangesBeside DEF CommandFrame
<1>14. \A f \in Execs \ {e} : Calm(f)'
  BY <1>9, <1>13, OthersKeep
<1> QED
  BY <1>3, <1>4, <1>5, <1>6, <1>7, <1>8, <1>10, <1>12, <1>14 DEF Calm

\* The Execution of a stop was launched, and is that of the first generation.
LEMMA StopOf ==
  ASSUME Calmly, NEW e \in Execs, e = cmd.e, cmd.pc \in {"latch", "actions", "halt", "worker"}
  PROVE  /\ live[e].gen = 1 /\ (cmd.pc # "latch" => cmd.gen = 1)
         /\ W(e).on /\ W(e).stop # "none" => cmd.pc = "worker"
         /\ W(e).stop = "none" => W(e).hold = 0
         /\ W(e).stop # "none" => InStop(e) \/ skill[e] \in SkillEnds
         /\ told[e] = "completed" => skill[e] = "completed"
         /\ evidence[e] \/ told[e] = "stopped" => W(e).hold = 3
         /\ TypedAt(e) /\ Domains
<1>1. Launch(e) /\ Course(e) /\ Talk(W(e), H(e)) /\ Held(e) /\ TypedAt(e) /\ Domains
  BY DEF Calmly, Calm, BaseInv, Base
<1>2. live[e].gen = 1
  BY <1>1, StartedOf DEF Launch
<1>3. cmd.pc # "latch" => cmd.gen = 1
  BY <1>1 DEF Launch, InStop
<1> QED
  BY <1>1, <1>2, <1>3 DEF Course, Talk, Held

LEMMA BeginsCalm ==
  ASSUME Calmly, NEW e \in Execs, boots' = boots, StopBegins(e)
  PROVE  \A f \in Execs : Calm(f)'
<1>1. /\ UNCHANGED <<evidence, journal, device, sent, robot, owner, live, worker, handler, run, told>>
      /\ cmd.pc = "idle" /\ skill[e] \notin {"none", "completed", "failed", "stopped"}
      /\ \/ skill' = skill /\ cmd'.pc = "latch" /\ cmd'.e = e
         \/ skill' = Saved(e, "interrupted") /\ cmd' = cmd
  BY DEF StopBegins, SkillEnds, CmdIdle
<1>2. Changes(e)
  BY StopBeginSteps DEF Calmly
<1>3. Launch(e) /\ Course(e) /\ Held(e) /\ Domains
  BY DEF Calmly, Calm, BaseInv
<1>4. live[e].gen = 1
  BY <1>1, <1>3, StartedOf DEF Launch, Launching
<1>5. SameHandler(e) /\ Settles(e) /\ W(e)' = W(e) /\ ~InStop(e) /\ ~InStop(e)' /\ cmd'.pc # "halt"
      /\ cmd'.pc \notin {"actions", "worker", "launch"}
  BY <1>1, HandlersStay, NothingMoves DEF W, InStop
<1>6. \/ skill'[e] = skill[e]
      \/ skill[e] \notin SkillEnds /\ skill'[e] = "interrupted"
  BY <1>1, <1>3 DEF Saved, Domains
<1>7. \A k \in Keys : Tracked(e, k)' => Tracked(e, k)
  BY <1>1, <1>5 DEF Tracked
<1>8. W(e)'.on /\ W(e)'.stop # "none" => FALSE
  BY <1>1, <1>3, <1>5 DEF Course
<1>9. W(e)'.stop # "none" => skill'[e] \in SkillEnds
  BY <1>3, <1>5, <1>6 DEF Course, SkillEnds
<1>10. evidence'[e] \/ told'[e] = "stopped" => W(e).hold = 3
  BY <1>1, <1>3 DEF Held
<1>11. CommandFrame(e)
  BY <1>1, <1>2, <1>4, <1>5, <1>6, <1>7, <1>8, <1>9, <1>10 DEF CommandFrame
<1> QED
  BY <1>11, CommandCalm

LEMMA LatchesCalm ==
  ASSUME Calmly, boots' = boots, StopLatches
  PROVE  \A f \in Execs : Calm(f)'
<1>1. PICK e \in Execs : e = cmd.e /\ Changes(e)
  BY LatchSteps DEF Calmly
<1>2. /\ UNCHANGED <<evidence, journal, device, sent, robot, owner, worker, run, told>>
      /\ cmd.pc = "latch" /\ W(e)' = W(e) /\ Settles(e) /\ ~InStop(e)
  BY NothingMoves DEF StopLatches, W, InStop
<1>3. /\ live[e].gen = 1 /\ TypedAt(e) /\ Domains
      /\ ~(W(e).on /\ W(e).stop # "none")
      /\ W(e).stop # "none" => skill[e] \in SkillEnds
      /\ evidence[e] \/ told[e] = "stopped" => W(e).hold = 3
  BY <1>1, <1>2, StopOf
<1>4. CASE UNCHANGED <<skill, live, handler>> /\ cmd' = CmdIdle
  <2>1. SameHandler(e) /\ cmd'.pc = "idle" /\ \A k \in Keys : Tracked(e, k)' => Tracked(e, k)
    BY <1>4, HandlersStay DEF Tracked, CmdIdle
  <2> QED
    BY <1>1, <1>2, <1>3, <1>4, <2>1, CommandCalm DEF CommandFrame, InStop
<1>5. CASE /\ skill[e] \notin SkillEnds \ {"interrupted"}
           /\ live' = [live EXCEPT ![e].stopping = TRUE]
           /\ skill' = Saved(e, "stopping")
           /\ CancelExecution(e)
           /\ cmd' = [cmd EXCEPT !.pc = "actions", !.keys = live[e].acts, !.gen = live[e].gen]
  <2>1. /\ live'[e].gen = 1 /\ live'[e].cancelled = live[e].cancelled /\ live'[e].acts = live[e].acts
    BY <1>3, <1>5 DEF Domains, TypedAt, NotLive
  <2>2. /\ cmd'.pc = "actions" /\ cmd'.e = e /\ cmd'.keys = live[e].acts /\ cmd'.gen = 1
    BY <1>1, <1>3, <1>5 DEF Domains, CommandTyped, CmdIdle
  <2>3. \/ skill'[e] = skill[e] /\ skill[e] \in SkillEnds
        \/ skill[e] \notin SkillEnds /\ skill'[e] = "stopping"
    BY <1>3, <1>5 DEF Saved, Domains
  <2>4. SameHandler(e)
    <3>1. DOMAIN handler = Execs /\ DOMAIN handler[e] = Gens
          /\ \A g \in Gens : DOMAIN handler[e][g] = DOMAIN HandlerIdle
      BY <1>3 DEF Domains, TypedAt
    <3> QED
      BY <1>5, <3>1 DEF CancelExecution, SameHandler, H, Gens, HandlerIdle
  <2>5. \A k \in Keys : Tracked(e, k)' => Tracked(e, k)
    BY <2>1, <2>2 DEF Tracked
  <2> QED
    BY <1>1, <1>2, <1>3, <2>1, <2>2, <2>3, <2>4, <2>5, CommandCalm DEF CommandFrame, InStop
<1> QED
  BY <1>1, <1>4, <1>5 DEF StopLatches

LEMMA StopsActionCalm ==
  ASSUME Calmly, NEW k \in Keys, boots' = boots, StopsAction(k)
  PROVE  \A f \in Execs : Calm(f)'
<1>1. PICK e \in Execs : e = cmd.e /\ Changes(e)
  BY StopActionSteps DEF Calmly
<1>2. /\ UNCHANGED <<skill, evidence, device, sent, robot, owner, live, worker, handler, run, told>>
      /\ cmd.pc = "actions" /\ k \in cmd.keys /\ Tracked(e, k) /\ W(e)' = W(e)
  BY <1>1 DEF StopsAction, Tracked, W
<1>3. /\ live[e].gen = 1 /\ cmd.gen = 1 /\ Domains /\ SameHandler(e)
      /\ ~(W(e).on /\ W(e).stop # "none")
      /\ evidence[e] \/ told[e] = "stopped" => W(e).hold = 3
  BY <1>1, <1>2, StopOf, HandlersStay
<1>4. /\ cmd'.e = e /\ cmd'.gen = 1 /\ cmd'.pc \in {"actions", "halt"} /\ cmd'.keys \subseteq cmd.keys
      /\ cmd'.pc = "halt" => cmd'.key = k
  BY <1>1, <1>2, <1>3, ZenonT(40) DEF StopsAction, Domains, CommandTyped, CmdIdle
<1>5. Settles(e)
  <2>1. \A n \in Keys : /\ <<e, n>> \in DOMAIN journal
                        /\ n # k => <<e, n>> # <<e, k>>
    BY <1>3 DEF Domains, Invocations
  <2>2. "stopping" \notin Confirmed
    BY DEF Confirmed, ActionEnds
  <2>3. journal' = journal \/ journal' = [journal EXCEPT ![<<e, k>>] = "stopping"]
    BY <1>1 DEF StopsAction
  <2> QED
    BY <1>2, <2>1, <2>2, <2>3 DEF Settles
<1>6. \A n \in Keys : Tracked(e, n)' => Tracked(e, n)
  BY <1>1, <1>2, <1>4 DEF Tracked
<1>7. InStop(e)'
  BY <1>4 DEF InStop
<1> QED
  BY <1>1, <1>2, <1>3, <1>4, <1>5, <1>6, <1>7, CommandCalm DEF CommandFrame

LEMMA HaltedCalm ==
  ASSUME Calmly, boots' = boots, ActionHalted
  PROVE  \A f \in Execs : Calm(f)'
<1>1. PICK e \in Execs : e = cmd.e /\ Changes(e)
  BY HaltSteps DEF Calmly
<1>0. PICK k \in Keys : k = cmd.key
  BY DEF ActionHalted, Calmly, BaseInv, Domains, CommandTyped
<1>2. /\ UNCHANGED <<evidence, sent, robot, handler, run, told>> /\ cmd.pc = "halt"
      /\ Tracked(e, k)
  BY <1>0, <1>1 DEF ActionHalted, Tracked
<1> DEFINE d == IF device[<<e, k>>] = "moving" THEN "halted" ELSE device[<<e, k>>]
<1>3. /\ live[e].gen = 1 /\ cmd.gen = 1 /\ Domains /\ TypedAt(e) /\ SameHandler(e) /\ Truth(e)
      /\ ~(W(e).on /\ W(e).stop # "none") /\ InStop(e)
      /\ evidence[e] \/ told[e] = "stopped" => W(e).hold = 3
  BY <1>1, <1>2, StopOf, HandlersStay DEF InStop, Calmly, Calm
<1>4. \A n \in Keys : /\ <<e, n>> \in DOMAIN journal /\ <<e, n>> \in DOMAIN device
                      /\ n # k => <<e, n>> # <<e, k>>
  BY <1>3 DEF Domains, Invocations
<1>5. ASSUME device[<<e, k>>] # "none", device' = [device EXCEPT ![<<e, k>>] = d],
             journal' = [journal EXCEPT ![<<e, k>>] = StateOf(d)],
             owner' = AfterState(<<e, k>>, StateOf(d)),
             cmd' = [cmd EXCEPT !.pc = "actions", !.keys = @ \ {k}],
             UNCHANGED <<skill, live, worker>>
      PROVE  \A f \in Execs : Calm(f)'
  <2>1. d \in {"done", "broken", "halted"}
    BY <1>2, <1>3, <1>5 DEF TypedAt, DeviceStates
  <2>2. StateOf(d) \in Confirmed /\ StateOf(d) # "none" /\ d # "moving" /\ d # "none"
    BY <2>1 DEF StateOf, Confirmed, ActionEnds
  <2> HIDE DEF d
  <2>3. Settles(e)
    BY <1>2, <1>4, <1>5, <2>2 DEF Settles
  <2>4. owner' = releasePhysical(<<e, k>>) /\ ~Claim(e, k)'
    <3>1. owner' = releasePhysical(<<e, k>>)
      BY <1>5, <2>2 DEF AfterState, Confirmed
    <3>2. device'[<<e, k>>] # "moving"
      BY <1>2, <1>4, <1>5, <2>2
    <3>3. ~(H(e).pc \in {"send", "sent"} /\ KeyOf(H(e)) = k)
      BY <1>2, <1>3 DEF Truth
    <3> QED
      BY <1>3, <3>1, <3>2, <3>3 DEF Claim, SameHandler, KeyOf
  <2>5. /\ cmd'.e = e /\ cmd'.gen = 1 /\ cmd'.pc = "actions" /\ cmd'.keys \subseteq cmd.keys
    BY <1>1, <1>3, <1>5 DEF Domains, CommandTyped, CmdIdle
  <2>6. \A n \in Keys : Tracked(e, n)' => Tracked(e, n)
    BY <1>1, <1>2, <1>5, <2>5 DEF Tracked
  <2>7. W(e)' = W(e) /\ InStop(e)' /\ skill' = skill /\ live' = live /\ worker' = worker
    BY <1>5, <2>5 DEF W, InStop
  <2> QED
    BY <1>1, <1>2, <1>3, <2>3, <2>4, <2>5, <2>6, <2>7, CommandCalm DEF CommandFrame
<1>6. ASSUME device' \in {device, [device EXCEPT ![<<e, k>>] = d]}, markInterrupted(<<e, k>>),
             skill' = Saved(e, "interrupted"), worker' = Killed(e),
             live' = [live EXCEPT ![e].cancelled = TRUE], cmd' = CmdIdle, owner' = owner
      PROVE  \A f \in Execs : Calm(f)'
  <2>1. d = device[<<e, k>>] \/ d = "halted"
    OBVIOUS
  <2>2. "interrupted" \notin Confirmed
    BY DEF Confirmed, ActionEnds
  <2> HIDE DEF d
  <2>3. Settles(e)
    <3>1. \A n \in Keys : \/ device'[<<e, n>>] = device[<<e, n>>]
                          \/ device'[<<e, n>>] # "moving" /\ device[<<e, n>>] # "none"
      <4>1. d = device[<<e, k>>] \/ (d = "halted" /\ device[<<e, k>>] # "none")
        BY DEF d
      <4>2. CASE device' = [device EXCEPT ![<<e, k>>] = d]
        BY <1>4, <4>1, <4>2
      <4> QED
        BY <1>6, <4>2
    <3>2. journal' = [journal EXCEPT ![<<e, k>>] = "interrupted"] /\ sent' = sent
      BY <1>2, <1>6 DEF markInterrupted
    <3> QED
      BY <1>2, <1>4, <2>2, <3>1, <3>2 DEF Settles
  <2>4. /\ live'[e].gen = 1 /\ live'[e].cancelled /\ live'[e].acts = live[e].acts
        /\ ~W(e)'.on /\ W(e)'.go = W(e).go /\ W(e)'.stop = W(e).stop /\ W(e)'.hold = W(e).hold
        /\ W(e)'.requests = W(e).requests
        /\ ~worker'[e][2].on /\ worker'[e][2].requests = worker[e][2].requests
    BY <1>3, <1>6 DEF Killed, Domains, TypedAt, W, Gens, NotLive, NoWorker
  <2>5. \/ skill'[e] = skill[e] /\ skill[e] \in SkillEnds
        \/ skill[e] \notin SkillEnds /\ skill'[e] = "interrupted"
    BY <1>3, <1>6 DEF Saved, Domains
  <2>6. cmd'.pc = "idle"
    BY <1>6 DEF CmdIdle
  <2>7. \A n \in Keys : Tracked(e, n)' => Tracked(e, n)
    BY <2>4, <2>6 DEF Tracked
  <2> QED
    BY <1>1, <1>2, <1>3, <1>6, <2>3, <2>4, <2>5, <2>6, <2>7, CommandCalm DEF CommandFrame, InStop, SkillEnds
<1> QED
  BY <1>0, <1>1, <1>5, <1>6 DEF ActionHalted

LEMMA ToldCalm ==
  ASSUME Calmly, boots' = boots, WorkerToldToStop
  PROVE  \A f \in Execs : Calm(f)'
<1>1. PICK e \in Execs : e = cmd.e /\ Changes(e)
  BY TellSteps DEF Calmly
<1>2. /\ UNCHANGED <<stored, device, sent, robot, owner, live, handler, run, told>>
      /\ cmd.pc = "actions" /\ cmd' = [cmd EXCEPT !.pc = "worker"]
  BY DEF WorkerToldToStop
<1>3. /\ live[e].gen = 1 /\ cmd.gen = 1 /\ Domains /\ TypedAt(e)
      /\ ~(W(e).on /\ W(e).stop # "none") /\ (W(e).stop = "none" => W(e).hold = 0)
      /\ evidence[e] \/ told[e] = "stopped" => W(e).hold = 3
  BY <1>1, <1>2, StopOf
<1>4. SameHandler(e) /\ Settles(e)
  BY <1>2, HandlersStay, NothingMoves DEF stored
<1>5. /\ cmd'.pc = "worker" /\ cmd'.e = e /\ cmd'.gen = 1 /\ cmd'.keys = cmd.keys
  BY <1>1, <1>2, <1>3 DEF Domains, CommandTyped, CmdIdle
<1>6. /\ W(e)'.go = W(e).go /\ W(e)'.requests = W(e).requests /\ W(e)'.hold = W(e).hold
      /\ W(e)'.on = W(e).on /\ worker'[e][2] = worker[e][2]
      /\ W(e)'.stop = W(e).stop \/ (W(e).stop = "none" /\ W(e)'.stop = "ready")
  <2>1. CASE W(e).on
    <3>1. worker' = [worker EXCEPT ![e][1].stop = "ready", ![e][1].hold = 0]
      BY <1>1, <1>3, <2>1 DEF WorkerToldToStop, W
    <3>2. DOMAIN worker = Execs /\ DOMAIN worker[e] = Gens /\ DOMAIN W(e) = DOMAIN NoWorker
      BY <1>3 DEF Domains, TypedAt, W, Gens
    <3>3. /\ W(e)'.go = W(e).go /\ W(e)'.requests = W(e).requests /\ W(e)'.hold = 0
          /\ W(e)'.on = W(e).on /\ W(e)'.stop = "ready" /\ worker'[e][2] = worker[e][2]
      BY <3>1, <3>2 DEF W, Gens, NoWorker
    <3> QED
      BY <1>3, <2>1, <3>3
  <2>2. CASE ~W(e).on
    <3>1. worker' = worker
      BY <1>1, <1>3, <2>2 DEF WorkerToldToStop, W
    <3> QED
      BY <3>1 DEF W
  <2> QED
    BY <2>1, <2>2
<1>7. InStop(e)' /\ \A k \in Keys : Tracked(e, k)' => Tracked(e, k)
  BY <1>2, <1>5 DEF InStop, Tracked
<1> QED
  BY <1>1, <1>2, <1>3, <1>4, <1>5, <1>6, <1>7, CommandCalm DEF CommandFrame, stored

\* Stop's result says stopped only after hold succeeded.
LEMMA FinalizedCalm ==
  ASSUME Calmly, boots' = boots, StopReplied \/ StopUnanswered
  PROVE  \A f \in Execs : Calm(f)'
<1>1. PICK e \in Execs : e = cmd.e /\ Changes(e)
  BY StoppingSteps DEF Calmly, Stopping
<1>2. /\ UNCHANGED <<journal, device, sent, owner, handler, run>> /\ cmd.pc = "worker"
  BY DEF StopReplied, StopUnanswered
<1>3. /\ live[e].gen = 1 /\ cmd.gen = 1 /\ Domains /\ TypedAt(e)
      /\ evidence[e] \/ told[e] = "stopped" => W(e).hold = 3
      /\ told[e] = "completed" => skill[e] = "completed"
      /\ SameHandler(e) /\ Settles(e)
  BY <1>1, <1>2, StopOf, HandlersStay, NothingMoves
<1>4. PICK s \in {"stopped", "interrupted"} :
        /\ Finalized(e, s) /\ (s = "stopped" => W(e).hold = 3)
        /\ evidence'[e] => W(e).hold = 3
  <2>1. CASE StopReplied
    <3>1. evidence' = IF W(e).hold = 3 THEN [evidence EXCEPT ![e] = TRUE] ELSE evidence
      BY <1>1, <1>3, <2>1 DEF StopReplied, W
    <3>2. Finalized(e, IF W(e).hold = 3 THEN "stopped" ELSE "interrupted")
      BY <1>1, <1>3, <2>1 DEF StopReplied, W
    <3> QED
      BY <1>3, <3>1, <3>2
  <2>2. CASE StopUnanswered
    <3>1. evidence' = evidence /\ Finalized(e, IF evidence[e] THEN "stopped" ELSE "interrupted")
      BY <1>1, <2>2 DEF StopUnanswered, HasEvidence
    <3> QED
      BY <1>3, <3>1
  <2> QED
    BY <2>1, <2>2
<1>5. /\ live'[e].gen = 1 /\ live'[e].cancelled /\ live'[e].acts = live[e].acts
      /\ ~W(e)'.on /\ W(e)'.go = W(e).go /\ W(e)'.stop = W(e).stop /\ W(e)'.hold = W(e).hold
      /\ W(e)'.requests = W(e).requests
      /\ ~worker'[e][2].on /\ worker'[e][2].requests = worker[e][2].requests
  BY <1>3, <1>4 DEF Finalized, Gone, Killed, Domains, TypedAt, W, Gens, NotLive, NoWorker
<1>6. /\ \/ skill'[e] = skill[e] /\ skill[e] \in SkillEnds
         \/ skill[e] \notin SkillEnds /\ skill'[e] = s
      /\ told'[e] = s /\ cmd'.pc = "idle"
  BY <1>3, <1>4 DEF Finalized, Saved, Domains, CmdIdle
<1>7. robot' = robot \/ (robot = e /\ robot' = None /\ W(e).hold = 3)
  BY <1>4 DEF Finalized, RobotAfter
<1>8. \A k \in Keys : Tracked(e, k)' => Tracked(e, k)
  BY <1>5, <1>6 DEF Tracked
<1> QED
  BY <1>1, <1>2, <1>3, <1>4, <1>5, <1>6, <1>7, <1>8, CommandCalm DEF CommandFrame, InStop, SkillEnds

LEMMA StoppingCalm ==
  ASSUME Calmly, boots' = boots, Stopping
  PROVE  \A f \in Execs : Calm(f)'
  BY LatchesCalm, HaltedCalm, ToldCalm, FinalizedCalm, StopsActionCalm DEF Stopping

-----------------------------------------------------------------------------
(* The invariant.                                                           *)

LEMMA GenerationStays ==
  ASSUME BaseInv, NEW e \in Execs,
         live' \in {live, Gone(e), [live EXCEPT ![e].cancelled = TRUE],
                    [live EXCEPT ![e].stopping = TRUE], [live EXCEPT ![e].gen = 2]}
  PROVE  \A f \in Execs : live[f].gen = 2 => live'[f].gen = 2
<1> USE DEF BaseInv, Domains, Base, TypedAt, NotLive
<1>1. CASE live' = live
  BY <1>1
<1>2. CASE live' = Gone(e)
  BY <1>2 DEF Gone
<1>3. CASE live' = [live EXCEPT ![e].cancelled = TRUE]
  BY <1>3
<1>4. CASE live' = [live EXCEPT ![e].stopping = TRUE]
  BY <1>4
<1>5. CASE live' = [live EXCEPT ![e].gen = 2]
  BY <1>5
<1> QED
  BY <1>1, <1>2, <1>3, <1>4, <1>5

\* What was restarted stays restarted.
LEMMA RestartedStays ==
  ASSUME BaseInv, [PilotNext]_pilotVars, NothingRestarted'
  PROVE  NothingRestarted /\ boots' = boots /\ ~PilotRestarts
<1>1. ~PilotRestarts
  BY RestartKeeps DEF NothingRestarted
<1>2. boots' = boots /\ boots = 1
  BY <1>1 DEF PilotNext, Step, pilotVars, NothingRestarted
<1>3. SUFFICES \A f \in Execs : live[f].gen = 2 => live'[f].gen = 2
  BY <1>1, <1>2 DEF NothingRestarted, BaseInv, Base, TypedAt
<1>4. ASSUME live' = live
      PROVE  \A f \in Execs : live[f].gen = 2 => live'[f].gen = 2
  BY <1>4
<1>5. ASSUME NEW e \in Execs, SkillStarts(e) \/ SkillStops(e) \/ ExitStops(e)
      PROVE  live' = live
  BY <1>5 DEF SkillStarts, SkillStops, ExitStops, StopBegins
<1>6. ASSUME NEW e \in Execs, NEW g \in Gens, Handling(e, g) \/ AgentReplies(e, g)
      PROVE  \A f \in Execs : live[f].gen = 2 => live'[f].gen = 2
  BY <1>2, <1>6, HandlingKeeps DEF HandlerStep, LiveTyped
<1>7. ASSUME NEW e \in Execs, NEW g \in Gens, Running(e, g)
      PROVE  \A f \in Execs : live[f].gen = 2 => live'[f].gen = 2
  <2>1. live' \in {live, Gone(e), [live EXCEPT ![e].gen = 2]}
    BY <1>7 DEF Running, RunEnds, RunFails, RunRestarts, RunGivesUp, Ends, Interrupts
  <2> QED
    BY <2>1, GenerationStays
<1>8. ASSUME NEW e \in Execs, NEW g \in Gens,
             \/ WorkerReturns(e, g) \/ WorkerHolds(e, g) \/ WorkerDies(e, g)
             \/ \E req \in {"start", "result", "ask", "note"} : WorkerAsks(e, g, req)
      PROVE  live' = live
  BY <1>8 DEF WorkerAsks, WorkerReturns, WorkerHolds, WorkerDies
<1>9. ASSUME SkillLaunched
      PROVE  \A f \in Execs : live[f].gen = 2 => live'[f].gen = 2
  <2>1. PICK e \in Execs : e = cmd.e
    BY <1>9 DEF SkillLaunched, BaseInv, Domains, CommandTyped
  <2>2. live[e] = NotLive
    BY <1>2, <1>9, <2>1 DEF SkillLaunched, BaseInv, Base, Known, Launching, Untouched
  <2>3. live[e].gen # 2
    BY <2>2 DEF NotLive
  <2>4. \A f \in Execs \ {e} : live'[f] = live[f]
    BY <1>9, <2>1 DEF SkillLaunched, Launched, BaseInv, Domains
  <2> QED
    BY <2>3, <2>4
<1>10. ASSUME Stopping
       PROVE  \A f \in Execs : live[f].gen = 2 => live'[f].gen = 2
  <2>1. PICK e \in Execs : e = cmd.e
    BY <1>2, <1>10, StoppingSteps
  <2>2. live' \in {live, Gone(e), [live EXCEPT ![e].cancelled = TRUE], [live EXCEPT ![e].stopping = TRUE]}
    BY <1>10, <2>1 DEF Stopping, StopLatches, ActionHalted, WorkerToldToStop, StopReplied,
       StopUnanswered, StopsAction, Finalized
  <2> QED
    BY <2>2, <2>1, GenerationStays
<1>11. ASSUME (\E i \in Invocations : DeviceEnds(i)) \/ PilotExits \/ ExitReports \/ UNCHANGED pilotVars
       PROVE  live' = live
  BY <1>11 DEF DeviceEnds, PilotExits, ExitReports, pilotVars
<1> QED
  BY <1>1, <1>4, <1>5, <1>6, <1>7, <1>8, <1>9, <1>10, <1>11 DEF PilotNext, Step

LEMMA CalmUnchanged ==
  ASSUME Calmly,
         UNCHANGED <<stored, device, sent, robot, owner, live, worker, handler, run, cmd, told, boots>>
  PROVE  \A f \in Execs : Calm(f)'
<1> SUFFICES ASSUME NEW f \in Execs
             PROVE  Calm(f)'
  OBVIOUS
<1>1. Calm(f) /\ W(f)' = W(f) /\ H(f)' = H(f) /\ Act(f, 1)' = Act(f, 1)
      /\ UNCHANGED <<skill, evidence, journal>>
  BY DEF Calmly, W, H, Act, KeyOf, stored
<1>2. SameHandler(f) /\ Settles(f) /\ \A k \in Keys : Tracked(f, k)' => Tracked(f, k)
  BY <1>1, HandlersStay, NothingMoves DEF Tracked
<1>3. SpareUnused(f)' /\ Launch(f)' /\ Talk(W(f), H(f))'
  BY <1>1 DEF Calm, SpareUnused, Launch, Launching, Untouched, InStop
<1>4. Held(f)'
  BY <1>1, <1>2, HeldKept DEF Calm, Held
<1>5. Course(f)'
  BY <1>1 DEF Calm, Course, InStop
<1>6. Truth(f)'
  BY <1>2, TruthKept
<1>7. Quiet(f)'
  BY <1>1, <1>2, QuietKept DEF GivenUp
<1>8. Locked(f)'
  BY <1>1, <1>2, LockedKept DEF Undisturbed, GivenUp
<1> QED
  BY <1>3, <1>4, <1>5, <1>6, <1>7, <1>8 DEF Calm

LEMMA CalmGood == PilotInit => CalmInv
<1> SUFFICES ASSUME PilotInit, NEW e \in Execs
             PROVE  Calm(e)
  BY DEF CalmInv
<1>1. /\ live[e] = NotLive /\ worker[e] = [g \in Gens |-> NoWorker]
      /\ handler[e] = [g \in Gens |-> HandlerIdle] /\ run[e] = [g \in Gens |-> "none"]
      /\ skill[e] = "none" /\ told[e] = "none" /\ ~evidence[e]
      /\ \A k \in Keys : /\ journal[<<e, k>>] = "none" /\ device[<<e, k>>] = "none"
      /\ cmd.pc = "idle"
  BY DEF PilotInit, Invocations, CmdIdle
<1>2. /\ W(e) = NoWorker /\ H(e) = HandlerIdle /\ worker[e][2] = NoWorker
      /\ handler[e][2] = HandlerIdle /\ run[e][1] = "none" /\ run[e][2] = "none"
  BY <1>1 DEF W, H, Gens
<1>3. /\ NoWorker.requests = <<>> /\ NoWorker.go = "none" /\ NoWorker.stop = "none" /\ ~NoWorker.on
      /\ NoWorker.hold = 0 /\ HandlerIdle.pc = "idle" /\ NotLive.gen = 0 /\ NotLive.acts = {}
  BY DEF NoWorker, HandlerIdle, NotLive
<1>4. SpareUnused(e)
  BY <1>2, <1>3 DEF SpareUnused
<1>5. Untouched(e)
  BY <1>1 DEF Untouched
<1>6. Launch(e)
  BY <1>1, <1>5 DEF Launch, Launching, InStop
<1>7. Talk(W(e), H(e))
  BY <1>2, TalkBegins
<1>8. Truth(e)
  <2>1. \A k \in Keys : ~Tracked(e, k)
    BY <1>1, <1>3 DEF Tracked
  <2>2. "none" \notin Confirmed
    BY DEF Confirmed, ActionEnds
  <2> QED
    BY <1>1, <1>2, <1>3, <2>1, <2>2 DEF Truth
<1>9. Held(e)
  BY <1>1, <1>2, <1>3 DEF Held, HoldBegun, Keys
<1>10. Course(e)
  BY <1>1, <1>2, <1>3 DEF Course
<1>11. Quiet(e)
  BY <1>1, <1>3 DEF Quiet
<1>12. Locked(e)
  BY <1>1, <1>2, <1>3 DEF Locked, Claim, HoldBegun, Keys
<1> QED
  BY <1>4, <1>6, <1>7, <1>8, <1>9, <1>10, <1>11, <1>12 DEF Calm

LEMMA CalmStep == BaseInv /\ CalmInv /\ [PilotNext]_pilotVars => CalmInv'
<1> SUFFICES ASSUME BaseInv, CalmInv, [PilotNext]_pilotVars, NothingRestarted'
             PROVE  \A f \in Execs : Calm(f)'
  BY DEF CalmInv
<1>1. Calmly /\ boots' = boots /\ ~PilotRestarts
  BY RestartedStays DEF Calmly, CalmInv
<1>2. ASSUME NEW e \in Execs, SkillStarts(e) \/ SkillStops(e) \/ ExitStops(e)
      PROVE  \A f \in Execs : Calm(f)'
  <2>1. CASE SkillStarts(e)
    BY <1>1, <2>1, StartsCalm
  <2>2. CASE StopBegins(e)
    BY <1>1, <2>2, BeginsCalm
  <2>3. CASE UNCHANGED <<stored, device, sent, robot, owner, live, worker, handler, run, cmd, told, credit>>
    BY <1>1, <2>3, CalmUnchanged
  <2> QED
    BY <1>2, <2>1, <2>2, <2>3 DEF SkillStops, ExitStops
<1>3. ASSUME NEW e \in Execs, NEW g \in Gens, Handling(e, g) \/ AgentReplies(e, g) \/ Running(e, g)
      PROVE  \A f \in Execs : Calm(f)'
  BY <1>1, <1>3, HandlingCalm, RunningCalm
<1>4. ASSUME NEW e \in Execs, NEW g \in Gens,
             \/ WorkerReturns(e, g) \/ WorkerHolds(e, g) \/ WorkerDies(e, g)
             \/ \E req \in {"start", "result", "ask", "note"} : WorkerAsks(e, g, req)
      PROVE  \A f \in Execs : Calm(f)'
  BY <1>1, <1>4, WorkersCalm
<1>5. ASSUME NEW i \in Invocations, DeviceEnds(i)
      PROVE  \A f \in Execs : Calm(f)'
  BY <1>1, <1>5, DeviceCalm
<1>6. ASSUME SkillLaunched \/ Stopping
      PROVE  \A f \in Execs : Calm(f)'
  BY <1>1, <1>6, LaunchedCalm, StoppingCalm
<1>7. ASSUME PilotExits \/ ExitReports \/ UNCHANGED pilotVars
      PROVE  \A f \in Execs : Calm(f)'
  BY <1>1, <1>7, CalmUnchanged DEF PilotExits, ExitReports, pilotVars
<1> QED
  BY <1>1, <1>2, <1>3, <1>4, <1>5, <1>6, <1>7 DEF PilotNext, Step

\* Of the two locks of the Robot, the physical one (activePhysical, runner.go) is that of what
\* moves: it is taken before StartTask and goes back only when the end is confirmed, as long
\* as nothing is restarted and no other Execution was given up.
THEOREM MovesAreLocked == PilotSpec => []MovingIsLocked
<1>1. BaseInv /\ CalmInv => MovingIsLocked
  <2> SUFFICES ASSUME BaseInv, CalmInv, NothingRestarted, NEW i \in Invocations,
                      device[i] = "moving", Undisturbed(i[1])
               PROVE  owner = i
    BY DEF MovingIsLocked
  <2>1. PICK e \in Execs, k \in Keys : i = <<e, k>>
    BY DEF Invocations
  <2> QED
    BY <2>1 DEF CalmInv, Calm, Locked, Claim
<1> QED
  BY <1>1, BaseGood, BaseStep, CalmGood, CalmStep, PTL DEF PilotSpec

\* An Execution the Pilot reports as completed or stopped has nothing moving (runWorker and
\* Stop, runner.go): completed waits for the lock of the Robot, and a safe stop for hold, which
\* needs the lock go has.
THEOREM EndsStayQuiet == PilotSpec => []EndsAreQuiet
<1>1. BaseInv /\ CalmInv => EndsAreQuiet
  <2> SUFFICES ASSUME BaseInv, CalmInv, NothingRestarted, NEW e \in Execs, Undisturbed(e),
                      told[e] \in {"completed", "stopped"}
               PROVE  ~Moves(e)
    BY DEF EndsAreQuiet
  <2>1. Held(e) /\ Locked(e)
    BY DEF CalmInv, Calm
  <2>2. CASE told[e] = "completed"
    BY <2>1, <2>2 DEF Locked
  <2>3. CASE told[e] = "stopped"
    <3>1. device[<<e, "hold">>] # "moving" /\ HoldBegun(e)
      BY <2>1, <2>3 DEF Held, HoldBegun
    <3>2. device[<<e, "go">>] # "moving"
      BY <2>1, <3>1 DEF Locked, Claim
    <3> QED
      BY <3>1, <3>2 DEF Moves, Keys
  <2> QED
    BY <2>2, <2>3
<1> QED
  BY <1>1, BaseGood, BaseStep, CalmGood, CalmStep, PTL DEF PilotSpec
=============================================================================
