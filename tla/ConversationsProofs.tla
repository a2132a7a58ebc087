------------------------- MODULE ConversationsProofs -------------------------
(***************************************************************************)
(* Proofs about a Conversation: its one Run, its Project and its Runner     *)
(* are its own, an answer counts once and as what it is, and a stored       *)
(* cancellation is never overtaken.                                         *)
(*                                                                          *)
(* The argument is the lock of the Conversation: a thread that may write a  *)
(* Run, or builds a Runner, holds it, and whatever changes the              *)
(* configuration without a new generation needs it.                         *)
(***************************************************************************)
EXTENDS Conversations, FiniteSetTheorems, TLAPS

RunStatus == ActiveRun \cup {"none", "completed", "failed", "cancelled"}
AskStatus == {"none", "pending", "answered", "expired", "cancelled"}
Before == {"idle", "queued", "locked", "building", "ready"}
AtWork == {"created", "working", "asking", "registering", "listening", "approved", "denied",
           "completing", "failing"}
Holding == {"locked", "building", "ready"} \cup AtWork \cup {"replying", "leaving"}

RunRow(x) ==
  DOMAIN x = {"status", "source"} /\ x.status \in RunStatus /\ x.source \in Asks \cup {None}
AskRow(x) == DOMAIN x = DOMAIN NoAsk /\ x.status \in AskStatus /\ x.reply \in BOOLEAN
Steps == Before \cup AtWork \cup {"replying", "leaving", "over"}

RunnerTyped ==
  /\ DOMAIN runner = {"cached", "generation", "version", "seen"}
  /\ DOMAIN runner.cached = {"made", "stale"} /\ runner.cached.stale \in BOOLEAN
  /\ runner.generation \in Nat /\ runner.version \in Nat
  /\ DOMAIN runner.seen = Runs /\ \A r \in Runs : runner.seen[r] \in Nat \X Nat

ConvTyped ==
  /\ DOMAIN projects = {"active", "archived"} /\ DOMAIN chat = {"archived", "revision"}
  /\ DOMAIN runs = Runs /\ \A r \in Runs : RunRow(runs[r])
  /\ DOMAIN asks = Asks /\ \A a \in Asks : AskRow(asks[a])
  /\ DOMAIN pc = Runs /\ \A r \in Runs : pc[r] \in Steps
  /\ gate \in Runs \cup {None} /\ active \in Runs \cup {None}
  /\ DOMAIN waiters = Asks /\ DOMAIN replies = Asks
  /\ RunnerTyped
  /\ DOMAIN caller = {"cancel", "signal", "delete", "victim", "listed"}
  /\ caller.cancel \in Runs \cup {None} /\ caller.victim \in Runs \cup {None}

\* The lock: whoever is past it and not over holds it, and a Run that is not over has a
\* thread at work.
LockIsHeld == \A r \in Runs : pc[r] \in Holding => gate = r
RunsHaveThreads ==
  \A r \in Runs : /\ runs[r].status \in ActiveRun => pc[r] \in AtWork
                  /\ pc[r] \in Before => runs[r].status = "none"
                  /\ pc[r] = "idle" => runs[r].source = None

\* What is built was read from the configuration of its generation.
BuildsAreCurrent ==
  \A r \in Runs : pc[r] = "building" =>
    /\ runner.seen[r][1] <= runner.generation
    /\ runner.seen[r][1] = runner.generation => runner.seen[r][2] = runner.version

\* Yes is only said by a stored answer.
Approved(r) == \E a \in AsksOf(r) : asks[a].status = "answered" /\ asks[a].reply
YesIsStored ==
  /\ \A a \in Asks : /\ asks[a].reply => asks[a].status = "answered"
                     /\ waiters[a] = "yes" => asks[a].reply
  /\ \A r \in Runs : pc[r] = "approved" => Approved(r)
  /\ \A r \in granted : Approved(r)

\* One Run answers for an Interaction, or will.
Claims(r, a) == runs[r].source = a /\ (runs[r].status # "none" \/ pc[r] # "over")
OneClaim ==
  \A a \in Asks :
    /\ \A r, s \in Runs : Claims(r, a) /\ Claims(s, a) => r = s
    /\ replies[a] = "route" => asks[a].status \in {"answered", "cancelled"}
    /\ \A r \in Runs : Claims(r, a) =>
         /\ asks[a].status \in {"answered", "cancelled"}
         /\ runs[r].status = "none" => replies[a] # "route"

ConvInv ==
  /\ ConvTyped /\ LockIsHeld /\ RunsHaveThreads /\ BuildsAreCurrent /\ YesIsStored /\ OneClaim
  /\ InactiveProjectIsQuiet /\ RunnerIsCurrent

-----------------------------------------------------------------------------
(* What the rows of Runs and Interactions go through.                      *)

\* No Run is created: a Run that is not at work never starts again, and a cancellation is
\* not overtaken.
RunsMove ==
  /\ DOMAIN runs' = Runs /\ \A r \in Runs :
       /\ RunRow(runs'[r]) /\ runs'[r].source = runs[r].source
       /\ runs'[r].status = "none" <=> runs[r].status = "none"
       /\ runs'[r].status \in ActiveRun => runs[r].status \in ActiveRun
       /\ runs[r].status = "cancelling" => runs'[r].status \in {"cancelling", "cancelled", "failed"}

\* An answer that is stored stays, and nothing else is a yes.
Settled(a) == asks[a].status \in {"answered", "cancelled"}
AsksMove ==
  /\ DOMAIN asks' = Asks /\ \A a \in Asks :
       /\ AskRow(asks'[a])
       /\ asks'[a].reply => asks'[a].status = "answered"
       /\ Settled(a) => asks'[a].status = asks[a].status
       /\ asks[a].status = "answered" =>
            /\ asks'[a].reply = asks[a].reply /\ asks'[a].run = asks[a].run
            /\ asks'[a].approval = asks[a].approval

\* One thread goes on, with or without the lock it has, or none does.
ThreadMoves(r, S) ==
  /\ DOMAIN pc' = Runs /\ pc'[r] \in S /\ \A s \in Runs \ {r} : pc'[s] = pc[s]
  /\ gate' = gate

LEMMA RunTransition ==
  ASSUME ConvInv, NEW r \in Runs, NEW from, NEW to \in RunStatus \ {"none"},
         runs' = Transitioned(r, from, to), "none" \notin from,
         to \in ActiveRun => from \subseteq ActiveRun,
         runs[r].status = "cancelling" /\ "cancelling" \in from => to \in {"cancelling", "cancelled", "failed"}
  PROVE  /\ RunsMove
         /\ runs'[r].status = IF CanTransition(r, from) THEN to ELSE runs[r].status
         /\ \A s \in Runs \ {r} : runs'[s] = runs[s]
  BY DEF ConvInv, ConvTyped, RunRow, Transitioned, CanTransition, RunsMove, RunStatus, ActiveRun

LEMMA RunsKept ==
  ASSUME ConvInv, runs' = runs
  PROVE  RunsMove
  BY DEF ConvInv, ConvTyped, RunRow, RunsMove

LEMMA AskResolved ==
  ASSUME ConvInv, NEW a \in Asks, NEW to \in AskStatus \ {"none"}, NEW yes \in BOOLEAN,
         yes => to = "answered", asks' = Resolved(a, to, yes)
  PROVE  AsksMove /\ (asks[a].status = "pending" => asks'[a].status = to)
  BY DEF ConvInv, ConvTyped, AskRow, NoAsk, YesIsStored, Resolved, AsksMove, Settled, AskStatus

LEMMA AskCreated ==
  ASSUME ConvInv, NEW a \in Asks, NEW r, NEW ap, NEW n, asks[a].status = "none",
         asks' = [asks EXCEPT ![a] = Pending(r, ap, n)]
  PROVE  AsksMove
<1>1. Pending(r, ap, n).status = "pending" /\ Pending(r, ap, n).reply = FALSE
      /\ DOMAIN Pending(r, ap, n) = DOMAIN NoAsk
  BY DEF Pending, NoAsk
<1> QED
  BY <1>1 DEF ConvInv, ConvTyped, AskRow, YesIsStored, AsksMove, Settled, AskStatus

LEMMA AskHandled ==
  ASSUME ConvInv, NEW a \in Asks, NEW v, asks' = [asks EXCEPT ![a].handled = v]
  PROVE  AsksMove
  BY DEF ConvInv, ConvTyped, AskRow, NoAsk, YesIsStored, AsksMove, Settled

LEMMA AsksKept ==
  ASSUME ConvInv, asks' = asks
  PROVE  AsksMove
  BY DEF ConvInv, ConvTyped, AskRow, YesIsStored, AsksMove

-----------------------------------------------------------------------------
(* What keeps each part of the invariant.                                  *)

LEMMA TypesStay ==
  ASSUME ConvInv,
         DOMAIN runs' = Runs, \A r \in Runs : RunRow(runs'[r]), AsksMove,
         DOMAIN pc' = Runs, \A r \in Runs : pc'[r] \in Steps,
         gate' \in Runs \cup {None}, active' \in Runs \cup {None},
         DOMAIN projects' = DOMAIN projects, DOMAIN chat' = DOMAIN chat,
         DOMAIN waiters' = Asks, DOMAIN replies' = Asks,
         runner' = runner \/ RunnerTyped', DOMAIN caller' = DOMAIN caller,
         caller'.cancel \in Runs \cup {None}, caller'.victim \in Runs \cup {None}
  PROVE  ConvTyped'
  BY DEF ConvInv, ConvTyped, RunnerTyped, RunRow, AsksMove, AskRow

LEMMA LockStays ==
  ASSUME ConvInv, \A r \in Runs : pc'[r] \in Holding => pc[r] \in Holding, gate' = gate
  PROVE  LockIsHeld'
  BY DEF ConvInv, LockIsHeld

LEMMA ThreadsStay ==
  ASSUME ConvInv, RunsMove,
         \A r \in Runs : /\ pc[r] \in AtWork => pc'[r] \in AtWork \/ runs'[r].status \notin ActiveRun
                         /\ pc'[r] \in Before => pc[r] \in Before
                         /\ pc'[r] = "idle" => pc[r] = "idle"
  PROVE  RunsHaveThreads'
  BY DEF ConvInv, RunsHaveThreads, RunsMove

LEMMA BuildsStay ==
  ASSUME ConvInv, runner' = runner, \A r \in Runs : pc'[r] = "building" => pc[r] = "building"
  PROVE  BuildsAreCurrent' /\ RunnerIsCurrent'
  BY DEF ConvInv, BuildsAreCurrent, RunnerIsCurrent

LEMMA ApprovedStays ==
  ASSUME AsksMove, NEW r, Approved(r)
  PROVE  Approved(r)'
  BY DEF AsksMove, Approved, AsksOf, Settled

LEMMA YesStays ==
  ASSUME ConvInv, AsksMove,
         \A a \in Asks : waiters'[a] = "yes" => waiters[a] = "yes" \/ asks'[a].reply,
         \A r \in Runs : pc'[r] = "approved" => pc[r] = "approved" \/ Approved(r),
         \A r \in granted' : r \in granted \/ Approved(r)
  PROVE  YesIsStored'
<1>1. \A a \in Asks : /\ asks'[a].reply => asks'[a].status = "answered"
                      /\ waiters'[a] = "yes" => asks'[a].reply
  BY DEF ConvInv, YesIsStored, AsksMove
<1>2. /\ \A r \in Runs : pc'[r] = "approved" => Approved(r)'
      /\ \A r \in granted' : Approved(r)'
  BY ApprovedStays DEF ConvInv, YesIsStored
<1> QED
  BY <1>1, <1>2 DEF YesIsStored

LEMMA ClaimsStay ==
  ASSUME ConvInv, RunsMove, AsksMove,
         \A r \in Runs : pc[r] = "over" => pc'[r] = "over",
         \A a \in Asks : replies'[a] = "route" =>
           replies[a] = "route" \/ (asks[a].status = "pending" /\ Settled(a)')
  PROVE  OneClaim'
<1>1. \A r \in Runs, a \in Asks : Claims(r, a)' => Claims(r, a)
  BY DEF RunsMove, Claims
<1>2. \A a \in Asks : Settled(a) => Settled(a)'
  BY DEF AsksMove, Settled
<1>3. \A a \in Asks : replies'[a] = "route" => Settled(a)'
  BY <1>2 DEF ConvInv, OneClaim, Settled
<1>4. \A a \in Asks, r \in Runs : Claims(r, a)' =>
        Settled(a)' /\ (runs'[r].status = "none" => replies'[a] # "route")
  BY <1>1, <1>2 DEF ConvInv, OneClaim, Settled, RunsMove
<1> QED
  BY <1>1, <1>3, <1>4 DEF ConvInv, OneClaim, Settled

LEMMA QuietStays ==
  ASSUME ConvInv, RunsMove,
         \/ projects' = projects
         \/ \A r \in Runs : runs[r].status \notin ActiveRun
  PROVE  InactiveProjectIsQuiet'
  BY DEF ConvInv, InactiveProjectIsQuiet, RunsMove

-----------------------------------------------------------------------------
(* The steps.                                                              *)

\* A thread with the lock goes on with its Run.
LEMMA ThreadKeeps ==
  ASSUME ConvInv, RunsMove, AsksMove, NEW r \in Runs, NEW to \in AtWork \cup {"replying", "leaving"},
         pc[r] \in AtWork \cup {"replying"}, pc' = [pc EXCEPT ![r] = to],
         to \in AtWork \/ runs'[r].status \notin ActiveRun,
         pc[r] = "replying" => to \notin AtWork,
         to = "approved" => Approved(r),
         \A a \in Asks : waiters'[a] = "yes" => waiters[a] = "yes",
         \A s \in granted' : s \in granted \/ Approved(s),
         gate' = gate, active' \in Runs \cup {None}, runner' = runner, projects' = projects,
         DOMAIN chat' = DOMAIN chat, DOMAIN waiters' = Asks, replies' = replies, caller' = caller
  PROVE  ConvInv'
<1>1. /\ DOMAIN pc' = Runs /\ pc'[r] = to /\ \A s \in Runs \ {r} : pc'[s] = pc[s]
      /\ \A s \in Runs : pc[s] \in Steps
  BY DEF ConvInv, ConvTyped
<1>2. ConvTyped'
  <2>1. \A s \in Runs : pc'[s] \in Steps
    BY <1>1 DEF Steps
  <2>2. /\ DOMAIN runs' = Runs /\ \A s \in Runs : RunRow(runs'[s])
        /\ gate' \in Runs \cup {None} /\ DOMAIN replies' = Asks
        /\ caller'.cancel \in Runs \cup {None} /\ caller'.victim \in Runs \cup {None}
    BY DEF ConvInv, ConvTyped, RunsMove
  <2> QED
    BY <1>1, <2>1, <2>2, TypesStay
<1>3. LockIsHeld'
  BY <1>1, LockStays DEF Holding
<1>4. RunsHaveThreads'
  BY <1>1, ThreadsStay DEF AtWork, Before
<1>5. BuildsAreCurrent' /\ RunnerIsCurrent'
  BY <1>1, BuildsStay DEF AtWork
<1>6. YesIsStored'
  BY <1>1, YesStays
<1>7. OneClaim'
  BY <1>1, ClaimsStay DEF AtWork
<1>8. InactiveProjectIsQuiet'
  BY QuietStays
<1> QED
  BY <1>2, <1>3, <1>4, <1>5, <1>6, <1>7, <1>8 DEF ConvInv

\* A request that is not the thread of a Run.
LEMMA RequestKeeps ==
  ASSUME ConvInv, RunsMove, AsksMove,
         \A a \in Asks : waiters'[a] = "yes" => waiters[a] = "yes" \/ asks'[a].reply,
         \A a \in Asks : replies'[a] = "route" =>
           replies[a] = "route" \/ (asks[a].status = "pending" /\ Settled(a)'),
         DOMAIN waiters' = Asks, DOMAIN replies' = Asks, DOMAIN caller' = DOMAIN caller,
         caller'.cancel \in Runs \cup {None}, caller'.victim \in Runs \cup {None},
         DOMAIN chat' = DOMAIN chat,
         pc' = pc, gate' = gate, active' = active, runner' = runner, projects' = projects,
         granted' = granted
  PROVE  ConvInv'
<1>2. ConvTyped'
  <2>2. /\ DOMAIN runs' = Runs /\ \A s \in Runs : RunRow(runs'[s])
        /\ gate' \in Runs \cup {None} /\ active' \in Runs \cup {None}
        /\ DOMAIN pc' = Runs /\ \A s \in Runs : pc'[s] \in Steps
    BY DEF ConvInv, ConvTyped, RunsMove
  <2> QED
    BY <2>2, TypesStay
<1>3. LockIsHeld'
  BY LockStays
<1>4. RunsHaveThreads'
  BY ThreadsStay
<1>5. BuildsAreCurrent' /\ RunnerIsCurrent'
  BY BuildsStay
<1>6. YesIsStored'
  BY YesStays
<1>7. OneClaim'
  BY ClaimsStay
<1>8. InactiveProjectIsQuiet'
  BY QuietStays
<1> QED
  BY <1>2, <1>3, <1>4, <1>5, <1>6, <1>7, <1>8 DEF ConvInv

LEMMA WorkSteps ==
  ASSUME ConvInv, NEW r \in Runs, NEW a,
         \/ RegisterRun(r) \/ StreamEnds(r) \/ StreamFails(r) \/ Interrupt(r) \/ Continue(r)
         \/ FinishCompletedRun(r) \/ FinishFailedRun(r) \/ AppendReply(r)
         \/ a \in Asks /\ \/ RequestApproval(r, a) \/ ListenForReply(r, a)
                          \/ HearReply(r, a) \/ TimeOut(r, a) \/ Abandon(r, a)
  PROVE  ConvInv' /\ RunsMove
<1>0. DOMAIN waiters = Asks /\ active \in Runs \cup {None}
  BY DEF ConvInv, ConvTyped
<1> USE DEF Goes, stored
<1>1. CASE RegisterRun(r)
  BY <1>1, <1>0, ThreadKeeps, RunsKept, AsksKept DEF RegisterRun, AtWork
<1>2. CASE StreamEnds(r)
  BY <1>2, <1>0, ThreadKeeps, RunsKept, AsksKept DEF StreamEnds, AtWork
<1>3. CASE StreamFails(r)
  BY <1>3, <1>0, ThreadKeeps, RunsKept, AsksKept DEF StreamFails, AtWork
<1>4. CASE Interrupt(r)
  <2>1. RunsMove
    BY <1>4, RunTransition DEF Interrupt, RunStatus, ActiveRun
  <2> QED
    BY <1>4, <1>0, <2>1, ThreadKeeps, AsksKept DEF Interrupt, AtWork
<1>5. CASE Continue(r)
  <2>1. RunsMove
    BY <1>5, RunTransition DEF Continue, RunStatus, ActiveRun
  <2>2. pc[r] = "approved" => Approved(r)
    BY DEF ConvInv, YesIsStored
  <2>3. PICK to \in {"working", "failing"} : pc' = [pc EXCEPT ![r] = to]
    BY <1>5 DEF Continue
  <2>4. \A s \in granted' : s \in granted \/ Approved(s)
    BY <1>5, <2>2 DEF Continue
  <2> QED
    BY <1>5, <1>0, <2>1, <2>3, <2>4, ThreadKeeps, AsksKept DEF Continue, AtWork
<1>6. CASE FinishCompletedRun(r)
  <2>1. RunsMove /\ runs'[r].status \notin ActiveRun
    <3> DEFINE to == CompletedStatus(r)
    <3>1. to \in {"completed", "cancelled"} /\ (runs[r].status = "cancelling" => to = "cancelled")
      BY DEF CompletedStatus
    <3>2. runs' = Transitioned(r, ActiveRun, to)
      BY <1>6 DEF FinishCompletedRun
    <3> HIDE DEF to
    <3> QED
      BY <3>1, <3>2, RunTransition DEF RunStatus, ActiveRun, CanTransition
  <2> QED
    BY <1>6, <1>0, <2>1, ThreadKeeps, AsksKept DEF FinishCompletedRun, AtWork
<1>7. CASE FinishFailedRun(r)
  <2>1. RunsMove /\ runs'[r].status \notin ActiveRun
    <3> DEFINE to == IF r \in stopped THEN "cancelled" ELSE "failed"
    <3>1. to \in {"failed", "cancelled"}
      OBVIOUS
    <3>2. runs' = Transitioned(r, ActiveRun, to)
      BY <1>7 DEF FinishFailedRun
    <3> HIDE DEF to
    <3> QED
      BY <3>1, <3>2, RunTransition DEF RunStatus, ActiveRun, CanTransition
  <2> QED
    BY <1>7, <1>0, <2>1, ThreadKeeps, AsksKept DEF FinishFailedRun, AtWork
<1>8. CASE AppendReply(r)
  BY <1>8, <1>0, ThreadKeeps, RunsKept, AsksKept
  DEF AppendReply, AtWork, ConvInv, RunsHaveThreads
<1>9. CASE a \in Asks /\ RequestApproval(r, a)
  BY <1>9, <1>0, ThreadKeeps, RunsKept, AskCreated DEF RequestApproval, AtWork
<1>10. CASE a \in Asks /\ ListenForReply(r, a)
  BY <1>10, <1>0, ThreadKeeps, RunsKept, AsksKept DEF ListenForReply, AtWork
<1>11. CASE a \in Asks /\ HearReply(r, a)
  <2>1. waiters[a] = "yes" => Approved(r)
    BY <1>11 DEF HearReply, Listens, ConvInv, YesIsStored, Approved
  <2>2. CASE waiters[a] = "yes"
    BY <1>11, <1>0, <2>1, <2>2, ThreadKeeps, RunsKept, AsksKept
    DEF HearReply, Listens, Hears, AtWork
  <2>3. CASE waiters[a] # "yes"
    BY <1>11, <1>0, <2>3, ThreadKeeps, RunsKept, AsksKept
    DEF HearReply, Listens, Hears, AtWork
  <2> QED
    BY <2>2, <2>3
<1>12. CASE a \in Asks /\ TimeOut(r, a)
  <2>1. TimedOutAnswer(a) => Approved(r)
    BY <1>12 DEF TimeOut, Listens, TimedOutAnswer, Approved
  <2>2. AsksMove
    BY <1>12, AskResolved DEF TimeOut, AskStatus
  <2>3. PICK to \in {"approved", "denied"} :
          pc' = [pc EXCEPT ![r] = to] /\ (to = "approved" => TimedOutAnswer(a))
    BY <1>12 DEF TimeOut, Hears
  <2> QED
    BY <1>12, <1>0, <2>1, <2>2, <2>3, ThreadKeeps, RunsKept
    DEF TimeOut, Listens, Hears, AtWork
<1>13. CASE a \in Asks /\ Abandon(r, a)
  <2>1. AsksMove
    BY <1>13, AskResolved DEF Abandon, AskStatus
  <2> QED
    BY <1>13, <1>0, <2>1, ThreadKeeps, RunsKept DEF Abandon, Listens, AtWork
<1> QED
  BY <1>1, <1>2, <1>3, <1>4, <1>5, <1>6, <1>7, <1>8, <1>9, <1>10, <1>11, <1>12, <1>13

LEMMA RequestSteps ==
  ASSUME ConvInv, NEW r, NEW a, NEW yes \in BOOLEAN,
         \/ a \in Asks /\ \/ AskQuestion(r, a) \/ ReplyOverSocket(a, yes)
                          \/ ReplyStructured(a, yes) \/ CancelStructured(a)
                          \/ WakeWaiter(a) \/ RouteFindsRun(a) \/ RouteFails(a)
         \/ LookUpRun \/ (r \in Runs /\ HandleCancelRun(r)) \/ CancelRunByID \/ Signal(r)
         \/ DeleteCancels \/ DeleteLists \/ DeleteSweeps \/ DeleteWakes
         \/ DeleteArchives \/ DeleteGivesUp \/ TaskRunStarts \/ TaskRunEnds
  PROVE  ConvInv' /\ RunsMove
<1>0. /\ DOMAIN waiters = Asks /\ DOMAIN replies = Asks /\ active \in Runs \cup {None}
      /\ DOMAIN caller = {"cancel", "signal", "delete", "victim", "listed"}
      /\ caller.cancel \in Runs \cup {None} /\ caller.victim \in Runs \cup {None}
      /\ DOMAIN chat = {"archived", "revision"}
      /\ \A b \in Asks : asks[b].reply => asks[b].status = "answered"
  BY DEF ConvInv, ConvTyped, YesIsStored
<1> USE DEF stored, process
<1>1. CASE a \in Asks /\ AskQuestion(r, a)
  BY <1>1, <1>0, RequestKeeps, RunsKept, AskCreated DEF AskQuestion, CreateStructured
<1>2. CASE a \in Asks /\ ReplyOverSocket(a, yes)
  BY <1>2, <1>0, RequestKeeps, RunsKept, AskResolved DEF ReplyOverSocket, Replying, AskStatus
<1>3. CASE a \in Asks /\ ReplyStructured(a, yes)
  <2>1. AsksMove /\ asks'[a].status = "answered"
    BY <1>3, AskResolved DEF ReplyStructured, AskStatus
  <2> QED
    BY <1>3, <1>0, <2>1, RequestKeeps, RunsKept DEF ReplyStructured, Replying, Settled
<1>4. CASE a \in Asks /\ CancelStructured(a)
  <2>1. AsksMove /\ asks'[a].status = "cancelled"
    BY <1>4, AskResolved DEF CancelStructured, AskStatus
  <2> QED
    BY <1>4, <1>0, <2>1, RequestKeeps, RunsKept DEF CancelStructured, Replying, Settled
<1>5. CASE a \in Asks /\ WakeWaiter(a)
  <2>1. AsksMove
    BY <1>5, AskHandled DEF WakeWaiter
  <2>2. waiters'[a] = "yes" => waiters[a] = "yes" \/ asks'[a].reply
    BY <1>5, <1>0, <2>1 DEF WakeWaiter, AsksMove
  <2>3. \A b \in Asks \ {a} : waiters'[b] = waiters[b] /\ replies'[b] = replies[b]
    BY <1>5 DEF WakeWaiter, Replying
  <2> QED
    BY <1>5, <1>0, <2>1, <2>2, <2>3, RequestKeeps, RunsKept DEF WakeWaiter, Replying
<1>6. CASE a \in Asks /\ RouteFindsRun(a)
  <2>1. AsksMove
    BY <1>6, AskHandled DEF RouteFindsRun
  <2> QED
    BY <1>6, <1>0, <2>1, RequestKeeps, RunsKept DEF RouteFindsRun, Replying
<1>7. CASE a \in Asks /\ RouteFails(a)
  BY <1>7, <1>0, RequestKeeps, RunsKept, AsksKept DEF RouteFails, Replying
<1>8. CASE LookUpRun
  BY <1>8, <1>0, RequestKeeps, RunsKept, AsksKept DEF LookUpRun
<1>8a. CASE r \in Runs /\ HandleCancelRun(r)
  BY <1>8a, <1>0, RequestKeeps, RunsKept, AsksKept DEF HandleCancelRun
<1>9. CASE CancelRunByID
  <2>1. RunsMove
    BY <1>9, <1>0, RunTransition, RunsKept
    DEF CancelRunByID, RunStatus, ActiveRun, Cancellable, CanTransition
  <2> QED
    BY <1>9, <1>0, <2>1, RequestKeeps, AsksKept DEF CancelRunByID
<1>10. CASE Signal(r)
  BY <1>10, <1>0, RequestKeeps, RunsKept, AsksKept DEF Signal
<1>11. CASE DeleteCancels
  <2>1. RunsMove
    BY <1>11, <1>0, RunTransition, RunsKept DEF DeleteCancels, RunStatus, ActiveRun, Cancellable
  <2> QED
    BY <1>11, <1>0, <2>1, RequestKeeps, AsksKept DEF DeleteCancels
<1>12. CASE DeleteLists
  BY <1>12, <1>0, RequestKeeps, RunsKept, AsksKept DEF DeleteLists
<1>13. CASE DeleteSweeps
  <2>1. AsksMove
    BY <1>13 DEF DeleteSweeps, ConvInv, ConvTyped, AskRow, NoAsk, AskStatus, YesIsStored,
                 AsksMove, Settled
  <2> QED
    BY <1>13, <1>0, <2>1, RequestKeeps, RunsKept DEF DeleteSweeps
<1>14. CASE DeleteWakes
  BY <1>14, <1>0, RequestKeeps, RunsKept, AsksKept DEF DeleteWakes
<1>15. CASE DeleteArchives
  BY <1>15, <1>0, RequestKeeps, RunsKept, AsksKept DEF DeleteArchives
<1>16. CASE DeleteGivesUp
  BY <1>16, <1>0, RequestKeeps, RunsKept, AsksKept DEF DeleteGivesUp
<1>17. CASE TaskRunStarts
  BY <1>17, <1>0, RequestKeeps, RunsKept, AsksKept DEF TaskRunStarts
<1>18. CASE TaskRunEnds
  BY <1>18, <1>0, RequestKeeps, RunsKept, AsksKept DEF TaskRunEnds
<1> QED
  BY <1>1, <1>2, <1>3, <1>4, <1>5, <1>6, <1>7, <1>8, <1>8a, <1>9, <1>10, <1>11, <1>12, <1>13,
     <1>14, <1>15, <1>16, <1>17, <1>18

\* A thread that has not stored its Run yet.
LEMMA PrepareKeeps ==
  ASSUME ConvInv, NEW r \in Runs, NEW to \in (Before \ {"idle"}) \cup {"over"},
         pc[r] \in Before, pc' = [pc EXCEPT ![r] = to],
         UNCHANGED <<stored, active, waiters, replies, granted, caller>>,
         gate' \in Runs \cup {None}, runner' = runner \/ RunnerTyped'
  PROVE  /\ ConvTyped' /\ RunsHaveThreads' /\ YesIsStored' /\ OneClaim'
         /\ InactiveProjectIsQuiet' /\ RunsMove
<1>1. /\ DOMAIN pc' = Runs /\ pc'[r] = to /\ \A s \in Runs \ {r} : pc'[s] = pc[s]
      /\ RunsMove /\ AsksMove
  BY RunsKept, AsksKept DEF ConvInv, ConvTyped, stored
<1>2. ConvTyped'
  <2>1. \A s \in Runs : pc'[s] \in Steps
    BY <1>1 DEF Steps, ConvInv, ConvTyped
  <2>2. /\ DOMAIN runs' = Runs /\ \A s \in Runs : RunRow(runs'[s])
        /\ active' \in Runs \cup {None} /\ DOMAIN replies' = Asks /\ DOMAIN waiters' = Asks
        /\ caller'.cancel \in Runs \cup {None} /\ caller'.victim \in Runs \cup {None}
    BY DEF ConvInv, ConvTyped, stored
  <2> QED
    BY <1>1, <2>1, <2>2, TypesStay DEF stored
<1>3. RunsHaveThreads'
  BY <1>1, ThreadsStay DEF AtWork, Before
<1>4. YesIsStored'
  BY <1>1, YesStays DEF Before
<1>5. OneClaim'
  BY <1>1, ClaimsStay DEF Before
<1>6. InactiveProjectIsQuiet'
  BY <1>1, QuietStays DEF stored
<1> QED
  BY <1>1, <1>2, <1>3, <1>4, <1>5, <1>6

LEMMA PrepareSteps ==
  ASSUME ConvInv, NEW r \in Runs,
         \/ Accept(r) \/ Lock(r) \/ UseCached(r) \/ StartBuild(r) \/ FinishBuild(r)
         \/ BuildFails(r)
  PROVE  ConvInv' /\ RunsMove
<1>0. /\ DOMAIN pc = Runs /\ gate \in Runs \cup {None} /\ RunnerTyped
      /\ RunnerIsCurrent /\ LockIsHeld /\ BuildsAreCurrent
  BY DEF ConvInv, ConvTyped
<1> USE DEF Goes
<1>1. CASE Accept(r)
  <2>1. /\ ConvTyped' /\ RunsHaveThreads' /\ YesIsStored' /\ OneClaim'
        /\ InactiveProjectIsQuiet' /\ RunsMove
    BY <1>1, <1>0, PrepareKeeps DEF Accept, WritableSession, Before
  <2>2. LockIsHeld' /\ BuildsAreCurrent' /\ RunnerIsCurrent'
    BY <1>1, <1>0 DEF Accept, LockIsHeld, Holding, AtWork, BuildsAreCurrent, RunnerIsCurrent
  <2> QED
    BY <2>1, <2>2 DEF ConvInv
<1>2. CASE Lock(r)
  <2>1. /\ ConvTyped' /\ RunsHaveThreads' /\ YesIsStored' /\ OneClaim'
        /\ InactiveProjectIsQuiet' /\ RunsMove
    BY <1>2, <1>0, PrepareKeeps DEF Lock, Before
  <2>2. LockIsHeld' /\ BuildsAreCurrent' /\ RunnerIsCurrent'
    BY <1>2, <1>0, ConvConstants
    DEF Lock, LockIsHeld, Holding, AtWork, BuildsAreCurrent, RunnerIsCurrent
  <2> QED
    BY <2>1, <2>2 DEF ConvInv
<1>3. CASE UseCached(r)
  <2>1. /\ ConvTyped' /\ RunsHaveThreads' /\ YesIsStored' /\ OneClaim'
        /\ InactiveProjectIsQuiet' /\ RunsMove
    BY <1>3, <1>0, PrepareKeeps DEF UseCached, Before
  <2>2. LockIsHeld' /\ BuildsAreCurrent' /\ RunnerIsCurrent'
    BY <1>3, <1>0 DEF UseCached, LockIsHeld, Holding, AtWork, BuildsAreCurrent, RunnerIsCurrent
  <2> QED
    BY <2>1, <2>2 DEF ConvInv
<1>4. CASE StartBuild(r)
  <2>0. RunnerTyped' /\ runner'.cached = runner.cached /\ runner'.version = runner.version
        /\ runner'.generation = runner.generation
        /\ runner'.seen[r] = <<runner.generation, runner.version>>
        /\ \A s \in Runs \ {r} : runner'.seen[s] = runner.seen[s]
    BY <1>4, <1>0 DEF StartBuild, RunnerTyped
  <2>1. /\ ConvTyped' /\ RunsHaveThreads' /\ YesIsStored' /\ OneClaim'
        /\ InactiveProjectIsQuiet' /\ RunsMove
    BY <1>4, <1>0, <2>0, PrepareKeeps DEF StartBuild, Before
  <2>2. LockIsHeld' /\ BuildsAreCurrent' /\ RunnerIsCurrent'
    BY <1>4, <1>0, <2>0
    DEF StartBuild, LockIsHeld, Holding, AtWork, BuildsAreCurrent, RunnerIsCurrent, RunnerTyped
  <2> QED
    BY <2>1, <2>2 DEF ConvInv
<1>5. CASE FinishBuild(r)
  <2>0. RunnerTyped' /\ runner'.version = runner.version
        /\ runner'.generation = runner.generation /\ runner'.seen = runner.seen
    <3>1. CASE IsCurrentBuild(r)
      <4>1. runner' = [runner EXCEPT !.cached = [made |-> runner.seen[r][2], stale |-> FALSE]]
        BY <1>5, <3>1 DEF FinishBuild, BuiltRunner
      <4>2. /\ runner'.cached = [made |-> runner.seen[r][2], stale |-> FALSE]
            /\ runner'.version = runner.version /\ DOMAIN runner' = DOMAIN runner
            /\ runner'.generation = runner.generation /\ runner'.seen = runner.seen
        BY <1>0, <4>1 DEF RunnerTyped
      <4> QED
        BY <1>0, <4>2 DEF RunnerTyped
    <3>2. CASE ~IsCurrentBuild(r)
      BY <1>5, <1>0, <3>2 DEF FinishBuild, RunnerTyped
    <3> QED
      BY <3>1, <3>2
  <2>1. RunnerIsCurrent'
    BY <1>5, <1>0, <2>0
    DEF FinishBuild, BuiltRunner, IsCurrentBuild, BuildsAreCurrent, RunnerIsCurrent, RunnerTyped
  <2>2. PICK to \in {"ready", "locked"} : pc' = [pc EXCEPT ![r] = to]
    BY <1>5 DEF FinishBuild
  <2>3. /\ ConvTyped' /\ RunsHaveThreads' /\ YesIsStored' /\ OneClaim'
        /\ InactiveProjectIsQuiet' /\ RunsMove
    BY <1>5, <1>0, <2>0, <2>2, PrepareKeeps DEF FinishBuild, Before
  <2>4. LockIsHeld' /\ BuildsAreCurrent'
    BY <1>5, <1>0, <2>0, <2>2
    DEF FinishBuild, LockIsHeld, Holding, AtWork, BuildsAreCurrent
  <2> QED
    BY <2>1, <2>3, <2>4 DEF ConvInv
<1>6. CASE BuildFails(r)
  <2>1. /\ ConvTyped' /\ RunsHaveThreads' /\ YesIsStored' /\ OneClaim'
        /\ InactiveProjectIsQuiet' /\ RunsMove
    BY <1>6, <1>0, PrepareKeeps DEF BuildFails, Before
  <2>2. LockIsHeld' /\ BuildsAreCurrent' /\ RunnerIsCurrent'
    BY <1>6, <1>0 DEF BuildFails, LockIsHeld, Holding, AtWork, BuildsAreCurrent, RunnerIsCurrent
  <2> QED
    BY <2>1, <2>2 DEF ConvInv
<1> QED
  BY <1>1, <1>2, <1>3, <1>4, <1>5, <1>6

\* A change of the configuration, with or without a cancelled Run.
LEMMA ConfigKeeps ==
  ASSUME ConvInv, RunsMove, RunnerTyped', BuildsAreCurrent', RunnerIsCurrent',
         UNCHANGED <<projects, asks, pc, gate, active, waiters, replies, granted>>,
         DOMAIN chat' = DOMAIN chat, DOMAIN caller' = DOMAIN caller,
         caller'.cancel \in Runs \cup {None}, caller'.victim \in Runs \cup {None}
  PROVE  ConvInv'
<1>1. AsksMove
  BY AsksKept
<1>2. ConvTyped'
  <2>2. /\ DOMAIN runs' = Runs /\ \A s \in Runs : RunRow(runs'[s])
        /\ gate' \in Runs \cup {None} /\ active' \in Runs \cup {None}
        /\ DOMAIN waiters' = Asks /\ DOMAIN replies' = Asks
        /\ DOMAIN pc' = Runs /\ \A s \in Runs : pc'[s] \in Steps
    BY DEF ConvInv, ConvTyped, RunsMove
  <2> QED
    BY <1>1, <2>2, TypesStay
<1>3. LockIsHeld'
  BY LockStays
<1>4. RunsHaveThreads'
  BY ThreadsStay
<1>5. YesIsStored'
  BY <1>1, YesStays
<1>6. OneClaim'
  BY <1>1, ClaimsStay
<1>7. InactiveProjectIsQuiet'
  BY QuietStays
<1> QED
  BY <1>2, <1>3, <1>4, <1>5, <1>6, <1>7 DEF ConvInv

LEMMA ConfigSteps ==
  ASSUME ConvInv,
         StartDelete \/ ArchiveConversation \/ Reconfigure \/ ForbidHost \/ SetSession
  PROVE  ConvInv' /\ RunsMove
<1>0. /\ DOMAIN chat = {"archived", "revision"} /\ active \in Runs \cup {None}
      /\ DOMAIN caller = {"cancel", "signal", "delete", "victim", "listed"}
      /\ caller.cancel \in Runs \cup {None} /\ caller.victim \in Runs \cup {None}
      /\ RunnerTyped /\ RunnerIsCurrent /\ LockIsHeld /\ BuildsAreCurrent
  BY DEF ConvInv, ConvTyped
<1>8. NoRunner.made = None /\ DOMAIN NoRunner = {"made", "stale"} /\ NoRunner.stale \in BOOLEAN
  BY DEF NoRunner
<1>1. ASSUME runner' = [runner EXCEPT !.cached = NoRunner, !.generation = @ + 1], pc' = pc
      PROVE  RunnerTyped' /\ BuildsAreCurrent' /\ RunnerIsCurrent'
  <2>1. /\ runner'.cached = NoRunner /\ runner'.version = runner.version
        /\ runner'.generation = runner.generation + 1 /\ runner'.seen = runner.seen
        /\ DOMAIN runner' = DOMAIN runner
    BY <1>0, <1>1 DEF RunnerTyped
  <2>2. RunnerTyped'
    BY <1>0, <1>8, <2>1 DEF RunnerTyped
  <2>3. BuildsAreCurrent'
    BY <1>0, <1>1, <2>1 DEF RunnerTyped, BuildsAreCurrent
  <2>4. RunnerIsCurrent'
    BY <1>8, <2>1 DEF RunnerIsCurrent
  <2> QED
    BY <2>2, <2>3, <2>4
<1>2. ASSUME pc' = pc,
             runner' = [runner EXCEPT
               !.generation = @ + 1, !.version = @ + 1,
               !.cached = IF @.made = None \/ ~Busy THEN NoRunner ELSE [@ EXCEPT !.stale = TRUE]]
      PROVE  RunnerTyped' /\ BuildsAreCurrent' /\ RunnerIsCurrent'
  BY <1>0, <1>2 DEF RunnerTyped, NoRunner, BuildsAreCurrent, RunnerIsCurrent
<1>3. CASE StartDelete
  BY <1>3, <1>0, <1>1, ConfigKeeps, RunsKept DEF StartDelete, stored
<1>4. CASE ArchiveConversation
  BY <1>4, <1>0, <1>1, ConfigKeeps, RunsKept DEF ArchiveConversation
<1>5. CASE Reconfigure
  BY <1>5, <1>0, <1>2, ConfigKeeps, RunsKept DEF Reconfigure, stored
<1>6. CASE ForbidHost
  <2>1. RunsMove
    BY <1>6, <1>0, RunTransition, RunsKept DEF ForbidHost, RunStatus, ActiveRun, Cancellable
  <2> QED
    BY <1>6, <1>0, <1>2, <2>1, ConfigKeeps DEF ForbidHost
<1>7. CASE SetSession
  <2>1. \A r \in Runs : pc[r] # "building"
    BY <1>7, <1>0, ConvConstants DEF SetSession, CanSet, LockIsHeld, Holding
  <2>3. /\ runner'.cached = NoRunner /\ runner'.version = runner.version + 1
        /\ runner'.generation = runner.generation /\ runner'.seen = runner.seen
        /\ DOMAIN runner' = DOMAIN runner /\ pc' = pc
    BY <1>0, <1>7 DEF SetSession, RunnerTyped
  <2>2. RunnerTyped' /\ BuildsAreCurrent' /\ RunnerIsCurrent'
    <3>1. RunnerTyped'
      BY <1>0, <1>8, <2>3 DEF RunnerTyped
    <3>2. BuildsAreCurrent' /\ RunnerIsCurrent'
      BY <1>8, <2>1, <2>3 DEF BuildsAreCurrent, RunnerIsCurrent
    <3> QED
      BY <3>1, <3>2
  <2> QED
    BY <1>7, <1>0, <2>2, ConfigKeeps, RunsKept DEF SetSession, stored
<1> QED
  BY <1>3, <1>4, <1>5, <1>6, <1>7

\* The Run is stored: its thread holds the lock, and the gates were just checked.
LEMMA CreateKeeps ==
  ASSUME ConvInv, NEW r \in Runs, CreateRun(r)
  PROVE  ConvInv'
<1>0. /\ DOMAIN pc = Runs /\ DOMAIN runs = Runs /\ RunRow(runs[r]) /\ pc[r] = "ready"
      /\ gate \in Runs \cup {None} /\ runs[r].status = "none"
  BY DEF CreateRun, ConvInv, ConvTyped, RunsHaveThreads, Before
<1> USE DEF CreateRun, Goes
<1>1. CASE Writable
  <2>1. /\ DOMAIN runs' = Runs /\ runs'[r].status = "running" /\ runs'[r].source = runs[r].source
        /\ RunRow(runs'[r]) /\ \A s \in Runs \ {r} : runs'[s] = runs[s]
    BY <1>0, <1>1 DEF Created, RunRow, RunStatus, ActiveRun
  <2>2. /\ DOMAIN pc' = Runs /\ pc'[r] = "created" /\ \A s \in Runs \ {r} : pc'[s] = pc[s]
        /\ gate' = gate /\ AsksMove
    BY <1>0, <1>1, AsksKept
  <2>3. ConvTyped'
    <3>1. \A s \in Runs : pc'[s] \in Steps /\ RunRow(runs'[s])
      BY <2>1, <2>2 DEF Steps, AtWork, ConvInv, ConvTyped
    <3>2. /\ active' \in Runs \cup {None} /\ DOMAIN waiters' = Asks /\ DOMAIN replies' = Asks
          /\ DOMAIN chat' = DOMAIN chat /\ DOMAIN projects' = DOMAIN projects
          /\ DOMAIN caller' = DOMAIN caller /\ runner' = runner
          /\ caller'.cancel \in Runs \cup {None} /\ caller'.victim \in Runs \cup {None}
      BY <1>1 DEF ConvInv, ConvTyped
    <3> QED
      BY <1>0, <2>1, <2>2, <3>1, <3>2, TypesStay
  <2>4. LockIsHeld'
    BY <1>0, <2>2, LockStays DEF Holding
  <2>5. RunsHaveThreads'
    BY <2>1, <2>2 DEF ConvInv, RunsHaveThreads, AtWork, Before
  <2>6. BuildsAreCurrent' /\ RunnerIsCurrent'
    BY <1>0, <1>1, <2>2, BuildsStay
  <2>7. YesIsStored'
    BY <1>1, <2>2, YesStays
  <2>8. OneClaim'
    <3>1. \A s \in Runs, a \in Asks : Claims(s, a)' => Claims(s, a)
      BY <1>0, <2>1, <2>2 DEF Claims
    <3>2. \A s \in Runs : runs'[s].status = "none" => runs[s].status = "none"
      BY <2>1
    <3> QED
      BY <1>1, <3>1, <3>2 DEF ConvInv, OneClaim
  <2>9. InactiveProjectIsQuiet'
    BY <1>1 DEF Writable, InactiveProjectIsQuiet
  <2> QED
    BY <2>3, <2>4, <2>5, <2>6, <2>7, <2>8, <2>9 DEF ConvInv
<1>2. CASE ~Writable
  <2>1. /\ ConvTyped' /\ RunsHaveThreads' /\ YesIsStored' /\ OneClaim'
        /\ InactiveProjectIsQuiet' /\ RunsMove
    BY <1>0, <1>2, PrepareKeeps DEF Before, stored
  <2>2. LockIsHeld' /\ BuildsAreCurrent' /\ RunnerIsCurrent'
    BY <1>0, <1>2
    DEF ConvInv, LockIsHeld, Holding, AtWork, BuildsAreCurrent, RunnerIsCurrent
  <2> QED
    BY <2>1, <2>2 DEF ConvInv
<1> QED
  BY <1>1, <1>2

LEMMA LeaveKeeps ==
  ASSUME ConvInv, NEW r \in Runs, Leave(r)
  PROVE  ConvInv' /\ RunsMove
<1>0. /\ DOMAIN pc = Runs /\ pc[r] = "leaving" /\ RunsMove /\ AsksMove
      /\ RunnerTyped /\ RunnerIsCurrent /\ BuildsAreCurrent
      /\ DOMAIN waiters = Asks /\ DOMAIN replies = Asks /\ active \in Runs \cup {None}
      /\ caller.cancel \in Runs \cup {None} /\ caller.victim \in Runs \cup {None}
  BY RunsKept, AsksKept DEF Leave, ConvInv, ConvTyped, stored
<1>1. /\ DOMAIN pc' = Runs /\ pc'[r] = "over" /\ \A s \in Runs \ {r} : pc'[s] = pc[s]
      /\ gate' = None /\ active' \in Runs \cup {None}
      /\ UNCHANGED <<stored, waiters, replies, granted, caller>>
  BY <1>0 DEF Leave, Goes
<1>2. RunnerTyped' /\ RunnerIsCurrent'
      /\ runner'.generation = runner.generation /\ runner'.version = runner.version
      /\ runner'.seen = runner.seen
  <2>1. NoRunner.made = None /\ DOMAIN NoRunner = {"made", "stale"} /\ NoRunner.stale \in BOOLEAN
    BY DEF NoRunner
  <2>2. CASE runner.cached.stale
    <3>1. /\ runner'.cached = NoRunner /\ runner'.version = runner.version
          /\ runner'.generation = runner.generation /\ runner'.seen = runner.seen
          /\ DOMAIN runner' = DOMAIN runner
      BY <1>0, <2>2 DEF Leave, RunnerTyped
    <3> QED
      BY <1>0, <2>1, <3>1 DEF RunnerTyped, RunnerIsCurrent
  <2>3. CASE ~runner.cached.stale
    BY <1>0, <2>3 DEF Leave, RunnerTyped, RunnerIsCurrent
  <2> QED
    BY <2>2, <2>3
<1>3. ConvTyped'
  <2>1. \A s \in Runs : pc'[s] \in Steps
    BY <1>0, <1>1 DEF Steps, ConvInv, ConvTyped
  <2>2. DOMAIN runs' = Runs /\ \A s \in Runs : RunRow(runs'[s])
    BY <1>0 DEF RunsMove
  <2> QED
    BY <1>0, <1>1, <1>2, <2>1, <2>2, TypesStay DEF stored
<1>4. LockIsHeld' /\ BuildsAreCurrent'
  <2>1. "leaving" \in Holding /\ "over" \notin Holding
    BY DEF Holding, AtWork
  <2>2. LockIsHeld'
    BY <1>0, <1>1, <2>1 DEF ConvInv, LockIsHeld
  <2>3. BuildsAreCurrent'
    BY <1>0, <1>1, <1>2 DEF BuildsAreCurrent
  <2> QED
    BY <2>2, <2>3
<1>5. RunsHaveThreads'
  BY <1>0, <1>1, ThreadsStay DEF AtWork, Before
<1>6. YesIsStored'
  BY <1>0, <1>1, YesStays
<1>7. OneClaim'
  BY <1>0, <1>1, ClaimsStay
<1>8. InactiveProjectIsQuiet'
  BY <1>0, <1>1, QuietStays DEF stored
<1> QED
  BY <1>0, <1>2, <1>3, <1>4, <1>5, <1>6, <1>7, <1>8 DEF ConvInv

\* The answer gets its message: no other Run claims it, and it is not routed again.
LEMMA RouteKeeps ==
  ASSUME ConvInv, NEW r \in Runs, NEW a \in Asks, RouteAnswer(a, r)
  PROVE  ConvInv'
<1>0. /\ DOMAIN pc = Runs /\ DOMAIN runs = Runs /\ RunRow(runs[r]) /\ pc[r] = "idle"
      /\ DOMAIN replies = Asks /\ gate' = gate /\ AsksMove
      /\ runs[r].status = "none" /\ runs[r].source = None
  BY AsksKept DEF RouteAnswer, ConvInv, ConvTyped, RunsHaveThreads, Before
<1>1. /\ DOMAIN runs' = Runs /\ runs'[r].status = "none" /\ runs'[r].source = a
      /\ RunRow(runs'[r]) /\ \A s \in Runs \ {r} : runs'[s] = runs[s]
  BY <1>0 DEF RouteAnswer, RunRow
<1>2. /\ DOMAIN pc' = Runs /\ pc'[r] = "queued" /\ \A s \in Runs \ {r} : pc'[s] = pc[s]
      /\ DOMAIN replies' = Asks /\ replies'[a] = "routed"
      /\ \A b \in Asks \ {a} : replies'[b] = replies[b]
  BY <1>0 DEF RouteAnswer, Goes, Replying
<1>3. ConvTyped'
  <2>1. \A s \in Runs : pc'[s] \in Steps /\ RunRow(runs'[s])
    BY <1>1, <1>2 DEF Steps, Before, ConvInv, ConvTyped
  <2>2. /\ active' \in Runs \cup {None} /\ DOMAIN waiters' = Asks /\ gate' \in Runs \cup {None}
        /\ DOMAIN chat' = DOMAIN chat /\ DOMAIN projects' = DOMAIN projects
        /\ DOMAIN caller' = DOMAIN caller /\ runner' = runner
        /\ caller'.cancel \in Runs \cup {None} /\ caller'.victim \in Runs \cup {None}
    BY DEF RouteAnswer, ConvInv, ConvTyped
  <2> QED
    BY <1>0, <1>1, <1>2, <2>1, <2>2, TypesStay
<1>4. LockIsHeld'
  BY <1>0, <1>2, LockStays DEF Holding, AtWork
<1>5. RunsHaveThreads'
  BY <1>0, <1>1, <1>2 DEF ConvInv, RunsHaveThreads, ActiveRun, Before
<1>6. BuildsAreCurrent' /\ RunnerIsCurrent'
  BY <1>2, BuildsStay DEF RouteAnswer
<1>7. YesIsStored'
  BY <1>0, <1>2, YesStays DEF RouteAnswer
<1>8. OneClaim'
  <2>1. \A s \in Runs \ {r}, b \in Asks : Claims(s, b)' <=> Claims(s, b)
    BY <1>1, <1>2 DEF Claims
  <2>2. \A s \in Runs : ~Claims(s, a)
    BY <1>0 DEF RouteAnswer, Continuation, Claims, ConvInv, OneClaim
  <2>3. \A b \in Asks : Claims(r, b)' => b = a
    BY <1>1 DEF Claims
  <2>4. replies[a] = "route" /\ asks' = asks
    BY DEF RouteAnswer
  <2> QED
    BY <1>0, <1>1, <1>2, <2>1, <2>2, <2>3, <2>4 DEF ConvInv, OneClaim
<1>9. InactiveProjectIsQuiet'
  BY <1>0, <1>1 DEF RouteAnswer, ConvInv, InactiveProjectIsQuiet, ActiveRun
<1> QED
  BY <1>3, <1>4, <1>5, <1>6, <1>7, <1>8, <1>9 DEF ConvInv

LEMMA RouteMoves ==
  ASSUME ConvInv, NEW r \in Runs, NEW a \in Asks, RouteAnswer(a, r)
  PROVE  \A s \in Runs : runs'[s].status = runs[s].status
  BY DEF RouteAnswer, ConvInv, ConvTyped, RunRow

\* The Project is left, or archived, while nothing works in it.
LEMMA ProjectSteps ==
  ASSUME ConvInv, NEW p, ActivateProject(p) \/ ArchiveProject
  PROVE  ConvInv' /\ RunsMove
<1>0. RunsMove /\ AsksMove
  BY RunsKept, AsksKept DEF ActivateProject, ArchiveProject
<1>1. /\ DOMAIN projects' = DOMAIN projects
      /\ UNCHANGED <<chat, runs, talk, asks, process, granted>>
  BY DEF ActivateProject, ArchiveProject, ConvInv, ConvTyped
<1>2. ConvTyped'
  BY <1>0, <1>1, TypesStay DEF process, ConvInv, ConvTyped
<1>3. LockIsHeld' /\ RunsHaveThreads' /\ BuildsAreCurrent' /\ RunnerIsCurrent'
  BY <1>0, <1>1, LockStays, ThreadsStay, BuildsStay DEF process
<1>4. YesIsStored' /\ OneClaim'
  BY <1>0, <1>1, YesStays, ClaimsStay DEF process
<1>5. InactiveProjectIsQuiet'
  <2>1. CASE projects.active = Home
    BY <1>0, <2>1, QuietStays DEF ActivateProject, ArchiveProject, WorkIn
  <2>2. CASE projects.active # Home
    BY <1>0, <2>2, QuietStays DEF ConvInv, InactiveProjectIsQuiet
  <2> QED
    BY <2>1, <2>2
<1> QED
  BY <1>0, <1>2, <1>3, <1>4, <1>5 DEF ConvInv

\* After a restart no thread is left and no Run is at work; what was answered is routed.
LEMMA RestartKeeps ==
  ASSUME ConvInv, Restart
  PROVE  ConvInv' /\ RunsMove
<1>0. RunsMove /\ AsksMove /\ \A r \in Runs : runs'[r].status \notin ActiveRun
  <2>1. ASSUME NEW r \in Runs
        PROVE  /\ RunRow(Interrupted(runs[r])) /\ Interrupted(runs[r]).source = runs[r].source
               /\ Interrupted(runs[r]).status = "none" <=> runs[r].status = "none"
               /\ Interrupted(runs[r]).status \notin ActiveRun
               /\ runs[r].status = "cancelling" => Interrupted(runs[r]).status = "cancelled"
    <3>1. RunRow(runs[r])
      BY DEF ConvInv, ConvTyped
    <3>2. CASE runs[r].status \in {"running", "waiting_input"}
      <4>1. Interrupted(runs[r]) = [runs[r] EXCEPT !.status = "failed"]
        BY <3>2 DEF Interrupted
      <4> QED
        BY <3>1, <3>2, <4>1 DEF RunRow, RunStatus, ActiveRun
    <3>3. CASE runs[r].status = "cancelling"
      <4>1. Interrupted(runs[r]) = [runs[r] EXCEPT !.status = "cancelled"]
        BY <3>3 DEF Interrupted
      <4> QED
        BY <3>1, <3>3, <4>1 DEF RunRow, RunStatus, ActiveRun
    <3>4. CASE runs[r].status \notin ActiveRun
      <4>1. Interrupted(runs[r]) = runs[r]
        BY <3>4 DEF Interrupted, ActiveRun
      <4> QED
        BY <3>1, <3>4, <4>1 DEF ActiveRun
    <3> QED
      BY <3>2, <3>3, <3>4 DEF ActiveRun
  <2>2. AsksMove /\ runs' = [r \in Runs |-> Interrupted(runs[r])]
    BY AsksKept DEF Restart
  <2> QED
    BY <2>1, <2>2 DEF RunsMove
<1>1. /\ DOMAIN pc' = Runs /\ gate' = None /\ active' = None /\ DOMAIN waiters' = Asks
      /\ \A r \in Runs : pc'[r] \in {"idle", "over"} /\ (pc'[r] = "idle" <=> pc[r] = "idle")
      /\ \A a \in Asks : waiters'[a] # "yes"
      /\ DOMAIN replies' = Asks
      /\ \A a \in Asks : replies'[a] = "route" => Settled(a)
      /\ UNCHANGED <<projects, chat, talk, asks, granted>>
      /\ caller' = [cancel |-> None, signal |-> {}, delete |-> "idle", victim |-> None,
                    listed |-> {}]
  BY DEF Restart, Unhandled, Settled
<1>2. /\ runner'.cached = NoRunner /\ runner'.version = runner.version
      /\ runner'.generation = runner.generation /\ runner'.seen = runner.seen
      /\ DOMAIN runner' = DOMAIN runner
  BY DEF Restart, ConvInv, ConvTyped, RunnerTyped
<1>3. RunnerTyped' /\ BuildsAreCurrent' /\ RunnerIsCurrent'
  <2>1. NoRunner.made = None /\ DOMAIN NoRunner = {"made", "stale"} /\ NoRunner.stale \in BOOLEAN
    BY DEF NoRunner
  <2>2. RunnerTyped'
    BY <1>2, <2>1 DEF ConvInv, ConvTyped, RunnerTyped
  <2>3. BuildsAreCurrent' /\ RunnerIsCurrent'
    BY <1>1, <1>2, <2>1 DEF BuildsAreCurrent, RunnerIsCurrent
  <2> QED
    BY <2>2, <2>3
<1>4. ConvTyped'
  <2>1. /\ DOMAIN runs' = Runs /\ \A r \in Runs : RunRow(runs'[r])
        /\ \A r \in Runs : pc'[r] \in Steps
    BY <1>0, <1>1 DEF RunsMove, Steps, Before
  <2>2. DOMAIN caller' = DOMAIN caller /\ caller'.cancel = None /\ caller'.victim = None
    BY <1>1 DEF ConvInv, ConvTyped
  <2> QED
    BY <1>0, <1>1, <1>3, <2>1, <2>2, TypesStay
<1>5. LockIsHeld' /\ RunsHaveThreads'
  <2>1. LockIsHeld'
    BY <1>1 DEF LockIsHeld, Holding, AtWork
  <2>2. RunsHaveThreads'
    BY <1>0, <1>1 DEF ConvInv, RunsHaveThreads, Before, RunsMove
  <2> QED
    BY <2>1, <2>2
<1>6. YesIsStored'
  BY <1>0, <1>1, YesStays
<1>7. OneClaim'
  <2>1. \A r \in Runs, a \in Asks : Claims(r, a)' => Claims(r, a) /\ runs'[r].status # "none"
    BY <1>0, <1>1, ConvConstants DEF RunsMove, Claims, ConvInv, RunsHaveThreads, Before
  <2> QED
    BY <1>1, <2>1 DEF ConvInv, OneClaim, Settled
<1>8. InactiveProjectIsQuiet'
  BY <1>0 DEF InactiveProjectIsQuiet
<1> QED
  BY <1>0, <1>3, <1>4, <1>5, <1>6, <1>7, <1>8 DEF ConvInv

-----------------------------------------------------------------------------
(* The theorems.                                                           *)

LEMMA ConvGood == ConvInit => ConvInv
<1> SUFFICES ASSUME ConvInit
             PROVE  ConvInv
  OBVIOUS
<1>1. /\ projects = [active |-> Home, archived |-> {}]
      /\ chat = [archived |-> FALSE, revision |-> 1]
      /\ runs = [r \in Runs |-> [status |-> "none", source |-> None]]
      /\ pc = [r \in Runs |-> "idle"] /\ gate = None /\ active = None
      /\ runner = [cached |-> NoRunner, generation |-> 0, version |-> 0,
                   seen |-> [r \in Runs |-> <<0, 0>>]]
      /\ waiters = [a \in Asks |-> "none"] /\ replies = [a \in Asks |-> "idle"]
      /\ granted = {}
      /\ caller = [cancel |-> None, signal |-> {}, delete |-> "idle", victim |-> None,
                   listed |-> {}]
  BY DEF ConvInit, NewProjects, NewChat
<1>2. DOMAIN asks = Asks /\ \A a \in Asks : AskRow(asks[a]) /\ ~asks[a].reply
  <2> DEFINE new == Pending(None, FALSE, 1)
  <2>1. /\ DOMAIN NoAsk = DOMAIN new
        /\ NoAsk.status = "none" /\ NoAsk.reply = FALSE
        /\ new.status = "pending" /\ new.reply = FALSE
    BY DEF NoAsk, Pending
  <2>2. DOMAIN asks = Asks /\ \A a \in Asks : asks[a] = NoAsk \/ asks[a] = new
    BY ZenonT(40) DEF ConvInit
  <2> HIDE DEF new
  <2>3. \A a \in Asks : DOMAIN asks[a] = DOMAIN NoAsk /\ asks[a].status \in {"none", "pending"}
                        /\ asks[a].reply = FALSE
    BY <2>1, <2>2
  <2> QED
    BY <2>2, <2>3 DEF AskRow, AskStatus
<1>3. RunnerTyped /\ RunnerIsCurrent
  BY <1>1 DEF RunnerTyped, RunnerIsCurrent, NoRunner
<1>4. ConvTyped
  BY <1>1, <1>2, <1>3 DEF ConvTyped, RunRow, RunStatus, Steps, Before
<1>5. LockIsHeld /\ RunsHaveThreads /\ BuildsAreCurrent /\ InactiveProjectIsQuiet
  BY <1>1 DEF LockIsHeld, Holding, AtWork, RunsHaveThreads, ActiveRun, BuildsAreCurrent,
              InactiveProjectIsQuiet
<1>6. YesIsStored /\ OneClaim
  BY <1>1, <1>2, ConvConstants DEF YesIsStored, OneClaim, Claims
<1> QED
  BY <1>3, <1>4, <1>5, <1>6 DEF ConvInv

LEMMA ConvIdle == ConvInv /\ UNCHANGED convVars => ConvInv' /\ RunsMove
<1> SUFFICES ASSUME ConvInv, UNCHANGED convVars
             PROVE  ConvInv' /\ RunsMove
  OBVIOUS
<1>1. RunsMove /\ AsksMove
  BY RunsKept, AsksKept DEF convVars, stored
<1>2. /\ \A a \in Asks : waiters'[a] = "yes" => waiters[a] = "yes"
      /\ \A a \in Asks : replies'[a] = "route" => replies[a] = "route"
      /\ DOMAIN waiters' = Asks /\ DOMAIN replies' = Asks /\ caller' = caller
      /\ DOMAIN chat' = DOMAIN chat
      /\ caller.cancel \in Runs \cup {None} /\ caller.victim \in Runs \cup {None}
      /\ UNCHANGED <<pc, gate, active, runner, projects, granted>>
  BY DEF convVars, stored, process, ConvInv, ConvTyped
<1> QED
  BY <1>1, <1>2, RequestKeeps

\* Everything but the creation of a Run and a claim keeps the rows of Runs in order.
LEMMA ThreadStep ==
  ASSUME ConvInv, NEW r \in Runs, RunStep(r) \/ Accept(r) \/ Interrupt(r) \/ StreamFails(r)
  PROVE  ConvInv' /\ (RunsMove \/ CreateRun(r))
<1>1. CASE \/ Accept(r) \/ Lock(r) \/ UseCached(r) \/ StartBuild(r) \/ FinishBuild(r)
           \/ BuildFails(r)
  BY <1>1, PrepareSteps
<1>2. CASE CreateRun(r)
  BY <1>2, CreateKeeps
<1>3. CASE Leave(r)
  BY <1>3, LeaveKeeps
<1>4. CASE \/ RegisterRun(r) \/ StreamEnds(r) \/ StreamFails(r) \/ Interrupt(r) \/ Continue(r)
           \/ FinishCompletedRun(r) \/ FinishFailedRun(r) \/ AppendReply(r)
  BY <1>4, WorkSteps
<1>5. CASE \E a \in Asks : \/ RequestApproval(r, a) \/ ListenForReply(r, a)
                           \/ HearReply(r, a) \/ TimeOut(r, a) \/ Abandon(r, a)
  <2>1. PICK a \in Asks : \/ RequestApproval(r, a) \/ ListenForReply(r, a)
                          \/ HearReply(r, a) \/ TimeOut(r, a) \/ Abandon(r, a)
    BY <1>5
  <2> QED
    BY <2>1, WorkSteps
<1> QED
  BY <1>1, <1>2, <1>3, <1>4, <1>5 DEF RunStep

LEMMA ConvMoves ==
  ASSUME ConvInv, ConvNext
  PROVE  /\ ConvInv'
         /\ \/ RunsMove
            \/ \E r \in Runs : CreateRun(r)
            \/ \E r \in Runs, a \in Asks : RouteAnswer(a, r)
<1>1. CASE \E r \in Runs : RunStep(r) \/ Accept(r) \/ Interrupt(r) \/ StreamFails(r)
  BY <1>1, ThreadStep
<1>2. CASE \E r \in Runs, a \in Asks : RouteAnswer(a, r)
  BY <1>2, RouteKeeps
<1>3. CASE \E r \in Runs, a \in Asks : AskQuestion(r, a)
  BY <1>3, RequestSteps
<1>4. CASE \E a \in Asks, yes \in BOOLEAN : ReplyOverSocket(a, yes) \/ ReplyStructured(a, yes)
  BY <1>4, RequestSteps
<1>5. CASE \E a \in Asks :
             CancelStructured(a) \/ WakeWaiter(a) \/ RouteFindsRun(a) \/ RouteFails(a)
  <2>1. PICK a \in Asks :
             CancelStructured(a) \/ WakeWaiter(a) \/ RouteFindsRun(a) \/ RouteFails(a)
    BY <1>5
  <2>2. TRUE \in BOOLEAN
    OBVIOUS
  <2> QED
    BY <2>1, <2>2, RequestSteps
<1>6. CASE \/ LookUpRun \/ (\E r \in Runs : HandleCancelRun(r)) \/ CancelRunByID
           \/ (\E r \in Runs : Signal(r)) \/ DeleteGivesUp
           \/ DeleteCancels \/ DeleteLists \/ DeleteSweeps \/ DeleteWakes \/ DeleteArchives
           \/ TaskRunStarts \/ TaskRunEnds
  <2>1. TRUE \in BOOLEAN
    OBVIOUS
  <2> QED
    BY <1>6, <2>1, RequestSteps
<1>7. CASE StartDelete \/ ArchiveConversation \/ Reconfigure \/ ForbidHost \/ SetSession
  BY <1>7, ConfigSteps
<1>8. CASE (\E p \in {Home, Away} : ActivateProject(p)) \/ ArchiveProject
  BY <1>8, ProjectSteps
<1>9. CASE Restart
  BY <1>9, RestartKeeps
<1> QED
  BY <1>1, <1>2, <1>3, <1>4, <1>5, <1>6, <1>7, <1>8, <1>9 DEF ConvNext

\* The invariant of a Conversation holds for any number of Runs and Interactions.
LEMMA ConvAlways == ConvSpec => []ConvInv
<1>1. ConvInv /\ [ConvNext]_convVars => ConvInv'
  BY ConvMoves, ConvIdle
<1> QED
  BY <1>1, ConvGood, PTL DEF ConvSpec

\* At most one Run of the Conversation is at work, because its thread holds the lock.
LEMMA OneAtWork == ConvInv => OneRunPerConversation
<1> SUFFICES ASSUME ConvInv
             PROVE  OneRunPerConversation
  OBVIOUS
<1> DEFINE S == {r \in Runs : runs[r].status \in ActiveRun}
<1>1. \A r \in S : r = gate
  BY DEF ConvInv, RunsHaveThreads, LockIsHeld, Holding
<1>2. CASE S = {}
  BY <1>2, FS_EmptySet DEF OneRunPerConversation
<1>3. CASE S # {}
  <2>1. S = {gate}
    BY <1>1, <1>3
  <2>2. Cardinality(S) = 1
    BY <2>1, FS_Singleton
  <2> QED
    BY <2>2 DEF OneRunPerConversation
<1> QED
  BY <1>2, <1>3

LEMMA ClaimedOnce == ConvInv => AnsweredOnce
<1> SUFFICES ASSUME ConvInv, NEW a \in Asks
             PROVE  Cardinality(Continuation(a)) <= 1
  BY DEF AnsweredOnce
<1> DEFINE S == Continuation(a)
<1>1. \A r, s \in S : r = s
  BY DEF Continuation, ConvInv, OneClaim, Claims
<1>2. CASE S = {}
  BY <1>2, FS_EmptySet
<1>3. CASE S # {}
  <2>1. PICK r \in S : TRUE
    BY <1>3
  <2>2. S = {r}
    BY <1>1, <2>1
  <2>3. Cardinality(S) = 1
    BY <2>2, FS_Singleton
  <2> QED
    BY <2>3
<1> QED
  BY <1>2, <1>3

\* ConversationIsExclusive: one Run per Conversation, none in a Project that is left or
\* archived, and a Runner that serves the configuration it was made from (handleMessageWithMode,
\* WithWritableConversation, runtimeForLocked).
THEOREM ConversationsAreExclusive == ConvSpec => []ConversationIsExclusive
<1>1. ConvInv => ConversationIsExclusive
  BY OneAtWork DEF ConversationIsExclusive, ConvInv
<1> QED
  BY <1>1, ConvAlways, PTL

\* AnswersCountOnce: a dangerous tool goes on only on a stored yes, and an answer is
\* continued by at most one Run, also when every unhandled answer is routed again.
THEOREM AnswersCount == ConvSpec => []AnswersCountOnce
<1>1. ConvInv => AnswersCountOnce
  BY ClaimedOnce DEF AnswersCountOnce, ApprovalIsGranted, ConvInv, YesIsStored, Approved
<1> QED
  BY <1>1, ConvAlways, PTL

\* CancelIsNotLost: from cancelling a Run only goes to cancelled or failed, however late
\* the model answers (the conditional UPDATE of the Run's row).
THEOREM CancellationsAreKept == ConvSpec => CancelIsNotLost
<1> DEFINE Kept == \A r \in Runs : runs[r].status = "cancelling"
                     => runs'[r].status \in {"cancelling", "cancelled", "failed"}
<1>1. ASSUME ConvInv, ConvNext
      PROVE  Kept
  <2>1. CASE RunsMove
    BY <2>1 DEF RunsMove
  <2>2. CASE \E r \in Runs : CreateRun(r)
    <3>1. PICK r \in Runs : CreateRun(r)
      BY <2>2
    <3>2. runs[r].status = "none" /\ \A s \in Runs \ {r} : runs'[s] = runs[s]
      <4>1. runs[r].status = "none" /\ DOMAIN runs = Runs
        BY <1>1, <3>1 DEF CreateRun, ConvInv, ConvTyped, RunsHaveThreads, Before
      <4>2. runs' = Created(r) \/ runs' = runs
        BY <3>1 DEF CreateRun
      <4> QED
        BY <4>1, <4>2 DEF Created
    <3> QED
      BY <3>2
  <2>3. CASE \E r \in Runs, a \in Asks : RouteAnswer(a, r)
    <3>1. \A s \in Runs : runs'[s].status = runs[s].status
      BY <1>1, <2>3, RouteMoves
    <3> QED
      BY <3>1
  <2> QED
    BY <1>1, <2>1, <2>2, <2>3, ConvMoves
<1>2. ConvInv /\ [ConvNext]_convVars => [Kept]_runs
  BY <1>1 DEF convVars, stored
<1> QED
  BY <1>2, ConvAlways, PTL DEF ConvSpec, CancelIsNotLost

=============================================================================
