----------------------------- MODULE Conversations -----------------------------
(***************************************************************************)
(* One Conversation of one user: the messages and the Runs they start      *)
(* (internal/agent/runtime), the tool approvals and the questions of an    *)
(* Agent (internal/interaction), and the Project that owns all of them     *)
(* (internal/store: project.go, chat.go, interaction.go).                  *)
(*                                                                         *)
(* A Run r is also the thread of handleMessageWithMode that carries it;    *)
(* pc[r] is where that thread stands.  Stored state (projects, chat, runs, *)
(* talk, asks) survives a restart of the Server, the rest does not.        *)
(***************************************************************************)
EXTENDS Naturals, FiniteSets

CONSTANTS Runs,       \* identities of Runs, each with the message it answers
          Asks,       \* identities of Interactions
          Home,       \* the Project of the Conversation
          Away,       \* the Default Project of the same user
          None,
          Disturbances, \* bound: how many outside events a behaviour contains
          Starts      \* histories: did an earlier Run ask, and events used up

ASSUME ConvConstants == /\ Home # Away
                        /\ None \notin Runs \cup Asks \cup {Home, Away}
                        /\ Disturbances \in Nat
                        /\ Starts \subseteq [asked : BOOLEAN, disturbed : 0 .. Disturbances]

VARIABLES projects,   \* store: the active Project and the archived ones
          chat,       \* store: the Conversation
          runs,       \* store: run_sessions
          talk,       \* store: chat_messages
          asks,       \* store: interactions
          pc,         \* where the thread of a Run stands
          gate,       \* sessionLocks: the thread that holds the Conversation
          active,     \* activeRuns: the Run registered for the Conversation
          taskRun,    \* activeRuns: is a Task's Run of this Conversation registered
          stopped,    \* Runs whose context has been cancelled
          runner,     \* the cached Runner: [made, stale], generation, version, seen
          waiters,    \* the answer channel of an Interaction
          replies,    \* where the request that resolves an Interaction stands
          granted,    \* Runs that went on with a dangerous tool
          caller,     \* the cancel request and the delete request under way
          disturbed   \* outside events so far

stored == <<projects, chat, runs, talk, asks>>
process == <<pc, gate, active, taskRun, stopped, runner, waiters, replies, caller>>
convVars == <<stored, process, granted, disturbed>>

ActiveRun == {"running", "waiting_input", "cancelling"}
NoAsk == [status |-> "none", run |-> None, approval |-> FALSE, reply |-> FALSE,
          handled |-> FALSE, revision |-> 0]
NoRunner == [made |-> None, stale |-> FALSE]

\* CreateInteraction: a new row is pending and bound to the Run that asks.
Pending(r, approval, revision) ==
  [NoAsk EXCEPT !.status = "pending", !.run = r, !.approval = approval, !.revision = revision]

\* CreateProject, activateIfNoneTx: the first Project becomes the active one.
NewProjects == [active |-> Home, archived |-> {}]

\* CreateChatSession: in the active Project, at revision 1.
NewChat == [archived |-> FALSE, revision |-> 1]

\* State of the tables and of the Service after NewService: a new Conversation, or one
\* whose earlier Run asked a question and ended.
ConvInit == \E s \in Starts :
  /\ projects = NewProjects
  /\ chat = NewChat
  /\ runs = [r \in Runs |-> [status |-> "none", source |-> None]]
  /\ talk = {}
  /\ asks = [a \in Asks |-> IF s.asked THEN Pending(None, FALSE, 1) ELSE NoAsk]
  /\ pc = [r \in Runs |-> "idle"]
  /\ gate = None
  /\ active = None
  /\ taskRun = FALSE
  /\ stopped = {}
  /\ runner = [cached |-> NoRunner, generation |-> 0, version |-> 0,
               seen |-> [r \in Runs |-> <<0, 0>>]]
  /\ waiters = [a \in Asks |-> "none"]
  /\ replies = [a \in Asks |-> "idle"]
  /\ granted = {}
  /\ caller = [cancel |-> None, signal |-> {}, delete |-> "idle", victim |-> None, listed |-> {}]
  /\ disturbed = s.disturbed

Disturb == /\ disturbed < Disturbances
           /\ disturbed' = disturbed + 1

-----------------------------------------------------------------------------
(* The store.                                                              *)

\* requireWritableConversation: neither the Conversation nor its Project is
\* archived, and the Project is the active one.
Writable == /\ ~chat.archived
            /\ Home \notin projects.archived
            /\ projects.active = Home

WorkIn(p) == /\ p = Home
             /\ \/ \E r \in Runs : runs[r].status \in ActiveRun
                \/ \E a \in Asks : asks[a].status = "pending"

\* The conditional UPDATE of a Run: it takes effect from one of the given states.
Transitioned(r, from, to) ==
  IF runs[r].status \in from THEN [runs EXCEPT ![r].status = to] ELSE runs

CanTransition(r, from) == runs[r].status \in from

\* CreateRunSession: the Run is stored as running.
Created(r) == [runs EXCEPT ![r].status = "running"]

\* AppendChatMessage.
Said(r, who) == talk \cup {<<r, who>>}

\* MarkInterruptedRuns, at the start of a Server.
Interrupted(run) ==
  CASE run.status \in {"running", "waiting_input"} -> [run EXCEPT !.status = "failed"]
    [] run.status = "cancelling" -> [run EXCEPT !.status = "cancelled"]
    [] OTHER -> run

\* finalizeInteraction and AnswerInteraction: only a pending Interaction moves.
Resolved(a, to, yes) ==
  IF asks[a].status = "pending"
  THEN [asks EXCEPT ![a] = [@ EXCEPT !.status = to, !.reply = yes]]
  ELSE asks

\* ActivateProject refuses while the Project it leaves has unfinished work.
ActivateProject(p) ==
  /\ Disturb
  /\ projects.active # p
  /\ p \notin projects.archived
  /\ ~WorkIn(projects.active)
  /\ projects' = [projects EXCEPT !.active = p]
  /\ UNCHANGED <<chat, runs, talk, asks, process, granted>>

\* ArchiveProject: the Project must be quiet and is not the Default Project,
\* which then becomes the active one.
ArchiveProject ==
  /\ Disturb
  /\ Home \notin projects.archived
  /\ ~WorkIn(Home)
  /\ projects' = [active |-> Away, archived |-> {Home}]
  /\ UNCHANGED <<chat, runs, talk, asks, process, granted>>

\* ArchiveConversation, the strict form used by Studio.  The eviction that
\* follows finds no Run: the cache is dropped.
ArchiveConversation ==
  /\ Disturb
  /\ Writable
  /\ ~WorkIn(Home)
  /\ chat' = [chat EXCEPT !.archived = TRUE]
  /\ runner' = [runner EXCEPT !.cached = NoRunner, !.generation = @ + 1]
  /\ UNCHANGED <<projects, runs, talk, asks, pc, gate, active, taskRun, stopped,
                 waiters, replies, caller, granted>>

-----------------------------------------------------------------------------
(* The thread of a message: handleMessageWithMode.                         *)

Goes(r, step) == pc' = [pc EXCEPT ![r] = step]

\* requireWritableSession: what loadOrCreateSession asks of a Conversation.
WritableSession == Writable

\* Validation, attachments, recipient and the first check of the gates, before
\* the thread queues for the Conversation.
Accept(r) ==
  /\ pc[r] = "idle"
  /\ WritableSession
  /\ Goes(r, "queued")
  /\ UNCHANGED <<stored, gate, active, taskRun, stopped, runner, waiters, replies,
                 caller, granted, disturbed>>

LockWithoutGate(r) ==
  /\ pc[r] = "queued"
  /\ gate' = r
  /\ Goes(r, "locked")
  /\ UNCHANGED <<stored, active, taskRun, stopped, runner, waiters, replies, caller,
                 granted, disturbed>>

Lock(r) ==
  /\ pc[r] = "queued"
  /\ gate = None
  /\ gate' = r
  /\ Goes(r, "locked")
  /\ UNCHANGED <<stored, active, taskRun, stopped, runner, waiters, replies, caller,
                 granted, disturbed>>

\* runtimeForLocked with a cached Runner.
UseCached(r) ==
  /\ pc[r] = "locked"
  /\ runner.cached.made # None
  /\ Goes(r, "ready")
  /\ UNCHANGED <<stored, gate, active, taskRun, stopped, runner, waiters, replies,
                 caller, granted, disturbed>>

\* runtimeForLocked without one: the generation and the configuration are read
\* under s.mu, the Runner is built outside it.
StartBuild(r) ==
  /\ pc[r] = "locked"
  /\ runner.cached.made = None
  /\ runner' = [runner EXCEPT !.seen[r] = <<runner.generation, runner.version>>]
  /\ Goes(r, "building")
  /\ UNCHANGED <<stored, gate, active, taskRun, stopped, waiters, replies, caller,
                 granted, disturbed>>

AnyBuildIsCurrent(r) == TRUE

\* A Runner assembled from an older generation is thrown away and built again.
IsCurrentBuild(r) == runner.seen[r][1] = runner.generation

\* buildConversationAgentRuntime: made from the model, the tools, the Skills and the
\* policy as they were when the build began.
BuiltRunner(r) == [made |-> runner.seen[r][2], stale |-> FALSE]

FinishBuild(r) ==
  /\ pc[r] = "building"
  /\ IF IsCurrentBuild(r)
     THEN /\ runner' = [runner EXCEPT !.cached = BuiltRunner(r)]
          /\ Goes(r, "ready")
     ELSE /\ Goes(r, "locked")
          /\ UNCHANGED runner
  /\ UNCHANGED <<stored, gate, active, taskRun, stopped, waiters, replies, caller,
                 granted, disturbed>>

\* A model, tool or skill that cannot be assembled ends the request.
BuildFails(r) ==
  /\ pc[r] = "building"
  /\ Goes(r, "over")
  /\ gate' = None
  /\ UNCHANGED <<stored, active, taskRun, stopped, runner, waiters, replies, caller,
                 granted, disturbed>>

CreateRunUnchecked(r) ==
  /\ pc[r] = "ready"
  /\ talk' = Said(r, "user")
  /\ chat' = [chat EXCEPT !.revision = @ + 1]
  /\ runs' = Created(r)
  /\ Goes(r, "created")
  /\ UNCHANGED <<projects, asks, active, taskRun, stopped, runner, waiters, replies,
                 caller, granted, disturbed, gate>>

\* WithWritableConversation: the gates are checked again and the message and
\* the Run are written, all under projectWriteMu.
CreateRun(r) ==
  /\ pc[r] = "ready"
  /\ IF Writable
     THEN /\ talk' = Said(r, "user")
          /\ chat' = [chat EXCEPT !.revision = @ + 1]
          /\ runs' = Created(r)
          /\ Goes(r, "created")
          /\ UNCHANGED gate
     ELSE /\ Goes(r, "over")
          /\ gate' = None
          /\ UNCHANGED <<talk, chat, runs>>
  /\ UNCHANGED <<projects, asks, active, taskRun, stopped, runner, waiters, replies,
                 caller, granted, disturbed>>

RegisterRun(r) ==
  /\ pc[r] = "created"
  /\ active' = r
  /\ Goes(r, "working")
  /\ UNCHANGED <<stored, gate, taskRun, stopped, runner, waiters, replies, caller,
                 granted, disturbed>>

-----------------------------------------------------------------------------
(* The Run at work: run and awaitApproval.                                 *)

\* The event stream ends: with a final answer, also one that races the signal,
\* or with an error (the cancelled context here, the model or a tool below).
StreamEnds(r) ==
  /\ pc[r] = "working"
  /\ \E end \in {"completing", "failing"} : /\ end = "failing" => r \in stopped
                                            /\ Goes(r, end)
  /\ UNCHANGED <<stored, gate, active, taskRun, stopped, runner, waiters, replies,
                 caller, granted, disturbed>>

StreamFails(r) ==
  /\ pc[r] = "working"
  /\ r \notin stopped
  /\ Disturb
  /\ Goes(r, "failing")
  /\ UNCHANGED <<stored, gate, active, taskRun, stopped, runner, waiters, replies,
                 caller, granted>>

\* A dangerous tool interrupts the stream: running -> waiting_input, refused
\* when the Run is already cancelling.
Interrupt(r) ==
  /\ pc[r] = "working"
  /\ r \notin stopped
  /\ \E a \in Asks : asks[a].status = "none"
  /\ runs' = Transitioned(r, {"running"}, "waiting_input")
  /\ Goes(r, IF CanTransition(r, {"running"}) THEN "asking" ELSE "failing")
  /\ UNCHANGED <<projects, chat, talk, asks, gate, active, taskRun, stopped, runner,
                 waiters, replies, caller, granted, disturbed>>

\* interaction.Request: first the pending row ...
RequestApproval(r, a) ==
  /\ pc[r] = "asking"
  /\ asks[a].status = "none"
  /\ asks' = [asks EXCEPT ![a] = Pending(r, TRUE, 0)]
  /\ Goes(r, "registering")
  /\ UNCHANGED <<projects, chat, runs, talk, gate, active, taskRun, stopped, runner,
                 waiters, replies, caller, granted, disturbed>>

AsksOf(r) == {a \in Asks : asks[a].run = r /\ asks[a].approval}

\* ... then the channel.  An answer may already be stored by now.
ListenForReply(r, a) ==
  /\ pc[r] = "registering"
  /\ a \in AsksOf(r)
  /\ waiters[a] = "none"
  /\ \A b \in AsksOf(r) \ {a} : waiters[b] = "closed"
  /\ waiters' = [waiters EXCEPT ![a] = "open"]
  /\ Goes(r, "listening")
  /\ UNCHANGED <<stored, gate, active, taskRun, stopped, runner, replies, caller,
                 granted, disturbed>>

Listens(r, a) == /\ pc[r] = "listening"
                 /\ a \in AsksOf(r)
                 /\ waiters[a] \in {"open", "yes", "no"}

Hears(r, a, yes) ==
  /\ waiters' = [waiters EXCEPT ![a] = "closed"]
  /\ Goes(r, IF yes THEN "approved" ELSE "denied")
  /\ UNCHANGED <<projects, chat, runs, talk, gate, active, taskRun, stopped, runner,
                 replies, caller, granted, disturbed>>

\* The channel delivers the answer, or the refusal of a cancelled session.
HearReply(r, a) ==
  /\ Listens(r, a)
  /\ waiters[a] \in {"yes", "no"}
  /\ Hears(r, a, waiters[a] = "yes")
  /\ UNCHANGED asks

TimedOutReply(a) == asks[a].reply \/ asks[a].status = "pending"

\* The timeout: the row expires, unless an answer is stored, which then counts.
TimedOutAnswer(a) == asks[a].status = "answered" /\ asks[a].reply

TimeOut(r, a) ==
  /\ Listens(r, a)
  /\ asks' = Resolved(a, "expired", FALSE)
  /\ Hears(r, a, TimedOutAnswer(a))

\* The context is cancelled while the thread listens.
Abandon(r, a) ==
  /\ Listens(r, a)
  /\ r \in stopped
  /\ asks' = Resolved(a, "cancelled", FALSE)
  /\ waiters' = [waiters EXCEPT ![a] = "closed"]
  /\ Goes(r, "failing")
  /\ UNCHANGED <<projects, chat, runs, talk, gate, active, taskRun, stopped, runner,
                 replies, caller, granted, disturbed>>

\* waiting_input -> running, then Resume from the checkpoint with the verdict.
Continue(r) ==
  /\ pc[r] \in {"approved", "denied"}
  /\ runs' = Transitioned(r, {"waiting_input"}, "running")
  /\ IF CanTransition(r, {"waiting_input"})
     THEN /\ Goes(r, "working")
          /\ granted' = IF pc[r] = "approved" THEN granted \cup {r} ELSE granted
     ELSE /\ Goes(r, "failing")
          /\ UNCHANGED granted
  /\ UNCHANGED <<projects, chat, talk, asks, gate, active, taskRun, stopped, runner,
                 waiters, replies, caller, disturbed>>

\* A stored request for an answer: only the active Project takes one.
CreateStructured(r, a) ==
  /\ asks[a].status = "none"
  /\ Home \notin projects.archived /\ projects.active = Home
  /\ asks' = [asks EXCEPT ![a] = Pending(r, FALSE, chat.revision)]

\* interaction.ask: CreateAgentQuestion stores a question bound to the revision
\* of the Conversation; the Run does not wait for it.
AskQuestion(r, a) ==
  /\ pc[r] = "working"
  /\ r \notin stopped
  /\ runs[r].status = "running"
  /\ CreateStructured(r, a)
  /\ UNCHANGED <<projects, chat, runs, talk, process, granted, disturbed>>

-----------------------------------------------------------------------------
(* The end of a Run: finishRun and finishCompletedRun.                     *)

AlwaysCompleted(r) == "completed"

\* A completed answer that meets a stored cancellation ends as cancelled.
CompletedStatus(r) == IF runs[r].status = "cancelling" THEN "cancelled" ELSE "completed"

FinishCompletedRun(r) ==
  /\ pc[r] = "completing"
  /\ runs' = Transitioned(r, ActiveRun, CompletedStatus(r))
  /\ Goes(r, "replying")
  /\ UNCHANGED <<projects, chat, talk, asks, gate, active, taskRun, stopped, runner,
                 waiters, replies, caller, granted, disturbed>>

FinishFailedRun(r) ==
  /\ pc[r] = "failing"
  /\ runs' = Transitioned(r, ActiveRun, IF r \in stopped THEN "cancelled" ELSE "failed")
  /\ Goes(r, "replying")
  /\ UNCHANGED <<projects, chat, talk, asks, gate, active, taskRun, stopped, runner,
                 waiters, replies, caller, granted, disturbed>>

\* The Assistant message is written after the status: a crash may lose it.
AppendReply(r) ==
  /\ pc[r] = "replying"
  /\ talk' = Said(r, "assistant")
  /\ Goes(r, "leaving")
  /\ UNCHANGED <<projects, chat, runs, asks, gate, active, taskRun, stopped, runner,
                 waiters, replies, caller, granted, disturbed>>

LeaveTheGateAlone(r) ==
  /\ pc[r] = "leaving"
  /\ active' = IF active = r THEN None ELSE active
  /\ runner' = IF runner.cached.stale THEN [runner EXCEPT !.cached = NoRunner] ELSE runner
  /\ Goes(r, "over")
  /\ UNCHANGED <<stored, taskRun, stopped, waiters, replies, caller, granted, disturbed, gate>>

\* The deferred clean-up: activeRuns, the stale Runner, the lock.
Leave(r) ==
  /\ pc[r] = "leaving"
  /\ active' = IF active = r THEN None ELSE active
  /\ runner' = IF runner.cached.stale THEN [runner EXCEPT !.cached = NoRunner] ELSE runner
  /\ gate' = None
  /\ Goes(r, "over")
  /\ UNCHANGED <<stored, taskRun, stopped, waiters, replies, caller, granted, disturbed>>

-----------------------------------------------------------------------------
(* Cancelling: CancelRun, SetHostExecutionAllowed, EvictSession.           *)

Cancellable == {"running", "waiting_input"}

\* CancelRun reads the registered Run ...
LookUpRun ==
  /\ Disturb
  /\ active # None
  /\ caller.cancel = None
  /\ caller' = [caller EXCEPT !.cancel = active]
  /\ UNCHANGED <<stored, pc, gate, active, taskRun, stopped, runner, waiters, replies,
                 granted>>

\* HandleCancelRun names the Run instead: any stored Run, also one that is over.
HandleCancelRun(r) ==
  /\ Disturb
  /\ runs[r].status # "none"
  /\ caller.cancel = None
  /\ caller' = [caller EXCEPT !.cancel = r]
  /\ UNCHANGED <<stored, pc, gate, active, taskRun, stopped, runner, waiters, replies,
                 granted>>

\* ... and CancelRunByID moves exactly that Run, if it is still registered and
\* not over ...
CancelRunByID ==
  /\ caller.cancel # None
  /\ LET r == caller.cancel IN
       IF active = r /\ CanTransition(r, Cancellable)
       THEN /\ runs' = Transitioned(r, Cancellable, "cancelling")
            /\ caller' = [caller EXCEPT !.cancel = None, !.signal = @ \cup {r}]
       ELSE /\ caller' = [caller EXCEPT !.cancel = None]
            /\ UNCHANGED runs
  /\ UNCHANGED <<projects, chat, talk, asks, pc, gate, active, taskRun, stopped, runner,
                 waiters, replies, granted, disturbed>>

\* ... before it cancels the context: the Run may go on in between.
Signal(r) ==
  /\ r \in caller.signal
  /\ stopped' = stopped \cup {r}
  /\ caller' = [caller EXCEPT !.signal = @ \ {r}]
  /\ UNCHANGED <<stored, pc, gate, active, taskRun, runner, waiters, replies, granted,
                 disturbed>>

\* HandleDeleteSession -> EvictSession: the cache goes first.
StartDelete ==
  /\ Disturb
  /\ caller.delete = "idle"
  /\ ~chat.archived
  /\ caller' = [caller EXCEPT !.delete = "cancel", !.victim = active]
  /\ runner' = [runner EXCEPT !.cached = NoRunner, !.generation = @ + 1]
  /\ UNCHANGED <<stored, pc, gate, active, taskRun, stopped, waiters, replies, granted>>

\* cancelActiveRun: the signal is sent whether or not the status still moves.
DeleteCancels ==
  /\ caller.delete = "cancel"
  /\ LET r == caller.victim IN
       IF r # None
       THEN /\ runs' = Transitioned(r, Cancellable, "cancelling")
            /\ stopped' = stopped \cup {r}
       ELSE UNCHANGED <<runs, stopped>>
  /\ caller' = [caller EXCEPT !.delete = "list"]
  /\ UNCHANGED <<projects, chat, talk, asks, pc, gate, active, taskRun, runner, waiters,
                 replies, granted, disturbed>>

\* CancelSession lists the pending Interactions, cancels what is still pending
\* and wakes the threads of everything it listed.
DeleteLists ==
  /\ caller.delete = "list"
  /\ caller' = [caller EXCEPT !.delete = "sweep",
                              !.listed = {a \in Asks : asks[a].status = "pending"}]
  /\ UNCHANGED <<stored, pc, gate, active, taskRun, stopped, runner, waiters, replies,
                 granted, disturbed>>

DeleteSweeps ==
  /\ caller.delete = "sweep"
  /\ asks' = [a \in Asks |-> IF caller.listed # {} /\ asks[a].status = "pending"
                             THEN [asks[a] EXCEPT !.status = "cancelled"] ELSE asks[a]]
  /\ caller' = [caller EXCEPT !.delete = "wake"]
  /\ UNCHANGED <<projects, chat, runs, talk, pc, gate, active, taskRun, stopped, runner,
                 waiters, replies, granted, disturbed>>

DeleteWakes ==
  /\ caller.delete = "wake"
  /\ waiters' = [a \in Asks |-> IF a \in caller.listed /\ waiters[a] = "open"
                                THEN "no" ELSE waiters[a]]
  /\ caller' = [caller EXCEPT !.delete = "await", !.listed = {}]
  /\ UNCHANGED <<stored, pc, gate, active, taskRun, stopped, runner, replies, granted,
                 disturbed>>

\* It waits until the cancelled Run is done, then archives without further checks.
DeleteArchives ==
  /\ caller.delete = "await"
  /\ caller.victim # None => pc[caller.victim] \in {"leaving", "over"}
  /\ chat' = [chat EXCEPT !.archived = TRUE]
  /\ caller' = [caller EXCEPT !.delete = "idle", !.victim = None]
  /\ UNCHANGED <<projects, runs, talk, asks, pc, gate, active, taskRun, stopped, runner,
                 waiters, replies, granted, disturbed>>

\* The request waits ten seconds at most.
DeleteGivesUp ==
  /\ Disturb
  /\ caller.delete = "await"
  /\ caller.victim # None
  /\ caller' = [caller EXCEPT !.delete = "idle", !.victim = None]
  /\ UNCHANGED <<stored, pc, gate, active, taskRun, stopped, runner, waiters, replies,
                 granted>>

-----------------------------------------------------------------------------
(* Configuration of the Conversation.                                      *)

Busy == active # None \/ taskRun

\* invalidateModelRuntimesLocked: SetProfiles, SetHostExecutionAllowed(true),
\* InvalidateModelRuntimes.
Reconfigure ==
  /\ Disturb
  /\ runner' = [runner EXCEPT
        !.generation = @ + 1, !.version = @ + 1,
        !.cached = IF @.made = None \/ ~Busy THEN NoRunner ELSE [@ EXCEPT !.stale = TRUE]]
  /\ UNCHANGED <<stored, pc, gate, active, taskRun, stopped, waiters, replies, caller,
                 granted>>

\* SetHostExecutionAllowed(false) also cancels what runs.
ForbidHost ==
  /\ Disturb
  /\ runner' = [runner EXCEPT
        !.generation = @ + 1, !.version = @ + 1,
        !.cached = IF @.made = None \/ ~Busy THEN NoRunner ELSE [@ EXCEPT !.stale = TRUE]]
  /\ IF active # None
     THEN /\ runs' = Transitioned(active, Cancellable, "cancelling")
          /\ stopped' = stopped \cup {active}
     ELSE UNCHANGED <<runs, stopped>>
  /\ UNCHANGED <<projects, chat, talk, asks, pc, gate, active, taskRun, waiters, replies,
                 caller, granted>>

\* sessionBusy, and TryLock on the lock of the Conversation.
CanSet == gate = None /\ ~Busy

\* SetSessionAgentModel; SetSessionExecutionPolicy is of the same form.
SetSession ==
  /\ Disturb
  /\ CanSet
  /\ Writable
  /\ runner' = [runner EXCEPT !.version = @ + 1, !.cached = NoRunner]
  /\ UNCHANGED <<stored, pc, gate, active, taskRun, stopped, waiters, replies, caller,
                 granted>>

\* registerPurposeRun and its release, for a Task of this Conversation.
TaskRunStarts ==
  /\ Disturb
  /\ ~taskRun
  /\ taskRun' = TRUE
  /\ UNCHANGED <<stored, pc, gate, active, stopped, runner, waiters, replies, caller,
                 granted>>

TaskRunEnds ==
  /\ taskRun
  /\ taskRun' = FALSE
  /\ UNCHANGED <<stored, pc, gate, active, stopped, runner, waiters, replies, caller,
                 granted, disturbed>>

-----------------------------------------------------------------------------
(* Answers: Reply, ReplyStructured, CancelStructured and their routing.    *)

Replying(a, step) == replies' = [replies EXCEPT ![a] = step]

\* AuthorizeReply: an Interaction of this Conversation, of whatever status.
AuthorizeReply(a) == asks[a].status # "none"

\* Reply, over the old chat socket: an approval, at revision 0.
ReplyOverSocket(a, yes) ==
  /\ AuthorizeReply(a)
  /\ asks[a].status = "pending"
  /\ asks[a].approval
  /\ asks' = Resolved(a, "answered", yes)
  /\ Replying(a, "socket")
  /\ UNCHANGED <<projects, chat, runs, talk, pc, gate, active, taskRun, stopped, runner,
                 waiters, caller, granted, disturbed>>

\* validateStructuredResources: a question must still belong to the current
\* revision of the Conversation.  A response outside the candidates or of another
\* generation of the map is refused and changes nothing.
Answerable(a) == asks[a].approval \/ asks[a].revision = chat.revision

\* ReplyStructured: the Project must be writable.
ReplyStructured(a, yes) ==
  /\ asks[a].status = "pending"
  /\ Home \notin projects.archived /\ projects.active = Home
  /\ Answerable(a)
  /\ asks' = Resolved(a, "answered", yes)
  /\ Replying(a, IF asks[a].approval THEN "approval" ELSE "route")
  /\ UNCHANGED <<projects, chat, runs, talk, pc, gate, active, taskRun, stopped, runner,
                 waiters, caller, granted, disturbed>>

CancelStructured(a) ==
  /\ asks[a].status = "pending"
  /\ ~asks[a].approval
  /\ Home \notin projects.archived /\ projects.active = Home
  /\ asks' = Resolved(a, "cancelled", FALSE)
  /\ Replying(a, "route")
  /\ UNCHANGED <<projects, chat, runs, talk, pc, gate, active, taskRun, stopped, runner,
                 waiters, caller, granted, disturbed>>

\* The answer is stored; now the thread that listens is woken.  Only the REST
\* path marks an approval as handled.
WakeWaiter(a) ==
  /\ replies[a] \in {"socket", "approval"}
  /\ waiters' = [waiters EXCEPT ![a] = IF @ = "open"
                                       THEN IF asks[a].reply THEN "yes" ELSE "no" ELSE @]
  /\ asks' = [asks EXCEPT ![a].handled = (replies[a] = "approval")]
  /\ Replying(a, "idle")
  /\ UNCHANGED <<projects, chat, runs, talk, pc, gate, active, taskRun, stopped, runner,
                 caller, granted, disturbed>>

Continuation(a) == {r \in Runs : runs[r].source = a /\ runs[r].status # "none"}

RouteAnswerAgain(a, r) ==
  /\ replies[a] = "route"
  /\ Writable
  /\ pc[r] = "idle"
  /\ runs' = [runs EXCEPT ![r].source = a]
  /\ Goes(r, "queued")
  /\ Replying(a, "routed")
  /\ UNCHANGED <<projects, chat, talk, asks, gate, active, taskRun, stopped, runner,
                 waiters, caller, granted, disturbed>>

\* ResumeConversationInteraction looks for the Run of this answer; without one
\* it starts a message of its own.
RouteAnswer(a, r) ==
  /\ replies[a] = "route"
  /\ Continuation(a) = {}
  /\ Writable
  /\ pc[r] = "idle"
  /\ runs' = [runs EXCEPT ![r].source = a]
  /\ Goes(r, "queued")
  /\ Replying(a, "routed")
  /\ UNCHANGED <<projects, chat, talk, asks, gate, active, taskRun, stopped, runner,
                 waiters, caller, granted, disturbed>>

\* The Run exists: an ended one without success needs an explicit resume
\* (ErrContinuationInterrupted), otherwise the answer is handled.
RouteFindsRun(a) ==
  /\ replies[a] \in {"route", "routed"}
  /\ Continuation(a) # {}
  /\ asks' = [asks EXCEPT ![a].handled = \/ replies[a] = "routed"
                                         \/ \E r \in Continuation(a) : runs[r].status
                                              \in {"running", "waiting_input", "completed"}]
  /\ Replying(a, "idle")
  /\ UNCHANGED <<projects, chat, runs, talk, pc, gate, active, taskRun, stopped, runner,
                 waiters, caller, granted, disturbed>>

\* The Conversation is closed, or the new thread ended before its Run existed:
\* the error is recorded and the answer stays unhandled.
RouteFails(a) ==
  /\ \/ replies[a] = "route" /\ Continuation(a) = {} /\ ~Writable
     \/ replies[a] = "routed" /\ \E r \in Runs : /\ runs[r].source = a
                                                 /\ runs[r].status = "none"
                                                 /\ pc[r] = "over"
  /\ Replying(a, "idle")
  /\ UNCHANGED <<stored, pc, gate, active, taskRun, stopped, runner, waiters, caller,
                 granted, disturbed>>

-----------------------------------------------------------------------------
\* The Server stops anywhere and starts again: RecoverInterruptedRuns, then
\* RecoverAnsweredInteractions for every answer that is not handled.
Unhandled(a) == asks[a].status \in {"answered", "cancelled"} /\ ~asks[a].handled

Restart ==
  /\ Disturb
  /\ runs' = [r \in Runs |-> Interrupted(runs[r])]
  /\ pc' = [r \in Runs |-> IF pc[r] = "idle" THEN "idle" ELSE "over"]
  /\ gate' = None
  /\ active' = None
  /\ taskRun' = FALSE
  /\ stopped' = {}
  /\ runner' = [runner EXCEPT !.cached = NoRunner]
  /\ waiters' = [a \in Asks |-> IF asks[a].status = "none" THEN "none" ELSE "closed"]
  /\ replies' = [a \in Asks |-> IF Unhandled(a) THEN "route" ELSE "idle"]
  /\ caller' = [cancel |-> None, signal |-> {}, delete |-> "idle", victim |-> None, listed |-> {}]
  /\ UNCHANGED <<projects, chat, talk, asks, granted>>

RunStep(r) ==
  \/ Lock(r) \/ UseCached(r) \/ StartBuild(r) \/ FinishBuild(r)
  \/ BuildFails(r) \/ CreateRun(r) \/ RegisterRun(r)
  \/ StreamEnds(r) \/ Continue(r)
  \/ FinishCompletedRun(r) \/ FinishFailedRun(r) \/ AppendReply(r) \/ Leave(r)
  \/ \E a \in Asks : \/ RequestApproval(r, a) \/ ListenForReply(r, a)
                     \/ HearReply(r, a) \/ TimeOut(r, a) \/ Abandon(r, a)

ConvNext ==
  \/ \E r \in Runs : RunStep(r) \/ Accept(r) \/ Interrupt(r) \/ StreamFails(r)
  \/ \E r \in Runs, a \in Asks : AskQuestion(r, a) \/ RouteAnswer(a, r)
  \/ \E a \in Asks, yes \in BOOLEAN : ReplyOverSocket(a, yes) \/ ReplyStructured(a, yes)
  \/ \E a \in Asks : CancelStructured(a) \/ WakeWaiter(a) \/ RouteFindsRun(a) \/ RouteFails(a)
  \/ \E r \in Runs : HandleCancelRun(r)
  \/ LookUpRun \/ CancelRunByID \/ (\E r \in Runs : Signal(r)) \/ DeleteGivesUp
  \/ StartDelete \/ DeleteCancels \/ DeleteLists \/ DeleteSweeps \/ DeleteWakes \/ DeleteArchives
  \/ Reconfigure \/ ForbidHost \/ SetSession \/ TaskRunStarts \/ TaskRunEnds
  \/ \E p \in {Home, Away} : ActivateProject(p)
  \/ ArchiveProject \/ ArchiveConversation \/ Restart

ConvSpec == ConvInit /\ [][ConvNext]_convVars

\* The threads of the Server run, its requests finish and its timers fire.
ConvFairness ==
  /\ WF_convVars(\E r \in Runs : RunStep(r))
  /\ WF_convVars(CancelRunByID \/ \E r \in Runs : Signal(r))
  /\ WF_convVars(DeleteCancels \/ DeleteLists \/ DeleteSweeps \/ DeleteWakes \/ DeleteArchives)
  /\ WF_convVars(\E a \in Asks : WakeWaiter(a) \/ RouteFindsRun(a) \/ RouteFails(a))

ConvFairSpec == ConvSpec /\ ConvFairness

-----------------------------------------------------------------------------
(* What makes it correct.                                                  *)

\* A Conversation has one Run at a time, whichever messages, answers, restarts
\* and deletions overlap (the Conversation lock of handleMessageWithMode).
OneRunPerConversation ==
  Cardinality({r \in Runs : runs[r].status \in ActiveRun}) <= 1

\* A Project that is not the active one, or is archived, has no Run at work: the
\* window between building a Runner and storing its Run is closed by the gates
\* WithWritableConversation checks again.
InactiveProjectIsQuiet ==
  projects.active # Home \/ Home \in projects.archived
    => \A r \in Runs : runs[r].status \notin ActiveRun

\* A dangerous tool runs only on an approval that is stored as answered with
\* yes, also when the timeout, a cancellation and the answer race.
ApprovalIsGranted ==
  \A r \in granted : \E a \in AsksOf(r) : asks[a].status = "answered" /\ asks[a].reply

\* An answer is continued by at most one Run, also after a restart that repeats
\* the routing of every answer not marked handled.
AnsweredOnce ==
  \A a \in Asks : Cardinality(Continuation(a)) <= 1

\* A Runner serves the configuration it was made from, or is marked stale: a
\* build that overlaps a change of the configuration is never cached as current.
RunnerIsCurrent ==
  runner.cached.made \in {None, runner.version} \/ runner.cached.stale

\* What a Conversation works with is its own: its one Run, its Project, its Runner.
ConversationIsExclusive == OneRunPerConversation /\ InactiveProjectIsQuiet /\ RunnerIsCurrent

\* An answer counts as what it is, and once.
AnswersCountOnce == ApprovalIsGranted /\ AnsweredOnce

\* A stored cancellation is never overtaken: from cancelling a Run only goes to
\* cancelled or failed, however late the model answers.
CancelIsNotLost ==
  [][\A r \in Runs : runs[r].status = "cancelling"
       => runs'[r].status \in {"cancelling", "cancelled", "failed"}]_runs

\* The Conversation never stays blocked: whoever holds its lock gives it back,
\* with approvals nobody answers, cancelled contexts and restarts.
ConversationIsReleased == \A r \in Runs : []<>(gate # r)
=============================================================================
