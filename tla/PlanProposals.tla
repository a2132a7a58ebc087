---------------------------- MODULE PlanProposals ----------------------------
(***************************************************************************)
(* Plan proposals (src/internal/store/plan_proposal.go, workflow/           *)
(* proposal.go, tool/builtin/plan_suggest.go): a Leader in Plan Mode calls  *)
(* plan.suggest, which creates or revises the one proposal of the Project;  *)
(* the user reads it and approves or discards the revision that was read;   *)
(* an approval makes the Workflow.                                          *)
(*                                                                         *)
(* The store checks and writes in one transaction; what the callers check   *)
(* before it may have changed by then.  A call that timed out goes on, and  *)
(* the model may have called again.  What happens to a Workflow is the      *)
(* subject of WorkflowEngine; Runs, questions and Projects of that of       *)
(* Conversations.                                                          *)
(***************************************************************************)
EXTENDS Naturals, FiniteSets

CONSTANTS
  PlanProjects, DefaultProject, FirstProject, \* Projects, the default, the first active one
  PlanConvs, ProjectOf,   \* conversations and the Project of each
  Leaders, LeaderConv,    \* Runs of the Leader and the conversation of each
  PlanTasks,              \* ids a model gives to the Tasks of a plan
  PlanSkills,             \* Robot Skills
  Suggestions,            \* the plans models submit
  Tabs,                   \* Studios of the user
  SuggestLimit, ProposalLimit, FlowLimit, GenerationLimit,  \* calls, rows and maps ever
  PlanActs, PlanFaults,   \* operations of the user, failures
  NoPlan

\* "map" is the generation of the map the plan is bound to, 0 for none.
SuggestionOf == [tasks : SUBSET PlanTasks, deps : SUBSET (PlanTasks \X PlanTasks),
                 needs : SUBSET PlanSkills, skills : SUBSET PlanSkills,
                 map : 0..GenerationLimit]

ProposalIds == 1..ProposalLimit
Flows == 1..FlowLimit
Calls == 1..SuggestLimit

\* The rows of plan_proposals and workflows, with what the user was shown of a plan.
PlanRows == [project : PlanProjects, conv : PlanConvs, revision : Nat,
             status : {"ready", "approved", "discarded"}, draft : Suggestions]
FlowRows == [proposal : ProposalIds, project : PlanProjects, draft : Suggestions,
             shown : Suggestions, status : {"open", "ended"}]

\* Ids of Tasks that the store makes are not those that models make up.
NewTaskID(w, k) == <<w, k>>

ASSUME PlanAssumption ==
  /\ {DefaultProject, FirstProject} \subseteq PlanProjects
  /\ ProjectOf \in [PlanConvs -> PlanProjects] /\ LeaderConv \in [Leaders -> PlanConvs]
  /\ Suggestions \subseteq SuggestionOf
  /\ {SuggestLimit, ProposalLimit, FlowLimit, GenerationLimit} \subseteq Nat
  /\ {PlanActs, PlanFaults} \subseteq Nat
  /\ \A w \in Flows, k \in PlanTasks : NewTaskID(w, k) \notin PlanTasks
  /\ NoPlan \notin ProposalIds \cup PlanRows \cup FlowRows

VARIABLES
  activeProject,   \* the one active Project of the installation
  shelved,         \* archived Projects
  projectMode,     \* Project -> development, running
  closedConvs,     \* archived conversations
  mapGeneration,   \* Project -> generation of its map
  leader,          \* Run -> none, live, ended
  planSubmitted,   \* live Runs whose model was told that its plan is submitted
  suggest,         \* call -> the call of plan.suggest
  proposals,       \* plan_proposals
  submissions,     \* Run -> the proposal it submitted (plan_proposal_submissions)
  written,         \* what was ever written: Run, proposal and its revision
  flows,           \* workflows
  taskRows, depRows, \* tasks and task_dependencies
  screen,          \* tab -> the proposal it shows
  act,             \* tab -> the request of its user
  planBudget

projectVars == <<activeProject, shelved, projectMode, closedConvs, mapGeneration>>
leaderVars == <<leader, planSubmitted>>
rowVars == <<proposals, submissions, written, flows, taskRows, depRows>>
tabVars == <<screen, act>>
ppVars == <<projectVars, leaderVars, suggest, rowVars, tabVars, planBudget>>

CallOver == [run |-> NoPlan]

PpInit ==
  /\ activeProject = FirstProject /\ shelved = {}
  /\ projectMode = [p \in PlanProjects |-> "development"]
  /\ closedConvs = {} /\ mapGeneration = [p \in PlanProjects |-> 1]
  /\ leader = [r \in Leaders |-> "none"] /\ planSubmitted = {}
  /\ suggest = [c \in Calls |-> NoPlan]
  /\ proposals = [i \in ProposalIds |-> NoPlan] /\ submissions = [r \in Leaders |-> NoPlan]
  /\ written = {} /\ flows = [w \in Flows |-> NoPlan] /\ taskRows = {} /\ depRows = {}
  /\ screen = [t \in Tabs |-> NoPlan] /\ act = [t \in Tabs |-> NoPlan]
  /\ planBudget = [acts |-> PlanActs, faults |-> PlanFaults]

PlanSteady == UNCHANGED planBudget
PlanAct == planBudget.acts > 0 /\ planBudget' = [planBudget EXCEPT !.acts = @ - 1]
PlanFault == planBudget.faults > 0 /\ planBudget' = [planBudget EXCEPT !.faults = @ - 1]

-----------------------------------------------------------------------------
(* What the checks look at. *)

ProjectWritableByUser(p) == p = activeProject /\ p \notin shelved

requireWritableConversation(c) == ProjectWritableByUser(ProjectOf[c]) /\ c \notin closedConvs

\* Skills that Tasks ask for by name are among those the user is to approve.
validatePlanSuggestionArgs(d) == d.tasks # {} /\ d.needs \subseteq d.skills

\* A plan may be bound to a generation of the map; what it selects is taken to stay there.
validateMapScope(p, d) == d.map = 0 \/ d.map = mapGeneration[p]

\* Tasks exist and dependencies make no cycle: each set of Tasks has one that depends
\* on none of them.
validateDraft(d) ==
  /\ d.tasks # {} /\ d.deps \subseteq d.tasks \X d.tasks
  /\ \A S \in SUBSET d.tasks : S # {} =>
       \E k \in S : \A l \in S : <<k, l>> \notin d.deps

Ready(p) == {i \in ProposalIds : /\ proposals[i] # NoPlan /\ proposals[i].project = p
                                 /\ proposals[i].status = "ready"}
OpenFlows(p) ==
  {w \in Flows : flows[w] # NoPlan /\ flows[w].project = p /\ flows[w].status = "open"}
LiveLeaders(p) == {r \in Leaders : leader[r] = "live" /\ ProjectOf[LeaderConv[r]] = p}

\* The row of a new proposal or Workflow.
IsNext(id, rows) == rows[id] = NoPlan /\ \A j \in 1..(id - 1) : rows[j] # NoPlan

\* What the Studio is shown of a row.
Shown(i) == [id |-> i, revision |-> proposals[i].revision, draft |-> proposals[i].draft]

-----------------------------------------------------------------------------
(* Projects, conversations and Runs. *)

HasActiveWork(p) == OpenFlows(p) # {} \/ LiveLeaders(p) # {}

ActivateProject(p) ==
  /\ p \notin shelved \cup {activeProject} /\ ~HasActiveWork(activeProject)
  /\ activeProject' = p /\ PlanAct
  /\ UNCHANGED <<shelved, projectMode, closedConvs, mapGeneration, leaderVars, suggest, rowVars,
                 tabVars>>

\* The default Project stays, and takes the place of an active one.
ArchiveProject(p) ==
  /\ p # DefaultProject /\ p \notin shelved /\ ~HasActiveWork(p)
  /\ shelved' = shelved \cup {p} /\ PlanAct
  /\ activeProject' = IF p = activeProject THEN DefaultProject ELSE activeProject
  /\ UNCHANGED <<projectMode, closedConvs, mapGeneration, leaderVars, suggest, rowVars, tabVars>>

\* The older of the two entries does not ask for Runs.
ArchiveChatSession(c) ==
  /\ c \notin closedConvs /\ closedConvs' = closedConvs \cup {c} /\ PlanAct
  /\ UNCHANGED <<activeProject, shelved, projectMode, mapGeneration, leaderVars, suggest, rowVars,
                 tabVars>>

\* A new generation of the map, after a simulation was started.
MapIsRenewed(p) ==
  /\ mapGeneration[p] < GenerationLimit
  /\ mapGeneration' = [mapGeneration EXCEPT ![p] = @ + 1] /\ PlanAct
  /\ UNCHANGED <<activeProject, shelved, projectMode, closedConvs, leaderVars, suggest, rowVars,
                 tabVars>>

\* The user writes in Plan Mode; a conversation has one Run at a time.
LeaderStarts(r) ==
  /\ leader[r] = "none" /\ requireWritableConversation(LeaderConv[r])
  /\ \A o \in Leaders : LeaderConv[o] = LeaderConv[r] => leader[o] # "live"
  /\ leader' = [leader EXCEPT ![r] = "live"] /\ PlanSteady
  /\ UNCHANGED <<projectVars, planSubmitted, suggest, rowVars, tabVars>>

\* It is done, or was cancelled; its calls go on.
LeaderEnds(r) ==
  /\ leader[r] = "live" /\ leader' = [leader EXCEPT ![r] = "ended"]
  /\ planSubmitted' = planSubmitted \ {r} /\ PlanSteady
  /\ UNCHANGED <<projectVars, suggest, rowVars, tabVars>>

\* A model whose plan was accepted is not asked again: the Run is over when the calls of
\* its response are.
BeforeModelRound(r) == r \in planSubmitted /\ LeaderEnds(r)

-----------------------------------------------------------------------------
(* plan.suggest.  A call is under way once the checks before the transaction went by, *)
(* and over with the transaction; one that the checks refuse has no effect.           *)

Submittable(c, d) ==
  /\ validatePlanSuggestionArgs(d) /\ validateMapScope(ProjectOf[c], d) /\ validateDraft(d)
  /\ requireWritableConversation(c)

\* The model submits a plan: twice in one response, one call after the other or both at
\* once, or again after a timeout.
SuggestPlan(r, d) ==
  /\ leader[r] = "live" /\ Submittable(LeaderConv[r], d)
  /\ \E c \in Calls :
       IsNext(c, suggest) /\ suggest' = [suggest EXCEPT ![c] = [run |-> r, draft |-> d]]
  /\ PlanSteady /\ UNCHANGED <<projectVars, leaderVars, rowVars, tabVars>>

\* A Run that has submitted gets what became of it.
NeverSubmitted(r) == FALSE
AlreadySubmitted(r) == submissions[r] # NoPlan

Submits(r, i, row) ==
  /\ proposals' = [proposals EXCEPT ![i] = row]
  /\ submissions' = [submissions EXCEPT ![r] = i]
  /\ written' = written \cup {[run |-> r, id |-> i, revision |-> row.revision]}

Revised(i, d) == [proposals[i] EXCEPT !.revision = @ + 1, !.draft = d]
NewProposal(c, d) ==
  [project |-> ProjectOf[c], conv |-> c, revision |-> 1, status |-> "ready", draft |-> d]

\* The policy notes that the plan was accepted, unless the executor gave up waiting for
\* the answer.
WrapToolCall(r) ==
  \/ planSubmitted' = planSubmitted \cup {o \in {r} : leader[r] = "live"} /\ PlanSteady
  \/ UNCHANGED planSubmitted /\ PlanFault

\* The transaction: one proposal for a Project, of one conversation, and none beside a
\* Workflow that is open.
SubmitPlanProposalForRun(c) ==
  /\ suggest[c] \notin {NoPlan, CallOver} /\ suggest' = [suggest EXCEPT ![c] = CallOver]
  /\ LET r == suggest[c].run
         v == LeaderConv[r]
         ready == Ready(ProjectOf[v])
     IN
     \/ /\ AlreadySubmitted(r) /\ WrapToolCall(r)
        /\ UNCHANGED <<proposals, submissions, written>>
     \/ /\ ~AlreadySubmitted(r) /\ OpenFlows(ProjectOf[v]) = {} /\ WrapToolCall(r)
        /\ \/ \E i \in ready :
                proposals[i].conv = v /\ Submits(r, i, Revised(i, suggest[c].draft))
           \/ /\ ready = {}
              /\ \E i \in ProposalIds :
                   IsNext(i, proposals) /\ Submits(r, i, NewProposal(v, suggest[c].draft))
     \/ /\ ~AlreadySubmitted(r)
        /\ OpenFlows(ProjectOf[v]) # {} \/ \E i \in ready : proposals[i].conv # v
        /\ PlanSteady /\ UNCHANGED <<planSubmitted, proposals, submissions, written>>
  /\ UNCHANGED <<projectVars, leader, flows, taskRows, depRows, tabVars>>

-----------------------------------------------------------------------------
(* The user. *)

\* The Snapshot of a Project, a request for its proposal or the event of a change.
HandleGetActivePlanProposal(t, p) ==
  /\ \/ \E i \in Ready(p) : screen' = [screen EXCEPT ![t] = Shown(i)]
     \/ Ready(p) = {} /\ screen' = [screen EXCEPT ![t] = NoPlan]
  /\ PlanSteady /\ UNCHANGED <<projectVars, leaderVars, suggest, rowVars, act>>

ActAt(t, step) == act[t] # NoPlan /\ act[t].step = step
ActEnds(t) == act' = [act EXCEPT ![t] = NoPlan]

IsExpected(shown) == proposals[shown.id].revision = shown.revision
ActProposal(t) == proposals[act[t].shown.id]

\* What the service asks of the row before the transaction: the revision, and that a plan
\* to approve is for the map there is.
Answerable(shown, kind) ==
  LET row == proposals[shown.id] IN
  IsExpected(shown) /\ (kind = "approve" => validateMapScope(row.project, row.draft))

\* The user answers what the tab shows.  The Project must be one that can be written to.
HandlePlanProposalAction(t, kind) ==
  /\ screen[t] # NoPlan /\ act[t] = NoPlan /\ PlanAct
  /\ ProjectWritableByUser(proposals[screen[t].id].project) /\ Answerable(screen[t], kind)
  /\ act' = [act EXCEPT ![t] = [step |-> kind, shown |-> screen[t]]]
  /\ UNCHANGED <<projectVars, leaderVars, suggest, rowVars, screen>>

\* An id a Task has already is replaced, in the dependencies too.
TaskIDs(w, k) == IF \E row \in taskRows : row.id = k THEN NewTaskID(w, k) ELSE k

replacePlanTx(w, d) ==
  /\ taskRows' = taskRows \cup {[id |-> TaskIDs(w, k), flow |-> w, key |-> k] : k \in d.tasks}
  /\ depRows' = depRows \cup
       {[flow |-> w, task |-> TaskIDs(w, e[1]), on |-> TaskIDs(w, e[2])] : e \in d.deps}

\* The transaction of an approval.
Approvable(t) ==
  /\ IsExpected(act[t].shown) /\ ActProposal(t).status = "ready"
  /\ validateDraft(ActProposal(t).draft) /\ ProjectWritableByUser(ActProposal(t).project)
  /\ OpenFlows(ActProposal(t).project) = {}

ApprovePlanProposal(t) ==
  /\ ActAt(t, "approve") /\ ActEnds(t) /\ PlanSteady
  /\ \/ /\ ~Approvable(t)
        /\ UNCHANGED <<projectMode, proposals, flows, taskRows, depRows>>
     \/ /\ Approvable(t)
        /\ \E w \in Flows :
             /\ IsNext(w, flows)
             /\ flows' = [flows EXCEPT ![w] =
                  [proposal |-> act[t].shown.id, project |-> ActProposal(t).project,
                   draft |-> ActProposal(t).draft, shown |-> act[t].shown.draft,
                   status |-> "open"]]
             /\ replacePlanTx(w, ActProposal(t).draft)
        /\ projectMode' = [projectMode EXCEPT ![ActProposal(t).project] = "running"]
        /\ proposals' = [proposals EXCEPT ![act[t].shown.id].status = "approved",
                                          ![act[t].shown.id].revision = @ + 1]
  /\ UNCHANGED <<activeProject, shelved, closedConvs, mapGeneration, leaderVars, suggest,
                 submissions, written, screen>>

DiscardPlanProposal(t) ==
  /\ ActAt(t, "discard") /\ ActEnds(t) /\ PlanSteady
  /\ \/ /\ IsExpected(act[t].shown) /\ ActProposal(t).status = "ready"
        /\ proposals' = [proposals EXCEPT ![act[t].shown.id].status = "discarded",
                                          ![act[t].shown.id].revision = @ + 1]
     \/ /\ ~(IsExpected(act[t].shown) /\ ActProposal(t).status = "ready")
        /\ UNCHANGED proposals
  /\ UNCHANGED <<projectVars, leaderVars, suggest, submissions, written, flows, taskRows, depRows,
                 screen>>

\* A Workflow completes, fails or is stopped.
FlowEnds(w) ==
  /\ flows[w] # NoPlan /\ flows[w].status = "open"
  /\ flows' = [flows EXCEPT ![w].status = "ended"]
  /\ projectMode' = [projectMode EXCEPT ![flows[w].project] = "development"] /\ PlanSteady
  /\ UNCHANGED <<activeProject, shelved, closedConvs, mapGeneration, leaderVars, suggest,
                 proposals, submissions, written, taskRows, depRows, tabVars>>

\* Runs are interrupted; calls and requests are gone.
PlanServerRestarts ==
  /\ PlanFault
  /\ leader' = [r \in Leaders |-> IF leader[r] = "live" THEN "ended" ELSE leader[r]]
  /\ suggest' = [c \in Calls |->
                   IF suggest[c] = NoPlan THEN NoPlan ELSE CallOver]
  /\ planSubmitted' = {} /\ act' = [t \in Tabs |-> NoPlan]
  /\ UNCHANGED <<projectVars, rowVars, screen>>

PpNext ==
  \/ \E p \in PlanProjects :
       \/ ActivateProject(p) \/ ArchiveProject(p) \/ MapIsRenewed(p)
       \/ \E t \in Tabs : HandleGetActivePlanProposal(t, p)
  \/ \E c \in PlanConvs : ArchiveChatSession(c)
  \/ \E r \in Leaders :
       \/ LeaderStarts(r) \/ LeaderEnds(r) \/ BeforeModelRound(r)
       \/ \E d \in Suggestions : SuggestPlan(r, d)
  \/ \E c \in Calls : SubmitPlanProposalForRun(c)
  \/ \E t \in Tabs :
       \/ \E kind \in {"approve", "discard"} : HandlePlanProposalAction(t, kind)
       \/ ApprovePlanProposal(t) \/ DiscardPlanProposal(t)
  \/ \E w \in Flows : FlowEnds(w)
  \/ PlanServerRestarts

PpSpec == PpInit /\ [][PpNext]_ppVars

-----------------------------------------------------------------------------

\* A Project has one plan: a proposal to review or a Workflow that is open, which
\* makes its mode and keeps it the active Project.
OnePlan ==
  \A p \in PlanProjects :
    /\ \A i, j \in Ready(p) : i = j
    /\ \A v, w \in OpenFlows(p) : v = w
    /\ Ready(p) = {} \/ OpenFlows(p) = {}
    /\ projectMode[p] = "running" <=> OpenFlows(p) # {}
    /\ OpenFlows(p) # {} => p = activeProject /\ p \notin shelved

\* A Workflow is the plan its user was shown, whoever revised the proposal meanwhile,
\* and asks for Skills the user approved only.
ApprovedAsShown ==
  \A w \in Flows : flows[w] # NoPlan =>
    flows[w].draft = flows[w].shown /\ flows[w].draft.needs \subseteq flows[w].draft.skills

\* Tasks have ids of their own, also when two plans gave them the same, and depend on
\* each other as in the plan.
TasksFollowPlan ==
  /\ \A a, b \in taskRows : a.id = b.id => a = b
  /\ \A w \in Flows : flows[w] # NoPlan =>
       /\ {row.key : row \in {a \in taskRows : a.flow = w}} = flows[w].draft.tasks
       /\ \A a, b \in taskRows : a.flow = w /\ b.flow = w =>
            (<<a.key, b.key>> \in flows[w].draft.deps
               <=> [flow |-> w, task |-> a.id, on |-> b.id] \in depRows)

\* A Run submits once, however often its model calls.
SubmittedOnce == \A x, y \in written : x.run = y.run => x = y

\* What users approve is what runs: one plan at a time, as it was shown, submitted once
\* and with the Tasks it names.
PlansAreReviewed == OnePlan /\ ApprovedAsShown /\ TasksFollowPlan /\ SubmittedOnce
=============================================================================
