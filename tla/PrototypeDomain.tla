-------------------------- MODULE PrototypeDomain --------------------------
(***************************************************************************)
(* The deterministic domain of the chat prototype                          *)
(* (prototype/src/domain/workspace.ts): pure functions from one workstream *)
(* or product to the next.  A function that throws in the code comes with  *)
(* an operator that says when it does not.                                 *)
(*                                                                         *)
(* A workstream keeps its agents and messages in order and its tasks,      *)
(* runs, results and effects as functions from an id to the record: they   *)
(* are only ever looked up by id.  Titles, times and bodies are left out.  *)
(***************************************************************************)
EXTENDS Integers, Sequences, FiniteSetsExt, TLC

AllAgents == "All agents"

None == "none"

\* No message or task: an id is a tuple.
NoId == <<>>

TaskStatus == {"open", "in_progress", "in_review", "done"}

AgentStatus == {"running", "idle", "queued", "error", "stopped"}

RunStatus == {"running", "failed", "completed"}

ReviewState == {"pending", "changes_requested", "approved"}

(***************************************************************************)
(* Agents and the Agent that answers a message.                            *)
(***************************************************************************)

Names(w) == {w.agents[i].name : i \in DOMAIN w.agents}

Status(w, a) == (CHOOSE g \in Range(w.agents) : g.name = a).status

SetStatus(w, a, s) ==
  [w EXCEPT !.agents =
     [i \in DOMAIN w.agents |->
        IF w.agents[i].name = a THEN [name |-> a, status |-> s]
                                ELSE w.agents[i]]]

\* getAgentMessagingUnavailableReason returns no reason.
CanMessage(w, a) == Status(w, a) \notin {"error", "stopped"}

\* getMessageTargetUnavailableReason returns no reason.
TargetAvailable(w, target) ==
  IF target = AllAgents THEN \E a \in Names(w) : CanMessage(w, a)
                        ELSE target \in Names(w) /\ CanMessage(w, target)

\* The first running Agent answers a broadcast, else the first available one.
Responder(w, target) ==
  IF target # AllAgents THEN target
  ELSE LET able == {i \in DOMAIN w.agents : CanMessage(w, w.agents[i].name)}
           busy == {i \in able : w.agents[i].status = "running"}
       IN  w.agents[Min(IF busy # {} THEN busy ELSE able)].name

\* No response is being waited for.
NoPending == [target |-> None, responder |-> None, status |-> None]

PendingResponse(w, target) ==
  LET a == Responder(w, target)
  IN  [target |-> target, responder |-> a, status |-> Status(w, a)]

(***************************************************************************)
(* Messages.  A local id is the author and the new length of the list, so  *)
(* it is unique in its workstream only.                                    *)
(***************************************************************************)

MessageIds(w) == {w.messages[i].id : i \in DOMAIN w.messages}

MessageOf(w, id) == CHOOSE m \in Range(w.messages) : m.id = id

Message(id, author, name, recipient) ==
  [id |-> id, author |-> author, name |-> name, recipient |-> recipient,
   draft |-> FALSE, replies |-> 0, reaction |-> [count |-> 0, mine |-> FALSE]]

SendHumanMessage(w, recipient) ==
  [w EXCEPT !.messages = Append(@,
     Message(<<"human", Len(w.messages) + 1>>, "human", "human", recipient))]

AppendAgentResponse(w, responder) ==
  [w EXCEPT !.messages = Append(@,
     Message(<<"agent", Len(w.messages) + 1>>, "agent", responder, None))]

StartAgentResponse(w, target) ==
  SetStatus(SendHumanMessage(w, target), Responder(w, target), "running")

BusyWithRun(w, a) ==
  \E r \in DOMAIN w.runs : w.runs[r].agent = a /\ w.runs[r].status = "running"

\* A responder that became unavailable cancels the response.
Cancelled(w, p) == p.responder \notin Names(w) \/ ~CanMessage(w, p.responder)

CompleteAgentResponse(w, p) ==
  IF Cancelled(w, p) THEN w
  ELSE LET answered == AppendAgentResponse(w, p.responder)
       IN  IF BusyWithRun(w, p.responder) \/ p.status = "running"
           THEN answered
           ELSE SetStatus(answered, p.responder, p.status)

Promoted(w, id) ==
  \/ \E t \in DOMAIN w.tasks : w.tasks[t].source = id
  \/ id \in w.decisions

\* getMessageEditability, and what updateHumanMessage requires.
Editable(w, id) ==
  /\ id \in MessageIds(w)
  /\ MessageOf(w, id).author = "human"
  /\ ~Promoted(w, id)

VisibleTo(m, selectedAgent) ==
  IF m.author = "agent"
  THEN selectedAgent = None \/ m.name = selectedAgent
  ELSE m.recipient \in {None, AllAgents, selectedAgent}

\* The conversation that shows a message to whoever navigates to it.
MessageSelectedAgent(w, m) ==
  CASE m.author = "agent" /\ m.name \in Names(w) -> m.name
    [] m.author = "human" /\ m.recipient \notin {None, AllAgents} -> m.recipient
    [] OTHER -> None

UpdateMessage(w, id, new) ==
  [w EXCEPT !.messages =
     [i \in DOMAIN w.messages |->
        IF w.messages[i].id = id THEN new ELSE w.messages[i]]]

\* An edit withdraws the message's task proposal.
UpdateHumanMessage(w, id) ==
  UpdateMessage(w, id, [MessageOf(w, id) EXCEPT !.draft = FALSE])

AppendThreadReply(w, id) ==
  UpdateMessage(w, id, [MessageOf(w, id) EXCEPT !.replies = @ + 1])

ToggleMessageReaction(w, id) ==
  LET m    == MessageOf(w, id)
      mine == ~m.reaction.mine
      n    == m.reaction.count + (IF mine THEN 1 ELSE -1)
  IN  UpdateMessage(w, id,
        [m EXCEPT !.reaction = [count |-> Max({0, n}), mine |-> mine]])

(***************************************************************************)
(* Tasks and their runs.                                                   *)
(***************************************************************************)

RunsOf(w, t) == {r \in DOMAIN w.runs : w.runs[r].task = t}

Attempts(w, t) == {w.runs[r].attempt : r \in RunsOf(w, t)}

\* getLatestRunForTask: the run of the highest attempt, or none.
LatestRun(w, t) ==
  IF RunsOf(w, t) = {} THEN 0
  ELSE CHOOSE r \in RunsOf(w, t) : w.runs[r].attempt = Max(Attempts(w, t))

LatestIs(w, t, status) ==
  LatestRun(w, t) # 0 /\ w.runs[LatestRun(w, t)].status = status

HasRunning(w, t) == \E r \in RunsOf(w, t) : w.runs[r].status = "running"

HasUncertain(w, t) ==
  \E e \in DOMAIN w.effects :
     w.effects[e].task = t /\ w.effects[e].status = "uncertain"

CanRetryTask(w, t) ==
  ~HasUncertain(w, t) /\ ~HasRunning(w, t) /\ LatestIs(w, t, "failed")

CanStartFollowUpRun(w, t) ==
  /\ w.tasks[t].status = "open"
  /\ LatestIs(w, t, "completed")
  /\ \E x \in DOMAIN w.results :
        /\ w.results[x].task = t
        /\ w.results[x].run = LatestRun(w, t)
        /\ w.results[x].state = "changes_requested"
  /\ ~HasUncertain(w, t)
  /\ ~HasRunning(w, t)

\* getAgentRunUnavailableReason returns no reason.
CanRun(w, a) == a \in Names(w) /\ Status(w, a) \in {"idle", "queued"}

TaskDisplayState(w, t) ==
  CASE w.tasks[t].status = "done"      -> "done"
    [] w.tasks[t].status = "in_review" -> "in-review"
    [] OTHER -> IF HasRunning(w, t) THEN "in-progress"
                ELSE IF LatestIs(w, t, "failed") THEN "failed" ELSE "queued"

AllocateRunId(w) == Max(DOMAIN w.runs \cup {0}) + 1

\* What retryRun and startFollowUpRun share: a new run, nothing rewritten.
AddRun(w, t, a) ==
  LET r == AllocateRunId(w)
  IN  [w EXCEPT
         !.tasks[t].runs = Append(@, r),
         !.runs = @ @@ (r :> [task |-> t, agent |-> a, status |-> "running",
                              attempt |-> Max(Attempts(w, t) \cup {0}) + 1])]

RetryTaskRun(w, t, a) == SetStatus(AddRun(w, t, a), a, "running")

StartTaskFollowUpRun(w, t, a) == SetStatus(AddRun(w, t, a), a, "running")

\* failTaskRun and submitRunResult take a running run of a known Agent only.
CanFinish(w, r) == w.runs[r].status = "running" /\ w.runs[r].agent \in Names(w)

\* The owner leaves "running" with its last running run.
Released(w, a, status) ==
  IF BusyWithRun(w, a) THEN w ELSE SetStatus(w, a, status)

FailTaskRun(w, r) ==
  Released([w EXCEPT !.runs[r].status = "failed"], w.runs[r].agent, "error")

\* Mutant: the result is recorded without moving its task to review.
SubmitResultOnly(w, r) ==
  [w EXCEPT
     !.runs[r].status = "completed",
     !.results = Append(@, [run |-> r, task |-> w.runs[r].task,
                            state |-> "pending"])]

SubmitResult(w, r) ==
  [w EXCEPT
     !.tasks[w.runs[r].task].status = "in_review",
     !.runs[r].status = "completed",
     !.results = Append(@, [run |-> r, task |-> w.runs[r].task,
                            state |-> "pending"])]

SubmitRunResult(w, r) == Released(SubmitResult(w, r), w.runs[r].agent, "idle")

ApproveResult(w, x) ==
  [w EXCEPT !.tasks[w.results[x].task].status = "done",
            !.results[x].state = "approved"]

RequestChanges(w, x) ==
  [w EXCEPT !.tasks[w.results[x].task].status = "open",
            !.results[x].state = "changes_requested"]

ReconcileExternalEffect(w, e) == [w EXCEPT !.effects[e].status = "confirmed"]

(***************************************************************************)
(* Promotion, and durable work created by hand.                            *)
(***************************************************************************)

NewTask(source) == [status |-> "open", source |-> source, runs |-> <<>>]

CanCreateTask(w, id) ==
  /\ id \in MessageIds(w)
  /\ \A t \in DOMAIN w.tasks : w.tasks[t].source # id

CreateTaskFromMessage(w, id) ==
  [UpdateHumanMessage(w, id) EXCEPT !.tasks = @ @@ (<<"task", id>> :> NewTask(id))]

CreateLocalTask(w) ==
  [w EXCEPT !.tasks =
     @ @@ (<<"task", <<"local", Cardinality(DOMAIN @) + 1>>>> :> NewTask(NoId))]

CanRecordDecision(w, id) == id \in MessageIds(w) /\ id \notin w.decisions

RecordDecision(w, id) == [w EXCEPT !.decisions = @ \cup {id}]

(***************************************************************************)
(* What a human sees of it, and where navigation leads.                    *)
(***************************************************************************)

\* getAgentWorkspaceScope: the tasks an Agent ran, all of them without one.
ScopeTasks(w, selectedAgent) ==
  IF selectedAgent = None THEN DOMAIN w.tasks
  ELSE {t \in DOMAIN w.tasks :
          \E r \in RunsOf(w, t) : w.runs[r].agent = selectedAgent}

ScopeResults(w, selectedAgent) ==
  {x \in DOMAIN w.results :
     selectedAgent \in {None, w.runs[w.results[x].run].agent}}

ScopeEffects(w, selectedAgent) ==
  {e \in DOMAIN w.effects : w.effects[e].task \in ScopeTasks(w, selectedAgent)}

Eligible(w, action, tasks) ==
  {t \in tasks : IF action = "retry" THEN CanRetryTask(w, t)
                                     ELSE CanStartFollowUpRun(w, t)}

\* The selected task when it is eligible, else the only eligible one.
TaskActionTarget(w, visible, selected, action) ==
  LET ok == Eligible(w, action, visible)
  IN  IF selected # NoId THEN ok \cap {selected}
      ELSE IF Cardinality(ok) = 1 THEN ok ELSE {}

\* getExecutableHumanActions: review, reconcile, retry and follow-up.
HumanActions(w) ==
     {[kind |-> "review", id |-> x] :
        x \in {y \in DOMAIN w.results : w.results[y].state = "pending"}}
  \cup {[kind |-> "reconcile", id |-> e] :
        e \in {f \in DOMAIN w.effects : w.effects[f].status = "uncertain"}}
  \cup {[kind |-> "retry", id |-> t] : t \in Eligible(w, "retry", DOMAIN w.tasks)}
  \cup {[kind |-> "follow-up", id |-> t] :
        t \in Eligible(w, "follow-up", DOMAIN w.tasks)
              \ Eligible(w, "retry", DOMAIN w.tasks)}

(***************************************************************************)
(* The seeds.  Message ids of a seed are <<name, 0>>.                      *)
(***************************************************************************)

Agent(name, status) == [name |-> name, status |-> status]

Run(task, agent, status, attempt) ==
  [task |-> task, agent |-> agent, status |-> status, attempt |-> attempt]

Seed(name) == <<name, 0>>

FromHuman(name, recipient) == Message(Seed(name), "human", "human", recipient)

FromAgent(name, agent) == Message(Seed(name), "agent", agent, None)

\* What createLocalWorkstream adds: a guide's welcome and one idle Agent.
Local ==
  [agents    |-> <<Agent("Orbit", "idle")>>,
   taskAgent |-> "Orbit",
   messages  |-> <<FromAgent("welcome", "Torsor")>>,
   tasks     |-> <<>>,
   runs      |-> <<>>,
   results   |-> <<>>,
   decisions |-> {},
   effects   |-> <<>>]

ReleaseMessages ==
  <<[FromHuman("brief", None) EXCEPT !.replies = 1, !.reaction.count = 2],
    [FromAgent("plan", "Nova") EXCEPT !.replies = 4, !.reaction.count = 2],
    FromAgent("failure", "Nova"),
    [FromAgent("resume", "Sable") EXCEPT !.replies = 4, !.reaction.count = 2],
    FromAgent("review", "Keel"),
    [FromHuman("followup", None) EXCEPT !.draft = TRUE]>>

\* createDemoWorkspace: one result to review, one effect to reconcile.
ReleaseWork ==
  LET update  == <<"task", Seed("release")>>
      receipt == <<"task", Seed("receipt")>>
  IN  [Local EXCEPT
         !.messages  = ReleaseMessages,
         !.tasks     = update :> [status |-> "in_review", source |-> Seed("brief"),
                                  runs |-> <<184, 185>>]
                       @@ receipt :> [status |-> "open", source |-> NoId,
                                      runs |-> <<186>>],
         !.runs      = 184 :> Run(update, "Nova", "failed", 1)
                       @@ 185 :> Run(update, "Sable", "completed", 2)
                       @@ 186 :> Run(receipt, "Keel", "failed", 1),
         !.results   = <<[run |-> 185, task |-> update, state |-> "pending"]>>,
         !.decisions = {Seed("brief")},
         !.effects   = "publish" :> [task |-> receipt, status |-> "uncertain"]]

\* createOnboardingWorkspace: one run at work.
OnboardingWork ==
  LET starter == <<"task", Seed("starter")>>
  IN  [Local EXCEPT
         !.messages  = <<FromHuman("onboarding", AllAgents),
                         FromAgent("outline", "Orbit"),
                         FromHuman("empty-state", "Orbit")>>,
         !.tasks     = starter :> [status |-> "open", source |-> Seed("onboarding"),
                                   runs |-> <<201>>],
         !.runs      = 201 :> Run(starter, "Orbit", "running", 1),
         !.decisions = {Seed("outline")}]

\* createDemoProduct: the two workstreams and their Agents.
DemoProduct ==
  <<[ReleaseWork EXCEPT
       !.agents = <<Agent("Sable", "running"), Agent("Keel", "queued"),
                    Agent("Nova", "error"), Agent("Orbit", "idle")>>],
    [OnboardingWork EXCEPT
       !.agents = <<Agent("Orbit", "running"), Agent("Keel", "idle")>>]>>
=============================================================================
