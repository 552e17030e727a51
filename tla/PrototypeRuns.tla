--------------------------- MODULE PrototypeRuns ---------------------------
(***************************************************************************)
(* Durable work in one workstream of the chat prototype: runs that start,  *)
(* fail and submit results, reviews, effects to reconcile, and the Agent   *)
(* response a message is waiting for meanwhile.                            *)
(*                                                                         *)
(* The human acts through the state panel (RightPanel of                   *)
(* prototype/src/App.tsx), whose buttons are guarded by the domain's own   *)
(* predicates.  The Agent side, failTaskRun and submitRunResult, is        *)
(* exported by the domain and driven by its tests; the App drives a start  *)
(* with the workstream's task Agent, the domain with any Agent that can    *)
(* run, which is what is modelled.                                         *)
(***************************************************************************)
EXTENDS PrototypeDomain

CONSTANTS Seeds,        \* the seed workstreams to start from
          MaxNewRuns,   \* bound: runs started after the seed
          MaxSent       \* bound: messages the human sends

VARIABLES w,             \* the workstream
          seed,          \* the seed it started from (history)
          pending,       \* the Agent response being waited for, or none
          selectedAgent, \* the conversation and scope shown, or none
          selectedTask,  \* the task selected in the panel, or none
          locks          \* tasks whose start is being processed

workflowVars == <<w, seed, pending, selectedAgent, selectedTask, locks>>

Visible == ScopeTasks(w, selectedAgent)

Started == {r \in DOMAIN w.runs : r \notin DOMAIN seed.runs}

Sent == {i \in DOMAIN w.messages :
           i > Len(seed.messages) /\ w.messages[i].author = "human"}

WorkflowInit ==
  /\ seed \in Seeds
  /\ w = seed
  /\ pending = NoPending
  /\ selectedAgent = None
  /\ selectedTask = NoId
  /\ locks = {}

(***************************************************************************)
(* Looking around: the panel forgets its selection with the conversation.  *)
(***************************************************************************)

SelectAgent(a) ==
  /\ selectedAgent # a
  /\ selectedAgent' = a
  /\ selectedTask' = NoId
  /\ UNCHANGED <<w, seed, pending, locks>>

SelectTask(t) ==
  /\ t \in Visible
  /\ selectedTask' = IF selectedTask = t THEN NoId ELSE t
  /\ UNCHANGED <<w, seed, pending, selectedAgent, locks>>

TaskOfAction(item) ==
  CASE item.kind = "review"    -> w.results[item.id].task
    [] item.kind = "reconcile" -> w.effects[item.id].task
    [] OTHER                   -> item.id

\* A pending action of the inbox opens the shared scope at its task.
OpenAction(item) ==
  /\ selectedAgent' = None
  /\ selectedTask' = TaskOfAction(item)
  /\ UNCHANGED <<w, seed, pending, locks>>

(***************************************************************************)
(* Starting a run from the panel.  The button is live for one task; a      *)
(* second click before the lock is dropped does nothing.                   *)
(***************************************************************************)

Target(action) == TaskActionTarget(w, Visible, selectedTask, action)

MayStart(t, a) ==
  /\ Cardinality(Started) < MaxNewRuns
  /\ CanRun(w, a)
  /\ t \notin locks

RetryTask(t, a) ==
  /\ t \in Target("retry")
  /\ MayStart(t, a)
  /\ w' = RetryTaskRun(w, t, a)
  /\ locks' = locks \cup {t}
  /\ UNCHANGED <<seed, pending, selectedAgent, selectedTask>>

StartTaskFollowUp(t, a) ==
  /\ t \in Target("follow-up")
  /\ MayStart(t, a)
  /\ w' = StartTaskFollowUpRun(w, t, a)
  /\ locks' = locks \cup {t}
  /\ UNCHANGED <<seed, pending, selectedAgent, selectedTask>>

Unlock(t) ==
  /\ t \in locks
  /\ locks' = locks \ {t}
  /\ UNCHANGED <<w, seed, pending, selectedAgent, selectedTask>>

(***************************************************************************)
(* The Agent ends a run; the human reviews and reconciles.                 *)
(***************************************************************************)

FailRun(r) ==
  /\ CanFinish(w, r)
  /\ w' = FailTaskRun(w, r)
  /\ UNCHANGED <<seed, pending, selectedAgent, selectedTask, locks>>

SubmitRun(r) ==
  /\ CanFinish(w, r)
  /\ w' = SubmitRunResult(w, r)
  /\ UNCHANGED <<seed, pending, selectedAgent, selectedTask, locks>>

\* The buttons of a review card are live while its result is pending.
Reviewable(x) ==
  /\ x \in ScopeResults(w, selectedAgent)
  /\ w.results[x].state = "pending"

Approve(x) ==
  /\ Reviewable(x)
  /\ w' = ApproveResult(w, x)
  /\ UNCHANGED <<seed, pending, selectedAgent, selectedTask, locks>>

AskForChanges(x) ==
  /\ Reviewable(x)
  /\ w' = RequestChanges(w, x)
  /\ UNCHANGED <<seed, pending, selectedAgent, selectedTask, locks>>

Reconcile(e) ==
  /\ e \in ScopeEffects(w, selectedAgent)
  /\ w.effects[e].status = "uncertain"
  /\ w' = ReconcileExternalEffect(w, e)
  /\ UNCHANGED <<seed, pending, selectedAgent, selectedTask, locks>>

(***************************************************************************)
(* A message and the delayed response to it.                               *)
(***************************************************************************)

MessageTarget == IF selectedAgent = None THEN AllAgents ELSE selectedAgent

Send ==
  /\ Cardinality(Sent) < MaxSent
  /\ pending = NoPending
  /\ TargetAvailable(w, MessageTarget)
  /\ w' = StartAgentResponse(w, MessageTarget)
  /\ pending' = PendingResponse(w, MessageTarget)
  /\ UNCHANGED <<seed, selectedAgent, selectedTask, locks>>

Respond ==
  /\ pending # NoPending
  /\ w' = CompleteAgentResponse(w, pending)
  /\ pending' = NoPending
  /\ UNCHANGED <<seed, selectedAgent, selectedTask, locks>>

Start ==
  \E t \in DOMAIN w.tasks, a \in Names(w) :
     RetryTask(t, a) \/ StartTaskFollowUp(t, a)

WorkflowNext ==
  \/ \E a \in Names(w) \cup {None} : SelectAgent(a)
  \/ \E t \in DOMAIN w.tasks : SelectTask(t)
  \/ \E item \in HumanActions(w) : OpenAction(item)
  \/ Start
  \/ \E t \in locks : Unlock(t)
  \/ \E r \in DOMAIN w.runs : FailRun(r) \/ SubmitRun(r)
  \/ \E x \in DOMAIN w.results : Approve(x) \/ AskForChanges(x)
  \/ \E e \in DOMAIN w.effects : Reconcile(e)
  \/ Send
  \/ Respond

WorkflowSpec == WorkflowInit /\ [][WorkflowNext]_workflowVars

(***************************************************************************)
(* Properties                                                              *)
(***************************************************************************)

\* The tables refer to each other, and to the Agents of the workstream.
WorkflowTypeOK ==
  /\ \A a \in Names(w) : Status(w, a) \in AgentStatus
  /\ \A t \in DOMAIN w.tasks : w.tasks[t].status \in TaskStatus
  /\ \A r \in DOMAIN w.runs :
        /\ w.runs[r].task \in DOMAIN w.tasks
        /\ w.runs[r].agent \in Names(w)
        /\ w.runs[r].status \in RunStatus
  /\ \A x \in DOMAIN w.results :
        /\ w.results[x].run \in DOMAIN w.runs
        /\ w.results[x].state \in ReviewState
  /\ pending = NoPending \/ pending.responder \in Names(w)
  /\ selectedAgent \in Names(w) \cup {None}
  /\ selectedTask = NoId \/ selectedTask \in DOMAIN w.tasks
  /\ locks \subseteq DOMAIN w.tasks

\* The demo shows Agents at work that own no run of their workstream.
ShownBusy(a) == Status(seed, a) = "running" /\ ~BusyWithRun(seed, a)

\* No running run is left with an Agent shown free, failed or stopped; and an Agent
\* that was not shown busy from the start (ShownBusy) stays shown running no longer
\* than it has a running run or a message to answer, whatever runs end while the
\* answer is delayed.  Who has only a message to answer need not be shown running:
\* submitting its last run makes an Agent idle while the answer is still owed
\* (workspace.ts:1670).  No Agent runs two runs (getAgentRunUnavailableReason,
\* completeAgentResponse, failTaskRun).
StatusTellsTruth ==
  /\ \A a \in Names(w) :
        /\ BusyWithRun(w, a) => Status(w, a) = "running"
        /\ Status(w, a) = "running" =>
              BusyWithRun(w, a) \/ pending.responder = a \/ ShownBusy(a)
  /\ \A r, s \in DOMAIN w.runs :
        (/\ w.runs[r].status = "running" /\ w.runs[s].status = "running"
         /\ w.runs[r].agent = w.runs[s].agent) => r = s

HasReview(t) ==
  \E x \in DOMAIN w.results :
     w.results[x].task = t /\ w.results[x].state = "pending"

\* A task that was ever run is done, or has exactly one of a running run, a
\* result to review, an effect to reconcile, and a retry or follow-up to
\* start: the human is never left without a next step, nor offered two that
\* exclude each other (getExecutableHumanActions, canRetryTask).
OneWayForward ==
  \A t \in DOMAIN w.tasks :
     (RunsOf(w, t) # {} /\ w.tasks[t].status # "done") =>
        Cardinality({k \in {"run", "review", "start", "reconcile"} :
           CASE k = "run"    -> HasRunning(w, t)
             [] k = "review" -> HasReview(t)
             [] k = "start"  -> CanRetryTask(w, t) \/ CanStartFollowUpRun(w, t)
             [] k = "reconcile" -> HasUncertain(w, t)}) = 1

\* What the human reviews is the newest evidence: a result waits for review
\* exactly while its task is shown in review, it belongs to the task's latest
\* run, and a task is done only by approval of the latest run's result.
ReviewIsLatest ==
  /\ \A t \in DOMAIN w.tasks :
        /\ TaskDisplayState(w, t) = "in-review" <=> HasReview(t)
        /\ TaskDisplayState(w, t) = "done" =>
              \E x \in DOMAIN w.results :
                 w.results[x].run = LatestRun(w, t) /\ w.results[x].state = "approved"
  /\ \A x \in DOMAIN w.results :
        w.results[x].state = "pending" =>
           w.results[x].run = LatestRun(w, w.results[x].task)

\* A task lists its runs in the order of their attempts, 1, 2, 3, ..., no
\* number taken twice: a retry never rewrites the attempt that failed.
AttemptsCount ==
  \A t \in DOMAIN w.tasks :
     LET runs == w.tasks[t].runs
     IN  /\ RunsOf(w, t) = Range(runs)
         /\ \A i \in DOMAIN runs : w.runs[runs[i]].attempt = i

\* A run that ended and a result that was reviewed stay as they are, and no
\* run of a task with an uncertain effect begins.
KeepsHistory ==
  /\ \A r \in DOMAIN w.runs :
        /\ r \in DOMAIN w'.runs
        /\ w.runs[r].status # "running" => w'.runs[r] = w.runs[r]
  /\ \A x \in DOMAIN w.results :
        /\ x \in DOMAIN w'.results
        /\ w.results[x].state # "pending" => w'.results[x] = w.results[x]
  /\ \A r \in DOMAIN w'.runs \ DOMAIN w.runs :
        ~HasUncertain(w, w'.runs[r].task)

HistoryKept == [][KeepsHistory]_workflowVars

\* A delayed response posts nothing exactly when its Agent failed meanwhile,
\* and leaves every run, task and result alone (completeAgentResponse).
OnlyConverses ==
  (pending # NoPending /\ pending' = NoPending) =>
    /\ <<w'.tasks, w'.runs, w'.results>> = <<w.tasks, w.runs, w.results>>
    /\ (w'.messages = w.messages) <=> (Status(w, pending.responder) = "error")

ResponseIsConversation == [][OnlyConverses]_workflowVars

\* Whatever runs, reviews and responses interleave, the tables tell one story.
WorkflowSafety ==
  /\ WorkflowTypeOK
  /\ StatusTellsTruth
  /\ OneWayForward
  /\ ReviewIsLatest
  /\ AttemptsCount

=============================================================================
