# A TLA+ verification of Torsor

Torsor is a durable collaboration environment for people and software agents.
A SQLite-backed *Kernel* keeps everything that must survive a crash; *Runtimes*
poll it, start provider processes for agents and report what became of them; a
server and a web client show the result to people. Correctness rests on rules
about who may do what, when, and with which proof of authority, while Runtimes
crash, stall, retry and present stale receipts, connections break, windows are
reloaded, and the wall clock jumps in both directions.

This directory models those rules, checks them with TLC on small instances and
proves the most important ones with TLAPS for every value of the constants.

- [Inventory](#inventory)
- [Modules and the code](#modules-and-the-code)
- [Runs](#runs)
- [Fairness and liveness](#fairness-and-liveness)
- [Proofs](#proofs)
- [Where the code disagrees with its documents](#where-the-code-disagrees-with-its-documents)
- [Not modelled](#not-modelled)
- [Plan](#plan)

To repeat a check: `tlc -config MCLeases.cfg MCLeases`; to repeat a proof:
`tlapm RunExecutionProofs.tla`. `PROJECT.json` lists components, runs, mutants, the
line of code behind every definition, hazards, findings and theorems.

## Inventory

### The Kernel (`src/packages/kernel/src`)

Every command runs inside one `BEGIN IMMEDIATE` transaction. A plain
`KernelError` rolls it back. A `DurableKernelError` commits what was done so far
and is thrown afterwards: some refusals must leave a trace. Results are cached
per principal, command and idempotency key, so every command may be retried.

| Component | State | Operations | What makes it correct |
|---|---|---|---|
| Writer leases (`worktree-writer-leases.ts`) | one row per Worktree (status, revision, generation, fencing token, holder, secret, expiry, quarantine secret) and an append-only ledger | acquire, renew, release, quarantine, resolve, query; expiry is written lazily by whoever meets it | one live authority, the newest ever granted; an ended hold stays ended; the ledger explains the row |
| Physical worktrees (`physical-worktrees.ts`) | directory state, executions with their state and revocation, append-only events; in memory: process-local denials | register, start, record, recover, revoke, the gates of every writer command | never two writers in one directory; lost authority never comes back; success only over a quiet directory |
| Outbox (`outbox.ts`) | rows in commit order with lease and acknowledgement, cached claims | enqueue, claim, replayed claim, acknowledge, delivery check | at-least-once delivery in commit order; a takeover fences the former holder |
| Runs (`runs.ts`) | Run row with revision, inputs with disposition | send, withdraw, complete, wait, fail, cancel, reply | every input gets a disposition from an Activation that saw it; revisions guard decisions |
| Activations and ProviderAttempts (`execution.ts`) | attempts with expiry, finish and revocation; provider attempts with status | start, finish, settle, fail, park, activity | at most one Activation can be live; older ones never revive |
| Attentions and domains (`attentions.ts`, `invariants.ts`, `schema.ts`) | Attention with handler lease; one fence per Agent and Thread with a counter kept by triggers | claim, decide, recover | executions of a domain never overlap; recovery is never blocked by a trigger's `RAISE(ABORT)` |
| Command execution (`kernel.ts`, `database.ts`) | `idempotency_records` | execute, replay, writer gate | a retry does nothing twice, and answers nothing without authority |
| Causal limits, collaboration (`causal-limits.ts`, `collaboration.ts`) | messages, revisions, delegation depth, Run counts, Thread cursors | post, edit, delete, reply, decide, admit | limits hold under any order of creation and completion; nobody is asked twice; no change hides from a cursor |
| Projections, history (`projections.ts`, `history.ts`) | versions of every changed entity, at the last event of each command | versions, snapshots, pages | the past is shown as it was; pages add up to one snapshot |
| Artifacts (`artifacts.ts`, `artifact-storage.ts`) | content-addressed files, descriptors | stage, link, flush, publish, read | a descriptor never names missing bytes, even after a power loss |
| Configuration (`configuration.ts`) | agents and their config revisions | adopt | an adopted configuration revokes what ran under the former |

### Around the Kernel

| Component | State | Operations | Hard behaviour |
|---|---|---|---|
| Agent runtime (`agent-runtime/src/runtime.ts`) | leases it believes it holds, a scheduler of Attentions, continuations of listings | drain the outbox, deliver inputs, reconcile, park; discover and dispatch Attentions | every await is a gap for another Host, a person, the Provider, the clock or a crash |
| Worktree executor and controlled processes | the supervised child, an observed stop that is not yet persisted | start, monitor, stop, settle, recover | a stop must be stored exactly when it is certain; several explanations of one stop race |
| Copilot adapter | ACP session, pending requests, queue of activity | prompt, receive frames, abort, stop, apply actions | frames, writes, aborts and the exit of the process come in any order |
| Capability bridge | the Activation and revision it presents | publish, read | capabilities must die with the authority of their Activation |
| Operational logging | bounded queue, current and previous file | log, write, rotate, settle | overflow, failed system calls, a stop between any two of them |
| Runtime host (`local-runtime-host.ts`) | phase, owned resources, promises owed | start, pass, close, cleanup | closes and failures meet every await of the lifecycle |
| Event streams (`server.ts`, `controller.ts`) | cursor, page, chunks in flight, session | bootstrap, page, checkpoint, drain, resume | lost connections, hidden events, backpressure, revoked sessions |
| Web client (`apps/web/src/controller.ts` and models) | projections with versions, pending and recoverable commands, sessions | invalidate, read, retry, select; submit, recover, sign in and out | late and superseded answers, lost requests, several windows, reloads |
| Prototype (`src/prototype`) | an in-memory product and a page over it | runs, retries, reviews; sends, edits, threads | delayed responses against whatever the human does meanwhile |

### How they interact

A message that mentions an agent raises an *Attention*. A Runtime finds it by
its discovery rounds, claims it under a handler lease, starts an *Activation*
for it and a *ProviderAttempt* under that; the agent decides the Attention by
ignoring it, by creating a *Run* (within the causal limits) or by sending an
input to one. Every input is announced in the *outbox*. A Runtime that leases
the announcement alone at the frontier may start the next Activation of the Run;
it supersedes the previous ones. If the Run writes to a *Worktree*, the Runtime
acquires its *writer lease* first and registers each process it starts as an
*execution*; from then on every command of that Activation passes a gate that
checks execution, directory, lease and source Activation together, and records
the loss of authority for good when one of them fails. Every command leaves
versions of what it changed and public events; the server streams the events to
browsers, whose controllers read the projections the events invalidate.

What is hard about it: authority is checked in one transaction and used outside
of it; expiry is lazy and the clock may go back; receipts are presented late,
twice or by somebody else; the process that knows that a child runs may die
with that knowledge; cached results are replayed after the world moved on;
counters are kept by triggers across three tables; answers arrive after the
question was withdrawn. `PROJECT.json` lists each of these hazards at its line,
with the properties that would catch it.

## Modules and the code

| Module | Models | Composes |
|---|---|---|
| `WriterLease` | the lease row and its ledger | |
| `PhysicalWorktree` | one managed directory, its executions, the gates, crashes | EXTENDS `WriterLease`, implements it |
| `DeliveryLog` | abstract: a log that is consumed in order | |
| `Outbox` | the outbox table, claims and acknowledgements | implements `DeliveryLog` |
| `RunExecution` | one Run with inputs, Activations, ProviderAttempts | EXTENDS `Outbox` |
| `AttentionDomain` | the Attentions of one Agent in one Thread and their fence | |
| `Collaboration` | Messages, mentions, Attentions and Runs of a Channel, commands and their replays | |
| `ReportRegister` | abstract: a register of reports that only grows | |
| `ArtifactPublication` | finalization, storage and publication of reports, power loss | implements `ReportRegister` |
| `ProjectionHistory`, `ProjectionPages` | versions at command boundaries; a paged listing | the second EXTENDS the first |
| `RunDelivery` | outbox drain and delivery of a Run's inputs by Runtimes | |
| `DeliveryScenes` | the circumstances in which that is looked at: any Hosts, or one alone | EXTENDS `RunDelivery` |
| `AttentionQueue`, `AttentionDiscovery` | the scheduler; discovery rounds | the second EXTENDS the first |
| `ControlledExecution` | the executor's process and its settlement | |
| `CopilotSession` | one execution of the Copilot ACP adapter | |
| `HostLifecycle`, `OperationalLog`, `EventStream` | the runtime host, its log, its streams | |
| `WebProjections`, `HumanCommands` | what the web client shows; what it sends | |
| `PrototypeDomain`, `PrototypeRuns`, `PrototypeChat` | the prototype's pure functions; its work; its conversations | the latter two EXTEND the first |
| `MC...` | the instances TLC checks | |
| `...Proofs` | the proofs | the module they are named after and those it EXTENDS; `DeliveryProofs` of `DeliveryScenes`, `BrowserProofs` of the web client's modules, `ServerProofs`, `ProcessProofs` and `KernelProofs` of `MCServer`, `MCProcesses` and `MCKernel` |

Common conventions:

- **A Kernel command is one step**, because it is one transaction. Everything it
  does, including expiry it meets, events it appends and trailing outbox rows, is
  in that step. A command refused with a rollback is a stuttering step and has no
  action; one refused *durably* is an action (`RefuseLapsed`, `AcquireBusy`,
  `QuarantineStale`, `LoseAuthority` and its callers).
- **In asynchronous code a step is what runs between two awaits**, and a
  system call of the storage or the log is a step of its own.
- **Receipts are never taken back.** `grants`, `barriers` and `receipts` collect
  everything ever handed out, and every command may present any of them at any
  later time. Delay, duplication, reordering and retries need no extra machinery.
- **The clock of the Kernel's leases is any number in a range and moves both
  ways** (`Tick`, `TimeMoves`): the Kernel reads wall time.
- **Secrets are numbers drawn in order**, so a fresh secret differs from all
  earlier ones and nobody can guess one; 0 stands for a NULL column.
- Every bound is a constant named `Max...`, tested in a guard.
- Definitions marked *Mutant* are plausible bugs. They are used by nothing; each
  property is known to fail when the definition they vary is replaced by them.

**`WriterLease`.** `lease` is the row (status `None`: no row yet), `ledger` the
event table. `Existing` and `ExistingLedger` are what `expireIfNeeded` leaves;
`Commit` writes the row and its event. `Accepts` is `requireLiveAuthority`.
`idle`, the verdict of `assertPhysicalWorktreeIdle`, is a parameter: either
value when the lease is checked alone, the real one in `PhysicalWorktree`.

**`PhysicalWorktree`.** `execs` is `worktree_executions`; its `abnormal` flag
says that the append-only event table holds an Uncertain or ForceTerminated
event. `denied` is the process-local revocation set, `held` the executions
whose executor still has its receipt; `Crash` clears both. `lost` is a history
variable: the Activations that a commit told `WriterAuthorityLost`. The source
Run is abstracted to the generation and phase of its latest Activation.
`Passes` and `LoseAuthority` are the two outcomes of
`assertActivationWriterAuthority`. Commands that pass the gate and change
nothing here (activity, late output, a mutation of files) have no action; their
refusals have, because a refusal revokes.

**`Outbox`.** Rows are named by their sequence. `claims` is the cache entry of
each claim by idempotency key, rewritten when a replay leases the batch again
(`resolveCachedOutboxClaim`). The command `AcknowledgeOutboxEvents` also lists
the events; only a list that is exactly what is held under the token passes, so
the list is no parameter.

**`RunExecution`.** `Init` is the Run as `ResolveAttentionWithRun` creates it.
A command with an outdated revision is refused, hence a stuttering step;
`RevisionGuardsDecisions` says why that is enough. `supplied` of an Activation is
the highest input sequence it was given.

**`AttentionDomain`.** `fence` is the row of `attention_domain_fences`;
`tracked` and `unsettled` of an Activation are the existence and the counter of
its row in `attention_recovery_executions`. The triggers of `schema.ts` are part
of the actions whose statements fire them.

**`Collaboration`.** `store` is the database of one Channel. Activations and
leases are implied: an open Attention can be decided and an Active Run be
executed by its Agent. RunInputs are counted. `Keys` are the idempotency keys
whose cached result is kept; `Once` is a key that is never used again, so its
record need not be kept. The writer gate comes before the cache lookup, as in
`kernel.execute`. The limits are stored by whoever opens the database first. `scene`
is chosen once: which commands are sent, whom Messages mention, whether cursors
are stated, and the bounds.

**`ArtifactPublication`.** `calls` are the calls under way, from the check over
the stream and the system calls of `artifact-storage.ts` to the commit; a crash
loses what was not flushed. The writer gate of `PublishArtifact` is
`PhysicalWorktree`'s, and of the Run only what grants authority is kept. A
storage read is one step; a database commit is durable.

**`ProjectionHistory`, `ProjectionPages`.** A command is the rows it changes and
the events it emits; versions follow from the events by the operators of
`history.ts`, so a change no event leads to would be missing later.
`Init` has Attentions opened, claimed and under way. `Traced` says whether
commands pass on the correlation that caused them, as the Runtime does.
`ListThreadProjections` pages alike; `ResolveAttentionWithExistingRun` and
message events are left out.

**`RunDelivery`.** The Kernel is `RunExecution` reduced to what a Runtime can
tell apart; every Kernel call is a step. `scene` fixes what the surroundings do:
whether the adapter recognizes a repeated request, and whether people withdraw
inputs. With two Hosts, one that lost its lease can finish the Activation of the
other during reconciliation, so `AckedIsSettled` is stated for one. Only the
test double is idempotent; with it a recovery may leave an older attempt Unknown,
and only then is a settled input not required.

**`AttentionQueue`, `AttentionDiscovery`.** The methods of `AttentionScheduler`
run to completion between awaits. `EvictForNew` cannot happen with the limits
`dispatchOpenAttentions` sets. A round resumed from a continuation may report
that nothing was left to do although a lease lapsed behind its cursor; the next
round finds it.

**`ControlledExecution`.** Handles of earlier executions are not kept: they can
only release a lease whose generation is no longer theirs. Microtasks inside a
settlement are one step.

**`CopilotSession`.** A frame is received whole and reduced to its effect; every
breach of protocol or limit is `"bad"`. Launch, environment and prompt building
are left out.

**`HostLifecycle`, `OperationalLog`, `EventStream`.** The host sees of its
resources only that they begin, end or fail; request handlers are not awaited by
the shutdown. An append of the log is atomic; the closed schema of events is the
size of a line. A step of a stream goes from one write or sleep to the next:
Kernel queries are synchronous. Heartbeats are left out; one session, one
`EventSource`; the last connection the bound allows does not break.

**`WebProjections`, `HumanCommands`.** Two projections stand for all. A session
and its CSRF token are one number. A post is not bound to a Principal by its
key; rejections other than Forbidden and versions of a refresh are abstracted.

**Prototype.** `failTaskRun` and `submitRunResult` are exported by the domain and
driven by its tests. The timer only queues updates until `Render`; a click is
rendered before the next event. Menus, dialogs, bodies and notices are left out.

## Runs

A run that covers several components moves one of them per behaviour, chosen in
its initial state (`subject`), and leaves the others initial. Its states are the
sum of the components' states and each has all its behaviours. Where one
component is asked several questions, it is instantiated once per question with
other constants (`INSTANCE ... WITH`), so that each question has the bounds it
needs. Some bounds are conjuncts of the MC module's `Next`, next to the
component's own action.

| Run | Instance | Shows |
|---|---|---|
| `leases` | lease: 2 Runtimes, durations 1 and 2, clock 0..3, 7 revisions; outbox: 2 Runtimes, batches of 1 to 3, clock 0..2, 4 events, 4 tokens | `NoRevival`, `NewestAuthority`, `LedgerExplainsRow`, `AuthorityHandover`; `SoleConsumer`, `TakeoverFences`, and that the outbox implements `DeliveryLog` (`FifoDelivery`) |
| `physical` | 2 Runtimes, 2 executions, 1 Activation, clock 0..1, 4 revisions | `AuthorityLossIsFinal`, `CleanPublication`, `PhysicalExclusion`, and that the composition implements `WriterLease` |
| `run_execution` | 1 Runtime, 2 inputs, 2 Activations, 1 ProviderAttempt, 4 events, 2 tokens | `RunSafety`, `RevisionGuardsDecisions` |
| `attention_domain` | 2 Attentions, durations 1 and 2, clock 0..3, 3 leases, 3 attempts | `DomainSafety`, `DecidedOnce` |
| `runtime` | delivery: 2 inputs, 1 fault, 2 Hosts or 1; discovery: 3 Projects, 5 Attentions in 4 domains, 4 open at once, pages of 2, a buffer of 2 with a reserve of 1, one dispatched at a time | `DeliveryIsSafe`, `DiscoverySafety`, and that every announced input is dealt with (`EventsAreConsumed`) and every Attention decided |
| `processes` | executor: 2 starts without, 1 with a busy database; session: 3 policies, 2 causes, 3 plans, 5 frames | `ExecutionSafety`, `SessionSafety`, `ExecutionSettles`, `SessionEnds` |
| `browser` | projections: 2 Threads, 1 event, 2 user steps or failures; commands: one kind at a time, 2 submissions and a disturbance (a fault, a change by others of the entity or of what is permitted, a reload), two of them for commands of collaboration; or 2 Humans in 2 sessions | `ProjectionSafety`, `CommandSafety`, `InvalidationsEnd`, `CallsEnd` |
| `server` | host: any 3 failures, 3 closes, 2 requests, 2 passes; log: 4 lines of 1 to 3 bytes in files of 3, 2 failed calls and a crash; stream: 3 events, pages of 2, buffer of 2, 2 connections, 1 failure | `HostIsSafe`, `StreamSafety`, `StepsAreSound`, `EveryoneIsAnswered`, `StreamsComeToAnEnd` |
| `kernel` | causes: 2 Agents, 3 messages, 3 Runs, depth and count limits 1; threads: 2 messages of 3 revisions; retries: 1 key, writer gate, cursors; reports: 2 calls, 2 keys, 2 contents, 1 crash, and one reader | `CollaborationSafety`, `ReportSafety`, `StepsKeepAuthority`, and that publication implements `ReportRegister` (`RegisterSpec`) |
| `pages` | one Run through 12 events with 2 Activations; two Runs listed one by one over 13 events, with and without shared correlations | `PastIsTold`, `PagesAddUp` |
| `pages_passed` | the listing with shared correlations | expected violation of `NothingPassedOver`, see below |
| `prototype` | one workstream: 2 new runs, 1 pending message; conversations: 4 messages with everything done to two, 7 with answers only, and with a workstream created | `PrototypeIsSound`, `WorkGoesOn` |

Properties named `...Safety`, `...AreSound` are conjunctions of the parts that
the component's module states one by one, each with a comment on the code it is
about: for instance `RunSafety` is `TerminalOwesNothing`, `OnlyLatestUnrevoked`,
`CompletedConsidered` and `AttemptInputsSupplied` with the types.

**Why the bounds are enough.** Two Runtimes give a holder and a competitor; a
third would behave like the second. Seven revisions let a lease be acquired,
lapse, be acquired again, be quarantined, resolved and acquired a third time.
A clock of two or more values has a before, an at and an after of some expiry
(comparisons are with `now` only), and moves back. Two executions give a former
and a present one. Four events and batches of up to three let batches overlap
partly after a takeover. Two inputs allow one before and one during an
Activation. Two Attentions and three leases allow a takeover and a return. One
crash or failure at every possible step is what recovery code is written for;
where a second failure matters (the host, the log) there are two or three. Two
calls with two keys and two contents give every coincidence of a report. Five
Attentions in four domains of three Projects are more than a page shows, than the
buffer holds and than is dispatched: pages are cut in the middle, domains wait
that are not active, and a waiting domain gives way to another of its Project. Thirteen events are a Run created after each
of two pages and changed after that. The bounds of the leases, the outbox and
the directory matter little in the end: their properties are proved for all
values.

Deadlock is checked in the runs of leases, directory, Run and Attention: the
clock can always move. The other components may come to rest: a host that
finished, a session that ended, a page nobody touches.

## Fairness and liveness

The Kernel promises no progress by itself: it only answers. Progress is what the
loops around it promise, and fairness is assumed only of steps that the program,
its event loop or its timers schedule:

- `RunDelivery`: each step of a Host's loop, and the lapse of a lease (a clock
  that goes on). Nothing is assumed of people, Providers, faults or crashes.
- `AttentionDiscovery`: the Runtime's round, the end of a dispatch (its deadline
  aborts it) and the lapse of handler leases.
- `ControlledExecution`: the event loop, its timers (lease expiry, deadline,
  grace periods, retry of a settlement). Nothing of the child, the caller or a
  cancellation.
- `CopilotSession`: the adapter's own steps, the end of a Kernel call, and that
  stopping an owned process ends one way or the other. Nothing is assumed of the
  pipe to a Provider that runs: `endInput` awaits it without a timer before any
  signal is sent, so `AbortEnds` and `FinishEnds` except a Provider that runs for
  ever and never reads (`Unread`). The pipe to a process that is gone does end.
- `HostLifecycle`: continuations of the lifecycle, the end of a pass and of the
  requests, the close of service and executor. `OperationalLog`: the sink's system
  calls and the settling of promises. `EventStream`: handlers, aborts, the
  browser's receipts and reconnections.
- `WebProjections`: the client's continuations, an answer or failure of each
  request, and timers. `HumanCommands`: the same, and the arrival of a request
  whose answer the window waits for.
- `PrototypeChat`: the response timer and the render.

In the MC modules fairness is stated for the subject that moves
(`WF_vars(subject = "host" /\ Lifecycle /\ NotHost)`). Symmetry is used only in
runs without liveness.

## Proofs

Every theorem is about a specification of the model, for every value of its
constants: the bounds are arbitrary, so the theorems cover any number of
revisions, events, executions, Activations, calls, lines and frames. The only
assumptions are the `ASSUME`s of the modules, which TLC evaluates on every run:
durations are positive, NULL is nobody's name, bounds are naturals; a Run has at
least one input (`RunAssumption`) and a report at least one Activation and
revision to be published from (`PublicationAssumption`); a page and a buffer of
the stream hold something (`StreamAssumption`); a line of the log is not empty
and fits the file (`OperationalLogAssumption`); there is an executor process
(`ExecutionAssumption`); an action envelope is a sequence of strings
(`SessionAssumption`); commands about Runs and commands of collaboration are
different commands (`HumanCommandsAssumption`); Humans are not Agents, of whom there are
finitely many, and at least one Run is allowed below a root
(`CollaborationAssumption`).

Each proof has the same shape: an inductive invariant that TLC checked first, one
lemma for each action (or for a class of actions that change the same things)
that it is kept, and one that it implies what the run checks.

**`PhysicalWorktreeProofs`, the lease.** `NewestAuthority` and `NoRevival` are not inductive:
they speak about receipts only while one is accepted, and a step that makes one
acceptable needs to know about the receipts before it. `LeaseInv` adds
`NothingAhead` (no receipt, barrier or event is ahead of the row, and no two
authorities share a fencing token) and `HoldIsNewest` (while the row is Active,
barriers and ended holds are strictly behind it). An acquisition preserves it
because it increases generation and fencing token beyond everything before; an
end of a hold because nothing has to be newest any more. `AuthorityHandover` is
an action property from the same invariant. `LedgerExplainsRow` is inductive
with the types; the difficulty is the transaction that appends two events
(`ExistingExplained`, then `HistoryExtends` once more).

**`PhysicalWorktreeProofs`, the directory.** First `ImplementsLease`: each step outside the
lease leaves it alone or is its `GetLease`, so `LeaseInv` may be used. `PhysInv`
then adds `OneAfterAnother` (only the last execution may be unsettled, and
Activations never go back along the table), `AbnormalRevoked`, `LossIsDurable`
(a lost Activation has a revoked execution in the database), `ExecsBehind` and
`SourceBegins`. Steps fall in three classes: those that move no execution
(`QuietKeepsInv`), `recordState` (`RecordKeepsInv`) and the start of an
execution (`StartKeepsInv`). `CleanPublication` is where `OneAfterAnother` is
needed: an unsettled execution would be the last one, so it would belong to the
very Activation whose executions have all stopped.

**`RunExecutionProofs`, the outbox.** `OutboxInv` adds `TokensDrawn` (no row or receipt has a token
not drawn yet), which makes a fresh token different from all, and
`BatchesFenced` (a row once handed out under a token is acknowledged or carries
that token or a later one), from which `TakeoverFences` follows. `Claim` and
`ReplayClaim` are both shown to be a `HandsOut` step, so the argument is made
once. `SoleConsumer` needs no history: two leases that both pass a check both
hold the oldest pending row. `FifoDelivery` is the refinement of
`DeliveryLog`: `Enqueue` maps to `AppendFact`, `Acknowledge` to `Consume`, the
rest to stuttering.

**`RunExecutionProofs`, the Run.** Every step of the composition is a step of the outbox
(`StepsAreOutboxSteps`), so `OutboxInv` and what follows from it hold here without
a second proof (`DeliveryStaysFenced`). `RunInv` adds `NothingConsidered` (before
the Run completes no input has been considered, which is why a completion
considered all of them), `GenerationCounts` (the generation is the number of
Activations, so "the latest" is one) and `AttemptsBelong`.
`RevisionGuardsDecisions` is an action property from the same invariant: whatever
changes a Run's state or its inputs raises its revision by one, and nothing
changes a Run that is over.

**`AttentionDomainProofs`.** Recovery settles what the fence counts, and triggers
in three tables keep those counts. `DomainInv` says what they count: what runs
belongs to one Activation of the fence's Attention and its counter is the
fence's (`RunningCounted`); an Activation that runs nothing counts nothing, and
only a revoked one is no longer counted (`CountersIdle`); a lease is used for one
Activation (`OneActivationPerLease`); a missing fence row and a decided Attention
leave nothing over (`NothingLeftOver`).

**`KernelProofs`, the commands.** Commands are sent again at any time, so what they
refer to must still be there (`CommandOk`, `RecordsOk`): no command removes a
Message or a Run or gives a Run another owner (`Grows`). `StoreOk` says what the tables are: Attentions are
exactly those of the revisions that mention an Agent (`AskedOk`), each Run stands where the
Attention that made it puts it (`RunsOk`, `Caused`), and no root has more Runs under
way than the limit (`BoundOk`), for which a decided Run must not come back
(`RunChanged`). The same lemmas show that a command changes one Thread only and moves its
cursor (`Moves`), which is what `CursorTellsAll` needs. `NoAnswerWithoutAuthority`
rests on a record belonging to the Run's owner: for anyone else the writer gate
would not be asked. The run moves commands or reports, so both theorems hold of
it (`KernelIsBoth`).

**`KernelProofs`, the reports.** `ReportInv` is stated by owner: Runs, calls,
storage, records, reads. `StorageInv` carries the argument for power loss: a name
is never durable before its bytes are, and a call that stored its report has it
kept whatever other calls of the same content do. `RegisterSpecHolds` is the
refinement of `ReportRegister`: only the commit of a new record and the first
rename of a content are register steps.

**`ServerProofs`.** `MCServer` lets host, log and streams move independently, and
each has its own invariant; `ServerInv` is their conjunction. *Host*: that a
finished host closed everything and saw nothing fail but the log of a request rests
on where every other failure is remembered until the lifecycle ends
(`FailuresRemembered`: the host, the service, the executor or the position of
`#runLifecycle`) and on the cleanup not having begun before the race ended
(`LifecycleKnows`). *Streams*: handler, wire,
page and log continue one another without gap or overlap (`WireInv`,
`BrowserInv`, `LiveInv`). *Log*: what the files hold is a run of the lines
without a gap, the queue continues it (`QueueInv`, `FilesInv`, `KeptInv`). The
size of the current file is a variable, as in the code, and not a fold over its
lines: what a fold computes could not be proved.

**`ProcessProofs`.** *Controlled process*: `EvidenceOf` says what a handle knows of
its tree (evidence is of its own tree's end, and a stop found without a child
means that none was spawned), `SettlementOf` how far `#persistStop` has come,
`CauseOf` what was said of the cause. `LaunchInv` ties the handle to an execution of
this process, without which a restart could act on another's. The operations that every
stop shares, `Revoke` and `Drain`, are lemmas (`StopKeeps`), used by each
caller, timer and listener. *Session*: `Drained` (process closed, queue empty,
tools ended) holds from the first action on, since nothing is received from a
closed process; the applied actions are a prefix of the plan, which is the one
output (`ActionsWhole`); and nothing is accepted after an abort (`AbortHeard`).
The run moves one or the other, so both theorems hold of it
(`StepsAreOfOne`).

**`DeliveryProofs`.** A Host's step rests on what the Kernel told it some steps
ago, so `DeliveryInv` says for each program counter what is still true of what
the Host holds (`HostOk`) and of the delivery it read (`ViewOk`), however far the
other Hosts, the people and the clock have gone since. Two classes of steps
keep that view: those that change nothing it depends on (`Calm`) and those of
another Host that only make it stale (`Undisturbed`); a stale view can do no harm because
the Kernel compares revisions and fencing tokens. `AttemptsInv` and `SentInv` carry
what is promised of Providers: an input reaches an adapter that does not
recognize repetitions at most once, because an attempt at the frontier that may
have started is the last one. For the Host that works alone `LoneInv` adds that
an open attempt is the newest and belongs to the frontier, from which it follows
that an acknowledged event left none open.

**`BrowserProofs`, the commands.** What keeps a window from doing twice what
the user asked once, or from telling what is not so, is the agreement of
everything that goes by an idempotency key: calls under way, requests the window
gave up on, and entries in memory and in session storage (`Claims`). A key stands
for one intention at one revision and an intention for one key (`KeysOk`); what an
entry may still submit is later than all that was ever meant, or has its key
(`EntryOk`); answers are true and stay so (`AnswersOk`); and an intention whose fate
is not uncertain left no request behind (`CertainOk`). What the server permits may
change at any time, so nothing rests on it: a refusal counts as final where no
earlier request of the intention is left, and after a stale revision because
revisions only grow (`Hopeless`). Handlers change the window
in several moves, so the invariant is stated of any server, window, late requests
and use of the bounds (`CommandOk`), and there is a lemma for each move rather
than for each handler.

### Only model-checked

- Everything under fairness (`EventsAreConsumed`, `EveryAttentionDecided`,
  `ExecutionSettles`, `SessionEnds`, `InvalidationsEnd`, `CallsEnd`,
  `EveryoneIsAnswered`, `StreamsComeToAnEnd`, `WorkGoesOn`): the provers have no
  rule for `WF` and `ENABLED`.
- `DiscoverySafety`: `AttentionQueue` is written with a recursive operator, as the
  code it models is, and the SMT backend does not accept a module that reaches one.
- `PagesAddUp`, which compares with a reference definition over bounded inputs: it
  needs induction over data.
- `PastIsTold` and `PrototypeIsSound`: their proofs are not written.
- `ProjectionSafety`, whose inductive invariant (what is shown of a projection,
  and what any unfinished request may still show of it, is as new as every event
  that counts as handled) is not proved.

## Where the code disagrees with its documents

One disagreement is a run of its own. `pages_passed`: `resolvePublicSnapshot`
(`invariants.ts:704`) takes the last event of a correlation for the end of a
command, and page cursors go through it. The Runtime gives all commands of a
Run the correlation that created it, so a cursor moves to that Run's newest
event: Runs created in between are never listed, or the page is refused. With a
correlation per command, as in the Kernel's tests, pages add up (`pages`).

The others were met while modelling, as counterexamples to the property named or
implied; the runs check what remains true.

- *Later pages may show a later state* when the advertised snapshot event's
  correlation is used again (`PagesShareSnapshot` with `Traced`), although
  `kernel/README.md:103` says later pages reuse the snapshot.
- *A report cannot always be recovered.* The bridge presents the Run revision
  its Activation started with, and the revision is part of the hashed payload
  (`capability-bridge.ts:89`); once the Run moved on, a retry is a Conflict.
  `kernel/README.md:323` says a new Activation may recover the result.
- *A refusal after an unknown outcome does not always preserve uncertainty*
  (`controller.ts:1076` to `1082`): a `forbidden` answer to the retry deletes the
  pending request, although the first request may have been committed, or may be
  after the retry, when what is permitted changes in between.
  `docs/prototype/001-overview.md` (44.2.2, item 5) says that an authorization
  failure after an unknown outcome preserves uncertainty. The model reaches such a
  commit; `RefusedIsNotDone` sets these refusals aside, as it does those of a
  control whose request session storage keeps because it cannot be written.
- *A Provider can hold its stop for ever* (`copilot-acp-adapter.ts:1489`): a
  process that runs without reading its full input pipe keeps `endInput` waiting,
  and the kill comes after it. `agent-runtime/README.md:159` says that pipe
  failures are folded into the same failure and cleanup path.
- *`finished` may never settle* (`local-runtime-host.ts:179`): an event that cannot be
  logged inside the catch leaves the lifecycle through its `finally`.
  `apps/server/README.md:11` says such failures reject. `FinishedSettles` is
  therefore conditioned on the host's own log.
- *The Kernel may be closed under a running pass* (`local-runtime-host.ts:170`) when
  the HTTP service fails, which only a log failure causes;
  `apps/server/README.md:9` says shutdown waits. `KernelOutlivesThePass` is
  therefore conditioned on the log of requests.
- *A log failure of a request in progress during shutdown goes unnoticed*
  (`server.ts:1009`): the host ends as resolved. `docs/specs/operational-logging.md:18`
  says it rejects the lifecycle. `FinishedMeansClosed` excepts the log of a request
  and nothing else.
- *A created workstream loses a response* (prototype `App.tsx:3081`): the product
  of the last render is set as a value, over what a timer added since. And it
  *leaves the thread pane open* on an id the new workstream will use again
  (`App.tsx:3080`). `KeepsWhatIsPosted`, `AnsweredOnce`, `ResponderRestored` and
  `ThreadIsLocal` are therefore checked without creation.

## Not modelled

- Rows that no decision reads: `delivery_attempts`, late output, reasons and
  evidence texts.
- Directory identity and paths: one registered directory is one flag. Process
  ids and operating system specifics.
- Principals' permissions and input validation: only well-formed commands from
  permitted principals are steps of the Kernel; others are refused with a rollback.
  What a refusal does to a window is in `HumanCommands`, where permission changes at
  any time (`Permits`).
- Queries that only read, the Attention recovery snapshot, agent status, and the
  mapping of rows to values.
- Launch environments, prompt building, HTTP parsing and routing, rendering.
- The components marked `not_modelled` in `PROJECT.json`, each with its reason.

## Plan

1. Proofs of what [is only model-checked](#only-model-checked) for no other reason
   than that they are not written.
2. The Attention recovery snapshot, composed with `AttentionDomain`.
3. Lease renewal during long executions, composed with `RunDelivery`.
