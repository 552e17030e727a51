---------------------------- MODULE Collaboration ----------------------------
(***************************************************************************)
(* Messages, Attentions and Runs of one Channel, and the commands that     *)
(* make them: packages/kernel/src/collaboration.ts, causal-limits.ts and   *)
(* the transaction of kernel.ts that every command goes through.  Humans   *)
(* post, edit and delete; a mention opens an Attention; an Agent decides   *)
(* it by a Run, whose replies may mention other Agents, and so on within   *)
(* the causal limits of the database.  Callers lose answers and retry with *)
(* the same idempotency key, at any later time, also after a restart.      *)
(*                                                                         *)
(* AttentionDomain and RunExecution say when an Agent's Activation may     *)
(* decide or execute; here an open Attention can be decided and an Active  *)
(* Run be executed by its Agent.  RunInputs are counted.  A Thread is the  *)
(* Message that starts it.                                                 *)
(***************************************************************************)
EXTENDS Integers, Sequences, FiniteSets

CONSTANTS
    Humans, Agents,     \* principals
    Keys,               \* idempotency keys that are used again
    Once,               \* a key that nobody uses again, so that it need not be kept
    MaxDepth, MaxNonTerminal,   \* the causal limits the database is made with
    Circumstances       \* of a behaviour, see scene

ASSUME CollaborationAssumption ==
    /\ Humans \cap Agents = {} /\ IsFiniteSet(Agents)
    /\ Once \notin Keys
    /\ MaxDepth \in Nat /\ MaxNonTerminal \in Nat \ {0}
    /\ \A s \in Circumstances : s.targets \subseteq SUBSET Agents /\ s.keys \subseteq Keys

VARIABLES
    store,      \* messages, thread cursors, attentions and runs
    records,    \* idempotency_records, by principal, command name and key
    answers,    \* what callers have been told, by the same
    limits,     \* causal_limits
    open,       \* the Kernel is open
    scene       \* the circumstances of this behaviour: the sets of Agents a Message
                \* mentions (targets), the types of the commands that are sent, the keys
                \* used again, whether commands state a Thread cursor (conditional) and
                \* Runs may write to a Worktree (worktrees), further limits a Kernel is
                \* opened with (wishes), and bounds: messages, edited ones, revisions
                \* of a Message, runs

collaborationVars == <<store, records, answers, limits, open, scene>>

Principals == Humans \cup Agents

Terminal == {"Completed", "Cancelled"}

\* No run, no thread.
None == 0

CollaborationInit ==
    /\ store = [messages |-> << >>, cursors |-> << >>,
                attentions |-> {}, runs |-> << >>]
    /\ records = << >>
    /\ answers = << >>
    /\ limits = [depth |-> MaxDepth, nonTerminal |-> MaxNonTerminal]
    /\ open = TRUE
    /\ scene \in Circumstances

-----------------------------------------------------------------------------
(* Messages *)

\* emitThreadEvent: n events in Thread t.
Emit(d, t, n) == [d EXCEPT !.cursors[t] = @ + n]

Ask(d, m, revision, agents) ==
    [d EXCEPT !.attentions = @ \cup
        {[message |-> m, revision |-> revision, target |-> a, status |-> "Open",
          run |-> None] : a \in agents}]

\* createMessage.  The author and those suppressed are mentioned but not asked.
CreateMessage(d, author, thread, run, targets, suppressed) ==
    LET m == Len(d.messages) + 1
        t == IF thread = None THEN m ELSE thread
        message == [author |-> author, thread |-> t, run |-> run, tombstone |-> FALSE,
                    revisions |-> << targets >>, silent |-> {author} \cup suppressed]
    IN  Ask(Emit([d EXCEPT !.messages = Append(@, message), !.cursors = Append(@, 0)], t, 1),
            m, 1, targets \ message.silent)

\* appendMessageRevision and its event: every target is asked anew.
Revise(d, m, targets, tombstone) ==
    Ask(Emit([d EXCEPT !.messages[m].revisions = Append(@, targets),
                       !.messages[m].tombstone = tombstone],
             d.messages[m].thread, 1),
        m, Len(d.messages[m].revisions) + 1, targets)

-----------------------------------------------------------------------------
(* Causal limits *)

NonTerminal(d, root) ==
    {r \in DOMAIN d.runs : d.runs[r].root = root /\ d.runs[r].state \notin Terminal}

\* Where a Run for Attention a would stand: admitRunFromAttention.
Provenance(d, a) ==
    LET m == d.messages[a.message]
    IN  IF m.run = None
        THEN [root |-> a.message, parent |-> None, depth |-> 0]
        ELSE [root |-> d.runs[m.run].root, parent |-> m.run,
              depth |-> d.runs[m.run].depth + 1]

\* Mutant: the limit is met when it has been passed.
AdmittedLate(d, a) ==
    LET p == Provenance(d, a)
    IN  /\ p.depth <= limits.depth
        /\ Cardinality(NonTerminal(d, p.root)) <= limits.nonTerminal

Admitted(d, a) ==
    LET p == Provenance(d, a)
    IN  /\ p.depth <= limits.depth
        /\ Cardinality(NonTerminal(d, p.root)) < limits.nonTerminal

-----------------------------------------------------------------------------
(* Commands: whether principal p may, and what it does *)

\* No expected Thread cursor.
Unconditional == -1

CursorHolds(d, t, expected) == expected \in {Unconditional, d.cursors[t]}

MutableRun(d, c) ==
    d.runs[c.run].state \notin Terminal /\ d.runs[c.run].revision = c.expected

\* requireOriginalAuthor, checkRevision and no tombstone.
Revisable(d, p, c) ==
    LET m == d.messages[c.message]
    IN  m.author = p /\ ~m.tombstone /\ Len(m.revisions) = c.expected

Allowed(d, p, c) ==
    CASE c.type = "StartThread" -> p \in Humans
      [] c.type = "ReplyToThread" -> p \in Humans /\ CursorHolds(d, c.thread, c.cursor)
      [] c.type \in {"EditMessage", "DeleteMessage"} -> p \in Humans /\ Revisable(d, p, c)
      [] c.type \in {"SendToRun", "CancelRun"} -> p \in Humans /\ MutableRun(d, c)
      [] c.type \in {"PublishRunReply", "CompleteRun"} ->
            /\ MutableRun(d, c) /\ d.runs[c.run].owner = p
            /\ CursorHolds(d, d.runs[c.run].thread, c.cursor)
      [] c.type \in {"ResolveAttentionWithRun", "IgnoreAttention"} ->
            /\ c.attention \in d.attentions /\ c.attention.target = p
            /\ c.attention.status = "Open"
            /\ c.type = "ResolveAttentionWithRun" => Admitted(d, c.attention)
      [] c.type = "ResolveAttentionWithExistingRun" ->
            /\ c.attention \in d.attentions /\ c.attention.target = p
            /\ c.attention.status = "Open" /\ MutableRun(d, c)
            /\ d.runs[c.run].owner = p
            /\ d.runs[c.run].thread = d.messages[c.attention.message].thread

Decide(d, a, status, run) ==
    [d EXCEPT !.attentions = (@ \ {a}) \cup {[a EXCEPT !.status = status, !.run = run]}]

StartThread(d, p, c) == CreateMessage(d, p, None, None, c.targets, {})

ReplyToThread(d, p, c) == CreateMessage(d, p, c.thread, None, c.targets, {})

\* The Run's owner gets the Message as a RunInput, not as an Attention.
SendToRun(d, p, c) ==
    LET r == d.runs[c.run]
        m == CreateMessage(d, p, r.thread, None, c.targets, {r.owner})
    IN  Emit([m EXCEPT !.runs[c.run].inputs = @ + 1, !.runs[c.run].revision = @ + 1],
             r.thread, 1)

EditMessage(d, p, c) == Revise(d, c.message, c.targets, FALSE)

DeleteMessage(d, p, c) == Revise(d, c.message, {}, TRUE)

Ending(d, r, state) ==
    Emit([d EXCEPT !.runs[r].state = state, !.runs[r].revision = @ + 1],
         d.runs[r].thread, 1)

PublishRunReply(d, p, c) ==
    CreateMessage(d, p, d.runs[c.run].thread, c.run, c.targets, {})

\* With a final reply or without.
CompleteRun(d, p, c) ==
    Ending(IF c.reply THEN PublishRunReply(d, p, c) ELSE d, c.run, "Completed")

ResolveAttentionWithRun(d, p, c) ==
    LET a == c.attention
        from == Provenance(d, a)
        run == [owner |-> p, thread |-> d.messages[a.message].thread, state |-> "Active",
                revision |-> 1, inputs |-> 1, writer |-> "None",
                root |-> from.root, parent |-> from.parent, depth |-> from.depth]
        e == [d EXCEPT !.runs = Append(@, run)]
    IN  Emit(Decide(e, a, "Resolved", Len(e.runs)), run.thread, 1)

ResolveAttentionWithExistingRun(d, p, c) ==
    Emit(Decide([d EXCEPT !.runs[c.run].inputs = @ + 1, !.runs[c.run].revision = @ + 1],
                c.attention, "Resolved", c.run),
         d.runs[c.run].thread, 1)

\* #dispatchCommand
Dispatch(d, p, c) ==
    CASE c.type = "StartThread" -> StartThread(d, p, c)
      [] c.type = "ReplyToThread" -> ReplyToThread(d, p, c)
      [] c.type = "EditMessage" -> EditMessage(d, p, c)
      [] c.type = "DeleteMessage" -> DeleteMessage(d, p, c)
      [] c.type = "SendToRun" -> SendToRun(d, p, c)
      [] c.type = "CancelRun" -> Ending(d, c.run, "Cancelled")
      [] c.type = "PublishRunReply" -> PublishRunReply(d, p, c)
      [] c.type = "CompleteRun" -> CompleteRun(d, p, c)
      [] c.type = "ResolveAttentionWithRun" -> ResolveAttentionWithRun(d, p, c)
      [] c.type = "ResolveAttentionWithExistingRun" ->
            ResolveAttentionWithExistingRun(d, p, c)
      [] c.type = "IgnoreAttention" -> Decide(d, c.attention, "Ignored", None)

\* What the caller is told: the newest entities and the cursor of the Thread.
Result(d, t) == [message |-> Len(d.messages), run |-> Len(d.runs), cursor |-> d.cursors[t]]

ThreadOf(d, c) ==
    CASE c.type = "StartThread" -> Len(d.messages)
      [] c.type = "ReplyToThread" -> c.thread
      [] c.type \in {"EditMessage", "DeleteMessage"} -> d.messages[c.message].thread
      [] c.type \in {"ResolveAttentionWithRun", "IgnoreAttention"} ->
            d.messages[c.attention.message].thread
      [] OTHER -> d.runs[c.run].thread

-----------------------------------------------------------------------------
(* The transaction of a command *)

\* A command of the Activation that executes a Run which writes to a Worktree.
Written(p, c) ==
    /\ p \in Agents /\ c.type \in {"PublishRunReply", "CompleteRun"}
    /\ store.runs[c.run].owner = p /\ store.runs[c.run].writer # "None"

\* assertWriterCommandAuthority
GatePasses(c) ==
    LET r == store.runs[c.run]
    IN  /\ r.state = "Active"
        /\ r.writer \in (IF c.type = "CompleteRun" THEN {"Stopped"} ELSE {"Held", "Stopped"})

Slot(p, c, key) == <<p, c.type, key>>

Told(slot) == IF slot \in DOMAIN answers THEN answers[slot] ELSE << >>

Put(f, x, v) == [y \in DOMAIN f \cup {x} |-> IF y = x THEN v ELSE f[y]]

\* The second answer stands for all that follow.
Answer(slot, c, result) ==
    answers' = IF Len(Told(slot)) < 2
               THEN Put(answers, slot, Append(Told(slot), [cmd |-> c, result |-> result]))
               ELSE answers

\* The gate refuses, and the refusal is durable: DurableKernelError commits.
Refuse(p, c) ==
    /\ open /\ Written(p, c) /\ ~GatePasses(c)
    /\ store' = [store EXCEPT !.runs[c.run].writer = "Lost"]
    /\ UNCHANGED <<records, answers, limits, open, scene>>

\* Mutant: the cached result is looked up before the writer gate.
ReplayUngated(p, c, key) ==
    LET slot == Slot(p, c, key)
    IN  /\ open /\ slot \in DOMAIN records
        /\ records[slot].cmd = c
        /\ Answer(slot, c, records[slot].result)
        /\ UNCHANGED <<store, records, limits, open, scene>>

\* The key has been used: the same command is told what it was told, another is
\* refused.
Replay(p, c, key) ==
    LET slot == Slot(p, c, key)
    IN  /\ open /\ slot \in DOMAIN records
        /\ Written(p, c) => GatePasses(c)
        /\ records[slot].cmd = c
        /\ Answer(slot, c, records[slot].result)
        /\ UNCHANGED <<store, records, limits, open, scene>>

Execute(p, c, key) ==
    LET slot == Slot(p, c, key)
        d == Dispatch(store, p, c)
        result == Result(d, ThreadOf(d, c))
    IN  /\ open /\ slot \notin DOMAIN records
        /\ Written(p, c) => GatePasses(c)
        /\ Allowed(store, p, c)
        /\ store' = d
        /\ IF key = Once THEN UNCHANGED <<records, answers>>
           ELSE /\ records' = Put(records, slot, [cmd |-> c, result |-> result])
                \* the answer may be lost
                /\ Answer(slot, c, result) \/ UNCHANGED answers
        /\ UNCHANGED <<limits, open, scene>>

-----------------------------------------------------------------------------
(* The commands there are to send *)

Stated(cursor) == IF scene.conditional THEN {cursor} ELSE {Unconditional}

ThreadCommands(d) ==
    LET threads == {m \in DOMAIN d.messages : d.messages[m].thread = m}
    IN  [type : {"StartThread"}, targets : scene.targets]
        \cup (UNION {[type : {"ReplyToThread"}, thread : {t}, targets : scene.targets,
                      cursor : Stated(d.cursors[t])] : t \in threads})
        \cup (UNION {LET revisions == 1..Len(d.messages[m].revisions)
                    IN  [type : {"EditMessage"}, message : {m}, expected : revisions,
                         targets : scene.targets]
                        \cup [type : {"DeleteMessage"}, message : {m}, expected : revisions]
                    : m \in DOMAIN d.messages})

RunCommands(d) ==
    UNION {LET r == d.runs[n]
               current == {r.revision}
           IN  [type : {"SendToRun"}, run : {n}, expected : current, targets : scene.targets]
               \cup [type : {"CancelRun"}, run : {n}, expected : current]
               \cup [type : {"PublishRunReply"}, run : {n}, expected : current,
                     targets : scene.targets, cursor : Stated(d.cursors[r.thread])]
               \cup [type : {"CompleteRun"}, run : {n}, expected : current,
                     reply : BOOLEAN, targets : scene.targets, cursor : Stated(d.cursors[r.thread])]
           : n \in DOMAIN d.runs}

AttentionCommands(d) ==
    [type : {"ResolveAttentionWithRun", "IgnoreAttention"}, attention : d.attentions]
    \cup UNION {[type : {"ResolveAttentionWithExistingRun"}, attention : d.attentions,
                 run : {n}, expected : {d.runs[n].revision}] : n \in DOMAIN d.runs}

\* Also the commands already sent: they may be sent again at any time.
Commands ==
    {c \in ThreadCommands(store) \cup RunCommands(store) \cup AttentionCommands(store) :
        c.type \in scene.sent}
    \cup {records[slot].cmd : slot \in DOMAIN records}

\* Bounds of the model.
WithinBounds(d) ==
    /\ Len(d.messages) <= scene.messages /\ Len(d.runs) <= scene.runs
    /\ \A m \in DOMAIN d.messages : Len(d.messages[m].revisions) <= scene.revisions
    /\ Cardinality({m \in DOMAIN d.messages : Len(d.messages[m].revisions) > 1}) <= scene.edited

-----------------------------------------------------------------------------
(* Worktrees, and the Kernel's life *)

\* StartWorktreeExecution; the executor's stop; a lease that is lost.
Writer(r) ==
    /\ scene.worktrees /\ open /\ store.runs[r].state = "Active"
    /\ \/ store.runs[r].writer = "None" /\ store' = [store EXCEPT !.runs[r].writer = "Held"]
       \/ store.runs[r].writer = "Held" /\ store' = [store EXCEPT !.runs[r].writer = "Stopped"]
       \/ store.runs[r].writer \in {"Held", "Stopped"}
          /\ store' = [store EXCEPT !.runs[r].writer = "Lost"]
    /\ UNCHANGED <<records, answers, limits, open, scene>>

Close ==
    /\ open
    /\ open' = FALSE
    /\ UNCHANGED <<store, records, answers, limits, scene>>

\* initializeCausalLimits: no wish, or the limits the database was made with.
Reopen(requested) ==
    /\ ~open
    /\ requested \subseteq {limits}
    /\ open' = TRUE
    /\ UNCHANGED <<store, records, answers, limits, scene>>

CollaborationNext ==
    \/ \E p \in Principals, c \in Commands : Refuse(p, c)
    \/ \E p \in Principals, key \in scene.keys \cup {Once}, c \in Commands :
          Replay(p, c, key) \/ (Execute(p, c, key) /\ WithinBounds(store'))
    \/ \E r \in DOMAIN store.runs : Writer(r)
    \/ Close
    \/ \E requested \in {{}} \cup {{l} : l \in scene.wishes \cup {limits}} :
          Reopen(requested)

CollaborationSpec == CollaborationInit /\ [][CollaborationNext]_collaborationVars

-----------------------------------------------------------------------------
(* Properties *)

\* References lead to what exists and revisions count the changes.
CollaborationTypeOK ==
    /\ \A m \in DOMAIN store.messages :
          /\ store.messages[m].author \in Principals
          /\ store.messages[m].thread \in 1..m
          /\ store.messages[m].run \in 0..Len(store.runs)
          /\ store.messages[m].author \in Agents <=> store.messages[m].run # None
    /\ \A a \in store.attentions :
          /\ a.message \in DOMAIN store.messages
          /\ a.status \in {"Open", "Resolved", "Ignored"}
          /\ a.status = "Resolved" <=> a.run \in DOMAIN store.runs
    /\ \A r \in DOMAIN store.runs :
          store.runs[r].revision >= store.runs[r].inputs
    /\ \A slot \in DOMAIN records : slot[1] \in Principals /\ slot[3] \in Keys

\* A root has never more non-terminal Runs than the database was made for, and no
\* Run is deeper, in whatever order Runs are created, completed and cancelled
\* and the Kernel is opened (causal-limits.ts admitRunFromAttention).
CausalBound ==
    /\ \A r \in DOMAIN store.runs : store.runs[r].depth <= MaxDepth
    /\ \A m \in DOMAIN store.messages :
          Cardinality(NonTerminal(store, m)) <= MaxNonTerminal

\* Causality is a tree under a Human's Message: a Run stands one below the Run
\* whose Message asked its owner, with the same root and in the same Thread.
CausalTree ==
    \A r \in DOMAIN store.runs :
        LET run == store.runs[r]
        IN  /\ store.messages[run.root].author \in Humans
            /\ store.messages[run.root].thread = run.thread
            /\ IF run.parent = None
               THEN run.depth = 0
               ELSE /\ run.parent < r
                    /\ run.root = store.runs[run.parent].root
                    /\ run.depth = store.runs[run.parent].depth + 1
            /\ \E a \in store.attentions :
                  /\ a.run = r /\ a.target = run.owner
                  /\ store.messages[a.message].run = run.parent
                  /\ run.parent = None => a.message = run.root

\* An Agent is asked once for every revision that mentions it, save by itself and
\* when the Message already went to its Run (createMessage, appendMessageRevision).
AskedOnce ==
    \A m \in DOMAIN store.messages : \A n \in DOMAIN store.messages[m].revisions :
        LET asked == {a \in store.attentions : a.message = m /\ a.revision = n}
            mentioned == store.messages[m].revisions[n]
        IN  /\ Cardinality(asked) = Cardinality({a.target : a \in asked})
            /\ {a.target : a \in asked} =
                  IF n = 1 THEN mentioned \ store.messages[m].silent ELSE mentioned

\* What a reader sees of a Thread: its Messages and Runs.
View(d, t) ==
    [messages |-> [m \in {x \in DOMAIN d.messages : d.messages[x].thread = t} |->
                      d.messages[m]],
     runs |-> [r \in {x \in DOMAIN d.runs : d.runs[x].thread = t} |->
                  <<d.runs[r].state, d.runs[r].revision, d.runs[r].inputs>>]]

\* Nothing a reader sees of a Thread changes without its cursor: a conditional
\* command that states an older cursor is refused whatever happened since
\* (checkThreadCursor, emitThreadEvent).
CursorTellsAll ==
    [][\A t \in DOMAIN store.cursors :
          View(store', t) # View(store, t) => store'.cursors[t] > store.cursors[t]]_collaborationVars

\* However often a command is sent, and whatever has happened in between, its
\* caller is told the same; and a key answers for one command only.
AnsweredAlike ==
    \A slot \in DOMAIN answers :
        /\ slot \in DOMAIN records
        /\ \A i \in DOMAIN answers[slot] : answers[slot][i] = records[slot]

\* A PublishRunReply or CompleteRun for a Run whose writer authority is lost is not
\* answered, not even as it was answered before (assertWriterCommandAuthority precedes
\* the cached result).  That a Run has ended is no reason to be silent: as long as its
\* authority was not lost, its commands are replayed.
NoAnswerWithoutAuthority ==
    [][\A slot \in DOMAIN answers' :
          /\ Len(answers'[slot]) > Len(Told(slot))
          /\ slot[2] \in {"PublishRunReply", "CompleteRun"}
          => store.runs[records'[slot].cmd.run].writer # "Lost"]_collaborationVars

\* Runs stay within their causes, every Agent is asked once, and every caller is
\* told one thing.
CollaborationSafety ==
    /\ CollaborationTypeOK
    /\ CausalBound
    /\ CausalTree
    /\ AskedOnce
    /\ AnsweredAlike

\* No step hides a change from a Thread's cursor or answers without authority.
CollaborationSteps ==
    /\ CursorTellsAll
    /\ NoAnswerWithoutAuthority

=============================================================================
