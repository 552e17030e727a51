-------------------------- MODULE ProjectionHistory --------------------------
(***************************************************************************)
(* How the Kernel can show the past: history.ts writes a version of every  *)
(* entity a command changed, at the last public event of that command, and *)
(* the ...ProjectionAt queries of projections.ts put an old state together *)
(* from those versions.                                                    *)
(*                                                                         *)
(* A version is written only for what the command's events name, for what  *)
(* follows from them and for what a trigger table of changed Activations   *)
(* lists.  So each command is modelled by the rows it changes and by the   *)
(* events it emits: a change no event leads to would be missing later.     *)
(*                                                                         *)
(* Commands are traced: the Runtime passes the correlation of the event    *)
(* that caused the work on to all commands it and its Agents execute, so   *)
(* the events of many commands share one correlation.                      *)
(*                                                                         *)
(* Entities are keyed <<type, Run, number>>; Attentions and the Activation *)
(* that decides one have Run 0.  Messages and Artifacts are immutable and  *)
(* marked like activity; ResolveAttentionWithExistingRun writes what       *)
(* SendToRun and IgnoreAttention write.                                    *)
(***************************************************************************)
EXTENDS Naturals, Sequences, FiniteSets, FiniteSetsExt, TLC

CONSTANTS
    Attentions,     \* 1..n: Attentions posted, claimed and being decided
    Traced,         \* do Runtimes pass correlations on
    MaxInputs,      \* bound: inputs of a Run
    MaxGeneration,  \* bound: Activations of a Run
    MaxActivity,    \* bound: activity of a Run
    MaxEvents       \* bound: public events

ASSUME HistoryAssumption ==
    /\ Attentions = 1..Cardinality(Attentions) /\ Attentions # {}
    /\ Traced \in BOOLEAN
    /\ {MaxInputs, MaxGeneration, MaxActivity, MaxEvents} \subseteq Nat

VARIABLES
    rows,       \* every entity: its present value and the event that marks it
    log,        \* public events: type, entity, correlation
    history,    \* versions of every entity: event -> value
    was         \* the state each command left, by its last event

historyVars == <<rows, log, history, was>>

Run(r) == <<"Run", r, 0>>
Input(r, i) == <<"RunInput", r, i>>
Activation(r, g) == <<"ActivationAttempt", r, g>>
Attempt(r, g) == <<"ProviderAttempt", r, g>>
Activity(r, n) == <<"RunActivityEvent", r, n>>
Attention(a) == <<"Attention", 0, a>>

Versioned == {"Run", "RunInput", "ActivationAttempt", "ProviderAttempt", "Attention"}

\* The entities of one type and Run among rows t.
OfRun(t, type, r) == {k \in DOMAIN t : k[1] = type /\ k[2] = r}

Runs(t) == {k[2] : k \in {k \in DOMAIN t : k[1] = "Run"}}

Put(t, key, value) ==
    IF key \in DOMAIN t THEN [t EXCEPT ![key].v = value]
    ELSE t @@ (key :> [v |-> value, mark |-> 0])

-----------------------------------------------------------------------------
(* recordProjectionVersions, after the events evs of correlation corr      *)

Correlated(evs, corr) == {e \in DOMAIN evs : evs[e].corr = corr}

EventKeys(evs, corr) == {evs[e].key : e \in Correlated(evs, corr)}

AffectedRuns(evs, corr) == {k[2] : k \in EventKeys(evs, corr)} \ {0}

\* markImmutableComponents and the unmarked rows of affected Runs.
Marked(t, evs, corr, boundary) ==
    [k \in DOMAIN t |->
        IF /\ t[k].mark = 0
           /\ \/ k \in EventKeys(evs, corr)
              \/ /\ k[1] \in {"Run", "RunInput", "RunActivityEvent"}
                 /\ k[2] \in AffectedRuns(evs, corr)
        THEN [t[k] EXCEPT !.mark = boundary]
        ELSE t[k]]

RunEnds == {"RunCompleted", "RunFailed", "RunCancelled"}

\* Mutant: inputs get a version only by an event of their own.
AffectedInputsNamed(t, evs, corr, boundary) ==
    {k \in EventKeys(evs, corr) : k[1] = "RunInput"}

\* affectedRunInputs: inputs with an event, all of a Run that ended, new ones.
AffectedInputs(t, evs, corr, boundary) ==
    {k \in DOMAIN t :
        /\ k[1] = "RunInput"
        /\ \/ k \in EventKeys(evs, corr)
           \/ /\ k[2] \in AffectedRuns(evs, corr)
              /\ \/ \E e \in Correlated(evs, corr) : evs[e].type \in RunEnds
                 \/ t[k].mark = boundary}

\* affectedActivations: those with an event, and those in projection_activation_changes.
AffectedActivations(evs, corr, changed) ==
    {k \in EventKeys(evs, corr) : k[1] = "ActivationAttempt"} \cup changed

Affected(t, evs, corr, boundary, changed) ==
    {k \in DOMAIN t : k[1] = "Run" /\ k[2] \in AffectedRuns(evs, corr)}
        \cup AffectedInputs(t, evs, corr, boundary)
        \cup AffectedActivations(evs, corr, changed)
        \cup {k \in EventKeys(evs, corr) : k[1] = "ProviderAttempt"}

Versions(h, key) == IF key \in DOMAIN h THEN h[key] ELSE <<>>

\* record...Version: unless the latest version says the same.
Record(h, t, keys, boundary) ==
    LET stale == {k \in keys :
                    LET old == Versions(h, k)
                    IN  DOMAIN old = {} \/ old[Max(DOMAIN old)] # t[k].v}
    IN  [k \in stale |-> (boundary :> t[k].v) @@ Versions(h, k)] @@ h

\* recordAttentionHistory: at the event itself, when it is emitted.
RecordAttentions(h, t, evs, from) ==
    LET at == {e \in from + 1..Len(evs) : evs[e].key[1] = "Attention"}
    IN  [k \in {evs[e].key : e \in at} |->
            [e \in {e \in at : evs[e].key = k} |-> t[k].v] @@ Versions(h, k)] @@ h

Present(t) == [k \in DOMAIN t |-> t[k].v]

\* One command: it leaves the rows t with the Activations changed, and emits
\* events of correlation corr.
Commit(t, changed, events, corr) ==
    LET evs == log \o [i \in DOMAIN events |->
                  [type |-> events[i][1], key |-> events[i][2], corr |-> corr]]
        boundary == Max(Correlated(evs, corr))
        marked == Marked(t, evs, corr, boundary)
        attended == RecordAttentions(history, t, evs, Len(log))
    IN  /\ Len(evs) <= MaxEvents
        /\ log' = evs
        /\ rows' = marked
        /\ history' = Record(attended, marked,
                             Affected(marked, evs, corr, boundary, changed), boundary)
        /\ was' = was @@ (Len(evs) :> Present(t))

-----------------------------------------------------------------------------
(* Correlations                                                            *)

\* A correlation is named by the first event that carries it.
Fresh == Len(log) + 1

First(key) == {e \in DOMAIN log : log[e].key = key}

\* GetOperationalCorrelation, and what the Runtime makes of it.
OperationalCorrelation(key) ==
    LET own == First(key)
    IN  IF ~Traced THEN Fresh
        ELSE IF own # {} THEN log[Min(own)].corr
        ELSE log[Min(First(Run(key[2])))].corr

-----------------------------------------------------------------------------
(* The state as it was                                                     *)

\* Mutant: the latest version counts, whenever it was written.
VersionAtNow(key, sequence) == history[key][Max(DOMAIN history[key])]

VersionAt(key, sequence) ==
    history[key][Max({e \in DOMAIN history[key] : e <= sequence})]

\* getThreadProjectionAt, getRunProjectionAt, latestActivityWindowAt: rows
\* created by then, with the version they had then.
Shown(sequence) ==
    {k \in DOMAIN rows :
        /\ rows[k].mark \in 1..sequence
        /\ k[1] \in Versioned => \E e \in DOMAIN Versions(history, k) : e <= sequence}

ProjectionAt(sequence) ==
    [k \in Shown(sequence) |->
        IF k[1] \in Versioned THEN VersionAt(k, sequence) ELSE rows[k].v]

-----------------------------------------------------------------------------
(* Commands                                                                *)

Is(key, states) == key \in DOMAIN rows /\ rows[key].v.state \in states

Mutable(r) == Is(Run(r), {"Active", "Waiting"})

Inputs(r) == OfRun(rows, "RunInput", r)
Activations(r) == OfRun(rows, "ActivationAttempt", r)

Open(k) == ~rows[k].v.revoked /\ ~rows[k].v.finished

\* requireRunActivation: the newest Activation, neither revoked nor finished.
Live(r, g) ==
    /\ Activation(r, g) \in DOMAIN rows
    /\ rows[Run(r)].v.generation = g
    /\ Open(Activation(r, g))

Revoked(r) == {k \in Activations(r) : Open(k)}

\* revokeRunActivations
Revoke(t, r) ==
    [k \in DOMAIN t |->
        IF k \in Revoked(r) THEN [t[k] EXCEPT !.v.revoked = TRUE] ELSE t[k]]

\* The Run's row after a decision: a new state and the next revision.
Decided(t, r, state) ==
    Put(t, Run(r), [rows[Run(r)].v EXCEPT !.state = state, !.revision = @ + 1])

Disposed(t, r, disposition) ==
    [k \in DOMAIN t |->
        IF k \in Inputs(r) /\ t[k].v = "Pending" THEN [t[k] EXCEPT !.v = disposition] ELSE t[k]]

CorrelationOf(r, g) == OperationalCorrelation(Activation(r, g))

Undecided(a) == Is(Attention(a), {"Open"}) /\ Open(Activation(0, a))

\* finishAttentionActivation and the Attention's row.
Settled(t, a, state) ==
    Put(Put(t, Activation(0, a), [revoked |-> TRUE, finished |-> TRUE, given |-> 0]),
        Attention(a), [state |-> state, revision |-> rows[Attention(a)].v.revision + 1])

ResolveAttentionWithRun(a) ==
    LET r == Cardinality(Runs(rows)) + 1
    IN  /\ Undecided(a)
        /\ Commit(Put(Put(Settled(rows, a, "Resolved"),
                          Run(r), [state |-> "Active", revision |-> 1, generation |-> 0, config |-> 1]),
                      Input(r, 1), "Pending"),
                  {Activation(0, a)},
                  <<<<"RunCreated", Run(r)>>, <<"AttentionResolved", Attention(a)>>>>,
                  OperationalCorrelation(Attention(a)))

IgnoreAttention(a) ==
    /\ Undecided(a)
    /\ Commit(Settled(rows, a, "Ignored"), {Activation(0, a)},
              <<<<"AttentionIgnored", Attention(a)>>>>, OperationalCorrelation(Attention(a)))

SendToRun(r) ==
    LET i == Cardinality(Inputs(r)) + 1
    IN  /\ Mutable(r) /\ i <= MaxInputs
        /\ Commit(Put(Decided(rows, r, rows[Run(r)].v.state), Input(r, i), "Pending"), {},
                  <<<<"RunInputAdded", Input(r, i)>>>>, Fresh)

WithdrawRunInput(r, i) ==
    /\ Mutable(r) /\ Input(r, i) \in DOMAIN rows /\ rows[Input(r, i)].v = "Pending"
    /\ Commit(Put(Decided(rows, r, rows[Run(r)].v.state), Input(r, i), "Withdrawn"), {},
              <<<<"RunInputWithdrawn", Input(r, i)>>>>, Fresh)

AdoptRunConfig(r) ==
    /\ Mutable(r) /\ rows[Run(r)].v.config = 1
    /\ Commit(Put(rows, Run(r), [rows[Run(r)].v EXCEPT !.config = 2, !.revision = @ + 1]), {},
              <<<<"RunConfigAdopted", Run(r)>>>>, Fresh)

\* startActivation: supersedes, wakes a Waiting Run, and is given every input.
StartActivation(r, i) ==
    LET g == rows[Run(r)].v.generation + 1
        waiting == rows[Run(r)].v.state = "Waiting"
        run == [rows[Run(r)].v EXCEPT !.generation = g, !.state = "Active",
                                      !.revision = IF waiting THEN @ + 1 ELSE @]
    IN  /\ Mutable(r) /\ g <= MaxGeneration /\ Input(r, i) \in DOMAIN rows
        /\ Commit(Put(Put(Revoke(rows, r), Run(r), run), Activation(r, g),
                      [revoked |-> FALSE, finished |-> FALSE, given |-> Cardinality(Inputs(r))]),
                  Revoked(r),
                  (IF waiting THEN <<<<"RunActivated", Run(r)>>>> ELSE <<>>)
                      \o <<<<"ActivationStarted", Activation(r, g)>>>>,
                  OperationalCorrelation(Input(r, i)))

FinishActivation(r, g) ==
    LET k == Activation(r, g)
    IN  /\ k \in DOMAIN rows /\ ~rows[k].v.finished
        /\ Commit(Put(rows, k, [rows[k].v EXCEPT !.finished = TRUE]), {k},
                  <<<<"ActivationFinished", k>>>>, CorrelationOf(r, g))

StartProviderAttempt(r, g) ==
    /\ Live(r, g) /\ Attempt(r, g) \notin DOMAIN rows
    /\ Commit(Put(rows, Attempt(r, g), [state |-> "Started"]), {},
              <<<<"ProviderAttemptStarted", Attempt(r, g)>>>>, CorrelationOf(r, g))

\* setProviderAttemptStatus; reconciliation uses the correlation of the Run.
SetProviderAttemptStatus(r, g, status) ==
    /\ Is(Attempt(r, g), {"Started", "Acknowledged"} \ {status})
    /\ \E corr \in {CorrelationOf(r, g), OperationalCorrelation(Run(r))} :
         Commit(Put(rows, Attempt(r, g), [state |-> status]), {},
                <<<<"ProviderAttemptFinished", Attempt(r, g)>>>>, corr)

CompleteRun(r, g) ==
    /\ Mutable(r) /\ Live(r, g)
    /\ \A k \in Inputs(r) : rows[k].v = "Pending" => k[3] <= rows[Activation(r, g)].v.given
    /\ Commit(Decided(Disposed(Revoke(rows, r), r, "Incorporated"), r, "Completed"), Revoked(r),
              <<<<"RunCompleted", Run(r)>>>>, CorrelationOf(r, g))

WaitRun(r, g) ==
    /\ Is(Run(r), {"Active"}) /\ Live(r, g)
    /\ Commit(Decided(Revoke(rows, r), r, "Waiting"), Revoked(r),
              <<<<"RunWaiting", Run(r)>>>>, CorrelationOf(r, g))

\* terminateRun, for FailRun and CancelRun
TerminateRun(r, state, corr) ==
    Commit(Decided(Disposed(Revoke(rows, r), r, "Abandoned"), r, state), Revoked(r),
           <<<<[Failed |-> "RunFailed", Cancelled |-> "RunCancelled"][state], Run(r)>>>>, corr)

FailRun(r, g) == Mutable(r) /\ Live(r, g) /\ TerminateRun(r, "Failed", CorrelationOf(r, g))

CancelRun(r) == Mutable(r) /\ TerminateRun(r, "Cancelled", Fresh)

NextActivity(r) == Cardinality(OfRun(rows, "RunActivityEvent", r)) + 1

\* parkRunAfterProviderAttemptFailure: its activity has no event of its own.
ParkRun(r, g) ==
    /\ Is(Run(r), {"Active"}) /\ rows[Run(r)].v.generation = g
    /\ Is(Attempt(r, g), {"Failed", "Unknown"})
    /\ NextActivity(r) <= MaxActivity
    /\ Commit(Put(Decided(Revoke(rows, r), r, "Waiting"), Activity(r, NextActivity(r)), "Shown"),
              Revoked(r), <<<<"RunWaiting", Run(r)>>>>, CorrelationOf(r, g))

\* AppendRunActivity, and RecordLateOutput where the Activation is not live.
AppendRunActivity(r, g) ==
    /\ Activation(r, g) \in DOMAIN rows /\ NextActivity(r) <= MaxActivity
    /\ Commit(Put(rows, Activity(r, NextActivity(r)), "Shown"), {},
              <<<<"RunActivityAppended", Activity(r, NextActivity(r))>>>>, CorrelationOf(r, g))

-----------------------------------------------------------------------------
(* Behaviour: every Attention was opened, claimed and given an Activation  *)

Opened(a) == 3 * a - 2

HistoryInit ==
    /\ log = [e \in 1..3 * Cardinality(Attentions) |->
                LET a == (e + 2) \div 3
                IN  [type |-> <<"ActivationStarted", "AttentionOpened", "AttentionClaimed">>[(e % 3) + 1],
                     key |-> IF e % 3 = 0 THEN Activation(0, a) ELSE Attention(a),
                     corr |-> IF Traced THEN Opened(a) ELSE e]]
    /\ rows = [k \in {Attention(a) : a \in Attentions} |->
                    [v |-> [state |-> "Open", revision |-> 2], mark |-> Opened(k[3])]]
              @@ [k \in {Activation(0, a) : a \in Attentions} |->
                    [v |-> [revoked |-> FALSE, finished |-> FALSE, given |-> 0],
                     mark |-> Opened(k[3]) + 2]]
    /\ history = [k \in {Attention(a) : a \in Attentions} |->
                    [e \in Opened(k[3])..Opened(k[3]) + 1 |->
                        [state |-> "Open", revision |-> e - Opened(k[3]) + 1]]]
                 @@ [k \in {Activation(0, a) : a \in Attentions} |->
                    (Opened(k[3]) + 2 :> [revoked |-> FALSE, finished |-> FALSE, given |-> 0])]
    /\ was = (3 * Cardinality(Attentions) :> Present(rows))

OnActivation(r, g) ==
    \/ FinishActivation(r, g)
    \/ StartProviderAttempt(r, g)
    \/ \E status \in {"Acknowledged", "Completed", "Failed"} : SetProviderAttemptStatus(r, g, status)
    \/ CompleteRun(r, g) \/ WaitRun(r, g) \/ FailRun(r, g)
    \/ ParkRun(r, g) \/ AppendRunActivity(r, g)

OnRun(r) ==
    \/ SendToRun(r) \/ AdoptRunConfig(r) \/ CancelRun(r)
    \/ \E i \in 1..MaxInputs : WithdrawRunInput(r, i) \/ StartActivation(r, i)
    \/ \E g \in 1..MaxGeneration : OnActivation(r, g)

Command ==
    \/ \E a \in Attentions : ResolveAttentionWithRun(a) \/ IgnoreAttention(a)
    \/ \E r \in Runs(rows) : OnRun(r)

HistoryNext == Command

HistorySpec == HistoryInit /\ [][HistoryNext]_historyVars

-----------------------------------------------------------------------------
(* Properties                                                              *)

\* Every row exists with its versions, and commands end at events of the log.
HistoryTypeOK ==
    /\ \A e \in DOMAIN log : log[e].key \in DOMAIN rows /\ log[e].corr \in 1..e
    /\ \A k \in DOMAIN rows : rows[k].mark \in DOMAIN log
    /\ DOMAIN history = {k \in DOMAIN rows : k[1] \in Versioned}
    /\ \A k \in DOMAIN history : DOMAIN history[k] \subseteq DOMAIN log
    /\ DOMAIN was \subseteq DOMAIN log

\* A projection at the end of any command shows exactly the state that command
\* left: every change a command makes, also those no event of its names, has a
\* version at its boundary, and nothing done later shows (kernel README:104,
\* "updated entities are reconstructed from immutable components plus narrow
\* ... versions").
SnapshotTellsThen == \A boundary \in DOMAIN was : ProjectionAt(boundary) = was[boundary]

=============================================================================
