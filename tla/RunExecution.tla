---------------------------- MODULE RunExecution ----------------------------
(***************************************************************************)
(* One Run of an Agent and everything that executes it: its inputs, its    *)
(* Activations and their ProviderAttempts (packages/kernel/src/runs.ts and *)
(* execution.ts), composed with the outbox whose leases authorize          *)
(* delivery.  Runs share the outbox only; the events of everything else    *)
(* in the database are Notices.                                            *)
(*                                                                         *)
(* A command states the Run revision its caller read and is refused when   *)
(* it is not the current one, so every accepted command acts on the        *)
(* current revision: callers that read an older one are stuttering steps.  *)
(* RunActivityEvents and replies are appended without touching this state  *)
(* and are left out.                                                       *)
(***************************************************************************)
EXTENDS Outbox

CONSTANTS
    ActivationTimes,    \* the durations Activations are started with
    MaxInputs,          \* bound: RunInputs of the Run
    MaxGenerations,     \* bound: Activations of the Run
    MaxAttempts         \* bound: ProviderAttempts of the Run

\* An event's payload is the sequence of the RunInput it announces, or Notice.
Notice == 0

ASSUME RunAssumption ==
    /\ ActivationTimes \subseteq Nat \ {0}
    /\ MaxInputs \in Nat \ {0}
    /\ MaxGenerations \in Nat
    /\ MaxAttempts \in Nat
    /\ Payloads = 0..MaxInputs

VARIABLES
    run,            \* state, revision and activation_generation
    inputs,         \* run_inputs, by run_input_sequence
    activations,    \* activation_attempts of the Run, by generation
    attempts        \* provider_attempts of the Run

runVars == <<run, inputs, activations, attempts>>

vars == <<now, outbox, drawn, claims, receipts,
          run, inputs, activations, attempts>>

Terminal == {"Completed", "Failed", "Cancelled"}

RunStates == {"Active", "Waiting"} \cup Terminal

Dispositions ==
    {"Pending", "Incorporated", "Declined", "Superseded", "Withdrawn",
     "Abandoned"}

Unsettled == {"Started", "Acknowledged"}

AttemptStatuses == Unsettled \cup {"Completed", "Failed", "Unknown"}

RunTypeOK ==
    /\ OutboxTypeOK
    /\ run \in [state : RunStates, revision : Nat, generation : Nat]
    /\ inputs \in Seq([disposition : Dispositions, supersededBy : Nat])
    /\ activations \in Seq([finished : BOOLEAN, revoked : BOOLEAN,
                            expires : Nat, supplied : Nat])
    /\ attempts \in Seq([activation : Nat, inputs : SUBSET Nat,
                         status : AttemptStatuses])

PendingInput == [disposition |-> "Pending", supersededBy |-> 0]

\* ResolveAttentionWithRun has just created the Run with its first input.
Init ==
    /\ now = 0
    /\ outbox = << Fresh(1) >>
    /\ drawn = 0
    /\ claims = << >>
    /\ receipts = {}
    /\ run = [state |-> "Active", revision |-> 1, generation |-> 0]
    /\ inputs = << PendingInput >>
    /\ activations = << >>
    /\ attempts = << >>

-----------------------------------------------------------------------------
Mutable == run.state \notin Terminal

\* requireLiveActivation and assertActivationScopeCurrent
Live(a) ==
    /\ ~activations[a].finished
    /\ ~activations[a].revoked
    /\ activations[a].expires > now
    /\ run.state = "Active"
    /\ run.generation = a

PendingInputs == {n \in DOMAIN inputs : inputs[n].disposition = "Pending"}

\* Mutant: an Activation that expired is left unrevoked.
RevokedUnexpired ==
    [a \in DOMAIN activations |->
        [activations[a] EXCEPT
            !.revoked = @ \/ (~activations[a].finished
                              /\ activations[a].expires > now)]]

\* revokeRunActivations: every unfinished Activation.
RevokedActivations ==
    [a \in DOMAIN activations |->
        [activations[a] EXCEPT !.revoked = @ \/ ~activations[a].finished]]

\* The transaction's trailing enqueueOutbox.
Announce(payload) ==
    /\ Len(outbox) < MaxEvents
    /\ outbox' = Enqueued(payload)
    /\ UNCHANGED <<now, drawn, claims, receipts>>

\* SendToRun and ResolveAttentionWithExistingRun
AddInput ==
    /\ Mutable
    /\ Len(inputs) < MaxInputs
    /\ inputs' = Append(inputs, PendingInput)
    /\ run' = [run EXCEPT !.revision = @ + 1]
    /\ Announce(Len(inputs) + 1)
    /\ UNCHANGED <<activations, attempts>>

\* Mutant: a withdrawal keeps the revision.
WithdrawInputUnnoticed(n) ==
    /\ Mutable
    /\ n \in PendingInputs
    /\ inputs' = [inputs EXCEPT ![n].disposition = "Withdrawn"]
    /\ Announce(Notice)
    /\ UNCHANGED <<run, activations, attempts>>

WithdrawInput(n) ==
    /\ Mutable
    /\ n \in PendingInputs
    /\ inputs' = [inputs EXCEPT ![n].disposition = "Withdrawn"]
    /\ run' = [run EXCEPT !.revision = @ + 1]
    /\ Announce(Notice)
    /\ UNCHANGED <<activations, attempts>>

\* requireOutboxDeliveryAuthority: event i announces an input of this Run and
\* principal p holds the frontier under the token of receipt r.
MayDeliver(p, r, i) ==
    /\ i \in DOMAIN outbox
    /\ outbox[i].payload # Notice
    /\ DeliveryAuthority(p, r.token, i)

\* StartActivation for the event i: every older Activation is superseded, and
\* all inputs the Run has by now are supplied.
StartActivation(p, r, i, d) ==
    /\ Mutable
    /\ Len(activations) < MaxGenerations
    /\ MayDeliver(p, r, i)
    /\ outbox[i].payload \in PendingInputs
    /\ activations' = Append(RevokedActivations,
         [finished |-> FALSE, revoked |-> FALSE, expires |-> now + d,
          supplied |-> Len(inputs)])
    /\ \/ /\ run.state = "Waiting"
          /\ run' = [state |-> "Active", revision |-> run.revision + 1,
                     generation |-> run.generation + 1]
          /\ Announce(Notice)
       \/ /\ run.state = "Active"
          /\ run' = [run EXCEPT !.generation = @ + 1]
          /\ UNCHANGED outboxVars
    /\ UNCHANGED <<inputs, attempts>>

\* FinishActivation: by the Runtime whatever became of the Activation, by the
\* Agent while it is current.
FinishActivation(a) ==
    /\ ~activations[a].finished
    /\ activations' = [activations EXCEPT ![a].finished = TRUE]
    /\ UNCHANGED <<outboxVars, run, inputs, attempts>>

StartProviderAttempt(p, r, i, a, ins) ==
    /\ Len(attempts) < MaxAttempts
    /\ Live(a)
    /\ MayDeliver(p, r, i)
    /\ outbox[i].payload \in ins
    /\ \A n \in ins : n \in PendingInputs /\ n <= activations[a].supplied
    /\ attempts' = Append(attempts,
         [activation |-> a, inputs |-> ins, status |-> "Started"])
    /\ UNCHANGED <<outboxVars, run, inputs, activations>>

\* FinishProviderAttempt and FailProviderAttempt, by the Runtime at any time.
SetAttemptStatus(t, status) ==
    /\ attempts[t].status \in Unsettled
    /\ status # "Started"
    /\ status # attempts[t].status
    /\ attempts' = [attempts EXCEPT ![t].status = status]
    /\ UNCHANGED <<outboxVars, run, inputs, activations>>

-----------------------------------------------------------------------------
(* Decisions.  Each ends every Activation of the Run. *)

Settle(state) ==
    /\ run' = [run EXCEPT !.state = state, !.revision = @ + 1]
    /\ activations' = RevokedActivations
    /\ Announce(Notice)
    /\ UNCHANGED attempts

\* No chain of supersededBy runs into itself.
Acyclic(by) ==
    \A S \in SUBSET DOMAIN by : S # {} => \E n \in S : by[n] \notin S

\* CompleteRun: every Pending input gets a disposition, which the Activation
\* may only give to inputs it was supplied.  "declined" and "by" are the
\* exceptions of the command: inputs declined (or called abandoned, which nothing
\* tells apart), and inputs superseded by others.
CompleteRun(a, declined, by) ==
    /\ Live(a)
    /\ DOMAIN by \cap declined = {}
    /\ \A n \in DOMAIN by : by[n] # n
    /\ Acyclic(by)
    /\ \A n \in PendingInputs : n <= activations[a].supplied
    /\ inputs' = [n \in DOMAIN inputs |->
         IF n \notin PendingInputs THEN inputs[n]
         ELSE IF n \in DOMAIN by
              THEN [disposition |-> "Superseded", supersededBy |-> by[n]]
         ELSE IF n \in declined
              THEN [disposition |-> "Declined", supersededBy |-> 0]
         ELSE [disposition |-> "Incorporated", supersededBy |-> 0]]
    /\ Settle("Completed")

WaitRun(a) ==
    /\ Live(a)
    /\ Settle("Waiting")
    /\ UNCHANGED inputs

\* terminateRun
Terminate(state) ==
    /\ inputs' = [n \in DOMAIN inputs |->
         IF n \in PendingInputs
         THEN [inputs[n] EXCEPT !.disposition = "Abandoned"]
         ELSE inputs[n]]
    /\ Settle(state)

FailRun(a) == Live(a) /\ Terminate("Failed")

CancelRun == Mutable /\ Terminate("Cancelled")

\* ParkRunAfterProviderAttemptFailure: the Runtime parks the Run of a lost
\* attempt, unless a newer Activation took over since.
ParkRun(t) ==
    /\ run.state = "Active"
    /\ attempts[t].activation = run.generation
    /\ attempts[t].status \in {"Failed", "Unknown"}
    /\ Settle("Waiting")
    /\ UNCHANGED inputs

-----------------------------------------------------------------------------
RunStep ==
    \/ AddInput
    \/ \E n \in DOMAIN inputs : WithdrawInput(n)
    \/ \E p \in Runtimes, r \in receipts, i \in DOMAIN outbox :
          \/ \E d \in ActivationTimes : StartActivation(p, r, i, d)
          \/ \E a \in DOMAIN activations, ins \in SUBSET DOMAIN inputs :
                StartProviderAttempt(p, r, i, a, ins)
    \/ \E t \in DOMAIN attempts :
          \/ \E status \in AttemptStatuses : SetAttemptStatus(t, status)
          \/ ParkRun(t)
    \/ \E a \in DOMAIN activations :
          \/ FinishActivation(a) \/ WaitRun(a) \/ FailRun(a)
          \/ \E declined, superseded \in SUBSET PendingInputs :
                \E by \in [superseded -> DOMAIN inputs] :
                   CompleteRun(a, declined, by)
    \/ CancelRun

\* Something else in the database enqueues an event.
OtherEvent == Announce(Notice) /\ UNCHANGED runVars

Next ==
    \/ RunStep
    \/ OtherEvent
    \/ DeliveryStep /\ UNCHANGED runVars

Spec == Init /\ [][Next]_vars

-----------------------------------------------------------------------------
(* Properties *)

\* A terminal Run owes nothing: every input has its disposition, and no
\* Activation is left that a clock set back, a late Agent or a replayed
\* StartActivation could use.
TerminalOwesNothing ==
    ~Mutable =>
        /\ PendingInputs = {}
        /\ \A a \in DOMAIN activations :
              activations[a].finished \/ activations[a].revoked

\* Only the latest Activation of an Active Run is neither finished nor
\* revoked: superseding, waiting, parking and ending never leave an older one
\* that could become live again.
OnlyLatestUnrevoked ==
    \A a \in DOMAIN activations :
        ~activations[a].finished /\ ~activations[a].revoked =>
            run.state = "Active" /\ a = run.generation

\* Nothing is swept under a completed Run: every input it counts as
\* incorporated, declined or superseded was supplied to the Activation that
\* completed it, even if it arrived while that Activation was running, and
\* every chain of supersession ends in an input that was not superseded.
CompletedConsidered ==
    run.state = "Completed" =>
        LET Superseded ==
                {n \in DOMAIN inputs : inputs[n].disposition = "Superseded"}
        IN  /\ \A n \in DOMAIN inputs :
                  inputs[n].disposition \in {"Incorporated", "Declined",
                                             "Superseded"} =>
                      n <= activations[run.generation].supplied
            /\ \A S \in SUBSET Superseded : S # {} =>
                  \E n \in S : inputs[n].supersededBy \in DOMAIN inputs \ S

\* What a ProviderAttempt was given to work on was supplied to the Activation
\* it runs under: an input that arrives while an Activation is running reaches
\* a Provider only through a later Activation.
AttemptInputsSupplied ==
    \A t \in DOMAIN attempts : \A n \in attempts[t].inputs :
        /\ n \in DOMAIN inputs
        /\ n <= activations[attempts[t].activation].supplied

\* Optimistic concurrency is sound: every step that changes what a caller can
\* have based a decision on (the state, the set of inputs, a disposition)
\* moves the revision by exactly one, and a terminal Run never changes again.
RevisionGuardsDecisions ==
    [][/\ run'.state # run.state \/ inputs' # inputs =>
             run'.revision = run.revision + 1
       /\ ~Mutable => run' = run /\ inputs' = inputs]_vars

\* What a Run may be at any time, whatever order its Agents, people, Providers
\* and the clock act in: well-typed, owing nothing once terminal, with at most
\* one Activation that can act, which considered what it completes, and whose
\* Providers see only what it was supplied.
RunSafety ==
    /\ RunTypeOK
    /\ TerminalOwesNothing
    /\ OnlyLatestUnrevoked
    /\ CompletedConsidered
    /\ AttemptInputsSupplied

=============================================================================
