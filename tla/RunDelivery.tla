---------------------------- MODULE RunDelivery ----------------------------
(***************************************************************************)
(* How an AgentRuntime delivers the inputs of one Run to a Provider:       *)
(* drainOutboxBatch, processOutboxEvent and executeProvider of             *)
(* packages/agent-runtime/src/runtime.ts.  Every await is a place where    *)
(* another Host, a person, the Provider, the clock or a crash gets in, so  *)
(* every Kernel call is a step of its own.                                 *)
(*                                                                         *)
(* The Kernel is the one of RunExecution, reduced to what a Runtime can    *)
(* tell apart.  Outbox events are consumed in order (Outbox!FifoDelivery), *)
(* one at a time, so the acknowledged rows are a prefix and one lease is   *)
(* enough; a lease is live or it is not, and a new claim fences the old    *)
(* one.  Only the events that announce an input count: those of other      *)
(* topics are acknowledged at once, and event n is the one about input n.  *)
(* An Activation outlives the lease it was started under             *)
(* (runtime.ts asks for the maximum of both), so its expiry is left out.   *)
(* Hosts share the Runtime principal, hence its idempotency keys: a field  *)
(* "by" is the key of the command that settled a row, "" before that.      *)
(* Native execution in a Worktree is the subject of ControlledExecution.    *)
(***************************************************************************)
EXTENDS Integers, Sequences, FiniteSets

CONSTANTS
    Hosts,          \* the AgentRuntime processes
    Nobody,         \* no holder
    Adapters,       \* supportsIdempotentRequests of the possible adapters
    Withdrawals,    \* whether people may withdraw inputs: {FALSE} or more
    MaxInputs,      \* bound: RunInputs of the Run
    MaxFaults       \* bound: crashes, and leases lost while at work

ASSUME DeliveryAssumption ==
    /\ Nobody \notin Hosts
    /\ Adapters \subseteq BOOLEAN
    /\ Withdrawals \subseteq BOOLEAN
    /\ MaxInputs \in Nat \ {0}
    /\ MaxFaults \in Nat

VARIABLES
    run,        \* state, revision and activation_generation
    inputs,     \* the set of Pending inputs and the number of all inputs
    acts,       \* activation_attempts, by generation
    attempts,   \* provider_attempts
    acked,      \* how many events are acknowledged
    lease,      \* holder and liveness of the lease on event acked + 1
    sent,       \* how often event i's request was given to the Provider
    host,       \* what each Host is doing
    scene,      \* the adapter, and whether inputs are withdrawn
    faults      \* faults so far

kernelVars == <<run, inputs, acts, attempts, acked, lease>>
deliveryVars == <<run, inputs, acts, attempts, acked, lease, sent, host,
                  scene, faults>>

Terminal == {"Completed", "Failed", "Cancelled"}
Settled == {"Completed", "Failed", "Unknown"}
Working == {"claimed", "decide", "uncertain", "expire", "requery", "start",
            "started", "empty", "admit", "attempted", "admitted", "notStarted",
            "budget", "executing", "completing", "finishing", "failing",
            "wait", "settle", "finish", "park", "reconcile", "acking"}

NoView == [run |-> [state |-> "Active", revision |-> 0, generation |-> 0],
           pending |-> {}, acts |-> << >>, attempts |-> << >>]

\* GetRunProjection
Projection == [run |-> run, pending |-> inputs.pending, acts |-> acts,
               attempts |-> attempts]

Idle == [pc |-> "idle", ev |-> 0, view |-> NoView, act |-> 0, att |-> 0,
         rev |-> 0, term |-> FALSE, alive |-> FALSE, outcome |-> "Failed",
         stopped |-> FALSE]
Down == [Idle EXCEPT !.pc = "down"]

\* The idempotency keys under which Hosts finish Activations...
FinishKeys ==
    {"recovered-expired", "reconciled-completed", "reconciled-failed",
     "reconciled-expired", "no-pending-input", "lease-budget-exhausted",
     "completed", "failed"}

\* ... and settle ProviderAttempts.
SettleKeys ==
    {"recovered-unknown", "reconciled-unknown", "lease-budget-exhausted",
     "completed", "unknown", "failed"}

DeliveryTypeOK ==
    /\ run \in [state : {"Active", "Waiting"} \cup Terminal,
                revision : Nat, generation : Nat]
    /\ inputs \in [pending : SUBSET (1..MaxInputs), count : 0..MaxInputs]
    /\ acts \in Seq([by : FinishKeys \cup {""}, revoked : BOOLEAN,
                     supplied : Nat])
    /\ attempts \in Seq([act : Nat, event : Nat, by : SettleKeys \cup {""},
                         status : Settled \cup {"Started"},
                         unstarted : BOOLEAN])
    /\ acked \in 0..inputs.count
    /\ lease \in [holder : Hosts \cup {Nobody}, live : BOOLEAN]
    /\ sent \in [1..MaxInputs -> Nat]
    /\ \A h \in Hosts : host[h].pc \in Working \cup {"idle", "down"}
    /\ faults \in 0..MaxFaults

\* ResolveAttentionWithRun has created the Run, and nobody runs yet.
DeliveryInit ==
    /\ run = [state |-> "Active", revision |-> 1, generation |-> 0]
    /\ inputs = [pending |-> {1}, count |-> 1]
    /\ acts = << >>
    /\ attempts = << >>
    /\ acked = 0
    /\ lease = [holder |-> Nobody, live |-> FALSE]
    /\ sent = [i \in 1..MaxInputs |-> 0]
    /\ host = [h \in Hosts |-> Down]
    /\ scene \in [idempotent : Adapters, withdrawals : Withdrawals]
    /\ faults = 0

-----------------------------------------------------------------------------
(* The Kernel *)

Frontier == acked + 1

\* requireOutboxDeliveryAuthority, for the only event a Host can hold
Authority(h) == lease = [holder |-> h, live |-> TRUE]

\* requireLiveActivation and assertActivationScopeCurrent
Live(a) ==
    /\ acts[a].by = ""
    /\ ~acts[a].revoked
    /\ run.state = "Active"
    /\ run.generation = a

\* revokeRunActivations
Revoked ==
    [a \in DOMAIN acts |->
        [acts[a] EXCEPT !.revoked = @ \/ acts[a].by = ""]]

\* A decision about the Run: its revision and its Activations.
Settle(state) ==
    /\ run' = [run EXCEPT !.state = state, !.revision = @ + 1]
    /\ acts' = Revoked

\* FinishActivation of a under an idempotency key, and whether it succeeds
CanFinish(a, key) == acts[a].by \in {"", key}

Finished(a, key) == [acts EXCEPT ![a].by = key]

\* FinishProviderAttempt and FailProviderAttempt
CanSettle(t, key) == attempts[t].by \in {"", key}

SettledAs(t, status, key) ==
    [attempts EXCEPT ![t] =
        IF attempts[t].by = key THEN @
        ELSE [@ EXCEPT !.status = status, !.by = key]]

-----------------------------------------------------------------------------
(* People *)

SendToRun ==
    /\ run.state \notin Terminal
    /\ inputs.count < MaxInputs
    /\ inputs' = [pending |-> inputs.pending \cup {inputs.count + 1},
                  count |-> inputs.count + 1]
    /\ run' = [run EXCEPT !.revision = @ + 1]
    /\ UNCHANGED <<sent, acts, attempts, acked, lease, host, faults>>

WithdrawRunInput ==
    /\ scene.withdrawals
    /\ run.state \notin Terminal
    /\ \E n \in inputs.pending :
          inputs' = [inputs EXCEPT !.pending = @ \ {n}]
    /\ run' = [run EXCEPT !.revision = @ + 1]
    /\ UNCHANGED <<sent, acts, attempts, acked, lease, host, faults>>

CancelRun ==
    /\ run.state \notin Terminal
    /\ Settle("Cancelled")
    /\ inputs' = [inputs EXCEPT !.pending = {}]
    /\ UNCHANGED <<sent, attempts, acked, lease, host, faults>>

-----------------------------------------------------------------------------
(* A Host.  A rejected promise ends the pass, and the Host with it. *)

At(h, pc) == host[h].pc = pc

Goto(h, pc) == host' = [host EXCEPT ![h].pc = pc]

Throw(h) == host' = [host EXCEPT ![h] = Down]

EndPass(h) ==
    host' = [host EXCEPT ![h] = IF host[h].stopped THEN Down ELSE Idle]

\* The Kernel call "ok /\ effect" by h, which continues at pc, or throws.
Call(h, ok, pc) == IF ok THEN Goto(h, pc) ELSE Throw(h)

\* The event is processed, and only its acknowledgement is left.
Processed(h) ==
    [Idle EXCEPT !.pc = "acking", !.ev = host[h].ev,
                 !.stopped = host[h].stopped]

Start(h) ==
    /\ At(h, "down")
    /\ EndPass(h)
    /\ UNCHANGED <<kernelVars, sent, faults>>

\* ClaimOutboxEvents with batch size 1 under a fresh key.
Claim(h) ==
    /\ At(h, "idle")
    /\ acked < inputs.count
    /\ ~lease.live
    /\ lease' = [holder |-> h, live |-> TRUE]
    /\ host' = [host EXCEPT ![h].pc = "claimed", ![h].ev = Frontier]
    /\ UNCHANGED <<run, inputs, acts, attempts, acked, sent, faults>>

\* GetRunProjection, unless the pass has no time left.
ReadEvent(h) ==
    /\ At(h, "claimed")
    /\ IF Authority(h)
       THEN host' = [host EXCEPT ![h].pc = "decide", ![h].view = Projection]
       ELSE EndPass(h)
    /\ UNCHANGED <<kernelVars, sent, faults>>

\* The last ProviderAttempt for the request of event ev in view v, or 0.
LastAttempt(v, ev) ==
    LET same == {t \in DOMAIN v.attempts : v.attempts[t].event = ev}
    IN  IF same = {} THEN 0 ELSE CHOOSE t \in same : \A u \in same : u <= t

\* Mutant: an attempt that failed is taken for one that never started.
PriorUnfailedAttempt(v, ev) ==
    LET last == LastAttempt(v, ev)
    IN  IF last # 0 /\ v.attempts[last].status = "Failed" THEN 0 ELSE last

\* The same, unless it is known never to have reached the Provider.
PriorAttempt(v, ev) ==
    LET last == LastAttempt(v, ev)
    IN  IF last # 0 /\ v.attempts[last].unstarted THEN 0 ELSE last

\* Whether a Run in the state of view v takes a new Activation for the event:
\* run.activation-requested (the first event) starts only an Active Run.
Startable(v, ev) ==
    \/ v.run.state = "Active"
    \/ v.run.state = "Waiting" /\ ev > 1

\* Mutant: every delivery that failed parks the Run, whatever its state.
DecideParking(h) ==
    LET v == host[h].view
        t == PriorAttempt(v, host[h].ev)
    IN  /\ At(h, "decide")
        /\ Goto(h, IF host[h].ev \notin v.pending THEN "reconcile"
                   ELSE IF t = 0
                   THEN IF Startable(v, host[h].ev) THEN "start" ELSE "reconcile"
                   ELSE IF v.attempts[t].status = "Completed"
                   THEN "reconcile"
                   ELSE IF v.attempts[t].status = "Started"
                   THEN "uncertain"
                   ELSE "park")
        /\ UNCHANGED <<kernelVars, sent, faults>>

\* What processOutboxEvent does about the event, from its view of the Run.
Decide(h) ==
    LET v == host[h].view
        t == PriorAttempt(v, host[h].ev)
    IN  /\ At(h, "decide")
        /\ Goto(h, IF host[h].ev \notin v.pending THEN "reconcile"
                   ELSE IF t = 0
                   THEN IF Startable(v, host[h].ev) THEN "start" ELSE "reconcile"
                   ELSE IF v.attempts[t].status = "Completed"
                   THEN "reconcile"
                   ELSE IF v.attempts[t].status = "Started"
                   THEN "uncertain"
                   ELSE IF v.run.state = "Active"
                           /\ v.attempts[t].act = v.run.generation
                   THEN "park"
                   ELSE "reconcile")
        /\ UNCHANGED <<kernelVars, sent, faults>>

\* settleUncertainAttempt: FinishProviderAttempt, and then FinishActivation
\* unless the view shows it finished.
SettleUncertain(h) ==
    LET t == PriorAttempt(host[h].view, host[h].ev)
    IN  /\ At(h, "uncertain")
        /\ Call(h, CanSettle(t, "recovered-unknown"), "expire")
        /\ attempts' = IF CanSettle(t, "recovered-unknown")
                       THEN SettledAs(t, "Unknown", "recovered-unknown")
                       ELSE attempts
        /\ UNCHANGED <<run, inputs, acts, acked, lease, sent, faults>>

ExpireUncertain(h) ==
    LET v == host[h].view
        a == v.attempts[PriorAttempt(v, host[h].ev)].act
        skip == v.acts[a].by # ""
        ok == skip \/ CanFinish(a, "recovered-expired")
    IN  /\ At(h, "expire")
        /\ Call(h, ok, "requery")
        /\ acts' = IF skip \/ ~ok THEN acts
                   ELSE Finished(a, "recovered-expired")
        /\ UNCHANGED <<run, inputs, attempts, acked, lease, sent,
                       faults>>

\* Whether the Provider may be asked again depends on the adapter.
Requery(h) ==
    /\ At(h, "requery")
    /\ host' = [host EXCEPT ![h].view = Projection,
                            ![h].pc =
           IF scene.idempotent
           THEN IF Startable(Projection, host[h].ev) THEN "start"
                ELSE "reconcile"
           ELSE IF run.state = "Active" THEN "park" ELSE "reconcile"]
    /\ UNCHANGED <<kernelVars, sent, faults>>

\* parkRunAfterDeliveryFailure, from a view that may be outdated.
Park(h) ==
    LET v == host[h].view
        t == LastAttempt(v, host[h].ev)
        ok == /\ run.revision = v.run.revision
              /\ run.state = "Active"
              /\ run.generation = v.run.generation
              /\ attempts[t].act = run.generation
              /\ attempts[t].status \in {"Failed", "Unknown"}
    IN  /\ At(h, "park")
        /\ Call(h, ok, "reconcile")
        /\ IF ok THEN Settle("Waiting") ELSE UNCHANGED <<run, acts>>
        /\ UNCHANGED <<sent, inputs, attempts, acked, lease, faults>>

\* The attempt that view v shows under Activation a, 0 if none.
AttemptOf(v, a) ==
    LET mine == {t \in DOMAIN v.attempts : v.attempts[t].act = a}
    IN  IF mine = {} THEN 0 ELSE CHOOSE t \in mine : TRUE

\* reconcileRunProjection: the first Activation the view shows unfinished has
\* its attempt settled, then is finished, each as one command.
Unreconciled(v) == {a \in DOMAIN v.acts : v.acts[a].by = ""}

ReconcileAttempt(h) ==
    LET v == host[h].view
        a == CHOOSE b \in Unreconciled(v) : \A c \in Unreconciled(v) : b <= c
        t == AttemptOf(v, a)
        ok == CanSettle(t, "reconciled-unknown")
    IN  /\ At(h, "reconcile")
        /\ Unreconciled(v) # {}
        /\ t # 0 /\ v.attempts[t].status = "Started"
        /\ IF ok THEN host' = [host EXCEPT ![h].view.attempts[t].status =
                                              "Unknown"]
           ELSE Throw(h)
        /\ attempts' = IF ok
                       THEN SettledAs(t, "Unknown", "reconciled-unknown")
                       ELSE attempts
        /\ UNCHANGED <<run, inputs, acts, acked, lease, sent, faults>>

ReconcileKey(v, t) ==
    IF t # 0 /\ v.attempts[t].status = "Completed" THEN "reconciled-completed"
    ELSE IF t # 0 /\ v.attempts[t].status = "Failed" THEN "reconciled-failed"
    ELSE "reconciled-expired"

ReconcileActivation(h) ==
    LET v == host[h].view
        a == CHOOSE b \in Unreconciled(v) : \A c \in Unreconciled(v) : b <= c
        t == AttemptOf(v, a)
        key == ReconcileKey(v, t)
    IN  /\ At(h, "reconcile")
        /\ Unreconciled(v) # {}
        /\ ~(t # 0 /\ v.attempts[t].status = "Started")
        /\ IF CanFinish(a, key)
           THEN /\ host' = [host EXCEPT ![h].view.acts[a].by = key]
                /\ acts' = Finished(a, key)
           ELSE Throw(h) /\ UNCHANGED acts
        /\ UNCHANGED <<run, inputs, attempts, acked, lease, sent,
                       faults>>

Reconciled(h) ==
    /\ At(h, "reconcile")
    /\ Unreconciled(host[h].view) = {}
    /\ host' = [host EXCEPT ![h] = Processed(h)]
    /\ UNCHANGED <<kernelVars, sent, faults>>

\* AcknowledgeOutboxEvents, unless the lease has run out by then.
Acknowledge(h) ==
    /\ At(h, "acking")
    /\ EndPass(h)
    /\ IF Authority(h)
       THEN /\ acked' = acked + 1
            /\ lease' = [holder |-> Nobody, live |-> FALSE]
       ELSE UNCHANGED <<acked, lease>>
    /\ UNCHANGED <<run, inputs, acts, attempts, sent, faults>>

-----------------------------------------------------------------------------
(* The delivery of an event to the Provider *)

\* StartActivation for the revision the view shows.
StartActivation(h) ==
    LET v == host[h].view
        ok == /\ Authority(h)
              /\ run.state \notin Terminal
              /\ run.revision = v.run.revision
              /\ host[h].ev \in inputs.pending
    IN  /\ At(h, "start")
        /\ IF ok
           THEN /\ host' = [host EXCEPT ![h].pc = "started",
                                        ![h].act = Len(acts) + 1]
                /\ acts' = Append(Revoked,
                     [by |-> "", revoked |-> FALSE, supplied |-> inputs.count])
                /\ run' = [state |-> "Active",
                           revision |-> IF run.state = "Waiting"
                                        THEN run.revision + 1
                                        ELSE run.revision,
                           generation |-> run.generation + 1]
           ELSE Throw(h) /\ UNCHANGED <<run, acts>>
        /\ UNCHANGED <<inputs, attempts, acked, lease, sent, faults>>

\* The inputs of view v that Activation a is to work on.
DeliveryInputs(v, a) == {n \in v.pending : n <= v.acts[a].supplied}

ReadActivation(h) ==
    /\ At(h, "started")
    /\ host' = [host EXCEPT ![h].view = Projection,
                            ![h].pc =
           IF DeliveryInputs(Projection, host[h].act) = {} THEN "empty"
           ELSE "admit"]
    /\ UNCHANGED <<kernelVars, sent, faults>>

FinishEmpty(h) ==
    LET ok == CanFinish(host[h].act, "no-pending-input")
    IN  /\ At(h, "empty")
        /\ IF ok THEN host' = [host EXCEPT ![h] = Processed(h)] ELSE Throw(h)
        /\ acts' = IF ok THEN Finished(host[h].act, "no-pending-input")
                   ELSE acts
        /\ UNCHANGED <<run, inputs, attempts, acked, lease, sent,
                       faults>>

\* No time left, or stopped, before anything was asked of the Provider.
NoBudget(h) ==
    /\ At(h, "admit")
    /\ host[h].stopped \/ ~Authority(h)
    /\ Goto(h, "budget")
    /\ UNCHANGED <<kernelVars, sent, faults>>

\* finishActivationBeforeProvider: the event stays unacknowledged.
FinishBeforeProvider(h) ==
    LET ok == CanFinish(host[h].act, "lease-budget-exhausted")
    IN  /\ At(h, "budget")
        /\ IF ok THEN EndPass(h) ELSE Throw(h)
        /\ acts' = IF ok THEN Finished(host[h].act, "lease-budget-exhausted")
                   ELSE acts
        /\ UNCHANGED <<run, inputs, attempts, acked, lease, sent,
                       faults>>

StartProviderAttempt(h) ==
    LET a == host[h].act
        ok == /\ Live(a)
              /\ Authority(h)
              /\ DeliveryInputs(host[h].view, a) \subseteq inputs.pending
    IN  /\ At(h, "admit")
        /\ ~host[h].stopped
        /\ IF ok
           THEN /\ host' = [host EXCEPT ![h].pc = "attempted",
                                        ![h].att = Len(attempts) + 1]
                /\ attempts' = Append(attempts,
                     [act |-> a, event |-> host[h].ev, status |-> "Started",
                      by |-> "", unstarted |-> FALSE])
           ELSE Throw(h) /\ UNCHANGED attempts
        /\ UNCHANGED <<run, inputs, acts, acked, lease, sent, faults>>

\* findProviderAttemptStatus: another Host may have settled the attempt.
FindStatus(h) ==
    LET status == attempts[host[h].att].status
        next == IF status = "Started" THEN "admitted"
                ELSE IF status # "Completed" /\ run.state = "Active"
                        /\ run.generation = host[h].act THEN "park"
                ELSE "reconcile"
    IN  /\ At(h, "attempted")
        /\ host' = IF next = "admitted" THEN [host EXCEPT ![h].pc = next]
                   ELSE [host EXCEPT ![h].pc = next, ![h].view = Projection]
        /\ UNCHANGED <<kernelVars, sent, faults>>

\* resolveCachedProviderAttempt: the admission is asked for again right before
\* the Provider is.
Admitted(h) ==
    /\ Live(host[h].act)
    /\ Authority(h)
    /\ host[h].ev \in inputs.pending

Execute(h) ==
    /\ At(h, "admitted")
    /\ IF Admitted(h)
       THEN /\ host' = [host EXCEPT
                  ![h].pc = "executing", ![h].alive = TRUE,
                  ![h].rev = host[h].view.run.revision, ![h].view = NoView]
            /\ sent' = [sent EXCEPT ![host[h].ev] = @ + 1]
       ELSE Throw(h) /\ UNCHANGED sent
    /\ UNCHANGED <<kernelVars, faults>>

\* The admission is granted with less time left than the safety margin.
BudgetExhausted(h) ==
    /\ At(h, "admitted")
    /\ Admitted(h)
    /\ faults < MaxFaults
    /\ faults' = faults + 1
    /\ Goto(h, "notStarted")
    /\ UNCHANGED <<kernelVars, sent>>

SettleNotStarted(h) ==
    LET t == host[h].att
        key == "lease-budget-exhausted"
    IN  /\ At(h, "notStarted")
        /\ Goto(h, "budget")
        /\ attempts' = IF attempts[t].by = ""
                       THEN [attempts EXCEPT ![t].status = "Failed",
                                  ![t].by = key, ![t].unstarted = TRUE]
                       ELSE attempts
        /\ UNCHANGED <<run, inputs, acts, acked, lease, sent, faults>>

\* The Provider ends the Run's turn through the bridge, at most once, in the
\* revision the bridge was made with.  The abort of an execution does not
\* keep a Provider from acting that has not returned yet.
ProviderActs(h, state) ==
    /\ host[h].alive
    /\ ~host[h].term
    /\ Live(host[h].act)
    /\ run.revision = host[h].rev
    /\ Settle(state)
    /\ inputs' = IF state = "Waiting" THEN inputs
                 ELSE [inputs EXCEPT !.pending = {}]
    /\ host' = [host EXCEPT ![h].term = TRUE]
    /\ UNCHANGED <<sent, attempts, acked, lease, faults>>

\* The adapter's promise settles.  Returning without a decision is a protocol
\* error; an error after one is still an error.
ProviderReturns(h) ==
    /\ At(h, "executing")
    /\ \/ /\ host[h].term
          /\ host' = [host EXCEPT ![h].pc = "completing", ![h].alive = FALSE]
       \/ \E outcome \in {"Failed", "Unknown"} :
             host' = [host EXCEPT ![h].pc = "failing", ![h].alive = FALSE,
                                  ![h].outcome = outcome]
    /\ UNCHANGED <<kernelVars, sent, faults>>

\* The timer of monitorExecution.
Timeout(h) ==
    /\ At(h, "executing")
    /\ host' = [host EXCEPT ![h].pc = "failing", ![h].outcome = "Unknown"]
    /\ UNCHANGED <<kernelVars, sent, faults>>

\* The poll of monitorExecution: the Activation is no longer current.
MonitorAborts(h) ==
    /\ At(h, "executing")
    /\ ~host[h].term
    /\ ~Live(host[h].act)
    /\ host' = [host EXCEPT ![h].pc = "failing", ![h].outcome = "Unknown"]
    /\ UNCHANGED <<kernelVars, sent, faults>>

\* settleProviderAttempt: a Conflict with a settled attempt is accepted.
SettleOwn(h, pc, next, status, key) ==
    /\ At(h, pc)
    /\ Goto(h, next)
    /\ attempts' = IF attempts[host[h].att].by = ""
                   THEN SettledAs(host[h].att, status, key) ELSE attempts
    /\ UNCHANGED <<run, inputs, acts, acked, lease, sent, faults>>

SettleCompleted(h) ==
    SettleOwn(h, "completing", "finishing", "Completed", "completed")

FinishCompleted(h) ==
    LET ok == CanFinish(host[h].act, "completed")
    IN  /\ At(h, "finishing")
        /\ host' = IF ok THEN [host EXCEPT ![h] = Processed(h)]
                   ELSE [host EXCEPT ![h].pc = "settle",
                                     ![h].outcome = "Unknown"]
        /\ acts' = IF ok THEN Finished(host[h].act, "completed") ELSE acts
        /\ UNCHANGED <<run, inputs, attempts, acked, lease, sent,
                       faults>>

\* The catch block: GetRunProjection, unless the Provider already decided.
FailureRead(h) ==
    /\ At(h, "failing")
    /\ Goto(h, IF ~host[h].term /\ Live(host[h].act) THEN "wait"
               ELSE "settle")
    /\ UNCHANGED <<kernelVars, sent, faults>>

\* bridge.wait on behalf of the failed Provider.  A Run that moved on is left
\* alone; a Provider that decided in the meantime makes the bridge throw.
FailureWait(h) ==
    LET ok == /\ Live(host[h].act)
              /\ run.revision = host[h].rev
    IN  /\ At(h, "wait")
        /\ IF host[h].term THEN Throw(h)
           ELSE host' = [host EXCEPT ![h].pc = "settle", ![h].term = ok]
        /\ IF ~host[h].term /\ ok THEN Settle("Waiting")
           ELSE UNCHANGED <<run, acts>>
        /\ UNCHANGED <<sent, inputs, attempts, acked, lease, faults>>

SettleFailed(h) ==
    SettleOwn(h, "settle", "finish", host[h].outcome,
              IF host[h].outcome = "Unknown" THEN "unknown" ELSE "failed")

\* FinishActivation, and the Provider's error ends the pass.
FinishFailed(h) ==
    /\ At(h, "finish")
    /\ Throw(h)
    /\ acts' = IF CanFinish(host[h].act, "failed")
               THEN Finished(host[h].act, "failed") ELSE acts
    /\ UNCHANGED <<run, inputs, attempts, acked, lease, sent, faults>>

-----------------------------------------------------------------------------
(* Faults *)

Fault == faults < MaxFaults /\ faults' = faults + 1

\* AgentRuntime.stop: the execution under way is aborted and nothing new is
\* begun.
Stop(h) ==
    /\ Fault
    /\ host[h].pc # "down"
    /\ ~host[h].stopped
    /\ host' = [host EXCEPT ![h] =
           IF @.pc = "idle" THEN Down
           ELSE IF @.pc = "executing"
           THEN [@ EXCEPT !.pc = "failing", !.outcome = "Unknown",
                          !.stopped = TRUE]
           ELSE [@ EXCEPT !.stopped = TRUE]]
    /\ UNCHANGED <<kernelVars, sent>>

Crash(h) ==
    /\ Fault
    /\ host[h].pc # "down"
    /\ Throw(h)
    /\ UNCHANGED <<kernelVars, sent>>

AtWork == lease.live /\ host[lease.holder].pc \in Working
                     /\ host[lease.holder].ev = Frontier

Expire ==
    /\ lease' = [lease EXCEPT !.live = FALSE]
    /\ UNCHANGED <<run, inputs, acts, attempts, acked, sent, host>>

\* The lease of a Host that works runs out...
LeaseLost == AtWork /\ Fault /\ Expire

\* ... or that of one that gave the event up.
LeaseLapses == lease.live /\ ~AtWork /\ Expire /\ UNCHANGED faults

-----------------------------------------------------------------------------
HostStep(h) ==
    \/ Start(h) \/ Claim(h) \/ ReadEvent(h) \/ Decide(h)
    \/ SettleUncertain(h) \/ ExpireUncertain(h) \/ Requery(h) \/ Park(h)
    \/ ReconcileAttempt(h) \/ ReconcileActivation(h) \/ Reconciled(h)
    \/ Acknowledge(h) \/ StartActivation(h) \/ ReadActivation(h)
    \/ FinishEmpty(h) \/ NoBudget(h) \/ FinishBeforeProvider(h)
    \/ StartProviderAttempt(h) \/ FindStatus(h) \/ Execute(h)
    \/ SettleNotStarted(h) \/ Timeout(h) \/ MonitorAborts(h)
    \/ SettleCompleted(h) \/ FinishCompleted(h) \/ FailureRead(h)
    \/ FailureWait(h) \/ SettleFailed(h) \/ FinishFailed(h)

DeliveryStep ==
    \/ \E h \in Hosts :
          \/ HostStep(h)
          \/ \E state \in {"Completed", "Failed", "Waiting"} :
                ProviderActs(h, state)
          \/ ProviderReturns(h)
          \/ BudgetExhausted(h) \/ Stop(h) \/ Crash(h)
    \/ LeaseLost \/ LeaseLapses
    \/ SendToRun \/ WithdrawRunInput \/ CancelRun

DeliveryNext == DeliveryStep /\ UNCHANGED scene

\* A Host keeps going and is started again when it went down; leases run out.
\* Nothing is promised about people, Providers or faults.
DeliveryFairness ==
    /\ \A h \in Hosts : WF_deliveryVars(HostStep(h) /\ UNCHANGED scene)
    /\ WF_deliveryVars(LeaseLapses /\ UNCHANGED scene)

DeliverySpec ==
    /\ DeliveryInit
    /\ [][DeliveryNext]_deliveryVars
    /\ DeliveryFairness

-----------------------------------------------------------------------------
(* Properties *)

\* A request reaches a Provider that cannot recognize it at most once: crashes
\* after the ProviderAttempt was recorded, leases lost to another Host and
\* retries of the event never send it again.
SentOnce == ~scene.idempotent => \A i \in DOMAIN sent : sent[i] <= 1

\* Acknowledging an event closes its delivery: whatever ProviderAttempt was
\* ever recorded for it has an outcome by then.
AckedIsSettled ==
    \A t \in DOMAIN attempts :
        attempts[t].event <= acked => attempts[t].status \in Settled

\* No input is forgotten: while inputs are Pending in an Active Run, an event
\* that announces one is still to be acknowledged, so that somebody will start
\* an Activation or park the Run for people to decide.  It holds of adapters
\* like Copilot's, whose requests cannot be repeated, and while no input is
\* withdrawn during its delivery; the README says what happens otherwise.
NoStrandedInput ==
    /\ ~scene.idempotent
    /\ ~scene.withdrawals
    /\ run.state = "Active"
    /\ inputs.pending # {}
    => \E n \in inputs.pending : n > acked

\* Every event is finally acknowledged.
EventsConsumed ==
    \A i \in 1..MaxInputs : inputs.count >= i ~> acked >= i

\* The delivery of a Run at any time, over crashes, lost leases, timeouts and
\* late answers: nothing is sent twice and nothing is forgotten.
DeliverySafety ==
    /\ DeliveryTypeOK
    /\ SentOnce
    /\ NoStrandedInput

=============================================================================
