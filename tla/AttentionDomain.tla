-------------------------- MODULE AttentionDomain --------------------------
(***************************************************************************)
(* The Attentions of one execution domain (one Agent in one Thread), the   *)
(* fence that lets one of them be handled at a time, and the Activations   *)
(* and ProviderAttempts that handle it: packages/kernel/src/attentions.ts, *)
(* the Attention part of execution.ts, claimAttentionDomain and its        *)
(* companions in invariants.ts, and the triggers of schema.ts that keep    *)
(* the counters of unsettled ProviderAttempts.                             *)
(*                                                                         *)
(* Domains share nothing, so one domain is the whole component.  Revisions *)
(* are left out: a command that states an outdated one is refused, and     *)
(* whatever outdates it also replaces the lease token the command needs.   *)
(***************************************************************************)
EXTENDS Integers, Sequences, FiniteSets

CONSTANTS
    Attentions,     \* the Attentions raised in the domain
    NoAttention,    \* stands for a fence row that does not exist
    Durations,      \* lease and Activation durations
    MaxClock,       \* bound: the clock stays in 0..MaxClock
    MaxLeases,      \* bound: handler lease tokens drawn
    MaxAttempts     \* bound: ProviderAttempts

ASSUME DomainAssumption ==
    /\ NoAttention \notin Attentions
    /\ Durations \subseteq Nat \ {0}
    /\ MaxClock \in Nat
    /\ MaxLeases \in Nat
    /\ MaxAttempts \in Nat

VARIABLES
    clock,
    attentions,     \* status and handler lease of each Attention
    fence,          \* the domain's row of attention_domain_fences
    drawn,          \* lease tokens drawn so far
    activations,    \* activation_attempts, each with its recovery row
    attempts        \* provider_attempts

vars == <<clock, attentions, fence, drawn, activations, attempts>>

\* A token or an expiry of 0 is NULL.  "tracked" and "unsettled" are the
\* existence and the counter of the row of attention_recovery_executions.
TypeOK ==
    /\ clock \in 0..MaxClock
    /\ attentions \in [Attentions ->
          [status : {"Open", "Resolved", "Ignored"}, token : Nat,
           expires : Nat]]
    /\ fence \in [attention : Attentions \cup {NoAttention}, token : Nat,
                  expires : Nat, count : Nat]
    /\ drawn \in Nat
    /\ activations \in Seq([attention : Attentions, token : Nat,
                            expires : Nat, finished : BOOLEAN,
                            revoked : BOOLEAN, tracked : BOOLEAN,
                            unsettled : Nat])
    /\ attempts \in Seq([activation : Nat, settled : BOOLEAN])

NoFence ==
    [attention |-> NoAttention, token |-> 0, expires |-> 0, count |-> 0]

Init ==
    /\ clock = 0
    /\ attentions = [x \in Attentions |->
                        [status |-> "Open", token |-> 0, expires |-> 0]]
    /\ fence = NoFence
    /\ drawn = 0
    /\ activations = << >>
    /\ attempts = << >>

-----------------------------------------------------------------------------
\* attentionDomainFenceMatches for the lease x holds now.
FenceMatches(x) ==
    /\ fence.attention = x
    /\ fence.token = attentions[x].token
    /\ fence.expires = attentions[x].expires

\* assertAttentionLease
LeaseCurrent(x) ==
    /\ attentions[x].token # 0
    /\ attentions[x].expires > clock
    /\ FenceMatches(x)

\* activationValidityAt, for a cause that is an Attention
Live(a) ==
    LET act == activations[a]
        x == act.attention
    IN  /\ ~act.finished
        /\ ~act.revoked
        /\ act.expires > clock
        /\ attentions[x].status = "Open"
        /\ attentions[x].token = act.token
        /\ LeaseCurrent(x)

\* The trigger attention_recovery_activation_update: the recovery row of a
\* revoked Activation goes once nothing of it is unsettled.
Tracked(act) ==
    [act EXCEPT !.tracked = @ /\ ~(act.revoked /\ act.unsettled = 0)]

\* The Activations after the ones in doomed are revoked.
Revoke(doomed) ==
    [a \in DOMAIN activations |->
        IF a \in doomed /\ ~activations[a].revoked
        THEN Tracked([activations[a] EXCEPT !.revoked = TRUE])
        ELSE activations[a]]

\* The fence refuses a claim while its lease is live or an execution that
\* started under it is not known to have ended.
DomainBusy == fence.expires > clock \/ fence.count > 0

\* Mutant: a decided Attention may be claimed.
ClaimAttentionDecided(x, d) ==
    LET token == drawn + 1
        previous == fence.attention
    IN  /\ drawn < MaxLeases
        /\ attentions[x].expires <= clock
        /\ ~DomainBusy
        /\ previous \notin {x, NoAttention} => FenceMatches(previous)
        /\ attentions' = [y \in Attentions |->
             CASE y = x -> [attentions[y] EXCEPT !.token = token,
                                                 !.expires = clock + d]
               [] y = previous /\ y # x ->
                    [attentions[y] EXCEPT !.token = 0, !.expires = 0]
               [] OTHER -> attentions[y]]
        /\ activations' = Revoke({a \in DOMAIN activations :
             \/ activations[a].attention = x
             \/ activations[a].attention = previous /\ ~activations[a].finished})
        /\ fence' = [attention |-> x, token |-> token,
                     expires |-> clock + d, count |-> 0]
        /\ drawn' = token
        /\ UNCHANGED <<clock, attempts>>

\* ClaimAttention for x: the Attention that held the domain, if it is another
\* one, loses its lapsed lease, and what ran under either lease is revoked.
ClaimAttention(x, d) ==
    LET token == drawn + 1
        previous == fence.attention
    IN  /\ drawn < MaxLeases
        /\ attentions[x].status = "Open"
        /\ attentions[x].expires <= clock
        /\ ~DomainBusy
        /\ previous \notin {x, NoAttention} => FenceMatches(previous)
        /\ attentions' = [y \in Attentions |->
             CASE y = x -> [attentions[y] EXCEPT !.token = token,
                                                 !.expires = clock + d]
               [] y = previous /\ y # x ->
                    [attentions[y] EXCEPT !.token = 0, !.expires = 0]
               [] OTHER -> attentions[y]]
        /\ activations' = Revoke({a \in DOMAIN activations :
             \/ activations[a].attention = x
             \/ activations[a].attention = previous /\ ~activations[a].finished})
        /\ fence' = [attention |-> x, token |-> token,
                     expires |-> clock + d, count |-> 0]
        /\ drawn' = token
        /\ UNCHANGED <<clock, attempts>>

\* Mutant: a lease may be used for several Activations.
StartActivationAgain(x, d) ==
    LET lease == attentions[x]
        until == IF lease.expires < clock + d THEN lease.expires ELSE clock + d
    IN  /\ lease.status = "Open"
        /\ LeaseCurrent(x)
        /\ activations' = Append(activations,
             [attention |-> x, token |-> lease.token, expires |-> until,
              finished |-> FALSE, revoked |-> FALSE, tracked |-> TRUE,
              unsettled |-> 0])
        /\ UNCHANGED <<clock, attentions, fence, drawn, attempts>>

\* StartActivation for x.  A second start under the same lease returns the
\* Activation that is there.
StartActivation(x, d) ==
    LET lease == attentions[x]
        until == IF lease.expires < clock + d THEN lease.expires ELSE clock + d
    IN  /\ lease.status = "Open"
        /\ LeaseCurrent(x)
        /\ \A a \in DOMAIN activations :
              ~(activations[a].attention = x /\ activations[a].token = lease.token)
        /\ activations' = Append(activations,
             [attention |-> x, token |-> lease.token, expires |-> until,
              finished |-> FALSE, revoked |-> FALSE, tracked |-> TRUE,
              unsettled |-> 0])
        /\ UNCHANGED <<clock, attentions, fence, drawn, attempts>>

\* FinishActivation by the Runtime, whatever became of the Activation.
FinishActivation(a) ==
    /\ ~activations[a].finished
    /\ activations' =
         [activations EXCEPT ![a] = Tracked([@ EXCEPT !.finished = TRUE])]
    /\ UNCHANGED <<clock, attentions, fence, drawn, attempts>>

\* The provider triggers find a fence row of the Activation's Attention to
\* count in; otherwise they RAISE(ABORT) and the command fails.
Countable(a) == fence.attention = activations[a].attention

StartProviderAttempt(a) ==
    /\ Len(attempts) < MaxAttempts
    /\ Live(a)
    /\ attempts' = Append(attempts, [activation |-> a, settled |-> FALSE])
    /\ IF activations[a].tracked
       THEN /\ Countable(a)
            /\ activations' = [activations EXCEPT ![a].unsettled = @ + 1]
            /\ fence' = [fence EXCEPT !.count = @ + 1]
       ELSE UNCHANGED <<activations, fence>>
    /\ UNCHANGED <<clock, attentions, drawn>>

\* FinishProviderAttempt and FailProviderAttempt: the counters go down, and
\* with the last unsettled attempt a fence that holds no lease goes.
SettleProviderAttempt(t) ==
    LET a == attempts[t].activation
        counted == [fence EXCEPT !.count = @ - 1]
    IN  /\ ~attempts[t].settled
        /\ attempts' = [attempts EXCEPT ![t].settled = TRUE]
        /\ IF activations[a].tracked
           THEN /\ Countable(a)
                /\ fence.count > 0
                /\ activations' = [activations EXCEPT ![a].unsettled = @ - 1]
                /\ fence' = IF counted.token = 0 /\ counted.count = 0
                            THEN NoFence ELSE counted
           ELSE UNCHANGED <<activations, fence>>
        /\ UNCHANGED <<clock, attentions, drawn>>

\* ResolveAttentionWithRun, ResolveAttentionWithExistingRun, IgnoreAttention:
\* the Activation that decides ends with its decision, and the fence stays
\* only as long as one of its attempts is unsettled.
Decide(a, status) ==
    LET x == activations[a].attention
        released == [fence EXCEPT !.token = 0, !.expires = 0]
    IN  /\ Live(a)
        /\ activations' = [activations EXCEPT ![a] =
             Tracked([@ EXCEPT !.finished = TRUE, !.revoked = TRUE])]
        /\ attentions' = [attentions EXCEPT ![x] =
             [status |-> status, token |-> 0, expires |-> 0]]
        /\ fence' = IF fence.attention # x THEN fence
                    ELSE IF released.count = 0 THEN NoFence ELSE released
        /\ UNCHANGED <<clock, drawn, attempts>>

\* The wall clock moves on, or is set back.
Tick ==
    /\ clock' \in (0..MaxClock) \ {clock}
    /\ UNCHANGED <<attentions, fence, drawn, activations, attempts>>

Next ==
    \/ \E x \in Attentions, d \in Durations :
          ClaimAttention(x, d) \/ StartActivation(x, d)
    \/ \E a \in DOMAIN activations :
          \/ FinishActivation(a)
          \/ StartProviderAttempt(a)
          \/ \E status \in {"Resolved", "Ignored"} : Decide(a, status)
    \/ \E t \in DOMAIN attempts : SettleProviderAttempt(t)
    \/ Tick

Spec == Init /\ [][Next]_vars

-----------------------------------------------------------------------------
(* Properties *)

Running == {t \in DOMAIN attempts : ~attempts[t].settled}

\* The fence's counter is the truth: it equals the number of unsettled
\* ProviderAttempts of the whole domain, although it is kept by triggers of
\* three tables and reset to 0 by every claim.
FenceCountsRunning == fence.count = Cardinality(Running)

\* Recovery can always settle an orphaned attempt: the RAISE(ABORT) of the
\* provider triggers ("count underflow", "has no domain fence") is never met
\* and an attempt never runs uncounted, even after its Activation was finished,
\* revoked or decided.
SettlementNeverAborts ==
    \A t \in Running :
        LET a == attempts[t].activation
        IN  /\ activations[a].tracked
            /\ activations[a].unsettled > 0
            /\ Countable(a)
            /\ fence.count > 0

\* One handler at a time.  The lease of an Attention and the domain's fence
\* agree, so two Attentions of a domain never both hold a lease, and the
\* "lease does not match its domain fence" error of claimAttentionDomain is
\* never thrown.
FenceAgreesWithLease ==
    /\ \A x \in Attentions : attentions[x].token # 0 => FenceMatches(x)
    /\ fence.attention # NoAttention => FenceMatches(fence.attention)

\* No two executions of an Agent overlap in a Thread: everything that still
\* runs belongs to one Activation, and while it does, only that Activation
\* can be live; a takeover waits for the provider even when the lease lapsed.
ExecutionsNeverOverlap ==
    /\ \A s, t \in Running : attempts[s].activation = attempts[t].activation
    /\ \A t \in Running, a \in DOMAIN activations :
          Live(a) => a = attempts[t].activation

\* An Attention is decided once: a decision stands, and whatever ran for it
\* can neither decide again nor start another execution, even if its lease
\* would be unexpired on a clock set back.
DecidedOnce ==
    [][\A x \in Attentions :
         attentions[x].status # "Open" =>
             /\ attentions'[x] = attentions[x]
             /\ \A t \in DOMAIN attempts' \ DOMAIN attempts :
                   activations[attempts'[t].activation].attention # x]_vars

\* The execution domain of an Agent in a Thread at any time: the lease of an
\* Attention, the fence and its counter, and what really runs tell one story,
\* in which one handler acts at a time and recovery can always settle.
DomainSafety ==
    /\ TypeOK
    /\ FenceCountsRunning
    /\ SettlementNeverAborts
    /\ FenceAgreesWithLease
    /\ ExecutionsNeverOverlap

=============================================================================
