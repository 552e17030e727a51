------------------------------- MODULE Outbox -------------------------------
(***************************************************************************)
(* The transactional outbox, packages/kernel/src/outbox.ts: rows written   *)
(* in commit order, leased to Runtimes in batches and acknowledged oldest  *)
(* first.  Rows are named by their sequence.  The delivery_attempts        *)
(* counter is left out: nothing reads it.                                  *)
(*                                                                         *)
(* A claim is cached by its idempotency key; "claims" is that cache, one   *)
(* entry per key, rewritten when a replay leases the batch afresh.  Every  *)
(* receipt ever returned may be presented again at any later time.         *)
(***************************************************************************)
EXTENDS Integers, Sequences, FiniteSets

CONSTANTS
    Runtimes,       \* the runtime principals
    Nobody,         \* the NULL of lease_holder_principal_id
    Payloads,       \* what an event is about: topic, aggregate and input
    Limits,         \* the batch sizes Runtimes ask for
    LeaseTimes,     \* the lease durations they ask for
    MaxTime,        \* bound: the clock stays in 0..MaxTime
    MaxEvents,      \* bound: rows of outbox_events
    MaxClaims       \* bound: lease tokens drawn

ASSUME OutboxAssumption ==
    /\ Nobody \notin Runtimes
    /\ Limits \subseteq Nat \ {0}
    /\ LeaseTimes \subseteq Nat \ {0}
    /\ MaxTime \in Nat
    /\ MaxEvents \in Nat
    /\ MaxClaims \in Nat

VARIABLES
    now,        \* kernel.clock(): wall time, which may be set back
    outbox,     \* outbox_events in sequence order
    drawn,      \* lease tokens drawn so far; a new token is drawn + 1
    claims,     \* the cached ClaimOutboxEvents results, by key
    receipts    \* every claim result handed out

outboxVars == <<now, outbox, drawn, claims, receipts>>

\* A token of 0 is NULL.
Rows ==
    [payload : Payloads, acked : BOOLEAN, holder : Runtimes \cup {Nobody},
     token : Nat, expires : Nat]

Receipts == [holder : Runtimes, token : Nat, batch : SUBSET Nat]

OutboxTypeOK ==
    /\ now \in 0..MaxTime
    /\ outbox \in Seq(Rows)
    /\ drawn \in Nat
    /\ claims \in Seq(Receipts)
    /\ receipts \subseteq Receipts

OutboxInit ==
    /\ now = 0
    /\ outbox = << >>
    /\ drawn = 0
    /\ claims = << >>
    /\ receipts = {}

-----------------------------------------------------------------------------
Fresh(payload) ==
    [payload |-> payload, acked |-> FALSE, holder |-> Nobody, token |-> 0,
     expires |-> 0]

\* The rows after enqueueOutbox.
Enqueued(payload) == Append(outbox, Fresh(payload))

Enqueue(payload) ==
    /\ Len(outbox) < MaxEvents
    /\ outbox' = Enqueued(payload)
    /\ UNCHANGED <<now, drawn, claims, receipts>>

Pending == {i \in DOMAIN outbox : ~outbox[i].acked}

\* The oldest n pending rows: ORDER BY sequence LIMIT n.
Oldest(n) ==
    {i \in Pending : Cardinality({j \in Pending : j <= i}) <= n}

LeaseLive(i) == outbox[i].token # 0 /\ outbox[i].expires > now

\* The scan stops at the first row that somebody still holds.
Claimable(limit) ==
    {i \in Oldest(limit) :
        \A j \in Pending : j <= i => ~LeaseLive(j)}

\* Mutant: a lapsed lease is not overwritten.
LeasedIfFree(batch, p, token, expires) ==
    [i \in DOMAIN outbox |->
        IF i \in batch /\ outbox[i].token = 0
        THEN [outbox[i] EXCEPT !.holder = p, !.token = token,
                               !.expires = expires]
        ELSE outbox[i]]

Leased(batch, p, token, expires) ==
    [i \in DOMAIN outbox |->
        IF i \in batch
        THEN [outbox[i] EXCEPT !.holder = p, !.token = token,
                               !.expires = expires]
        ELSE outbox[i]]

Receipt(p, token, batch) ==
    [holder |-> p, token |-> token, batch |-> batch]

\* ClaimOutboxEvents under a new idempotency key.
Claim(p, limit, d) ==
    LET batch == Claimable(limit)
        r == Receipt(p, drawn + 1, batch)
    IN  /\ drawn < MaxClaims
        /\ batch # {}
        /\ outbox' = Leased(batch, p, drawn + 1, now + d)
        /\ drawn' = drawn + 1
        /\ claims' = Append(claims, r)
        /\ receipts' = receipts \cup {r}
        /\ UNCHANGED now

\* Mutant: the token alone proves the lease.
HeldUnderByAnyone(p, token) ==
    {i \in Pending : outbox[i].token = token}

HeldUnder(p, token) ==
    {i \in Pending : outbox[i].holder = p /\ outbox[i].token = token}

\* Mutant: the batch need not be the oldest pending one.
AckAllowedAnywhere(p, token) ==
    LET held == HeldUnder(p, token)
    IN  /\ token # 0
        /\ held # {}
        /\ \A i \in held : outbox[i].expires > now

\* The checks of AcknowledgeOutboxEvents for lease token "token" presented by
\* p.  The command also lists the events; a list other than exactly the rows
\* held under the token is refused, so the list is no parameter here.
AckAllowed(p, token) ==
    LET held == HeldUnder(p, token)
    IN  /\ token # 0
        /\ held # {}
        /\ \A i \in held : \A j \in Pending : j < i => j \in held
        /\ \A i \in held : outbox[i].expires > now

Acknowledge(p, token) ==
    /\ AckAllowed(p, token)
    /\ outbox' = [i \in DOMAIN outbox |->
         IF i \in HeldUnder(p, token)
         THEN [outbox[i] EXCEPT !.acked = TRUE, !.holder = Nobody,
                                !.token = 0, !.expires = 0]
         ELSE outbox[i]]
    /\ UNCHANGED <<now, drawn, claims, receipts>>

\* requireOutboxDeliveryAuthority for the event at sequence i, apart from
\* what it asks of the payload: a live exclusive lease on the frontier.
DeliveryAuthority(p, token, i) ==
    /\ token # 0
    /\ HeldUnder(p, token) = {i}
    /\ outbox[i].expires > now
    /\ \A j \in Pending : i <= j

\* A claim replayed by its key.  While its lease is live the cached result is
\* returned as it is.  An expired one is leased afresh if nobody else leased
\* any of the batch since and it is still the frontier; otherwise the replay
\* is refused.
ReplayClaim(k, d) ==
    LET c == claims[k]
        batch == c.batch
        r == Receipt(c.holder, drawn + 1, batch)
    IN  /\ drawn < MaxClaims
        /\ batch \subseteq HeldUnder(c.holder, c.token)
        /\ \A i \in batch : outbox[i].expires <= now
        /\ batch = Oldest(Cardinality(batch))
        /\ outbox' = Leased(batch, c.holder, drawn + 1, now + d)
        /\ drawn' = drawn + 1
        /\ claims' = [claims EXCEPT ![k] = r]
        /\ receipts' = receipts \cup {r}
        /\ UNCHANGED now

\* Wall time passes, or is set back.
TimeMoves ==
    /\ now' \in (0..MaxTime) \ {now}
    /\ UNCHANGED <<outbox, drawn, claims, receipts>>

\* The steps of consumers and of time: all of them but Enqueue.
DeliveryStep ==
    \/ \E p \in Runtimes, limit \in Limits, d \in LeaseTimes :
          Claim(p, limit, d)
    \/ \E p \in Runtimes, r \in receipts : Acknowledge(p, r.token)
    \/ \E k \in DOMAIN claims, d \in LeaseTimes : ReplayClaim(k, d)
    \/ TimeMoves

OutboxNext == (\E payload \in Payloads : Enqueue(payload)) \/ DeliveryStep

OutboxSpec == OutboxInit /\ [][OutboxNext]_outboxVars

-----------------------------------------------------------------------------
(* Properties *)

\* The outbox is a FIFO log: acknowledgement only ever moves the consumed
\* prefix forward.  Batches of several Runtimes, leases that lapse and are
\* taken over, replays and a clock set back never acknowledge a row while an
\* older one is pending, nor make an acknowledged row pending again.
Log == INSTANCE DeliveryLog WITH
          appended <- Len(outbox),
          consumed <- DOMAIN outbox \ Pending

FifoDelivery == Log!LogSpec

ConsumedPrefix ==
    \A i, j \in DOMAIN outbox : outbox[i].acked /\ j < i => outbox[j].acked

\* resolveCachedOutboxClaim throws a plain Error, "A persisted Outbox claim has
\* inconsistent lease expiry", if rows of one lease disagree; they never do.
UniformLease ==
    \A i, j \in Pending :
        outbox[i].token = outbox[j].token /\ outbox[i].token # 0 =>
            /\ outbox[i].holder = outbox[j].holder
            /\ outbox[i].expires = outbox[j].expires

\* Nobody acts on an event that somebody else may acknowledge: at any moment
\* one lease only passes the acknowledgement check, and the lease that may
\* deliver the frontier is that one.
SoleConsumer ==
    \A r, s \in receipts : \A p, q \in Runtimes :
        /\ AckAllowed(p, r.token)
        /\ \/ AckAllowed(q, s.token)
           \/ \E i \in Pending : DeliveryAuthority(q, s.token, i)
        => p = q /\ r.token = s.token

\* A takeover fences: a row that a later claim or replay leased is no longer
\* acknowledged or delivered under an earlier token, whatever the clock says;
\* the earlier lease is left with the rows nobody leased since.
TakeoverFences ==
    \A r, s \in receipts : \A p \in Runtimes :
        /\ s.token > r.token
        /\ AckAllowed(p, r.token) \/ \E i \in Pending :
                                        DeliveryAuthority(p, r.token, i)
        => s.batch \cap HeldUnder(p, r.token) = {}
=============================================================================
