---------------------------- MODULE WriterLease ----------------------------
(***************************************************************************)
(* The writer lease of one Worktree: the row of worktree_writer_leases and *)
(* its event ledger, as packages/kernel/src/worktree-writer-leases.ts      *)
(* changes them.  Rows of different Worktrees never meet, so one row is    *)
(* the whole component.                                                    *)
(*                                                                         *)
(* Every command runs in one BEGIN IMMEDIATE transaction, so a command is  *)
(* one step.  A command refused with a plain KernelError rolls back and is *)
(* a stuttering step; one refused with a DurableKernelError commits what   *)
(* it did before throwing, here always the materialized expiry.            *)
(*                                                                         *)
(* Receipts are never taken back: a Runtime may present any receipt it was *)
(* ever given, at any later time, which covers delayed, duplicated and     *)
(* reordered commands.                                                     *)
(***************************************************************************)
EXTENDS Integers, Sequences

CONSTANTS
    Principals,     \* the runtime principals
    NoOne,          \* the NULL of holder_principal_id
    Durations,      \* the lease durations Runtimes ask for
    MaxClock,       \* bound: the wall clock stays in 0..MaxClock
    MaxRevision     \* bound: the row's revision stays in 0..MaxRevision

ASSUME LeaseAssumption ==
    /\ NoOne \notin Principals
    /\ Durations \subseteq Nat \ {0}
    /\ MaxClock \in Nat
    /\ MaxRevision \in Nat

VARIABLES
    clock,      \* db.now: the wall clock, which may be set back
    lease,      \* the row; status "None" is a row that does not exist
    ledger,     \* worktree_writer_lease_events, in sequence order
    issued,     \* secrets drawn so far; a new secret is issued + 1
    grants,     \* authorities handed out by acquire
    barriers    \* quarantine receipts handed out by quarantine

leaseVars == <<clock, lease, ledger, issued, grants, barriers>>

Statuses == {"None", "Active", "Released", "Expired", "Quarantined"}

\* A secret of 0 is a NULL column.
LeaseRows ==
    [status : Statuses, revision : Nat, generation : Nat, fencing : Nat,
     holder : Principals \cup {NoOne}, token : Nat, expires : Nat,
     qtoken : Nat]

EventTypes ==
    {"Acquired", "Renewed", "Released", "Expired", "Quarantined", "Resolved"}

Events == [type : EventTypes, revision : Nat, generation : Nat, fencing : Nat]

Authorities ==
    [holder : Principals, generation : Nat, fencing : Nat, token : Nat]

Barriers == [revision : Nat, fencing : Nat, qtoken : Nat]

LeaseTypeOK ==
    /\ clock \in 0..MaxClock
    /\ lease \in LeaseRows
    /\ ledger \in Seq(Events)
    /\ issued \in Nat
    /\ grants \subseteq Authorities
    /\ barriers \subseteq Barriers

AbsentRow ==
    [status |-> "None", revision |-> 0, generation |-> 0, fencing |-> 0,
     holder |-> NoOne, token |-> 0, expires |-> 0, qtoken |-> 0]

LeaseInit ==
    /\ clock = 0
    /\ lease = AbsentRow
    /\ ledger = << >>
    /\ issued = 0
    /\ grants = {}
    /\ barriers = {}

-----------------------------------------------------------------------------
(* Expiry is lazy: the first command or query that looks at a lapsed lease *)
(* rewrites the row and appends the event.                                 *)

Lapsed == lease.status = "Active" /\ lease.expires <= clock

Event(type, l) ==
    [type |-> type, revision |-> l.revision, generation |-> l.generation,
     fencing |-> l.fencing]

EndHold(l, status) ==
    [l EXCEPT !.revision = @ + 1, !.status = status, !.holder = NoOne,
              !.token = 0, !.expires = 0]

\* The row, and the ledger, as expireIfNeeded leaves them.
Existing == IF Lapsed THEN EndHold(lease, "Expired") ELSE lease

ExistingLedger ==
    IF Lapsed THEN Append(ledger, Event("Expired", Existing)) ELSE ledger

\* Mutant: the expiry is recorded, and the row left as it was.
MaterializeExpiryInLedgerOnly ==
    /\ Lapsed
    /\ ledger' = ExistingLedger
    /\ UNCHANGED <<clock, lease, issued, grants, barriers>>

MaterializeExpiry ==
    /\ Lapsed
    /\ lease' = Existing
    /\ ledger' = ExistingLedger
    /\ UNCHANGED <<clock, issued, grants, barriers>>

\* Mutant: the event of an expiry met on the way is lost.
CommitWithoutExpiry(type, l) ==
    /\ lease' = l
    /\ ledger' = Append(ledger, Event(type, l))

Commit(type, l) ==
    /\ lease' = l
    /\ ledger' = Append(ExistingLedger, Event(type, l))

\* Bound: a step adds at most two revisions.
Room == lease.revision + 2 <= MaxRevision

\* The check of requireLiveAuthority for principal p presenting receipt a.
Accepts(p, a) ==
    /\ lease.status = "Active"
    /\ lease.expires > clock
    /\ lease.generation = a.generation
    /\ lease.fencing = a.fencing
    /\ lease.token = a.token
    /\ lease.holder = p

-----------------------------------------------------------------------------
(* The commands.  "idle" is the verdict of assertPhysicalWorktreeIdle.     *)

\* Mutant: the fencing token moves only when a barrier is raised.
AcquireWithoutFence(p, d, idle) ==
    LET secret == issued + 1
        row == [Existing EXCEPT
                  !.revision = @ + 1, !.generation = @ + 1,
                  !.status = "Active", !.holder = p, !.token = secret,
                  !.expires = clock + d, !.qtoken = 0]
    IN  /\ Room
        /\ idle
        /\ Existing.status \notin {"Active", "Quarantined"}
        /\ Commit("Acquired", row)
        /\ issued' = secret
        /\ grants' = grants \cup
             {[holder |-> p, generation |-> row.generation,
               fencing |-> row.fencing, token |-> secret]}
        /\ UNCHANGED <<clock, barriers>>

\* Mutant: an acquisition passes through a standing barrier.
AcquireThroughBarrier(p, d, idle) ==
    LET secret == issued + 1
        row == [Existing EXCEPT
                  !.revision = @ + 1, !.generation = @ + 1, !.fencing = @ + 1,
                  !.status = "Active", !.holder = p, !.token = secret,
                  !.expires = clock + d, !.qtoken = 0]
    IN  /\ Room
        /\ idle
        /\ Existing.status # "Active"
        /\ Commit("Acquired", row)
        /\ issued' = secret
        /\ grants' = grants \cup
             {[holder |-> p, generation |-> row.generation,
               fencing |-> row.fencing, token |-> secret]}
        /\ UNCHANGED <<clock, barriers>>

Acquire(p, d, idle) ==
    LET secret == issued + 1
        row == [Existing EXCEPT
                  !.revision = @ + 1, !.generation = @ + 1, !.fencing = @ + 1,
                  !.status = "Active", !.holder = p, !.token = secret,
                  !.expires = clock + d, !.qtoken = 0]
    IN  /\ Room
        /\ idle
        /\ Existing.status \notin {"Active", "Quarantined"}
        /\ Commit("Acquired", row)
        /\ issued' = secret
        /\ grants' = grants \cup
             {[holder |-> p, generation |-> row.generation,
               fencing |-> row.fencing, token |-> secret]}
        /\ UNCHANGED <<clock, barriers>>

\* A busy Worktree refuses the acquisition, but a lease that lapsed stays
\* expired: the refusal is durable.
AcquireBusy(idle) == Room /\ ~idle /\ MaterializeExpiry

Renew(p, a, d) ==
    LET row == [lease EXCEPT !.revision = @ + 1, !.expires = clock + d]
    IN  /\ Room
        /\ Accepts(p, a)
        /\ Commit("Renewed", row)
        /\ UNCHANGED <<clock, issued, grants, barriers>>

Release(p, a, idle) ==
    /\ Room
    /\ Accepts(p, a)
    /\ idle
    /\ Commit("Released", EndHold(lease, "Released"))
    /\ UNCHANGED <<clock, issued, grants, barriers>>

\* requireLiveAuthority met a lapsed lease, whatever was presented: the
\* expiry is committed and the caller refused.
RefuseLapsed == Room /\ grants # {} /\ MaterializeExpiry

\* The row and receipt of a successful quarantine.
RaiseBarrier ==
    LET secret == issued + 1
        row == [EndHold(Existing, "Quarantined") EXCEPT
                  !.fencing = @ + 1, !.qtoken = secret]
    IN  /\ Commit("Quarantined", row)
        /\ issued' = secret
        /\ barriers' = barriers \cup
             {[revision |-> row.revision, fencing |-> row.fencing,
               qtoken |-> secret]}
        /\ UNCHANGED <<clock, grants>>

\* An active lease is quarantined only by its exact live authority.
QuarantineHeld(p, a) ==
    /\ Room
    /\ Existing.status = "Active"
    /\ Accepts(p, a)
    /\ RaiseBarrier

\* With no active lease any Runtime may quarantine; the expectations it
\* states, if any, must hold.
QuarantineUnheld(expected) ==
    /\ Room
    /\ Existing.status \notin {"Active", "Quarantined"}
    /\ \A a \in expected : /\ a.generation = Existing.generation
                           /\ a.fencing = Existing.fencing
    /\ RaiseBarrier

\* A stale expectation is refused durably when the lease has just lapsed.
QuarantineStale(a) ==
    /\ Room
    /\ \/ a.generation # lease.generation
       \/ a.fencing # lease.fencing
    /\ MaterializeExpiry

ResolveQuarantine(b, idle) ==
    /\ Room
    /\ idle
    /\ lease.revision = b.revision
    /\ lease.fencing = b.fencing
    /\ lease.qtoken = b.qtoken
    /\ lease.status = "Quarantined"
    /\ Commit("Resolved", [lease EXCEPT !.revision = @ + 1,
                                        !.status = "Released", !.qtoken = 0])
    /\ UNCHANGED <<clock, issued, grants, barriers>>

\* The GetWorktreeWriterLease query materializes expiry and commits it.
GetLease == Room /\ MaterializeExpiry

\* Replaying a cached acquire, renew or quarantine by idempotency key hands
\* out nothing new; it materializes expiry durably.
ReplayCached ==
    /\ Room
    /\ grants # {} \/ barriers # {}
    /\ MaterializeExpiry

\* The wall clock moves on, or is set back.
Tick ==
    /\ clock' \in (0..MaxClock) \ {clock}
    /\ UNCHANGED <<lease, ledger, issued, grants, barriers>>

LeaseStep(idle) ==
    \/ \E p \in Principals, d \in Durations : Acquire(p, d, idle)
    \/ AcquireBusy(idle)
    \/ \E p \in Principals, a \in grants, d \in Durations : Renew(p, a, d)
    \/ \E p \in Principals, a \in grants : Release(p, a, idle)
    \/ RefuseLapsed
    \/ \E p \in Principals, a \in grants : QuarantineHeld(p, a)
    \/ QuarantineUnheld({})
    \/ \E a \in grants : QuarantineUnheld({a}) \/ QuarantineStale(a)
    \/ \E b \in barriers : ResolveQuarantine(b, idle)
    \/ GetLease
    \/ ReplayCached
    \/ Tick

LeaseNext == \E idle \in BOOLEAN : LeaseStep(idle)

LeaseSpec == LeaseInit /\ [][LeaseNext]_leaseVars

-----------------------------------------------------------------------------
(* Properties *)

\* A hold that ended is over: once the ledger records that the hold of a
\* generation expired, was released or was quarantined, no receipt of that
\* generation is accepted again, even if the wall clock is set back to before
\* the expiry (kernel README: "a backward clock adjustment cannot revive the
\* old token").
NoRevival ==
    \A n \in DOMAIN ledger, a \in grants, p \in Principals :
        /\ ledger[n].type \in {"Expired", "Released", "Quarantined"}
        /\ Accepts(p, a)
        => ledger[n].generation < a.generation

\* The receipt that requireLiveAuthority accepts is the newest authority ever
\* handed out: every other writer and every quarantine barrier holds a smaller
\* fencing token, so a resource that remembers the largest one it saw can
\* refuse everybody else.
NewestAuthority ==
    \A a \in grants, p \in Principals :
        Accepts(p, a) =>
            /\ p = a.holder
            /\ \A b \in grants \ {a} : b.fencing < a.fencing
            /\ \A b \in barriers : b.fencing < a.fencing

Follows(prev, e) ==
    CASE e.type = "Acquired" ->
            /\ prev.type \in {"Released", "Expired", "Resolved"}
            /\ e.generation = prev.generation + 1
            /\ e.fencing = prev.fencing + 1
      [] e.type \in {"Renewed", "Released", "Expired"} ->
            /\ prev.type \in {"Acquired", "Renewed"}
            /\ e.generation = prev.generation
            /\ e.fencing = prev.fencing
      [] e.type = "Quarantined" ->
            /\ prev.type # "Quarantined"
            /\ e.generation = prev.generation
            /\ e.fencing = prev.fencing + 1
      [] e.type = "Resolved" ->
            /\ prev.type = "Quarantined"
            /\ e.generation = prev.generation
            /\ e.fencing = prev.fencing

StatusAfter(type) ==
    CASE type \in {"Acquired", "Renewed"} -> "Active"
      [] type \in {"Released", "Resolved"} -> "Released"
      [] type = "Expired" -> "Expired"
      [] type = "Quarantined" -> "Quarantined"

GaplessHistory(events) ==
    \A n \in DOMAIN events :
        /\ events[n].revision = n
        /\ n > 1 => Follows(events[n - 1], events[n])

Describes(e, l) ==
    /\ l.status = StatusAfter(e.type)
    /\ l.generation = e.generation
    /\ l.fencing = e.fencing

Explains(events, l) ==
    /\ GaplessHistory(events)
    /\ l.revision = Len(events)
    /\ Len(events) > 0 => Describes(events[Len(events)], l)

\* The ledger is a gapless history of the row: the n-th event carries
\* revision n, each event follows lawfully from the one before it, and the
\* last one describes the row.  Transactions that append two events (a lapse
\* and the command that met it) are the ones that could break it.
LedgerExplainsRow == Explains(ledger, lease)

HandoverStep ==
    /\ lease'.status = "Active" /\ lease'.token # lease.token =>
          /\ lease'.generation = lease.generation + 1
          /\ lease'.fencing > lease.fencing
          /\ lease'.token \notin {a.token : a \in grants}
    /\ lease.status = "Quarantined" /\ lease'.status # "Quarantined" =>
          /\ lease'.status = "Released"
          /\ lease'.fencing = lease.fencing
          /\ lease'.generation = lease.generation

\* Authority passes to another receipt only with a new generation and a
\* larger fencing token, and a barrier that stands goes only to Released with
\* its fencing token kept: never to a new hold, a lapse or a second barrier.
AuthorityHandover == [][HandoverStep]_leaseVars
=============================================================================
