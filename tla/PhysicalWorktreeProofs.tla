----------------------- MODULE PhysicalWorktreeProofs -----------------------
(***************************************************************************)
(* Proofs about PhysicalWorktree for every set of Runtimes, every clock,   *)
(* and any number of executions and Activations.                           *)
(*                                                                         *)
(* The first part is about the writer lease alone.  The composition is     *)
(* then shown to be one, so that what was proved of the lease holds of it. *)
(*                                                                         *)
(* The inductive invariant of the composition adds what the properties     *)
(* rest on: executions follow each other, only the last one may be         *)
(* unsettled and Activations never go back (OneAfterAnother); an abnormal  *)
(* end is a revoked one (AbnormalRevoked); an Activation told that its     *)
(* authority is lost has a revoked execution (LossIsDurable); and no       *)
(* execution is ahead of the lease's fencing token (ExecsBehind).          *)
(* SourceBegins says that only a Run with an Activation has anything       *)
(* current.                                                                *)
(***************************************************************************)
EXTENDS PhysicalWorktree, TLAPS

-----------------------------------------------------------------------------
(* What the row and the ledger look like once expiry was materialized. *)

\* Assigning a column a value of its type keeps the row a row.
LEMMA RowUpdate ==
    ASSUME NEW l \in LeaseRows
    PROVE  /\ \A v \in Statuses : [l EXCEPT !.status = v] \in LeaseRows
           /\ \A v \in Nat : [l EXCEPT !.revision = v] \in LeaseRows
           /\ \A v \in Nat : [l EXCEPT !.generation = v] \in LeaseRows
           /\ \A v \in Nat : [l EXCEPT !.fencing = v] \in LeaseRows
           /\ \A v \in Principals \cup {NoOne} :
                 [l EXCEPT !.holder = v] \in LeaseRows
           /\ \A v \in Nat : [l EXCEPT !.token = v] \in LeaseRows
           /\ \A v \in Nat : [l EXCEPT !.expires = v] \in LeaseRows
           /\ \A v \in Nat : [l EXCEPT !.qtoken = v] \in LeaseRows
<1>1. \A v \in Statuses : [l EXCEPT !.status = v] \in LeaseRows
  BY DEF LeaseRows
<1>2. \A v \in Nat : [l EXCEPT !.revision = v] \in LeaseRows
  BY DEF LeaseRows
<1>3. \A v \in Nat : [l EXCEPT !.generation = v] \in LeaseRows
  BY DEF LeaseRows
<1>4. \A v \in Nat : [l EXCEPT !.fencing = v] \in LeaseRows
  BY DEF LeaseRows
<1>5. \A v \in Principals \cup {NoOne} : [l EXCEPT !.holder = v] \in LeaseRows
  BY DEF LeaseRows
<1>6. \A v \in Nat : [l EXCEPT !.token = v] \in LeaseRows
  BY DEF LeaseRows
<1>7. \A v \in Nat : [l EXCEPT !.expires = v] \in LeaseRows
  BY DEF LeaseRows
<1>8. \A v \in Nat : [l EXCEPT !.qtoken = v] \in LeaseRows
  BY DEF LeaseRows
<1> QED
  BY <1>1, <1>2, <1>3, <1>4, <1>5, <1>6, <1>7, <1>8

\* The end of a hold clears holder, secret and expiry and counts one revision.
LEMMA EndHoldType ==
    ASSUME NEW l \in LeaseRows, NEW status \in Statuses
    PROVE  /\ EndHold(l, status) \in LeaseRows
           /\ EndHold(l, status).status = status
           /\ EndHold(l, status).revision = l.revision + 1
           /\ EndHold(l, status).generation = l.generation
           /\ EndHold(l, status).fencing = l.fencing
           /\ EndHold(l, status).holder = NoOne
<1>1. l.revision + 1 \in Nat /\ 0 \in Nat
  BY DEF LeaseRows
<1>2. NoOne \in Principals \cup {NoOne}
  OBVIOUS
<1>3. EndHold(l, status) \in LeaseRows
  BY <1>1, <1>2, RowUpdate, Zenon DEF EndHold
<1> QED
  BY <1>3 DEF EndHold, LeaseRows

\* An event copies the columns of the row it records.
LEMMA EventType ==
    ASSUME NEW l \in LeaseRows, NEW type \in EventTypes
    PROVE  /\ Event(type, l) \in Events
           /\ Event(type, l).type = type
           /\ Event(type, l).revision = l.revision
           /\ Event(type, l).generation = l.generation
           /\ Event(type, l).fencing = l.fencing
BY DEF Event, Events, LeaseRows

\* The row and the ledger after expireIfNeeded.
LEMMA ExistingFacts ==
    ASSUME LeaseTypeOK
    PROVE  /\ Existing \in LeaseRows
           /\ ExistingLedger \in Seq(Events)
           /\ Existing.generation = lease.generation
           /\ Existing.fencing = lease.fencing
           /\ ~Lapsed => Existing = lease /\ ExistingLedger = ledger
           /\ Lapsed => /\ Existing.status = "Expired"
                        /\ Existing.revision = lease.revision + 1
                        /\ ExistingLedger =
                              Append(ledger, Event("Expired", Existing))
           /\ Existing.status = "Active" => ~Lapsed
<1>1. CASE Lapsed
  <2>1. Existing = EndHold(lease, "Expired")
    BY <1>1 DEF Existing
  <2>2. "Expired" \in Statuses /\ "Expired" \in EventTypes
    BY DEF Statuses, EventTypes
  <2>3. Existing \in LeaseRows
    BY <2>1, <2>2, EndHoldType DEF LeaseTypeOK
  <2>4. Event("Expired", Existing) \in Events
    BY <2>2, <2>3, EventType
  <2>5. ExistingLedger = Append(ledger, Event("Expired", Existing))
    BY <1>1 DEF ExistingLedger
  <2>6. ExistingLedger \in Seq(Events)
    BY <2>4, <2>5 DEF LeaseTypeOK
  <2> QED
    BY <1>1, <2>1, <2>2, <2>3, <2>5, <2>6, EndHoldType DEF LeaseTypeOK
<1>2. CASE ~Lapsed
  BY <1>2 DEF Existing, ExistingLedger, LeaseTypeOK
<1> QED
  BY <1>1, <1>2

-----------------------------------------------------------------------------
(* Type correctness *)

\* A commit of a row and its event keeps both tables typed.
LEMMA CommitType ==
    ASSUME LeaseTypeOK, NEW row \in LeaseRows, NEW type \in EventTypes,
           Commit(type, row)
    PROVE  lease' \in LeaseRows /\ ledger' \in Seq(Events)
<1>1. Event(type, row) \in Events
  BY EventType
<1> QED
  BY <1>1, ExistingFacts DEF Commit

\* So does an expiry on its own.
LEMMA MaterializeType ==
    ASSUME LeaseTypeOK, MaterializeExpiry
    PROVE  LeaseTypeOK'
BY ExistingFacts DEF MaterializeExpiry, LeaseTypeOK

\* The rows the commands write.
LEMMA RowTypes ==
    ASSUME LeaseTypeOK
    PROVE  /\ \A p \in Principals, d \in Durations :
                [Existing EXCEPT
                  !.revision = @ + 1, !.generation = @ + 1, !.fencing = @ + 1,
                  !.status = "Active", !.holder = p, !.token = issued + 1,
                  !.expires = clock + d, !.qtoken = 0] \in LeaseRows
           /\ \A d \in Durations :
                [lease EXCEPT !.revision = @ + 1, !.expires = clock + d]
                  \in LeaseRows
           /\ [EndHold(Existing, "Quarantined") EXCEPT
                  !.fencing = @ + 1, !.qtoken = issued + 1] \in LeaseRows
           /\ [lease EXCEPT !.revision = @ + 1, !.status = "Released",
                            !.qtoken = 0] \in LeaseRows
<1>1. Existing \in LeaseRows
  BY ExistingFacts
<1>2. EndHold(Existing, "Quarantined") \in LeaseRows
  BY <1>1, EndHoldType DEF Statuses
<1>3. /\ clock \in Nat /\ issued + 1 \in Nat /\ 0 \in Nat
      /\ \A d \in Durations : clock + d \in Nat
  BY LeaseAssumption DEF LeaseTypeOK
<1>4. lease \in LeaseRows
  BY DEF LeaseTypeOK
<1>5. \A l \in LeaseRows : /\ l.revision + 1 \in Nat
                           /\ l.generation + 1 \in Nat
                           /\ l.fencing + 1 \in Nat
  BY DEF LeaseRows
<1>6. "Active" \in Statuses /\ "Released" \in Statuses
  BY DEF Statuses
<1>7. ASSUME NEW p \in Principals, NEW d \in Durations
      PROVE  [Existing EXCEPT
                  !.revision = @ + 1, !.generation = @ + 1, !.fencing = @ + 1,
                  !.status = "Active", !.holder = p, !.token = issued + 1,
                  !.expires = clock + d, !.qtoken = 0] \in LeaseRows
  <2>1. p \in Principals \cup {NoOne}
    OBVIOUS
  <2> QED
    BY <1>1, <1>3, <1>5, <1>6, <2>1, RowUpdate, Zenon
<1>8. ASSUME NEW d \in Durations
      PROVE  [lease EXCEPT !.revision = @ + 1, !.expires = clock + d]
                  \in LeaseRows
  BY <1>3, <1>4, <1>5, RowUpdate, Zenon
<1>9. [EndHold(Existing, "Quarantined") EXCEPT
                  !.fencing = @ + 1, !.qtoken = issued + 1] \in LeaseRows
  BY <1>2, <1>3, <1>5, RowUpdate, Zenon
<1>10. [lease EXCEPT !.revision = @ + 1, !.status = "Released",
                            !.qtoken = 0] \in LeaseRows
  BY <1>3, <1>4, <1>5, <1>6, RowUpdate, Zenon
<1> QED
  BY <1>7, <1>8, <1>9, <1>10

\* A step of the lease, sorted by what it does to the row.
LEMMA StepCases ==
    ASSUME NEW idle \in BOOLEAN, LeaseStep(idle)
    PROVE  \/ MaterializeExpiry
           \/ \E p \in Principals, d \in Durations : Acquire(p, d, idle)
           \/ \E p \in Principals, a \in grants, d \in Durations :
                 Renew(p, a, d)
           \/ \E p \in Principals, a \in grants : Release(p, a, idle)
           \/ Existing.status # "Quarantined" /\ RaiseBarrier
           \/ \E b \in barriers : ResolveQuarantine(b, idle)
           \/ Tick
BY DEF LeaseStep, AcquireBusy, RefuseLapsed, QuarantineHeld, QuarantineUnheld,
       QuarantineStale, GetLease, ReplayCached

\* Every step keeps the types.
LEMMA TypeStep ==
    ASSUME LeaseTypeOK, [LeaseNext]_leaseVars
    PROVE  LeaseTypeOK'
<1>1. CASE UNCHANGED leaseVars
  BY <1>1 DEF leaseVars, LeaseTypeOK
<1>2. ASSUME NEW idle \in BOOLEAN, LeaseStep(idle) PROVE LeaseTypeOK'
  <2>1. CASE MaterializeExpiry
    BY <2>1, MaterializeType
  <2>2. ASSUME NEW p \in Principals, NEW d \in Durations, Acquire(p, d, idle)
        PROVE  LeaseTypeOK'
    <3> DEFINE row == [Existing EXCEPT
                  !.revision = @ + 1, !.generation = @ + 1, !.fencing = @ + 1,
                  !.status = "Active", !.holder = p, !.token = issued + 1,
                  !.expires = clock + d, !.qtoken = 0]
    <3>1. row \in LeaseRows
      BY RowTypes
    <3>2. /\ Commit("Acquired", row)
          /\ issued' = issued + 1
          /\ grants' = grants \cup
               {[holder |-> p, generation |-> row.generation,
                 fencing |-> row.fencing, token |-> issued + 1]}
          /\ UNCHANGED <<clock, barriers>>
      BY <2>2 DEF Acquire
    <3> HIDE DEF row
    <3>3. lease' \in LeaseRows /\ ledger' \in Seq(Events)
      BY <3>1, <3>2, CommitType DEF EventTypes
    <3>4. row.generation \in Nat /\ row.fencing \in Nat
      BY <3>1 DEF LeaseRows
    <3> QED
      BY <3>2, <3>3, <3>4 DEF LeaseTypeOK, Authorities
  <2>3. ASSUME NEW p \in Principals, NEW a \in grants, NEW d \in Durations,
               Renew(p, a, d)
        PROVE  LeaseTypeOK'
    <3>1. lease' \in LeaseRows /\ ledger' \in Seq(Events)
      BY <2>3, RowTypes, CommitType DEF Renew, EventTypes
    <3> QED
      BY <2>3, <3>1 DEF Renew, LeaseTypeOK
  <2>4. ASSUME NEW p \in Principals, NEW a \in grants, Release(p, a, idle)
        PROVE  LeaseTypeOK'
    <3>1. EndHold(lease, "Released") \in LeaseRows
      BY EndHoldType DEF LeaseTypeOK, Statuses
    <3>2. lease' \in LeaseRows /\ ledger' \in Seq(Events)
      BY <2>4, <3>1, CommitType DEF Release, EventTypes
    <3> QED
      BY <2>4, <3>2 DEF Release, LeaseTypeOK
  <2>5. CASE RaiseBarrier
    <3> DEFINE row == [EndHold(Existing, "Quarantined") EXCEPT
                         !.fencing = @ + 1, !.qtoken = issued + 1]
    <3>1. row \in LeaseRows
      BY RowTypes
    <3>2. /\ Commit("Quarantined", row)
          /\ issued' = issued + 1
          /\ barriers' = barriers \cup
               {[revision |-> row.revision, fencing |-> row.fencing,
                 qtoken |-> issued + 1]}
          /\ UNCHANGED <<clock, grants>>
      BY <2>5 DEF RaiseBarrier
    <3> HIDE DEF row
    <3>3. lease' \in LeaseRows /\ ledger' \in Seq(Events)
      BY <3>1, <3>2, CommitType DEF EventTypes
    <3>4. row.revision \in Nat /\ row.fencing \in Nat
      BY <3>1 DEF LeaseRows
    <3> QED
      BY <3>2, <3>3, <3>4 DEF LeaseTypeOK, Barriers
  <2>6. ASSUME NEW b \in barriers, ResolveQuarantine(b, idle)
        PROVE  LeaseTypeOK'
    <3>1. lease' \in LeaseRows /\ ledger' \in Seq(Events)
      BY <2>6, RowTypes, CommitType DEF ResolveQuarantine, EventTypes
    <3> QED
      BY <2>6, <3>1 DEF ResolveQuarantine, LeaseTypeOK
  <2>7. CASE Tick
    BY <2>7 DEF Tick, LeaseTypeOK
  <2> QED
    BY <1>2, <2>1, <2>2, <2>3, <2>4, <2>5, <2>6, <2>7, StepCases
<1> QED
  BY <1>1, <1>2 DEF LeaseNext

\* The columns of the row and the entries of the ledger have their types in
\* every reachable state, whatever Runtimes, durations and receipts there are.
THEOREM LeaseTypeCorrect == LeaseSpec => []LeaseTypeOK
<1>1. LeaseInit => LeaseTypeOK
  BY LeaseAssumption DEF LeaseInit, LeaseTypeOK, AbsentRow, LeaseRows, Statuses
<1>2. LeaseTypeOK /\ [LeaseNext]_leaseVars => LeaseTypeOK'
  BY TypeStep
<1> QED
  BY <1>1, <1>2, PTL DEF LeaseSpec

-----------------------------------------------------------------------------
(* Safety.  The invariant says how the receipts and the ledger compare with *)
(* the row; it holds of receipts nobody will present again as well.         *)

Ending == {"Expired", "Released", "Quarantined"}

\* Nothing ever handed out or recorded is ahead of the row, every secret was
\* drawn, and no two authorities share a fencing token.
NothingAhead ==
    /\ \A a \in grants : a.fencing <= lease.fencing /\ a.token <= issued
    /\ \A a, b \in grants : a.fencing = b.fencing => a = b
    /\ \A b \in barriers : b.fencing <= lease.fencing
    /\ \A n \in DOMAIN ledger : ledger[n].generation <= lease.generation

\* While a hold stands, everything that could compete with it is behind it.
HoldIsNewest ==
    lease.status = "Active" =>
        /\ \A a \in grants :
              a.fencing = lease.fencing => a.holder = lease.holder
        /\ \A b \in barriers : b.fencing < lease.fencing
        /\ \A n \in DOMAIN ledger :
              ledger[n].type \in Ending =>
                  ledger[n].generation < lease.generation

LeaseInv == LeaseTypeOK /\ NothingAhead /\ HoldIsNewest

\* Every entry of the ledger after a commit: an old one, the expiry met on the
\* way, or the new event.
LEMMA CommittedEvents ==
    ASSUME LeaseTypeOK, NEW row \in LeaseRows, NEW type \in EventTypes,
           Commit(type, row), NEW n \in DOMAIN ledger'
    PROVE  \/ n \in DOMAIN ledger /\ ledger'[n] = ledger[n]
           \/ /\ ledger'[n].generation = lease.generation
              /\ Lapsed
           \/ /\ ledger'[n].generation = row.generation
              /\ ledger'[n].type = type
<1>1. /\ Event(type, row) \in Events
      /\ Event(type, row).generation = row.generation
      /\ Event(type, row).type = type
  BY EventType
<1>2. ledger' = Append(ExistingLedger, Event(type, row))
  BY DEF Commit
<1>3. ledger \in Seq(Events)
  BY DEF LeaseTypeOK
<1>4. CASE ~Lapsed
  <2>1. ledger' = Append(ledger, Event(type, row))
    BY <1>2, <1>4, ExistingFacts
  <2> QED
    BY <1>1, <1>3, <2>1
<1>5. CASE Lapsed
  <2> DEFINE e == Event("Expired", Existing)
             f == Event(type, row)
  <2>1. e \in Events /\ e.generation = lease.generation
    BY ExistingFacts, EventType DEF EventTypes
  <2>2. ledger' = Append(Append(ledger, e), f)
    BY <1>2, <1>5, ExistingFacts
  <2>3. f \in Events /\ f.generation = row.generation /\ f.type = type
    BY <1>1
  <2> HIDE DEF e, f
  <2>4. \/ n \in DOMAIN ledger /\ ledger'[n] = ledger[n]
        \/ ledger'[n] = e
        \/ ledger'[n] = f
    BY <1>3, <2>1, <2>2, <2>3
  <2> QED
    BY <1>5, <2>1, <2>3, <2>4
<1> QED
  BY <1>4, <1>5

\* An expiry ends the hold, so nothing is left that must be newest.
LEMMA ExpiryKeepsInv ==
    ASSUME LeaseInv, MaterializeExpiry
    PROVE  LeaseInv'
<1>1. LeaseTypeOK'
  BY MaterializeType DEF LeaseInv
<1>2. /\ Lapsed
      /\ lease' = Existing
      /\ ledger' = Append(ledger, Event("Expired", Existing))
      /\ grants' = grants /\ barriers' = barriers /\ issued' = issued
  BY ExistingFacts DEF MaterializeExpiry, LeaseInv
<1>3. /\ lease'.status = "Expired"
      /\ lease'.generation = lease.generation
      /\ lease'.fencing = lease.fencing
  BY <1>2, ExistingFacts DEF LeaseInv
<1>4. /\ Event("Expired", Existing) \in Events
      /\ Event("Expired", Existing).generation = lease.generation
  BY ExistingFacts, EventType DEF LeaseInv, EventTypes
<1>5. \A n \in DOMAIN ledger' : ledger'[n].generation <= lease'.generation
  <2> TAKE n \in DOMAIN ledger'
  <2>1. \/ n \in DOMAIN ledger /\ ledger'[n] = ledger[n]
        \/ ledger'[n] = Event("Expired", Existing)
    BY <1>2, <1>4 DEF LeaseInv, LeaseTypeOK
  <2>2. lease.generation \in Nat
    BY DEF LeaseInv, LeaseTypeOK, LeaseRows
  <2> QED
    BY <1>3, <1>4, <2>1, <2>2 DEF LeaseInv, NothingAhead
<1>6. NothingAhead'
  BY <1>2, <1>3, <1>5 DEF LeaseInv, NothingAhead
<1>7. HoldIsNewest'
  BY <1>3 DEF HoldIsNewest
<1> QED
  BY <1>1, <1>6, <1>7 DEF LeaseInv

\* An acquisition draws a larger fencing token than anything before it.
LEMMA AcquireKeepsInv ==
    ASSUME LeaseInv, NEW p \in Principals, NEW d \in Durations,
           NEW idle \in BOOLEAN, Acquire(p, d, idle), LeaseTypeOK'
    PROVE  LeaseInv'
<1> DEFINE row == [Existing EXCEPT
              !.revision = @ + 1, !.generation = @ + 1, !.fencing = @ + 1,
              !.status = "Active", !.holder = p, !.token = issued + 1,
              !.expires = clock + d, !.qtoken = 0]
           new == [holder |-> p, generation |-> row.generation,
                   fencing |-> row.fencing, token |-> issued + 1]
<1>1. /\ Commit("Acquired", row)
      /\ grants' = grants \cup {new}
      /\ barriers' = barriers
      /\ issued' = issued + 1
  BY DEF Acquire
<1>2. row \in LeaseRows
  BY RowTypes DEF LeaseInv
<1>3. Existing \in LeaseRows /\ Existing.generation = lease.generation
                           /\ Existing.fencing = lease.fencing
  BY ExistingFacts DEF LeaseInv
<1>4. /\ row.generation = lease.generation + 1
      /\ row.fencing = lease.fencing + 1
      /\ row.holder = p
  BY <1>3 DEF LeaseRows
<1>5. new.holder = p /\ new.fencing = row.fencing /\ new.token = issued + 1
  OBVIOUS
<1> HIDE DEF row, new
<1>6. lease' = row
  BY <1>1 DEF Commit
<1>7. /\ lease.generation \in Nat /\ lease.fencing \in Nat /\ issued \in Nat
      /\ \A a \in grants : a.fencing \in Nat /\ a.token \in Nat
      /\ \A b \in barriers : b.fencing \in Nat
      /\ \A n \in DOMAIN ledger : ledger[n].generation \in Nat
  <2>1. \A n \in DOMAIN ledger : ledger[n] \in Events
    BY DEF LeaseInv, LeaseTypeOK
  <2> QED
    BY <2>1 DEF LeaseInv, LeaseTypeOK, LeaseRows, Authorities, Barriers, Events
<1>8. \A n \in DOMAIN ledger' :
        /\ ledger'[n].generation <= lease'.generation
        /\ ledger'[n].type \in Ending => ledger'[n].generation < lease'.generation
  <2> TAKE n \in DOMAIN ledger'
  <2>1. \/ n \in DOMAIN ledger /\ ledger'[n] = ledger[n]
        \/ ledger'[n].generation = lease.generation
        \/ ledger'[n].generation = row.generation /\ ledger'[n].type = "Acquired"
    BY <1>1, <1>2, CommittedEvents DEF LeaseInv, EventTypes
  <2> QED
    BY <1>4, <1>6, <1>7, <2>1 DEF LeaseInv, NothingAhead, Ending
<1>9. NothingAhead'
  BY <1>1, <1>4, <1>5, <1>6, <1>7, <1>8 DEF LeaseInv, NothingAhead
<1>10. HoldIsNewest'
  BY <1>1, <1>4, <1>5, <1>6, <1>7, <1>8 DEF LeaseInv, NothingAhead, HoldIsNewest
<1> QED
  BY <1>9, <1>10 DEF LeaseInv

\* A renewal changes neither the authority nor what it competes with.
LEMMA RenewKeepsInv ==
    ASSUME LeaseInv, NEW p \in Principals, NEW a \in grants,
           NEW d \in Durations, Renew(p, a, d), LeaseTypeOK'
    PROVE  LeaseInv'
<1> DEFINE row == [lease EXCEPT !.revision = @ + 1, !.expires = clock + d]
<1>1. /\ Commit("Renewed", row)
      /\ grants' = grants /\ barriers' = barriers /\ issued' = issued
  BY DEF Renew
<1>2. row \in LeaseRows
  BY RowTypes DEF LeaseInv
<1>3. /\ row.generation = lease.generation
      /\ row.fencing = lease.fencing
      /\ row.holder = lease.holder
      /\ row.status = lease.status
  BY DEF LeaseInv, LeaseTypeOK, LeaseRows
<1> HIDE DEF row
<1>4. lease' = row
  BY <1>1 DEF Commit
<1>5. lease.status = "Active" /\ ~Lapsed
  BY DEF Renew, Accepts, Lapsed, LeaseInv, LeaseTypeOK, LeaseRows
<1>6. ASSUME NEW n \in DOMAIN ledger'
      PROVE  \/ n \in DOMAIN ledger /\ ledger'[n] = ledger[n]
             \/ /\ ledger'[n].generation = lease.generation
                /\ ledger'[n].type = "Renewed"
  BY <1>1, <1>2, <1>3, <1>5, CommittedEvents DEF LeaseInv, EventTypes
<1>7. lease.generation \in Nat
  BY DEF LeaseInv, LeaseTypeOK, LeaseRows
<1>8. NothingAhead'
  BY <1>1, <1>3, <1>4, <1>6, <1>7 DEF LeaseInv, NothingAhead
<1>9. HoldIsNewest'
  BY <1>1, <1>3, <1>4, <1>5, <1>6 DEF LeaseInv, HoldIsNewest, Ending
<1> QED
  BY <1>8, <1>9 DEF LeaseInv

\* A command that ends with no hold need only keep the row ahead.
LEMMA EndedKeepsInv ==
    ASSUME LeaseInv, LeaseTypeOK', NEW row \in LeaseRows,
           NEW type \in EventTypes, Commit(type, row),
           row.status # "Active", row.generation = lease.generation,
           row.fencing >= lease.fencing, grants' = grants,
           issued' \in {issued, issued + 1},
           \A b \in barriers' : b \in barriers \/ b.fencing = row.fencing
    PROVE  LeaseInv'
<1>1. lease' = row
  BY DEF Commit
<1>2. /\ lease.generation \in Nat /\ lease.fencing \in Nat
      /\ row.fencing \in Nat /\ issued \in Nat
      /\ \A a \in grants : a.fencing \in Nat /\ a.token \in Nat
      /\ \A b \in barriers : b.fencing \in Nat
  BY DEF LeaseInv, LeaseTypeOK, LeaseRows, Authorities, Barriers
<1>3. \A n \in DOMAIN ledger' : ledger'[n].generation <= lease'.generation
  <2> TAKE n \in DOMAIN ledger'
  <2>1. \/ n \in DOMAIN ledger /\ ledger'[n] = ledger[n]
        \/ ledger'[n].generation = lease.generation
    BY CommittedEvents DEF LeaseInv
  <2> QED
    BY <1>1, <1>2, <2>1 DEF LeaseInv, NothingAhead
<1>4. NothingAhead'
  BY <1>1, <1>2, <1>3 DEF LeaseInv, NothingAhead
<1>5. HoldIsNewest'
  BY <1>1 DEF HoldIsNewest
<1> QED
  BY <1>4, <1>5 DEF LeaseInv

\* Every step keeps the invariant.
LEMMA InvStep ==
    ASSUME LeaseInv, [LeaseNext]_leaseVars
    PROVE  LeaseInv'
<1> USE DEF LeaseInv
<1>1. LeaseTypeOK'
  BY TypeStep
<1>2. CASE UNCHANGED leaseVars
  BY <1>1, <1>2 DEF leaseVars, NothingAhead, HoldIsNewest
<1>3. ASSUME NEW idle \in BOOLEAN, LeaseStep(idle) PROVE LeaseInv'
  <2>1. CASE MaterializeExpiry
    BY <2>1, ExpiryKeepsInv
  <2>2. ASSUME NEW p \in Principals, NEW d \in Durations, Acquire(p, d, idle)
        PROVE  LeaseInv'
    BY <1>1, <2>2, AcquireKeepsInv
  <2>3. ASSUME NEW p \in Principals, NEW a \in grants, NEW d \in Durations,
               Renew(p, a, d)
        PROVE  LeaseInv'
    BY <1>1, <2>3, RenewKeepsInv
  <2>4. ASSUME NEW p \in Principals, NEW a \in grants, Release(p, a, idle)
        PROVE  LeaseInv'
    <3>1. /\ EndHold(lease, "Released") \in LeaseRows
          /\ EndHold(lease, "Released").status = "Released"
          /\ EndHold(lease, "Released").generation = lease.generation
          /\ EndHold(lease, "Released").fencing = lease.fencing
      BY EndHoldType DEF LeaseTypeOK, Statuses
    <3>2. lease.fencing \in Nat
      BY DEF LeaseTypeOK, LeaseRows
    <3> QED
      BY <1>1, <2>4, <3>1, <3>2, EndedKeepsInv DEF Release, EventTypes
  <2>5. CASE RaiseBarrier
    <3> DEFINE row == [EndHold(Existing, "Quarantined") EXCEPT
                         !.fencing = @ + 1, !.qtoken = issued + 1]
    <3>1. row \in LeaseRows
      BY RowTypes
    <3>2. /\ Commit("Quarantined", row)
          /\ barriers' = barriers \cup
               {[revision |-> row.revision, fencing |-> row.fencing,
                 qtoken |-> issued + 1]}
          /\ grants' = grants
          /\ issued' = issued + 1
      BY <2>5 DEF RaiseBarrier
    <3>3. /\ EndHold(Existing, "Quarantined") \in LeaseRows
          /\ EndHold(Existing, "Quarantined").status = "Quarantined"
          /\ EndHold(Existing, "Quarantined").generation = lease.generation
          /\ EndHold(Existing, "Quarantined").fencing = lease.fencing
      BY ExistingFacts, EndHoldType DEF Statuses
    <3>4. /\ row.status = "Quarantined"
          /\ row.generation = lease.generation
          /\ row.fencing = lease.fencing + 1
      BY <3>3 DEF LeaseRows
    <3> HIDE DEF row
    <3>5. lease.fencing \in Nat
      BY DEF LeaseTypeOK, LeaseRows
    <3> QED
      BY <1>1, <3>1, <3>2, <3>4, <3>5, EndedKeepsInv DEF EventTypes
  <2>6. ASSUME NEW b \in barriers, ResolveQuarantine(b, idle)
        PROVE  LeaseInv'
    <3> DEFINE row == [lease EXCEPT !.revision = @ + 1,
                                    !.status = "Released", !.qtoken = 0]
    <3>1. row \in LeaseRows
      BY RowTypes
    <3>2. /\ Commit("Resolved", row)
          /\ barriers' = barriers /\ grants' = grants /\ issued' = issued
      BY <2>6 DEF ResolveQuarantine
    <3>3. /\ row.status = "Released"
          /\ row.generation = lease.generation
          /\ row.fencing = lease.fencing
          /\ lease.fencing \in Nat
      BY DEF LeaseTypeOK, LeaseRows
    <3> HIDE DEF row
    <3> QED
      BY <1>1, <3>1, <3>2, <3>3, EndedKeepsInv DEF EventTypes
  <2>7. CASE Tick
    BY <1>1, <2>7 DEF Tick, NothingAhead, HoldIsNewest
  <2> QED
    BY <1>3, <2>1, <2>2, <2>3, <2>4, <2>5, <2>6, <2>7, StepCases
<1> QED
  BY <1>2, <1>3 DEF LeaseNext

\* The inductive invariant.
THEOREM LeaseInvariant == LeaseSpec => []LeaseInv
<1>1. LeaseInit => LeaseInv
  BY LeaseAssumption
     DEF LeaseInit, LeaseInv, LeaseTypeOK, AbsentRow, LeaseRows, Statuses,
         NothingAhead, HoldIsNewest
<1>2. LeaseInv /\ [LeaseNext]_leaseVars => LeaseInv'
  BY InvStep
<1> QED
  BY <1>1, <1>2, PTL DEF LeaseSpec

\* For any Runtimes and any clock: the receipt requireLiveAuthority accepts is
\* the newest authority, ahead of every other receipt and every barrier.
THEOREM NewestAuthorityHolds == LeaseSpec => []NewestAuthority
<1>1. LeaseInv => NewestAuthority
  BY DEF LeaseInv, LeaseTypeOK, NothingAhead, HoldIsNewest, NewestAuthority,
         Accepts, Authorities, LeaseRows
<1> QED
  BY <1>1, LeaseInvariant, PTL

\* For any Runtimes and any clock: no receipt of a hold the ledger records as
\* expired, released or quarantined is accepted again.
THEOREM NoRevivalHolds == LeaseSpec => []NoRevival
<1>1. LeaseInv => NoRevival
  BY DEF LeaseInv, HoldIsNewest, NoRevival, Accepts, Ending
<1> QED
  BY <1>1, LeaseInvariant, PTL

-----------------------------------------------------------------------------
(* Handover of authority: an action property, from the same invariant. *)

\* Each command hands authority over lawfully or not at all.
LEMMA HandoverByStep ==
    ASSUME LeaseInv, NEW idle \in BOOLEAN, LeaseStep(idle)
    PROVE  HandoverStep
<1> USE DEF LeaseInv
<1>1. CASE MaterializeExpiry
  <2>1. Lapsed /\ lease'.status = "Expired"
    BY <1>1, ExistingFacts DEF MaterializeExpiry
  <2> QED
    BY <2>1 DEF HandoverStep, Lapsed
<1>2. ASSUME NEW p \in Principals, NEW d \in Durations, Acquire(p, d, idle)
      PROVE  HandoverStep
  <2> DEFINE row == [Existing EXCEPT
                !.revision = @ + 1, !.generation = @ + 1, !.fencing = @ + 1,
                !.status = "Active", !.holder = p, !.token = issued + 1,
                !.expires = clock + d, !.qtoken = 0]
  <2>1. lease' = row /\ Existing.status \notin {"Active", "Quarantined"}
    BY <1>2 DEF Acquire, Commit
  <2>2. Existing \in LeaseRows /\ Existing.generation = lease.generation
                             /\ Existing.fencing = lease.fencing
    BY ExistingFacts
  <2>3. /\ row.generation = lease.generation + 1
        /\ row.fencing = lease.fencing + 1
        /\ row.token = issued + 1
    BY <2>2 DEF LeaseRows
  <2> HIDE DEF row
  <2>4. lease.status # "Quarantined"
    BY <2>1, ExistingFacts DEF Lapsed
  <2>5. lease.fencing \in Nat /\ issued \in Nat
    BY DEF LeaseTypeOK, LeaseRows
  <2>6. row.token \notin {a.token : a \in grants}
    BY <2>3, <2>5 DEF NothingAhead, LeaseTypeOK, Authorities
  <2> QED
    BY <2>1, <2>3, <2>4, <2>5, <2>6 DEF HandoverStep
<1>3. ASSUME NEW p \in Principals, NEW a \in grants, NEW d \in Durations,
             Renew(p, a, d)
      PROVE  HandoverStep
  <2>1. /\ lease' = [lease EXCEPT !.revision = @ + 1, !.expires = clock + d]
        /\ lease.status = "Active"
    BY <1>3 DEF Renew, Commit, Accepts
  <2>2. lease'.token = lease.token
    BY <2>1 DEF LeaseTypeOK, LeaseRows
  <2> QED
    BY <2>1, <2>2 DEF HandoverStep
<1>4. ASSUME NEW p \in Principals, NEW a \in grants, Release(p, a, idle)
      PROVE  HandoverStep
  <2>1. lease' = EndHold(lease, "Released") /\ lease.status = "Active"
    BY <1>4 DEF Release, Commit, Accepts
  <2>2. lease'.status = "Released"
    BY <2>1, EndHoldType DEF LeaseTypeOK, Statuses
  <2> QED
    BY <2>1, <2>2 DEF HandoverStep
<1>5. CASE Existing.status # "Quarantined" /\ RaiseBarrier
  <2>1. lease' = [EndHold(Existing, "Quarantined") EXCEPT
                     !.fencing = @ + 1, !.qtoken = issued + 1]
    BY <1>5 DEF RaiseBarrier, Commit
  <2>2. /\ EndHold(Existing, "Quarantined") \in LeaseRows
        /\ EndHold(Existing, "Quarantined").status = "Quarantined"
    BY ExistingFacts, EndHoldType DEF Statuses
  <2>3. lease'.status = "Quarantined"
    BY <2>1, <2>2 DEF LeaseRows
  <2> QED
    BY <2>3 DEF HandoverStep
<1>6. ASSUME NEW b \in barriers, ResolveQuarantine(b, idle)
      PROVE  HandoverStep
  <2>1. lease' = [lease EXCEPT !.revision = @ + 1, !.status = "Released",
                               !.qtoken = 0]
    BY <1>6 DEF ResolveQuarantine, Commit
  <2>2. /\ lease'.status = "Released"
        /\ lease'.fencing = lease.fencing
        /\ lease'.generation = lease.generation
    BY <2>1 DEF LeaseTypeOK, LeaseRows
  <2> QED
    BY <2>2 DEF HandoverStep
<1>7. CASE Tick
  BY <1>7 DEF Tick, HandoverStep
<1> QED
  BY <1>1, <1>2, <1>3, <1>4, <1>5, <1>6, <1>7, StepCases

\* For any Runtimes and any clock: another receipt becomes the authority only
\* by an acquisition, with a generation and a fencing token of its own, and a
\* barrier is lifted to Released only.
THEOREM AuthorityHandoverHolds == LeaseSpec => AuthorityHandover
<1>1. LeaseInv /\ [LeaseNext]_leaseVars => [HandoverStep]_leaseVars
  BY HandoverByStep DEF LeaseNext
<1> QED
  BY <1>1, LeaseInvariant, PTL DEF LeaseSpec, AuthorityHandover

-----------------------------------------------------------------------------
(* The ledger explains the row. *)

\* A lawful next event keeps a history gapless and describes the new row.
LEMMA HistoryExtends ==
    ASSUME NEW events \in Seq(Events), NEW l \in LeaseRows,
           NEW row \in LeaseRows, NEW type \in EventTypes,
           Explains(events, l),
           row.revision = l.revision + 1,
           row.status = StatusAfter(type),
           Len(events) > 0 => Follows(events[Len(events)], Event(type, row))
    PROVE  Explains(Append(events, Event(type, row)), row)
<1> DEFINE e == Event(type, row)
           more == Append(events, e)
<1>1. /\ e \in Events /\ e.type = type /\ e.revision = row.revision
      /\ e.generation = row.generation /\ e.fencing = row.fencing
  BY EventType
<1>2. Len(events) > 0 => Follows(events[Len(events)], e)
  OBVIOUS
<1> HIDE DEF e
<1>3. /\ Len(events) \in Nat
      /\ DOMAIN events = 1..Len(events)
      /\ Len(more) = Len(events) + 1
      /\ DOMAIN more = 1..(Len(events) + 1)
      /\ \A n \in 1..Len(events) : more[n] = events[n]
      /\ more[Len(events) + 1] = e
  BY <1>1
<1>4. e.revision = Len(events) + 1
  BY <1>1 DEF Explains
<1> HIDE DEF more
<1>5. GaplessHistory(more)
  <2> SUFFICES ASSUME NEW n \in DOMAIN more
               PROVE  /\ more[n].revision = n
                      /\ n > 1 => Follows(more[n - 1], more[n])
    BY DEF GaplessHistory
  <2>1. CASE n \in 1..Len(events)
    <3>1. more[n] = events[n] /\ (n > 1 => more[n - 1] = events[n - 1])
      BY <1>3, <2>1
    <3> QED
      BY <1>3, <2>1, <3>1 DEF Explains, GaplessHistory
  <2>2. CASE n = Len(events) + 1
    <3>1. more[n] = e /\ (n > 1 => more[n - 1] = events[Len(events)])
      BY <1>3, <2>2
    <3> QED
      BY <1>2, <1>3, <1>4, <2>2, <3>1
  <2> QED
    BY <1>3, <2>1, <2>2
<1>6. Describes(more[Len(more)], row)
  BY <1>1, <1>3 DEF Describes
<1>7. row.revision = Len(more)
  BY <1>3 DEF Explains
<1> QED
  BY <1>5, <1>6, <1>7 DEF Explains, more, e

\* The event types that lead to each status.
LEMMA TypeBefore ==
    ASSUME NEW type \in EventTypes
    PROVE  /\ StatusAfter(type) = "Active" => type \in {"Acquired", "Renewed"}
           /\ StatusAfter(type) = "Quarantined" => type = "Quarantined"
           /\ StatusAfter(type) \in {"Released", "Expired"} =>
                 type \in {"Released", "Expired", "Resolved"}
           /\ StatusAfter(type) # "Quarantined" => type # "Quarantined"
           /\ StatusAfter(type) # "None"
BY DEF StatusAfter, EventTypes

\* What the last event says when it describes row l.
LEMMA LastEvent ==
    ASSUME NEW events \in Seq(Events), NEW l \in LeaseRows,
           Explains(events, l), Len(events) > 0
    PROVE  LET last == events[Len(events)]
           IN  /\ last.type \in EventTypes
               /\ StatusAfter(last.type) = l.status
               /\ last.generation = l.generation
               /\ last.fencing = l.fencing
<1>1. events[Len(events)] \in Events
  OBVIOUS
<1> QED
  BY <1>1 DEF Explains, Describes, Events

\* The expiry met on the way is explained by an event of its own.
LEMMA ExistingExplained ==
    ASSUME LeaseTypeOK, LedgerExplainsRow
    PROVE  Explains(ExistingLedger, Existing)
<1>1. CASE ~Lapsed
  BY <1>1, ExistingFacts DEF LedgerExplainsRow
<1>2. CASE Lapsed
  <2>1. lease \in LeaseRows /\ ledger \in Seq(Events)
    BY DEF LeaseTypeOK
  <2>2. Existing \in LeaseRows /\ "Expired" \in EventTypes
    BY ExistingFacts DEF EventTypes
  <2>3. /\ Existing.revision = lease.revision + 1
        /\ Existing.status = StatusAfter("Expired")
    BY <1>2, ExistingFacts DEF StatusAfter
  <2> DEFINE e == Event("Expired", Existing)
  <2>4. /\ e.type = "Expired"
        /\ e.generation = lease.generation
        /\ e.fencing = lease.fencing
    BY <2>2, EventType, ExistingFacts
  <2> HIDE DEF e
  <2>5. ASSUME Len(ledger) > 0
        PROVE  Follows(ledger[Len(ledger)], e)
    BY <1>2, <2>1, <2>4, <2>5, LastEvent, TypeBefore
       DEF Follows, Lapsed, LedgerExplainsRow
  <2>6. Explains(Append(ledger, Event("Expired", Existing)), Existing)
    BY <2>1, <2>2, <2>3, <2>5, HistoryExtends DEF LedgerExplainsRow, e
  <2> QED
    BY <1>2, <2>6, ExistingFacts
<1> QED
  BY <1>1, <1>2

\* A commit of a lawful event over the row as it stands after expiry.
LEMMA CommitExplained ==
    ASSUME LeaseTypeOK, LedgerExplainsRow,
           NEW row \in LeaseRows, NEW type \in EventTypes, Commit(type, row),
           row.revision = Existing.revision + 1,
           row.status = StatusAfter(type),
           \A prev \in Events :
               /\ StatusAfter(prev.type) = Existing.status
               /\ prev.generation = lease.generation
               /\ prev.fencing = lease.fencing
               => Follows(prev, Event(type, row))
    PROVE  LedgerExplainsRow'
<1>1. /\ ExistingLedger \in Seq(Events) /\ Existing \in LeaseRows
      /\ Existing.generation = lease.generation
      /\ Existing.fencing = lease.fencing
  BY ExistingFacts
<1>2. Explains(ExistingLedger, Existing)
  BY ExistingExplained
<1>3. ASSUME Len(ExistingLedger) > 0
      PROVE  Follows(ExistingLedger[Len(ExistingLedger)], Event(type, row))
  <2>1. ExistingLedger[Len(ExistingLedger)] \in Events
    BY <1>1, <1>3
  <2> QED
    BY <1>1, <1>2, <1>3, <2>1, LastEvent
<1>4. Explains(Append(ExistingLedger, Event(type, row)), row)
  BY <1>1, <1>2, <1>3, HistoryExtends
<1> QED
  BY <1>4 DEF Commit, LedgerExplainsRow

\* Each command keeps the ledger an explanation of the row.
LEMMA LedgerByStep ==
    ASSUME LeaseTypeOK, LedgerExplainsRow, NEW idle \in BOOLEAN,
           LeaseStep(idle)
    PROVE  LedgerExplainsRow'
<1>e. /\ Existing \in LeaseRows /\ lease \in LeaseRows
      /\ Existing.generation = lease.generation
      /\ Existing.fencing = lease.fencing
  BY ExistingFacts DEF LeaseTypeOK
<1>t. \A prev \in Events : prev.type \in EventTypes
  BY DEF Events
<1>1. CASE MaterializeExpiry
  BY <1>1, ExistingExplained DEF MaterializeExpiry, LedgerExplainsRow
<1>2. ASSUME NEW p \in Principals, NEW d \in Durations, Acquire(p, d, idle)
      PROVE  LedgerExplainsRow'
  <2> DEFINE row == [Existing EXCEPT
                !.revision = @ + 1, !.generation = @ + 1, !.fencing = @ + 1,
                !.status = "Active", !.holder = p, !.token = issued + 1,
                !.expires = clock + d, !.qtoken = 0]
  <2>1. /\ Commit("Acquired", row)
        /\ Existing.status \notin {"Active", "Quarantined"}
    BY <1>2 DEF Acquire
  <2>2. row \in LeaseRows /\ "Acquired" \in EventTypes
    BY RowTypes DEF EventTypes
  <2>3. /\ row.generation = lease.generation + 1
        /\ row.fencing = lease.fencing + 1
        /\ row.revision = Existing.revision + 1
        /\ row.status = "Active"
    BY <1>e DEF LeaseRows
  <2> HIDE DEF row
  <2>4. row.status = StatusAfter("Acquired")
    BY <2>3 DEF StatusAfter
  <2>5. Existing.status \in {"None", "Released", "Expired"}
    BY <1>e, <2>1 DEF LeaseRows, Statuses
  <2>6. ASSUME NEW prev \in Events, StatusAfter(prev.type) = Existing.status,
               prev.generation = lease.generation, prev.fencing = lease.fencing
        PROVE  Follows(prev, Event("Acquired", row))
    <3>1. prev.type \in {"Released", "Expired", "Resolved"}
      BY <1>t, <2>5, <2>6, TypeBefore
    <3> QED
      BY <2>2, <2>3, <2>6, <3>1, EventType DEF Follows
  <2> QED
    BY <2>1, <2>2, <2>3, <2>4, <2>6, CommitExplained
<1>3. ASSUME NEW p \in Principals, NEW a \in grants, NEW d \in Durations,
             Renew(p, a, d)
      PROVE  LedgerExplainsRow'
  <2> DEFINE row == [lease EXCEPT !.revision = @ + 1, !.expires = clock + d]
  <2>1. /\ Commit("Renewed", row)
        /\ lease.status = "Active" /\ ~Lapsed
    BY <1>3 DEF Renew, Accepts, Lapsed, LeaseTypeOK, LeaseRows
  <2>2. row \in LeaseRows /\ "Renewed" \in EventTypes
    BY RowTypes DEF EventTypes
  <2>3. Existing = lease
    BY <2>1, ExistingFacts
  <2>4. /\ row.generation = lease.generation
        /\ row.fencing = lease.fencing
        /\ row.revision = Existing.revision + 1
        /\ row.status = "Active"
    BY <2>1, <2>3 DEF LeaseTypeOK, LeaseRows
  <2> HIDE DEF row
  <2>5. row.status = StatusAfter("Renewed")
    BY <2>4 DEF StatusAfter
  <2>6. ASSUME NEW prev \in Events, StatusAfter(prev.type) = Existing.status,
               prev.generation = lease.generation, prev.fencing = lease.fencing
        PROVE  Follows(prev, Event("Renewed", row))
    <3>1. prev.type \in {"Acquired", "Renewed"}
      BY <1>t, <2>1, <2>3, <2>6, TypeBefore
    <3> QED
      BY <2>2, <2>4, <2>6, <3>1, EventType DEF Follows
  <2> QED
    BY <2>1, <2>2, <2>4, <2>5, <2>6, CommitExplained
<1>4. ASSUME NEW p \in Principals, NEW a \in grants, Release(p, a, idle)
      PROVE  LedgerExplainsRow'
  <2> DEFINE row == EndHold(lease, "Released")
  <2>1. /\ Commit("Released", row)
        /\ lease.status = "Active" /\ ~Lapsed
    BY <1>4 DEF Release, Accepts, Lapsed, LeaseTypeOK, LeaseRows
  <2>2. Existing = lease /\ "Released" \in EventTypes
    BY <2>1, ExistingFacts DEF EventTypes
  <2>3. /\ row \in LeaseRows
        /\ row.generation = lease.generation
        /\ row.fencing = lease.fencing
        /\ row.revision = Existing.revision + 1
        /\ row.status = "Released"
    BY <2>2, EndHoldType DEF LeaseTypeOK, Statuses
  <2> HIDE DEF row
  <2>4. row.status = StatusAfter("Released")
    BY <2>3 DEF StatusAfter
  <2>5. ASSUME NEW prev \in Events, StatusAfter(prev.type) = Existing.status,
               prev.generation = lease.generation, prev.fencing = lease.fencing
        PROVE  Follows(prev, Event("Released", row))
    <3>1. prev.type \in {"Acquired", "Renewed"}
      BY <1>t, <2>1, <2>2, <2>5, TypeBefore
    <3> QED
      BY <2>2, <2>3, <2>5, <3>1, EventType DEF Follows
  <2> QED
    BY <2>1, <2>2, <2>3, <2>4, <2>5, CommitExplained
<1>5. CASE Existing.status # "Quarantined" /\ RaiseBarrier
  <2> DEFINE row == [EndHold(Existing, "Quarantined") EXCEPT
                       !.fencing = @ + 1, !.qtoken = issued + 1]
  <2>1. Commit("Quarantined", row) /\ Existing.status # "Quarantined"
    BY <1>5 DEF RaiseBarrier
  <2>2. row \in LeaseRows /\ "Quarantined" \in EventTypes
    BY RowTypes DEF EventTypes
  <2>3. /\ EndHold(Existing, "Quarantined") \in LeaseRows
        /\ EndHold(Existing, "Quarantined").status = "Quarantined"
        /\ EndHold(Existing, "Quarantined").revision = Existing.revision + 1
        /\ EndHold(Existing, "Quarantined").generation = lease.generation
        /\ EndHold(Existing, "Quarantined").fencing = lease.fencing
    BY <1>e, EndHoldType DEF Statuses
  <2>4. /\ row.status = "Quarantined"
        /\ row.revision = Existing.revision + 1
        /\ row.generation = lease.generation
        /\ row.fencing = lease.fencing + 1
    BY <2>3 DEF LeaseRows
  <2> HIDE DEF row
  <2>5. row.status = StatusAfter("Quarantined")
    BY <2>4 DEF StatusAfter
  <2>6. ASSUME NEW prev \in Events, StatusAfter(prev.type) = Existing.status,
               prev.generation = lease.generation, prev.fencing = lease.fencing
        PROVE  Follows(prev, Event("Quarantined", row))
    <3>1. prev.type # "Quarantined"
      BY <1>t, <2>1, <2>6, TypeBefore
    <3> QED
      BY <2>2, <2>4, <2>6, <3>1, EventType DEF Follows
  <2> QED
    BY <2>1, <2>2, <2>4, <2>5, <2>6, CommitExplained
<1>6. ASSUME NEW b \in barriers, ResolveQuarantine(b, idle)
      PROVE  LedgerExplainsRow'
  <2> DEFINE row == [lease EXCEPT !.revision = @ + 1,
                                  !.status = "Released", !.qtoken = 0]
  <2>1. Commit("Resolved", row) /\ lease.status = "Quarantined"
    BY <1>6 DEF ResolveQuarantine
  <2>2. row \in LeaseRows /\ "Resolved" \in EventTypes
    BY RowTypes DEF EventTypes
  <2>3. Existing = lease
    BY <2>1, ExistingFacts DEF Lapsed
  <2>4. /\ row.status = "Released"
        /\ row.revision = Existing.revision + 1
        /\ row.generation = lease.generation
        /\ row.fencing = lease.fencing
    BY <1>e, <2>3 DEF LeaseRows
  <2> HIDE DEF row
  <2>5. row.status = StatusAfter("Resolved")
    BY <2>4 DEF StatusAfter
  <2>6. ASSUME NEW prev \in Events, StatusAfter(prev.type) = Existing.status,
               prev.generation = lease.generation, prev.fencing = lease.fencing
        PROVE  Follows(prev, Event("Resolved", row))
    <3>1. prev.type = "Quarantined"
      BY <1>t, <2>1, <2>3, <2>6, TypeBefore
    <3> QED
      BY <2>2, <2>4, <2>6, <3>1, EventType DEF Follows
  <2> QED
    BY <2>1, <2>2, <2>4, <2>5, <2>6, CommitExplained
<1>7. CASE Tick
  BY <1>7 DEF Tick, LedgerExplainsRow
<1> QED
  BY <1>1, <1>2, <1>3, <1>4, <1>5, <1>6, <1>7, StepCases

\* For any Runtimes, any clock and a history of any length: the ledger is a
\* gapless lawful history of the row, including the transactions that append
\* an expiry and the event of the command that met it.
THEOREM LedgerExplainsRowHolds == LeaseSpec => []LedgerExplainsRow
<1>1. LeaseInit => LedgerExplainsRow
  BY DEF LeaseInit, AbsentRow, LedgerExplainsRow, Explains, GaplessHistory
<1>2. LeaseTypeOK /\ LedgerExplainsRow /\ [LeaseNext]_leaseVars
        => LedgerExplainsRow'
  <2>1. CASE UNCHANGED leaseVars
    BY <2>1 DEF leaseVars, LedgerExplainsRow
  <2> QED
    BY <2>1, LedgerByStep DEF LeaseNext
<1> QED
  BY <1>1, <1>2, LeaseTypeCorrect, PTL DEF LeaseSpec

-----------------------------------------------------------------------------
(* The physical worktree *)

OneAfterAnother ==
    /\ \A i \in Unsettled : i = Len(execs)
    /\ \A i, j \in DOMAIN execs : i < j => execs[i].act <= execs[j].act
    /\ \A i \in DOMAIN execs : execs[i].act <= source.gen

AbnormalRevoked ==
    \A i \in DOMAIN execs : execs[i].abnormal => execs[i].revoked

LossIsDurable ==
    \A act \in lost : \E i \in ExecsOf(act) : execs[i].revoked

SourceBegins == source.gen = 0 => source.phase = "Over"

ExecsBehind ==
    \A i \in DOMAIN execs : execs[i].fencing <= lease.fencing

PhysInv ==
    /\ PhysTypeOK
    /\ LeaseInv
    /\ PhysicalExclusion
    /\ QuarantineMeansDoubt
    /\ OneAfterAnother
    /\ AbnormalRevoked
    /\ LossIsDurable
    /\ ExecsBehind
    /\ SourceBegins

-----------------------------------------------------------------------------
(* The composition is a writer lease. *)

\* A loss of authority touches the lease only by an expiry it met.
LEMMA LossOnLease ==
    ASSUME NEW act, NEW stopped, NEW decision,
           LoseAuthority(act, stopped, decision)
    PROVE  GetLease \/ UNCHANGED leaseVars
  BY DEF LoseAuthority, GetLease

\* GetLease is a step of the lease, whatever the directory is like.
LEMMA GetLeaseIsStep ==
    ASSUME GetLease
    PROVE  LeaseNext
  <1>1. LeaseStep(TRUE)
    BY DEF LeaseStep
  <1> QED BY <1>1 DEF LeaseNext

\* The verdict of assertPhysicalWorktreeIdle is a Boolean.
LEMMA IdleIsBoolean == Idle \in BOOLEAN
  BY DEF Idle

\* Commands of executions leave the lease alone or materialize its expiry.
LEMMA ExecutionOnLease ==
    ASSUME ExecutionStep
    PROVE  [LeaseNext]_leaseVars
  <1>1. StartExecutionRefused => GetLease \/ UNCHANGED leaseVars
    BY LossOnLease DEF StartExecutionRefused
  <1>2. ~StartExecutionRefused => UNCHANGED leaseVars
    BY DEF ExecutionStep, Register, StartExecution, RecordExecution,
           RecoverExecution, RevokeExecutionAuthority, RevokeLocal,
           ReplayStart, Crash
  <1> QED BY <1>1, <1>2, GetLeaseIsStep

\* So do the gates.
LEMMA GateOnLease ==
    ASSUME GateStep
    PROVE  [LeaseNext]_leaseVars
  <1>1. ASSUME NEW i \in DOMAIN execs,
               MutationRefused(i) \/ PublicationRefused(i)
                  \/ AcknowledgeRefused(i)
        PROVE  GetLease \/ UNCHANGED leaseVars
    BY <1>1, LossOnLease
       DEF MutationRefused, PublicationRefused, AcknowledgeRefused
  <1>2. ASSUME NEW i \in DOMAIN execs, CompleteAttempt(i) \/ LoseAttempt(i)
        PROVE  UNCHANGED leaseVars
    BY <1>2 DEF CompleteAttempt, LoseAttempt, SettleAttempt
  <1>3. ASSUME NEW act \in Activations,
               WriterCommandRefused(act) \/ CompleteRefused(act)
                  \/ SuccessRefused(act)
        PROVE  GetLease \/ UNCHANGED leaseVars
    BY <1>3, LossOnLease
       DEF WriterCommandRefused, CompleteRefused, SuccessRefused
  <1>4. ASSUME NEW act \in Activations,
               Decide(act, TRUE) \/ Decide(act, FALSE) \/ FinishActivation(act)
        PROVE  UNCHANGED leaseVars
    BY <1>4 DEF Decide, FinishActivation
  <1> QED BY <1>1, <1>2, <1>3, <1>4, GetLeaseIsStep DEF GateStep

\* Every step of the composition is a step of the lease or leaves it alone.
LEMMA LeaseByStep ==
    ASSUME [Next]_vars
    PROVE  [LeaseNext]_leaseVars
  <1>1. CASE LeaseStep(Idle)
    BY <1>1, IdleIsBoolean DEF LeaseNext
  <1>2. CASE ExecutionStep
    BY <1>2, ExecutionOnLease
  <1>3. CASE GateStep
    BY <1>3, GateOnLease
  <1>4. CASE SourceStep
    BY <1>4 DEF SourceStep, Activate, EndSource
  <1>5. CASE UNCHANGED vars
    BY <1>5 DEF vars, leaseVars
  <1> QED BY <1>1, <1>2, <1>3, <1>4, <1>5 DEF Next

\* Whatever executions, gates, crashes and the source Run do, the lease is
\* changed only by its own rules: the composed system implements it.
THEOREM ImplementsLeaseHolds == Spec => ImplementsLease
  <1>1. Init => LeaseInit
    BY DEF Init
  <1>2. [Next]_vars => [LeaseNext]_leaseVars
    BY LeaseByStep
  <1> QED BY <1>1, <1>2, PTL DEF Spec, ImplementsLease, LeaseSpec

-----------------------------------------------------------------------------
(* What a step does to the lease of an occupied directory *)

\* The status of a lease that was granted and not given back.
Occupied == {"Active", "Expired", "Quarantined"}

\* An expiry ends the hold and moves neither generation nor fencing token.
LEMMA ExpiryMoves ==
    ASSUME LeaseTypeOK, MaterializeExpiry
    PROVE  /\ lease'.fencing = lease.fencing
           /\ lease'.generation = lease.generation
           /\ lease'.status \in Occupied
  BY ExistingFacts DEF MaterializeExpiry, Occupied

\* Only an idle directory lets the lease move to another generation or out of
\* the occupied statuses, and the fencing token never goes back.
LEMMA LeaseMoves ==
    ASSUME LeaseTypeOK, NEW idle \in BOOLEAN, LeaseStep(idle)
    PROVE  /\ lease'.fencing >= lease.fencing
           /\ idle \/ /\ lease'.generation = lease.generation
                      /\ lease.status \in Occupied => lease'.status \in Occupied
  <1>1. lease \in LeaseRows /\ lease.fencing \in Nat
    BY DEF LeaseTypeOK, LeaseRows
  <1>2. /\ Existing \in LeaseRows
        /\ Existing.generation = lease.generation
        /\ Existing.fencing = lease.fencing
    BY ExistingFacts
  <1>3. CASE MaterializeExpiry
    BY <1>1, <1>3, ExpiryMoves
  <1>4. ASSUME NEW p \in Principals, NEW d \in Durations, Acquire(p, d, idle)
        PROVE  idle /\ lease'.fencing >= lease.fencing
    <2>1. lease' = [Existing EXCEPT
                !.revision = @ + 1, !.generation = @ + 1, !.fencing = @ + 1,
                !.status = "Active", !.holder = p, !.token = issued + 1,
                !.expires = clock + d, !.qtoken = 0]
      BY <1>4 DEF Acquire, Commit
    <2>2. lease'.fencing = lease.fencing + 1
      BY <1>2, <2>1 DEF LeaseRows
    <2> QED BY <1>1, <1>4, <2>2 DEF Acquire
  <1>5. ASSUME NEW p \in Principals, NEW a \in grants, NEW d \in Durations,
               Renew(p, a, d)
        PROVE  /\ lease'.fencing = lease.fencing
               /\ lease'.generation = lease.generation
               /\ lease'.status = lease.status
    <2>1. lease' = [lease EXCEPT !.revision = @ + 1, !.expires = clock + d]
      BY <1>5 DEF Renew, Commit
    <2> QED BY <1>1, <2>1 DEF LeaseRows
  <1>6. ASSUME NEW p \in Principals, NEW a \in grants, Release(p, a, idle)
        PROVE  idle /\ lease'.fencing = lease.fencing
    <2>1. lease' = EndHold(lease, "Released") /\ idle
      BY <1>6 DEF Release, Commit
    <2> QED BY <1>1, <2>1, EndHoldType DEF Statuses
  <1>7. CASE RaiseBarrier
    <2>1. lease' = [EndHold(Existing, "Quarantined") EXCEPT
                       !.fencing = @ + 1, !.qtoken = issued + 1]
      BY <1>7 DEF RaiseBarrier, Commit
    <2>2. /\ EndHold(Existing, "Quarantined") \in LeaseRows
          /\ EndHold(Existing, "Quarantined").status = "Quarantined"
          /\ EndHold(Existing, "Quarantined").generation = lease.generation
          /\ EndHold(Existing, "Quarantined").fencing = lease.fencing
      BY <1>2, EndHoldType DEF Statuses
    <2>3. /\ lease'.status = "Quarantined"
          /\ lease'.generation = lease.generation
          /\ lease'.fencing = lease.fencing + 1
      BY <2>1, <2>2 DEF LeaseRows
    <2> QED BY <1>1, <2>3 DEF Occupied
  <1>8. ASSUME NEW b \in barriers, ResolveQuarantine(b, idle)
        PROVE  idle /\ lease'.fencing = lease.fencing
    <2>1. /\ idle
          /\ lease' = [lease EXCEPT !.revision = @ + 1, !.status = "Released",
                                    !.qtoken = 0]
      BY <1>8 DEF ResolveQuarantine, Commit
    <2> QED BY <1>1, <2>1 DEF LeaseRows
  <1>9. CASE Tick
    BY <1>1, <1>9 DEF Tick
  <1> QED
    BY <1>1, <1>3, <1>4, <1>5, <1>6, <1>7, <1>8, <1>9, StepCases

-----------------------------------------------------------------------------
(* Steps that move no execution from state to state *)

\* The domain and the elements of the table of executions.
LEMMA ExecsType ==
    ASSUME NEW s \in Seq(Executions)
    PROVE  /\ DOMAIN s = 1..Len(s)
           /\ Len(s) \in Nat
           /\ \A i \in DOMAIN s : i \in Nat \ {0} /\ s[i] \in Executions
  OBVIOUS

\* Rewriting one row of the table.
LEMMA RowRewritten ==
    ASSUME NEW s \in Seq(Executions), NEW i \in DOMAIN s,
           NEW e \in Executions, NEW t, t = [s EXCEPT ![i] = e]
    PROVE  /\ t \in Seq(Executions)
           /\ Len(t) = Len(s)
           /\ DOMAIN t = DOMAIN s
           /\ t[i] = e
           /\ \A j \in DOMAIN s : j # i => t[j] = s[j]
  OBVIOUS

\* No execution is started, moved or forgotten, and no revocation taken back.
SameHistory ==
    /\ execs' \in Seq(Executions)
    /\ Len(execs') = Len(execs)
    /\ DOMAIN execs' = DOMAIN execs
    /\ \A i \in DOMAIN execs :
          /\ execs'[i].act = execs[i].act
          /\ execs'[i].generation = execs[i].generation
          /\ execs'[i].fencing = execs[i].fencing
          /\ execs'[i].state = execs[i].state
          /\ execs'[i].abnormal = execs[i].abnormal
          /\ execs[i].revoked => execs'[i].revoked

Sources ==
    [gen : 0..MaxActivations, expires : Nat,
     phase : {"Current", "Decided", "Over"}]

\* The invariant survives such a step if it remembers a new loss by a
\* revocation and keeps the lease of an occupied directory.
LEMMA QuietKeepsInv ==
    ASSUME PhysInv, LeaseInv', SameHistory,
           phys' = phys,
           source' \in Sources, source'.gen >= source.gen, SourceBegins',
           denied' \subseteq Activations, held' \subseteq DOMAIN execs,
           \A act \in lost' :
              \/ act \in lost
              \/ \E i \in DOMAIN execs : execs[i].act = act /\ execs'[i].revoked,
           lease'.fencing >= lease.fencing,
           Unsettled # {} =>
              /\ lease'.generation = lease.generation
              /\ lease.status \in Occupied => lease'.status \in Occupied
    PROVE  PhysInv'
  <1> USE DEF SameHistory
  <1>1. /\ DOMAIN execs = 1..Len(execs)
        /\ \A i \in DOMAIN execs : execs[i] \in Executions
    BY ExecsType DEF PhysInv, PhysTypeOK
  <1>2. Unsettled' = Unsettled
    BY DEF Unsettled
  <1>3. PhysicalExclusion'
    BY <1>2 DEF PhysInv, PhysicalExclusion, Unsettled, Occupied
  <1>4. QuarantineMeansDoubt'
    BY DEF PhysInv, QuarantineMeansDoubt
  <1>5. OneAfterAnother'
    <2>1. \A i \in DOMAIN execs : execs[i].act \in Nat
      BY <1>1 DEF Executions, Activations
    <2>2. source.gen \in Nat /\ source'.gen \in Nat
      BY PhysicalAssumption DEF PhysInv, PhysTypeOK, Sources
    <2> QED BY <1>2, <2>1, <2>2 DEF PhysInv, OneAfterAnother
  <1>6. AbnormalRevoked'
    BY DEF PhysInv, AbnormalRevoked
  <1>7. LossIsDurable'
    BY DEF PhysInv, LossIsDurable, ExecsOf
  <1>8. ExecsBehind'
    <2>1. \A i \in DOMAIN execs : execs[i].fencing \in Nat
      BY <1>1 DEF Executions
    <2>2. lease.fencing \in Nat /\ lease'.fencing \in Nat
      BY DEF PhysInv, LeaseInv, LeaseTypeOK, LeaseRows
    <2> QED BY <2>1, <2>2 DEF PhysInv, ExecsBehind
  <1>9. PhysTypeOK'
    <2>1. lost' \subseteq Activations
      BY <1>1 DEF PhysInv, PhysTypeOK, Executions
    <2> QED BY <2>1 DEF PhysInv, PhysTypeOK, LeaseInv, Sources
  <1> QED
    BY <1>3, <1>4, <1>5, <1>6, <1>7, <1>8, <1>9 DEF PhysInv

\* A table that is left alone keeps its history.
LEMMA UntouchedIsSame ==
    ASSUME PhysInv, execs' = execs
    PROVE  SameHistory
  BY DEF SameHistory, PhysInv, PhysTypeOK

\* A row with one column rewritten.
LEMMA ExecUpdate ==
    ASSUME NEW e \in Executions
    PROVE  /\ \A v \in ExecStates : [e EXCEPT !.state = v] \in Executions
           /\ \A v \in AttemptStates : [e EXCEPT !.provider = v] \in Executions
           /\ \A v \in BOOLEAN : [e EXCEPT !.revoked = v] \in Executions
           /\ \A v \in BOOLEAN : [e EXCEPT !.abnormal = v] \in Executions
  <1>1. \A v \in ExecStates : [e EXCEPT !.state = v] \in Executions
    BY DEF Executions
  <1>2. \A v \in AttemptStates : [e EXCEPT !.provider = v] \in Executions
    BY DEF Executions
  <1>3. \A v \in BOOLEAN : [e EXCEPT !.revoked = v] \in Executions
    BY DEF Executions
  <1>4. \A v \in BOOLEAN : [e EXCEPT !.abnormal = v] \in Executions
    BY DEF Executions
  <1> QED BY <1>1, <1>2, <1>3, <1>4

\* Rewriting a row by one that differs in provider or by a revocation.
LEMMA RewriteIsSame ==
    ASSUME PhysInv, NEW i \in DOMAIN execs, NEW e \in Executions,
           execs' = [execs EXCEPT ![i] = e],
           e.act = execs[i].act, e.generation = execs[i].generation,
           e.fencing = execs[i].fencing, e.state = execs[i].state,
           e.abnormal = execs[i].abnormal, execs[i].revoked => e.revoked
    PROVE  SameHistory /\ execs'[i] = e
  <1>1. execs \in Seq(Executions)
    BY DEF PhysInv, PhysTypeOK
  <1>2. /\ execs' \in Seq(Executions)
        /\ Len(execs') = Len(execs)
        /\ DOMAIN execs' = DOMAIN execs
        /\ execs'[i] = e
        /\ \A j \in DOMAIN execs : j # i => execs'[j] = execs[j]
    BY <1>1, RowRewritten
  <1> QED BY <1>2 DEF SameHistory

\* revokePublication.
LEMMA RevokeIsSame ==
    ASSUME PhysInv, NEW i \in DOMAIN execs, execs' = Revoke(i)
    PROVE  SameHistory /\ execs'[i].revoked
  <1> DEFINE e == [execs[i] EXCEPT !.revoked = TRUE]
  <1>1. execs[i] \in Executions
    BY ExecsType DEF PhysInv, PhysTypeOK
  <1>2. e \in Executions
    BY <1>1, ExecUpdate
  <1>3. /\ e.act = execs[i].act /\ e.generation = execs[i].generation
        /\ e.fencing = execs[i].fencing /\ e.state = execs[i].state
        /\ e.abnormal = execs[i].abnormal /\ e.revoked
    BY <1>1 DEF Executions
  <1>4. execs' = [execs EXCEPT ![i] = e]
    BY DEF Revoke
  <1> HIDE DEF e
  <1> QED BY <1>2, <1>3, <1>4, RewriteIsSame

\* The settlement of a ProviderAttempt.
LEMMA SettleIsSame ==
    ASSUME PhysInv, NEW i \in DOMAIN execs, NEW status \in AttemptStates,
           SettleAttempt(i, status)
    PROVE  SameHistory
  <1> DEFINE e == [execs[i] EXCEPT !.provider = status]
  <1>1. execs[i] \in Executions
    BY ExecsType DEF PhysInv, PhysTypeOK
  <1>2. e \in Executions
    BY <1>1, ExecUpdate
  <1>3. /\ e.act = execs[i].act /\ e.generation = execs[i].generation
        /\ e.fencing = execs[i].fencing /\ e.state = execs[i].state
        /\ e.abnormal = execs[i].abnormal /\ e.revoked = execs[i].revoked
    BY <1>1 DEF Executions
  <1>4. execs' = [execs EXCEPT ![i] = e]
    BY DEF SettleAttempt
  <1> HIDE DEF e
  <1> QED BY <1>2, <1>3, <1>4, RewriteIsSame

\* A step that leaves the lease, the source Run, the losses and the history
\* of executions alone.
LEMMA LocalKeepsInv ==
    ASSUME PhysInv, SameHistory, UNCHANGED <<leaseVars, phys, source, lost>>,
           denied' \subseteq Activations, held' \subseteq DOMAIN execs
    PROVE  PhysInv'
  <1>1. LeaseInv'
    BY InvStep DEF PhysInv
  <1>2. source \in Sources /\ source.gen \in Nat
    BY PhysicalAssumption DEF PhysInv, PhysTypeOK, Sources
  <1>3. lease' = lease /\ lease.fencing \in Nat
    BY DEF leaseVars, PhysInv, LeaseInv, LeaseTypeOK, LeaseRows
  <1>4. source'.gen >= source.gen /\ lease'.fencing >= lease.fencing
    BY <1>2, <1>3
  <1>5. SourceBegins'
    BY DEF PhysInv, SourceBegins
  <1> QED BY <1>1, <1>2, <1>3, <1>4, <1>5, QuietKeepsInv

\* assertActivationWriterAuthority throws.
LEMMA LossKeepsInv ==
    ASSUME PhysInv, NEW act, NEW stopped, NEW decision,
           LoseAuthority(act, stopped, decision)
    PROVE  PhysInv'
  <1>1. PICK i \in ExecsOf(act) : execs' = Revoke(i)
    BY DEF LoseAuthority
  <1>2. i \in DOMAIN execs /\ execs[i].act = act
    BY DEF ExecsOf
  <1>3. SameHistory /\ execs'[i].revoked
    BY <1>1, <1>2, RevokeIsSame
  <1>4. GetLease \/ UNCHANGED leaseVars
    BY LossOnLease
  <1>5. LeaseInv'
    BY <1>4, GetLeaseIsStep, InvStep DEF PhysInv
  <1>6. LeaseTypeOK /\ lease.fencing \in Nat
    BY DEF PhysInv, LeaseInv, LeaseTypeOK, LeaseRows
  <1>7. /\ lease'.fencing >= lease.fencing
        /\ lease'.generation = lease.generation
        /\ lease.status \in Occupied => lease'.status \in Occupied
    BY <1>4, <1>6, ExpiryMoves DEF GetLease, leaseVars
  <1>8. source \in Sources /\ source.gen \in Nat
    BY PhysicalAssumption DEF PhysInv, PhysTypeOK, Sources
  <1>9. /\ phys' = phys /\ source' = source /\ denied' = denied /\ held' = held
        /\ lost' = lost \cup {act}
    BY DEF LoseAuthority
  <1>10. source'.gen >= source.gen /\ SourceBegins'
    BY <1>8, <1>9 DEF PhysInv, SourceBegins
  <1>11. denied' \subseteq Activations /\ held' \subseteq DOMAIN execs
    BY <1>9 DEF PhysInv, PhysTypeOK
  <1> QED
    BY <1>2, <1>3, <1>5, <1>7, <1>8, <1>9, <1>10, <1>11, QuietKeepsInv

-----------------------------------------------------------------------------
(* Steps that start an execution or move one from state to state *)

\* The row that recordState writes.
LEMMA RecordedRow ==
    ASSUME NEW e \in Executions, NEW state \in ExecStates,
           NEW revoke \in BOOLEAN
    PROVE  /\ Recorded(e, state, revoke) \in Executions
           /\ Recorded(e, state, revoke).act = e.act
           /\ Recorded(e, state, revoke).generation = e.generation
           /\ Recorded(e, state, revoke).fencing = e.fencing
           /\ Recorded(e, state, revoke).state = state
           /\ (e.revoked \/ state \in Abnormal) =>
                 Recorded(e, state, revoke).revoked
           /\ Recorded(e, state, revoke).abnormal =>
                 e.abnormal \/ state \in Abnormal
  <1> DEFINE r == e.revoked \/ revoke \/ state \in Abnormal
             b == e.abnormal \/ state \in Abnormal
  <1>1. r \in BOOLEAN /\ b \in BOOLEAN
    BY Zenon DEF Executions
  <1>2. Recorded(e, state, revoke)
           = [e EXCEPT !.state = state, !.revoked = r, !.abnormal = b]
    BY DEF Recorded
  <1> HIDE DEF r, b
  <1>3. [[[e EXCEPT !.state = state] EXCEPT !.revoked = r]
            EXCEPT !.abnormal = b] \in Executions
    BY <1>1, ExecUpdate, Zenon
  <1>4. Recorded(e, state, revoke) \in Executions
    BY <1>2, <1>3
  <1>5. /\ Recorded(e, state, revoke).act = e.act
        /\ Recorded(e, state, revoke).generation = e.generation
        /\ Recorded(e, state, revoke).fencing = e.fencing
        /\ Recorded(e, state, revoke).state = state
        /\ Recorded(e, state, revoke).revoked = r
        /\ Recorded(e, state, revoke).abnormal = b
    BY <1>2 DEF Executions
  <1> QED BY <1>4, <1>5 DEF r, b

\* recordState moves the one unsettled execution along an allowed edge.
LEMMA RecordKeepsInv ==
    ASSUME PhysInv, NEW i \in DOMAIN execs, NEW state \in ExecStates,
           NEW revoke \in BOOLEAN, state \in Allowed(execs[i].state),
           RecordState(i, state, revoke),
           UNCHANGED <<leaseVars, source, denied, held, lost>>
    PROVE  PhysInv'
  <1> DEFINE e == Recorded(execs[i], state, revoke)
  <1>1. /\ execs \in Seq(Executions)
        /\ execs[i] \in Executions
        /\ DOMAIN execs = 1..Len(execs)
    BY ExecsType DEF PhysInv, PhysTypeOK
  <1>2. /\ e \in Executions
        /\ e.act = execs[i].act
        /\ e.generation = execs[i].generation
        /\ e.fencing = execs[i].fencing
        /\ e.state = state
        /\ execs[i].revoked \/ state \in Abnormal => e.revoked
        /\ e.abnormal => execs[i].abnormal \/ state \in Abnormal
    BY <1>1, RecordedRow
  <1>3. execs' = [execs EXCEPT ![i] = e]
    BY DEF RecordState
  <1> HIDE DEF e
  <1>4. /\ execs' \in Seq(Executions)
        /\ Len(execs') = Len(execs)
        /\ DOMAIN execs' = DOMAIN execs
        /\ execs'[i] = e
        /\ \A j \in DOMAIN execs : j # i => execs'[j] = execs[j]
    BY <1>1, <1>2, <1>3, RowRewritten
  <1>5. execs[i].state \notin Stopped
    BY DEF Allowed, Stopped
  <1>6. /\ i \in Unsettled
        /\ Unsettled = {i}
        /\ i = Len(execs)
        /\ lease.generation = execs[i].generation
        /\ lease.status \in Occupied
    BY <1>5 DEF Unsettled, PhysInv, PhysicalExclusion, OneAfterAnother, Occupied
  <1>7. \A j \in DOMAIN execs : j # i => execs[j].state \in Stopped
    BY <1>6 DEF Unsettled
  <1>8. Unsettled' \subseteq {i}
    BY <1>4, <1>7 DEF Unsettled
  <1>9. lease' = lease /\ source' = source /\ lost' = lost
    BY DEF leaseVars
  <1>10. LeaseInv'
    BY InvStep DEF PhysInv
  <1>11. PhysTypeOK'
    <2>1. phys' \in {"None", "Ready", "Quarantined"}
      BY DEF RecordState, PhysInv, PhysTypeOK
    <2> QED BY <1>4, <1>10, <2>1 DEF PhysInv, PhysTypeOK, LeaseInv
  <1>12. PhysicalExclusion'
    BY <1>2, <1>4, <1>6, <1>8, <1>9 DEF PhysicalExclusion, Occupied
  <1>13. QuarantineMeansDoubt'
    <2>1. \A j \in DOMAIN execs : j # i => execs'[j].state # "Uncertain"
      BY <1>4, <1>7 DEF Stopped
    <2>2. CASE state = "Uncertain"
      <3>1. phys' = "Quarantined"
        BY <2>2 DEF RecordState, Stopped
      <3> QED BY <1>2, <1>4, <2>2, <3>1 DEF QuarantineMeansDoubt
    <2>3. CASE state \in Stopped
      BY <1>2, <1>4, <2>1, <2>3
         DEF RecordState, QuarantineMeansDoubt, Stopped
    <2>4. CASE state \notin Stopped \cup {"Uncertain"}
      <3>1. phys' = phys
        BY <2>4 DEF RecordState
      <3>2. execs[i].state # "Uncertain"
        BY <2>4 DEF Allowed, Stopped
      <3>3. phys # "Quarantined"
        BY <1>7, <3>2 DEF PhysInv, QuarantineMeansDoubt, Stopped
      <3> QED BY <1>2, <1>4, <2>1, <2>4, <3>1, <3>3 DEF QuarantineMeansDoubt
    <2> QED BY <2>2, <2>3, <2>4
  <1>14. OneAfterAnother'
    <2>1. \A j \in DOMAIN execs : execs'[j].act = execs[j].act
      BY <1>2, <1>4
    <2> QED BY <1>4, <1>6, <1>8, <1>9, <2>1 DEF PhysInv, OneAfterAnother
  <1>15. AbnormalRevoked'
    BY <1>2, <1>4 DEF PhysInv, AbnormalRevoked
  <1>16. LossIsDurable'
    <2>1. \A j \in DOMAIN execs : /\ execs'[j].act = execs[j].act
                                  /\ execs[j].revoked => execs'[j].revoked
      BY <1>2, <1>4
    <2> QED BY <1>4, <1>9, <2>1 DEF PhysInv, LossIsDurable, ExecsOf
  <1>17. ExecsBehind' /\ SourceBegins'
    BY <1>2, <1>4, <1>9 DEF PhysInv, ExecsBehind, SourceBegins
  <1> QED
    BY <1>10, <1>11, <1>12, <1>13, <1>14, <1>15, <1>16, <1>17 DEF PhysInv

\* StartWorktreeExecution adds the only unsettled execution, under the lease
\* of this moment and for the Activation of this moment.
LEMMA StartKeepsInv ==
    ASSUME PhysInv, NEW p \in Principals, NEW a \in grants,
           NEW provider \in AttemptStates, StartExecution(p, a, provider)
    PROVE  PhysInv'
  <1> DEFINE e == [act |-> source.gen, owner |-> p, generation |-> a.generation,
                   fencing |-> a.fencing, provider |-> provider,
                   state |-> "Starting", revoked |-> FALSE, abnormal |-> FALSE]
             n == Len(execs) + 1
  <1>1. /\ execs \in Seq(Executions)
        /\ DOMAIN execs = 1..Len(execs)
        /\ Len(execs) \in Nat
        /\ \A i \in DOMAIN execs : execs[i] \in Executions
    BY ExecsType DEF PhysInv, PhysTypeOK
  <1>2. /\ phys # "Quarantined"
        /\ Unsettled = {}
        /\ Passes(source.gen, FALSE, FALSE)
        /\ lease.status = "Active"
        /\ lease.generation = a.generation
        /\ lease.fencing = a.fencing
        /\ execs' = Append(execs, e)
        /\ held' = held \cup {n}
        /\ UNCHANGED <<leaseVars, phys, source, denied, lost>>
    BY DEF StartExecution, Idle, Accepts
  <1>3. a.generation \in Nat /\ a.fencing \in Nat
    BY DEF PhysInv, LeaseInv, LeaseTypeOK, Authorities
  <1>4. source.gen \in Activations
    <2>1. source.gen \in 0..MaxActivations /\ source.gen \in Nat
      BY PhysicalAssumption DEF PhysInv, PhysTypeOK
    <2>2. source.gen # 0
      BY DEF StartExecution, SourceLive, PhysInv, SourceBegins
    <2> QED BY <2>1, <2>2 DEF Activations
  <1>5. /\ e \in Executions
        /\ e.act = source.gen
        /\ e.generation = lease.generation
        /\ e.fencing = lease.fencing
        /\ e.state = "Starting"
        /\ ~e.abnormal
    BY <1>2, <1>3, <1>4 DEF Executions, ExecStates
  <1> HIDE DEF e
  <1>6. /\ execs' \in Seq(Executions)
        /\ Len(execs') = n
        /\ DOMAIN execs' = 1..n
        /\ n \in Nat \ DOMAIN execs
        /\ DOMAIN execs' = DOMAIN execs \cup {n}
        /\ execs'[n] = e
        /\ \A i \in DOMAIN execs : execs'[i] = execs[i]
    BY <1>1, <1>2, <1>5
  <1> HIDE DEF n
  <1>7. \A i \in DOMAIN execs : execs[i].state \in Stopped
    BY <1>2 DEF Unsettled
  <1>8. Unsettled' \subseteq {n}
    BY <1>6, <1>7 DEF Unsettled
  <1>9. lease' = lease /\ phys' = phys /\ source' = source /\ lost' = lost
    BY <1>2 DEF leaseVars
  <1>10. LeaseInv'
    BY <1>2, InvStep DEF PhysInv
  <1>11. PhysTypeOK'
    BY <1>2, <1>6, <1>10 DEF PhysInv, PhysTypeOK, LeaseInv
  <1>12. PhysicalExclusion'
    BY <1>2, <1>5, <1>6, <1>8, <1>9 DEF PhysicalExclusion
  <1>13. QuarantineMeansDoubt'
    <2>1. \A i \in DOMAIN execs' : execs'[i].state # "Uncertain"
      BY <1>5, <1>6, <1>7 DEF Stopped
    <2> QED BY <1>2, <1>9, <2>1 DEF QuarantineMeansDoubt
  <1>14. OneAfterAnother'
    <2>1. source.gen <= source.gen
      BY <1>4, PhysicalAssumption DEF Activations
    <2>2. ASSUME NEW i \in DOMAIN execs', NEW j \in DOMAIN execs', i < j
          PROVE  execs'[i].act <= execs'[j].act
      <3>1. i \in DOMAIN execs
        <4>1. j \in 1..n /\ n \in Nat /\ i \in Nat
          BY <1>6
        <4>2. i # n
          BY <2>2, <4>1
        <4> QED BY <1>6, <4>2
      <3>2. CASE j = n
        BY <1>5, <1>6, <3>1, <3>2 DEF PhysInv, OneAfterAnother
      <3>3. CASE j \in DOMAIN execs
        BY <1>6, <2>2, <3>1, <3>3 DEF PhysInv, OneAfterAnother
      <3> QED BY <1>6, <3>2, <3>3
    <2>3. \A i \in DOMAIN execs' : execs'[i].act <= source.gen
      BY <1>5, <1>6, <2>1 DEF PhysInv, OneAfterAnother
    <2> QED BY <1>6, <1>8, <1>9, <2>2, <2>3 DEF OneAfterAnother
  <1>15. AbnormalRevoked'
    BY <1>5, <1>6 DEF PhysInv, AbnormalRevoked
  <1>16. LossIsDurable'
    BY <1>6, <1>9 DEF PhysInv, LossIsDurable, ExecsOf
  <1>17. ExecsBehind' /\ SourceBegins'
    <2>1. lease.fencing <= lease.fencing
      BY <1>2, <1>3
    <2> QED BY <1>5, <1>6, <1>9, <2>1 DEF PhysInv, ExecsBehind, SourceBegins
  <1> QED
    BY <1>10, <1>11, <1>12, <1>13, <1>14, <1>15, <1>16, <1>17 DEF PhysInv

-----------------------------------------------------------------------------
(* The invariant and the theorems *)

\* Lease commands: the directory stays as it is.
LEMMA LeaseKeepsInv ==
    ASSUME PhysInv, LeaseStep(Idle), UNCHANGED physVars
    PROVE  PhysInv'
  <1>1. LeaseTypeOK
    BY DEF PhysInv, LeaseInv
  <1>2. LeaseInv'
    BY IdleIsBoolean, InvStep DEF PhysInv, LeaseNext
  <1>3. /\ lease'.fencing >= lease.fencing
        /\ Idle \/ /\ lease'.generation = lease.generation
                   /\ lease.status \in Occupied => lease'.status \in Occupied
    BY <1>1, IdleIsBoolean, LeaseMoves
  <1>4. Unsettled # {} => ~Idle
    BY DEF Idle
  <1>5. source \in Sources /\ source.gen \in Nat
    BY PhysicalAssumption DEF PhysInv, PhysTypeOK, Sources
  <1>6. /\ execs' = execs /\ phys' = phys /\ source' = source
        /\ denied' = denied /\ held' = held /\ lost' = lost
    BY DEF physVars
  <1>7. source'.gen >= source.gen /\ SourceBegins'
    BY <1>5, <1>6 DEF PhysInv, SourceBegins
  <1>8. SameHistory
    BY <1>6, UntouchedIsSame
  <1>9. denied' \subseteq Activations /\ held' \subseteq DOMAIN execs
    BY <1>6 DEF PhysInv, PhysTypeOK
  <1> QED
    BY <1>2, <1>3, <1>4, <1>5, <1>6, <1>7, <1>8, <1>9, QuietKeepsInv

\* Steps of the source Run.
LEMMA SourceKeepsInv ==
    ASSUME PhysInv, UNCHANGED <<leaseVars, phys, execs, denied, held, lost>>,
           source' \in Sources, source'.gen >= source.gen, SourceBegins'
    PROVE  PhysInv'
  <1>1. LeaseInv'
    BY InvStep DEF PhysInv
  <1>2. lease' = lease /\ lease.fencing \in Nat
    BY DEF leaseVars, PhysInv, LeaseInv, LeaseTypeOK, LeaseRows
  <1>3. SameHistory
    BY UntouchedIsSame
  <1>4. denied' \subseteq Activations /\ held' \subseteq DOMAIN execs
    BY DEF PhysInv, PhysTypeOK
  <1>5. lease'.fencing >= lease.fencing
    BY <1>2
  <1> QED BY <1>1, <1>2, <1>3, <1>4, <1>5, QuietKeepsInv

\* The commands of executions.
LEMMA ExecutionKeepsInv ==
    ASSUME PhysInv, ExecutionStep
    PROVE  PhysInv'
  <1>1. CASE Register
    <2>1. /\ phys = "None" /\ phys' = "Ready" /\ execs' = execs
          /\ UNCHANGED <<leaseVars, source, denied, held, lost>>
      BY <1>1 DEF Register
    <2>2. LeaseInv'
      BY <2>1, InvStep DEF PhysInv
    <2>3. QuarantineMeansDoubt'
      BY <2>1 DEF PhysInv, QuarantineMeansDoubt
    <2>4. lease' = lease
      BY <2>1 DEF leaseVars
    <2> QED
      BY <2>1, <2>2, <2>3, <2>4
         DEF PhysInv, PhysTypeOK, LeaseInv, PhysicalExclusion, Unsettled,
             OneAfterAnother, AbnormalRevoked, LossIsDurable, ExecsOf,
             ExecsBehind, SourceBegins
  <1>2. ASSUME NEW p \in Principals, NEW a \in grants,
               NEW provider \in AttemptStates, StartExecution(p, a, provider)
        PROVE  PhysInv'
    BY <1>2, StartKeepsInv
  <1>3. CASE StartExecutionRefused
    BY <1>3, LossKeepsInv DEF StartExecutionRefused
  <1>4. ASSUME NEW i \in DOMAIN execs, NEW state \in ExecStates,
               NEW preserve \in BOOLEAN, RecordExecution(i, state, preserve)
        PROVE  PhysInv'
    <2>1. PICK revoke \in BOOLEAN :
             revoke = (state = "StopRequested" /\ ~preserve)
      OBVIOUS
    <2>2. /\ state \in Allowed(execs[i].state)
          /\ RecordState(i, state, revoke)
          /\ UNCHANGED <<leaseVars, source, denied, held, lost>>
      BY <1>4, <2>1 DEF RecordExecution
    <2> QED BY <2>2, RecordKeepsInv
  <1>5. ASSUME NEW i \in DOMAIN execs, RecoverExecution(i)
        PROVE  PhysInv'
    <2>1. CASE execs[i].state \in Stopped \cup {"Uncertain"}
      <3>1. execs' = Revoke(i)
            /\ UNCHANGED <<leaseVars, phys, source, denied, held, lost>>
        BY <1>5, <2>1 DEF RecoverExecution
      <3>2. SameHistory
        BY <3>1, RevokeIsSame
      <3>3. denied' \subseteq Activations /\ held' \subseteq DOMAIN execs
        BY <3>1 DEF PhysInv, PhysTypeOK
      <3> QED BY <3>1, <3>2, <3>3, LocalKeepsInv
    <2>2. CASE execs[i].state \notin Stopped \cup {"Uncertain"}
      <3>1. /\ RecordState(i, "Uncertain", TRUE)
            /\ UNCHANGED <<leaseVars, source, denied, held, lost>>
        BY <1>5, <2>2 DEF RecoverExecution
      <3>2. execs[i].state \in ExecStates
        BY ExecsType DEF PhysInv, PhysTypeOK, Executions
      <3>3. "Uncertain" \in Allowed(execs[i].state) /\ "Uncertain" \in ExecStates
        BY <2>2, <3>2 DEF Allowed, ExecStates, Stopped
      <3> QED BY <3>1, <3>3, RecordKeepsInv
    <2> QED BY <2>1, <2>2
  <1>6. ASSUME NEW i \in DOMAIN execs, RevokeExecutionAuthority(i)
        PROVE  PhysInv'
    <2>1. execs' = Revoke(i)
          /\ UNCHANGED <<leaseVars, phys, source, denied, held, lost>>
      BY <1>6 DEF RevokeExecutionAuthority
    <2>2. SameHistory
      BY <2>1, RevokeIsSame
    <2>3. denied' \subseteq Activations /\ held' \subseteq DOMAIN execs
      BY <2>1 DEF PhysInv, PhysTypeOK
    <2> QED BY <2>1, <2>2, <2>3, LocalKeepsInv
  <1>7. ASSUME NEW i \in DOMAIN execs, RevokeLocal(i)
        PROVE  PhysInv'
    <2>1. /\ denied' = denied \cup {execs[i].act}
          /\ UNCHANGED <<leaseVars, phys, execs, source, held, lost>>
      BY <1>7 DEF RevokeLocal
    <2>2. execs[i].act \in Activations
      BY ExecsType DEF PhysInv, PhysTypeOK, Executions
    <2>3. denied' \subseteq Activations /\ held' \subseteq DOMAIN execs
      BY <2>1, <2>2 DEF PhysInv, PhysTypeOK
    <2> QED BY <2>1, <2>3, UntouchedIsSame, LocalKeepsInv
  <1>8. ASSUME NEW i \in DOMAIN execs, NEW p, NEW a, ReplayStart(i, p, a)
        PROVE  PhysInv'
    <2>1. /\ held' = held \cup {i}
          /\ UNCHANGED <<leaseVars, phys, execs, source, denied, lost>>
      BY <1>8 DEF ReplayStart
    <2>2. denied' \subseteq Activations /\ held' \subseteq DOMAIN execs
      BY <2>1 DEF PhysInv, PhysTypeOK
    <2> QED BY <2>1, <2>2, UntouchedIsSame, LocalKeepsInv
  <1>9. CASE Crash
    BY <1>9, UntouchedIsSame, LocalKeepsInv DEF Crash
  <1> QED
    BY <1>1, <1>2, <1>3, <1>4, <1>5, <1>6, <1>7, <1>8, <1>9 DEF ExecutionStep

\* The gates and the source Run.
LEMMA GateKeepsInv ==
    ASSUME PhysInv, GateStep \/ SourceStep
    PROVE  PhysInv'
  <1>1. /\ source \in Sources
        /\ source.gen \in Nat
        /\ source.gen \in 0..MaxActivations
    BY PhysicalAssumption DEF PhysInv, PhysTypeOK, Sources
  <1>2. ASSUME NEW i \in DOMAIN execs,
               MutationRefused(i) \/ PublicationRefused(i)
                  \/ AcknowledgeRefused(i)
        PROVE  PhysInv'
    BY <1>2, LossKeepsInv
       DEF MutationRefused, PublicationRefused, AcknowledgeRefused
  <1>3. ASSUME NEW i \in DOMAIN execs, CompleteAttempt(i) \/ LoseAttempt(i)
        PROVE  PhysInv'
    <2>1. PICK status \in AttemptStates : SettleAttempt(i, status)
      BY <1>3 DEF CompleteAttempt, LoseAttempt, AttemptStates
    <2>2. UNCHANGED <<leaseVars, phys, source, denied, held, lost>>
      BY <2>1 DEF SettleAttempt
    <2>3. denied' \subseteq Activations /\ held' \subseteq DOMAIN execs
      BY <2>2 DEF PhysInv, PhysTypeOK
    <2> QED BY <2>1, <2>2, <2>3, SettleIsSame, LocalKeepsInv
  <1>4. ASSUME NEW act \in Activations,
               WriterCommandRefused(act) \/ CompleteRefused(act)
                  \/ SuccessRefused(act)
        PROVE  PhysInv'
    BY <1>4, LossKeepsInv
       DEF WriterCommandRefused, CompleteRefused, SuccessRefused
  <1>5. ASSUME NEW act \in Activations, Decide(act, TRUE) \/ Decide(act, FALSE)
        PROVE  PhysInv'
    <2>1. /\ source' = [source EXCEPT !.phase = "Decided"]
          /\ source.phase = "Current"
          /\ UNCHANGED <<leaseVars, phys, execs, denied, held, lost>>
      BY <1>5 DEF Decide, SourceLive
    <2>2. source' \in Sources /\ source'.gen = source.gen
      BY <1>1, <2>1 DEF Sources
    <2>3. source'.gen >= source.gen
      BY <1>1, <2>2
    <2>4. SourceBegins'
      BY <2>1, <2>2 DEF PhysInv, SourceBegins
    <2> QED BY <2>1, <2>2, <2>3, <2>4, SourceKeepsInv
  <1>6. ASSUME \/ \E act \in Activations : FinishActivation(act)
               \/ EndSource
        PROVE  PhysInv'
    <2>1. /\ source' = [source EXCEPT !.phase = "Over", !.expires = 0]
          /\ UNCHANGED <<leaseVars, phys, execs, denied, held, lost>>
      BY <1>6 DEF FinishActivation, EndSource
    <2>2. source' = [[source EXCEPT !.phase = "Over"] EXCEPT !.expires = 0]
      BY <2>1
    <2>3. /\ source' \in Sources
          /\ source'.gen = source.gen
          /\ source'.phase = "Over"
      BY <1>1, <2>2 DEF Sources
    <2>4. source'.gen >= source.gen /\ SourceBegins'
      BY <1>1, <2>3 DEF SourceBegins
    <2> QED BY <2>1, <2>3, <2>4, SourceKeepsInv
  <1>7. ASSUME NEW d \in Durations, Activate(d)
        PROVE  PhysInv'
    <2>1. /\ source.gen < MaxActivations
          /\ source' = [gen |-> source.gen + 1, expires |-> clock + d,
                        phase |-> "Current"]
          /\ UNCHANGED <<leaseVars, phys, execs, denied, held, lost>>
      BY <1>7 DEF Activate
    <2>2. clock + d \in Nat
      BY LeaseAssumption DEF PhysInv, PhysTypeOK, LeaseTypeOK
    <2>3. source.gen + 1 \in 0..MaxActivations /\ source.gen + 1 >= source.gen
          /\ source.gen + 1 # 0
      BY <1>1, <2>1, PhysicalAssumption
    <2>4. source' \in Sources /\ source'.gen = source.gen + 1
      BY <2>1, <2>2, <2>3 DEF Sources
    <2>5. SourceBegins'
      BY <2>3, <2>4 DEF SourceBegins
    <2> QED BY <2>1, <2>3, <2>4, <2>5, SourceKeepsInv
  <1> QED
    BY <1>2, <1>3, <1>4, <1>5, <1>6, <1>7 DEF GateStep, SourceStep

\* Every step of the composition keeps the invariant.
LEMMA PhysInvStep ==
    ASSUME PhysInv, [Next]_vars
    PROVE  PhysInv'
  <1>1. CASE LeaseStep(Idle) /\ UNCHANGED physVars
    BY <1>1, LeaseKeepsInv
  <1>2. CASE ExecutionStep
    BY <1>2, ExecutionKeepsInv
  <1>3. CASE GateStep \/ SourceStep
    BY <1>3, GateKeepsInv
  <1>4. CASE UNCHANGED vars
    <2>1. UNCHANGED <<leaseVars, phys, execs, source, denied, held, lost>>
      BY <1>4 DEF vars, leaseVars
    <2>2. denied' \subseteq Activations /\ held' \subseteq DOMAIN execs
      BY <2>1 DEF PhysInv, PhysTypeOK
    <2> QED BY <2>1, <2>2, UntouchedIsSame, LocalKeepsInv
  <1> QED BY <1>1, <1>2, <1>3, <1>4 DEF Next

\* The inductive invariant holds of every behaviour of the composition.
THEOREM PhysInvariant == Spec => []PhysInv
  <1>1. Init => PhysInv
    <2> SUFFICES ASSUME Init PROVE PhysInv
      OBVIOUS
    <2>1. LeaseInv
      BY LeaseAssumption
         DEF Init, LeaseInit, LeaseInv, LeaseTypeOK, AbsentRow, LeaseRows,
             Statuses, NothingAhead, HoldIsNewest
    <2>2. execs = << >> /\ DOMAIN execs = {} /\ phys = "None" /\ lost = {}
      BY DEF Init
    <2>3. source \in Sources /\ SourceBegins
      BY PhysicalAssumption DEF Init, Sources, SourceBegins
    <2>4. PhysTypeOK
      BY <2>1, <2>2, <2>3 DEF Init, PhysTypeOK, LeaseInv, Sources
    <2> QED
      BY <2>1, <2>2, <2>3, <2>4
         DEF PhysInv, PhysicalExclusion, Unsettled, QuarantineMeansDoubt,
             OneAfterAnother, AbnormalRevoked, LossIsDurable, ExecsBehind
  <1>2. PhysInv /\ [Next]_vars => PhysInv'
    BY PhysInvStep
  <1> QED BY <1>1, <1>2, PTL DEF Spec

\* Expiry, quarantine, a crash of the executor or another Runtime never lets a
\* second writer into a directory whose writer is not known to have stopped.
THEOREM PhysicalExclusionHolds == Spec => []PhysicalExclusion
  <1>1. PhysInv => PhysicalExclusion
    BY DEF PhysInv
  <1> QED BY <1>1, PhysInvariant, PTL

\* The directory is quarantined exactly while an execution is in doubt.
THEOREM QuarantineMeansDoubtHolds == Spec => []QuarantineMeansDoubt
  <1>1. PhysInv => QuarantineMeansDoubt
    BY DEF PhysInv
  <1> QED BY <1>1, PhysInvariant, PTL

\* An Activation once told that its authority is lost has a revoked execution
\* in the database, so no gate lets it pass again, restart or not.
THEOREM AuthorityLossIsFinalHolds == Spec => []AuthorityLossIsFinal
  <1>1. PhysInv => AuthorityLossIsFinal
    BY DEF PhysInv, LossIsDurable, AuthorityLossIsFinal, Passes,
           ExecAuthorized, ExecStands
  <1> QED BY <1>1, PhysInvariant, PTL

\* Success is published only over a quiet directory that saw no abnormal end
\* of the Activation's own executions.
THEOREM CleanPublicationHolds == Spec => []CleanPublication
  <1>1. ASSUME PhysInv PROVE CleanPublication
    <2> SUFFICES ASSUME NEW act \in Activations, NEW decision \in BOOLEAN,
                        NEW e \in ExecsOf(act), Passes(act, TRUE, decision)
                 PROVE  Idle /\ \A i \in ExecsOf(act) : ~execs[i].abnormal
      BY DEF CleanPublication
    <2>1. ASSUME NEW i \in ExecsOf(act)
          PROVE  /\ ~execs[i].revoked
                 /\ phys = "Ready"
                 /\ execs[i].state = "StopConfirmed"
                 /\ source.gen = act
      <3>1. ExecAuthorized(i, TRUE, decision) /\ execs[i].act = act
        BY DEF Passes, ExecsOf
      <3>2. ExecStands(i, TRUE, decision)
        BY <3>1 DEF ExecAuthorized
      <3>3. source.gen = act
        BY <3>1 DEF ExecAuthorized, SourceLive, SourceDecided
      <3> QED BY <3>2, <3>3 DEF ExecStands
    <2>2. \A i \in ExecsOf(act) : ~execs[i].abnormal
      BY <1>1, <2>1 DEF PhysInv, AbnormalRevoked, ExecsOf
    <2>3. Unsettled = {}
      <3> SUFFICES ASSUME NEW j \in Unsettled PROVE FALSE
        OBVIOUS
      <3>1. j \in DOMAIN execs /\ execs[j].state \notin Stopped
        BY DEF Unsettled
      <3>2. j = Len(execs)
        BY <1>1 DEF PhysInv, OneAfterAnother
      <3>3. e \in DOMAIN execs /\ execs[e].act = act
        BY DEF ExecsOf
      <3>4. /\ DOMAIN execs = 1..Len(execs)
            /\ Len(execs) \in Nat
            /\ \A i \in DOMAIN execs : execs[i] \in Executions
        BY <1>1, ExecsType DEF PhysInv, PhysTypeOK
      <3>5. e = j \/ e < j
        BY <3>2, <3>3, <3>4
      <3>6. execs[j].act <= act /\ (e < j => act <= execs[j].act)
        BY <1>1, <2>1, <3>1, <3>3 DEF PhysInv, OneAfterAnother
      <3>7. execs[j].act \in Nat /\ act \in Nat
        BY <3>1, <3>4 DEF Executions, Activations
      <3>8. execs[j].act = act
        BY <3>3, <3>5, <3>6, <3>7
      <3> QED BY <2>1, <3>1, <3>8 DEF ExecsOf, Stopped
    <2> QED BY <2>1, <2>2, <2>3 DEF Idle
  <1> QED BY <1>1, PhysInvariant, PTL

\* A mutation is let through for the only unsettled execution, under the
\* newest fencing token.
THEOREM ExclusiveMutationHolds == Spec => []ExclusiveMutation
  <1>1. ASSUME PhysInv PROVE ExclusiveMutation
    <2> SUFFICES ASSUME NEW i \in DOMAIN execs, NEW p \in Principals,
                        NEW a \in grants, MutationAllowed(i, p, a)
                 PROVE  /\ Unsettled = {i}
                        /\ \A j \in DOMAIN execs :
                              execs[j].fencing <= execs[i].fencing
                        /\ \A b \in barriers : b.fencing < execs[i].fencing
      BY DEF ExclusiveMutation
    <2>1. /\ execs[i].state \in {"Starting", "Running"}
          /\ execs[i].fencing = a.fencing
          /\ Accepts(p, a)
      BY DEF MutationAllowed
    <2>2. lease.fencing = a.fencing
      BY <2>1 DEF Accepts
    <2>3. Unsettled = {i}
      BY <1>1, <2>1 DEF PhysInv, PhysicalExclusion, Unsettled, Stopped
    <2>4. NewestAuthority
      BY <1>1 DEF PhysInv, LeaseInv, LeaseTypeOK, NothingAhead, HoldIsNewest,
                  NewestAuthority, Accepts, Authorities, LeaseRows
    <2>5. \A b \in barriers : b.fencing < a.fencing
      BY <2>1, <2>4 DEF NewestAuthority
    <2> QED BY <1>1, <2>1, <2>2, <2>3, <2>5 DEF PhysInv, ExecsBehind
  <1> QED BY <1>1, PhysInvariant, PTL

\* Every column of the directory, the executions and the source Run keeps its
\* type.
THEOREM PhysTypeCorrect == Spec => []PhysTypeOK
  <1>1. PhysInv => PhysTypeOK
    BY DEF PhysInv
  <1> QED BY <1>1, PhysInvariant, PTL
=============================================================================
