----------------------------- MODULE MCLeases -----------------------------
(***************************************************************************)
(* Model-checking instance of the two leases of the Kernel: the writer     *)
(* lease of a Worktree and the delivery lease of the outbox, each          *)
(* contended by two Runtimes.  They share no row and no clock reading, so  *)
(* a behaviour moves one of them, chosen at the start, and leaves the      *)
(* other in its initial state: the states are the sum of the two           *)
(* components, and every behaviour of each is there.                       *)
(***************************************************************************)
EXTENDS WriterLease, Outbox, TLC

VARIABLE subject    \* the component this behaviour is about

vars == <<leaseVars, outboxVars, subject>>

Init ==
    /\ LeaseInit
    /\ OutboxInit
    /\ subject \in {"lease", "outbox"}

Next ==
    \/ /\ subject = "lease"
       /\ LeaseNext
       /\ UNCHANGED <<outboxVars, subject>>
    \/ /\ subject = "outbox"
       /\ OutboxNext
       /\ UNCHANGED <<leaseVars, subject>>

Spec == Init /\ [][Next]_vars

RuntimeSymmetry == Permutations(Principals)
=============================================================================
