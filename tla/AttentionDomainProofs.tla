----------------------- MODULE AttentionDomainProofs -----------------------
(***************************************************************************)
(* Proofs about AttentionDomain for any Attentions, durations, clock and   *)
(* number of leases, Activations and ProviderAttempts.                     *)
(*                                                                         *)
(* The properties of DomainSafety are not inductive: that recovery can     *)
(* settle depends on counters that three triggers keep together.  The      *)
(* inductive invariant says what they count.  What runs belongs to one     *)
(* Activation of the fence's Attention, whose counter is the fence's       *)
(* (RunningCounted); an Activation that runs nothing counts nothing, and   *)
(* only a revoked one is no longer counted (CountersIdle); a lease is used *)
(* for one Activation (OneActivationPerLease); a missing fence row counts  *)
(* nothing, and a decided Attention holds no lease (NothingLeftOver).      *)
(***************************************************************************)
EXTENDS AttentionDomain, FiniteSetTheorems, SequenceTheorems, TLAPS

RunningCounted ==
    /\ \A t \in Running :
          LET a == attempts[t].activation
          IN  /\ a \in DOMAIN activations
              /\ activations[a].attention = fence.attention
              /\ fence.token \in {0, activations[a].token}
              /\ activations[a].tracked
              /\ activations[a].unsettled = fence.count
    /\ \A s, t \in Running : attempts[s].activation = attempts[t].activation

CountersIdle ==
    \A a \in DOMAIN activations :
        /\ \/ activations[a].unsettled = 0
           \/ \E t \in Running : attempts[t].activation = a
        /\ activations[a].tracked \/ activations[a].revoked

OneActivationPerLease ==
    /\ \A a \in DOMAIN activations : activations[a].token # 0
    /\ \A a, b \in DOMAIN activations :
          /\ activations[a].attention = activations[b].attention
          /\ activations[a].token = activations[b].token
          => a = b

NothingLeftOver ==
    /\ fence.attention = NoAttention => fence = NoFence
    /\ \A x \in Attentions :
          attentions[x].status # "Open" =>
              attentions[x].token = 0 /\ attentions[x].expires = 0

DomainInv ==
    /\ TypeOK
    /\ FenceCountsRunning
    /\ FenceAgreesWithLease
    /\ RunningCounted
    /\ CountersIdle
    /\ OneActivationPerLease
    /\ NothingLeftOver

-----------------------------------------------------------------------------
(* Rows, and sequences of rows *)

Leases == [status : {"Open", "Resolved", "Ignored"}, token : Nat, expires : Nat]

Acts == [attention : Attentions, token : Nat, expires : Nat, finished : BOOLEAN,
         revoked : BOOLEAN, tracked : BOOLEAN, unsettled : Nat]

Attempts == [activation : Nat, settled : BOOLEAN]

\* The domain and the elements of the two sequences.
LEMMA Rows ==
    ASSUME TypeOK
    PROVE  /\ DOMAIN activations = 1..Len(activations)
           /\ Len(activations) \in Nat
           /\ \A a \in DOMAIN activations : activations[a] \in Acts
           /\ DOMAIN attempts = 1..Len(attempts)
           /\ Len(attempts) \in Nat
           /\ \A t \in DOMAIN attempts : attempts[t] \in Attempts
  <1>1. activations \in Seq(Acts) /\ attempts \in Seq(Attempts)
    BY DEF TypeOK, Acts, Attempts
  <1> QED BY <1>1

\* Rewriting rows in place keeps a sequence and its length.
LEMMA RewrittenRows ==
    ASSUME NEW S, NEW s \in Seq(S), NEW f \in [DOMAIN s -> S]
    PROVE  f \in Seq(S) /\ Len(f) = Len(s) /\ DOMAIN f = DOMAIN s
  <1>1. DOMAIN s = 1..Len(s) /\ Len(s) \in Nat
    OBVIOUS
  <1>2. f \in [1..Len(s) -> S]
    BY <1>1
  <1>3. f \in Seq(S)
    BY <1>1, <1>2, SeqDef
  <1>4. Len(f) = Len(s)
    BY <1>1, <1>2, <1>3
  <1> QED BY <1>1, <1>2, <1>3, <1>4

\* A lease taken away.
LEMMA DroppedLease ==
    ASSUME NEW l \in Leases, NEW new,
           new = [l EXCEPT !.token = 0, !.expires = 0]
    PROVE  /\ new \in Leases
           /\ new.status = l.status
           /\ new.token = 0
           /\ new.expires = 0
  BY DEF Leases

\* What the trigger does to the row of an Activation.
LEMMA TrackedRow ==
    ASSUME NEW act \in Acts
    PROVE  /\ Tracked(act) \in Acts
           /\ Tracked(act).attention = act.attention
           /\ Tracked(act).token = act.token
           /\ Tracked(act).revoked = act.revoked
           /\ Tracked(act).unsettled = act.unsettled
           /\ Tracked(act).tracked <=>
                 act.tracked /\ ~(act.revoked /\ act.unsettled = 0)
  BY DEF Tracked, Acts

\* Finite sets of attempts.
LEMMA RunningIsFinite ==
    ASSUME TypeOK
    PROVE  /\ IsFiniteSet(Running)
           /\ Cardinality(Running) \in Nat
           /\ Cardinality(Running) = 0 <=> Running = {}
  <1>1. Running \subseteq 1..Len(attempts) /\ Len(attempts) \in Nat
    BY Rows DEF Running
  <1>2. IsFiniteSet(1..Len(attempts))
    BY <1>1, FS_Interval
  <1>3. IsFiniteSet(Running)
    BY <1>1, <1>2, FS_Subset
  <1> QED BY <1>3, FS_CardinalityType, FS_EmptySet

\* While something runs, only its Activation can be live.
LEMMA LiveIsRunning ==
    ASSUME DomainInv, NEW a \in DOMAIN activations, Live(a), NEW t \in Running
    PROVE  attempts[t].activation = a
  <1> DEFINE b == attempts[t].activation
             x == activations[a].attention
  <1>1. /\ fence.attention = x
        /\ fence.token = activations[a].token
        /\ activations[a].token # 0
    BY DEF Live, LeaseCurrent, FenceMatches, DomainInv, OneActivationPerLease
  <1>2. /\ b \in DOMAIN activations
        /\ activations[b].attention = fence.attention
        /\ fence.token \in {0, activations[b].token}
    BY DEF DomainInv, RunningCounted
  <1> QED BY <1>1, <1>2 DEF DomainInv, OneActivationPerLease

-----------------------------------------------------------------------------
(* Every step keeps the invariant. *)

\* What a step may do without touching what runs: attempts and the fence's
\* counter stay, Activations keep their identity and their counters and become
\* untracked only when they are revoked and idle.
SameRunning ==
    /\ attempts' = attempts
    /\ activations' \in Seq(Acts)
    /\ DOMAIN activations' = DOMAIN activations
    /\ \A a \in DOMAIN activations :
          /\ activations'[a].attention = activations[a].attention
          /\ activations'[a].token = activations[a].token
          /\ activations'[a].unsettled = activations[a].unsettled
          /\ activations'[a].tracked \/ activations'[a].revoked
          /\ activations[a].tracked /\ activations[a].unsettled # 0
                => activations'[a].tracked

\* Such a step keeps what the invariant says of the Activations.
LEMMA SameRunningKeeps ==
    ASSUME DomainInv, SameRunning
    PROVE  /\ CountersIdle'
           /\ OneActivationPerLease'
           /\ Running' = Running
  BY DEF SameRunning, DomainInv, CountersIdle, OneActivationPerLease, Running

\* A claim meets a domain in which nothing runs, and gives it a fresh lease.
LEMMA ClaimKeepsInv ==
    ASSUME DomainInv, NEW x \in Attentions, NEW d \in Durations,
           ClaimAttention(x, d)
    PROVE  DomainInv'
  <1> DEFINE previous == fence.attention
             doomed == {a \in DOMAIN activations :
                \/ activations[a].attention = x
                \/ activations[a].attention = previous /\ ~activations[a].finished}
  <1>1. /\ d \in Nat \ {0}
        /\ clock \in Nat
        /\ drawn \in Nat
        /\ NoAttention \notin Attentions
    BY DomainAssumption DEF DomainInv, TypeOK
  <1>2. fence.count = 0 /\ Running = {}
    <2>1. fence.count \in Nat
      BY DEF DomainInv, TypeOK
    <2>2. fence.count = 0
      <3>1. ~DomainBusy
        BY DEF ClaimAttention
      <3> QED BY <2>1, <3>1 DEF DomainBusy
    <2>3. TypeOK /\ Cardinality(Running) = 0
      BY <2>2 DEF DomainInv, FenceCountsRunning
    <2> QED BY <2>2, <2>3, RunningIsFinite
  <1>3. \A a \in DOMAIN activations :
          LET old == activations[a]
              new == activations'[a]
          IN  /\ new \in Acts
              /\ new.attention = old.attention
              /\ new.token = old.token
              /\ new.unsettled = old.unsettled
              /\ new.tracked \/ new.revoked
    <2> SUFFICES ASSUME NEW a \in DOMAIN activations
                 PROVE  LET old == activations[a]
                            new == activations'[a]
                        IN  /\ new \in Acts
                            /\ new.attention = old.attention
                            /\ new.token = old.token
                            /\ new.unsettled = old.unsettled
                            /\ new.tracked \/ new.revoked
      OBVIOUS
    <2> DEFINE act == [activations[a] EXCEPT !.revoked = TRUE]
    <2>1. activations[a] \in Acts
      BY Rows DEF DomainInv
    <2>2. /\ act \in Acts
          /\ act.attention = activations[a].attention
          /\ act.token = activations[a].token
          /\ act.unsettled = activations[a].unsettled
          /\ act.revoked
      BY <2>1 DEF Acts
    <2>3. activations'[a] = IF a \in doomed /\ ~activations[a].revoked
                            THEN Tracked(act) ELSE activations[a]
      BY DEF ClaimAttention, Revoke
    <2>4. activations[a].tracked \/ activations[a].revoked
      BY DEF DomainInv, CountersIdle
    <2> HIDE DEF act, doomed
    <2> QED BY <2>1, <2>2, <2>3, <2>4, TrackedRow
  <1>4. DOMAIN activations' = DOMAIN activations
    BY DEF ClaimAttention, Revoke
  <1>5. activations' \in Seq(Acts)
    <2>1. activations' = [a \in DOMAIN activations |-> activations'[a]]
      BY DEF ClaimAttention, Revoke
    <2>2. activations' \in [DOMAIN activations -> Acts]
      BY <1>3, <2>1
    <2>3. activations \in Seq(Acts)
      BY DEF DomainInv, TypeOK, Acts
    <2> QED BY <2>2, <2>3, RewrittenRows
  <1>6. attempts' = attempts
    BY DEF ClaimAttention
  <1>7. SameRunning
    <2>1. \A a \in DOMAIN activations : activations[a].unsettled = 0
      BY <1>2 DEF DomainInv, CountersIdle
    <2> QED BY <1>3, <1>4, <1>5, <1>6, <2>1 DEF SameRunning
  <1>8. Running' = {} /\ CountersIdle' /\ OneActivationPerLease'
    BY <1>2, <1>7, SameRunningKeeps
  <1>9. /\ fence' = [attention |-> x, token |-> drawn + 1,
                     expires |-> clock + d, count |-> 0]
        /\ drawn' = drawn + 1
        /\ clock' = clock
    BY DEF ClaimAttention
  <1>10. /\ attentions' \in [Attentions -> Leases]
         /\ attentions'[x].status = "Open"
         /\ attentions'[x].token = drawn + 1
         /\ attentions'[x].expires = clock + d
         /\ \A y \in Attentions \ {x} :
               /\ attentions'[y].status = attentions[y].status
               /\ y = previous =>
                     attentions'[y].token = 0 /\ attentions'[y].expires = 0
               /\ y # previous => attentions'[y] = attentions[y]
    <2>1. attentions \in [Attentions -> Leases] /\ clock + d \in Nat /\ drawn + 1 \in Nat
      BY <1>1 DEF DomainInv, TypeOK, Leases
    <2>2. attentions' = [y \in Attentions |->
             CASE y = x -> [attentions[y] EXCEPT !.token = drawn + 1,
                                                 !.expires = clock + d]
               [] y = previous /\ y # x ->
                    [attentions[y] EXCEPT !.token = 0, !.expires = 0]
               [] OTHER -> attentions[y]]
      BY DEF ClaimAttention
    <2>3. attentions[x].status = "Open"
      BY DEF ClaimAttention
    <2>4. \A y \in Attentions : attentions'[y] =
             IF y = x THEN [attentions[y] EXCEPT !.token = drawn + 1,
                                                 !.expires = clock + d]
             ELSE IF y = previous
                  THEN [attentions[y] EXCEPT !.token = 0, !.expires = 0]
                  ELSE attentions[y]
      BY <2>2
    <2> HIDE DEF previous
    <2>5. /\ attentions'[x] \in Leases
          /\ attentions'[x].status = "Open"
          /\ attentions'[x].token = drawn + 1
          /\ attentions'[x].expires = clock + d
      <3>1. attentions[x] \in Leases
        BY <2>1
      <3>2. attentions'[x] = [attentions[x] EXCEPT !.token = drawn + 1,
                                                   !.expires = clock + d]
        BY <2>4
      <3> QED BY <2>1, <2>3, <3>1, <3>2 DEF Leases
    <2>6. ASSUME NEW y \in Attentions \ {x}
          PROVE  /\ attentions'[y] \in Leases
                 /\ attentions'[y].status = attentions[y].status
                 /\ y = previous =>
                       attentions'[y].token = 0 /\ attentions'[y].expires = 0
                 /\ y # previous => attentions'[y] = attentions[y]
      <3>1. attentions[y] \in Leases
        BY <2>1
      <3>2. CASE y = previous
        <4>1. attentions'[y] = [attentions[y] EXCEPT !.token = 0, !.expires = 0]
          BY <2>4, <3>2
        <4>2. /\ attentions'[y] \in Leases
              /\ attentions'[y].status = attentions[y].status
              /\ attentions'[y].token = 0
              /\ attentions'[y].expires = 0
          BY <3>1, <4>1, DroppedLease, Zenon
        <4> QED BY <3>2, <4>2
      <3>3. CASE y # previous
        BY <2>4, <3>1, <3>3
      <3> QED BY <3>2, <3>3
    <2>7. attentions' \in [Attentions -> Leases]
      BY <2>2, <2>5, <2>6
    <2> QED BY <2>5, <2>6, <2>7
  <1>11. TypeOK'
    <2>1. attentions' \in [Attentions ->
             [status : {"Open", "Resolved", "Ignored"}, token : Nat, expires : Nat]]
      BY <1>10 DEF Leases
    <2>2. fence' \in [attention : Attentions \cup {NoAttention}, token : Nat,
                      expires : Nat, count : Nat]
      BY <1>1, <1>9
    <2> QED BY <1>1, <1>5, <1>6, <1>9, <2>1, <2>2 DEF TypeOK, DomainInv, Acts
  <1>12. FenceCountsRunning'
    <2>1. Cardinality({}) = 0
      BY FS_EmptySet
    <2>2. fence'.count = 0
      BY <1>9
    <2> QED BY <1>8, <2>1, <2>2 DEF FenceCountsRunning
  <1>13. FenceAgreesWithLease'
    <2>1. \A y \in Attentions \ {x} : attentions'[y].token = 0
      BY <1>10 DEF DomainInv, FenceAgreesWithLease, FenceMatches
    <2> QED BY <1>9, <1>10, <2>1 DEF FenceAgreesWithLease, FenceMatches
  <1>14. RunningCounted'
    BY <1>8 DEF RunningCounted
  <1>15. NothingLeftOver'
    BY <1>1, <1>9, <1>10 DEF DomainInv, NothingLeftOver
  <1> QED BY <1>8, <1>11, <1>12, <1>13, <1>14, <1>15 DEF DomainInv

\* A start adds the first Activation of a lease, with nothing to count.
LEMMA StartKeepsInv ==
    ASSUME DomainInv, NEW x \in Attentions, NEW d \in Durations,
           StartActivation(x, d)
    PROVE  DomainInv'
  <1> DEFINE until == IF attentions[x].expires < clock + d
                      THEN attentions[x].expires ELSE clock + d
             act == [attention |-> x, token |-> attentions[x].token,
                     expires |-> until, finished |-> FALSE, revoked |-> FALSE,
                     tracked |-> TRUE, unsettled |-> 0]
             n == Len(activations)
  <1>1. act \in Acts
    <2>1. attentions[x].token \in Nat /\ attentions[x].expires \in Nat
      BY DEF DomainInv, TypeOK
    <2>2. clock \in Nat /\ d \in Nat
      BY DomainAssumption DEF DomainInv, TypeOK
    <2>3. until \in Nat
      BY <2>1, <2>2
    <2> HIDE DEF until
    <2> QED BY <2>1, <2>3 DEF Acts
  <1>2. /\ act.attention = x
        /\ act.token = attentions[x].token
        /\ act.tracked
        /\ act.unsettled = 0
    OBVIOUS
  <1>3. activations' = Append(activations, act)
    BY DEF StartActivation
  <1> HIDE DEF act
  <1>4. /\ activations \in Seq(Acts)
        /\ n \in Nat
        /\ DOMAIN activations = 1..n
    BY Rows DEF DomainInv, TypeOK, Acts
  <1>5. /\ activations' \in Seq(Acts)
        /\ DOMAIN activations' = 1..(n + 1)
        /\ \A a \in 1..n : activations'[a] = activations[a]
        /\ activations'[n + 1] = act
    BY <1>1, <1>3, <1>4, AppendProperties
  <1>6. /\ UNCHANGED <<clock, attentions, fence, drawn, attempts>>
        /\ Running' = Running
    BY DEF StartActivation, Running
  <1>7. TypeOK'
    BY <1>5, <1>6 DEF DomainInv, TypeOK, Acts
  <1>8. FenceCountsRunning' /\ FenceAgreesWithLease' /\ NothingLeftOver'
    BY <1>6 DEF DomainInv, FenceCountsRunning, FenceAgreesWithLease,
       FenceMatches, NothingLeftOver
  <1>9. RunningCounted'
    BY <1>4, <1>5, <1>6 DEF DomainInv, RunningCounted
  <1>10. CountersIdle'
    BY <1>2, <1>4, <1>5, <1>6 DEF DomainInv, CountersIdle
  <1>11. OneActivationPerLease'
    <2>1. attentions[x].token # 0
      BY DEF StartActivation, LeaseCurrent
    <2>2. \A a \in 1..n :
             ~(activations[a].attention = x /\ activations[a].token = attentions[x].token)
      BY <1>4 DEF StartActivation
    <2> QED BY <1>2, <1>4, <1>5, <2>1, <2>2 DEF DomainInv, OneActivationPerLease
  <1> QED BY <1>7, <1>8, <1>9, <1>10, <1>11 DEF DomainInv

\* Rewriting the row of one Activation.
LEMMA OneRow ==
    ASSUME TypeOK, NEW a \in DOMAIN activations, NEW act \in Acts,
           activations' = [activations EXCEPT ![a] = act]
    PROVE  /\ activations' \in Seq(Acts)
           /\ DOMAIN activations' = DOMAIN activations
           /\ activations'[a] = act
           /\ \A b \in DOMAIN activations \ {a} : activations'[b] = activations[b]
  <1>1. activations \in Seq(Acts)
    BY DEF TypeOK, Acts
  <1>2. activations' \in [DOMAIN activations -> Acts]
    BY Rows
  <1>3. activations' \in Seq(Acts) /\ DOMAIN activations' = DOMAIN activations
    BY <1>1, <1>2, RewrittenRows
  <1> QED BY <1>3

\* A finished Activation is counted as before.
LEMMA FinishKeepsInv ==
    ASSUME DomainInv, NEW a \in DOMAIN activations, FinishActivation(a)
    PROVE  DomainInv'
  <1> DEFINE act == [activations[a] EXCEPT !.finished = TRUE]
  <1>1. activations[a] \in Acts
    BY Rows DEF DomainInv
  <1>2. /\ act \in Acts
        /\ act.attention = activations[a].attention
        /\ act.token = activations[a].token
        /\ act.unsettled = activations[a].unsettled
        /\ act.tracked = activations[a].tracked
        /\ act.revoked = activations[a].revoked
    BY <1>1 DEF Acts
  <1>3. /\ activations' = [activations EXCEPT ![a] = Tracked(act)]
        /\ UNCHANGED <<clock, attentions, fence, drawn, attempts>>
    BY DEF FinishActivation
  <1> HIDE DEF act
  <1>4. /\ Tracked(act) \in Acts
        /\ Tracked(act).attention = activations[a].attention
        /\ Tracked(act).token = activations[a].token
        /\ Tracked(act).unsettled = activations[a].unsettled
        /\ Tracked(act).revoked = activations[a].revoked
        /\ Tracked(act).tracked <=>
              /\ activations[a].tracked
              /\ ~(activations[a].revoked /\ activations[a].unsettled = 0)
    BY <1>2, TrackedRow
  <1>5. /\ activations' \in Seq(Acts)
        /\ DOMAIN activations' = DOMAIN activations
        /\ activations'[a] = Tracked(act)
        /\ \A b \in DOMAIN activations \ {a} : activations'[b] = activations[b]
    BY <1>3, <1>4, OneRow DEF DomainInv
  <1>6. SameRunning
    BY <1>3, <1>4, <1>5 DEF SameRunning, DomainInv, CountersIdle
  <1>7. CountersIdle' /\ OneActivationPerLease' /\ Running' = Running
    BY <1>6, SameRunningKeeps
  <1>8. TypeOK'
    BY <1>3, <1>5 DEF DomainInv, TypeOK, Acts
  <1>9. FenceCountsRunning' /\ FenceAgreesWithLease' /\ NothingLeftOver'
    BY <1>3, <1>7 DEF DomainInv, FenceCountsRunning, FenceAgreesWithLease,
       FenceMatches, NothingLeftOver
  <1>10. RunningCounted'
    <2>1. ASSUME NEW t \in Running
          PROVE  LET b == attempts[t].activation
                 IN  /\ b \in DOMAIN activations'
                     /\ activations'[b].attention = fence.attention
                     /\ fence.token \in {0, activations'[b].token}
                     /\ activations'[b].tracked
                     /\ activations'[b].unsettled = fence.count
      <3> DEFINE b == attempts[t].activation
      <3>1. fence.count # 0
        BY RunningIsFinite DEF DomainInv, FenceCountsRunning
      <3>2. /\ b \in DOMAIN activations
            /\ activations[b].attention = fence.attention
            /\ fence.token \in {0, activations[b].token}
            /\ activations[b].tracked
            /\ activations[b].unsettled = fence.count
        BY DEF DomainInv, RunningCounted
      <3> HIDE DEF b
      <3>3. /\ b \in DOMAIN activations'
            /\ activations'[b].attention = fence.attention
            /\ fence.token \in {0, activations'[b].token}
            /\ activations'[b].tracked
            /\ activations'[b].unsettled = fence.count
        BY <1>6, <3>1, <3>2 DEF SameRunning
      <3> QED BY <3>3 DEF b
    <2> QED BY <1>3, <1>7, <2>1 DEF DomainInv, RunningCounted
  <1> QED BY <1>7, <1>8, <1>9, <1>10 DEF DomainInv

\* A ProviderAttempt starts for the live Activation, next to nothing but its own.
LEMMA AttemptKeepsInv ==
    ASSUME DomainInv, NEW a \in DOMAIN activations, StartProviderAttempt(a)
    PROVE  DomainInv'
  <1> DEFINE new == [activation |-> a, settled |-> FALSE]
             n == Len(attempts)
             act == [activations[a] EXCEPT !.unsettled = @ + 1]
  <1>1. /\ activations[a] \in Acts
        /\ a \in Nat
        /\ fence \in [attention : Attentions \cup {NoAttention}, token : Nat,
                      expires : Nat, count : Nat]
    <2>1. TypeOK
      BY DEF DomainInv
    <2>2. activations[a] \in Acts /\ a \in 1..Len(activations) /\ Len(activations) \in Nat
      BY <2>1, Rows
    <2> QED BY <2>1, <2>2 DEF TypeOK
  <1>2. Live(a) /\ UNCHANGED <<clock, attentions, drawn>>
    BY DEF StartProviderAttempt
  <1>3. activations[a].tracked
    BY <1>2 DEF Live, DomainInv, CountersIdle
  <1>4. /\ attempts' = Append(attempts, new)
        /\ Countable(a)
        /\ activations' = [activations EXCEPT ![a] = act]
        /\ fence' = [fence EXCEPT !.count = @ + 1]
    BY <1>3 DEF StartProviderAttempt
  <1>5. /\ act \in Acts
        /\ act.attention = activations[a].attention
        /\ act.token = activations[a].token
        /\ act.unsettled = activations[a].unsettled + 1
        /\ act.tracked = activations[a].tracked
        /\ act.revoked = activations[a].revoked
    BY <1>1 DEF Acts
  <1> HIDE DEF act
  <1>6. /\ activations' \in Seq(Acts)
        /\ DOMAIN activations' = DOMAIN activations
        /\ activations'[a] = act
        /\ \A b \in DOMAIN activations \ {a} : activations'[b] = activations[b]
    BY <1>4, <1>5, OneRow DEF DomainInv
  <1>7. /\ attempts \in Seq(Attempts)
        /\ n \in Nat
        /\ DOMAIN attempts = 1..n
        /\ new \in Attempts
    BY <1>1, Rows DEF DomainInv, TypeOK, Attempts
  <1>8. /\ attempts' \in Seq(Attempts)
        /\ DOMAIN attempts' = 1..(n + 1)
        /\ \A t \in 1..n : attempts'[t] = attempts[t]
        /\ attempts'[n + 1] = new
    BY <1>4, <1>7, AppendProperties
  <1>9. /\ fence'.attention = fence.attention
        /\ fence'.token = fence.token
        /\ fence'.expires = fence.expires
        /\ fence'.count = fence.count + 1
        /\ fence' \in [attention : Attentions \cup {NoAttention}, token : Nat,
                       expires : Nat, count : Nat]
    BY <1>1, <1>4
  <1>10. /\ fence.attention = activations[a].attention
         /\ fence.token = activations[a].token
         /\ fence.attention # NoAttention
    BY <1>1, <1>2, DomainAssumption DEF Live, LeaseCurrent, FenceMatches, Acts
  <1>11. Running' = Running \cup {n + 1} /\ n + 1 \notin Running
    BY <1>7, <1>8 DEF Running
  <1>12. \A t \in Running : attempts[t].activation = a
    BY <1>2, LiveIsRunning
  <1>13. activations[a].unsettled = fence.count
    <2>1. CASE Running = {}
      <3>1. activations[a].unsettled = 0
        BY <2>1 DEF DomainInv, CountersIdle
      <3>2. fence.count = 0
        BY <2>1, RunningIsFinite DEF DomainInv, FenceCountsRunning
      <3> QED BY <3>1, <3>2
    <2>2. CASE Running # {}
      BY <1>12, <2>2 DEF DomainInv, RunningCounted
    <2> QED BY <2>1, <2>2
  <1>14. TypeOK'
    BY <1>2, <1>6, <1>8, <1>9 DEF DomainInv, TypeOK, Acts, Attempts
  <1>15. FenceCountsRunning'
    <2>1. Cardinality(Running \cup {n + 1}) = Cardinality(Running) + 1
      BY <1>11, RunningIsFinite, FS_AddElement DEF DomainInv
    <2> QED BY <1>9, <1>11, <2>1 DEF DomainInv, FenceCountsRunning
  <1>16. FenceAgreesWithLease' /\ NothingLeftOver'
    BY <1>2, <1>9, <1>10
       DEF DomainInv, FenceAgreesWithLease, FenceMatches, NothingLeftOver
  <1>17. \A t \in Running' : attempts'[t].activation = a
    BY <1>7, <1>8, <1>11, <1>12 DEF Running
  <1>18. RunningCounted'
    <2>1. /\ activations'[a].attention = fence'.attention
          /\ fence'.token \in {0, activations'[a].token}
          /\ activations'[a].tracked
          /\ activations'[a].unsettled = fence'.count
      BY <1>3, <1>5, <1>6, <1>9, <1>10, <1>13
    <2> QED BY <1>6, <1>17, <2>1 DEF RunningCounted
  <1>19. CountersIdle'
    <2>1. n + 1 \in Running' /\ attempts'[n + 1].activation = a
      BY <1>8, <1>11
    <2>2. \A b \in DOMAIN activations \ {a} : activations[b].unsettled = 0
      BY <1>12 DEF DomainInv, CountersIdle
    <2>3. \A b \in DOMAIN activations : activations[b].tracked \/ activations[b].revoked
      BY DEF DomainInv, CountersIdle
    <2> QED BY <1>3, <1>5, <1>6, <2>1, <2>2, <2>3 DEF CountersIdle
  <1>20. OneActivationPerLease'
    BY <1>5, <1>6 DEF DomainInv, OneActivationPerLease
  <1> QED BY <1>14, <1>15, <1>16, <1>18, <1>19, <1>20 DEF DomainInv

\* An attempt is settled: both counters go down together.
LEMMA SettleKeepsInv ==
    ASSUME DomainInv, NEW t \in DOMAIN attempts, SettleProviderAttempt(t)
    PROVE  DomainInv'
  <1> DEFINE a == attempts[t].activation
             counted == [fence EXCEPT !.count = @ - 1]
             act == [activations[a] EXCEPT !.unsettled = @ - 1]
             done == [attempts[t] EXCEPT !.settled = TRUE]
  <1>1. t \in Running /\ UNCHANGED <<clock, attentions, drawn>>
    BY DEF SettleProviderAttempt, Running
  <1>2. /\ a \in DOMAIN activations
        /\ activations[a].attention = fence.attention
        /\ fence.token \in {0, activations[a].token}
        /\ activations[a].tracked
        /\ activations[a].unsettled = fence.count
        /\ \A s \in Running : attempts[s].activation = a
    BY <1>1 DEF DomainInv, RunningCounted
  <1>3. /\ activations[a] \in Acts
        /\ fence \in [attention : Attentions \cup {NoAttention}, token : Nat,
                      expires : Nat, count : Nat]
        /\ attempts[t] \in Attempts
        /\ attempts \in Seq(Attempts)
    BY <1>2, Rows DEF DomainInv, TypeOK, Attempts
  <1>4. fence.count \in Nat \ {0}
    <2>1. fence.count = Cardinality(Running) /\ Running # {} /\ TypeOK
      BY <1>1 DEF DomainInv, FenceCountsRunning
    <2> QED BY <2>1, RunningIsFinite
  <1>5. /\ attempts' = [attempts EXCEPT ![t].settled = TRUE]
        /\ activations' = [activations EXCEPT ![a] = act]
        /\ fence' = IF counted.token = 0 /\ counted.count = 0
                    THEN NoFence ELSE counted
    BY <1>2 DEF SettleProviderAttempt
  <1>6. /\ act \in Acts
        /\ act.attention = activations[a].attention
        /\ act.token = activations[a].token
        /\ act.unsettled = fence.count - 1
        /\ act.tracked = activations[a].tracked
        /\ act.revoked = activations[a].revoked
    <2>1. activations[a].unsettled - 1 \in Nat
      BY <1>2, <1>4
    <2>2. /\ act \in Acts
          /\ act.attention = activations[a].attention
          /\ act.token = activations[a].token
          /\ act.unsettled = activations[a].unsettled - 1
          /\ act.tracked = activations[a].tracked
          /\ act.revoked = activations[a].revoked
      BY <1>3, <2>1 DEF Acts
    <2> QED BY <1>2, <2>2
  <1>7. /\ counted \in [attention : Attentions \cup {NoAttention}, token : Nat,
                        expires : Nat, count : Nat]
        /\ counted.attention = fence.attention
        /\ counted.token = fence.token
        /\ counted.expires = fence.expires
        /\ counted.count = fence.count - 1
    BY <1>3, <1>4
  <1>8. done \in Attempts /\ done.settled /\ done.activation = a
    BY <1>3 DEF Attempts
  <1> HIDE DEF act, counted
  <1>9. /\ activations' \in Seq(Acts)
        /\ DOMAIN activations' = DOMAIN activations
        /\ activations'[a] = act
        /\ \A b \in DOMAIN activations \ {a} : activations'[b] = activations[b]
    BY <1>2, <1>5, <1>6, OneRow DEF DomainInv
  <1>10. /\ attempts' \in Seq(Attempts)
         /\ DOMAIN attempts' = DOMAIN attempts
         /\ attempts'[t].settled
         /\ \A s \in DOMAIN attempts \ {t} : attempts'[s] = attempts[s]
    <2>1. attempts' = [attempts EXCEPT ![t] = done]
      BY <1>5
    <2> HIDE DEF done
    <2>2. attempts' \in [DOMAIN attempts -> Attempts]
      BY <1>3, <1>8, <2>1, Rows DEF DomainInv
    <2>3. attempts' \in Seq(Attempts) /\ DOMAIN attempts' = DOMAIN attempts
      BY <1>3, <2>2, RewrittenRows
    <2> QED BY <1>8, <2>1, <2>3
  <1>11. Running' = Running \ {t}
    BY <1>10 DEF Running
  <1>12. \A s \in Running' : attempts'[s].activation = a
    BY <1>2, <1>10, <1>11 DEF Running
  <1>13. Cardinality(Running') = fence.count - 1
    BY <1>1, <1>11, RunningIsFinite, FS_RemoveElement DEF DomainInv, FenceCountsRunning
  <1>14. IsFiniteSet(Running')
    BY <1>11, RunningIsFinite, FS_Subset DEF DomainInv
  <1>15. \/ fence' = counted
         \/ fence' = NoFence /\ fence.token = 0 /\ fence.count = 1 /\ Running' = {}
    <2>1. CASE counted.token = 0 /\ counted.count = 0
      <3>1. fence.token = 0 /\ fence.count = 1
        BY <1>4, <1>7, <2>1
      <3>2. Running' = {}
        BY <1>13, <1>14, <3>1, FS_EmptySet
      <3> QED BY <1>5, <2>1, <3>1, <3>2
    <2> QED BY <1>5, <2>1
  <1>16. fence'.count = fence.count - 1
    BY <1>7, <1>15 DEF NoFence
  <1>17. TypeOK'
    <2>1. NoFence \in [attention : Attentions \cup {NoAttention}, token : Nat,
                       expires : Nat, count : Nat]
      BY DEF NoFence
    <2> QED BY <1>1, <1>7, <1>9, <1>10, <1>15, <2>1
            DEF DomainInv, TypeOK, Acts, Attempts
  <1>18. FenceCountsRunning'
    BY <1>13, <1>16 DEF FenceCountsRunning
  <1>19. FenceAgreesWithLease'
    <2>1. CASE fence' = counted
      BY <1>1, <1>7, <2>1 DEF DomainInv, FenceAgreesWithLease, FenceMatches
    <2>2. CASE fence' = NoFence /\ fence.token = 0
      <3>1. \A x \in Attentions : attentions[x].token = 0
        BY <2>2 DEF DomainInv, FenceAgreesWithLease, FenceMatches
      <3> QED BY <1>1, <2>2, <3>1 DEF FenceAgreesWithLease, NoFence
    <2> QED BY <1>15, <2>1, <2>2
  <1>20. NothingLeftOver'
    <2>1. fence.attention # NoAttention
      BY <1>2, <1>3, DomainAssumption DEF Acts
    <2> QED BY <1>1, <1>7, <1>15, <2>1 DEF DomainInv, NothingLeftOver
  <1>21. RunningCounted'
    <2>1. ASSUME NEW s \in Running'
          PROVE  fence' = counted
      BY <1>15
    <2>2. ASSUME NEW s \in Running'
          PROVE  /\ activations'[a].attention = fence'.attention
                 /\ fence'.token \in {0, activations'[a].token}
                 /\ activations'[a].tracked
                 /\ activations'[a].unsettled = fence'.count
      BY <1>2, <1>6, <1>7, <1>9, <2>1
    <2> QED BY <1>2, <1>9, <1>12, <2>2 DEF RunningCounted
  <1>22. CountersIdle'
    <2>1. \A b \in DOMAIN activations \ {a} : activations[b].unsettled = 0
      BY <1>2 DEF DomainInv, CountersIdle
    <2>2. \A b \in DOMAIN activations : activations[b].tracked \/ activations[b].revoked
      BY DEF DomainInv, CountersIdle
    <2>3. act.unsettled = 0 \/ \E s \in Running' : attempts'[s].activation = a
      <3>1. CASE Running' = {}
        BY <1>6, <1>13, <3>1, FS_EmptySet
      <3>2. CASE Running' # {}
        BY <1>12, <3>2
      <3> QED BY <3>1, <3>2
    <2>4. ASSUME NEW b \in DOMAIN activations, b # a
          PROVE  activations'[b].unsettled = 0
      BY <1>9, <2>1, <2>4
    <2>5. ASSUME NEW b \in DOMAIN activations
          PROVE  activations'[b].tracked \/ activations'[b].revoked
      BY <1>6, <1>9, <2>2
    <2>6. activations'[a].unsettled = 0 \/ \E s \in Running' : attempts'[s].activation = a
      BY <1>9, <2>3
    <2> QED BY <1>9, <2>4, <2>5, <2>6 DEF CountersIdle
  <1>23. OneActivationPerLease'
    BY <1>6, <1>9 DEF DomainInv, OneActivationPerLease
  <1> QED BY <1>17, <1>18, <1>19, <1>20, <1>21, <1>22, <1>23 DEF DomainInv

\* A decision ends its Activation and its lease; the fence stays while the
\* Activation's own attempts run.
LEMMA DecideKeepsInv ==
    ASSUME DomainInv, NEW a \in DOMAIN activations,
           NEW status \in {"Resolved", "Ignored"}, Decide(a, status)
    PROVE  DomainInv'
  <1> DEFINE x == activations[a].attention
             released == [fence EXCEPT !.token = 0, !.expires = 0]
             act == [activations[a] EXCEPT !.finished = TRUE, !.revoked = TRUE]
             lease == [status |-> status, token |-> 0, expires |-> 0]
  <1>1. /\ Live(a)
        /\ UNCHANGED <<clock, drawn, attempts>>
        /\ activations' = [activations EXCEPT ![a] = Tracked(act)]
        /\ attentions' = [attentions EXCEPT ![x] = lease]
    BY DEF Decide
  <1>2. activations[a] \in Acts /\ x \in Attentions
    BY Rows DEF DomainInv, Acts
  <1>3. /\ fence \in [attention : Attentions \cup {NoAttention}, token : Nat,
                      expires : Nat, count : Nat]
        /\ attentions \in [Attentions -> Leases]
    BY DEF DomainInv, TypeOK, Leases
  <1>4. fence.attention = x
    BY <1>1 DEF Live, LeaseCurrent, FenceMatches
  <1>5. fence' = IF released.count = 0 THEN NoFence ELSE released
    BY <1>4 DEF Decide
  <1>6. /\ released \in [attention : Attentions \cup {NoAttention}, token : Nat,
                         expires : Nat, count : Nat]
        /\ released.attention = x
        /\ released.token = 0
        /\ released.expires = 0
        /\ released.count = fence.count
    BY <1>3, <1>4
  <1>7. /\ act \in Acts
        /\ act.attention = x
        /\ act.token = activations[a].token
        /\ act.unsettled = activations[a].unsettled
        /\ act.tracked = activations[a].tracked
        /\ act.revoked
    BY <1>2 DEF Acts
  <1>8. lease \in Leases
    BY DEF Leases
  <1> HIDE DEF released, act
  <1>9. /\ Tracked(act) \in Acts
        /\ Tracked(act).attention = x
        /\ Tracked(act).token = activations[a].token
        /\ Tracked(act).unsettled = activations[a].unsettled
        /\ Tracked(act).revoked
        /\ Tracked(act).tracked <=>
              activations[a].tracked /\ activations[a].unsettled # 0
    BY <1>7, TrackedRow
  <1>10. /\ activations' \in Seq(Acts)
         /\ DOMAIN activations' = DOMAIN activations
         /\ activations'[a] = Tracked(act)
         /\ \A b \in DOMAIN activations \ {a} : activations'[b] = activations[b]
    BY <1>1, <1>9, OneRow DEF DomainInv
  <1>11. SameRunning
    BY <1>1, <1>9, <1>10 DEF SameRunning, DomainInv, CountersIdle
  <1>12. CountersIdle' /\ OneActivationPerLease' /\ Running' = Running
    BY <1>11, SameRunningKeeps
  <1>13. fence.count = Cardinality(Running) /\ TypeOK
    BY DEF DomainInv, FenceCountsRunning
  <1>14. \/ fence' = released /\ fence.count # 0
         \/ fence' = NoFence /\ fence.count = 0 /\ Running = {}
    BY <1>5, <1>6, <1>13, RunningIsFinite
  <1>15. fence'.count = fence.count
    BY <1>6, <1>14 DEF NoFence
  <1>16. TypeOK'
    <2>1. NoFence \in [attention : Attentions \cup {NoAttention}, token : Nat,
                       expires : Nat, count : Nat]
      BY DEF NoFence
    <2>2. attentions' \in [Attentions -> Leases]
      BY <1>1, <1>2, <1>3, <1>8
    <2> QED BY <1>1, <1>6, <1>10, <1>14, <2>1, <2>2
            DEF DomainInv, TypeOK, Acts, Leases
  <1>17. FenceCountsRunning'
    BY <1>12, <1>13, <1>15 DEF FenceCountsRunning
  <1>18. /\ attentions'[x] = lease
         /\ \A y \in Attentions \ {x} : attentions'[y] = attentions[y]
    BY <1>1, <1>2, <1>3
  <1>19. FenceAgreesWithLease'
    <2>1. \A y \in Attentions : attentions'[y].token = 0
      BY <1>4, <1>18 DEF DomainInv, FenceAgreesWithLease, FenceMatches
    <2>2. fence' = released \/ fence'.attention = NoAttention
      BY <1>14 DEF NoFence
    <2>3. fence' = released => FenceMatches(fence.attention)'
      BY <1>4, <1>6, <1>18 DEF FenceMatches
    <2> QED BY <1>4, <1>6, <2>1, <2>2, <2>3 DEF FenceAgreesWithLease
  <1>20. NothingLeftOver'
    <2>1. x # NoAttention
      BY <1>2, DomainAssumption
    <2> QED BY <1>2, <1>6, <1>14, <1>18, <2>1 DEF DomainInv, NothingLeftOver
  <1>21. RunningCounted'
    <2>1. ASSUME NEW t \in Running
          PROVE  /\ attempts[t].activation = a
                 /\ fence' = released
      BY <1>1, <1>14, LiveIsRunning
    <2>2. ASSUME NEW t \in Running
          PROVE  /\ activations'[a].attention = fence'.attention
                 /\ fence'.token = 0
                 /\ activations'[a].tracked
                 /\ activations'[a].unsettled = fence'.count
      <3>1. fence' = released
        BY <2>1
      <3>2. activations[a].tracked /\ activations[a].unsettled = fence.count
        BY <2>1 DEF DomainInv, RunningCounted
      <3>3. fence.count # 0
        BY <1>14
      <3> QED BY <1>6, <1>9, <1>10, <3>1, <3>2, <3>3
    <2> QED BY <1>1, <1>10, <1>12, <2>1, <2>2 DEF RunningCounted
  <1> QED BY <1>12, <1>16, <1>17, <1>19, <1>20, <1>21 DEF DomainInv

\* Every step keeps the invariant.
LEMMA DomainInvStep ==
    ASSUME DomainInv, [Next]_vars
    PROVE  DomainInv'
  <1>1. ASSUME NEW x \in Attentions, NEW d \in Durations, ClaimAttention(x, d)
        PROVE  DomainInv'
    BY <1>1, ClaimKeepsInv
  <1>2. ASSUME NEW x \in Attentions, NEW d \in Durations, StartActivation(x, d)
        PROVE  DomainInv'
    BY <1>2, StartKeepsInv
  <1>3. ASSUME NEW a \in DOMAIN activations, FinishActivation(a)
        PROVE  DomainInv'
    BY <1>3, FinishKeepsInv
  <1>4. ASSUME NEW a \in DOMAIN activations, StartProviderAttempt(a)
        PROVE  DomainInv'
    BY <1>4, AttemptKeepsInv
  <1>5. ASSUME NEW a \in DOMAIN activations,
               NEW status \in {"Resolved", "Ignored"}, Decide(a, status)
        PROVE  DomainInv'
    BY <1>5, DecideKeepsInv
  <1>6. ASSUME NEW t \in DOMAIN attempts, SettleProviderAttempt(t)
        PROVE  DomainInv'
    BY <1>6, SettleKeepsInv
  <1>7. ASSUME \/ Tick
               \/ UNCHANGED vars
        PROVE  DomainInv'
    <2>1. /\ UNCHANGED <<attentions, fence, drawn, activations, attempts>>
          /\ clock' \in 0..MaxClock
      BY <1>7 DEF Tick, vars, DomainInv, TypeOK
    <2>2. Running' = Running
      BY <2>1 DEF Running
    <2>3. TypeOK' /\ FenceCountsRunning' /\ FenceAgreesWithLease'
      BY <2>1, <2>2 DEF DomainInv, TypeOK, FenceCountsRunning,
         FenceAgreesWithLease, FenceMatches
    <2>4. RunningCounted' /\ CountersIdle' /\ OneActivationPerLease' /\ NothingLeftOver'
      BY <2>1, <2>2 DEF DomainInv, RunningCounted, CountersIdle,
         OneActivationPerLease, NothingLeftOver
    <2> QED BY <2>3, <2>4 DEF DomainInv
  <1> QED BY <1>1, <1>2, <1>3, <1>4, <1>5, <1>6, <1>7 DEF Next

-----------------------------------------------------------------------------
(* Theorems *)

\* The counters, leases and fence of a domain tell one story at any time, over
\* all claims, takeovers, decisions and settlements.
THEOREM DomainInvariant == Spec => []DomainInv
  <1>1. Init => DomainInv
    <2> SUFFICES ASSUME Init PROVE DomainInv
      OBVIOUS
    <2>1. TypeOK
      BY DomainAssumption DEF Init, TypeOK, NoFence
    <2>2. DOMAIN attempts = {} /\ DOMAIN activations = {} /\ Running = {}
      BY DEF Init, Running
    <2>3. FenceCountsRunning
      BY <2>2, FS_EmptySet DEF Init, FenceCountsRunning, NoFence
    <2>4. FenceAgreesWithLease /\ NothingLeftOver
      BY DEF Init, FenceAgreesWithLease, NothingLeftOver, NoFence
    <2>5. RunningCounted /\ CountersIdle /\ OneActivationPerLease
      BY <2>2 DEF RunningCounted, CountersIdle, OneActivationPerLease
    <2> QED BY <2>1, <2>3, <2>4, <2>5 DEF DomainInv
  <1>2. DomainInv /\ [Next]_vars => DomainInv'
    BY DomainInvStep
  <1> QED BY <1>1, <1>2, PTL DEF Spec

\* Whatever lapses, is taken over or decided: the fence counts what runs, recovery
\* can settle all of it, leases and fence agree, and executions of the domain do
\* not overlap.
THEOREM DomainSafetyHolds == Spec => []DomainSafety
  <1>1. DomainInv => DomainSafety
    <2> SUFFICES ASSUME DomainInv PROVE DomainSafety
      OBVIOUS
    <2>1. TypeOK /\ FenceCountsRunning /\ FenceAgreesWithLease
      BY DEF DomainInv
    <2>2. SettlementNeverAborts
      <3> SUFFICES ASSUME NEW t \in Running
                   PROVE  LET a == attempts[t].activation
                          IN  /\ activations[a].tracked
                              /\ activations[a].unsettled > 0
                              /\ Countable(a)
                              /\ fence.count > 0
        BY DEF SettlementNeverAborts
      <3>1. fence.count \in Nat /\ fence.count # 0
        BY <2>1, RunningIsFinite DEF FenceCountsRunning
      <3> QED BY <3>1 DEF DomainInv, RunningCounted, Countable
    <2>3. ExecutionsNeverOverlap
      BY LiveIsRunning DEF DomainInv, RunningCounted, ExecutionsNeverOverlap
    <2> QED BY <2>1, <2>2, <2>3 DEF DomainSafety
  <1> QED BY <1>1, DomainInvariant, PTL

\* What a step does to a decided Attention: nothing.
LEMMA DecidedStays ==
    ASSUME DomainInv, [Next]_vars, NEW x \in Attentions,
           attentions[x].status # "Open"
    PROVE  /\ attentions'[x] = attentions[x]
           /\ \A t \in DOMAIN attempts' \ DOMAIN attempts :
                 activations[attempts'[t].activation].attention # x
  <1>1. /\ attentions \in [Attentions -> Leases]
        /\ attentions[x].token = 0
        /\ attentions[x].expires = 0
    BY DEF DomainInv, TypeOK, Leases, NothingLeftOver
  <1>2. ASSUME NEW y \in Attentions, NEW d \in Durations, ClaimAttention(y, d)
        PROVE  attentions'[x] = attentions[x] /\ attempts' = attempts
    <2>1. x # y /\ attempts' = attempts
      BY <1>2 DEF ClaimAttention
    <2>2. \/ attentions'[x] = attentions[x]
          \/ attentions'[x] = [attentions[x] EXCEPT !.token = 0, !.expires = 0]
      BY <1>2, <2>1 DEF ClaimAttention
    <2>3. [attentions[x] EXCEPT !.token = 0, !.expires = 0] = attentions[x]
      BY <1>1 DEF Leases
    <2> QED BY <2>1, <2>2, <2>3
  <1>3. ASSUME NEW a \in DOMAIN activations, StartProviderAttempt(a)
        PROVE  /\ attentions'[x] = attentions[x]
               /\ \A t \in DOMAIN attempts' \ DOMAIN attempts :
                     activations[attempts'[t].activation].attention # x
    <2> DEFINE new == [activation |-> a, settled |-> FALSE]
               n == Len(attempts)
    <2>1. /\ Live(a)
          /\ attentions' = attentions
          /\ attempts' = Append(attempts, new)
      BY <1>3 DEF StartProviderAttempt
    <2>2. activations[a].attention # x
      BY <2>1 DEF Live
    <2>3. a \in Nat /\ attempts \in Seq(Attempts) /\ n \in Nat /\ DOMAIN attempts = 1..n
      <3>1. TypeOK
        BY DEF DomainInv
      <3>2. a \in 1..Len(activations) /\ Len(activations) \in Nat
        BY <3>1, Rows
      <3>3. attempts \in Seq(Attempts)
        BY <3>1 DEF TypeOK, Attempts
      <3> QED BY <3>2, <3>3
    <2>4. new \in Attempts
      BY <2>3 DEF Attempts
    <2>5. DOMAIN attempts' = 1..(n + 1) /\ attempts'[n + 1] = new
      BY <2>1, <2>3, <2>4, AppendProperties
    <2> QED BY <2>1, <2>2, <2>3, <2>5
  <1>4. ASSUME NEW a \in DOMAIN activations,
               NEW status \in {"Resolved", "Ignored"}, Decide(a, status)
        PROVE  attentions'[x] = attentions[x] /\ attempts' = attempts
    BY <1>1, <1>4 DEF Decide, Live
  <1>5. ASSUME NEW t \in DOMAIN attempts, SettleProviderAttempt(t)
        PROVE  attentions' = attentions /\ DOMAIN attempts' = DOMAIN attempts
    BY <1>5 DEF SettleProviderAttempt
  <1>6. ASSUME \/ \E y \in Attentions, d \in Durations : StartActivation(y, d)
               \/ \E a \in DOMAIN activations : FinishActivation(a)
               \/ Tick
               \/ UNCHANGED vars
        PROVE  attentions' = attentions /\ attempts' = attempts
    BY <1>6 DEF StartActivation, FinishActivation, Tick, vars
  <1> QED BY <1>2, <1>3, <1>4, <1>5, <1>6 DEF Next

\* A decision stands: no step changes a decided Attention or starts another
\* execution for it, over any takeover and any clock.
THEOREM DecidedOnceHolds == Spec => DecidedOnce
  <1>1. DomainInv /\ [Next]_vars =>
          [\A x \in Attentions :
             attentions[x].status # "Open" =>
                 /\ attentions'[x] = attentions[x]
                 /\ \A t \in DOMAIN attempts' \ DOMAIN attempts :
                       activations[attempts'[t].activation].attention # x]_vars
    BY DecidedStays
  <1> QED BY <1>1, DomainInvariant, PTL DEF Spec, DecidedOnce

=============================================================================
