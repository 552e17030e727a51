--------------------------- MODULE DeliveryProofs ---------------------------
(***************************************************************************)
(* Proofs about RunDelivery and DeliveryScenes for any number of Hosts,    *)
(* inputs and faults.                                                      *)
(*                                                                         *)
(* DeliverySafety is not inductive.  Two Hosts may be at work on the same  *)
(* event, one of them with a lease that ran out, and what keeps the old    *)
(* one from doing harm differs from step to step (HostOk): while nothing   *)
(* was asked of the Provider it is the lease, afterwards the recorded      *)
(* ProviderAttempt, which every later Host reads in its view (ViewOk).     *)
(* Most steps neither start, send nor acknowledge anything (Calm) and keep *)
(* all of that for every other Host, whatever state it is in.              *)
(*                                                                         *)
(* A Host alone (LoneInv) never loses sight of an open ProviderAttempt: it *)
(* is the last one, its Activation is unfinished, and wherever the Host is *)
(* it either owns it, sees it in its view or knows that there is none.     *)
(***************************************************************************)
EXTENDS DeliveryScenes, SequenceTheorems, WellFoundedInduction, TLAPS

RunRows ==
    [state : {"Active", "Waiting"} \cup Terminal, revision : Nat, generation : Nat]

ActRows == [by : FinishKeys \cup {""}, revoked : BOOLEAN, supplied : Nat]

AttemptRows ==
    [act : Nat, event : Nat, by : SettleKeys \cup {""}, status : Settled \cup {"Started"},
     unstarted : BOOLEAN]

Views ==
    [run : RunRows, pending : SUBSET (1..MaxInputs), acts : Seq(ActRows),
     attempts : Seq(AttemptRows)]

HostRows ==
    [pc : Working \cup {"idle", "down"}, ev : Nat, view : Views, act : Nat,
     att : Nat, rev : Nat, term : BOOLEAN, alive : BOOLEAN,
     outcome : {"Failed", "Unknown"}, stopped : BOOLEAN]

DeliveryTyped ==
    /\ run \in RunRows
    /\ inputs \in [pending : SUBSET (1..MaxInputs), count : 1..MaxInputs]
    /\ acts \in Seq(ActRows)
    /\ attempts \in Seq(AttemptRows)
    /\ acked \in 0..inputs.count
    /\ lease \in [holder : Hosts \cup {Nobody}, live : BOOLEAN]
    /\ sent \in [1..MaxInputs -> Nat]
    /\ host \in [Hosts -> HostRows]
    /\ scene \in [idempotent : BOOLEAN, withdrawals : BOOLEAN]
    /\ faults \in 0..MaxFaults

-----------------------------------------------------------------------------
(* The inductive invariant *)

\* An adapter to which a request cannot be repeated.
Plain == ~scene.idempotent

\* While nobody withdraws them, inputs are Pending until the Run ends.
InputsInv ==
    /\ run.state \in Terminal => inputs.pending = {}
    /\ ~scene.withdrawals /\ run.state \notin Terminal =>
          inputs.pending = 1..inputs.count
    /\ \A a \in DOMAIN acts : acts[a].supplied >= 1

\* Nothing was ever given to the Provider for event i.
Clear(i) ==
    \A t \in DOMAIN attempts : attempts[t].event = i => attempts[t].unstarted

\* Of the attempts for one event all but the last are known not to have been
\* started; one that may have been belongs to the latest Activation while
\* its event is at the frontier, and if it is Completed its Run moved on.
AttemptsInv ==
    /\ \A t \in DOMAIN attempts :
          /\ attempts[t].event \in 1..Frontier
          /\ attempts[t].unstarted =>
                attempts[t].status = "Failed" /\ attempts[t].by = "lease-budget-exhausted"
    /\ Plain =>
          /\ \A t, u \in DOMAIN attempts :
                t < u /\ attempts[t].event = attempts[u].event => attempts[t].unstarted
          /\ \A t \in DOMAIN attempts :
                attempts[t].event = Frontier /\ ~attempts[t].unstarted =>
                   /\ attempts[t].act = run.generation
                   /\ attempts[t].status = "Completed" => run.state # "Active"

SentInv ==
    Plain => \A i \in 1..MaxInputs : sent[i] <= 1 /\ (sent[i] = 1 => ~Clear(i))

\* What the view of a Host that decides tells of its event.
ViewOk(r) ==
    LET v == r.view
        of(t) == t \in DOMAIN v.attempts /\ v.attempts[t].event = r.ev
    IN  /\ v.run.state # "Active" => run.state # "Active"
        /\ ~scene.withdrawals /\ r.ev \notin v.pending => run.state \in Terminal
        /\ (\A t \in DOMAIN v.attempts : of(t) => v.attempts[t].unstarted) => Clear(r.ev)
        /\ \A t, u \in DOMAIN v.attempts :
              of(t) /\ of(u) /\ t < u => v.attempts[t].unstarted
        /\ \A t \in DOMAIN v.attempts :
              of(t) /\ ~v.attempts[t].unstarted =>
                 /\ v.attempts[t].act = v.run.generation
                 /\ v.attempts[t].status = "Completed" => v.run.state # "Active"

Unsent == {"attempted", "admitted", "notStarted"}

\* What Host h, in the state r, may rely on.  Its lease keeps others from
\* starting anything; what it sent keeps others from sending it again.
HostOk(h, r) ==
    /\ r.pc \in Working => /\ r.ev \in 1..inputs.count /\ r.ev <= Frontier
                           /\ Authority(h) => r.ev = Frontier
    /\ r.pc \in {"idle", "down"} => ~r.alive /\ ~r.term
    /\ r.pc = "started" => r.act \in DOMAIN acts
    /\ r.pc = "empty" /\ ~scene.withdrawals => run.state \in Terminal
    /\ Plain =>
        /\ r.pc \in Unsent \cup {"executing", "completing"} =>
              r.att \in DOMAIN attempts /\ attempts[r.att].event = r.ev
        /\ r.pc \in Unsent =>
              sent[r.ev] = 0 /\ ~attempts[r.att].unstarted /\ attempts[r.att].act = r.act
        /\ r.alive \/ r.term \/ r.pc \in {"executing", "failing", "wait"} =>
              sent[r.ev] = 1
        /\ r.pc \in {"completing", "finishing"} => r.term
        /\ r.term /\ r.ev = Frontier => run.state # "Active"
        /\ Authority(h) /\ r.pc \in {"start", "started", "admit"} => Clear(r.ev)
        /\ Authority(h) /\ r.pc = "decide" => ViewOk(r)
        /\ Authority(h) /\ r.pc \in {"reconcile", "acking"} /\ ~scene.withdrawals =>
              run.state # "Active"

\* Each attempt that was not sent yet is one Host's.
OwnAttempts ==
    \A h, g \in Hosts :
        /\ Plain /\ h # g
        /\ host[h].pc \in Unsent /\ host[g].pc \in Unsent
        => host[h].att # host[g].att

\* An Active Run has an event to come.
EventToCome ==
    Plain /\ ~scene.withdrawals /\ run.state = "Active" => acked < inputs.count

DeliveryInv ==
    /\ DeliveryTyped
    /\ InputsInv
    /\ AttemptsInv
    /\ SentInv
    /\ OwnAttempts
    /\ EventToCome
    /\ \A h \in Hosts : HostOk(h, host[h])

-----------------------------------------------------------------------------
(* Steps that start, send and acknowledge nothing *)

Calm ==
    /\ UNCHANGED <<acked, sent, scene>>
    /\ inputs'.count >= inputs.count
    /\ lease' = lease \/ ~lease'.live
    /\ run'.generation = run.generation
    /\ run'.state = "Active" => run.state = "Active"
    /\ run.state \in Terminal => run'.state \in Terminal
    /\ DOMAIN acts' = DOMAIN acts
    /\ DOMAIN attempts' = DOMAIN attempts
    /\ \A t \in DOMAIN attempts :
          /\ attempts'[t].event = attempts[t].event
          /\ attempts'[t].act = attempts[t].act
          /\ attempts'[t].unstarted = attempts[t].unstarted

LEMMA CalmClears ==
    ASSUME Calm, NEW i
    PROVE  Clear(i)' <=> Clear(i)
  BY DEF Calm, Clear

LEMMA CalmViews ==
    ASSUME Calm, NEW r, ViewOk(r)
    PROVE  ViewOk(r)'
  <1>1. Clear(r.ev)' <=> Clear(r.ev)
    BY CalmClears
  <1>2. scene' = scene
    BY DEF Calm
  <1>3. r.view.run.state # "Active" => run'.state # "Active"
    BY DEF Calm, ViewOk
  <1>4. ~scene.withdrawals /\ r.ev \notin r.view.pending => run'.state \in Terminal
    BY DEF Calm, ViewOk
  <1> QED BY <1>1, <1>2, <1>3, <1>4 DEF ViewOk

LEMMA CalmHosts ==
    ASSUME DeliveryTyped, DeliveryTyped', Calm, NEW h \in Hosts, NEW r \in HostRows, HostOk(h, r)
    PROVE  HostOk(h, r)'
  <1>1. Authority(h)' => Authority(h)
    BY DEF Calm, Authority, DeliveryTyped
  <1>2. Clear(r.ev)' <=> Clear(r.ev)
    BY CalmClears
  <1>3. ViewOk(r) => ViewOk(r)'
    BY CalmViews
  <1>4. (Plain' <=> Plain) /\ Frontier' = Frontier
    BY DEF Calm, Plain, Frontier
  <1>5. /\ r.pc \in Working => /\ r.ev \in 1..inputs'.count /\ r.ev <= Frontier'
                               /\ Authority(h)' => r.ev = Frontier'
        /\ r.pc \in {"idle", "down"} => ~r.alive /\ ~r.term
        /\ r.pc = "started" => r.act \in DOMAIN acts'
        /\ r.pc = "empty" /\ ~scene'.withdrawals => run'.state \in Terminal
    BY <1>1, <1>4 DEF HostOk, Calm, DeliveryTyped
  <1>6. ASSUME Plain
        PROVE  /\ r.pc \in Unsent \cup {"executing", "completing"} =>
                     r.att \in DOMAIN attempts' /\ attempts'[r.att].event = r.ev
               /\ r.pc \in Unsent =>
                     /\ sent'[r.ev] = 0 /\ ~attempts'[r.att].unstarted
                     /\ attempts'[r.att].act = r.act
               /\ r.alive \/ r.term \/ r.pc \in {"executing", "failing", "wait"} =>
                     sent'[r.ev] = 1
               /\ r.pc \in {"completing", "finishing"} => r.term
               /\ r.term /\ r.ev = Frontier' => run'.state # "Active"
    BY <1>4, <1>6 DEF HostOk, Calm, Unsent
  <1>7. ASSUME Plain
        PROVE  /\ Authority(h)' /\ r.pc \in {"start", "started", "admit"} => Clear(r.ev)'
               /\ Authority(h)' /\ r.pc = "decide" => ViewOk(r)'
               /\ Authority(h)' /\ r.pc \in {"reconcile", "acking"} /\ ~scene'.withdrawals =>
                     run'.state # "Active"
    BY <1>1, <1>2, <1>3, <1>7 DEF HostOk, Calm
  <1> QED BY <1>4, <1>5, <1>6, <1>7 DEF HostOk

\* One Host gets a new row.
LEMMA OneMoves ==
    ASSUME host \in [Hosts -> HostRows], NEW h \in Hosts, NEW row \in HostRows,
           host' = [host EXCEPT ![h] = row]
    PROVE  /\ host' \in [Hosts -> HostRows]
           /\ host'[h] = row
           /\ \A g \in Hosts \ {h} : host'[g] = host[g]
  OBVIOUS

\* What is left to show of a calm step of Host h.
LEMMA CalmStep ==
    ASSUME DeliveryInv, DeliveryTyped', InputsInv', AttemptsInv', Calm,
           NEW h \in Hosts, NEW row \in HostRows,
           host' = [host EXCEPT ![h] = row],
           HostOk(h, row)',
           row.pc \in Unsent => host[h].pc \in Unsent /\ row.att = host[h].att
    PROVE  DeliveryInv'
  <1>1. /\ host'[h] = row
        /\ \A g \in Hosts \ {h} : host'[g] = host[g] /\ host[g] \in HostRows
    BY OneMoves DEF DeliveryInv, DeliveryTyped
  <1>2. \A g \in Hosts : HostOk(g, host[g])'
    <2> SUFFICES ASSUME NEW g \in Hosts
                 PROVE  HostOk(g, host[g])'
      OBVIOUS
    <2>1. CASE g = h
      <3>1. host'[g] = row
        BY <1>1, <2>1
      <3> QED BY ONLY HostOk(h, row)', <2>1, <3>1 DEF HostOk, ViewOk
    <2>2. CASE g # h
      <3>1. PICK r : r = host[g]
        OBVIOUS
      <3>2. HostOk(g, r) /\ r \in HostRows
        BY <1>1, <2>2, <3>1 DEF DeliveryInv
      <3>3. HostOk(g, r)'
        BY <3>2, CalmHosts DEF DeliveryInv
      <3>4. r = host'[g]
        BY <3>1, <2>2, <1>1
      <3> QED BY ONLY <3>3, <3>4 DEF HostOk, ViewOk
    <2> QED BY <2>1, <2>2
  <1>3. SentInv'
    <2>1. (Plain' <=> Plain) /\ sent' = sent
      BY DEF Calm, Plain
    <2>2. \A i \in 1..MaxInputs : Clear(i)' <=> Clear(i)
      BY CalmClears
    <2> QED BY <2>1, <2>2 DEF SentInv, DeliveryInv
  <1>4. OwnAttempts'
    <2>1. (Plain' <=> Plain)
      BY DEF Calm, Plain
    <2>2. \A g \in Hosts : host'[g].pc \in Unsent =>
             host[g].pc \in Unsent /\ host'[g].att = host[g].att
      BY <1>1
    <2> QED BY <2>1, <2>2 DEF OwnAttempts, DeliveryInv
  <1>5. EventToCome'
    BY DEF EventToCome, DeliveryInv, Calm, Plain, DeliveryTyped
  <1> QED BY <1>2, <1>3, <1>4, <1>5 DEF DeliveryInv

\* A step that changes nothing but one Host.
LEMMA QuietStep ==
    ASSUME DeliveryInv, UNCHANGED <<kernelVars, sent, scene>>, faults' \in 0..MaxFaults,
           NEW h \in Hosts, NEW row \in HostRows,
           host' = [host EXCEPT ![h] = row],
           HostOk(h, row),
           row.pc \in Unsent => host[h].pc \in Unsent /\ row.att = host[h].att
    PROVE  DeliveryInv'
  <1>1. DeliveryTyped'
    BY OneMoves DEF DeliveryInv, DeliveryTyped, kernelVars
  <1>2. InputsInv' /\ AttemptsInv'
    BY DEF DeliveryInv, InputsInv, AttemptsInv, kernelVars, Plain, Frontier
  <1>3. Calm
    BY DEF Calm, kernelVars, DeliveryInv, DeliveryTyped
  <1>4. HostOk(h, row)'
    BY <1>1, <1>3, CalmHosts DEF DeliveryInv
  <1> QED BY <1>1, <1>2, <1>3, <1>4, CalmStep

\* All that HostOk asks of a Host but its place and its view.
Keeps(row, r) ==
    /\ row.ev = r.ev /\ row.act = r.act /\ row.att = r.att
    /\ row.term = r.term /\ row.alive = r.alive

\* A new program counter, and nothing else.
LEMMA GotoRow ==
    ASSUME DeliveryInv, NEW h \in Hosts, NEW pc \in Working \cup {"idle", "down"}, Goto(h, pc)
    PROVE  \E row \in HostRows :
              /\ host' = [host EXCEPT ![h] = row]
              /\ row.pc = pc /\ row.view = host[h].view
              /\ Keeps(row, host[h])
  <1>1. host[h] \in HostRows
    BY DEF DeliveryInv, DeliveryTyped
  <1> DEFINE row == [host[h] EXCEPT !.pc = pc]
  <1>2. host' = [host EXCEPT ![h] = row]
    BY DEF Goto
  <1>3. /\ row \in HostRows
        /\ row.pc = pc /\ row.view = host[h].view
        /\ Keeps(row, host[h])
    BY <1>1 DEF HostRows, Keeps
  <1> HIDE DEF row
  <1> QED BY <1>2, <1>3

\* The same with another look at the Run.
LEMMA LookRow ==
    ASSUME DeliveryInv, NEW h \in Hosts, NEW pc \in Working \cup {"idle", "down"},
           host' = [host EXCEPT ![h].pc = pc, ![h].view = Projection]
    PROVE  \E row \in HostRows :
              /\ host' = [host EXCEPT ![h] = row]
              /\ row.pc = pc /\ row.view = Projection
              /\ Keeps(row, host[h])
  <1>1. host[h] \in HostRows
    BY DEF DeliveryInv, DeliveryTyped
  <1>2. Projection \in Views
    BY DEF DeliveryInv, DeliveryTyped, Projection, Views
  <1> DEFINE row == [host[h] EXCEPT !.pc = pc, !.view = Projection]
  <1> HIDE DEF Projection
  <1>3. host' = [host EXCEPT ![h] = row]
    BY DEF DeliveryInv, DeliveryTyped
  <1>4. /\ row \in HostRows
        /\ row.pc = pc /\ row.view = Projection
        /\ Keeps(row, host[h])
    BY <1>1, <1>2 DEF HostRows, Keeps
  <1> HIDE DEF row
  <1> QED BY <1>3, <1>4

\* The order in which the row changes does not matter.
LEMMA LookSwapped ==
    ASSUME host \in [Hosts -> HostRows], NEW h \in Hosts, NEW pc,
           host' = [host EXCEPT ![h].view = Projection, ![h].pc = pc]
    PROVE  host' = [host EXCEPT ![h].pc = pc, ![h].view = Projection]
  <1> HIDE DEF Projection
  <1> QED BY DEF HostRows

LEMMA DownRow == Down \in HostRows /\ Idle \in HostRows /\ NoView \in Views
  <1>1. NoView.run \in RunRows
    BY DEF NoView, RunRows
  <1>2. NoView \in Views
    BY <1>1 DEF NoView, Views
  <1>3. Idle \in HostRows
    BY <1>2 DEF Idle, HostRows, Working
  <1>4. Down \in HostRows
    BY <1>3 DEF Down, HostRows, Idle
  <1> QED BY <1>2, <1>3, <1>4

\* A Host that is down or idle relies on nothing.
LEMMA RestingHost ==
    ASSUME NEW h \in Hosts
    PROVE  HostOk(h, Down) /\ HostOk(h, Idle)
  BY DEF HostOk, Down, Idle, Working, Unsent

LEMMA ThrowStep ==
    ASSUME DeliveryInv, UNCHANGED <<kernelVars, sent, scene>>, faults' \in 0..MaxFaults,
           NEW h \in Hosts, Throw(h) \/ EndPass(h)
    PROVE  DeliveryInv'
  <1>1. \E row \in {Down, Idle} : host' = [host EXCEPT ![h] = row]
    BY DEF Throw, EndPass
  <1>2. \A row \in {Down, Idle} : row.pc \notin Unsent
    BY DEF Down, Idle, Unsent
  <1> QED BY <1>1, <1>2, DownRow, RestingHost, QuietStep

-----------------------------------------------------------------------------
(* Looking at the Run and deciding *)

\* A set of positions has a last one.
LEMMA LastPosition ==
    ASSUME NEW n \in Nat, NEW S \in SUBSET (1..n), S # {}
    PROVE  \E t \in S : \A u \in S : u <= t
  <1> DEFINE R == OpToRel(<, Nat)
             T == {n - t : t \in S}
  <1>1. \A x \in Nat, y \in Nat : y < x => <<y, x>> \in R
    BY DEF OpToRel
  <1>2. T \subseteq Nat /\ T # {}
    <2>1. \A t \in S : t \in Nat /\ t <= n
      OBVIOUS
    <2>2. \A t \in S : n - t \in Nat
      BY <2>1
    <2>3. \A y \in T : \E t \in S : y = n - t
      OBVIOUS
    <2>4. \E t \in S : n - t \in T
      OBVIOUS
    <2> HIDE DEF T
    <2> QED BY <2>2, <2>3, <2>4
  <1>3. \E x \in T : \A y \in T : ~ (<<y, x>> \in R)
    <2>1. IsWellFoundedOn(R, Nat)
      BY NatLessThanWellFounded
    <2> HIDE DEF R, T
    <2> QED BY <2>1, <1>2, WFMin
  <1> HIDE DEF R
  <1>4. PICK x \in T : \A y \in T : ~ (y < x)
    BY <1>1, <1>2, <1>3, Zenon
  <1>5. PICK t \in S : x = n - t
    OBVIOUS
  <1>6. \A u \in S : n - u \in T
    OBVIOUS
  <1> HIDE DEF T
  <1>7. \A u \in S : u <= t
    BY <1>4, <1>5, <1>6
  <1> QED BY <1>7

\* LastAttempt is the last attempt for the event, if there is one.
LEMMA LastAttemptIsLast ==
    ASSUME NEW v \in Views, NEW ev \in Nat
    PROVE  /\ LastAttempt(v, ev) = 0 =>
                \A t \in DOMAIN v.attempts : v.attempts[t].event # ev
           /\ LastAttempt(v, ev) # 0 =>
                /\ LastAttempt(v, ev) \in DOMAIN v.attempts
                /\ v.attempts[LastAttempt(v, ev)].event = ev
                /\ \A u \in DOMAIN v.attempts :
                      v.attempts[u].event = ev => u <= LastAttempt(v, ev)
  <1> DEFINE same == {t \in DOMAIN v.attempts : v.attempts[t].event = ev}
  <1>1. DOMAIN v.attempts = 1..Len(v.attempts) /\ Len(v.attempts) \in Nat
    BY DEF Views
  <1>2. CASE same = {}
    <2>1. LastAttempt(v, ev) = 0
      BY <1>2 DEF LastAttempt
    <2> QED BY <2>1, <1>2
  <1>3. CASE same # {}
    <2> DEFINE last == CHOOSE t \in same : \A u \in same : u <= t
    <2>1. \E t \in same : \A u \in same : u <= t
      <3>1. same \in SUBSET (1..Len(v.attempts))
        BY <1>1
      <3> HIDE DEF same
      <3> QED BY <3>1, <1>1, <1>3, LastPosition
    <2>2. last \in same /\ \A u \in same : u <= last
      BY <2>1
    <2>3. LastAttempt(v, ev) = last
      BY <1>3 DEF LastAttempt
    <2> HIDE DEF last
    <2>4. last # 0
      BY <2>2, <1>1
    <2> QED BY <2>2, <2>3, <2>4
  <1> QED BY <1>2, <1>3

\* What PriorAttempt finds in a view in which all attempts for the event but
\* the last are known not to have been started.
LEMMA PriorAttemptFinds ==
    ASSUME NEW v \in Views, NEW ev \in Nat,
           \A t, u \in DOMAIN v.attempts :
              v.attempts[t].event = ev /\ v.attempts[u].event = ev /\ t < u
              => v.attempts[t].unstarted
    PROVE  /\ PriorAttempt(v, ev) = 0 =>
                \A t \in DOMAIN v.attempts : v.attempts[t].event = ev => v.attempts[t].unstarted
           /\ PriorAttempt(v, ev) # 0 =>
                /\ PriorAttempt(v, ev) \in DOMAIN v.attempts
                /\ v.attempts[PriorAttempt(v, ev)].event = ev
                /\ ~v.attempts[PriorAttempt(v, ev)].unstarted
  <1> DEFINE last == LastAttempt(v, ev)
  <1>1. /\ last = 0 => \A t \in DOMAIN v.attempts : v.attempts[t].event # ev
        /\ last # 0 => /\ last \in DOMAIN v.attempts
                       /\ v.attempts[last].event = ev
                       /\ \A u \in DOMAIN v.attempts : v.attempts[u].event = ev => u <= last
    BY LastAttemptIsLast
  <1>2. DOMAIN v.attempts \subseteq Nat
    BY DEF Views
  <1>3. PriorAttempt(v, ev) = IF last # 0 /\ v.attempts[last].unstarted THEN 0 ELSE last
    BY DEF PriorAttempt
  <1> HIDE DEF last
  <1>4. CASE last = 0
    BY <1>1, <1>3, <1>4
  <1>5. CASE last # 0 /\ ~v.attempts[last].unstarted
    BY <1>1, <1>3, <1>5
  <1>6. CASE last # 0 /\ v.attempts[last].unstarted
    <2>1. \A t \in DOMAIN v.attempts : v.attempts[t].event = ev => t = last \/ t < last
      BY <1>1, <1>2, <1>6
    <2>2. \A t \in DOMAIN v.attempts : v.attempts[t].event = ev => v.attempts[t].unstarted
      BY <1>1, <1>6, <2>1
    <2> QED BY <1>3, <1>6, <2>2
  <1> QED BY <1>4, <1>5, <1>6

\* A view taken by the Host that holds the lease tells the truth.
LEMMA FreshView ==
    ASSUME DeliveryInv, Plain, NEW r \in HostRows, r.view = Projection,
           r.ev \in 1..inputs.count, r.ev = Frontier
    PROVE  ViewOk(r)
  <1>1. r.view.run = run /\ r.view.pending = inputs.pending /\ r.view.attempts = attempts
    BY DEF Projection
  <1>2. ~scene.withdrawals /\ r.ev \notin inputs.pending => run.state \in Terminal
    BY DEF DeliveryInv, InputsInv
  <1>3. \A t, u \in DOMAIN attempts :
           attempts[t].event = r.ev /\ attempts[u].event = r.ev /\ t < u => attempts[t].unstarted
    BY DEF DeliveryInv, AttemptsInv
  <1>4. \A t \in DOMAIN attempts :
           attempts[t].event = r.ev /\ ~attempts[t].unstarted =>
              /\ attempts[t].act = run.generation
              /\ attempts[t].status = "Completed" => run.state # "Active"
    BY DEF DeliveryInv, AttemptsInv
  <1>5. (\A t \in DOMAIN attempts : attempts[t].event = r.ev => attempts[t].unstarted)
        => Clear(r.ev)
    BY DEF Clear
  <1> QED BY <1>1, <1>2, <1>3, <1>4, <1>5 DEF ViewOk

LEMMA StartKeeps ==
    ASSUME DeliveryInv, NEW h \in Hosts, Start(h), UNCHANGED scene
    PROVE  DeliveryInv'
  BY ThrowStep DEF Start, DeliveryInv, DeliveryTyped

LEMMA ReadEventKeeps ==
    ASSUME DeliveryInv, NEW h \in Hosts, ReadEvent(h), UNCHANGED scene
    PROVE  DeliveryInv'
  <1>1. UNCHANGED <<kernelVars, sent, scene>> /\ faults' \in 0..MaxFaults
    BY DEF ReadEvent, DeliveryInv, DeliveryTyped
  <1>2. CASE ~Authority(h)
    BY <1>1, <1>2, ThrowStep DEF ReadEvent
  <1>3. CASE Authority(h)
    <2>1. PICK row \in HostRows :
              /\ host' = [host EXCEPT ![h] = row]
              /\ row.pc = "decide" /\ row.view = Projection
              /\ Keeps(row, host[h])
      BY <1>3, LookRow DEF ReadEvent, Working
    <2>2. HostOk(h, host[h]) /\ host[h].pc = "claimed" /\ host[h].pc \in Working
      BY DEF DeliveryInv, ReadEvent, At, Working
    <2>3. row.ev \in 1..inputs.count /\ row.ev = Frontier
      BY <1>3, <2>1, <2>2 DEF HostOk, Keeps
    <2>4. Plain => ViewOk(row)
      BY <2>1, <2>3, FreshView
    <2>5. HostOk(h, row)
      BY <2>1, <2>2, <2>4 DEF HostOk, Keeps, Unsent, Working
    <2> QED BY <1>1, <2>1, <2>5, QuietStep DEF Unsent
  <1> QED BY <1>2, <1>3

LEMMA DecideKeeps ==
    ASSUME DeliveryInv, NEW h \in Hosts, Decide(h), UNCHANGED scene
    PROVE  DeliveryInv'
  <1>1. UNCHANGED <<kernelVars, sent, scene>> /\ faults' \in 0..MaxFaults
    BY DEF Decide, DeliveryInv, DeliveryTyped
  <1> DEFINE v == host[h].view
             ev == host[h].ev
             t == PriorAttempt(v, ev)
  <1>2. PICK pc \in {"start", "reconcile", "uncertain", "park"} :
           /\ Goto(h, pc)
           /\ pc = "start" => t = 0
           /\ pc = "reconcile" =>
                \/ ev \notin v.pending
                \/ t = 0 /\ ~Startable(v, ev)
                \/ t # 0 /\ v.attempts[t].status = "Completed"
                \/ t # 0 /\ ~(v.run.state = "Active" /\ v.attempts[t].act = v.run.generation)
    BY DEF Decide
  <1>3. PICK row \in HostRows :
            /\ host' = [host EXCEPT ![h] = row]
            /\ row.pc = pc /\ row.view = v
            /\ Keeps(row, host[h])
    BY <1>2, GotoRow DEF Working
  <1>4. HostOk(h, host[h]) /\ host[h].pc = "decide" /\ host[h].pc \in Working
    BY DEF DeliveryInv, Decide, At, Working
  <1>5. v \in Views /\ ev \in Nat
    BY DEF DeliveryInv, DeliveryTyped, HostRows
  <1>6. ASSUME Plain, Authority(h)
        PROVE  /\ pc = "start" => Clear(ev)
               /\ pc = "reconcile" /\ ~scene.withdrawals => run.state # "Active"
    <2>1. ViewOk(host[h])
      BY <1>4, <1>6 DEF HostOk
    <2>2. \A s, u \in DOMAIN v.attempts :
             v.attempts[s].event = ev /\ v.attempts[u].event = ev /\ s < u
             => v.attempts[s].unstarted
      BY <2>1 DEF ViewOk
    <2>3. /\ t = 0 =>
               \A s \in DOMAIN v.attempts : v.attempts[s].event = ev => v.attempts[s].unstarted
          /\ t # 0 => /\ t \in DOMAIN v.attempts
                      /\ v.attempts[t].event = ev
                      /\ ~v.attempts[t].unstarted
      BY <1>5, <2>2, PriorAttemptFinds
    <2> HIDE DEF t
    <2>4. t = 0 => Clear(ev)
      BY <2>1, <2>3 DEF ViewOk
    <2>5. /\ v.run.state # "Active" => run.state # "Active"
          /\ ~scene.withdrawals /\ ev \notin v.pending => run.state \in Terminal
      BY <2>1 DEF ViewOk
    <2>6. t # 0 => /\ v.attempts[t].act = v.run.generation
                   /\ v.attempts[t].status = "Completed" => v.run.state # "Active"
      BY <2>1, <2>3 DEF ViewOk
    <2>7. ~Startable(v, ev) => v.run.state # "Active"
      BY DEF Startable
    <2> QED BY <1>2, <2>4, <2>5, <2>6, <2>7 DEF Terminal
  <1>7. HostOk(h, row)
    BY <1>2, <1>3, <1>4, <1>6 DEF HostOk, Keeps, Unsent, Working
  <1>8. row.pc \notin Unsent
    BY <1>2, <1>3 DEF Unsent
  <1> QED BY <1>1, <1>3, <1>7, <1>8, QuietStep

LEMMA RequeryKeeps ==
    ASSUME DeliveryInv, NEW h \in Hosts, Requery(h), UNCHANGED scene
    PROVE  DeliveryInv'
  <1>1. UNCHANGED <<kernelVars, sent, scene>> /\ faults' \in 0..MaxFaults
    BY DEF Requery, DeliveryInv, DeliveryTyped
  <1>2. PICK pc \in {"start", "reconcile", "park"} :
           /\ host' = [host EXCEPT ![h].pc = pc, ![h].view = Projection]
           /\ pc = "start" => ~Plain
           /\ pc = "reconcile" /\ Plain => run.state # "Active"
    <2> HIDE DEF Projection
    <2> DEFINE pc == IF scene.idempotent
           THEN IF Startable(Projection, host[h].ev) THEN "start" ELSE "reconcile"
           ELSE IF run.state = "Active" THEN "park" ELSE "reconcile"
    <2>1. host' = [host EXCEPT ![h].view = Projection, ![h].pc = pc]
      BY DEF Requery
    <2>2. /\ pc \in {"start", "reconcile", "park"}
          /\ pc = "start" => ~Plain
          /\ pc = "reconcile" /\ Plain => run.state # "Active"
      BY DEF Plain
    <2> HIDE DEF pc
    <2>3. host' = [host EXCEPT ![h].pc = pc, ![h].view = Projection]
      BY <2>1 DEF DeliveryInv, DeliveryTyped, HostRows
    <2> QED BY <2>2, <2>3
  <1>3. PICK row \in HostRows :
            /\ host' = [host EXCEPT ![h] = row]
            /\ row.pc = pc /\ row.view = Projection
            /\ Keeps(row, host[h])
    BY <1>2, LookRow DEF Working
  <1>4. HostOk(h, host[h]) /\ host[h].pc = "requery" /\ host[h].pc \in Working
    BY DEF DeliveryInv, Requery, At, Working
  <1>5. HostOk(h, row)
    BY <1>2, <1>3, <1>4 DEF HostOk, Keeps, Unsent, Working
  <1>6. row.pc \notin Unsent
    BY <1>2, <1>3 DEF Unsent
  <1> QED BY <1>1, <1>3, <1>5, <1>6, QuietStep

\* The row a Host has while only the acknowledgement is left.
LEMMA ProcessedRow ==
    ASSUME DeliveryInv, NEW h \in Hosts
    PROVE  /\ Processed(h) \in HostRows
           /\ Processed(h).pc = "acking" /\ Processed(h).ev = host[h].ev
           /\ ~Processed(h).term /\ ~Processed(h).alive
  <1>1. host[h] \in HostRows
    BY DEF DeliveryInv, DeliveryTyped
  <1>2. Idle \in HostRows /\ ~Idle.term /\ ~Idle.alive
    BY DownRow DEF Idle
  <1>3. host[h].ev \in Nat /\ host[h].stopped \in BOOLEAN
    BY <1>1 DEF HostRows
  <1> QED BY <1>2, <1>3 DEF Processed, HostRows, Working

LEMMA ReconciledKeeps ==
    ASSUME DeliveryInv, NEW h \in Hosts, Reconciled(h), UNCHANGED scene
    PROVE  DeliveryInv'
  <1>1. UNCHANGED <<kernelVars, sent, scene>> /\ faults' \in 0..MaxFaults
    BY DEF Reconciled, DeliveryInv, DeliveryTyped
  <1>2. HostOk(h, host[h]) /\ host[h].pc = "reconcile" /\ host[h].pc \in Working
    BY DEF DeliveryInv, Reconciled, At, Working
  <1> DEFINE row == Processed(h)
  <1>3. host' = [host EXCEPT ![h] = row]
    BY DEF Reconciled
  <1>4. /\ row \in HostRows
        /\ row.pc = "acking" /\ row.ev = host[h].ev
        /\ ~row.term /\ ~row.alive
    BY ProcessedRow
  <1> HIDE DEF row
  <1>5. HostOk(h, row)
    BY <1>2, <1>4 DEF HostOk, Unsent, Working
  <1>6. row.pc \notin Unsent
    BY <1>4 DEF Unsent
  <1> QED BY <1>1, <1>3, <1>4, <1>5, <1>6, QuietStep

LEMMA ReadActivationKeeps ==
    ASSUME DeliveryInv, NEW h \in Hosts, ReadActivation(h), UNCHANGED scene
    PROVE  DeliveryInv'
  <1>1. UNCHANGED <<kernelVars, sent, scene>> /\ faults' \in 0..MaxFaults
    BY DEF ReadActivation, DeliveryInv, DeliveryTyped
  <1> DEFINE none == DeliveryInputs(Projection, host[h].act) = {}
             pc == IF none THEN "empty" ELSE "admit"
  <1>2. host' = [host EXCEPT ![h].view = Projection, ![h].pc = pc]
    BY DEF ReadActivation
  <1> HIDE DEF none
  <1>3. pc \in {"empty", "admit"} /\ pc \in Working /\ (pc = "empty" => none)
    BY DEF Working
  <1> HIDE DEF pc
  <1>4. host' = [host EXCEPT ![h].pc = pc, ![h].view = Projection]
    BY <1>2 DEF DeliveryInv, DeliveryTyped, HostRows
  <1>5. PICK row \in HostRows :
            /\ host' = [host EXCEPT ![h] = row]
            /\ row.pc = pc /\ row.view = Projection
            /\ Keeps(row, host[h])
    BY <1>3, <1>4, LookRow
  <1>6. HostOk(h, host[h]) /\ host[h].pc = "started" /\ host[h].pc \in Working
    BY DEF DeliveryInv, ReadActivation, At, Working
  <1>7. none /\ ~scene.withdrawals => run.state \in Terminal
    <2> SUFFICES ASSUME none, ~scene.withdrawals, run.state \notin Terminal
                 PROVE  FALSE
      OBVIOUS
    <2>1. inputs.pending = 1..inputs.count /\ inputs.count \in 1..MaxInputs
      BY DEF DeliveryInv, InputsInv, DeliveryTyped
    <2>2. host[h].act \in DOMAIN acts /\ acts[host[h].act].supplied >= 1
      BY <1>6 DEF HostOk, DeliveryInv, InputsInv
    <2>3. 1 \in {n \in inputs.pending : n <= acts[host[h].act].supplied}
      BY <2>1, <2>2
    <2> QED BY <2>3 DEF none, DeliveryInputs, Projection
  <1>8. HostOk(h, row)
    BY <1>3, <1>5, <1>6, <1>7 DEF HostOk, Keeps, Unsent, Working
  <1>9. row.pc \notin Unsent
    BY <1>3, <1>5 DEF Unsent
  <1> QED BY <1>1, <1>5, <1>8, <1>9, QuietStep

LEMMA NoBudgetKeeps ==
    ASSUME DeliveryInv, NEW h \in Hosts, NoBudget(h), UNCHANGED scene
    PROVE  DeliveryInv'
  <1>1. UNCHANGED <<kernelVars, sent, scene>> /\ faults' \in 0..MaxFaults
    BY DEF NoBudget, DeliveryInv, DeliveryTyped
  <1>2. PICK row \in HostRows :
            /\ host' = [host EXCEPT ![h] = row]
            /\ row.pc = "budget"
            /\ Keeps(row, host[h])
    BY GotoRow DEF NoBudget, Working
  <1>3. HostOk(h, host[h]) /\ host[h].pc = "admit" /\ host[h].pc \in Working
    BY DEF DeliveryInv, NoBudget, At, Working
  <1>4. HostOk(h, row)
    BY <1>2, <1>3 DEF HostOk, Keeps, Unsent, Working
  <1>5. row.pc \notin Unsent
    BY <1>2 DEF Unsent
  <1> QED BY <1>1, <1>2, <1>4, <1>5, QuietStep

LEMMA BudgetExhaustedKeeps ==
    ASSUME DeliveryInv, NEW h \in Hosts, BudgetExhausted(h), UNCHANGED scene
    PROVE  DeliveryInv'
  <1>1. UNCHANGED <<kernelVars, sent, scene>> /\ faults' \in 0..MaxFaults
    BY DeliveryAssumption DEF BudgetExhausted, DeliveryInv, DeliveryTyped
  <1>2. PICK row \in HostRows :
            /\ host' = [host EXCEPT ![h] = row]
            /\ row.pc = "notStarted"
            /\ Keeps(row, host[h])
    BY GotoRow DEF BudgetExhausted, Working
  <1>3. HostOk(h, host[h]) /\ host[h].pc = "admitted" /\ host[h].pc \in Working
    BY DEF DeliveryInv, BudgetExhausted, At, Working
  <1>4. HostOk(h, row)
    BY <1>2, <1>3 DEF HostOk, Keeps, Unsent, Working
  <1>5. host[h].pc \in Unsent /\ row.att = host[h].att
    BY <1>2, <1>3 DEF Unsent, Keeps
  <1> QED BY <1>1, <1>2, <1>4, <1>5, QuietStep

LEMMA FailureReadKeeps ==
    ASSUME DeliveryInv, NEW h \in Hosts, FailureRead(h), UNCHANGED scene
    PROVE  DeliveryInv'
  <1>1. UNCHANGED <<kernelVars, sent, scene>> /\ faults' \in 0..MaxFaults
    BY DEF FailureRead, DeliveryInv, DeliveryTyped
  <1>2. PICK pc \in {"wait", "settle"} : Goto(h, pc)
    BY DEF FailureRead
  <1>3. PICK row \in HostRows :
            /\ host' = [host EXCEPT ![h] = row]
            /\ row.pc = pc
            /\ Keeps(row, host[h])
    BY <1>2, GotoRow DEF Working
  <1>4. HostOk(h, host[h]) /\ host[h].pc = "failing" /\ host[h].pc \in Working
    BY DEF DeliveryInv, FailureRead, At, Working
  <1>5. HostOk(h, row)
    BY <1>3, <1>4 DEF HostOk, Keeps, Unsent, Working
  <1>6. row.pc \notin Unsent
    BY <1>3 DEF Unsent
  <1> QED BY <1>1, <1>3, <1>5, <1>6, QuietStep

\* The status of the attempt a Host has just recorded tells whether it may go
\* on; if it leaves the event to others, the Run is not Active any more.
LEMMA FindStatusKeeps ==
    ASSUME DeliveryInv, NEW h \in Hosts, FindStatus(h), UNCHANGED scene
    PROVE  DeliveryInv'
  <1>1. UNCHANGED <<kernelVars, sent, scene>> /\ faults' \in 0..MaxFaults
    BY DEF FindStatus, DeliveryInv, DeliveryTyped
  <1>2. HostOk(h, host[h]) /\ host[h].pc = "attempted" /\ host[h].pc \in Working
        /\ host[h].pc \in Unsent
    BY DEF DeliveryInv, FindStatus, At, Working, Unsent
  <1> DEFINE status == attempts[host[h].att].status
  <1>3. \/ Goto(h, "admitted")
        \/ \E pc \in {"park", "reconcile"} :
              /\ host' = [host EXCEPT ![h].pc = pc, ![h].view = Projection]
              /\ pc = "reconcile" =>
                    \/ status = "Completed"
                    \/ ~(run.state = "Active" /\ run.generation = host[h].act)
    BY DEF FindStatus, Goto
  <1>4. CASE Goto(h, "admitted")
    <2>1. PICK row \in HostRows :
              /\ host' = [host EXCEPT ![h] = row]
              /\ row.pc = "admitted"
              /\ Keeps(row, host[h])
      BY <1>4, GotoRow DEF Working
    <2>2. HostOk(h, row)
      BY <2>1, <1>2 DEF HostOk, Keeps, Unsent, Working
    <2>3. row.att = host[h].att
      BY <2>1 DEF Keeps
    <2> QED BY <1>1, <1>2, <2>1, <2>2, <2>3, QuietStep
  <1>5. ASSUME NEW pc \in {"park", "reconcile"},
               host' = [host EXCEPT ![h].pc = pc, ![h].view = Projection],
               pc = "reconcile" =>
                  \/ status = "Completed"
                  \/ ~(run.state = "Active" /\ run.generation = host[h].act)
        PROVE  DeliveryInv'
    <2>1. PICK row \in HostRows :
              /\ host' = [host EXCEPT ![h] = row]
              /\ row.pc = pc
              /\ Keeps(row, host[h])
      BY <1>5, LookRow DEF Working
    <2>2. Plain /\ Authority(h) /\ pc = "reconcile" => run.state # "Active"
      <3> SUFFICES ASSUME Plain, Authority(h), pc = "reconcile"
                   PROVE  run.state # "Active"
        OBVIOUS
      <3> DEFINE t == host[h].att
      <3>1. /\ t \in DOMAIN attempts /\ attempts[t].event = Frontier
            /\ ~attempts[t].unstarted /\ attempts[t].act = host[h].act
        BY <1>2 DEF HostOk
      <3>2. /\ attempts[t].act = run.generation
            /\ attempts[t].status = "Completed" => run.state # "Active"
        BY <3>1 DEF DeliveryInv, AttemptsInv
      <3> QED BY <3>1, <3>2, <1>5
    <2>3. HostOk(h, row)
      BY <1>2, <2>1, <2>2 DEF HostOk, Keeps, Unsent, Working
    <2>4. row.pc \notin Unsent
      BY <2>1 DEF Unsent
    <2> QED BY <1>1, <2>1, <2>3, <2>4, QuietStep
  <1> QED BY <1>3, <1>4, <1>5

\* The end of an execution, for whatever reason.
LEMMA ExecutionEnds ==
    ASSUME DeliveryInv, NEW h \in Hosts, UNCHANGED <<kernelVars, sent, scene>>,
           faults' \in 0..MaxFaults,
           NEW row \in HostRows,
           host' = [host EXCEPT ![h] = row],
           host[h].pc = "executing",
           row.pc \in {"completing", "failing"},
           row.pc = "completing" => host[h].term,
           row.ev = host[h].ev, row.att = host[h].att, row.term = host[h].term
    PROVE  DeliveryInv'
  <1>1. HostOk(h, host[h]) /\ host[h].pc \in Working
    BY DEF DeliveryInv, Working
  <1>2. HostOk(h, row)
    BY <1>1 DEF HostOk, Unsent, Working
  <1>3. row.pc \notin Unsent
    BY DEF Unsent
  <1> QED BY <1>2, <1>3, QuietStep

LEMMA ProviderReturnsKeeps ==
    ASSUME DeliveryInv, NEW h \in Hosts, ProviderReturns(h), UNCHANGED scene
    PROVE  DeliveryInv'
  <1>1. UNCHANGED <<kernelVars, sent, scene>> /\ faults' \in 0..MaxFaults
        /\ host[h].pc = "executing" /\ host[h] \in HostRows
    BY DEF ProviderReturns, At, DeliveryInv, DeliveryTyped
  <1>2. CASE host[h].term /\ host' = [host EXCEPT ![h].pc = "completing", ![h].alive = FALSE]
    <2> DEFINE row == [host[h] EXCEPT !.pc = "completing", !.alive = FALSE]
    <2>1. host' = [host EXCEPT ![h] = row]
      BY <1>2 DEF DeliveryInv, DeliveryTyped
    <2>2. /\ row \in HostRows /\ row.pc = "completing"
          /\ row.ev = host[h].ev /\ row.att = host[h].att /\ row.term = host[h].term
      BY <1>1 DEF HostRows, Working
    <2> HIDE DEF row
    <2> QED BY <1>1, <1>2, <2>1, <2>2, ExecutionEnds
  <1>3. ASSUME NEW outcome \in {"Failed", "Unknown"},
               host' = [host EXCEPT ![h].pc = "failing", ![h].alive = FALSE,
                                    ![h].outcome = outcome]
        PROVE  DeliveryInv'
    <2> DEFINE row == [host[h] EXCEPT !.pc = "failing", !.alive = FALSE, !.outcome = outcome]
    <2>1. host' = [host EXCEPT ![h] = row]
      BY <1>3 DEF DeliveryInv, DeliveryTyped
    <2>2. /\ row \in HostRows /\ row.pc = "failing"
          /\ row.ev = host[h].ev /\ row.att = host[h].att /\ row.term = host[h].term
      BY <1>1 DEF HostRows, Working
    <2> HIDE DEF row
    <2> QED BY <1>1, <2>1, <2>2, ExecutionEnds
  <1> QED BY <1>2, <1>3 DEF ProviderReturns

LEMMA AbortKeeps ==
    ASSUME DeliveryInv, NEW h \in Hosts, Timeout(h) \/ MonitorAborts(h), UNCHANGED scene
    PROVE  DeliveryInv'
  <1>1. UNCHANGED <<kernelVars, sent, scene>> /\ faults' \in 0..MaxFaults
        /\ host[h].pc = "executing" /\ host[h] \in HostRows
    BY DEF Timeout, MonitorAborts, At, DeliveryInv, DeliveryTyped
  <1> DEFINE row == [host[h] EXCEPT !.pc = "failing", !.outcome = "Unknown"]
  <1>2. host' = [host EXCEPT ![h] = row]
    BY DEF Timeout, MonitorAborts, DeliveryInv, DeliveryTyped
  <1>3. /\ row \in HostRows /\ row.pc = "failing"
        /\ row.ev = host[h].ev /\ row.att = host[h].att /\ row.term = host[h].term
    BY <1>1 DEF HostRows, Working
  <1> HIDE DEF row
  <1> QED BY <1>1, <1>2, <1>3, ExecutionEnds

LEMMA CrashKeeps ==
    ASSUME DeliveryInv, NEW h \in Hosts, Crash(h), UNCHANGED scene
    PROVE  DeliveryInv'
  <1>1. UNCHANGED <<kernelVars, sent, scene>> /\ Throw(h)
    BY DEF Crash
  <1>2. faults' \in 0..MaxFaults
    BY DeliveryAssumption DEF Crash, Fault, DeliveryInv, DeliveryTyped
  <1> QED BY <1>1, <1>2, ThrowStep

LEMMA StopKeeps ==
    ASSUME DeliveryInv, NEW h \in Hosts, Stop(h), UNCHANGED scene
    PROVE  DeliveryInv'
  <1>1. UNCHANGED <<kernelVars, sent, scene>> /\ faults' \in 0..MaxFaults /\ host[h] \in HostRows
    BY DeliveryAssumption DEF Stop, Fault, DeliveryInv, DeliveryTyped
  <1>2. CASE host[h].pc = "idle"
    <2>1. Throw(h)
      BY <1>2 DEF Stop, Throw, DeliveryInv, DeliveryTyped
    <2> QED BY <1>1, <2>1, ThrowStep
  <1>3. CASE host[h].pc = "executing"
    <2> DEFINE row == [host[h] EXCEPT !.pc = "failing", !.outcome = "Unknown", !.stopped = TRUE]
    <2>1. host' = [host EXCEPT ![h] = row]
      BY <1>3 DEF Stop, DeliveryInv, DeliveryTyped
    <2>2. /\ row \in HostRows /\ row.pc = "failing"
          /\ row.ev = host[h].ev /\ row.att = host[h].att /\ row.term = host[h].term
      BY <1>1 DEF HostRows, Working
    <2> HIDE DEF row
    <2> QED BY <1>1, <1>3, <2>1, <2>2, ExecutionEnds
  <1>4. CASE host[h].pc \notin {"idle", "executing"}
    <2> DEFINE row == [host[h] EXCEPT !.stopped = TRUE]
    <2>1. host' = [host EXCEPT ![h] = row]
      BY <1>4 DEF Stop, DeliveryInv, DeliveryTyped
    <2>2. /\ row \in HostRows /\ row.pc = host[h].pc /\ row.view = host[h].view
          /\ Keeps(row, host[h])
      BY <1>1 DEF HostRows, Keeps
    <2> HIDE DEF row
    <2>3. HostOk(h, host[h])
      BY DEF DeliveryInv
    <2>4. HostOk(h, row)
      <3>1. ViewOk(host[h]) => ViewOk(row)
        BY ONLY <2>2 DEF ViewOk, Keeps
      <3> QED BY <2>2, <2>3, <3>1 DEF HostOk, Keeps
    <2>5. row.pc \in Unsent => host[h].pc \in Unsent /\ row.att = host[h].att
      BY <2>2 DEF Keeps
    <2> QED BY <1>1, <2>1, <2>2, <2>4, <2>5, QuietStep
  <1> QED BY <1>2, <1>3, <1>4

-----------------------------------------------------------------------------
(* Finishing Activations *)

\* The Activations with one finished, if it is one of them.
LEMMA FinishedActs ==
    ASSUME NEW s \in Seq(ActRows), NEW a, NEW key \in FinishKeys
    PROVE  /\ [s EXCEPT ![a].by = key] \in Seq(ActRows)
           /\ DOMAIN [s EXCEPT ![a].by = key] = DOMAIN s
           /\ \A b \in DOMAIN s : [s EXCEPT ![a].by = key][b].supplied = s[b].supplied
  <1> DEFINE f == [s EXCEPT ![a].by = key]
  <1>1. CASE a \in DOMAIN s
    <2> DEFINE row == [s[a] EXCEPT !.by = key]
    <2>1. a \in 1..Len(s) /\ s[a] \in ActRows
      BY <1>1
    <2>2. row \in ActRows /\ row.supplied = s[a].supplied
      BY <2>1 DEF ActRows
    <2>3. f = [s EXCEPT ![a] = row]
      OBVIOUS
    <2> HIDE DEF row
    <2>4. [s EXCEPT ![a] = row] \in Seq(ActRows)
      BY <2>1, <2>2, ExceptSeq
    <2>5. \A b \in DOMAIN s : f[b].supplied = s[b].supplied
      BY <2>2, <2>3
    <2> QED BY <2>3, <2>4, <2>5
  <1>2. CASE a \notin DOMAIN s
    <2>1. f = s
      BY <1>2
    <2> QED BY <2>1
  <1> QED BY <1>1, <1>2

\* At most one Activation is finished.
OneFinished == acts' = acts \/ \E key \in FinishKeys : \E a : acts' = Finished(a, key)

LEMMA FinishedOne ==
    ASSUME NEW a, NEW key \in FinishKeys, acts' = Finished(a, key)
    PROVE  OneFinished
  BY DEF OneFinished

\* A step that finishes an Activation, or none, and moves one Host.
LEMMA FinishStep ==
    ASSUME DeliveryInv, UNCHANGED <<run, inputs, attempts, acked, lease, sent, faults, scene>>,
           OneFinished,
           NEW h \in Hosts, NEW row \in HostRows,
           host' = [host EXCEPT ![h] = row],
           HostOk(h, row),
           row.pc \in Unsent => host[h].pc \in Unsent /\ row.att = host[h].att
    PROVE  DeliveryInv'
  <1>1. /\ acts' \in Seq(ActRows) /\ DOMAIN acts' = DOMAIN acts
        /\ \A b \in DOMAIN acts : acts'[b].supplied = acts[b].supplied
    <2>1. acts \in Seq(ActRows)
      BY DEF DeliveryInv, DeliveryTyped
    <2>2. CASE acts' = acts
      BY <2>1, <2>2
    <2>3. ASSUME NEW key \in FinishKeys, NEW a, acts' = Finished(a, key)
          PROVE  /\ acts' \in Seq(ActRows) /\ DOMAIN acts' = DOMAIN acts
                 /\ \A b \in DOMAIN acts : acts'[b].supplied = acts[b].supplied
      <3> DEFINE f == [acts EXCEPT ![a].by = key]
      <3>1. /\ f \in Seq(ActRows) /\ DOMAIN f = DOMAIN acts
            /\ \A b \in DOMAIN acts : f[b].supplied = acts[b].supplied
        BY <2>1, FinishedActs
      <3>2. acts' = f
        BY <2>3 DEF Finished
      <3> HIDE DEF f
      <3> QED BY <3>1, <3>2
    <2> QED BY <2>2, <2>3 DEF OneFinished
  <1>2. DeliveryTyped'
    BY <1>1, OneMoves DEF DeliveryInv, DeliveryTyped
  <1>3. InputsInv' /\ AttemptsInv'
    BY <1>1 DEF DeliveryInv, InputsInv, AttemptsInv, Plain, Frontier
  <1>4. Calm
    BY <1>1 DEF Calm, DeliveryInv, DeliveryTyped
  <1>5. HostOk(h, row)'
    BY <1>2, <1>4, CalmHosts DEF DeliveryInv
  <1> QED BY <1>2, <1>3, <1>4, <1>5, CalmStep

\* The same when the Host comes to rest.
LEMMA FinishAndRest ==
    ASSUME DeliveryInv, UNCHANGED <<run, inputs, attempts, acked, lease, sent, faults, scene>>,
           OneFinished,
           NEW h \in Hosts, Throw(h) \/ EndPass(h)
    PROVE  DeliveryInv'
  <1>1. PICK row \in {Down, Idle} : host' = [host EXCEPT ![h] = row]
    BY DEF Throw, EndPass
  <1>2. row.pc \notin Unsent
    BY DEF Down, Idle, Unsent
  <1>3. row \in HostRows /\ HostOk(h, row)
    BY DownRow, RestingHost
  <1> QED BY <1>1, <1>2, <1>3, FinishStep

\* The same when only the acknowledgement is left.
LEMMA FinishAndAck ==
    ASSUME DeliveryInv, UNCHANGED <<run, inputs, attempts, acked, lease, sent, faults, scene>>,
           OneFinished,
           NEW h \in Hosts, host' = [host EXCEPT ![h] = Processed(h)],
           host[h].pc \in Working,
           Plain /\ Authority(h) /\ ~scene.withdrawals => run.state # "Active"
    PROVE  DeliveryInv'
  <1> DEFINE row == Processed(h)
  <1>1. host' = [host EXCEPT ![h] = row]
    OBVIOUS
  <1>2. /\ row \in HostRows
        /\ row.pc = "acking" /\ row.ev = host[h].ev
        /\ ~row.term /\ ~row.alive
    BY ProcessedRow
  <1> HIDE DEF row
  <1>3. HostOk(h, host[h])
    BY DEF DeliveryInv
  <1>4. HostOk(h, row)
    BY <1>2, <1>3 DEF HostOk, Unsent, Working
  <1>5. row.pc \notin Unsent
    BY <1>2 DEF Unsent
  <1> QED BY <1>1, <1>2, <1>4, <1>5, FinishStep

LEMMA ExpireUncertainKeeps ==
    ASSUME DeliveryInv, NEW h \in Hosts, ExpireUncertain(h), UNCHANGED scene
    PROVE  DeliveryInv'
  <1> DEFINE v == host[h].view
             a == v.attempts[PriorAttempt(v, host[h].ev)].act
             key == "recovered-expired"
  <1>1. UNCHANGED <<run, inputs, attempts, acked, lease, sent, faults, scene>>
    BY DEF ExpireUncertain
  <1>2. OneFinished
    <2>1. acts' = acts \/ acts' = Finished(a, key)
      BY DEF ExpireUncertain
    <2>2. key \in FinishKeys
      BY DEF FinishKeys
    <2> HIDE DEF a, key
    <2> QED BY <2>1, <2>2 DEF OneFinished
  <1>3. Goto(h, "requery") \/ Throw(h)
    BY DEF ExpireUncertain, Call
  <1> HIDE DEF a
  <1>4. CASE Throw(h)
    BY <1>1, <1>2, <1>4, FinishAndRest
  <1>5. CASE Goto(h, "requery")
    <2>1. PICK row \in HostRows :
              /\ host' = [host EXCEPT ![h] = row]
              /\ row.pc = "requery"
              /\ Keeps(row, host[h])
      BY <1>5, GotoRow DEF Working
    <2>2. HostOk(h, host[h]) /\ host[h].pc = "expire" /\ host[h].pc \in Working
      BY DEF DeliveryInv, ExpireUncertain, At, Working
    <2>3. HostOk(h, row)
      BY <2>1, <2>2 DEF HostOk, Keeps, Unsent, Working
    <2>4. row.pc \notin Unsent
      BY <2>1 DEF Unsent
    <2> QED BY <1>1, <1>2, <2>1, <2>3, <2>4, FinishStep
  <1> QED BY <1>3, <1>4, <1>5

LEMMA FinishBeforeProviderKeeps ==
    ASSUME DeliveryInv, NEW h \in Hosts, FinishBeforeProvider(h), UNCHANGED scene
    PROVE  DeliveryInv'
  <1>1. /\ UNCHANGED <<run, inputs, attempts, acked, lease, sent, faults, scene>>
        /\ OneFinished
        /\ Throw(h) \/ EndPass(h)
    BY DEF FinishBeforeProvider, OneFinished, FinishKeys
  <1> QED BY <1>1, FinishAndRest

LEMMA FinishFailedKeeps ==
    ASSUME DeliveryInv, NEW h \in Hosts, FinishFailed(h), UNCHANGED scene
    PROVE  DeliveryInv'
  <1>1. /\ UNCHANGED <<run, inputs, attempts, acked, lease, sent, faults, scene>>
        /\ OneFinished
        /\ Throw(h)
    BY DEF FinishFailed, OneFinished, FinishKeys
  <1> QED BY <1>1, FinishAndRest

LEMMA FinishEmptyKeeps ==
    ASSUME DeliveryInv, NEW h \in Hosts, FinishEmpty(h), UNCHANGED scene
    PROVE  DeliveryInv'
  <1>1. /\ UNCHANGED <<run, inputs, attempts, acked, lease, sent, faults, scene>>
        /\ OneFinished
        /\ Throw(h) \/ host' = [host EXCEPT ![h] = Processed(h)]
    BY DEF FinishEmpty, OneFinished, FinishKeys
  <1>2. host[h].pc = "empty" /\ host[h].pc \in Working
    BY DEF FinishEmpty, At, Working
  <1>3. ~scene.withdrawals => run.state # "Active"
    BY <1>2 DEF DeliveryInv, HostOk, Terminal
  <1>4. CASE Throw(h)
    BY <1>1, <1>4, FinishAndRest
  <1>5. CASE host' = [host EXCEPT ![h] = Processed(h)]
    BY <1>1, <1>2, <1>3, <1>5, FinishAndAck
  <1> QED BY <1>1, <1>4, <1>5

\* A Provider that decided ended the turn, so its Run is not Active.
LEMMA FinishCompletedKeeps ==
    ASSUME DeliveryInv, NEW h \in Hosts, FinishCompleted(h), UNCHANGED scene
    PROVE  DeliveryInv'
  <1>1. /\ UNCHANGED <<run, inputs, attempts, acked, lease, sent, faults, scene>>
        /\ OneFinished
        /\ \/ host' = [host EXCEPT ![h] = Processed(h)]
           \/ host' = [host EXCEPT ![h].pc = "settle", ![h].outcome = "Unknown"]
    BY DEF FinishCompleted, OneFinished, FinishKeys
  <1>2. HostOk(h, host[h]) /\ host[h].pc = "finishing" /\ host[h].pc \in Working
        /\ host[h] \in HostRows
    BY DEF DeliveryInv, DeliveryTyped, FinishCompleted, At, Working
  <1>3. CASE host' = [host EXCEPT ![h] = Processed(h)]
    <2>1. Plain /\ Authority(h) => run.state # "Active"
      BY <1>2 DEF HostOk
    <2> QED BY <1>1, <1>2, <1>3, <2>1, FinishAndAck
  <1>4. CASE host' = [host EXCEPT ![h].pc = "settle", ![h].outcome = "Unknown"]
    <2> DEFINE row == [host[h] EXCEPT !.pc = "settle", !.outcome = "Unknown"]
    <2>1. host' = [host EXCEPT ![h] = row]
      BY <1>4 DEF DeliveryInv, DeliveryTyped
    <2>2. /\ row \in HostRows /\ row.pc = "settle"
          /\ Keeps(row, host[h])
      BY <1>2 DEF HostRows, Keeps, Working
    <2> HIDE DEF row
    <2>3. HostOk(h, row)
      BY <1>2, <2>2 DEF HostOk, Keeps, Unsent, Working
    <2>4. row.pc \notin Unsent
      BY <2>2 DEF Unsent
    <2> QED BY <1>1, <2>1, <2>2, <2>3, <2>4, FinishStep
  <1> QED BY <1>1, <1>3, <1>4

LEMMA ReconcileActivationKeeps ==
    ASSUME DeliveryInv, NEW h \in Hosts, ReconcileActivation(h), UNCHANGED scene
    PROVE  DeliveryInv'
  <1> DEFINE v == host[h].view
             a == CHOOSE b \in Unreconciled(v) : \A c \in Unreconciled(v) : b <= c
             u == AttemptOf(v, a)
             key == ReconcileKey(v, u)
  <1>1. UNCHANGED <<run, inputs, attempts, acked, lease, sent, faults, scene>>
    BY DEF ReconcileActivation
  <1>2. \/ Throw(h) /\ acts' = acts
        \/ host' = [host EXCEPT ![h].view.acts[a].by = key] /\ acts' = Finished(a, key)
    BY DEF ReconcileActivation
  <1> HIDE DEF u, v
  <1>3. key \in FinishKeys
    BY DEF ReconcileKey, FinishKeys
  <1>4. HostOk(h, host[h]) /\ host[h].pc = "reconcile" /\ host[h].pc \in Working
        /\ host[h] \in HostRows
    BY DEF DeliveryInv, DeliveryTyped, ReconcileActivation, At, Working
  <1> USE DEF v
  <1> HIDE DEF a, key
  <1>5. CASE Throw(h) /\ acts' = acts
    BY <1>1, <1>5, FinishAndRest DEF OneFinished
  <1>6. CASE host' = [host EXCEPT ![h].view.acts[a].by = key] /\ acts' = Finished(a, key)
    <2> DEFINE rows == [v.acts EXCEPT ![a].by = key]
               row == [host[h] EXCEPT !.view = [v EXCEPT !.acts = rows]]
    <2>1. host' = [host EXCEPT ![h] = row]
      BY <1>4, <1>6 DEF DeliveryInv, DeliveryTyped
    <2>2. v \in Views /\ v.acts \in Seq(ActRows)
      BY <1>4 DEF HostRows, Views
    <2>3. rows \in Seq(ActRows)
      BY <1>3, <2>2, FinishedActs
    <2> HIDE DEF rows
    <2>4. [v EXCEPT !.acts = rows] \in Views
      BY <2>2, <2>3 DEF Views
    <2>5. row \in HostRows /\ row.pc = "reconcile" /\ Keeps(row, host[h])
      BY <1>4, <2>4 DEF HostRows, Keeps
    <2> HIDE DEF row
    <2>6. HostOk(h, row)
      BY <1>4, <2>5 DEF HostOk, Keeps, Unsent, Working
    <2>7. row.pc \notin Unsent
      BY <2>5 DEF Unsent
    <2>8. OneFinished
      BY <1>3, <1>6, FinishedOne
    <2> QED BY <1>1, <2>8, <2>1, <2>5, <2>6, <2>7, FinishStep
  <1> QED BY <1>2, <1>5, <1>6

-----------------------------------------------------------------------------
(* Settling ProviderAttempts *)

LEMMA ElementOf ==
    ASSUME NEW S, NEW s \in Seq(S), NEW t \in DOMAIN s
    PROVE  t \in 1..Len(s) /\ s[t] \in S
  OBVIOUS

\* The attempts with one replaced.
LEMMA ReplacedAttempt ==
    ASSUME NEW s \in Seq(AttemptRows), NEW t \in DOMAIN s, NEW row \in AttemptRows,
           NEW f, f = [s EXCEPT ![t] = row]
    PROVE  /\ f \in Seq(AttemptRows)
           /\ DOMAIN f = DOMAIN s
           /\ f[t] = row
           /\ \A u \in DOMAIN s \ {t} : f[u] = s[u]
  <1>1. t \in 1..Len(s)
    OBVIOUS
  <1>2. f \in Seq(AttemptRows)
    BY <1>1, ExceptSeq
  <1> QED BY <1>2

\* At most one attempt is settled; an attempt becomes Completed only after the
\* Run moved on.
OneSettled ==
    \/ attempts' = attempts
    \/ \E status \in Settled, key \in SettleKeys : \E t :
          /\ CanSettle(t, key)
          /\ attempts' = SettledAs(t, status, key)
          /\ Plain /\ status = "Completed" /\ t \in DOMAIN attempts
                /\ attempts[t].event = Frontier
             => run.state # "Active"

\* What such a step leaves of the attempts.
SettlesAnAttempt ==
    /\ attempts' \in Seq(AttemptRows) /\ DOMAIN attempts' = DOMAIN attempts
    /\ \A u \in DOMAIN attempts :
          \/ attempts'[u] = attempts[u]
          \/ /\ attempts[u].by = ""
             /\ attempts'[u].event = attempts[u].event
             /\ attempts'[u].act = attempts[u].act
             /\ attempts'[u].unstarted = attempts[u].unstarted
             /\ Plain /\ attempts'[u].status = "Completed" /\ attempts[u].event = Frontier
                => run.state # "Active"

\* Attempt t is settled, if it is one, and was not settled before.
SettlesTo(t, status, key) ==
    /\ attempts' \in Seq(AttemptRows) /\ DOMAIN attempts' = DOMAIN attempts
    /\ \A u \in DOMAIN attempts :
          /\ u = t => attempts'[u].by = key
          /\ \/ attempts'[u] = attempts[u]
             \/ /\ u = t /\ attempts[u].by = ""
                /\ attempts'[u].event = attempts[u].event
                /\ attempts'[u].act = attempts[u].act
                /\ attempts'[u].unstarted = attempts[u].unstarted
                /\ attempts'[u].status = status

LEMMA SettledRow ==
    ASSUME attempts \in Seq(AttemptRows),
           NEW status \in Settled, NEW key \in SettleKeys, NEW t,
           CanSettle(t, key), attempts' = SettledAs(t, status, key)
    PROVE  SettlesTo(t, status, key)
  <1>1. PICK f : f = attempts'
    OBVIOUS
  <1>2. f = SettledAs(t, status, key)
    BY <1>1
  <1>3. /\ f \in Seq(AttemptRows) /\ DOMAIN f = DOMAIN attempts
        /\ \A u \in DOMAIN attempts :
              /\ u = t => f[u].by = key
              /\ \/ f[u] = attempts[u]
                 \/ /\ u = t /\ attempts[u].by = ""
                    /\ f[u].event = attempts[u].event
                    /\ f[u].act = attempts[u].act
                    /\ f[u].unstarted = attempts[u].unstarted
                    /\ f[u].status = status
    <2>1. attempts = [u \in DOMAIN attempts |-> attempts[u]]
      OBVIOUS
    <2>2. CASE t \notin DOMAIN attempts
      <3>1. f = attempts
        BY <1>2, <2>1, <2>2 DEF SettledAs
      <3> QED BY <2>2, <3>1
    <2>3. CASE t \in DOMAIN attempts /\ attempts[t].by = key
      <3>1. f = attempts
        BY <1>2, <2>1, <2>3 DEF SettledAs
      <3> QED BY <2>3, <3>1
    <2>4. CASE t \in DOMAIN attempts /\ attempts[t].by # key
      <3>1. attempts[t].by = ""
        BY <2>4 DEF CanSettle
      <3> DEFINE old == attempts[t]
      <3>2. old \in AttemptRows
        BY <2>4, ElementOf
      <3> HIDE DEF old
      <3> DEFINE row == [old EXCEPT !.status = status, !.by = key]
      <3>3. row \in AttemptRows
        BY <3>2 DEF AttemptRows
      <3>4. /\ row.event = old.event /\ row.act = old.act
            /\ row.unstarted = old.unstarted
            /\ row.status = status /\ row.by = key
        BY <3>2 DEF AttemptRows
      <3>5. f = [attempts EXCEPT ![t] = row]
        BY <1>2, <2>4, Zenon DEF SettledAs, old
      <3> HIDE DEF row
      <3>6. /\ f \in Seq(AttemptRows)
            /\ DOMAIN f = DOMAIN attempts
            /\ f[t] = row
            /\ \A u \in DOMAIN attempts \ {t} : f[u] = attempts[u]
        BY <2>4, <3>3, <3>5, ReplacedAttempt
      <3> QED BY <2>4, <3>1, <3>4, <3>6 DEF old
    <2> QED BY <2>2, <2>3, <2>4
  <1> QED BY <1>1, <1>3 DEF SettlesTo

LEMMA OneSettledAttempt ==
    ASSUME attempts \in Seq(AttemptRows), OneSettled
    PROVE  SettlesAnAttempt
  <1>1. CASE attempts' = attempts
    BY <1>1 DEF SettlesAnAttempt
  <1>2. ASSUME NEW status \in Settled, NEW key \in SettleKeys, NEW t,
               CanSettle(t, key), attempts' = SettledAs(t, status, key),
               Plain /\ status = "Completed" /\ t \in DOMAIN attempts
                  /\ attempts[t].event = Frontier
               => run.state # "Active"
        PROVE  SettlesAnAttempt
    <2>1. SettlesTo(t, status, key)
      BY <1>2, SettledRow
    <2> QED BY <1>2, <2>1 DEF SettlesAnAttempt, SettlesTo
  <1> QED BY <1>1, <1>2 DEF OneSettled

LEMMA SettleStep ==
    ASSUME DeliveryInv, UNCHANGED <<run, inputs, acts, acked, lease, sent, faults, scene>>,
           OneSettled,
           NEW h \in Hosts, NEW row \in HostRows,
           host' = [host EXCEPT ![h] = row],
           HostOk(h, row),
           row.pc \in Unsent => host[h].pc \in Unsent /\ row.att = host[h].att
    PROVE  DeliveryInv'
  <1>1. SettlesAnAttempt
    BY OneSettledAttempt DEF DeliveryInv, DeliveryTyped
  <1>2. DeliveryTyped'
    BY <1>1, OneMoves DEF SettlesAnAttempt, DeliveryInv, DeliveryTyped
  <1>3. InputsInv'
    BY DEF DeliveryInv, InputsInv
  <1>4. AttemptsInv'
    <2>1. (Plain' <=> Plain) /\ Frontier' = Frontier
      BY DEF Plain, Frontier
    <2>2. \A u \in DOMAIN attempts :
             /\ attempts'[u].event = attempts[u].event
             /\ attempts'[u].act = attempts[u].act
             /\ attempts'[u].unstarted = attempts[u].unstarted
             /\ attempts[u].by # "" => attempts'[u] = attempts[u]
      BY <1>1 DEF SettlesAnAttempt
    <2>3. DOMAIN attempts' = DOMAIN attempts
      BY <1>1 DEF SettlesAnAttempt
    <2>4. \A t \in DOMAIN attempts :
             /\ attempts'[t].event \in 1..Frontier
             /\ attempts'[t].unstarted =>
                   attempts'[t].status = "Failed"
                   /\ attempts'[t].by = "lease-budget-exhausted"
      BY <2>2 DEF DeliveryInv, AttemptsInv
    <2>5. ASSUME Plain, NEW t \in DOMAIN attempts, NEW u \in DOMAIN attempts,
                 t < u, attempts'[t].event = attempts'[u].event
          PROVE  attempts'[t].unstarted
      BY <2>2, <2>5 DEF DeliveryInv, AttemptsInv
    <2>6. ASSUME Plain, NEW t \in DOMAIN attempts,
                 attempts'[t].event = Frontier, ~attempts'[t].unstarted
          PROVE  /\ attempts'[t].act = run.generation
                 /\ attempts'[t].status = "Completed" => run.state # "Active"
      BY <1>1, <2>2, <2>6 DEF SettlesAnAttempt, DeliveryInv, AttemptsInv
    <2> QED BY <2>1, <2>3, <2>4, <2>5, <2>6 DEF AttemptsInv
  <1>5. Calm
    <2>1. inputs'.count >= inputs.count
      BY DEF DeliveryInv, DeliveryTyped
    <2>2. \A u \in DOMAIN attempts :
             /\ attempts'[u].event = attempts[u].event
             /\ attempts'[u].act = attempts[u].act
             /\ attempts'[u].unstarted = attempts[u].unstarted
      BY <1>1 DEF SettlesAnAttempt
    <2> QED BY <1>1, <2>1, <2>2, Zenon DEF Calm, SettlesAnAttempt
  <1>6. HostOk(h, row)'
    BY <1>2, <1>5, CalmHosts DEF DeliveryInv
  <1> QED BY <1>2, <1>3, <1>4, <1>5, <1>6, CalmStep

\* Two ways to settle an attempt: to an outcome that asks for nothing, ...
LEMMA SettlesUncompleted ==
    ASSUME NEW t, NEW status \in {"Failed", "Unknown"}, NEW key \in SettleKeys,
           CanSettle(t, key), attempts' = SettledAs(t, status, key)
    PROVE  OneSettled
  <1>1. status \in Settled /\ status # "Completed"
    BY DEF Settled
  <1> QED BY <1>1 DEF OneSettled

\* ... or the Host's own attempt.
LEMMA SettleOwnKeeps ==
    ASSUME DeliveryInv, NEW h \in Hosts, UNCHANGED scene,
           NEW pc, NEW next \in {"finishing", "finish"},
           NEW status \in Settled, NEW key \in SettleKeys,
           SettleOwn(h, pc, next, status, key),
           \/ pc = "completing" /\ next = "finishing"
           \/ pc = "settle" /\ next = "finish" /\ status # "Completed"
    PROVE  DeliveryInv'
  <1> DEFINE t == host[h].att
  <1>1. UNCHANGED <<run, inputs, acts, acked, lease, sent, faults, scene>>
        /\ host[h].pc = pc /\ Goto(h, next)
    BY DEF SettleOwn, At
  <1>2. HostOk(h, host[h]) /\ host[h].pc \in Working
    BY <1>1 DEF DeliveryInv, Working
  <1>3. ASSUME Plain, status = "Completed", attempts[t].event = Frontier
        PROVE  run.state # "Active"
    <2>1. host[h].term /\ attempts[t].event = host[h].ev
      BY <1>1, <1>2, <1>3 DEF HostOk
    <2> QED BY <1>2, <1>3, <2>1 DEF HostOk
  <1>4. OneSettled
    <2>1. CASE attempts[t].by = ""
      <3>1. CanSettle(t, key) /\ attempts' = SettledAs(t, status, key)
        BY <2>1 DEF SettleOwn, CanSettle
      <3> QED BY <1>3, <3>1 DEF OneSettled
    <2>2. CASE attempts[t].by # ""
      BY <2>2 DEF SettleOwn, OneSettled
    <2> QED BY <2>1, <2>2
  <1>5. PICK row \in HostRows :
            /\ host' = [host EXCEPT ![h] = row]
            /\ row.pc = next
            /\ Keeps(row, host[h])
    BY <1>1, GotoRow DEF Working
  <1>6. HostOk(h, row)
    BY <1>1, <1>2, <1>5 DEF HostOk, Keeps, Unsent, Working
  <1>7. row.pc \notin Unsent
    BY <1>5 DEF Unsent
  <1> QED BY <1>1, <1>4, <1>5, <1>6, <1>7, SettleStep

LEMMA SettleCompletedKeeps ==
    ASSUME DeliveryInv, NEW h \in Hosts, SettleCompleted(h), UNCHANGED scene
    PROVE  DeliveryInv'
  <1>1. "Completed" \in Settled /\ "completed" \in SettleKeys
    BY DEF Settled, SettleKeys
  <1> QED BY <1>1, SettleOwnKeeps DEF SettleCompleted

LEMMA SettleFailedKeeps ==
    ASSUME DeliveryInv, NEW h \in Hosts, SettleFailed(h), UNCHANGED scene
    PROVE  DeliveryInv'
  <1> DEFINE status == host[h].outcome
             key == IF status = "Unknown" THEN "unknown" ELSE "failed"
  <1>1. status \in {"Failed", "Unknown"}
    BY DEF DeliveryInv, DeliveryTyped, HostRows
  <1>2. SettleOwn(h, "settle", "finish", status, key)
    BY DEF SettleFailed
  <1>3. status \in Settled /\ status # "Completed" /\ key \in SettleKeys
    BY <1>1 DEF Settled, SettleKeys
  <1> HIDE DEF status, key
  <1> QED BY <1>2, <1>3, SettleOwnKeeps

LEMMA SettleUncertainKeeps ==
    ASSUME DeliveryInv, NEW h \in Hosts, SettleUncertain(h), UNCHANGED scene
    PROVE  DeliveryInv'
  <1> DEFINE t == PriorAttempt(host[h].view, host[h].ev)
             key == "recovered-unknown"
             ok == CanSettle(t, key)
  <1>1. UNCHANGED <<run, inputs, acts, acked, lease, sent, faults, scene>>
        /\ host[h].pc = "uncertain" /\ host[h].pc \in Working
    BY DEF SettleUncertain, At, Working
  <1>2. /\ IF ok THEN Goto(h, "expire") ELSE Throw(h)
        /\ attempts' = IF ok THEN SettledAs(t, "Unknown", key) ELSE attempts
    BY DEF SettleUncertain, Call
  <1>3. key \in SettleKeys
    BY DEF SettleKeys
  <1> HIDE DEF t, key
  <1>4. OneSettled
    <2>1. CASE ok
      BY <1>2, <1>3, <2>1, SettlesUncompleted
    <2>2. CASE ~ok
      BY <1>2, <2>2 DEF OneSettled
    <2> QED BY <2>1, <2>2
  <1>5. PICK row \in HostRows :
            /\ host' = [host EXCEPT ![h] = row]
            /\ \/ row = Down
               \/ row.pc = "expire" /\ Keeps(row, host[h])
    <2>1. CASE ok
      <3>1. Goto(h, "expire")
        BY <1>2, <2>1
      <3> QED BY <3>1, GotoRow DEF Working
    <2>2. CASE ~ok
      BY <1>2, <2>2, DownRow DEF Throw
    <2> QED BY <2>1, <2>2
  <1>6. HostOk(h, host[h])
    BY DEF DeliveryInv
  <1>7. HostOk(h, row)
    <2>1. CASE row = Down
      BY <2>1, RestingHost
    <2>2. CASE row.pc = "expire" /\ Keeps(row, host[h])
      BY <1>1, <1>6, <2>2 DEF HostOk, Keeps, Unsent, Working
    <2> QED BY <1>5, <2>1, <2>2
  <1>8. row.pc \notin Unsent
    BY <1>5 DEF Unsent, Down, Idle
  <1> QED BY <1>1, <1>4, <1>5, <1>7, <1>8, SettleStep

\* A status in a view.
LEMMA ViewedStatus ==
    ASSUME NEW s \in Seq(AttemptRows), NEW t, NEW status \in Settled
    PROVE  [s EXCEPT ![t].status = status] \in Seq(AttemptRows)
  <1> DEFINE f == [s EXCEPT ![t].status = status]
  <1>1. CASE t \in DOMAIN s
    <2> DEFINE old == s[t]
    <2>1. t \in 1..Len(s) /\ old \in AttemptRows
      BY <1>1, ElementOf
    <2>2. f = [s EXCEPT ![t] = [old EXCEPT !.status = status]]
      BY <1>1
    <2> HIDE DEF old
    <2> DEFINE row == [old EXCEPT !.status = status]
    <2>3. row \in AttemptRows
      BY <2>1 DEF AttemptRows
    <2>4. f = [s EXCEPT ![t] = row]
      BY <2>2
    <2> HIDE DEF row, f
    <2>5. f \in Seq(AttemptRows)
      BY <1>1, <2>3, <2>4, ReplacedAttempt
    <2> QED BY <2>5 DEF f
  <1>2. CASE t \notin DOMAIN s
    <2>1. f = s
      BY <1>2
    <2> QED BY <2>1
  <1> QED BY <1>1, <1>2

LEMMA ReconcileAttemptKeeps ==
    ASSUME DeliveryInv, NEW h \in Hosts, ReconcileAttempt(h), UNCHANGED scene
    PROVE  DeliveryInv'
  <1> DEFINE v == host[h].view
             a == CHOOSE b \in Unreconciled(v) : \A c \in Unreconciled(v) : b <= c
             t == AttemptOf(v, a)
             key == "reconciled-unknown"
             ok == CanSettle(t, key)
  <1>1. UNCHANGED <<run, inputs, acts, acked, lease, sent, faults, scene>>
        /\ host[h].pc = "reconcile" /\ host[h].pc \in Working
        /\ host[h] \in HostRows
    BY DEF ReconcileAttempt, At, Working, DeliveryInv, DeliveryTyped
  <1>2. /\ IF ok THEN host' = [host EXCEPT ![h].view.attempts[t].status = "Unknown"]
           ELSE Throw(h)
        /\ attempts' = IF ok THEN SettledAs(t, "Unknown", key) ELSE attempts
    BY DEF ReconcileAttempt
  <1>3. key \in SettleKeys
    BY DEF SettleKeys
  <1> HIDE DEF t, key
  <1>4. OneSettled
    <2>1. CASE ok
      BY <1>2, <1>3, <2>1, SettlesUncompleted
    <2>2. CASE ~ok
      BY <1>2, <2>2 DEF OneSettled
    <2> QED BY <2>1, <2>2
  <1>5. HostOk(h, host[h])
    BY DEF DeliveryInv
  <1>6. CASE ~ok
    <2>1. host' = [host EXCEPT ![h] = Down] /\ Down.pc \notin Unsent
      BY <1>2, <1>6 DEF Throw, Down, Idle, Unsent
    <2> QED BY <1>1, <1>4, <2>1, DownRow, RestingHost, SettleStep
  <1>7. CASE ok
    <2> DEFINE rows == [v.attempts EXCEPT ![t].status = "Unknown"]
               row == [host[h] EXCEPT !.view = [v EXCEPT !.attempts = rows]]
    <2>1. host' = [host EXCEPT ![h] = row]
      BY <1>1, <1>2, <1>7 DEF DeliveryInv, DeliveryTyped
    <2>2. v \in Views /\ v.attempts \in Seq(AttemptRows)
      BY <1>1 DEF HostRows, Views
    <2>3. rows \in Seq(AttemptRows)
      BY <2>2, ViewedStatus DEF Settled
    <2> HIDE DEF rows
    <2>4. [v EXCEPT !.attempts = rows] \in Views
      BY <2>2, <2>3 DEF Views
    <2>5. row \in HostRows /\ row.pc = "reconcile" /\ Keeps(row, host[h])
      BY <1>1, <2>4 DEF HostRows, Keeps
    <2> HIDE DEF row
    <2>6. HostOk(h, row)
      BY <1>1, <1>5, <2>5 DEF HostOk, Keeps, Unsent, Working
    <2>7. row.pc \notin Unsent
      BY <2>5 DEF Unsent
    <2> QED BY <1>1, <1>4, <2>1, <2>5, <2>6, <2>7, SettleStep
  <1> QED BY <1>6, <1>7

-----------------------------------------------------------------------------
(* Decisions about the Run, people, and the lease *)

\* A calm step that moves no Host.
LEMMA CalmElsewhere ==
    ASSUME DeliveryInv, DeliveryTyped', InputsInv', AttemptsInv', Calm, UNCHANGED host
    PROVE  DeliveryInv'
  <1>1. \A g \in Hosts : HostOk(g, host[g])'
    <2> SUFFICES ASSUME NEW g \in Hosts
                 PROVE  HostOk(g, host[g])'
      OBVIOUS
    <2>1. PICK r : r = host[g]
      OBVIOUS
    <2>2. HostOk(g, r) /\ r \in HostRows
      BY <2>1 DEF DeliveryInv, DeliveryTyped
    <2>3. HostOk(g, r)'
      BY <2>2, CalmHosts DEF DeliveryInv
    <2>4. r = host'[g]
      BY <2>1
    <2> QED BY ONLY <2>3, <2>4 DEF HostOk, ViewOk
  <1>2. SentInv'
    <2>1. (Plain' <=> Plain) /\ sent' = sent
      BY DEF Calm, Plain
    <2>2. \A i \in 1..MaxInputs : Clear(i)' <=> Clear(i)
      BY CalmClears
    <2> QED BY <2>1, <2>2 DEF SentInv, DeliveryInv
  <1>3. OwnAttempts'
    BY DEF OwnAttempts, DeliveryInv, Calm, Plain
  <1>4. EventToCome'
    BY DEF EventToCome, DeliveryInv, Calm, Plain, DeliveryTyped
  <1> QED BY <1>1, <1>2, <1>3, <1>4 DEF DeliveryInv

\* Revoking Activations keeps what they were started for.
LEMMA RevokedActs ==
    ASSUME acts \in Seq(ActRows)
    PROVE  /\ Revoked \in Seq(ActRows)
           /\ DOMAIN Revoked = DOMAIN acts
           /\ \A a \in DOMAIN acts :
                 /\ Revoked[a].supplied = acts[a].supplied
                 /\ Revoked[a].by = acts[a].by
  <1> DEFINE row(a) == [acts[a] EXCEPT !.revoked = @ \/ acts[a].by = ""]
  <1>1. \A a \in DOMAIN acts : /\ row(a) \in ActRows
                              /\ row(a).supplied = acts[a].supplied
                              /\ row(a).by = acts[a].by
    <2> SUFFICES ASSUME NEW a \in DOMAIN acts
                 PROVE  /\ row(a) \in ActRows
                        /\ row(a).supplied = acts[a].supplied
                        /\ row(a).by = acts[a].by
      OBVIOUS
    <2>1. acts[a] \in ActRows
      BY ElementOf
    <2> DEFINE b == acts[a].revoked \/ acts[a].by = ""
    <2>2. b \in BOOLEAN
      OBVIOUS
    <2>3. row(a) = [acts[a] EXCEPT !.revoked = b]
      OBVIOUS
    <2> HIDE DEF b, row
    <2> QED BY <2>1, <2>2, <2>3 DEF ActRows
  <1>2. Revoked = [a \in DOMAIN acts |-> row(a)]
    BY DEF Revoked
  <1> HIDE DEF row
  <1>3. DOMAIN acts = 1..Len(acts) /\ Len(acts) \in Nat
    OBVIOUS
  <1>4. Revoked \in [1..Len(acts) -> ActRows]
    BY <1>1, <1>2, <1>3
  <1>5. Revoked \in Seq(ActRows)
    BY <1>3, <1>4, SeqDef
  <1> QED BY <1>1, <1>2, <1>5

\* A decision that ends the turn is a calm step.
LEMMA Decision ==
    ASSUME DeliveryInv, NEW state \in {"Waiting"} \cup Terminal, Settle(state),
           run.state \notin Terminal, state = "Waiting" => run.state = "Active",
           UNCHANGED <<attempts, acked, lease, sent, scene>>, faults' = faults,
           IF state = "Waiting" THEN inputs' = inputs
           ELSE inputs' = [inputs EXCEPT !.pending = {}],
           host' \in [Hosts -> HostRows]
    PROVE  DeliveryTyped' /\ InputsInv' /\ AttemptsInv' /\ Calm
  <1>1. run \in RunRows /\ inputs.count \in 1..MaxInputs
        /\ inputs \in [pending : SUBSET (1..MaxInputs), count : 1..MaxInputs]
    BY DEF DeliveryInv, DeliveryTyped
  <1>2. /\ run' \in RunRows /\ run'.state = state /\ run'.generation = run.generation
    <2> DEFINE n == run.revision + 1
    <2>1. n \in Nat
      BY <1>1 DEF RunRows
    <2>2. run' = [run EXCEPT !.state = state, !.revision = n]
      BY DEF Settle
    <2> HIDE DEF n
    <2>3. state \in {"Active", "Waiting"} \cup Terminal
      OBVIOUS
    <2> QED BY <1>1, <2>1, <2>2, <2>3 DEF RunRows
  <1>3. /\ inputs' \in [pending : SUBSET (1..MaxInputs), count : 1..MaxInputs]
        /\ inputs'.count = inputs.count
        /\ state = "Waiting" => inputs'.pending = inputs.pending
        /\ state # "Waiting" => inputs'.pending = {}
    BY <1>1
  <1>4. /\ acts' \in Seq(ActRows) /\ DOMAIN acts' = DOMAIN acts
        /\ \A a \in DOMAIN acts : acts'[a].supplied = acts[a].supplied
    BY RevokedActs DEF Settle, DeliveryInv, DeliveryTyped
  <1>5. state # "Active" /\ "Waiting" \notin Terminal
    BY DEF Terminal
  <1>6. DeliveryTyped'
    BY <1>2, <1>3, <1>4 DEF DeliveryInv, DeliveryTyped
  <1>7. InputsInv'
    BY <1>2, <1>3, <1>4, <1>5 DEF DeliveryInv, InputsInv
  <1>8. AttemptsInv'
    BY <1>2, <1>5 DEF DeliveryInv, AttemptsInv, Plain, Frontier
  <1>9. Calm
    <2>1. inputs'.count >= inputs.count
      BY <1>1, <1>3
    <2> QED BY <1>2, <1>4, <1>5, <2>1 DEF Calm
  <1> QED BY <1>6, <1>7, <1>8, <1>9

LEMMA ParkKeeps ==
    ASSUME DeliveryInv, NEW h \in Hosts, Park(h), UNCHANGED scene
    PROVE  DeliveryInv'
  <1>1. UNCHANGED <<inputs, attempts, acked, lease, sent, faults, scene>>
        /\ host[h].pc = "park" /\ host[h].pc \in Working
    BY DEF Park, At, Working
  <1>2. \/ Throw(h) /\ UNCHANGED <<run, acts>>
        \/ Goto(h, "reconcile") /\ Settle("Waiting") /\ run.state = "Active"
    BY DEF Park, Call
  <1>3. CASE Throw(h) /\ UNCHANGED <<run, acts>>
    <2>1. UNCHANGED <<kernelVars, sent, scene>> /\ faults' \in 0..MaxFaults
      BY <1>1, <1>3 DEF kernelVars, DeliveryInv, DeliveryTyped
    <2> QED BY <1>3, <2>1, ThrowStep
  <1>4. CASE Goto(h, "reconcile") /\ Settle("Waiting") /\ run.state = "Active"
    <2>1. PICK row \in HostRows :
              /\ host' = [host EXCEPT ![h] = row]
              /\ row.pc = "reconcile"
              /\ Keeps(row, host[h])
      BY <1>4, GotoRow DEF Working
    <2>2. host' \in [Hosts -> HostRows]
      BY <2>1, OneMoves DEF DeliveryInv, DeliveryTyped
    <2>3. DeliveryTyped' /\ InputsInv' /\ AttemptsInv' /\ Calm
      BY <1>1, <1>4, <2>2, Decision DEF Terminal
    <2>4. run'.state = "Waiting"
      BY <1>4 DEF Settle, DeliveryInv, DeliveryTyped, RunRows
    <2>5. HostOk(h, host[h])
      BY DEF DeliveryInv
    <2>6. host[h] \in HostRows
      BY DEF DeliveryInv, DeliveryTyped
    <2>7. PICK r : r = host[h]
      OBVIOUS
    <2>8. HostOk(h, r)'
      BY <2>3, <2>5, <2>6, <2>7, CalmHosts DEF DeliveryInv
    <2>9. HostOk(h, row)'
      BY <1>1, <2>1, <2>4, <2>7, <2>8 DEF HostOk, Keeps, Unsent, Working
    <2>10. row.pc \notin Unsent
      BY <2>1 DEF Unsent
    <2> QED BY <2>1, <2>3, <2>9, <2>10, CalmStep
  <1> QED BY <1>2, <1>3, <1>4

\* The Host that ends the turn in the name of its Provider, or the Provider
\* itself, may rely on what it relied on, and on the Run not being Active.
LEMMA TurnEnds ==
    ASSUME DeliveryInv, DeliveryTyped', InputsInv', AttemptsInv', Calm,
           NEW h \in Hosts, NEW row \in HostRows, host' = [host EXCEPT ![h] = row],
           run'.state # "Active",
           host[h].pc \in Working, host[h].alive \/ host[h].pc = "wait",
           row.ev = host[h].ev, row.att = host[h].att, row.act = host[h].act,
           row.alive = host[h].alive, row.term,
           \/ row.pc = host[h].pc /\ row.view = host[h].view
           \/ row.pc = "settle"
    PROVE  DeliveryInv'
  <1>1. PICK r : r = host[h]
    OBVIOUS
  <1>2. r \in HostRows /\ HostOk(h, r)
    BY <1>1 DEF DeliveryInv, DeliveryTyped
  <1>3. HostOk(h, r)'
    BY <1>2, CalmHosts DEF DeliveryInv
  <1>4. HostOk(h, row)'
    <2>1. CASE row.pc = "settle"
      BY <1>1, <1>3, <2>1 DEF HostOk, Unsent, Working
    <2>2. CASE row.pc = r.pc /\ row.view = r.view
      <3>1. ViewOk(r)' => ViewOk(row)'
        BY <1>1, <2>2 DEF ViewOk
      <3>2. /\ row.pc \in Working /\ row.pc \notin {"idle", "down"}
            /\ row.ev = r.ev /\ row.att = r.att /\ row.act = r.act /\ row.term
            /\ r.alive \/ r.pc = "wait"
        BY <1>1, <2>2 DEF Working
      <3> QED BY <1>1, <1>3, <2>2, <3>1, <3>2 DEF HostOk
    <2> QED BY <1>1, <2>1, <2>2
  <1>5. row.pc \in Unsent => host[h].pc \in Unsent /\ row.att = host[h].att
    BY DEF Unsent
  <1> QED BY <1>4, <1>5, CalmStep

LEMMA FailureWaitKeeps ==
    ASSUME DeliveryInv, NEW h \in Hosts, FailureWait(h), UNCHANGED scene
    PROVE  DeliveryInv'
  <1> DEFINE ok == Live(host[h].act) /\ run.revision = host[h].rev
  <1>1. UNCHANGED <<inputs, attempts, acked, lease, sent, faults, scene>>
        /\ host[h].pc = "wait" /\ host[h].pc \in Working /\ host[h] \in HostRows
    BY DEF FailureWait, At, Working, DeliveryInv, DeliveryTyped
  <1>2. \/ host[h].term /\ Throw(h) /\ UNCHANGED <<run, acts>>
        \/ /\ ~ok /\ UNCHANGED <<run, acts>>
           /\ host' = [host EXCEPT ![h].pc = "settle", ![h].term = FALSE]
        \/ /\ ok /\ Settle("Waiting")
           /\ host' = [host EXCEPT ![h].pc = "settle", ![h].term = TRUE]
    <2>1. CASE host[h].term
      BY <2>1 DEF FailureWait
    <2>2. CASE ~host[h].term /\ ok
      BY <2>2 DEF FailureWait
    <2>3. CASE ~host[h].term /\ ~ok
      BY <2>3 DEF FailureWait
    <2> QED BY <2>1, <2>2, <2>3
  <1>3. CASE host[h].term /\ Throw(h) /\ UNCHANGED <<run, acts>>
    <2>1. UNCHANGED <<kernelVars, sent, scene>> /\ faults' \in 0..MaxFaults
      BY <1>1, <1>3 DEF kernelVars, DeliveryInv, DeliveryTyped
    <2> QED BY <1>3, <2>1, ThrowStep
  <1>4. CASE /\ ~ok /\ UNCHANGED <<run, acts>>
             /\ host' = [host EXCEPT ![h].pc = "settle", ![h].term = FALSE]
    <2>1. UNCHANGED <<kernelVars, sent, scene>> /\ faults' \in 0..MaxFaults
      BY <1>1, <1>4 DEF kernelVars, DeliveryInv, DeliveryTyped
    <2> DEFINE row == [host[h] EXCEPT !.pc = "settle", !.term = FALSE]
    <2>2. host' = [host EXCEPT ![h] = row]
      BY <1>4 DEF DeliveryInv, DeliveryTyped
    <2>3. row \in HostRows /\ row.pc = "settle" /\ row.ev = host[h].ev /\ ~row.term
      BY <1>1 DEF HostRows, Working
    <2> HIDE DEF row
    <2>4. HostOk(h, host[h])
      BY DEF DeliveryInv
    <2>5. HostOk(h, row)
      BY <1>1, <2>3, <2>4 DEF HostOk, Unsent, Working
    <2>6. row.pc \notin Unsent
      BY <2>3 DEF Unsent
    <2> QED BY <2>1, <2>2, <2>3, <2>5, <2>6, QuietStep
  <1>5. CASE /\ ok /\ Settle("Waiting")
             /\ host' = [host EXCEPT ![h].pc = "settle", ![h].term = TRUE]
    <2> DEFINE row == [host[h] EXCEPT !.pc = "settle", !.term = TRUE]
    <2>1. host' = [host EXCEPT ![h] = row]
      BY <1>5 DEF DeliveryInv, DeliveryTyped
    <2>2. /\ row \in HostRows /\ row.pc = "settle" /\ row.ev = host[h].ev
          /\ row.att = host[h].att /\ row.act = host[h].act
          /\ row.alive = host[h].alive /\ row.term
      BY <1>1 DEF HostRows, Working
    <2> HIDE DEF row
    <2>3. host' \in [Hosts -> HostRows]
      BY <2>1, <2>2, OneMoves DEF DeliveryInv, DeliveryTyped
    <2>4. run.state = "Active"
      BY <1>5 DEF Live
    <2>5. DeliveryTyped' /\ InputsInv' /\ AttemptsInv' /\ Calm
      BY <1>1, <1>5, <2>3, <2>4, Decision DEF Terminal
    <2>6. run'.state # "Active"
      BY <1>5 DEF Settle, DeliveryInv, DeliveryTyped, RunRows
    <2> QED BY <1>1, <2>1, <2>2, <2>5, <2>6, TurnEnds
  <1> QED BY <1>2, <1>3, <1>4, <1>5

LEMMA ProviderActsKeeps ==
    ASSUME DeliveryInv, NEW h \in Hosts, NEW state \in {"Completed", "Failed", "Waiting"},
           ProviderActs(h, state), UNCHANGED scene
    PROVE  DeliveryInv'
  <1> DEFINE row == [host[h] EXCEPT !.term = TRUE]
  <1>1. UNCHANGED <<attempts, acked, lease, sent, faults, scene>>
        /\ host[h].alive /\ host[h] \in HostRows
    BY DEF ProviderActs, DeliveryInv, DeliveryTyped
  <1>2. host' = [host EXCEPT ![h] = row]
    BY DEF ProviderActs, DeliveryInv, DeliveryTyped
  <1>3. /\ row \in HostRows /\ row.pc = host[h].pc /\ row.view = host[h].view
        /\ row.ev = host[h].ev /\ row.att = host[h].att /\ row.act = host[h].act
        /\ row.alive = host[h].alive /\ row.term
    BY <1>1 DEF HostRows
  <1> HIDE DEF row
  <1>4. host' \in [Hosts -> HostRows]
    BY <1>2, <1>3, OneMoves DEF DeliveryInv, DeliveryTyped
  <1>5. run.state = "Active" /\ Settle(state) /\ state \in {"Waiting"} \cup Terminal
    BY DEF ProviderActs, Live, Terminal
  <1>6. IF state = "Waiting" THEN inputs' = inputs
        ELSE inputs' = [inputs EXCEPT !.pending = {}]
    BY DEF ProviderActs
  <1>7. DeliveryTyped' /\ InputsInv' /\ AttemptsInv' /\ Calm
    BY <1>1, <1>4, <1>5, <1>6, Decision DEF Terminal
  <1>8. run'.state # "Active"
    BY <1>5 DEF Settle, DeliveryInv, DeliveryTyped, RunRows
  <1>9. host[h].pc \in Working
    BY <1>1 DEF DeliveryInv, HostOk, HostRows
  <1> QED BY <1>1, <1>2, <1>3, <1>7, <1>8, <1>9, TurnEnds

LEMMA CancelRunKeeps ==
    ASSUME DeliveryInv, CancelRun, UNCHANGED scene
    PROVE  DeliveryInv'
  <1>1. UNCHANGED <<attempts, acked, lease, sent, faults, scene, host>>
        /\ run.state \notin Terminal /\ Settle("Cancelled")
        /\ inputs' = [inputs EXCEPT !.pending = {}]
        /\ host' \in [Hosts -> HostRows]
    BY DEF CancelRun, DeliveryInv, DeliveryTyped
  <1>2. "Cancelled" \in {"Waiting"} \cup Terminal
    BY DEF Terminal
  <1>3. DeliveryTyped' /\ InputsInv' /\ AttemptsInv' /\ Calm
    BY <1>1, <1>2, Decision
  <1> QED BY <1>1, <1>3, CalmElsewhere

LEMMA SendToRunKeeps ==
    ASSUME DeliveryInv, SendToRun, UNCHANGED scene
    PROVE  DeliveryInv'
  <1>1. /\ run \in RunRows /\ inputs.count \in 1..MaxInputs /\ inputs.pending \subseteq 1..MaxInputs
        /\ acked \in 0..inputs.count
    BY DEF DeliveryInv, DeliveryTyped
  <1>2. /\ run' \in RunRows /\ run'.state = run.state /\ run'.generation = run.generation
        /\ run.state \notin Terminal
    BY <1>1 DEF SendToRun, RunRows
  <1>3. /\ inputs'.count = inputs.count + 1 /\ inputs.count < MaxInputs
        /\ inputs'.pending = inputs.pending \cup {inputs.count + 1}
        /\ inputs' = [pending |-> inputs'.pending, count |-> inputs'.count]
    BY DEF SendToRun
  <1>4. inputs'.count \in 1..MaxInputs /\ inputs'.pending \subseteq 1..MaxInputs
        /\ acked \in 0..inputs'.count
    BY <1>1, <1>3, DeliveryAssumption
  <1>5. DeliveryTyped'
    <2>1. inputs' \in [pending : SUBSET (1..MaxInputs), count : 1..MaxInputs]
      BY <1>3, <1>4
    <2> QED BY <1>2, <1>4, <2>1 DEF SendToRun, DeliveryInv, DeliveryTyped
  <1>6. InputsInv'
    <2>1. inputs.pending = 1..inputs.count => inputs'.pending = 1..inputs'.count
      BY <1>1, <1>3
    <2> QED BY <1>2, <2>1 DEF SendToRun, DeliveryInv, InputsInv
  <1>7. AttemptsInv'
    BY <1>2 DEF SendToRun, DeliveryInv, AttemptsInv, Plain, Frontier
  <1>8. Calm
    <2>1. inputs'.count >= inputs.count
      BY <1>1, <1>3
    <2> QED BY <1>2, <2>1 DEF SendToRun, Calm
  <1> QED BY <1>5, <1>6, <1>7, <1>8, CalmElsewhere DEF SendToRun

LEMMA WithdrawRunInputKeeps ==
    ASSUME DeliveryInv, WithdrawRunInput, UNCHANGED scene
    PROVE  DeliveryInv'
  <1>1. /\ run \in RunRows
        /\ inputs \in [pending : SUBSET (1..MaxInputs), count : 1..MaxInputs]
    BY DEF DeliveryInv, DeliveryTyped
  <1>2. /\ run' \in RunRows /\ run'.state = run.state /\ run'.generation = run.generation
        /\ run.state \notin Terminal
    BY <1>1 DEF WithdrawRunInput, RunRows
  <1>3. /\ inputs' \in [pending : SUBSET (1..MaxInputs), count : 1..MaxInputs]
        /\ inputs'.count = inputs.count
    BY <1>1 DEF WithdrawRunInput
  <1>4. DeliveryTyped'
    BY <1>2, <1>3 DEF WithdrawRunInput, DeliveryInv, DeliveryTyped
  <1>5. InputsInv'
    BY <1>2 DEF WithdrawRunInput, DeliveryInv, InputsInv
  <1>6. AttemptsInv'
    BY <1>2 DEF WithdrawRunInput, DeliveryInv, AttemptsInv, Plain, Frontier
  <1>7. Calm
    <2>1. inputs'.count >= inputs.count
      BY <1>1, <1>3
    <2> QED BY <1>2, <2>1 DEF WithdrawRunInput, Calm
  <1> QED BY <1>4, <1>5, <1>6, <1>7, CalmElsewhere DEF WithdrawRunInput

LEMMA ExpireKeeps ==
    ASSUME DeliveryInv, Expire, UNCHANGED scene, faults' \in 0..MaxFaults
    PROVE  DeliveryInv'
  <1>1. lease' \in [holder : Hosts \cup {Nobody}, live : BOOLEAN] /\ ~lease'.live
    BY DEF Expire, DeliveryInv, DeliveryTyped
  <1>2. DeliveryTyped'
    BY <1>1 DEF Expire, DeliveryInv, DeliveryTyped
  <1>3. InputsInv' /\ AttemptsInv'
    BY DEF Expire, DeliveryInv, InputsInv, AttemptsInv, Plain, Frontier
  <1>4. Calm
    <2>1. inputs'.count >= inputs.count
      BY DEF Expire, DeliveryInv, DeliveryTyped
    <2> QED BY <1>1, <2>1 DEF Expire, Calm
  <1> QED BY <1>2, <1>3, <1>4, CalmElsewhere DEF Expire

-----------------------------------------------------------------------------
(* Steps that start, send, acknowledge or give an attempt up *)

\* What a step must not do to Host g in the state r.
Undisturbed(g, r) ==
    /\ scene' = scene
    /\ acked' >= acked
    /\ inputs'.count >= inputs.count
    /\ Authority(g)' => Authority(g) /\ acked' = acked
    /\ Authority(g)' /\ Clear(r.ev) => Clear(r.ev)'
    /\ run.state \in Terminal => run'.state \in Terminal
    /\ Plain /\ acked' = acked /\ (Authority(g)' \/ (r.term /\ r.ev = Frontier)) =>
          (run'.state = "Active" => run.state = "Active")
    /\ DOMAIN acts \subseteq DOMAIN acts'
    /\ \A t \in DOMAIN attempts :
          /\ t \in DOMAIN attempts'
          /\ attempts'[t].event = attempts[t].event
          /\ attempts'[t].act = attempts[t].act
    /\ Plain /\ r.pc \in Unsent => ~attempts'[r.att].unstarted
    /\ Plain /\ (r.alive \/ r.term \/ r.pc \in Unsent \cup {"executing", "failing", "wait"}) =>
          sent'[r.ev] = sent[r.ev]

LEMMA UndisturbedHost ==
    ASSUME DeliveryTyped, DeliveryTyped', NEW g \in Hosts, NEW r \in HostRows,
           HostOk(g, r), Undisturbed(g, r)
    PROVE  HostOk(g, r)'
  <1>1. (Plain' <=> Plain) /\ scene' = scene
    BY DEF Undisturbed, Plain
  <1>2. acked \in Nat /\ acked' \in Nat /\ acked' >= acked /\ r.ev \in Nat
        /\ inputs.count \in Nat /\ inputs'.count \in Nat /\ inputs'.count >= inputs.count
    <2>1. acked \in Nat /\ inputs.count \in Nat
      BY DEF DeliveryTyped
    <2>2. acked' \in Nat /\ inputs'.count \in Nat
      BY DEF DeliveryTyped
    <2>3. r.ev \in Nat
      BY DEF HostRows
    <2> QED BY <2>1, <2>2, <2>3 DEF Undisturbed
  <1>3. Authority(g)' => Authority(g) /\ acked' = acked
    BY DEF Undisturbed
  <1>4. /\ r.pc \in Working => /\ r.ev \in 1..inputs'.count /\ r.ev <= Frontier'
                               /\ Authority(g)' => r.ev = Frontier'
        /\ r.pc \in {"idle", "down"} => ~r.alive /\ ~r.term
    BY <1>2, <1>3 DEF HostOk, Frontier
  <1>5. /\ r.pc = "started" => r.act \in DOMAIN acts'
        /\ r.pc = "empty" /\ ~scene'.withdrawals => run'.state \in Terminal
    BY <1>1 DEF HostOk, Undisturbed
  <1>6. ASSUME Plain
        PROVE  /\ r.pc \in Unsent \cup {"executing", "completing"} =>
                     r.att \in DOMAIN attempts' /\ attempts'[r.att].event = r.ev
               /\ r.pc \in Unsent =>
                     /\ sent'[r.ev] = 0 /\ ~attempts'[r.att].unstarted
                     /\ attempts'[r.att].act = r.act
               /\ r.alive \/ r.term \/ r.pc \in {"executing", "failing", "wait"} =>
                     sent'[r.ev] = 1
               /\ r.pc \in {"completing", "finishing"} => r.term
    BY <1>6 DEF HostOk, Undisturbed
  <1>7. ASSUME Plain
        PROVE  r.term /\ r.ev = Frontier' => run'.state # "Active"
    <2>1. r.term => r.pc \in Working
      BY DEF HostOk, HostRows
    <2>2. r.term => r.ev <= acked + 1
      BY <2>1 DEF HostOk, Frontier
    <2>3. r.term /\ r.ev = Frontier' => acked' = acked /\ r.ev = Frontier
      <3> SUFFICES ASSUME r.term, r.ev = Frontier'
                   PROVE  acked' = acked /\ r.ev = Frontier
        OBVIOUS
      <3>1. r.ev = acked' + 1 /\ r.ev <= acked + 1
        BY <2>2 DEF Frontier
      <3>2. acked' = acked
        <4>1. \A a, b, e \in Nat : b >= a /\ e = b + 1 /\ e <= a + 1 => b = a
          OBVIOUS
        <4> QED BY <1>2, <3>1, <4>1
      <3> QED BY <3>1, <3>2 DEF Frontier
    <2> QED BY <1>7, <2>3 DEF HostOk, Undisturbed
  <1>8. ASSUME Plain, Authority(g)'
        PROVE  /\ r.pc \in {"start", "started", "admit"} => Clear(r.ev)'
               /\ r.pc = "decide" => ViewOk(r)'
               /\ r.pc \in {"reconcile", "acking"} /\ ~scene'.withdrawals =>
                     run'.state # "Active"
    <2>1. Authority(g) /\ acked' = acked
      BY <1>3, <1>8
    <2>2. run'.state = "Active" => run.state = "Active"
      <3> DEFINE back == run'.state = "Active" => run.state = "Active"
      <3> DEFINE late == r.term /\ r.ev = Frontier
      <3>1. Plain /\ acked' = acked /\ (Authority(g)' \/ late) => back
        BY DEF Undisturbed
      <3>2. Plain /\ acked' = acked /\ Authority(g)'
        BY <1>8, <2>1
      <3> HIDE DEF back, late
      <3>3. back
        BY ONLY <3>1, <3>2
      <3> QED BY <3>3 DEF back
    <2>3. run.state \in Terminal => run'.state \in Terminal
      BY DEF Undisturbed
    <2>4. Clear(r.ev) => Clear(r.ev)'
      BY <1>8 DEF Undisturbed
    <2>5. ViewOk(r) => ViewOk(r)'
      BY <1>1, <2>2, <2>3, <2>4 DEF ViewOk
    <2> QED BY <1>1, <1>8, <2>1, <2>2, <2>4, <2>5 DEF HostOk
  <1> QED BY <1>1, <1>4, <1>5, <1>6, <1>7, <1>8 DEF HostOk

\* One Host moves, and the others are not disturbed.
LEMMA OthersUndisturbed ==
    ASSUME DeliveryInv, DeliveryTyped',
           NEW h \in Hosts, NEW row \in HostRows, host' = [host EXCEPT ![h] = row],
           HostOk(h, row)',
           \A g \in Hosts \ {h}, r \in HostRows :
              r = host[g] /\ HostOk(g, r) => Undisturbed(g, r)
    PROVE  (\A g \in Hosts : HostOk(g, host[g]))'
  <1>1. /\ host'[h] = row
        /\ \A g \in Hosts \ {h} : host'[g] = host[g] /\ host[g] \in HostRows
    BY OneMoves DEF DeliveryInv, DeliveryTyped
  <1> SUFFICES ASSUME NEW g \in Hosts
               PROVE  HostOk(g, host[g])'
    OBVIOUS
  <1>2. CASE g = h
    <2>1. host'[g] = row
      BY <1>1, <1>2
    <2> QED BY ONLY HostOk(h, row)', <1>2, <2>1 DEF HostOk, ViewOk
  <1>3. CASE g # h
    <2>1. PICK r : r = host[g]
      OBVIOUS
    <2>2. HostOk(g, r) /\ r \in HostRows
      BY <1>1, <1>3, <2>1 DEF DeliveryInv
    <2>3. Undisturbed(g, r)
      BY <1>3, <2>1, <2>2
    <2>4. HostOk(g, r)'
      BY <2>2, <2>3, UndisturbedHost DEF DeliveryInv
    <2>5. r = host'[g]
      BY <1>1, <1>3, <2>1
    <2> QED BY ONLY <2>4, <2>5 DEF HostOk, ViewOk
  <1> QED BY <1>2, <1>3

\* A Host that is not about to send leaves the attempts to the others.
LEMMA StillOwnAttempts ==
    ASSUME DeliveryInv, NEW h \in Hosts, NEW row \in HostRows,
           host' = [host EXCEPT ![h] = row], row.pc \notin Unsent, UNCHANGED scene
    PROVE  OwnAttempts'
  <1>1. /\ host'[h] = row
        /\ \A g \in Hosts \ {h} : host'[g] = host[g]
    BY OneMoves DEF DeliveryInv, DeliveryTyped
  <1> QED BY <1>1 DEF OwnAttempts, DeliveryInv, Plain

LEMMA ClaimKeeps ==
    ASSUME DeliveryInv, NEW h \in Hosts, Claim(h), UNCHANGED scene
    PROVE  DeliveryInv'
  <1>1. UNCHANGED <<run, inputs, acts, attempts, acked, sent, faults, scene>>
        /\ host[h].pc = "idle" /\ host[h] \in HostRows
        /\ lease' = [holder |-> h, live |-> TRUE]
        /\ acked < inputs.count
    BY DEF Claim, At, DeliveryInv, DeliveryTyped
  <1>3. acked \in Nat /\ inputs.count \in Nat /\ Frontier \in 1..inputs.count
        /\ Frontier \in Nat
    BY <1>1 DEF DeliveryInv, DeliveryTyped, Frontier
  <1>2. PICK row \in HostRows :
            /\ host' = [host EXCEPT ![h] = row]
            /\ row.pc = "claimed" /\ row.ev = Frontier
            /\ row.term = host[h].term /\ row.alive = host[h].alive
    <2> DEFINE new == [host[h] EXCEPT !.pc = "claimed", !.ev = Frontier]
    <2>1. host' = [host EXCEPT ![h] = new]
      BY DEF Claim, DeliveryInv, DeliveryTyped
    <2>2. /\ new \in HostRows /\ new.pc = "claimed" /\ new.ev = Frontier
          /\ new.term = host[h].term /\ new.alive = host[h].alive
      BY <1>1, <1>3 DEF HostRows, Working
    <2> HIDE DEF new
    <2> QED BY <2>1, <2>2
  <1>5. ~row.term /\ ~row.alive
    BY <1>1, <1>2 DEF DeliveryInv, HostOk
  <1>6. Frontier' = Frontier /\ (Plain' <=> Plain)
    BY <1>1 DEF Frontier, Plain
  <1>7. DeliveryTyped'
    <2>1. host' \in [Hosts -> HostRows]
      BY <1>2, OneMoves DEF DeliveryInv, DeliveryTyped
    <2> QED BY <1>1, <2>1 DEF DeliveryInv, DeliveryTyped
  <1>8. InputsInv' /\ AttemptsInv' /\ SentInv' /\ EventToCome'
    BY <1>1, <1>6 DEF DeliveryInv, InputsInv, AttemptsInv, SentInv, EventToCome, Clear
  <1>9. OwnAttempts'
    BY <1>1, <1>2, StillOwnAttempts DEF Unsent
  <1>10. HostOk(h, row)'
    BY <1>1, <1>2, <1>3, <1>5, <1>6 DEF HostOk, Unsent, Working
  <1>11. \A g \in Hosts \ {h}, r \in HostRows :
         r = host[g] /\ HostOk(g, r) => Undisturbed(g, r)
    <2> SUFFICES ASSUME NEW g \in Hosts \ {h}, NEW r \in HostRows,
                        r = host[g], HostOk(g, r)
                 PROVE  Undisturbed(g, r)
      OBVIOUS
    <2>1. ~Authority(g)'
      BY <1>1 DEF Authority
    <2> QED BY <1>1, <1>3, <2>1 DEF Undisturbed, HostOk
  <1>12. (\A g \in Hosts : HostOk(g, host[g]))'
    BY <1>2, <1>7, <1>10, <1>11, OthersUndisturbed
  <1> QED BY <1>7, <1>8, <1>9, <1>12 DEF DeliveryInv

\* An event is acknowledged by the Host that holds its lease, after its inputs
\* were dealt with.
LEMMA AcknowledgeKeeps ==
    ASSUME DeliveryInv, NEW h \in Hosts, Acknowledge(h), UNCHANGED scene
    PROVE  DeliveryInv'
  <1>1. UNCHANGED <<run, inputs, acts, attempts, sent, faults, scene>>
        /\ host[h].pc = "acking" /\ EndPass(h)
    BY DEF Acknowledge, At
  <1>2. CASE ~Authority(h)
    <2>1. UNCHANGED <<kernelVars, sent, scene>> /\ faults' \in 0..MaxFaults
      BY <1>1, <1>2 DEF Acknowledge, kernelVars, DeliveryInv, DeliveryTyped
    <2> QED BY <1>1, <2>1, ThrowStep
  <1>3. CASE Authority(h)
    <2>1. acked' = acked + 1 /\ lease' = [holder |-> Nobody, live |-> FALSE]
      BY <1>3 DEF Acknowledge
    <2>2. HostOk(h, host[h]) /\ host[h].pc \in Working
      BY <1>1 DEF DeliveryInv, Working
    <2>3. acked \in Nat /\ inputs.count \in Nat /\ acked + 1 <= inputs.count
          /\ Frontier = acked + 1 /\ Frontier' = acked + 2
      BY <1>3, <2>1, <2>2 DEF HostOk, Frontier, DeliveryInv, DeliveryTyped
    <2>4. PICK row \in {Down, Idle} : host' = [host EXCEPT ![h] = row]
      BY <1>1 DEF EndPass
    <2>5. row \in HostRows /\ row.pc \notin Unsent
      <3>1. row \in HostRows
        BY DownRow
      <3>2. Down.pc \notin Unsent /\ Idle.pc \notin Unsent
        BY DEF Down, Idle, Unsent
      <3> QED BY <3>1, <3>2
    <2>6. HostOk(h, row)'
      BY DEF HostOk, Down, Idle, Working, Unsent
    <2>7. DeliveryTyped'
      <3>1. host' \in [Hosts -> HostRows]
        BY <2>4, <2>5, OneMoves DEF DeliveryInv, DeliveryTyped
      <3>2. acked' \in 0..inputs'.count
        BY <1>1, <2>1, <2>3
      <3> QED BY <1>1, <2>1, <3>1, <3>2 DEF DeliveryInv, DeliveryTyped
    <2>8. InputsInv' /\ SentInv'
      BY <1>1 DEF DeliveryInv, InputsInv, SentInv, Clear, Plain
    <2>9. AttemptsInv'
      <3>1. \A t \in DOMAIN attempts : attempts[t].event \in 1..(acked + 1)
        BY <2>3 DEF DeliveryInv, AttemptsInv
      <3>2. \A t \in DOMAIN attempts :
               attempts[t].event \in 1..(acked + 2) /\ attempts[t].event # acked + 2
        BY <2>3, <3>1
      <3> QED BY <1>1, <2>3, <3>2 DEF DeliveryInv, AttemptsInv, Plain
    <2>10. EventToCome'
      BY <1>1, <1>3, <2>2 DEF HostOk, EventToCome, Plain
    <2>11. OwnAttempts'
      BY <1>1, <2>4, <2>5, StillOwnAttempts
    <2>12. \A g \in Hosts \ {h}, r \in HostRows :
           r = host[g] /\ HostOk(g, r) => Undisturbed(g, r)
      <3> SUFFICES ASSUME NEW g \in Hosts \ {h}, NEW r \in HostRows,
                          r = host[g], HostOk(g, r)
                   PROVE  Undisturbed(g, r)
        OBVIOUS
      <3>1. ~Authority(g)' /\ acked' >= acked /\ acked' # acked
            /\ inputs'.count >= inputs.count
        BY <1>1, <2>1, <2>3 DEF Authority
      <3> QED BY <1>1, <3>1 DEF Undisturbed, HostOk
    <2>13. (\A g \in Hosts : HostOk(g, host[g]))'
      BY <2>4, <2>5, <2>6, <2>7, <2>12, OthersUndisturbed
    <2> QED BY <2>7, <2>8, <2>9, <2>10, <2>11, <2>13 DEF DeliveryInv
  <1> QED BY <1>2, <1>3

\* A sequence with one element more.
LEMMA Appended ==
    ASSUME NEW S, NEW s \in Seq(S), NEW row \in S, NEW f, f = Append(s, row)
    PROVE  /\ f \in Seq(S)
           /\ DOMAIN f = 1..(Len(s) + 1) /\ DOMAIN s = 1..Len(s) /\ Len(s) \in Nat
           /\ f[Len(s) + 1] = row
           /\ \A u \in DOMAIN s : f[u] = s[u]
  OBVIOUS

\* An Activation starts only while nothing was given to the Provider for the
\* event at the frontier, hence no Host decided anything for it.
LEMMA StartActivationKeeps ==
    ASSUME DeliveryInv, NEW h \in Hosts, StartActivation(h), UNCHANGED scene
    PROVE  DeliveryInv'
  <1>1. UNCHANGED <<inputs, attempts, acked, lease, sent, faults, scene>>
        /\ host[h].pc = "start" /\ host[h] \in HostRows
    BY DEF StartActivation, At, DeliveryInv, DeliveryTyped
  <1>2. HostOk(h, host[h]) /\ host[h].pc \in Working
    BY <1>1 DEF DeliveryInv, Working
  <1>3. CASE Throw(h) /\ UNCHANGED <<run, acts>>
    <2>1. UNCHANGED <<kernelVars, sent, scene>> /\ faults' \in 0..MaxFaults
      BY <1>1, <1>3 DEF kernelVars, DeliveryInv, DeliveryTyped
    <2> QED BY <1>3, <2>1, ThrowStep
  <1>4. CASE ~(Throw(h) /\ UNCHANGED <<run, acts>>)
    <2> DEFINE new == [by |-> "", revoked |-> FALSE, supplied |-> inputs.count]
    <2>1. /\ Authority(h) /\ run.state \notin Terminal
          /\ host' = [host EXCEPT ![h].pc = "started", ![h].act = Len(acts) + 1]
          /\ acts' = Append(Revoked, new)
          /\ run' = [state |-> "Active",
                     revision |-> IF run.state = "Waiting" THEN run.revision + 1
                                  ELSE run.revision,
                     generation |-> run.generation + 1]
      BY <1>4 DEF StartActivation
    <2>2. /\ acked \in Nat /\ inputs.count \in Nat /\ inputs.count >= 1
          /\ acts \in Seq(ActRows) /\ run \in RunRows
      BY DEF DeliveryInv, DeliveryTyped
    <2>3. host[h].ev = Frontier /\ Frontier = acked + 1 /\ acked + 1 <= inputs.count
          /\ Frontier \in 1..MaxInputs
      <3>1. host[h].ev = Frontier /\ host[h].ev \in 1..inputs.count
        BY <1>2, <2>1 DEF HostOk
      <3>2. inputs.count \in 1..MaxInputs
        BY DEF DeliveryInv, DeliveryTyped
      <3>3. Frontier = acked + 1
        BY DEF Frontier
      <3> QED BY <2>2, <3>1, <3>2, <3>3, DeliveryAssumption
    <2>4. Plain => Clear(Frontier) /\ sent[Frontier] # 1
      BY <1>1, <1>2, <2>1, <2>3 DEF HostOk, DeliveryInv, SentInv
    <2>5. /\ acts' \in Seq(ActRows)
          /\ DOMAIN acts \subseteq DOMAIN acts' /\ Len(acts) + 1 \in DOMAIN acts'
          /\ Len(acts) + 1 \in Nat
          /\ \A a \in DOMAIN acts' : acts'[a].supplied >= 1
      <3>1. /\ Revoked \in Seq(ActRows)
            /\ DOMAIN Revoked = DOMAIN acts
            /\ \A a \in DOMAIN acts : Revoked[a].supplied = acts[a].supplied
        BY <2>2, RevokedActs
      <3>2. \A a \in DOMAIN acts : acts[a].supplied >= 1
        BY DEF DeliveryInv, InputsInv
      <3>3. new \in ActRows /\ new.supplied >= 1
        BY <2>2 DEF ActRows
      <3> HIDE DEF new
      <3>4. PICK f : f = acts'
        OBVIOUS
      <3>5. PICK s : s = Revoked
        OBVIOUS
      <3>6. /\ f \in Seq(ActRows)
            /\ DOMAIN f = 1..(Len(s) + 1) /\ DOMAIN s = 1..Len(s) /\ Len(s) \in Nat
            /\ f[Len(s) + 1] = new
            /\ \A u \in DOMAIN s : f[u] = s[u]
        BY <2>1, <3>1, <3>3, <3>4, <3>5, Appended
      <3>7. Len(s) = Len(acts)
        <4>1. DOMAIN acts = 1..Len(acts) /\ Len(acts) \in Nat
          BY <2>2
        <4>2. \A n, m \in Nat : 1..n = 1..m => n = m
          <5>1. \A n, m \in Nat : 1..n = 1..m => n <= m
            OBVIOUS
          <5>2. \A n, m \in Nat : n <= m /\ m <= n => n = m
            OBVIOUS
          <5> QED BY ONLY <5>1, <5>2, Zenon
        <4>3. 1..Len(s) = 1..Len(acts)
          BY ONLY <3>1, <3>5, <3>6, <4>1
        <4> QED BY ONLY <3>6, <4>1, <4>2, <4>3, Zenon
      <3>8. \A a \in DOMAIN f : a \in DOMAIN s \/ a = Len(s) + 1
        BY <3>6
      <3> QED BY <3>1, <3>2, <3>3, <3>4, <3>5, <3>6, <3>7, <3>8
    <2>6. PICK row \in HostRows :
              /\ host' = [host EXCEPT ![h] = row]
              /\ row.pc = "started" /\ row.act = Len(acts) + 1 /\ row.ev = host[h].ev
              /\ row.term = host[h].term /\ row.alive = host[h].alive
      <3> DEFINE next == [host[h] EXCEPT !.pc = "started", !.act = Len(acts) + 1]
      <3>1. host' = [host EXCEPT ![h] = next]
        BY <2>1 DEF DeliveryInv, DeliveryTyped
      <3>2. /\ next \in HostRows /\ next.pc = "started" /\ next.act = Len(acts) + 1
            /\ next.ev = host[h].ev
            /\ next.term = host[h].term /\ next.alive = host[h].alive
        BY <1>1, <2>5 DEF HostRows, Working
      <3> HIDE DEF next
      <3> QED BY <3>1, <3>2
    <2>7. run' \in RunRows /\ run'.state = "Active" /\ run'.state \notin Terminal
      <3> DEFINE revision == IF run.state = "Waiting" THEN run.revision + 1 ELSE run.revision
      <3>1. revision \in Nat /\ run.generation + 1 \in Nat
        BY <2>2 DEF RunRows
      <3> HIDE DEF revision
      <3>2. run' = [state |-> "Active", revision |-> revision, generation |-> run.generation + 1]
        BY <2>1 DEF revision
      <3> QED BY <3>1, <3>2 DEF RunRows, Terminal
    <2>8. Frontier' = Frontier /\ (Plain' <=> Plain)
          /\ \A i : Clear(i)' <=> Clear(i)
      BY <1>1 DEF Frontier, Plain, Clear
    <2>9. DeliveryTyped'
      <3>1. host' \in [Hosts -> HostRows]
        BY <2>6, OneMoves DEF DeliveryInv, DeliveryTyped
      <3> QED BY <1>1, <2>5, <2>7, <3>1 DEF DeliveryInv, DeliveryTyped
    <2>10. InputsInv'
      BY <1>1, <2>1, <2>5, <2>7 DEF DeliveryInv, InputsInv
    <2>11. AttemptsInv'
      <3>1. Plain => \A t \in DOMAIN attempts :
                        attempts[t].event = Frontier => attempts[t].unstarted
        BY <2>4 DEF Clear
      <3> QED BY <1>1, <2>8, <3>1 DEF DeliveryInv, AttemptsInv
    <2>12. SentInv'
      BY <1>1, <2>8 DEF DeliveryInv, SentInv
    <2>13. EventToCome'
      BY <1>1, <2>2, <2>3 DEF EventToCome
    <2>14. OwnAttempts'
      BY <1>1, <2>6, StillOwnAttempts DEF Unsent
    <2>15. HostOk(h, row)'
      <3>1. row.ev = Frontier /\ row.ev \in 1..inputs.count
        BY <2>2, <2>3, <2>6
      <3>2. Plain => ~row.term /\ ~row.alive
        BY <1>2, <2>3, <2>4, <2>6 DEF HostOk
      <3> QED BY <1>1, <2>2, <2>3, <2>4, <2>5, <2>6, <2>8, <3>1, <3>2
              DEF HostOk, Unsent, Working
    <2>16. \A g \in Hosts \ {h}, r \in HostRows :
           r = host[g] /\ HostOk(g, r) => Undisturbed(g, r)
      <3> SUFFICES ASSUME NEW g \in Hosts \ {h}, NEW r \in HostRows,
                          r = host[g], HostOk(g, r)
                   PROVE  Undisturbed(g, r)
        OBVIOUS
      <3>1. ~Authority(g)'
        BY <1>1, <2>1 DEF Authority
      <3>2. Plain /\ r.ev = Frontier => ~r.term
        BY <2>4 DEF HostOk
      <3>3. Plain /\ r.pc \in Unsent => ~attempts[r.att].unstarted
        BY DEF HostOk
      <3>4. scene' = scene /\ acked' >= acked /\ inputs'.count >= inputs.count
        BY <1>1, <2>2
      <3>5. run.state \notin Terminal /\ DOMAIN acts \subseteq DOMAIN acts'
        BY <2>1, <2>5
      <3> QED BY <1>1, <3>1, <3>2, <3>3, <3>4, <3>5 DEF Undisturbed
    <2>17. (\A g \in Hosts : HostOk(g, host[g]))'
      BY <2>6, <2>9, <2>15, <2>16, OthersUndisturbed
    <2> QED BY <2>9, <2>10, <2>11, <2>12, <2>13, <2>14, <2>17 DEF DeliveryInv
  <1> QED BY <1>3, <1>4

\* Who starts a ProviderAttempt holds the lease of an event for which nothing
\* was given to the Provider.
LEMMA StartProviderAttemptKeeps ==
    ASSUME DeliveryInv, NEW h \in Hosts, StartProviderAttempt(h), UNCHANGED scene
    PROVE  DeliveryInv'
  <1>1. UNCHANGED <<run, inputs, acts, acked, lease, sent, faults, scene>>
        /\ host[h].pc = "admit" /\ host[h] \in HostRows
    BY DEF StartProviderAttempt, At, DeliveryInv, DeliveryTyped
  <1>2. HostOk(h, host[h]) /\ host[h].pc \in Working
    BY <1>1 DEF DeliveryInv, Working
  <1>3. CASE Throw(h) /\ UNCHANGED attempts
    <2>1. UNCHANGED <<kernelVars, sent, scene>> /\ faults' \in 0..MaxFaults
      BY <1>1, <1>3 DEF kernelVars, DeliveryInv, DeliveryTyped
    <2> QED BY <1>3, <2>1, ThrowStep
  <1>4. CASE ~(Throw(h) /\ UNCHANGED attempts)
    <2> DEFINE new == [act |-> host[h].act, event |-> host[h].ev, status |-> "Started",
                       by |-> "", unstarted |-> FALSE]
               n == Len(attempts) + 1
    <2>1. /\ Authority(h) /\ run.generation = host[h].act
          /\ host' = [host EXCEPT ![h].pc = "attempted", ![h].att = n]
          /\ attempts' = Append(attempts, new)
      BY <1>4 DEF StartProviderAttempt, Live
    <2>2. /\ new \in AttemptRows
          /\ new.act = run.generation /\ new.act = host[h].act /\ new.event = host[h].ev
          /\ new.status = "Started" /\ ~new.unstarted
      <3>1. host[h].act \in Nat /\ host[h].ev \in Nat
        BY <1>1 DEF HostRows
      <3> QED BY <2>1, <3>1 DEF AttemptRows
    <2>3. PICK row \in HostRows :
              /\ host' = [host EXCEPT ![h] = row]
              /\ row.pc = "attempted" /\ row.att = n
              /\ row.ev = host[h].ev /\ row.act = host[h].act
              /\ row.term = host[h].term /\ row.alive = host[h].alive
      <3> DEFINE next == [host[h] EXCEPT !.pc = "attempted", !.att = n]
      <3>1. host' = [host EXCEPT ![h] = next]
        BY <2>1 DEF DeliveryInv, DeliveryTyped
      <3>2. n \in Nat
        BY DEF DeliveryInv, DeliveryTyped
      <3> HIDE DEF n
      <3>3. /\ next \in HostRows /\ next.pc = "attempted" /\ next.att = n
            /\ next.ev = host[h].ev /\ next.act = host[h].act
            /\ next.term = host[h].term /\ next.alive = host[h].alive
        BY <1>1, <3>2 DEF HostRows, Working
      <3> HIDE DEF next
      <3> QED BY <3>1, <3>3
    <2> HIDE DEF new
    <2>4. /\ attempts' \in Seq(AttemptRows) /\ n \in Nat /\ n > 0
          /\ DOMAIN attempts' = 1..n /\ DOMAIN attempts = 1..(n - 1)
          /\ attempts'[n] = new
          /\ \A t \in DOMAIN attempts : t \in DOMAIN attempts' /\ attempts'[t] = attempts[t]
      <3>1. PICK f : f = attempts'
        OBVIOUS
      <3>2. attempts \in Seq(AttemptRows)
        BY DEF DeliveryInv, DeliveryTyped
      <3>3. /\ f \in Seq(AttemptRows)
            /\ DOMAIN f = 1..(Len(attempts) + 1) /\ DOMAIN attempts = 1..Len(attempts)
            /\ Len(attempts) \in Nat
            /\ f[Len(attempts) + 1] = new
            /\ \A u \in DOMAIN attempts : f[u] = attempts[u]
        BY <2>1, <2>2, <3>1, <3>2, Appended
      <3> QED BY <3>1, <3>3
    <2> HIDE DEF n
    <2>5. host[h].ev = Frontier /\ host[h].ev \in 1..inputs.count
          /\ Frontier \in 1..MaxInputs
      <3>1. host[h].ev = Frontier /\ host[h].ev \in 1..inputs.count
        BY <1>2, <2>1 DEF HostOk
      <3>2. inputs.count \in 1..MaxInputs
        BY DEF DeliveryInv, DeliveryTyped
      <3> QED BY <3>1, <3>2, DeliveryAssumption
    <2>6. Plain => Clear(Frontier) /\ sent[Frontier] = 0
      <3>1. Plain => Clear(Frontier)
        BY <1>1, <1>2, <2>1, <2>5 DEF HostOk
      <3>2. sent[Frontier] \in Nat
        BY <2>5 DEF DeliveryInv, DeliveryTyped
      <3>3. Plain => sent[Frontier] <= 1 /\ sent[Frontier] # 1
        BY <2>5, <3>1 DEF DeliveryInv, SentInv
      <3> QED BY <3>1, <3>2, <3>3
    <2>7. Frontier' = Frontier /\ (Plain' <=> Plain)
          /\ \A i : Clear(i)' => Clear(i)
      BY <1>1, <2>4 DEF Frontier, Plain, Clear
    <2>8. DeliveryTyped'
      <3>1. host' \in [Hosts -> HostRows]
        BY <2>3, OneMoves DEF DeliveryInv, DeliveryTyped
      <3> QED BY <1>1, <2>4, <3>1 DEF DeliveryInv, DeliveryTyped
    <2>9. InputsInv' /\ EventToCome'
      BY <1>1 DEF DeliveryInv, InputsInv, EventToCome, Plain
    <2>10. AttemptsInv'
      <3>1. \A t \in DOMAIN attempts' : t = n \/ t \in DOMAIN attempts
        BY <2>4
      <3>2. Frontier \in 1..Frontier
        BY <2>5
      <3>3. \A t \in DOMAIN attempts' :
              /\ attempts'[t].event \in 1..Frontier
              /\ attempts'[t].unstarted =>
                    attempts'[t].status = "Failed"
                    /\ attempts'[t].by = "lease-budget-exhausted"
        BY <2>2, <2>4, <2>5, <3>1, <3>2 DEF DeliveryInv, AttemptsInv
      <3>4. ASSUME Plain, NEW t \in DOMAIN attempts', NEW u \in DOMAIN attempts',
                   t < u, attempts'[t].event = attempts'[u].event
            PROVE  attempts'[t].unstarted
        <4>1. t \in DOMAIN attempts /\ attempts'[t] = attempts[t]
          BY <2>4, <3>4
        <4>2. CASE u = n
          BY <2>2, <2>4, <2>5, <2>6, <3>4, <4>1, <4>2 DEF Clear
        <4>3. CASE u \in DOMAIN attempts
          BY <2>4, <3>4, <4>1, <4>3 DEF DeliveryInv, AttemptsInv
        <4> QED BY <3>1, <4>2, <4>3
      <3>5. ASSUME Plain, NEW t \in DOMAIN attempts', attempts'[t].event = Frontier,
                   ~attempts'[t].unstarted
            PROVE  attempts'[t].act = run.generation
                   /\ attempts'[t].status # "Completed"
        <4>1. t = n
          BY <2>4, <2>6, <3>1, <3>5 DEF Clear
        <4> QED BY <2>2, <2>4, <4>1
      <3> QED BY <1>1, <2>7, <3>3, <3>4, <3>5 DEF AttemptsInv
    <2>11. SentInv'
      BY <1>1, <2>7 DEF DeliveryInv, SentInv
    <2>12. OwnAttempts'
      <3>1. /\ host'[h] = row
            /\ \A g \in Hosts \ {h} : host'[g] = host[g]
        BY <2>3, OneMoves DEF DeliveryInv, DeliveryTyped
      <3>2. \A g \in Hosts : Plain /\ host[g].pc \in Unsent => host[g].att \in DOMAIN attempts
        BY DEF DeliveryInv, HostOk
      <3>3. n \notin DOMAIN attempts
        BY <2>4
      <3> QED BY <2>3, <2>7, <3>1, <3>2, <3>3 DEF OwnAttempts, DeliveryInv
    <2>13. HostOk(h, row)'
      <3>1. Plain => ~row.term /\ ~row.alive
        BY <1>2, <2>3, <2>5, <2>6 DEF HostOk
      <3>2. n \in DOMAIN attempts'
        BY <2>4
      <3> QED BY <1>1, <2>2, <2>3, <2>4, <2>5, <2>6, <2>7, <3>1, <3>2
              DEF HostOk, Unsent, Working
    <2>14. \A g \in Hosts \ {h}, r \in HostRows :
           r = host[g] /\ HostOk(g, r) => Undisturbed(g, r)
      <3> SUFFICES ASSUME NEW g \in Hosts \ {h}, NEW r \in HostRows,
                          r = host[g], HostOk(g, r)
                   PROVE  Undisturbed(g, r)
        OBVIOUS
      <3>1. ~Authority(g)'
        BY <1>1, <2>1 DEF Authority
      <3>2. Plain /\ r.pc \in Unsent => ~attempts'[r.att].unstarted
        BY <2>4 DEF HostOk
      <3>3. scene' = scene /\ acked' >= acked /\ inputs'.count >= inputs.count
        BY <1>1 DEF DeliveryInv, DeliveryTyped
      <3> QED BY <1>1, <2>4, <3>1, <3>2, <3>3 DEF Undisturbed
    <2>15. (\A g \in Hosts : HostOk(g, host[g]))'
      BY <2>3, <2>8, <2>13, <2>14, OthersUndisturbed
    <2> QED BY <2>8, <2>9, <2>10, <2>11, <2>12, <2>15 DEF DeliveryInv
  <1> QED BY <1>3, <1>4

\* The Host gives its own attempt up, and no other Host's.
LEMMA SettleNotStartedKeeps ==
    ASSUME DeliveryInv, NEW h \in Hosts, SettleNotStarted(h), UNCHANGED scene
    PROVE  DeliveryInv'
  <1> DEFINE t == host[h].att
             key == "lease-budget-exhausted"
  <1>1. UNCHANGED <<run, inputs, acts, acked, lease, sent, faults, scene>>
        /\ host[h].pc = "notStarted" /\ host[h] \in HostRows /\ Goto(h, "budget")
    BY DEF SettleNotStarted, At, DeliveryInv, DeliveryTyped
  <1>2. HostOk(h, host[h]) /\ host[h].pc \in Working /\ host[h].pc \in Unsent
    BY <1>1 DEF DeliveryInv, Working, Unsent
  <1>3. PICK row \in HostRows :
            /\ host' = [host EXCEPT ![h] = row]
            /\ row.pc = "budget"
            /\ Keeps(row, host[h])
    BY <1>1, GotoRow DEF Working
  <1>4. HostOk(h, row) /\ row.pc \notin Unsent
    BY <1>1, <1>2, <1>3 DEF HostOk, Keeps, Unsent, Working
  <1>5. CASE attempts' = attempts
    <2>1. OneSettled
      BY <1>5 DEF OneSettled
    <2> QED BY <1>1, <1>3, <1>4, <2>1, SettleStep
  <1>6. CASE attempts' # attempts
    <2>1. attempts \in Seq(AttemptRows)
      BY DEF DeliveryInv, DeliveryTyped
    <2>2. attempts[t].by = "" /\ t \in DOMAIN attempts
          /\ attempts' = [attempts EXCEPT ![t].status = "Failed", ![t].by = key,
                                          ![t].unstarted = TRUE]
      <3>1. attempts' = [attempts EXCEPT ![t].status = "Failed", ![t].by = key,
                                         ![t].unstarted = TRUE]
            /\ attempts[t].by = ""
        BY <1>6 DEF SettleNotStarted
      <3>2. CASE t \notin DOMAIN attempts
        <4>1. attempts = [u \in DOMAIN attempts |-> attempts[u]]
          BY <2>1
        <4> QED BY <1>6, <3>1, <3>2, <4>1
      <3> QED BY <3>1, <3>2
    <2> DEFINE old == attempts[t]
               new == [old EXCEPT !.status = "Failed", !.by = key, !.unstarted = TRUE]
    <2>3. old \in AttemptRows
      BY <2>1, <2>2, ElementOf
    <2>4. attempts' = [attempts EXCEPT ![t] = new]
      BY <2>1, <2>2
    <2> HIDE DEF old
    <2>5. /\ new \in AttemptRows
          /\ new.event = old.event /\ new.act = old.act
          /\ new.status = "Failed" /\ new.by = key /\ new.unstarted
      BY <2>3 DEF AttemptRows, SettleKeys, Settled
    <2> HIDE DEF new, t
    <2>6. /\ attempts' \in Seq(AttemptRows) /\ DOMAIN attempts' = DOMAIN attempts
          /\ attempts'[t] = new
          /\ \A u \in DOMAIN attempts \ {t} : attempts'[u] = attempts[u]
      <3>1. PICK f : f = attempts'
        OBVIOUS
      <3>2. /\ f \in Seq(AttemptRows)
            /\ DOMAIN f = DOMAIN attempts
            /\ f[t] = new
            /\ \A u \in DOMAIN attempts \ {t} : f[u] = attempts[u]
        <4>1. f = [attempts EXCEPT ![t] = new]
          BY <2>4, <3>1
        <4>2. t \in DOMAIN attempts /\ new \in AttemptRows
          BY <2>2, <2>5
        <4> QED BY ONLY <2>1, <4>1, <4>2, ReplacedAttempt
      <3> QED BY <3>1, <3>2
    <2>7. \A u \in DOMAIN attempts :
             /\ attempts'[u].event = attempts[u].event
             /\ attempts'[u].act = attempts[u].act
             /\ attempts[u].unstarted => attempts'[u].unstarted
             /\ u # t => attempts'[u] = attempts[u]
      BY <2>5, <2>6 DEF old
    <2>8. Plain => attempts[t].event = host[h].ev /\ sent[host[h].ev] = 0
      BY <1>2 DEF HostOk, t
    <2>9. Frontier' = Frontier /\ (Plain' <=> Plain)
          /\ \A i : Clear(i) => Clear(i)'
      BY <1>1, <2>6, <2>7 DEF Frontier, Plain, Clear
    <2>10. DeliveryTyped'
      <3>1. host' \in [Hosts -> HostRows]
        BY <1>3, OneMoves DEF DeliveryInv, DeliveryTyped
      <3> QED BY <1>1, <2>6, <3>1 DEF DeliveryInv, DeliveryTyped
    <2>11. InputsInv' /\ EventToCome'
      BY <1>1 DEF DeliveryInv, InputsInv, EventToCome, Plain
    <2>12. AttemptsInv'
      <3>1. \A u \in DOMAIN attempts :
              /\ attempts'[u].event \in 1..Frontier
              /\ attempts'[u].unstarted =>
                    attempts'[u].status = "Failed"
                    /\ attempts'[u].by = "lease-budget-exhausted"
        BY <2>5, <2>6, <2>7 DEF DeliveryInv, AttemptsInv
      <3>2. ASSUME Plain
            PROVE  /\ \A u, w \in DOMAIN attempts :
                         u < w /\ attempts'[u].event = attempts'[w].event
                         => attempts'[u].unstarted
                   /\ \A u \in DOMAIN attempts :
                         attempts'[u].event = Frontier /\ ~attempts'[u].unstarted =>
                            /\ attempts'[u].act = run.generation
                            /\ attempts'[u].status = "Completed" => run.state # "Active"
        BY <2>5, <2>6, <2>7, <3>2 DEF DeliveryInv, AttemptsInv
      <3> QED BY <1>1, <2>6, <2>9, <3>1, <3>2 DEF AttemptsInv
    <2>13. SentInv'
      <3> SUFFICES ASSUME Plain, NEW i \in 1..MaxInputs, sent[i] = 1
                   PROVE  ~Clear(i)'
        BY <1>1, <2>9 DEF SentInv, DeliveryInv
      <3>1. PICK u \in DOMAIN attempts : attempts[u].event = i /\ ~attempts[u].unstarted
        BY DEF DeliveryInv, SentInv, Clear
      <3>2. u # t
        BY <2>8, <3>1
      <3> QED BY <2>6, <2>7, <3>1, <3>2 DEF Clear
    <2>14. OwnAttempts'
      BY <1>1, <1>3, <1>4, StillOwnAttempts
    <2>15. HostOk(h, row)'
      <3>1. row.ev = host[h].ev /\ row.term = host[h].term /\ row.alive = host[h].alive
        BY <1>3 DEF Keeps
      <3> QED BY <1>1, <1>2, <1>3, <1>4, <2>9, <3>1 DEF HostOk, Unsent, Working, Authority
    <2>16. \A g \in Hosts \ {h}, r \in HostRows :
           r = host[g] /\ HostOk(g, r) => Undisturbed(g, r)
      <3> SUFFICES ASSUME NEW g \in Hosts \ {h}, NEW r \in HostRows,
                          r = host[g], HostOk(g, r)
                   PROVE  Undisturbed(g, r)
        OBVIOUS
      <3>1. Authority(g)' => Authority(g) /\ acked' = acked
        BY <1>1 DEF Authority
      <3>2. Plain /\ r.pc \in Unsent => ~attempts'[r.att].unstarted
        <4>1. Plain /\ r.pc \in Unsent => r.att # t
          BY <1>2 DEF DeliveryInv, OwnAttempts, t
        <4>2. Plain /\ r.pc \in Unsent =>
                 r.att \in DOMAIN attempts /\ ~attempts[r.att].unstarted
          BY DEF HostOk
        <4> QED BY <2>7, <4>1, <4>2
      <3>3. scene' = scene /\ acked' >= acked /\ inputs'.count >= inputs.count
        BY <1>1 DEF DeliveryInv, DeliveryTyped
      <3> QED BY <1>1, <2>6, <2>7, <2>9, <3>1, <3>2, <3>3 DEF Undisturbed
    <2>17. (\A g \in Hosts : HostOk(g, host[g]))'
      BY <1>3, <2>10, <2>15, <2>16, OthersUndisturbed
    <2> QED BY <2>10, <2>11, <2>12, <2>13, <2>14, <2>17 DEF DeliveryInv
  <1> QED BY <1>5, <1>6

\* The request is given to the Provider for a ProviderAttempt that nobody else
\* has, and that is the only one not known to be unstarted.
LEMMA ExecuteKeeps ==
    ASSUME DeliveryInv, NEW h \in Hosts, Execute(h), UNCHANGED scene
    PROVE  DeliveryInv'
  <1>1. UNCHANGED <<run, inputs, acts, attempts, acked, lease, faults, scene>>
        /\ host[h].pc = "admitted" /\ host[h] \in HostRows
    BY DEF Execute, At, kernelVars, DeliveryInv, DeliveryTyped
  <1>2. HostOk(h, host[h]) /\ host[h].pc \in Working /\ host[h].pc \in Unsent
    BY <1>1 DEF DeliveryInv, Working, Unsent
  <1>3. CASE ~Admitted(h)
    <2>1. UNCHANGED <<kernelVars, sent, scene>> /\ faults' \in 0..MaxFaults
      BY <1>1, <1>3 DEF Execute, kernelVars, DeliveryInv, DeliveryTyped
    <2> QED BY <1>3, <2>1, ThrowStep DEF Execute
  <1>4. CASE Admitted(h)
    <2> DEFINE ev == host[h].ev
               t == host[h].att
    <2>1. sent' = [sent EXCEPT ![ev] = @ + 1]
      BY <1>4 DEF Execute
    <2>2. PICK row \in HostRows :
              /\ host' = [host EXCEPT ![h] = row]
              /\ row.pc = "executing" /\ row.ev = ev /\ row.att = t
              /\ row.term = host[h].term
      <3> DEFINE rev == host[h].view.run.revision
                 next == [host[h] EXCEPT !.pc = "executing", !.alive = TRUE,
                                         !.rev = rev, !.view = NoView]
      <3>1. rev \in Nat
        BY <1>1 DEF HostRows, Views, RunRows
      <3>2. host' = [host EXCEPT ![h].pc = "executing", ![h].alive = TRUE,
                                 ![h].rev = rev, ![h].view = NoView]
        BY <1>4 DEF Execute
      <3> HIDE DEF rev
      <3>3. NoView \in Views
        BY DownRow
      <3> HIDE DEF NoView
      <3>4. host' = [host EXCEPT ![h] = next]
        BY <3>2 DEF DeliveryInv, DeliveryTyped
      <3>5. /\ next \in HostRows /\ next.pc = "executing" /\ next.ev = ev
            /\ next.att = t /\ next.term = host[h].term
        BY <1>1, <3>1, <3>3 DEF HostRows, Working
      <3> HIDE DEF next
      <3> QED BY <3>4, <3>5
    <2>3. ev \in 1..MaxInputs /\ sent \in [1..MaxInputs -> Nat]
      <3>1. ev \in 1..inputs.count /\ inputs.count \in 1..MaxInputs
        BY <1>2 DEF HostOk, DeliveryInv, DeliveryTyped
      <3> QED BY <3>1, DeliveryAssumption DEF DeliveryInv, DeliveryTyped
    <2>4. Plain => /\ t \in DOMAIN attempts /\ attempts[t].event = ev
                   /\ sent[ev] = 0 /\ ~attempts[t].unstarted
      BY <1>2 DEF HostOk
    <2> HIDE DEF ev, t
    <2>5. /\ sent' \in [1..MaxInputs -> Nat] /\ sent'[ev] = sent[ev] + 1
          /\ \A i : i # ev => sent'[i] = sent[i]
      <3>1. \A i : i # ev => sent'[i] = sent[i]
        <4> SUFFICES ASSUME NEW i, i # ev
                     PROVE  sent'[i] = sent[i]
          OBVIOUS
        <4>1. CASE i \in 1..MaxInputs
          BY <2>1, <2>3, <4>1
        <4>2. CASE i \notin 1..MaxInputs
          BY <2>1, <2>3, <4>2
        <4> QED BY <4>1, <4>2
      <3> QED BY <2>1, <2>3, <3>1
    <2>6. Frontier' = Frontier /\ (Plain' <=> Plain)
          /\ \A i : Clear(i)' <=> Clear(i)
      BY <1>1 DEF Frontier, Plain, Clear
    <2>7. DeliveryTyped'
      <3>1. host' \in [Hosts -> HostRows]
        BY <2>2, OneMoves DEF DeliveryInv, DeliveryTyped
      <3> QED BY <1>1, <2>5, <3>1 DEF DeliveryInv, DeliveryTyped
    <2>8. InputsInv' /\ AttemptsInv' /\ EventToCome'
      BY <1>1, <2>6 DEF DeliveryInv, InputsInv, AttemptsInv, EventToCome
    <2>9. SentInv'
      <3> SUFFICES ASSUME Plain, NEW i \in 1..MaxInputs
                   PROVE  sent'[i] <= 1 /\ (sent'[i] = 1 => ~Clear(i))
        BY <2>6 DEF SentInv
      <3>1. CASE i = ev
        BY <2>4, <2>5, <3>1 DEF Clear
      <3>2. CASE i # ev
        BY <2>5, <3>2 DEF SentInv, DeliveryInv
      <3> QED BY <3>1, <3>2
    <2>10. OwnAttempts'
      BY <1>1, <2>2, StillOwnAttempts DEF Unsent
    <2>11. HostOk(h, row)'
      <3>1. Plain => sent'[ev] = 1
        BY <2>4, <2>5
      <3> QED BY <1>1, <1>2, <2>2, <2>4, <2>6, <3>1 DEF HostOk, Unsent, Working, Authority, ev
    <2>12. \A g \in Hosts \ {h}, r \in HostRows :
              r = host[g] /\ HostOk(g, r) => Undisturbed(g, r)
      <3> SUFFICES ASSUME NEW g \in Hosts \ {h}, NEW r \in HostRows,
                          r = host[g], HostOk(g, r)
                   PROVE  Undisturbed(g, r)
        OBVIOUS
      <3>1. Authority(g)' => Authority(g) /\ acked' = acked
        BY <1>1 DEF Authority
      <3>2. Plain /\ r.pc \in Unsent =>
               r.att \in DOMAIN attempts /\ attempts[r.att].event = r.ev
               /\ ~attempts[r.att].unstarted
        BY DEF HostOk
      <3>3. Plain /\ r.pc \in Unsent => r.ev # ev
        <4> SUFFICES ASSUME Plain, r.pc \in Unsent, r.ev = ev
                     PROVE  FALSE
          OBVIOUS
        <4>1. r.att # t
          BY <1>2 DEF DeliveryInv, OwnAttempts, t
        <4>2. r.att \in Nat /\ t \in Nat
          BY <1>1 DEF HostRows, t
        <4>3. r.att < t \/ t < r.att
          BY <4>1, <4>2
        <4> QED BY <2>4, <3>2, <4>3 DEF DeliveryInv, AttemptsInv
      <3>4. Plain /\ (r.alive \/ r.term \/ r.pc \in {"executing", "failing", "wait"}) =>
               r.ev # ev
        BY <2>4 DEF HostOk
      <3>5. Plain /\ (r.alive \/ r.term \/ r.pc \in Unsent \cup {"executing", "failing", "wait"})
            => sent'[r.ev] = sent[r.ev]
        BY <2>5, <3>3, <3>4
      <3>6. scene' = scene /\ acked' >= acked /\ inputs'.count >= inputs.count
        BY <1>1 DEF DeliveryInv, DeliveryTyped
      <3> QED BY <1>1, <2>6, <3>1, <3>2, <3>5, <3>6 DEF Undisturbed
    <2>13. (\A g \in Hosts : HostOk(g, host[g]))'
      BY <2>2, <2>7, <2>11, <2>12, OthersUndisturbed
    <2> QED BY <2>7, <2>8, <2>9, <2>10, <2>13 DEF DeliveryInv
  <1> QED BY <1>3, <1>4

-----------------------------------------------------------------------------
(* The invariant of the delivery *)

LEMMA DeliveryInvInit ==
    ASSUME DeliveryInit
    PROVE  DeliveryInv
  <1>1. acts = << >> /\ attempts = << >> /\ acked = 0 /\ run.state = "Active"
        /\ inputs = [pending |-> {1}, count |-> 1] /\ host = [h \in Hosts |-> Down]
        /\ sent = [i \in 1..MaxInputs |-> 0]
    BY DEF DeliveryInit
  <1>2. acts \in Seq(ActRows) /\ attempts \in Seq(AttemptRows)
        /\ DOMAIN acts = {} /\ DOMAIN attempts = {}
    BY <1>1
  <1>3. DeliveryTyped
    <2>1. host \in [Hosts -> HostRows]
      BY <1>1, DownRow
    <2>2. run \in RunRows
      BY DEF DeliveryInit, RunRows
    <2>3. inputs \in [pending : SUBSET (1..MaxInputs), count : 1..MaxInputs]
      BY <1>1, DeliveryAssumption
    <2>4. scene \in [idempotent : BOOLEAN, withdrawals : BOOLEAN]
      <3>1. scene \in [idempotent : Adapters, withdrawals : Withdrawals]
        BY DEF DeliveryInit
      <3> QED BY <3>1, DeliveryAssumption
    <2>5. faults \in 0..MaxFaults /\ acked \in 0..inputs.count
      BY <1>1, DeliveryAssumption DEF DeliveryInit
    <2>6. lease \in [holder : Hosts \cup {Nobody}, live : BOOLEAN]
      BY DEF DeliveryInit
    <2>7. sent \in [1..MaxInputs -> Nat]
      BY <1>1
    <2> QED BY <1>2, <2>1, <2>2, <2>3, <2>4, <2>5, <2>6, <2>7 DEF DeliveryTyped
  <1>4. InputsInv
    BY <1>1, <1>2 DEF InputsInv, Terminal
  <1>5. AttemptsInv /\ SentInv
    BY <1>1, <1>2 DEF AttemptsInv, SentInv
  <1>6. OwnAttempts /\ EventToCome
    BY <1>1 DEF OwnAttempts, EventToCome, Unsent, Down, Idle
  <1>7. \A h \in Hosts : HostOk(h, host[h])
    BY <1>1, RestingHost
  <1> QED BY <1>3, <1>4, <1>5, <1>6, <1>7 DEF DeliveryInv

LEMMA DeliveryInvNext ==
    ASSUME DeliveryInv, [DeliveryNext]_deliveryVars
    PROVE  DeliveryInv'
  <1>1. CASE UNCHANGED deliveryVars
    <2>1. DeliveryTyped' /\ InputsInv' /\ AttemptsInv'
      BY <1>1 DEF deliveryVars, DeliveryInv, DeliveryTyped, InputsInv, AttemptsInv, Plain,
                  Frontier
    <2>2. SentInv' /\ OwnAttempts' /\ EventToCome'
      BY <1>1 DEF deliveryVars, DeliveryInv, SentInv, OwnAttempts, EventToCome, Clear, Plain
    <2>3. ASSUME NEW h \in Hosts
          PROVE  HostOk(h, host[h])'
      <3>1. HostOk(h, host[h])
        BY DEF DeliveryInv
      <3>2. UNCHANGED <<run, inputs, acts, attempts, acked, lease, sent, host, scene>>
        BY <1>1 DEF deliveryVars
      <3> QED BY ONLY <3>1, <3>2
              DEF HostOk, ViewOk, Clear, Plain, Frontier, Authority
    <2> QED BY <2>1, <2>2, <2>3 DEF DeliveryInv
  <1>2. CASE DeliveryNext
    <2> USE <1>2
    <2>1. UNCHANGED scene
      BY DEF DeliveryNext
    <2>2. ASSUME NEW h \in Hosts, HostStep(h)
          PROVE  DeliveryInv'
      <3>1. CASE Start(h) \/ Claim(h) \/ ReadEvent(h) \/ Decide(h)
        BY <2>1, <3>1, StartKeeps, ClaimKeeps, ReadEventKeeps, DecideKeeps
      <3>2. CASE SettleUncertain(h) \/ ExpireUncertain(h) \/ Requery(h) \/ Park(h)
        BY <2>1, <3>2, SettleUncertainKeeps, ExpireUncertainKeeps, RequeryKeeps, ParkKeeps
      <3>3. CASE ReconcileAttempt(h) \/ ReconcileActivation(h) \/ Reconciled(h)
                 \/ Acknowledge(h)
        BY <2>1, <3>3, ReconcileAttemptKeeps, ReconcileActivationKeeps, ReconciledKeeps,
           AcknowledgeKeeps
      <3>4. CASE StartActivation(h) \/ ReadActivation(h) \/ FinishEmpty(h)
                 \/ NoBudget(h) \/ FinishBeforeProvider(h)
        BY <2>1, <3>4, StartActivationKeeps, ReadActivationKeeps, FinishEmptyKeeps,
           NoBudgetKeeps, FinishBeforeProviderKeeps
      <3>5. CASE StartProviderAttempt(h) \/ FindStatus(h) \/ Execute(h)
                 \/ SettleNotStarted(h)
        BY <2>1, <3>5, StartProviderAttemptKeeps, FindStatusKeeps, ExecuteKeeps,
           SettleNotStartedKeeps
      <3>6. CASE Timeout(h) \/ MonitorAborts(h) \/ SettleCompleted(h)
                 \/ FinishCompleted(h)
        BY <2>1, <3>6, AbortKeeps, SettleCompletedKeeps, FinishCompletedKeeps
      <3>7. CASE FailureRead(h) \/ FailureWait(h) \/ SettleFailed(h) \/ FinishFailed(h)
        BY <2>1, <3>7, FailureReadKeeps, FailureWaitKeeps, SettleFailedKeeps,
           FinishFailedKeeps
      <3> QED BY <2>2, <3>1, <3>2, <3>3, <3>4, <3>5, <3>6, <3>7 DEF HostStep
    <2>3. ASSUME NEW h \in Hosts, NEW state \in {"Completed", "Failed", "Waiting"},
                 ProviderActs(h, state)
          PROVE  DeliveryInv'
      BY <2>1, <2>3, ProviderActsKeeps
    <2>4. ASSUME NEW h \in Hosts,
                 ProviderReturns(h) \/ BudgetExhausted(h) \/ Stop(h) \/ Crash(h)
          PROVE  DeliveryInv'
      BY <2>1, <2>4, ProviderReturnsKeeps, BudgetExhaustedKeeps, StopKeeps, CrashKeeps
    <2>5. CASE LeaseLost \/ LeaseLapses
      <3>1. Expire
        BY <2>5 DEF LeaseLost, LeaseLapses
      <3>2. faults' \in 0..MaxFaults
        BY <2>5, DeliveryAssumption
           DEF LeaseLost, LeaseLapses, Fault, DeliveryInv, DeliveryTyped
      <3> QED BY <2>1, <3>1, <3>2, ExpireKeeps
    <2>6. CASE SendToRun \/ WithdrawRunInput \/ CancelRun
      BY <2>1, <2>6, SendToRunKeeps, WithdrawRunInputKeeps, CancelRunKeeps
    <2> QED BY <2>2, <2>3, <2>4, <2>5, <2>6 DEF DeliveryNext, DeliveryStep
  <1> QED BY <1>1, <1>2

LEMMA DeliveryInvSafe ==
    ASSUME DeliveryInv
    PROVE  DeliverySafety
  <1>1. DeliveryTypeOK
    <2>1. inputs \in [pending : SUBSET (1..MaxInputs), count : 0..MaxInputs]
      BY DEF DeliveryInv, DeliveryTyped
    <2> QED BY <2>1 DEF DeliveryTypeOK, DeliveryInv, DeliveryTyped, RunRows, ActRows,
                        AttemptRows, HostRows
  <1>2. SentOnce
    BY DEF SentOnce, DeliveryInv, DeliveryTyped, SentInv, Plain
  <1>3. NoStrandedInput
    <2> SUFFICES ASSUME Plain, ~scene.withdrawals, run.state = "Active"
                 PROVE  \E n \in inputs.pending : n > acked
      BY DEF NoStrandedInput, Plain
    <2>1. inputs.pending = 1..inputs.count
      BY DEF DeliveryInv, InputsInv, Terminal
    <2>2. acked < inputs.count /\ acked \in Nat /\ inputs.count \in Nat
      BY DEF DeliveryInv, EventToCome, DeliveryTyped
    <2> QED BY <2>1, <2>2
  <1> QED BY <1>1, <1>2, <1>3 DEF DeliverySafety

(***************************************************************************)
(* Whatever Hosts, people, Providers and the clock do, in any number: a    *)
(* request that a Provider cannot recognize is sent to it at most once,    *)
(* and an Active Run with inputs has an event that announces one.          *)
(***************************************************************************)
THEOREM DeliveryIsAlwaysSafe == DeliverySpec => []DeliverySafety
  <1>1. DeliveryInit => DeliveryInv
    BY DeliveryInvInit
  <1>2. DeliveryInv /\ [DeliveryNext]_deliveryVars => DeliveryInv'
    BY DeliveryInvNext
  <1>3. DeliveryInv => DeliverySafety
    BY DeliveryInvSafe
  <1> QED BY <1>1, <1>2, <1>3, PTL DEF DeliverySpec

-----------------------------------------------------------------------------
(* One Host alone *)

\* A ProviderAttempt without an outcome
Open(t) == attempts[t].status = "Started"

NoneOpen == \A t \in DOMAIN attempts : ~Open(t)

\* View v shows what is open, under an unfinished Activation.
Shown(v) ==
    \A t \in DOMAIN attempts : Open(t) =>
        /\ t \in DOMAIN v.attempts
        /\ v.attempts[t].status = "Started"
        /\ v.attempts[t].act = attempts[t].act
        /\ \A u \in DOMAIN v.attempts : v.attempts[u].act = attempts[t].act => u = t
        /\ attempts[t].act \in DOMAIN v.acts
        /\ v.acts[attempts[t].act].by = ""

\* What is open is the attempt that processOutboxEvent looks at.
Found(r) ==
    \A t \in DOMAIN attempts : Open(t) =>
        /\ PriorAttempt(r.view, r.ev) = t
        /\ r.view.attempts[t].status = "Started"

Closed == {"start", "started", "empty", "admit", "expire", "requery", "budget",
           "park", "finishing", "finish", "acking"}

Owned == {"attempted", "admitted", "notStarted", "executing", "completing",
          "failing", "wait", "settle"}

\* What the only Host relies on, in the state r.
LoneOk(r) ==
    /\ r.pc \in Working => r.ev = Frontier
    /\ r.pc \in Closed => NoneOpen
    /\ r.pc \in Owned => \A t \in DOMAIN attempts : Open(t) => t = r.att
    /\ r.pc \in {"started", "admit"} =>
          /\ r.act \in DOMAIN acts
          /\ \A t \in DOMAIN attempts : attempts[t].act # r.act
    /\ r.pc = "decide" => Shown(r.view)
    /\ r.pc \in {"decide", "uncertain"} => Found(r)
    /\ r.pc = "reconcile" => Shown(r.view)

\* An open attempt is the last of all, for the event at the frontier, and its
\* Activation is not finished; no Activation has two.
OpenInv ==
    /\ \A t \in DOMAIN attempts :
          /\ attempts[t].by = "" <=> Open(t)
          /\ attempts[t].act \in DOMAIN acts
          /\ Open(t) =>
                /\ \A u \in DOMAIN attempts : u <= t
                /\ attempts[t].event = Frontier
                /\ acts[attempts[t].act].by = ""
    /\ \A t, u \in DOMAIN attempts : attempts[t].act = attempts[u].act => t = u

LoneInv ==
    /\ \A h \in Hosts \ {Host1} : host[h] = Down
    /\ OpenInv
    /\ LoneOk(host[Host1])

AloneInv == Alone => LoneInv

\* What such a step leaves of the Activations: those of open attempts stay
\* unfinished.
LoneActs ==
    /\ DOMAIN acts \subseteq DOMAIN acts'
    /\ \A t \in DOMAIN attempts : Open(t) => acts'[attempts[t].act].by = ""

LEMMA LoneStep ==
    ASSUME DeliveryInv, LoneInv, attempts' = attempts, acked' = acked, LoneActs,
           \A g \in Hosts \ {Host1} : host'[g] = host[g],
           NEW row \in HostRows, host' = [host EXCEPT ![Host1] = row], LoneOk(row)'
    PROVE  LoneInv'
  <1>1. host'[Host1] = row
    BY Host1Assumption, OneMoves DEF DeliveryInv, DeliveryTyped
  <1>2. OpenInv'
    BY DEF LoneInv, OpenInv, LoneActs, Open, Frontier
  <1>3. LoneOk(host[Host1])'
    BY ONLY <1>1, LoneOk(row)', Zenon DEF LoneOk, Found, Shown
  <1> QED BY <1>2, <1>3 DEF LoneInv

\* A Host at rest asks nothing.
LEMMA LoneRest == LoneOk(Down) /\ LoneOk(Idle)
  BY DEF LoneOk, Down, Idle, Working, Closed, Owned

LEMMA LoneRestStep ==
    ASSUME DeliveryInv, LoneInv, attempts' = attempts, acked' = acked, LoneActs,
           \A g \in Hosts \ {Host1} : host'[g] = host[g],
           Throw(Host1) \/ EndPass(Host1)
    PROVE  LoneInv'
  <1>1. PICK row \in {Down, Idle} : host' = [host EXCEPT ![Host1] = row]
    BY DEF Throw, EndPass
  <1>2. row \in HostRows
    BY DownRow
  <1>3. LoneOk(row)'
    BY DEF LoneOk, Down, Idle, Working, Closed, Owned
  <1> QED BY <1>1, <1>2, <1>3, LoneStep

\* The steps that take the Host to another place, without an attempt being
\* started, settled or acknowledged.
LEMMA LoneMoves ==
    ASSUME DeliveryInv, LoneInv, attempts' = attempts, acked' = acked, LoneActs,
           \A g \in Hosts \ {Host1} : host'[g] = host[g],
           NEW row \in HostRows, host' = [host EXCEPT ![Host1] = row],
           NEW r, r = host[Host1], r.pc \in Working, row.ev = r.ev,
           \/ /\ NoneOpen
              /\ row.pc \in (Closed \ {"started", "admit"}) \cup Owned \cup {"reconcile"}
           \/ /\ r.pc = "started" /\ row.pc = "admit" /\ row.act = r.act
           \/ /\ r.pc \in Owned /\ row.pc \in Owned /\ row.att = r.att
           \/ /\ row.pc = r.pc /\ row.view = r.view /\ row.act = r.act /\ row.att = r.att
    PROVE  LoneInv'
  <1>1. LoneOk(r)
    BY DEF LoneInv
  <1>2. LoneOk(row)
    <2>1. CASE /\ NoneOpen
               /\ row.pc \in (Closed \ {"started", "admit"}) \cup Owned \cup {"reconcile"}
      BY <1>1, <2>1 DEF LoneOk, NoneOpen, Closed, Owned, Shown
    <2>2. CASE r.pc = "started" /\ row.pc = "admit" /\ row.act = r.act
      BY <1>1, <2>2 DEF LoneOk, Closed, Owned
    <2>3. CASE r.pc \in Owned /\ row.pc \in Owned /\ row.att = r.att
      BY <1>1, <2>3 DEF LoneOk, Closed, Owned
    <2>4. CASE /\ row.pc = r.pc /\ row.view = r.view /\ row.act = r.act
               /\ row.att = r.att
      BY <1>1, <2>4 DEF LoneOk, Found
    <2> QED BY <2>1, <2>2, <2>3, <2>4
  <1>3. LoneOk(row)'
    BY <1>2 DEF LoneOk, LoneActs, NoneOpen, Open, Shown, Found, Frontier
  <1> QED BY <1>3, LoneStep

\* What leaves the Activations alone, or only revokes some, or comes when
\* nothing is open.
LEMMA LoneActsKept ==
    ASSUME DeliveryInv, LoneInv,
           \/ acts' = acts
           \/ acts' = Revoked
           \/ NoneOpen /\ DOMAIN acts \subseteq DOMAIN acts'
    PROVE  LoneActs
  <1>1. \A t \in DOMAIN attempts :
           attempts[t].act \in DOMAIN acts /\ (Open(t) => acts[attempts[t].act].by = "")
    BY DEF LoneInv, OpenInv
  <1>2. CASE acts' = acts
    BY <1>1, <1>2 DEF LoneActs
  <1>3. CASE acts' = Revoked
    <2>1. DOMAIN acts' = DOMAIN acts /\ \A a \in DOMAIN acts : acts'[a].by = acts[a].by
      BY <1>3, RevokedActs DEF DeliveryInv, DeliveryTyped
    <2> QED BY <1>1, <2>1 DEF LoneActs
  <1>4. CASE NoneOpen /\ DOMAIN acts \subseteq DOMAIN acts'
    BY <1>4 DEF LoneActs, NoneOpen
  <1> QED BY <1>2, <1>3, <1>4

\* A view that is taken now shows what is open, and where.
LEMMA LoneFresh ==
    ASSUME DeliveryInv, LoneInv
    PROVE  Shown(Projection)
  <1>1. Projection.attempts = attempts /\ Projection.acts = acts
    BY DEF Projection
  <1> QED BY <1>1 DEF Shown, LoneInv, OpenInv, Open

LEMMA LoneFound ==
    ASSUME DeliveryInv, LoneInv, NEW r \in HostRows, r.view = Projection, r.ev = Frontier
    PROVE  Found(r)
  <1> SUFFICES ASSUME NEW t \in DOMAIN attempts, Open(t)
               PROVE  PriorAttempt(r.view, r.ev) = t
    BY DEF Found, Projection, Open
  <1>1. r.view.attempts = attempts /\ r.view \in Views /\ r.ev \in Nat
    BY DEF Projection, HostRows
  <1>2. /\ \A u \in DOMAIN attempts : u <= t
        /\ attempts[t].event = r.ev
    BY DEF LoneInv, OpenInv
  <1>3. ~attempts[t].unstarted
    BY DEF DeliveryInv, AttemptsInv, Open
  <1> DEFINE last == LastAttempt(r.view, r.ev)
  <1>4. /\ last = 0 => \A u \in DOMAIN attempts : attempts[u].event # r.ev
        /\ last # 0 => /\ last \in DOMAIN attempts
                       /\ \A u \in DOMAIN attempts : attempts[u].event = r.ev => u <= last
    BY <1>1, LastAttemptIsLast
  <1>5. PriorAttempt(r.view, r.ev) =
           IF last # 0 /\ attempts[last].unstarted THEN 0 ELSE last
    BY <1>1 DEF PriorAttempt
  <1> HIDE DEF last
  <1>6. last \in DOMAIN attempts /\ last <= t /\ t <= last
    BY <1>2, <1>4
  <1>7. DOMAIN attempts \subseteq Nat
    BY DEF DeliveryInv, DeliveryTyped
  <1>8. last = t
    BY <1>6, <1>7
  <1> QED BY <1>3, <1>5, <1>8

\* The steps of the Host that leave the attempts alone
LEMMA LoneWalks ==
    ASSUME DeliveryInv, LoneInv, \A g \in Hosts \ {Host1} : host'[g] = host[g],
           \/ Start(Host1) \/ Claim(Host1) \/ ReadEvent(Host1) \/ Decide(Host1)
           \/ Requery(Host1) \/ Park(Host1) \/ ReadActivation(Host1)
           \/ NoBudget(Host1) \/ FindStatus(Host1) \/ Crash(Host1)
    PROVE  LoneInv'
  <1> USE Host1Assumption
  <1>1. PICK r \in HostRows : r = host[Host1]
    BY DEF DeliveryInv, DeliveryTyped
  <1>2. LoneOk(r)
    BY <1>1 DEF LoneInv
  <1>3. CASE Start(Host1) \/ Crash(Host1)
    <2>1. attempts' = attempts /\ acked' = acked /\ acts' = acts
          /\ (Throw(Host1) \/ EndPass(Host1))
      BY <1>3 DEF Start, Crash, kernelVars
    <2> QED BY <2>1, LoneActsKept, LoneRestStep
  <1>4. CASE Claim(Host1)
    <2>1. attempts' = attempts /\ acked' = acked /\ acts' = acts
      BY <1>4 DEF Claim
    <2> DEFINE row == [r EXCEPT !.pc = "claimed", !.ev = Frontier]
    <2>2. host' = [host EXCEPT ![Host1] = row]
      BY <1>1, <1>4 DEF Claim, DeliveryInv, DeliveryTyped
    <2>3. Frontier \in Nat
      BY DEF DeliveryInv, DeliveryTyped, Frontier
    <2>4. row \in HostRows /\ row.pc = "claimed" /\ row.ev = Frontier
      BY <2>3 DEF HostRows, Working
    <2>5. PICK row1 \in HostRows : row1 = row
      BY <2>4
    <2> HIDE DEF row
    <2>6. LoneOk(row1)'
      BY <2>1, <2>4, <2>5 DEF LoneOk, Closed, Owned, Frontier
    <2> QED BY <2>1, <2>2, <2>5, <2>6, LoneActsKept, LoneStep
  <1>5. CASE ReadEvent(Host1)
    <2>1. attempts' = attempts /\ acked' = acked /\ acts' = acts
      BY <1>5 DEF ReadEvent, kernelVars
    <2>2. CASE ~Authority(Host1)
      <3>1. EndPass(Host1)
        BY <1>5, <2>2 DEF ReadEvent
      <3> QED BY <2>1, <3>1, LoneActsKept, LoneRestStep
    <2>3. CASE Authority(Host1)
      <3>1. PICK row \in HostRows :
                /\ host' = [host EXCEPT ![Host1] = row]
                /\ row.pc = "decide" /\ row.view = Projection
                /\ Keeps(row, host[Host1])
        BY <1>5, <2>3, LookRow DEF ReadEvent, Working
      <3>2. row.ev = Frontier
        BY <1>1, <1>2, <1>5, <3>1 DEF ReadEvent, At, LoneOk, Working, Keeps
      <3>3. Shown(row.view) /\ Found(row)
        BY <3>1, <3>2, LoneFresh, LoneFound
      <3>4. LoneOk(row)'
        BY <2>1, <3>1, <3>2, <3>3 DEF LoneOk, Closed, Owned, Frontier, Shown, Found, Open
      <3> QED BY <2>1, <3>1, <3>4, LoneActsKept, LoneStep
    <2> QED BY <2>2, <2>3
  <1>6. CASE Decide(Host1)
    <2>1. attempts' = attempts /\ acked' = acked /\ acts' = acts
      BY <1>6 DEF Decide, kernelVars
    <2> DEFINE v == r.view
               t == PriorAttempt(v, r.ev)
    <2>2. PICK pc \in {"start", "reconcile", "uncertain", "park"} :
             /\ Goto(Host1, pc)
             /\ pc = "start" => t = 0
             /\ pc = "park" => v.attempts[t].status # "Started"
      BY <1>1, <1>6 DEF Decide
    <2>3. PICK row \in HostRows :
              /\ host' = [host EXCEPT ![Host1] = row]
              /\ row.pc = pc /\ row.view = host[Host1].view
              /\ Keeps(row, host[Host1])
      BY <2>2, GotoRow DEF Working
    <2>4. Shown(v) /\ Found(r) /\ r.pc \in Working
      BY <1>1, <1>2, <1>6 DEF LoneOk, Decide, At, Working
    <2>5. \A u \in DOMAIN attempts : Open(u) => t = u /\ v.attempts[t].status = "Started"
      BY <2>4 DEF Found
    <2>6. DOMAIN attempts = 1..Len(attempts)
      BY DEF DeliveryInv, DeliveryTyped
    <2> HIDE DEF t
    <2>7. pc \in {"start", "park"} => NoneOpen
      <3>1. pc = "start" => NoneOpen
        BY <2>2, <2>5, <2>6 DEF NoneOpen
      <3>2. pc = "park" => NoneOpen
        BY <2>2, <2>5 DEF NoneOpen
      <3> QED BY <3>1, <3>2
    <2>8. Shown(row.view) /\ Found(row) /\ row.ev = Frontier
      BY <1>1, <1>2, <2>3, <2>4 DEF Keeps, Found, LoneOk
    <2>9. LoneOk(row)
      BY <2>2, <2>3, <2>7, <2>8 DEF LoneOk, Closed, Owned
    <2>10. LoneOk(row)'
      BY <2>1, <2>9 DEF LoneOk, NoneOpen, Open, Shown, Found, Frontier
    <2> QED BY <2>1, <2>3, <2>10, LoneActsKept, LoneStep
  <1>7. CASE Requery(Host1)
    <2>1. attempts' = attempts /\ acked' = acked /\ acts' = acts
          /\ r.pc = "requery" /\ r.pc \in Working
      BY <1>1, <1>7 DEF Requery, kernelVars, At, Working
    <2>2. PICK pc \in {"start", "reconcile", "park"} :
             host' = [host EXCEPT ![Host1].view = Projection, ![Host1].pc = pc]
      BY <1>7 DEF Requery
    <2>3. host' = [host EXCEPT ![Host1].pc = pc, ![Host1].view = Projection]
      BY <2>2, LookSwapped DEF DeliveryInv, DeliveryTyped
    <2>4. PICK row \in HostRows :
              /\ host' = [host EXCEPT ![Host1] = row]
              /\ row.pc = pc /\ row.view = Projection
              /\ Keeps(row, host[Host1])
      BY <2>3, LookRow DEF Working
    <2>5. NoneOpen /\ row.ev = Frontier
      BY <1>1, <1>2, <2>1, <2>4 DEF LoneOk, Closed, Keeps
    <2>6. LoneOk(row)'
      BY <2>1, <2>4, <2>5 DEF LoneOk, Closed, Owned, NoneOpen, Open, Shown, Frontier
    <2> QED BY <2>1, <2>4, <2>6, LoneActsKept, LoneStep
  <1>8. CASE Park(Host1)
    <2>1. /\ attempts' = attempts /\ acked' = acked
          /\ acts' = acts \/ acts' = Revoked
          /\ r.pc = "park" /\ r.pc \in Working
          /\ Throw(Host1) \/ Goto(Host1, "reconcile")
      BY <1>1, <1>8 DEF Park, Call, Settle, At, Working
    <2>2. NoneOpen
      BY <1>2, <2>1 DEF LoneOk, Closed
    <2>3. LoneActs
      BY <2>1, LoneActsKept
    <2>4. CASE Throw(Host1)
      BY <2>1, <2>3, <2>4, LoneRestStep
    <2>5. CASE Goto(Host1, "reconcile")
      <3>1. PICK row \in HostRows :
                /\ host' = [host EXCEPT ![Host1] = row]
                /\ row.pc = "reconcile"
                /\ Keeps(row, host[Host1])
        BY <2>5, GotoRow DEF Working
      <3> QED BY <1>1, <2>1, <2>2, <2>3, <3>1, LoneMoves DEF Keeps
    <2> QED BY <2>1, <2>4, <2>5
  <1>9. CASE ReadActivation(Host1)
    <2>1. attempts' = attempts /\ acked' = acked /\ acts' = acts
          /\ r.pc = "started" /\ r.pc \in Working
      BY <1>1, <1>9 DEF ReadActivation, kernelVars, At, Working
    <2>2. PICK pc \in {"empty", "admit"} :
             host' = [host EXCEPT ![Host1].view = Projection, ![Host1].pc = pc]
      BY <1>9 DEF ReadActivation
    <2>3. host' = [host EXCEPT ![Host1].pc = pc, ![Host1].view = Projection]
      BY <2>2, LookSwapped DEF DeliveryInv, DeliveryTyped
    <2>4. PICK row \in HostRows :
              /\ host' = [host EXCEPT ![Host1] = row]
              /\ row.pc = pc /\ row.view = Projection
              /\ Keeps(row, host[Host1])
      BY <2>3, LookRow DEF Working
    <2>5. NoneOpen /\ row.ev = Frontier /\ row.act = r.act /\ row.ev = r.ev
      BY <1>1, <1>2, <2>1, <2>4 DEF LoneOk, Closed, Keeps
    <2>6. LoneActs
      BY <2>1, LoneActsKept
    <2>7. CASE pc = "empty"
      BY <1>1, <2>1, <2>4, <2>5, <2>6, <2>7, LoneMoves DEF Closed
    <2>8. CASE pc = "admit"
      BY <1>1, <2>1, <2>4, <2>5, <2>6, <2>8, LoneMoves
    <2> QED BY <2>7, <2>8
  <1>10. CASE NoBudget(Host1)
    <2>1. attempts' = attempts /\ acked' = acked /\ acts' = acts
          /\ r.pc = "admit" /\ r.pc \in Working
      BY <1>1, <1>10 DEF NoBudget, kernelVars, At, Working
    <2>2. PICK row \in HostRows :
              /\ host' = [host EXCEPT ![Host1] = row]
              /\ row.pc = "budget"
              /\ Keeps(row, host[Host1])
      BY <1>10, GotoRow DEF NoBudget, Working
    <2>3. NoneOpen
      BY <1>2, <2>1 DEF LoneOk, Closed
    <2>4. row.pc \in (Closed \ {"started", "admit"}) /\ row.ev = r.ev
      BY <1>1, <2>2 DEF Closed, Keeps
    <2> QED BY <1>1, <2>1, <2>2, <2>3, <2>4, LoneActsKept, LoneMoves
  <1>11. CASE FindStatus(Host1)
    <2>1. attempts' = attempts /\ acked' = acked /\ acts' = acts
          /\ r.pc = "attempted" /\ r.pc \in Working /\ r.pc \in Owned
      BY <1>1, <1>11 DEF FindStatus, kernelVars, At, Working, Owned
    <2>2. \/ attempts[r.att].status = "Started" /\ Goto(Host1, "admitted")
          \/ /\ attempts[r.att].status # "Started"
             /\ \E pc \in {"park", "reconcile"} :
                   host' = [host EXCEPT ![Host1].pc = pc, ![Host1].view = Projection]
      BY <1>1, <1>11 DEF FindStatus, Goto
    <2>3. CASE attempts[r.att].status = "Started" /\ Goto(Host1, "admitted")
      <3>1. PICK row \in HostRows :
                /\ host' = [host EXCEPT ![Host1] = row]
                /\ row.pc = "admitted"
                /\ Keeps(row, host[Host1])
        BY <2>3, GotoRow DEF Working
      <3>2. row.pc \in Owned /\ row.att = r.att /\ row.ev = r.ev
        BY <1>1, <3>1 DEF Owned, Keeps
      <3> QED BY <1>1, <2>1, <3>1, <3>2, LoneActsKept, LoneMoves
    <2>4. CASE /\ attempts[r.att].status # "Started"
               /\ \E pc \in {"park", "reconcile"} :
                     host' = [host EXCEPT ![Host1].pc = pc, ![Host1].view = Projection]
      <3>1. PICK pc \in {"park", "reconcile"} :
               host' = [host EXCEPT ![Host1].pc = pc, ![Host1].view = Projection]
        BY <2>4
      <3>2. PICK row \in HostRows :
                /\ host' = [host EXCEPT ![Host1] = row]
                /\ row.pc = pc /\ row.view = Projection
                /\ Keeps(row, host[Host1])
        BY <3>1, LookRow DEF Working
      <3>3. NoneOpen
        BY <1>2, <2>1, <2>4 DEF LoneOk, NoneOpen, Open
      <3>4. row.pc \in (Closed \ {"started", "admit"}) \cup {"reconcile"} /\ row.ev = r.ev
        BY <1>1, <3>2 DEF Closed, Keeps
      <3> QED BY <1>1, <2>1, <3>2, <3>3, <3>4, LoneActsKept, LoneMoves
    <2> QED BY <2>2, <2>3, <2>4
  <1> QED BY <1>3, <1>4, <1>5, <1>6, <1>7, <1>8, <1>9, <1>10, <1>11

\* Finishing an Activation leaves the others alone.
LEMMA FinishedRest ==
    ASSUME acts \in Seq(ActRows), NEW a, NEW key,
           acts' = acts \/ acts' = Finished(a, key)
    PROVE  /\ DOMAIN acts' = DOMAIN acts
           /\ \A b \in DOMAIN acts : b # a => acts'[b] = acts[b]
  <1>1. CASE acts' = acts
    BY <1>1
  <1>2. CASE acts' = Finished(a, key)
    BY <1>2 DEF Finished
  <1> QED BY <1>1, <1>2

\* The steps of the Host that finish an Activation when nothing is open
LEMMA LoneFinishes ==
    ASSUME DeliveryInv, LoneInv, \A g \in Hosts \ {Host1} : host'[g] = host[g],
           \/ ExpireUncertain(Host1) \/ FinishEmpty(Host1) \/ FinishBeforeProvider(Host1)
           \/ FinishCompleted(Host1) \/ FinishFailed(Host1)
    PROVE  LoneInv'
  <1> USE Host1Assumption
  <1>1. PICK r \in HostRows : r = host[Host1]
    BY DEF DeliveryInv, DeliveryTyped
  <1>2. LoneOk(r)
    BY <1>1 DEF LoneInv
  <1>3. attempts' = attempts /\ acked' = acked
        /\ r.pc \in {"expire", "empty", "budget", "finishing", "finish"}
    BY <1>1 DEF ExpireUncertain, FinishEmpty, FinishBeforeProvider, FinishCompleted,
                FinishFailed, At
  <1>4. r.pc \in Working /\ r.pc \in Closed
    BY <1>3 DEF Working, Closed
  <1>5. NoneOpen
    BY <1>2, <1>4 DEF LoneOk
  <1>6. \E a, key : acts' = acts \/ acts' = Finished(a, key)
    <2>1. CASE ExpireUncertain(Host1)
      BY <2>1 DEF ExpireUncertain
    <2>2. CASE \/ FinishEmpty(Host1) \/ FinishBeforeProvider(Host1)
               \/ FinishCompleted(Host1) \/ FinishFailed(Host1)
      BY <2>2 DEF FinishEmpty, FinishBeforeProvider, FinishCompleted, FinishFailed
    <2> QED BY <2>1, <2>2
  <1>7. LoneActs
    <2>1. DOMAIN acts' = DOMAIN acts
      BY <1>6, FinishedRest DEF DeliveryInv, DeliveryTyped
    <2> QED BY <1>5, <2>1, LoneActsKept
  <1>8. \/ Throw(Host1) \/ EndPass(Host1)
        \/ Goto(Host1, "requery")
        \/ host' = [host EXCEPT ![Host1] = Processed(Host1)]
        \/ host' = [host EXCEPT ![Host1].pc = "settle", ![Host1].outcome = "Unknown"]
    BY DEF ExpireUncertain, FinishEmpty, FinishBeforeProvider, FinishCompleted,
           FinishFailed, Call
  <1>9. CASE Throw(Host1) \/ EndPass(Host1)
    BY <1>3, <1>7, <1>9, LoneRestStep
  <1>10. ASSUME NEW row \in HostRows, host' = [host EXCEPT ![Host1] = row],
                row.pc \in {"requery", "acking", "settle"}, row.ev = r.ev
         PROVE  LoneInv'
    <2>1. row.pc \in (Closed \ {"started", "admit"}) \cup Owned \cup {"reconcile"}
      BY <1>10 DEF Closed, Owned
    <2> QED BY <1>1, <1>3, <1>4, <1>5, <1>7, <1>10, <2>1, LoneMoves
  <1>11. CASE Goto(Host1, "requery")
    <2>1. PICK row \in HostRows :
              /\ host' = [host EXCEPT ![Host1] = row]
              /\ row.pc = "requery"
              /\ Keeps(row, host[Host1])
      BY <1>11, GotoRow DEF Working
    <2> QED BY <1>1, <1>10, <2>1 DEF Keeps
  <1>12. CASE host' = [host EXCEPT ![Host1] = Processed(Host1)]
    <2>1. PICK row : row = Processed(Host1)
      OBVIOUS
    <2>2. row \in HostRows /\ row.pc = "acking" /\ row.ev = host[Host1].ev
      BY <2>1, ProcessedRow
    <2> QED BY <1>1, <1>10, <1>12, <2>1, <2>2
  <1>13. CASE host' = [host EXCEPT ![Host1].pc = "settle", ![Host1].outcome = "Unknown"]
    <2> DEFINE row == [r EXCEPT !.pc = "settle", !.outcome = "Unknown"]
    <2>1. host' = [host EXCEPT ![Host1] = row]
      BY <1>1, <1>13 DEF DeliveryInv, DeliveryTyped
    <2>2. row \in HostRows /\ row.pc = "settle" /\ row.ev = r.ev
      BY DEF HostRows, Working
    <2> HIDE DEF row
    <2> QED BY <1>10, <2>1, <2>2
  <1> QED BY <1>8, <1>9, <1>11, <1>12, <1>13

\* Everything the view shows was dealt with, hence everything.
LEMMA LoneReconciled ==
    ASSUME DeliveryInv, LoneInv, \A g \in Hosts \ {Host1} : host'[g] = host[g],
           Reconciled(Host1)
    PROVE  LoneInv'
  <1> USE Host1Assumption
  <1>1. PICK r \in HostRows : r = host[Host1]
    BY DEF DeliveryInv, DeliveryTyped
  <1>2. attempts' = attempts /\ acked' = acked /\ acts' = acts
        /\ r.pc = "reconcile" /\ r.pc \in Working
        /\ Unreconciled(r.view) = {}
        /\ host' = [host EXCEPT ![Host1] = Processed(Host1)]
    BY <1>1 DEF Reconciled, kernelVars, At, Working
  <1>3. Shown(r.view)
    BY <1>1, <1>2 DEF LoneInv, LoneOk
  <1>4. NoneOpen
    BY <1>2, <1>3 DEF Shown, Unreconciled, NoneOpen
  <1>5. PICK row : row = Processed(Host1)
    OBVIOUS
  <1>6. row \in HostRows /\ row.pc = "acking" /\ row.ev = r.ev
    BY <1>1, <1>5, ProcessedRow
  <1>7. row.pc \in Closed \ {"started", "admit"}
    BY <1>6 DEF Closed
  <1> QED BY <1>1, <1>2, <1>4, <1>5, <1>6, <1>7, LoneActsKept, LoneMoves

\* The Activation that is reconciled has nothing open.
LEMMA LoneReconciles ==
    ASSUME DeliveryInv, LoneInv, \A g \in Hosts \ {Host1} : host'[g] = host[g],
           ReconcileActivation(Host1)
    PROVE  LoneInv'
  <1> USE Host1Assumption
  <1>1. PICK r \in HostRows : r = host[Host1]
    BY DEF DeliveryInv, DeliveryTyped
  <1> DEFINE v == r.view
             first == CHOOSE b \in Unreconciled(v) : \A c \in Unreconciled(v) : b <= c
  <1>2. PICK a : a = first
    OBVIOUS
  <1>3. PICK t : t = AttemptOf(v, a)
    OBVIOUS
  <1>4. PICK key : key = ReconcileKey(v, t)
    OBVIOUS
  <1>5. /\ attempts' = attempts /\ acked' = acked
        /\ r.pc = "reconcile" /\ r.pc \in Working
        /\ ~(t # 0 /\ v.attempts[t].status = "Started")
        /\ \/ Throw(Host1) /\ acts' = acts
           \/ /\ host' = [host EXCEPT ![Host1].view.acts[a].by = key]
              /\ acts' = Finished(a, key)
    BY <1>1, <1>2, <1>3, <1>4 DEF ReconcileActivation, At, Working
  <1> HIDE DEF first
  <1>6. CASE Throw(Host1) /\ acts' = acts
    BY <1>5, <1>6, LoneActsKept, LoneRestStep
  <1>7. CASE /\ host' = [host EXCEPT ![Host1].view.acts[a].by = key]
             /\ acts' = Finished(a, key)
    <2>1. LoneOk(r) /\ Shown(v) /\ r.ev = Frontier
      BY <1>1, <1>5 DEF LoneInv, LoneOk
    <2>2. \A u \in DOMAIN attempts : Open(u) => attempts[u].act # a
      <3> SUFFICES ASSUME NEW u \in DOMAIN attempts, Open(u), attempts[u].act = a
                   PROVE  FALSE
        OBVIOUS
      <3> DEFINE mine == {w \in DOMAIN v.attempts : v.attempts[w].act = a}
      <3>1. mine = {u}
        BY <2>1, ZenonT(60) DEF Shown
      <3>2. t = u
        BY <1>3, <3>1 DEF AttemptOf
      <3>3. u # 0
        BY DEF DeliveryInv, DeliveryTyped
      <3> QED BY <1>5, <2>1, <3>2, <3>3 DEF Shown
    <2>3. /\ DOMAIN acts' = DOMAIN acts
          /\ \A b \in DOMAIN acts : b # a => acts'[b] = acts[b]
      BY <1>7, FinishedRest DEF DeliveryInv, DeliveryTyped
    <2>4. LoneActs
      BY <2>2, <2>3 DEF LoneActs, LoneInv, OpenInv
    <2> DEFINE rows == [v.acts EXCEPT ![a].by = key]
               row == [r EXCEPT !.view = [v EXCEPT !.acts = rows]]
    <2>5. host' = [host EXCEPT ![Host1] = row]
      BY <1>1, <1>7 DEF DeliveryInv, DeliveryTyped
    <2>6. v \in Views /\ v.acts \in Seq(ActRows)
      BY DEF HostRows, Views
    <2>7. /\ DOMAIN rows = DOMAIN v.acts
          /\ \A b \in DOMAIN v.acts : b # a => rows[b] = v.acts[b]
      OBVIOUS
    <2>8. rows \in Seq(ActRows)
      <3>1. key \in FinishKeys
        BY <1>4 DEF ReconcileKey, FinishKeys
      <3> QED BY <2>6, <3>1, FinishedActs
    <2> HIDE DEF rows
    <2>9. [v EXCEPT !.acts = rows] \in Views
      BY <2>6, <2>8 DEF Views
    <2>10. /\ row \in HostRows /\ row.pc = "reconcile" /\ row.ev = r.ev
           /\ row.view.attempts = v.attempts /\ row.view.acts = rows
      BY <1>5, <2>6, <2>9 DEF HostRows, Views
    <2> HIDE DEF row
    <2>11. PICK row1 \in HostRows : row1 = row
      BY <2>10
    <2>12. Shown(row1.view)
      <3>0. PICK w : w = row1.view
        OBVIOUS
      <3> SUFFICES Shown(w)
        BY <3>0
      <3> SUFFICES ASSUME NEW d \in DOMAIN attempts, Open(d)
                   PROVE  /\ d \in DOMAIN w.attempts
                          /\ w.attempts[d].status = "Started"
                          /\ w.attempts[d].act = attempts[d].act
                          /\ \A u \in DOMAIN w.attempts :
                                w.attempts[u].act = attempts[d].act => u = d
                          /\ attempts[d].act \in DOMAIN w.acts
                          /\ w.acts[attempts[d].act].by = ""
        BY DEF Shown
      <3>5. w.attempts = v.attempts /\ w.acts = rows
        BY <2>10, <2>11, <3>0
      <3>1. PICK b : b = attempts[d].act
        OBVIOUS
      <3>2. b # a
        BY <2>2, <3>1
      <3>3. /\ d \in DOMAIN v.attempts
            /\ v.attempts[d].status = "Started"
            /\ v.attempts[d].act = b
            /\ \A u \in DOMAIN v.attempts : v.attempts[u].act = b => u = d
            /\ b \in DOMAIN v.acts /\ v.acts[b].by = ""
        BY <2>1, <3>1 DEF Shown
      <3>4. b \in DOMAIN rows /\ rows[b].by = ""
        BY <2>7, <3>2, <3>3
      <3> QED BY <3>1, <3>3, <3>4, <3>5
    <2>13. LoneOk(row1)
      BY <2>1, <2>10, <2>11, <2>12 DEF LoneOk, Closed, Owned
    <2>14. LoneOk(row1)'
      BY <1>5, <2>3, <2>10, <2>11, <2>13
         DEF LoneOk, Closed, Owned, Shown, Open, Frontier
    <2> QED BY <1>5, <2>4, <2>5, <2>11, <2>14, LoneStep
  <1> QED BY <1>5, <1>6, <1>7

\* A new Activation has no attempt yet.
LEMMA LoneActivates ==
    ASSUME DeliveryInv, LoneInv, \A g \in Hosts \ {Host1} : host'[g] = host[g],
           StartActivation(Host1)
    PROVE  LoneInv'
  <1> USE Host1Assumption
  <1>1. PICK r \in HostRows : r = host[Host1]
    BY DEF DeliveryInv, DeliveryTyped
  <1>2. attempts' = attempts /\ acked' = acked
        /\ r.pc = "start" /\ r.pc \in Working
    BY <1>1 DEF StartActivation, At, Working
  <1>3. NoneOpen /\ r.ev = Frontier
    BY <1>1, <1>2 DEF LoneInv, LoneOk, Closed
  <1>4. CASE Throw(Host1) /\ UNCHANGED acts
    BY <1>2, <1>4, LoneActsKept, LoneRestStep
  <1>5. CASE ~(Throw(Host1) /\ UNCHANGED acts)
    <2> DEFINE new == [by |-> "", revoked |-> FALSE, supplied |-> inputs.count]
               n == Len(acts) + 1
    <2>1. /\ host' = [host EXCEPT ![Host1].pc = "started", ![Host1].act = n]
          /\ acts' = Append(Revoked, new)
      BY <1>5 DEF StartActivation
    <2>2. acts \in Seq(ActRows) /\ n \in Nat /\ n > 0 /\ DOMAIN acts = 1..(n - 1)
      BY DEF DeliveryInv, DeliveryTyped
    <2>3. DOMAIN acts' = 1..n
      <3>1. /\ Revoked \in Seq(ActRows)
            /\ DOMAIN Revoked = DOMAIN acts
        BY <2>2, RevokedActs
      <3>2. new \in ActRows
        <4>1. inputs.count \in Nat
          BY DEF DeliveryInv, DeliveryTyped
        <4> QED BY <4>1 DEF ActRows
      <3> HIDE DEF new
      <3>3. PICK s : s = Revoked
        OBVIOUS
      <3>4. PICK f : f = acts'
        OBVIOUS
      <3>5. DOMAIN f = 1..(Len(s) + 1) /\ DOMAIN s = 1..Len(s) /\ Len(s) \in Nat
        BY <2>1, <3>1, <3>2, <3>3, <3>4, Appended
      <3>6. Len(s) = Len(acts)
        <4>1. DOMAIN acts = 1..Len(acts) /\ Len(acts) \in Nat
          BY <2>2
        <4>2. \A i, j \in Nat : 1..i = 1..j => i = j
          <5>1. \A i, j \in Nat : 1..i = 1..j => i <= j
            OBVIOUS
          <5>2. \A i, j \in Nat : i <= j /\ j <= i => i = j
            OBVIOUS
          <5> QED BY ONLY <5>1, <5>2, Zenon
        <4>3. 1..Len(s) = 1..Len(acts)
          BY ONLY <3>1, <3>3, <3>5, <4>1
        <4> QED BY ONLY <3>5, <4>1, <4>2, <4>3, Zenon
      <3> QED BY <3>4, <3>5, <3>6
    <2>4. LoneActs
      <3>1. DOMAIN acts \subseteq DOMAIN acts'
        BY <2>2, <2>3
      <3> QED BY <1>3, <3>1, LoneActsKept
    <2> DEFINE row == [r EXCEPT !.pc = "started", !.act = n]
    <2> HIDE DEF n
    <2>5. host' = [host EXCEPT ![Host1] = row]
      BY <1>1, <2>1 DEF DeliveryInv, DeliveryTyped
    <2>6. row \in HostRows /\ row.pc = "started" /\ row.act = n /\ row.ev = r.ev
      BY <2>2 DEF HostRows, Working
    <2> HIDE DEF row
    <2>7. PICK row1 \in HostRows : row1 = row
      BY <2>6
    <2>8. \A t \in DOMAIN attempts : attempts[t].act # n
      <3>1. \A t \in DOMAIN attempts : attempts[t].act \in DOMAIN acts
        BY DEF LoneInv, OpenInv
      <3>2. n \notin DOMAIN acts
        BY <2>2
      <3> QED BY <3>1, <3>2
    <2>9. n \in DOMAIN acts'
      BY <2>2, <2>3
    <2>10. LoneOk(row1)'
      BY <1>2, <1>3, <2>6, <2>7, <2>8, <2>9
         DEF LoneOk, Closed, Owned, NoneOpen, Open, Frontier
    <2> QED BY <1>2, <2>4, <2>5, <2>7, <2>10, LoneStep
  <1> QED BY <1>4, <1>5

\* Attempt t is settled, if it was open, and nothing else happens to any.
Closes(t) ==
    /\ DOMAIN attempts' = DOMAIN attempts
    /\ \A u \in DOMAIN attempts :
          /\ attempts'[u].act = attempts[u].act
          /\ attempts'[u].event = attempts[u].event
          /\ attempts'[u].by = "" <=> attempts'[u].status = "Started"
          /\ attempts'[u].status = "Started" => Open(u) /\ u # t

LEMMA LoneSettled ==
    ASSUME DeliveryInv, LoneInv,
           NEW status \in Settled, NEW key \in SettleKeys, NEW t,
           \/ CanSettle(t, key) /\ attempts' = SettledAs(t, status, key)
           \/ attempts[t].by # "" /\ attempts' = attempts
    PROVE  Closes(t)
  <1>1. \A u \in DOMAIN attempts : attempts[u].by = "" <=> Open(u)
    BY DEF LoneInv, OpenInv
  <1>2. CASE attempts[t].by # "" /\ attempts' = attempts
    BY <1>1, <1>2 DEF Closes, Open
  <1>3. CASE CanSettle(t, key) /\ attempts' = SettledAs(t, status, key)
    <2>1. SettlesTo(t, status, key)
      BY <1>3, SettledRow DEF DeliveryInv, DeliveryTyped
    <2>2. key # "" /\ status # "Started"
      BY DEF SettleKeys, Settled
    <2> SUFFICES ASSUME NEW u \in DOMAIN attempts
                 PROVE  /\ attempts'[u].act = attempts[u].act
                        /\ attempts'[u].event = attempts[u].event
                        /\ attempts'[u].by = "" <=> attempts'[u].status = "Started"
                        /\ attempts'[u].status = "Started" => Open(u) /\ u # t
      BY <2>1 DEF Closes, SettlesTo
    <2>3. CASE attempts'[u] = attempts[u]
      <3>1. u = t => attempts[u].by # ""
        BY <2>1, <2>2, <2>3 DEF SettlesTo
      <3> QED BY <1>1, <2>3, <3>1 DEF Open
    <2>4. CASE attempts'[u] # attempts[u]
      <3>1. /\ u = t /\ attempts'[u].by = key /\ attempts'[u].status = status
            /\ attempts'[u].event = attempts[u].event
            /\ attempts'[u].act = attempts[u].act
        BY <2>1, <2>4 DEF SettlesTo
      <3> QED BY <2>2, <3>1
    <2> QED BY <2>3, <2>4
  <1> QED BY <1>2, <1>3

LEMMA LoneCloses ==
    ASSUME DeliveryInv, LoneInv, UNCHANGED <<acts, acked>>, NEW t, Closes(t),
           \A g \in Hosts \ {Host1} : host'[g] = host[g],
           NEW row \in HostRows, host' = [host EXCEPT ![Host1] = row], LoneOk(row)'
    PROVE  LoneInv'
  <1>1. host'[Host1] = row
    BY Host1Assumption, OneMoves DEF DeliveryInv, DeliveryTyped
  <1>2. OpenInv'
    <2>1. \A u \in DOMAIN attempts : attempts'[u].status = "Started" =>
             /\ \A w \in DOMAIN attempts : w <= u
             /\ attempts'[u].event = Frontier
             /\ acts[attempts'[u].act].by = ""
      <3> SUFFICES ASSUME NEW u \in DOMAIN attempts, attempts'[u].status = "Started"
                   PROVE  /\ \A w \in DOMAIN attempts : w <= u
                          /\ attempts'[u].event = Frontier
                          /\ acts[attempts'[u].act].by = ""
        OBVIOUS
      <3>1. /\ Open(u) /\ attempts'[u].event = attempts[u].event
            /\ attempts'[u].act = attempts[u].act
        BY DEF Closes
      <3>2. /\ \A w \in DOMAIN attempts : w <= u
            /\ attempts[u].event = Frontier
            /\ acts[attempts[u].act].by = ""
        BY <3>1 DEF LoneInv, OpenInv
      <3> QED BY <3>1, <3>2
    <2>2. \A u \in DOMAIN attempts :
             /\ attempts'[u].by = "" <=> attempts'[u].status = "Started"
             /\ attempts'[u].act \in DOMAIN acts
      BY DEF LoneInv, OpenInv, Closes
    <2>3. \A u, w \in DOMAIN attempts :
             attempts'[u].act = attempts'[w].act => u = w
      BY DEF LoneInv, OpenInv, Closes
    <2>4. DOMAIN attempts' = DOMAIN attempts /\ Frontier' = Frontier
      BY DEF Closes, Frontier
    <2> QED BY <2>1, <2>2, <2>3, <2>4 DEF OpenInv, Open
  <1>3. LoneOk(host[Host1])'
    BY ONLY <1>1, LoneOk(row)', Zenon DEF LoneOk, Found, Shown
  <1> QED BY <1>2, <1>3 DEF LoneInv

\* The only attempt that may be open is settled.
LEMMA LoneClosesLast ==
    ASSUME DeliveryInv, LoneInv, UNCHANGED <<acts, acked>>, NEW t, Closes(t),
           \A u \in DOMAIN attempts : Open(u) => u = t,
           \A g \in Hosts \ {Host1} : host'[g] = host[g],
           NEW row \in HostRows, host' = [host EXCEPT ![Host1] = row],
           row.pc \in Closed \ {"started", "admit"}, row.ev = Frontier
    PROVE  LoneInv'
  <1>1. NoneOpen'
    BY DEF NoneOpen, Open, Closes
  <1>2. LoneOk(row)'
    BY <1>1 DEF LoneOk, Closed, Owned, Frontier
  <1> QED BY <1>2, LoneCloses

\* The steps of the Host that settle its own or the uncertain attempt
LEMMA LoneSettles ==
    ASSUME DeliveryInv, LoneInv, \A g \in Hosts \ {Host1} : host'[g] = host[g],
           \/ SettleUncertain(Host1) \/ SettleNotStarted(Host1)
           \/ SettleCompleted(Host1) \/ SettleFailed(Host1)
    PROVE  LoneInv'
  <1> USE Host1Assumption
  <1>1. PICK r \in HostRows : r = host[Host1]
    BY DEF DeliveryInv, DeliveryTyped
  <1>2. LoneOk(r)
    BY <1>1 DEF LoneInv
  <1>3. UNCHANGED <<acts, acked>>
    BY DEF SettleUncertain, SettleNotStarted, SettleCompleted, SettleFailed, SettleOwn
  <1>4. ASSUME NEW t, Closes(t), \A u \in DOMAIN attempts : Open(u) => u = t,
               NEW pc \in {"expire", "budget", "finishing", "finish"}, Goto(Host1, pc),
               r.pc \in Working
        PROVE  LoneInv'
    <2>1. PICK row \in HostRows :
              /\ host' = [host EXCEPT ![Host1] = row]
              /\ row.pc = pc
              /\ Keeps(row, host[Host1])
      BY <1>4, GotoRow DEF Working
    <2>2. row.ev = Frontier /\ row.pc \in Closed \ {"started", "admit"}
      BY <1>1, <1>2, <1>4, <2>1 DEF LoneOk, Keeps, Closed
    <2> QED BY <1>3, <1>4, <2>1, <2>2, LoneClosesLast
  <1>5. CASE SettleUncertain(Host1)
    <2>1. PICK t : t = PriorAttempt(r.view, r.ev)
      OBVIOUS
    <2> DEFINE key == "recovered-unknown"
    <2>2. /\ r.pc = "uncertain" /\ r.pc \in Working
          /\ \/ ~CanSettle(t, key) /\ Throw(Host1) /\ attempts' = attempts
             \/ /\ CanSettle(t, key) /\ Goto(Host1, "expire")
                /\ attempts' = SettledAs(t, "Unknown", key)
      BY <1>1, <1>5, <2>1 DEF SettleUncertain, Call, At, Working
    <2>3. CASE Throw(Host1) /\ attempts' = attempts
      BY <1>3, <2>3, LoneActsKept, LoneRestStep
    <2>4. CASE /\ CanSettle(t, key) /\ Goto(Host1, "expire")
               /\ attempts' = SettledAs(t, "Unknown", key)
      <3>1. key \in SettleKeys /\ "Unknown" \in Settled
        BY DEF SettleKeys, Settled
      <3> HIDE DEF key
      <3>2. Closes(t)
        BY <2>4, <3>1, LoneSettled
      <3>3. \A u \in DOMAIN attempts : Open(u) => u = t
        BY <1>2, <2>1, <2>2 DEF LoneOk, Found
      <3> QED BY <1>4, <2>2, <2>4, <3>2, <3>3
    <2> QED BY <2>2, <2>3, <2>4
  <1>6. ASSUME r.pc \in Owned
        PROVE  r.pc \in Working /\ \A u \in DOMAIN attempts : Open(u) => u = r.att
    BY <1>2, <1>6 DEF LoneOk, Owned, Working
  <1>7. CASE SettleNotStarted(Host1)
    <2>1. r.pc \in Owned /\ Goto(Host1, "budget")
      BY <1>1, <1>7 DEF SettleNotStarted, At, Owned
    <2>2. PICK t : t = r.att
      OBVIOUS
    <2> DEFINE key == "lease-budget-exhausted"
    <2>3. \/ attempts[t].by # "" /\ attempts' = attempts
          \/ /\ attempts[t].by = ""
             /\ attempts' = [attempts EXCEPT ![t].status = "Failed", ![t].by = key,
                                             ![t].unstarted = TRUE]
      BY <1>1, <1>7, <2>2 DEF SettleNotStarted
    <2>4. Closes(t)
      <3>1. \A u \in DOMAIN attempts : attempts[u].by = "" <=> Open(u)
        BY DEF LoneInv, OpenInv
      <3>2. CASE attempts[t].by # "" /\ attempts' = attempts
        BY <3>1, <3>2 DEF Closes, Open
      <3>3. CASE attempts' = [attempts EXCEPT ![t].status = "Failed", ![t].by = key,
                                              ![t].unstarted = TRUE]
        <4>1. attempts \in Seq(AttemptRows)
          BY DEF DeliveryInv, DeliveryTyped
        <4>2. PICK f : f = attempts'
          OBVIOUS
        <4>3. f = [attempts EXCEPT ![t].status = "Failed", ![t].by = key,
                                   ![t].unstarted = TRUE]
          BY <3>3, <4>2
        <4>4. DOMAIN f = DOMAIN attempts
          BY <4>3
        <4>5. \A u \in DOMAIN attempts : u # t => f[u] = attempts[u]
          BY <4>3
        <4>6. t \in DOMAIN attempts =>
                /\ f[t].act = attempts[t].act /\ f[t].event = attempts[t].event
                /\ f[t].status = "Failed" /\ f[t].by = key
          <5> SUFFICES ASSUME t \in DOMAIN attempts
                       PROVE  /\ f[t].act = attempts[t].act
                              /\ f[t].event = attempts[t].event
                              /\ f[t].status = "Failed" /\ f[t].by = key
            OBVIOUS
          <5>1. attempts[t] \in AttemptRows
            BY <4>1, ElementOf
          <5>2. f[t] = [attempts[t] EXCEPT !.status = "Failed", !.by = key,
                                           !.unstarted = TRUE]
            BY <4>1, <4>3
          <5> QED BY <5>1, <5>2 DEF AttemptRows
        <4>7. key # ""
          OBVIOUS
        <4> HIDE DEF key
        <4> QED BY <3>1, <4>2, <4>4, <4>5, <4>6, <4>7 DEF Closes, Open
      <3> QED BY <2>3, <3>2, <3>3
    <2> QED BY <1>4, <1>6, <2>1, <2>2, <2>4
  <1>8. ASSUME NEW pc \in {"finishing", "finish"}, NEW status \in Settled,
               NEW key \in SettleKeys, NEW from \in {"completing", "settle"},
               SettleOwn(Host1, from, pc, status, key)
        PROVE  LoneInv'
    <2>1. r.pc \in Owned /\ Goto(Host1, pc)
      BY <1>1, <1>8 DEF SettleOwn, At, Owned
    <2>2. PICK t : t = r.att
      OBVIOUS
    <2>3. \/ attempts[t].by # "" /\ attempts' = attempts
          \/ CanSettle(t, key) /\ attempts' = SettledAs(t, status, key)
      BY <1>1, <1>8, <2>2 DEF SettleOwn, CanSettle
    <2>4. Closes(t)
      BY <2>3, LoneSettled
    <2> QED BY <1>4, <1>6, <2>1, <2>2, <2>4
  <1>9. CASE SettleCompleted(Host1)
    BY <1>8, <1>9 DEF SettleCompleted, Settled, SettleKeys
  <1>10. CASE SettleFailed(Host1)
    <2> DEFINE key == IF r.outcome = "Unknown" THEN "unknown" ELSE "failed"
    <2>1. SettleOwn(Host1, "settle", "finish", r.outcome, key)
      BY <1>1, <1>10 DEF SettleFailed
    <2>2. r.outcome \in Settled /\ key \in SettleKeys
      BY DEF HostRows, Settled, SettleKeys
    <2> HIDE DEF key
    <2> QED BY <1>8, <2>1, <2>2
  <1> QED BY <1>5, <1>7, <1>9, <1>10

\* The steps of an execution, and those of the Provider
LEMMA LoneExecutes ==
    ASSUME DeliveryInv, LoneInv, \A g \in Hosts \ {Host1} : host'[g] = host[g],
           \/ Execute(Host1) \/ Timeout(Host1) \/ MonitorAborts(Host1)
           \/ FailureRead(Host1) \/ FailureWait(Host1)
           \/ ProviderReturns(Host1) \/ BudgetExhausted(Host1)
    PROVE  LoneInv'
  <1> USE Host1Assumption
  <1>1. PICK r \in HostRows : r = host[Host1]
    BY DEF DeliveryInv, DeliveryTyped
  <1>2. attempts' = attempts /\ acked' = acked
    BY DEF Execute, Timeout, MonitorAborts, FailureRead, FailureWait, ProviderReturns,
           BudgetExhausted, kernelVars
  <1>3. r.pc \in Owned /\ r.pc \in Working
    BY <1>1 DEF Execute, Timeout, MonitorAborts, FailureRead, FailureWait,
                ProviderReturns, BudgetExhausted, At, Owned, Working
  <1>4. LoneActs
    <2>1. acts' = acts \/ acts' = Revoked
      BY DEF Execute, Timeout, MonitorAborts, FailureRead, FailureWait, ProviderReturns,
             BudgetExhausted, kernelVars, Settle
    <2> QED BY <2>1, LoneActsKept
  <1>5. ASSUME NEW row \in HostRows, host' = [host EXCEPT ![Host1] = row],
               row.pc \in Owned, row.att = r.att, row.ev = r.ev
        PROVE  LoneInv'
    BY <1>1, <1>2, <1>3, <1>4, <1>5, LoneMoves
  <1>6. ASSUME NEW pc \in {"notStarted", "wait", "settle"}, Goto(Host1, pc)
        PROVE  LoneInv'
    <2>1. PICK row \in HostRows :
              /\ host' = [host EXCEPT ![Host1] = row]
              /\ row.pc = pc
              /\ Keeps(row, host[Host1])
      BY <1>6, GotoRow DEF Working
    <2> QED BY <1>1, <1>5, <2>1 DEF Keeps, Owned
  <1>7. CASE Throw(Host1)
    BY <1>2, <1>4, <1>7, LoneRestStep
  <1>8. CASE Execute(Host1)
    <2>1. \/ Throw(Host1)
          \/ host' = [host EXCEPT
                ![Host1].pc = "executing", ![Host1].alive = TRUE,
                ![Host1].rev = host[Host1].view.run.revision, ![Host1].view = NoView]
      BY <1>8 DEF Execute
    <2>2. CASE host' = [host EXCEPT
                  ![Host1].pc = "executing", ![Host1].alive = TRUE,
                  ![Host1].rev = host[Host1].view.run.revision, ![Host1].view = NoView]
      <3> DEFINE row == [r EXCEPT !.pc = "executing", !.alive = TRUE,
                                  !.rev = r.view.run.revision, !.view = NoView]
      <3>1. host' = [host EXCEPT ![Host1] = row]
        BY <1>1, <2>2 DEF DeliveryInv, DeliveryTyped
      <3>2. NoView \in Views
        BY DownRow DEF Down, Idle, HostRows
      <3>3. r.view.run.revision \in Nat
        BY DEF HostRows, Views, RunRows
      <3>4. row \in HostRows /\ row.pc = "executing" /\ row.att = r.att /\ row.ev = r.ev
        BY <3>2, <3>3 DEF HostRows, Working
      <3> HIDE DEF row
      <3> QED BY <1>5, <3>1, <3>4 DEF Owned
    <2> QED BY <1>7, <2>1, <2>2
  <1>9. ASSUME NEW outcome \in {"Failed", "Unknown"},
               \/ host' = [host EXCEPT ![Host1].pc = "failing", ![Host1].outcome = outcome]
               \/ host' = [host EXCEPT ![Host1].pc = "failing", ![Host1].alive = FALSE,
                                       ![Host1].outcome = outcome]
        PROVE  LoneInv'
    <2>1. PICK alive \in BOOLEAN :
             host' = [host EXCEPT ![Host1] =
                        [r EXCEPT !.pc = "failing", !.alive = alive, !.outcome = outcome]]
      <3>1. CASE host' = [host EXCEPT ![Host1].pc = "failing", ![Host1].outcome = outcome]
        <4>1. host' = [host EXCEPT ![Host1] =
                          [r EXCEPT !.pc = "failing", !.outcome = outcome]]
          BY <1>1, <3>1 DEF DeliveryInv, DeliveryTyped
        <4>2. [r EXCEPT !.pc = "failing", !.outcome = outcome]
              = [r EXCEPT !.pc = "failing", !.alive = r.alive, !.outcome = outcome]
          BY DEF HostRows
        <4>3. r.alive \in BOOLEAN
          BY DEF HostRows
        <4> QED BY <4>1, <4>2, <4>3
      <3>2. CASE host' = [host EXCEPT ![Host1].pc = "failing", ![Host1].alive = FALSE,
                                      ![Host1].outcome = outcome]
        <4>1. host' = [host EXCEPT ![Host1] =
                        [r EXCEPT !.pc = "failing", !.alive = FALSE, !.outcome = outcome]]
          BY <1>1, <3>2 DEF DeliveryInv, DeliveryTyped
        <4> QED BY <4>1
      <3> QED BY <1>9, <3>1, <3>2
    <2> DEFINE row == [r EXCEPT !.pc = "failing", !.alive = alive, !.outcome = outcome]
    <2>2. row \in HostRows /\ row.pc = "failing" /\ row.att = r.att /\ row.ev = r.ev
      BY DEF HostRows, Working
    <2>3. host' = [host EXCEPT ![Host1] = row]
      BY <2>1
    <2> HIDE DEF row
    <2> QED BY <1>5, <2>2, <2>3 DEF Owned
  <1>10. CASE Timeout(Host1) \/ MonitorAborts(Host1)
    BY <1>9, <1>10 DEF Timeout, MonitorAborts
  <1>11. CASE FailureRead(Host1)
    BY <1>6, <1>11 DEF FailureRead
  <1>12. CASE FailureWait(Host1)
    <2>1. \/ Throw(Host1)
          \/ \E term \in BOOLEAN :
                host' = [host EXCEPT ![Host1].pc = "settle", ![Host1].term = term]
      BY <1>12 DEF FailureWait, Live
    <2>2. ASSUME NEW term \in BOOLEAN,
                 host' = [host EXCEPT ![Host1].pc = "settle", ![Host1].term = term]
          PROVE  LoneInv'
      <3> DEFINE row == [r EXCEPT !.pc = "settle", !.term = term]
      <3>1. host' = [host EXCEPT ![Host1] = row]
        BY <1>1, <2>2 DEF DeliveryInv, DeliveryTyped
      <3>2. row \in HostRows /\ row.pc = "settle" /\ row.att = r.att /\ row.ev = r.ev
        BY DEF HostRows, Working
      <3> HIDE DEF row
      <3> QED BY <1>5, <3>1, <3>2 DEF Owned
    <2> QED BY <1>7, <2>1, <2>2
  <1>13. CASE ProviderReturns(Host1)
    <2>1. \/ host' = [host EXCEPT ![Host1].pc = "completing", ![Host1].alive = FALSE]
          \/ \E outcome \in {"Failed", "Unknown"} :
                host' = [host EXCEPT ![Host1].pc = "failing", ![Host1].alive = FALSE,
                                     ![Host1].outcome = outcome]
      BY <1>13 DEF ProviderReturns
    <2>2. CASE host' = [host EXCEPT ![Host1].pc = "completing", ![Host1].alive = FALSE]
      <3> DEFINE row == [r EXCEPT !.pc = "completing", !.alive = FALSE]
      <3>1. host' = [host EXCEPT ![Host1] = row]
        BY <1>1, <2>2 DEF DeliveryInv, DeliveryTyped
      <3>2. row \in HostRows /\ row.pc = "completing" /\ row.att = r.att /\ row.ev = r.ev
        BY DEF HostRows, Working
      <3> HIDE DEF row
      <3> QED BY <1>5, <3>1, <3>2 DEF Owned
    <2> QED BY <1>9, <2>1, <2>2
  <1>14. CASE BudgetExhausted(Host1)
    BY <1>6, <1>14 DEF BudgetExhausted
  <1> QED BY <1>8, <1>10, <1>11, <1>12, <1>13, <1>14

\* The Provider decides, and the Host is stopped.
LEMMA LoneProviderActs ==
    ASSUME DeliveryInv, LoneInv, \A g \in Hosts \ {Host1} : host'[g] = host[g],
           NEW state, ProviderActs(Host1, state)
    PROVE  LoneInv'
  <1> USE Host1Assumption
  <1>1. PICK r \in HostRows : r = host[Host1]
    BY DEF DeliveryInv, DeliveryTyped
  <1>2. /\ attempts' = attempts /\ acked' = acked /\ acts' = Revoked
        /\ r.alive
        /\ host' = [host EXCEPT ![Host1].term = TRUE]
    BY <1>1 DEF ProviderActs, Settle
  <1>3. r.pc \in Working
    <2>1. HostOk(Host1, r)
      BY <1>1 DEF DeliveryInv
    <2> QED BY <1>2, <2>1 DEF HostOk, HostRows
  <1> DEFINE row == [r EXCEPT !.term = TRUE]
  <1>4. host' = [host EXCEPT ![Host1] = row]
    BY <1>1, <1>2
  <1>5. /\ row \in HostRows /\ row.pc = r.pc /\ row.view = r.view
        /\ row.act = r.act /\ row.att = r.att /\ row.ev = r.ev
    BY DEF HostRows
  <1> HIDE DEF row
  <1> QED BY <1>1, <1>2, <1>3, <1>4, <1>5, LoneActsKept, LoneMoves

LEMMA LoneStops ==
    ASSUME DeliveryInv, LoneInv, \A g \in Hosts \ {Host1} : host'[g] = host[g],
           Stop(Host1)
    PROVE  LoneInv'
  <1> USE Host1Assumption
  <1>1. PICK r \in HostRows : r = host[Host1]
    BY DEF DeliveryInv, DeliveryTyped
  <1>2. /\ attempts' = attempts /\ acked' = acked /\ acts' = acts
        /\ r.pc # "down"
        /\ host' = [host EXCEPT ![Host1] =
              IF r.pc = "idle" THEN Down
              ELSE IF r.pc = "executing"
              THEN [r EXCEPT !.pc = "failing", !.outcome = "Unknown", !.stopped = TRUE]
              ELSE [r EXCEPT !.stopped = TRUE]]
    BY <1>1 DEF Stop, kernelVars
  <1>3. LoneActs
    BY <1>2, LoneActsKept
  <1>4. CASE r.pc = "idle"
    <2>1. Throw(Host1)
      BY <1>2, <1>4 DEF Throw
    <2> QED BY <1>2, <1>3, <2>1, LoneRestStep
  <1>5. CASE r.pc = "executing"
    <2> DEFINE row == [r EXCEPT !.pc = "failing", !.outcome = "Unknown", !.stopped = TRUE]
    <2>1. host' = [host EXCEPT ![Host1] = row]
      BY <1>2, <1>5
    <2>2. /\ row \in HostRows /\ row.pc \in Owned /\ row.att = r.att /\ row.ev = r.ev
          /\ r.pc \in Owned /\ r.pc \in Working
      BY <1>5 DEF HostRows, Working, Owned
    <2> HIDE DEF row
    <2> QED BY <1>1, <1>2, <1>3, <2>1, <2>2, LoneMoves
  <1>6. CASE r.pc \notin {"idle", "executing"}
    <2> DEFINE row == [r EXCEPT !.stopped = TRUE]
    <2>1. host' = [host EXCEPT ![Host1] = row]
      BY <1>2, <1>6
    <2>2. /\ row \in HostRows /\ row.pc = r.pc /\ row.view = r.view
          /\ row.act = r.act /\ row.att = r.att /\ row.ev = r.ev
          /\ r.pc \in Working
      BY <1>2, <1>6 DEF HostRows
    <2> HIDE DEF row
    <2> QED BY <1>1, <1>2, <1>3, <2>1, <2>2, LoneMoves
  <1> QED BY <1>4, <1>5, <1>6

\* A reconciliation settles the attempt of an unfinished Activation, and the
\* view shows it as settled.
LEMMA LoneReconcilesAttempt ==
    ASSUME DeliveryInv, LoneInv, \A g \in Hosts \ {Host1} : host'[g] = host[g],
           ReconcileAttempt(Host1)
    PROVE  LoneInv'
  <1> USE Host1Assumption
  <1>1. PICK r \in HostRows : r = host[Host1]
    BY DEF DeliveryInv, DeliveryTyped
  <1> DEFINE v == r.view
             a == CHOOSE b \in Unreconciled(v) : \A c \in Unreconciled(v) : b <= c
             key == "reconciled-unknown"
  <1>2. PICK t : t = AttemptOf(v, a)
    OBVIOUS
  <1>3. /\ UNCHANGED <<acts, acked>> /\ r.pc = "reconcile"
        /\ \/ ~CanSettle(t, key) /\ Throw(Host1) /\ attempts' = attempts
           \/ /\ CanSettle(t, key)
              /\ host' = [host EXCEPT ![Host1].view.attempts[t].status = "Unknown"]
              /\ attempts' = SettledAs(t, "Unknown", key)
    BY <1>1, <1>2 DEF ReconcileAttempt, At
  <1>4. r.ev = Frontier /\ Shown(v)
    BY <1>1, <1>3 DEF LoneInv, LoneOk, Working
  <1> HIDE DEF a
  <1>5. CASE Throw(Host1) /\ attempts' = attempts
    BY <1>3, <1>5, LoneActsKept, LoneRestStep
  <1>6. CASE /\ CanSettle(t, key)
             /\ host' = [host EXCEPT ![Host1].view.attempts[t].status = "Unknown"]
             /\ attempts' = SettledAs(t, "Unknown", key)
    <2>1. key \in SettleKeys /\ "Unknown" \in Settled
      BY DEF SettleKeys, Settled
    <2> HIDE DEF key
    <2>2. Closes(t)
      BY <1>6, <2>1, LoneSettled
    <2> DEFINE rows == [v.attempts EXCEPT ![t].status = "Unknown"]
               row == [r EXCEPT !.view = [v EXCEPT !.attempts = rows]]
    <2>3. host' = [host EXCEPT ![Host1] = row]
      BY <1>1, <1>6 DEF DeliveryInv, DeliveryTyped
    <2>4. v \in Views /\ v.attempts \in Seq(AttemptRows)
      BY DEF HostRows, Views
    <2>5. rows \in Seq(AttemptRows)
      BY <2>1, <2>4, ViewedStatus
    <2>6. /\ DOMAIN rows = DOMAIN v.attempts
          /\ \A u \in DOMAIN rows : u # t => rows[u] = v.attempts[u]
      OBVIOUS
    <2>7. \A u \in DOMAIN rows : rows[u].act = v.attempts[u].act
      <3> SUFFICES ASSUME t \in DOMAIN rows
                   PROVE  rows[t].act = v.attempts[t].act
        BY <2>6
      <3>1. v.attempts[t] \in AttemptRows
        BY <2>4, ElementOf
      <3>2. rows[t] = [v.attempts[t] EXCEPT !.status = "Unknown"]
        BY <2>4
      <3> QED BY <3>1, <3>2 DEF AttemptRows
    <2> HIDE DEF rows
    <2>8. [v EXCEPT !.attempts = rows] \in Views
      BY <2>4, <2>5 DEF Views
    <2>9. /\ row \in HostRows /\ row.pc = "reconcile" /\ row.ev = r.ev
          /\ row.view.attempts = rows /\ row.view.acts = v.acts
      BY <1>3, <2>4, <2>8 DEF HostRows, Views
    <2> HIDE DEF row
    <2>10. PICK row1 \in HostRows : row1 = row
      BY <2>9
    <2>11. Shown(row1.view)'
      <3> SUFFICES ASSUME NEW u \in DOMAIN attempts', Open(u)'
                   PROVE  /\ u \in DOMAIN rows
                          /\ rows[u].status = "Started"
                          /\ rows[u].act = attempts'[u].act
                          /\ \A w \in DOMAIN rows : rows[w].act = attempts'[u].act => w = u
                          /\ attempts'[u].act \in DOMAIN v.acts
                          /\ v.acts[attempts'[u].act].by = ""
        BY <2>9, <2>10 DEF Shown
      <3>1. u \in DOMAIN attempts /\ Open(u) /\ u # t /\ attempts'[u].act = attempts[u].act
        BY <2>2 DEF Closes, Open
      <3>2. /\ u \in DOMAIN v.attempts
            /\ v.attempts[u].status = "Started"
            /\ v.attempts[u].act = attempts[u].act
            /\ \A w \in DOMAIN v.attempts : v.attempts[w].act = attempts[u].act => w = u
            /\ attempts[u].act \in DOMAIN v.acts
            /\ v.acts[attempts[u].act].by = ""
        BY <1>4, <3>1 DEF Shown
      <3> QED BY <2>6, <2>7, <3>1, <3>2
    <2>12. LoneOk(row1)'
      BY <1>3, <1>4, <2>9, <2>10, <2>11 DEF LoneOk, Closed, Owned, Frontier
    <2> QED BY <1>3, <2>2, <2>3, <2>10, <2>12, LoneCloses
  <1> QED BY <1>3, <1>5, <1>6

\* An attempt is started only when none is open, and under an Activation
\* that had none.
LEMMA LoneAttempts ==
    ASSUME DeliveryInv, LoneInv, \A g \in Hosts \ {Host1} : host'[g] = host[g],
           StartProviderAttempt(Host1)
    PROVE  LoneInv'
  <1> USE Host1Assumption
  <1>1. PICK r \in HostRows : r = host[Host1]
    BY DEF DeliveryInv, DeliveryTyped
  <1>2. UNCHANGED <<acts, acked>> /\ r.pc = "admit"
    BY <1>1 DEF StartProviderAttempt, At
  <1>3. /\ NoneOpen /\ r.ev = Frontier
        /\ r.act \in DOMAIN acts
        /\ \A t \in DOMAIN attempts : attempts[t].act # r.act
    BY <1>1, <1>2 DEF LoneInv, LoneOk, Closed, Working
  <1>4. CASE Throw(Host1) /\ UNCHANGED attempts
    BY <1>2, <1>4, LoneActsKept, LoneRestStep
  <1>5. CASE ~(Throw(Host1) /\ UNCHANGED attempts)
    <2> DEFINE new == [act |-> r.act, event |-> r.ev, status |-> "Started",
                       by |-> "", unstarted |-> FALSE]
    <2>0. PICK n : n = Len(attempts) + 1
      OBVIOUS
    <2>1. /\ acts[r.act].by = ""
          /\ host' = [host EXCEPT ![Host1].pc = "attempted", ![Host1].att = n]
          /\ attempts' = Append(attempts, new)
      BY <1>1, <1>5, <2>0 DEF StartProviderAttempt, Live
    <2>2. /\ new \in AttemptRows /\ new.act = r.act /\ new.event = r.ev
          /\ new.status = "Started" /\ new.by = ""
      BY DEF AttemptRows, HostRows
    <2> HIDE DEF new
    <2>3. n \in Nat
      BY <2>0 DEF DeliveryInv, DeliveryTyped
    <2>4. /\ DOMAIN attempts' = 1..n /\ DOMAIN attempts = 1..(n - 1)
          /\ attempts'[n] = new
          /\ \A t \in DOMAIN attempts : attempts'[t] = attempts[t]
      <3>1. PICK f : f = attempts'
        OBVIOUS
      <3>2. attempts \in Seq(AttemptRows)
        BY DEF DeliveryInv, DeliveryTyped
      <3>3. f = Append(attempts, new) /\ new \in AttemptRows
        BY <2>1, <2>2, <3>1
      <3>4. /\ DOMAIN f = 1..(Len(attempts) + 1) /\ DOMAIN attempts = 1..Len(attempts)
            /\ Len(attempts) \in Nat
            /\ f[Len(attempts) + 1] = new
            /\ \A u \in DOMAIN attempts : f[u] = attempts[u]
        BY <3>2, <3>3, Appended
      <3> QED BY <2>0, <3>1, <3>4
    <2> DEFINE row == [r EXCEPT !.pc = "attempted", !.att = n]
    <2>5. \A t \in DOMAIN attempts' : t = n \/ t \in DOMAIN attempts
      BY <2>3, <2>4
    <2>6. \A t \in DOMAIN attempts : ~Open(t)' /\ attempts'[t] = attempts[t]
      BY <1>3, <2>4 DEF NoneOpen, Open
    <2>7. /\ host' = [host EXCEPT ![Host1] = row]
          /\ row \in HostRows /\ row.pc = "attempted" /\ row.att = n /\ row.ev = r.ev
      <3>1. host' = [host EXCEPT ![Host1] = row]
        BY <1>1, <2>1 DEF DeliveryInv, DeliveryTyped
      <3>2. row \in HostRows /\ row.pc = "attempted" /\ row.att = n /\ row.ev = r.ev
        BY <2>3 DEF HostRows, Working
      <3> QED BY <3>1, <3>2
    <2> HIDE DEF row
    <2>8. PICK row1 \in HostRows : row1 = row
      BY <2>7
    <2>9. host'[Host1] = row1
      BY <2>7, <2>8, OneMoves DEF DeliveryInv, DeliveryTyped
    <2>10. OpenInv'
      <3>1. \A t \in DOMAIN attempts :
               (attempts[t].by = "" <=> Open(t)) /\ attempts[t].act \in DOMAIN acts
        BY DEF LoneInv, OpenInv
      <3>2. \A t, u \in DOMAIN attempts : attempts[t].act = attempts[u].act => t = u
        BY DEF LoneInv, OpenInv
      <3>3. /\ attempts'[n].by = "" /\ Open(n)' /\ attempts'[n].act = r.act
            /\ attempts'[n].event = Frontier'
        BY <1>2, <1>3, <2>2, <2>4 DEF Open, Frontier
      <3>4. /\ \A u \in DOMAIN attempts' : u <= n
            /\ acts'[r.act].by = "" /\ r.act \in DOMAIN acts'
        <4>1. \A u \in DOMAIN attempts' : u <= n
          BY <2>3, <2>4
        <4>2. acts'[r.act].by = "" /\ r.act \in DOMAIN acts'
          BY <1>2, <1>3, <2>1
        <4> QED BY <4>1, <4>2
      <3>5. \A t \in DOMAIN attempts' :
               /\ attempts'[t].by = "" <=> Open(t)'
               /\ attempts'[t].act \in DOMAIN acts'
               /\ Open(t)' => t = n
        <4> SUFFICES ASSUME NEW t \in DOMAIN attempts'
                     PROVE  /\ attempts'[t].by = "" <=> Open(t)'
                            /\ attempts'[t].act \in DOMAIN acts'
                            /\ Open(t)' => t = n
          OBVIOUS
        <4>1. CASE t = n
          BY <3>3, <3>4, <4>1
        <4>2. CASE t \in DOMAIN attempts
          <5>1. ~Open(t) /\ ~Open(t)' /\ attempts'[t] = attempts[t]
            BY <1>3, <2>6, <4>2 DEF NoneOpen
          <5> QED BY <1>2, <3>1, <4>2, <5>1
        <4> QED BY <2>5, <4>1, <4>2
      <3>6. ASSUME NEW t \in DOMAIN attempts', NEW u \in DOMAIN attempts',
                   attempts'[t].act = attempts'[u].act
            PROVE  t = u
        <4>1. CASE t = n
          BY <1>3, <2>5, <2>6, <3>3, <3>6, <4>1
        <4>2. CASE u = n
          BY <1>3, <2>5, <2>6, <3>3, <3>6, <4>2
        <4>3. CASE t \in DOMAIN attempts /\ u \in DOMAIN attempts
          BY <2>6, <3>2, <3>6, <4>3
        <4> QED BY <2>5, <4>1, <4>2, <4>3
      <3> QED BY <3>3, <3>4, <3>5, <3>6 DEF OpenInv
    <2>11. LoneOk(row1)'
      <3>1. \A t \in DOMAIN attempts' : Open(t)' => t = row1.att
        BY <2>5, <2>6, <2>7, <2>8
      <3> QED BY <1>2, <1>3, <2>7, <2>8, <3>1 DEF LoneOk, Closed, Owned, Frontier
    <2>12. LoneOk(host[Host1])'
      BY ONLY <2>9, <2>11, Zenon DEF LoneOk, Found, Shown
    <2> QED BY <2>10, <2>12 DEF LoneInv
  <1> QED BY <1>4, <1>5

\* Nothing is open when an event is acknowledged.
LEMMA LoneAcknowledges ==
    ASSUME DeliveryInv, LoneInv, \A g \in Hosts \ {Host1} : host'[g] = host[g],
           Acknowledge(Host1)
    PROVE  LoneInv'
  <1> USE Host1Assumption
  <1>1. PICK r \in HostRows : r = host[Host1]
    BY DEF DeliveryInv, DeliveryTyped
  <1>2. UNCHANGED <<acts, attempts>> /\ r.pc = "acking" /\ EndPass(Host1)
    BY <1>1 DEF Acknowledge, At
  <1>3. NoneOpen
    BY <1>1, <1>2 DEF LoneInv, LoneOk, Closed
  <1>4. OpenInv'
    BY <1>2, <1>3 DEF LoneInv, OpenInv, NoneOpen, Open
  <1>5. PICK row \in {Down, Idle} : host' = [host EXCEPT ![Host1] = row]
    BY <1>2 DEF EndPass
  <1>6. host'[Host1] = row
    BY <1>5, DownRow, OneMoves DEF DeliveryInv, DeliveryTyped
  <1>7. LoneOk(row)'
    BY DEF LoneOk, Down, Idle, Working, Closed, Owned
  <1>8. LoneOk(host[Host1])'
    BY ONLY <1>6, <1>7, Zenon DEF LoneOk, Found, Shown
  <1> QED BY <1>4, <1>8 DEF LoneInv

\* Nothing is done by the other Hosts, ...
LEMMA LoneOthers ==
    ASSUME DeliveryInv, NEW g \in Hosts, host[g] = Down, host'[g] = host[g]
    PROVE  /\ ~HostStep(g)
           /\ \A state : ~ProviderActs(g, state)
           /\ ~(ProviderReturns(g) \/ BudgetExhausted(g) \/ Stop(g) \/ Crash(g))
  <1>1. host[g].pc = "down" /\ ~host[g].alive /\ ~host[g].stopped
    BY DEF Down, Idle
  <1>2. ~Start(g)
    <2> SUFFICES ASSUME Start(g)
                 PROVE  FALSE
      OBVIOUS
    <2>1. host' = [host EXCEPT ![g] = Idle]
      BY <1>1 DEF Start, EndPass
    <2>2. host'[g] = Idle
      BY <2>1 DEF DeliveryInv, DeliveryTyped
    <2> QED BY <1>1, <2>2 DEF Idle
  <1>3. ~(\/ Claim(g) \/ ReadEvent(g) \/ Decide(g) \/ SettleUncertain(g)
          \/ ExpireUncertain(g) \/ Requery(g) \/ Park(g) \/ ReconcileAttempt(g)
          \/ ReconcileActivation(g) \/ Reconciled(g) \/ Acknowledge(g)
          \/ StartActivation(g) \/ ReadActivation(g) \/ FinishEmpty(g) \/ NoBudget(g))
    BY <1>1 DEF Claim, ReadEvent, Decide, SettleUncertain, ExpireUncertain, Requery, Park,
                ReconcileAttempt, ReconcileActivation, Reconciled, Acknowledge,
                StartActivation, ReadActivation, FinishEmpty, NoBudget, At
  <1>4. ~(\/ FinishBeforeProvider(g) \/ StartProviderAttempt(g) \/ FindStatus(g)
          \/ Execute(g) \/ SettleNotStarted(g) \/ Timeout(g) \/ MonitorAborts(g)
          \/ SettleCompleted(g) \/ FinishCompleted(g) \/ FailureRead(g)
          \/ FailureWait(g) \/ SettleFailed(g) \/ FinishFailed(g))
    BY <1>1 DEF FinishBeforeProvider, StartProviderAttempt, FindStatus, Execute,
                SettleNotStarted, Timeout, MonitorAborts, SettleCompleted, SettleOwn,
                FinishCompleted, FailureRead, FailureWait, SettleFailed, FinishFailed, At
  <1>5. /\ \A state : ~ProviderActs(g, state)
        /\ ~(ProviderReturns(g) \/ BudgetExhausted(g) \/ Stop(g) \/ Crash(g))
    BY <1>1 DEF ProviderActs, ProviderReturns, BudgetExhausted, Stop, Crash, At
  <1> QED BY <1>2, <1>3, <1>4, <1>5 DEF HostStep

\* ... and nothing people or the clock do touches an attempt.
LEMMA LoneElsewhere ==
    ASSUME DeliveryInv, LoneInv, UNCHANGED <<host, attempts, acked>>,
           acts' = acts \/ acts' = Revoked
    PROVE  LoneInv'
  <1> USE Host1Assumption
  <1>1. PICK r \in HostRows : r = host[Host1]
    BY DEF DeliveryInv, DeliveryTyped
  <1>2. LoneActs
    BY LoneActsKept
  <1>3. LoneOk(r)'
    BY <1>1, <1>2 DEF LoneInv, LoneOk, LoneActs, NoneOpen, Open, Shown, Found, Frontier
  <1>4. host' = [host EXCEPT ![Host1] = r]
    BY <1>1 DEF DeliveryInv, DeliveryTyped
  <1> QED BY <1>2, <1>3, <1>4, LoneStep

LEMMA LoneInvInit ==
    ASSUME DeliveryInit
    PROVE  LoneInv
  <1>1. DOMAIN attempts = {} /\ \A h \in Hosts : host[h] = Down
    BY DEF DeliveryInit
  <1>2. LoneOk(host[Host1])
    BY <1>1, LoneRest, Host1Assumption
  <1> QED BY <1>1, <1>2 DEF LoneInv, OpenInv

LEMMA LoneInvNext ==
    ASSUME DeliveryInv, LoneInv, DeliveryNext,
           \A g \in Hosts \ {Host1} : host'[g] = host[g]
    PROVE  LoneInv'
  <1>1. \A g \in Hosts \ {Host1} :
           /\ ~HostStep(g)
           /\ \A state : ~ProviderActs(g, state)
           /\ ~(ProviderReturns(g) \/ BudgetExhausted(g) \/ Stop(g) \/ Crash(g))
    <2> SUFFICES ASSUME NEW g \in Hosts \ {Host1}
                 PROVE  /\ ~HostStep(g)
                        /\ \A state : ~ProviderActs(g, state)
                        /\ ~(ProviderReturns(g) \/ BudgetExhausted(g) \/ Stop(g) \/ Crash(g))
      OBVIOUS
    <2>1. host[g] = Down /\ host'[g] = host[g]
      BY DEF LoneInv
    <2> QED BY <2>1, LoneOthers
  <1>2. CASE HostStep(Host1)
    <2>1. CASE \/ Start(Host1) \/ Claim(Host1) \/ ReadEvent(Host1) \/ Decide(Host1)
               \/ Requery(Host1) \/ Park(Host1) \/ ReadActivation(Host1)
               \/ NoBudget(Host1) \/ FindStatus(Host1)
      BY <2>1, LoneWalks
    <2>2. CASE \/ ExpireUncertain(Host1) \/ FinishEmpty(Host1)
               \/ FinishBeforeProvider(Host1) \/ FinishCompleted(Host1)
               \/ FinishFailed(Host1)
      BY <2>2, LoneFinishes
    <2>3. CASE \/ ReconcileAttempt(Host1) \/ ReconcileActivation(Host1)
               \/ Reconciled(Host1)
      BY <2>3, LoneReconcilesAttempt, LoneReconciles, LoneReconciled
    <2>4. CASE \/ Acknowledge(Host1) \/ StartActivation(Host1)
               \/ StartProviderAttempt(Host1)
      BY <2>4, LoneAcknowledges, LoneActivates, LoneAttempts
    <2>5. CASE \/ SettleUncertain(Host1) \/ SettleNotStarted(Host1)
               \/ SettleCompleted(Host1) \/ SettleFailed(Host1)
      BY <2>5, LoneSettles
    <2>6. CASE \/ Execute(Host1) \/ Timeout(Host1) \/ MonitorAborts(Host1)
               \/ FailureRead(Host1) \/ FailureWait(Host1)
      BY <2>6, LoneExecutes
    <2> QED BY <1>2, <2>1, <2>2, <2>3, <2>4, <2>5, <2>6 DEF HostStep
  <1>3. ASSUME NEW state, ProviderActs(Host1, state)
        PROVE  LoneInv'
    BY <1>3, LoneProviderActs
  <1>4. CASE ProviderReturns(Host1) \/ BudgetExhausted(Host1)
    BY <1>4, LoneExecutes
  <1>5. CASE Stop(Host1) \/ Crash(Host1)
    BY <1>5, LoneStops, LoneWalks
  <1>6. CASE LeaseLost \/ LeaseLapses \/ SendToRun \/ WithdrawRunInput \/ CancelRun
    BY <1>6, LoneElsewhere
       DEF LeaseLost, LeaseLapses, Expire, SendToRun, WithdrawRunInput, CancelRun, Settle
  <1> QED BY <1>1, <1>2, <1>3, <1>4, <1>5, <1>6 DEF DeliveryNext, DeliveryStep

\* What is open is not acknowledged.
LEMMA LoneIsSettled ==
    ASSUME DeliveryInv, LoneInv
    PROVE  AckedIsSettled
  <1> SUFFICES ASSUME NEW t \in DOMAIN attempts, attempts[t].event <= acked,
                      attempts[t].status \notin Settled
               PROVE  FALSE
    BY DEF AckedIsSettled
  <1>1. Open(t) /\ acked \in Nat
    <2>1. attempts \in Seq(AttemptRows) /\ acked \in Nat
      BY DEF DeliveryInv, DeliveryTyped
    <2>2. attempts[t] \in AttemptRows
      BY <2>1, ElementOf
    <2> QED BY <2>1, <2>2 DEF AttemptRows, Open
  <1>2. attempts[t].event = acked + 1
    BY <1>1 DEF LoneInv, OpenInv, Frontier
  <1> QED BY <1>1, <1>2

(***************************************************************************)
(* In addition, a Host that works alone, however often it crashes, is      *)
(* stopped or loses its lease, acknowledges an event only after every      *)
(* ProviderAttempt recorded for it has an outcome.                         *)
(***************************************************************************)
THEOREM ScenesAreSafe == ScenesSpec => []DeliveryIsSafe
  <1> DEFINE Inv == DeliveryInv /\ AloneInv
  <1>1. ScenesInit => Inv
    BY DeliveryInvInit, LoneInvInit DEF ScenesInit, AloneInv
  <1>2. Inv /\ [ScenesNext /\ UNCHANGED subject]_<<deliveryVars, subject>> => Inv'
    <2> SUFFICES ASSUME Inv, [ScenesNext /\ UNCHANGED subject]_<<deliveryVars, subject>>
                 PROVE  Inv'
      OBVIOUS
    <2>1. [DeliveryNext]_deliveryVars /\ subject' = subject
      BY DEF ScenesNext
    <2>2. DeliveryInv'
      BY <2>1, DeliveryInvNext
    <2>3. AloneInv'
      <3> SUFFICES ASSUME Alone, LoneInv
                   PROVE  LoneInv'
        BY <2>1 DEF AloneInv, Alone
      <3>1. CASE UNCHANGED deliveryVars
        BY <3>1, ZenonT(60) DEF deliveryVars, LoneInv, OpenInv, LoneOk, NoneOpen, Open, Shown, Found,
                    Frontier
      <3>2. CASE ScenesNext
        <4>1. DeliveryNext /\ \A g \in Hosts \ {Host1} : host'[g] = host[g]
          BY <3>2 DEF ScenesNext, Alone
        <4> QED BY <4>1, LoneInvNext
      <3> QED BY <3>1, <3>2
    <2> QED BY <2>2, <2>3
  <1>3. Inv => DeliveryIsSafe
    BY DeliveryInvSafe, LoneIsSettled DEF AloneInv, DeliveryIsSafe
  <1> QED BY <1>1, <1>2, <1>3, PTL DEF ScenesSpec

=============================================================================
