---------------------------- MODULE BrowserProofs ----------------------------
(***************************************************************************)
(* Proofs about HumanCommands for any number of Runs, commands, Humans,    *)
(* sessions, submissions, faults and reloads.                              *)
(*                                                                         *)
(* CommandSafety is not inductive.  What makes it true is the agreement of *)
(* everything that goes by an idempotency key (Claims): calls, requests    *)
(* the window gave up on, and the entries that keep a key, in memory and   *)
(* in session storage.  A key stands for one intention at one revision and *)
(* an intention for one key (KeysOk); what an entry may still submit is    *)
(* later than all that was ever meant, or has its key (EntryOk); answers   *)
(* are true and stay so (AnswersOk); and an intention whose fate is not    *)
(* uncertain left no request behind (CertainOk).                           *)
(*                                                                         *)
(* Handlers change the window in several moves.  The invariant is stated   *)
(* of any server s, window w, late requests l and use u of the bounds, so  *)
(* that what lies between two moves can be spoken of as well.              *)
(***************************************************************************)
EXTENDS HumanCommands, SequenceTheorems, FiniteSetTheorems, TLAPS

EntryRows ==
    [status : {"draft", "submitting", "unknown", "auth-required", "rejected", "submitted"},
     key : Nat, principal : Principals \cup {Nobody}, expected : Nat, uncertain : BOOLEAN,
     rejected : Nat, review : BOOLEAN, acknowledged : Nat, active : Int, intent : Nat]

CallRows ==
    [n : Nat, op : Ops, key : Nat, expected : Nat, intent : Nat, by : Principals,
     sid : Nat, token : Nat, sameSession : BOOLEAN, sameToken : BOOLEAN,
     attempt : {1, 2, 3}, state : {"Sent", "Refreshing", "Rotating"},
     answer : {"None", "Ok", "401", "403", "Forbidden", "Stale", "Error"}]

CommitRows ==
    [op : Ops, key : Nat, intent : Nat, by : Principals, principal : Principals]

ToldRows == [op : Ops, intent : Nat, by : Principals, how : {"done", "not done", "refused"}]

ServerRows ==
    [live : SUBSET Nat, owner : Seq(Principals), cookie : Nat, revision : [Ops -> Nat],
     permits : [Ops -> BOOLEAN], commits : SUBSET CommitRows]

WindowRows ==
    [token : Nat, principal : Principals \cup {Nobody}, calls : SUBSET CallRows,
     entry : [Ops -> EntryRows], seen : [Ops -> Nat], broken : BOOLEAN,
     saved : [Controls -> EntryRows], exchanging : SUBSET Nat, inbox : Seq(Nat),
     told : SUBSET ToldRows]

UsedRows == [submits : Nat, faults : Nat, moves : Nat, reloads : Nat, keys : Nat]

-----------------------------------------------------------------------------
(* The inductive invariant *)

Typed(s, w, l, u) ==
    s \in ServerRows /\ w \in WindowRows /\ l \in SUBSET CallRows /\ u \in UsedRows

Requests(w, l) == w.calls \cup l

\* A token belongs to its principal, and a call acts for the one who gave it.
SessionsOk(s, w, l) ==
    /\ s.live \subseteq DOMAIN s.owner
    /\ w.token \in {None} \cup DOMAIN s.owner
    /\ w.principal = IF w.token = None THEN Nobody ELSE s.owner[w.token]
    /\ w.exchanging \subseteq DOMAIN s.owner
    /\ \A i \in DOMAIN w.inbox : w.inbox[i] \in {None} \cup DOMAIN s.owner
    /\ \A q \in Requests(w, l) : q.token \in DOMAIN s.owner /\ s.owner[q.token] = q.by
    /\ \A c \in w.calls : c.sameSession => c.by = w.principal

\* What goes by a key: requests, and entries that keep one.
Claim(o, r) == [op |-> o, key |-> r.key, intent |-> r.intent, expected |-> r.expected]

Asked(w, l) == {Claim(q.op, q) : q \in Requests(w, l)}

Claims(w, l) ==
    Asked(w, l)
    \cup {Claim(o, w.entry[o]) : o \in {p \in Ops : w.entry[p].key # None}}
    \cup {Claim(o, w.saved[o]) : o \in {p \in Controls : w.saved[p].key # None}}

Named(s, w, l) == Claims(w, l) \cup s.commits

\* A key stands for one intention at one revision, an intention for one key.
KeysOk(s, w, l, keys) ==
    /\ \A a, b \in Named(s, w, l) : a.key = b.key <=> (a.op = b.op /\ a.intent = b.intent)
    /\ \A a, b \in Claims(w, l) : a.key = b.key => a.expected = b.expected
    /\ \A a \in Named(s, w, l) : a.key \in 1..keys
    /\ \A a \in Claims(w, l) : a.expected <= s.revision[a.op]
    /\ \A o \in Ops : w.seen[o] <= s.revision[o]
    /\ \A k \in s.commits : k.by = k.principal

\* A request for revision x of o cannot take effect any more.
Hopeless(s, o, x) == o \notin Posts /\ x < s.revision[o]

\* The window said of an intention only that it was refused.
Denied(w, t) ==
    /\ t \in w.told /\ t.how = "not done"
    /\ [t EXCEPT !.how = "done"] \notin w.told

\* What entry e of o stands for is later than all that was ever meant, unless
\* it is the last of it, and then it has its key.
EntryOk(s, w, l, o, e) ==
    /\ e.uncertain => e.key # None
    /\ \A a \in Named(s, w, l) : a.op = o =>
          a.intent < e.intent \/ (a.intent = e.intent /\ a.key = e.key)
    /\ \A t \in w.told : t.op = o =>
          t.intent < e.intent \/ (t.intent = e.intent /\ e.key # None)
    /\ \A t \in w.told :
          Denied(w, t) /\ t.op = o /\ t.intent = e.intent => Hopeless(s, o, e.expected)

\* What session storage has: no call is under way for it, and nothing is known of
\* the outcome of its request.
Restful(e) == e.status # "submitting" /\ (e.key # None => e.uncertain)

EntriesOk(s, w, l) ==
    /\ \A o \in Ops : EntryOk(s, w, l, o, w.entry[o])
    /\ \A o \in Controls :
          EntryOk(s, w, l, o, w.saved[o]) /\ Restful(w.saved[o])

CallsOf(w, o) == {c \in w.calls : c.op = o}

Numbers(w, o) == {c.n : c \in CallsOf(w, o)}

\* The calls under way are those of the entries.
CallsOk(w, submits) ==
    /\ \A c, d \in w.calls : c.n = d.n => c = d
    /\ \A c \in w.calls :
          /\ c.n < submits
          /\ c.key = w.entry[c.op].key /\ c.intent = w.entry[c.op].intent
          /\ c.expected = w.entry[c.op].expected
    /\ \A o \in RunOps :
          /\ w.entry[o].status = "submitting" <=> \E c \in w.calls : c.op = o
          /\ \A c, d \in w.calls : c.op = o /\ d.op = o => c = d
    /\ \A o \in Pending : w.entry[o].active = Cardinality(Numbers(w, o))

\* What an answer says is so, and stays so.
AnswerOk(s, c) ==
    /\ c.state = "Refreshing" => c.answer = "Ok" /\ c.op \in Pending
    /\ c.state = "Rotating" => c.answer = "403"
    /\ c.answer = "Ok" => \E k \in s.commits : k.key = c.key /\ k.by = c.by
    /\ c.answer = "Stale" =>
          /\ c.op \notin Posts /\ c.expected < s.revision[c.op]
          /\ \A k \in s.commits : ~(k.key = c.key /\ k.by = c.by)

AnswersOk(s, w) == \A c \in w.calls : AnswerOk(s, c)

\* The user was told that it was done, or is about to be.
Acknowledged(w, k) ==
    \/ \E t \in w.told :
          t.op = k.op /\ t.intent = k.intent /\ t.by = k.by /\ t.how = "done"
    \/ \E c \in CallsOf(w, k.op) : c.answer = "Ok" /\ c.by = k.by

\* Nobody knows whether a request of the entry took effect, or will.
Uncertain(w, o) ==
    w.entry[o].uncertain \/ \E c \in CallsOf(w, o) : c.answer = "Error"

CertainAt(s, w, l, o) ==
    w.entry[o].key # None /\ ~Uncertain(w, o) =>
       /\ \A q \in l : ~(q.op = o /\ q.intent = w.entry[o].intent)
       /\ \A k \in s.commits :
             k.op = o /\ k.intent = w.entry[o].intent => Acknowledged(w, k)

CertainOk(s, w, l) == \A o \in Ops : CertainAt(s, w, l, o)

\* What the user was told is so, and stays so.
ToldOk(s, w, l) ==
    \A t \in w.told :
        /\ t.how = "done" /\ t.op \in RunOps =>
              \E k \in s.commits : k.op = t.op /\ k.intent = t.intent
        /\ Denied(w, t) =>
              /\ \A k \in s.commits :
                    ~(k.op = t.op /\ k.intent = t.intent /\ k.by = t.by)
              /\ \A a \in Asked(w, l) : a.op = t.op /\ a.intent = t.intent =>
                    Hopeless(s, a.op, a.expected)

CommandOk(s, w, l, u) ==
    /\ Typed(s, w, l, u)
    /\ SessionsOk(s, w, l)
    /\ KeysOk(s, w, l, u.keys)
    /\ EntriesOk(s, w, l)
    /\ CallsOk(w, u.submits)
    /\ AnswersOk(s, w)
    /\ CertainOk(s, w, l)
    /\ ToldOk(s, w, l)

CommandInv == CommandOk(server, window, late, used)

-----------------------------------------------------------------------------
(* Rows *)

\* Rows have the fields they are made of.
LEMMA RowFields ==
    /\ \A e \in EntryRows : e.key \in Nat /\ e.intent \in Nat /\ e.expected \in Nat
                            /\ e.active \in Int /\ e.acknowledged \in Nat
                            /\ e.uncertain \in BOOLEAN
    /\ \A c \in CallRows : c.n \in Nat /\ c.op \in Ops /\ c.key \in Nat /\ c.expected \in Nat
                           /\ c.intent \in Nat /\ c.by \in Principals
    /\ \A s \in ServerRows : s.revision \in [Ops -> Nat] /\ s.permits \in [Ops -> BOOLEAN]
                             /\ s.commits \subseteq CommitRows
    /\ \A w \in WindowRows : w.calls \subseteq CallRows /\ w.entry \in [Ops -> EntryRows]
                             /\ w.saved \in [Controls -> EntryRows]
                             /\ w.seen \in [Ops -> Nat] /\ w.told \subseteq ToldRows
BY DEF EntryRows, CallRows, ServerRows, WindowRows

\* The kinds of commands: Runs on one side, collaboration on the other.
LEMMA OpKinds ==
    /\ Controls \subseteq Ops /\ RunOps \subseteq Ops /\ Pending \subseteq Ops
    /\ Posts \subseteq Pending /\ Controls \subseteq RunOps
    /\ Ops = RunOps \cup Pending /\ RunOps \cap Pending = {}
BY HumanCommandsAssumption DEF HumanCommandsAssumption, Ops, RunOps, Pending

\* An entry that is worth saving keeps its request or its receipt, nothing else.
LEMMA KeptIs ==
    ASSUME NEW e \in EntryRows
    PROVE  /\ Kept(e) \in EntryRows
           /\ Kept(e).key = e.key /\ Kept(e).intent = e.intent
           /\ e.key # None => Kept(e).expected = e.expected
           /\ Kept(e).uncertain <=> e.key # None
           /\ Kept(e).status # "submitting" /\ Restful(Kept(e))
<1>1. CASE e.key = None
  <2>1. Kept(e) = [EmptyEntry EXCEPT !.acknowledged = e.acknowledged, !.intent = e.intent,
             !.status = IF e.acknowledged = None THEN "draft" ELSE "submitted"]
    BY <1>1 DEF Kept
  <2>2. /\ Kept(e).key = None /\ Kept(e).intent = e.intent /\ ~Kept(e).uncertain
        /\ Kept(e).status \in {"draft", "submitted"}
    BY <2>1 DEF EmptyEntry
  <2>3. Kept(e) \in EntryRows
    <3>1. PICK st \in {"draft", "submitted"} :
             st = IF e.acknowledged = None THEN "draft" ELSE "submitted"
      OBVIOUS
    <3>2. Kept(e) =
             [status |-> st, key |-> 0, principal |-> Nobody, expected |-> 0,
              uncertain |-> FALSE, rejected |-> 0, review |-> FALSE,
              acknowledged |-> e.acknowledged, active |-> 0, intent |-> e.intent]
      BY <2>1, <3>1 DEF EmptyEntry, None
    <3> QED BY <3>2, RowFields DEF EntryRows
  <2>4. Kept(e).status # "submitting" /\ Restful(Kept(e))
    BY ONLY <2>2 DEF Restful, None
  <2> QED BY <1>1, <2>2, <2>3, <2>4
<1>2. CASE e.key # None
  <2>1. Kept(e) = [EmptyEntry EXCEPT !.key = e.key, !.principal = e.principal,
             !.expected = e.expected, !.status = "unknown", !.uncertain = TRUE,
             !.intent = e.intent]
    BY <1>2 DEF Kept
  <2>2. /\ Kept(e).key = e.key /\ Kept(e).intent = e.intent /\ Kept(e).uncertain = TRUE
        /\ Kept(e).expected = e.expected /\ Kept(e).status = "unknown"
    BY <2>1 DEF EmptyEntry
  <2>3. e.principal \in Principals \cup {Nobody}
    BY DEF EntryRows
  <2>4. Kept(e) \in EntryRows
    <3>1. Kept(e) =
             [status |-> "unknown", key |-> e.key, principal |-> e.principal,
              expected |-> e.expected, uncertain |-> TRUE, rejected |-> 0,
              review |-> FALSE, acknowledged |-> 0, active |-> 0, intent |-> e.intent]
      BY <2>1 DEF EmptyEntry, None
    <3> QED BY <3>1, <2>3, RowFields DEF EntryRows
  <2>5. Kept(e).status # "submitting" /\ Restful(Kept(e))
    BY ONLY <2>2 DEF Restful, None
  <2> QED BY <1>2, <2>2, <2>4, <2>5
<1> QED BY <1>1, <1>2

\* Entry e of op is put in w, and, if it is one that is saved, into the storage.
Puts(w, w1, op, e) ==
    /\ w1.entry = [w.entry EXCEPT ![op] = e]
    /\ \/ w1.saved = w.saved
       \/ op \in Controls /\ w1.saved = [w.saved EXCEPT ![op] = Kept(e)]

LEMMA PutIs ==
    ASSUME NEW w \in WindowRows, NEW op \in Ops, NEW e \in EntryRows
    PROVE  /\ Put(w, op, e) \in WindowRows
           /\ Puts(w, Put(w, op, e), op, e)
           /\ op \in Controls /\ ~w.broken =>
                 Put(w, op, e).saved = [w.saved EXCEPT ![op] = Kept(e)]
           /\ Put(w, op, e).token = w.token /\ Put(w, op, e).principal = w.principal
           /\ Put(w, op, e).calls = w.calls /\ Put(w, op, e).seen = w.seen
           /\ Put(w, op, e).broken = w.broken /\ Put(w, op, e).exchanging = w.exchanging
           /\ Put(w, op, e).inbox = w.inbox /\ Put(w, op, e).told = w.told
<1> DEFINE saved == IF op \in Controls /\ ~w.broken
                    THEN [w.saved EXCEPT ![op] = Kept(e)] ELSE w.saved
<1>1. saved \in [Controls -> EntryRows]
  BY KeptIs, RowFields
<1>2. Put(w, op, e) = [w EXCEPT !.entry = [w.entry EXCEPT ![op] = e], !.saved = saved]
  BY DEF Put, WindowRows
<1>3. [w.entry EXCEPT ![op] = e] \in [Ops -> EntryRows]
  BY RowFields
<1>4. saved = w.saved \/ (op \in Controls /\ saved = [w.saved EXCEPT ![op] = Kept(e)])
  OBVIOUS
<1>5. op \in Controls /\ ~w.broken => saved = [w.saved EXCEPT ![op] = Kept(e)]
  OBVIOUS
<1> HIDE DEF saved
<1> QED BY <1>1, <1>2, <1>3, <1>4, <1>5 DEF WindowRows, Puts

-----------------------------------------------------------------------------
(* What is named *)

LEMMA RequestIsAsked ==
    ASSUME NEW w, NEW l, NEW q \in Requests(w, l)
    PROVE  /\ Claim(q.op, q) \in Asked(w, l) /\ Claim(q.op, q) \in Claims(w, l)
           /\ Claim(q.op, q).op = q.op /\ Claim(q.op, q).key = q.key
           /\ Claim(q.op, q).intent = q.intent /\ Claim(q.op, q).expected = q.expected
BY DEF Asked, Claims, Claim

LEMMA AskedIsOfRequest ==
    ASSUME NEW w, NEW l, NEW a \in Asked(w, l)
    PROVE  \E q \in Requests(w, l) :
              q.op = a.op /\ q.key = a.key /\ q.intent = a.intent /\ q.expected = a.expected
BY DEF Asked, Claim

LEMMA AskedAreClaims ==
    ASSUME NEW s, NEW w, NEW l
    PROVE  Asked(w, l) \subseteq Claims(w, l) /\ Claims(w, l) \subseteq Named(s, w, l)
           /\ s.commits \subseteq Named(s, w, l)
BY DEF Claims, Named

\* An entry with a key is named.
LEMMA EntryIsClaimed ==
    ASSUME NEW w, NEW l, NEW o \in Ops, w.entry[o].key # None
    PROVE  Claim(o, w.entry[o]) \in Claims(w, l)
           /\ Claim(o, w.entry[o]).op = o /\ Claim(o, w.entry[o]).key = w.entry[o].key
           /\ Claim(o, w.entry[o]).intent = w.entry[o].intent
           /\ Claim(o, w.entry[o]).expected = w.entry[o].expected
BY DEF Claims, Claim

LEMMA SavedIsClaimed ==
    ASSUME NEW w, NEW l, NEW o \in Controls, w.saved[o].key # None
    PROVE  Claim(o, w.saved[o]) \in Claims(w, l)
           /\ Claim(o, w.saved[o]).op = o /\ Claim(o, w.saved[o]).key = w.saved[o].key
           /\ Claim(o, w.saved[o]).intent = w.saved[o].intent
           /\ Claim(o, w.saved[o]).expected = w.saved[o].expected
BY DEF Claims, Claim

\* What is named has a number for its key and its intention.
LEMMA NamedRows ==
    ASSUME NEW s \in ServerRows, NEW w \in WindowRows, NEW l \in SUBSET CallRows,
           NEW a \in Named(s, w, l)
    PROVE  a.op \in Ops /\ a.key \in Nat /\ a.intent \in Nat
<1>1. CASE a \in Asked(w, l)
  <2>1. PICK q \in Requests(w, l) : a = Claim(q.op, q)
    BY <1>1 DEF Asked
  <2>2. q \in CallRows
    BY RowFields DEF Requests
  <2> QED BY <2>1, <2>2, RowFields DEF Claim
<1>2. CASE \E o \in Ops : a = Claim(o, w.entry[o])
  BY <1>2, RowFields DEF Claim
<1>3. CASE \E o \in Controls : a = Claim(o, w.saved[o])
  BY <1>3, RowFields, OpKinds DEF Claim
<1>4. CASE a \in s.commits
  BY <1>4, RowFields DEF CommitRows
<1> QED BY <1>1, <1>2, <1>3, <1>4 DEF Named, Claims

-----------------------------------------------------------------------------
(* Moves of the window that keep what entries stand for *)

\* Where fewer things are named and the user is told no more, entries stay right.
LEMMA FewerNames ==
    ASSUME NEW s, NEW w, NEW l, NEW w1, NEW l1, NEW o, NEW e,
           Claims(w1, l1) \subseteq Claims(w, l), w1.told = w.told,
           EntryOk(s, w, l, o, e)
    PROVE  EntryOk(s, w1, l1, o, e)
<1>1. Named(s, w1, l1) \subseteq Named(s, w, l)
  BY DEF Named
<1>2. \A t : Denied(w1, t) <=> Denied(w, t)
  BY DEF Denied
<1> QED BY <1>1, <1>2 DEF EntryOk

LEMMA FewerKeys ==
    ASSUME NEW s, NEW w, NEW l, NEW w1, NEW l1, NEW n,
           Claims(w1, l1) \subseteq Claims(w, l),
           \A o \in Ops : w1.seen[o] <= s.revision[o],
           KeysOk(s, w, l, n)
    PROVE  KeysOk(s, w1, l1, n)
<1>1. Named(s, w1, l1) \subseteq Named(s, w, l)
  BY DEF Named
<1> QED BY <1>1 DEF KeysOk

\* The entries and the storage stand, and no more is asked for.
LEMMA Standing ==
    ASSUME NEW s, NEW w, NEW l, NEW w1, NEW l1, NEW n,
           w1.entry = w.entry, w1.saved = w.saved, w1.told = w.told,
           \A o \in Ops : w1.seen[o] <= s.revision[o],
           Asked(w1, l1) \subseteq Asked(w, l),
           KeysOk(s, w, l, n), EntriesOk(s, w, l), ToldOk(s, w, l)
    PROVE  KeysOk(s, w1, l1, n) /\ EntriesOk(s, w1, l1) /\ ToldOk(s, w1, l1)
<1>1. Claims(w1, l1) \subseteq Claims(w, l)
  BY DEF Claims
<1>2. KeysOk(s, w1, l1, n)
  BY <1>1, FewerKeys
<1>3. EntriesOk(s, w1, l1)
  BY <1>1, FewerNames DEF EntriesOk
<1>4. \A t : Denied(w1, t) <=> Denied(w, t)
  BY DEF Denied
<1>5. ToldOk(s, w1, l1)
  BY <1>4 DEF ToldOk
<1> QED BY <1>2, <1>3, <1>5

\* A refusal the user still believes is one the user believed before.
LEMMA StillDenied ==
    ASSUME NEW w, NEW w1, w.told \subseteq w1.told,
           \A t \in w1.told : t \in w.told \/ t.how = "done",
           NEW t1, Denied(w1, t1)
    PROVE  Denied(w, t1)
<1>1. t1 \in w1.told /\ t1.how = "not done" /\ [t1 EXCEPT !.how = "done"] \notin w1.told
  BY DEF Denied
<1>2. t1 \in w.told
  BY <1>1
<1>3. [t1 EXCEPT !.how = "done"] \notin w.told
  BY <1>1
<1> QED BY <1>1, <1>2, <1>3 DEF Denied

\* An entry is as right as another of the same key and intention.
LEMMA SameEntry ==
    ASSUME NEW s, NEW w, NEW l, NEW o, NEW f, NEW g, f.intent \in Nat, EntryOk(s, w, l, o, f),
           g.key = f.key, g.intent = f.intent, g.key # None => g.expected = f.expected,
           g.uncertain => g.key # None
    PROVE  EntryOk(s, w, l, o, g)
<1>1. \A t \in w.told :
         Denied(w, t) /\ t.op = o /\ t.intent = g.intent => Hopeless(s, o, g.expected)
  <2> SUFFICES ASSUME NEW t \in w.told, Denied(w, t), t.op = o, t.intent = g.intent
               PROVE  Hopeless(s, o, g.expected)
    OBVIOUS
  <2>1. t.intent < f.intent \/ (t.intent = f.intent /\ f.key # None)
    BY DEF EntryOk
  <2>2. Hopeless(s, o, f.expected)
    BY DEF EntryOk
  <2>3. CASE f.key # None
    BY <2>2, <2>3
  <2>4. CASE f.key = None
    <3>1. t.intent = f.intent /\ ~(f.intent < f.intent)
      OBVIOUS
    <3> QED BY <2>1, <2>4, <3>1
  <2> QED BY <2>3, <2>4
<1> QED BY <1>1 DEF EntryOk

\* An entry goes on standing for what it stood for; its key may be asked for again.
LEMMA Keeping ==
    ASSUME NEW s \in ServerRows, NEW w \in WindowRows, NEW l,
           NEW w1 \in WindowRows, NEW l1, NEW n \in Nat,
           NEW op \in Ops, NEW e \in EntryRows, Puts(w, w1, op, e),
           e.key = w.entry[op].key, e.intent = w.entry[op].intent,
           e.expected = w.entry[op].expected, e.uncertain => e.key # None,
           \A o \in Ops : w1.seen[o] <= s.revision[o],
           \A a \in Asked(w1, l1) : a \in Asked(w, l) \/ (e.key # None /\ a = Claim(op, e)),
           w.told \subseteq w1.told,
           \A t \in w1.told : \/ t \in w.told
                              \/ /\ t.how = "done" /\ t.op = op /\ op \notin RunOps
                                 /\ t.intent = e.intent /\ e.key # None,
           KeysOk(s, w, l, n), EntriesOk(s, w, l), ToldOk(s, w, l)
    PROVE  KeysOk(s, w1, l1, n) /\ EntriesOk(s, w1, l1) /\ ToldOk(s, w1, l1)
<1>1. /\ \A o \in Ops : w1.entry[o] = IF o = op THEN e ELSE w.entry[o]
      /\ \A o \in Controls : \/ w1.saved[o] = w.saved[o]
                             \/ o = op /\ w1.saved[o] = Kept(e)
  BY RowFields DEF Puts
<1>2. Claim(op, e) = Claim(op, w.entry[op])
  BY DEF Claim
<1>3. /\ Kept(e).key = e.key /\ Kept(e).intent = e.intent
      /\ e.key # None => Kept(e).expected = e.expected
      /\ Kept(e).uncertain <=> e.key # None
      /\ Kept(e).status # "submitting" /\ Restful(Kept(e))
  BY KeptIs
<1>4. e.key # None => Claim(op, Kept(e)) = Claim(op, e)
  BY <1>3 DEF Claim
<1>5. Claims(w1, l1) \subseteq Claims(w, l)
  <2> SUFFICES ASSUME NEW a \in Claims(w1, l1) PROVE a \in Claims(w, l)
    OBVIOUS
  <2>1. CASE a \in Asked(w1, l1)
    BY <2>1, <1>2, EntryIsClaimed DEF Claims
  <2>2. CASE \E o \in Ops : w1.entry[o].key # None /\ a = Claim(o, w1.entry[o])
    <3>1. PICK o \in Ops : w1.entry[o].key # None /\ a = Claim(o, w1.entry[o])
      BY <2>2
    <3>2. w.entry[o].key # None /\ a = Claim(o, w.entry[o])
      BY <3>1, <1>1, <1>2
    <3> QED BY <3>2, EntryIsClaimed
  <2>3. CASE \E o \in Controls : w1.saved[o].key # None /\ a = Claim(o, w1.saved[o])
    <3>1. PICK o \in Controls : w1.saved[o].key # None /\ a = Claim(o, w1.saved[o])
      BY <2>3
    <3>2. CASE w1.saved[o] = w.saved[o]
      BY <3>1, <3>2, SavedIsClaimed
    <3>3. CASE o = op /\ w1.saved[o] = Kept(e)
      <4>1. w.entry[op].key # None /\ a = Claim(op, w.entry[op])
        BY <3>1, <3>3, <1>2, <1>3, <1>4
      <4> QED BY <4>1, EntryIsClaimed
    <3> QED BY <3>2, <3>3, <1>1
  <2> QED BY <2>1, <2>2, <2>3 DEF Claims
<1>6. KeysOk(s, w1, l1, n)
  BY <1>5, FewerKeys
<1>7. Named(s, w1, l1) \subseteq Named(s, w, l)
  BY <1>5 DEF Named
<1>8. \A t : Denied(w1, t) => Denied(w, t)
  BY StillDenied
<1>9. ASSUME NEW o \in Ops, NEW f, EntryOk(s, w, l, o, f),
             o = op /\ op \notin RunOps => f.key = e.key /\ f.intent = e.intent
      PROVE  EntryOk(s, w1, l1, o, f)
  <2>1. \A t \in w1.told : t.op = o =>
           t.intent < f.intent \/ (t.intent = f.intent /\ f.key # None)
    BY <1>9 DEF EntryOk
  <2>2. \A t \in w1.told :
           Denied(w1, t) /\ t.op = o /\ t.intent = f.intent => Hopeless(s, o, f.expected)
    <3> SUFFICES ASSUME NEW t \in w1.told, Denied(w1, t), t.op = o, t.intent = f.intent
                 PROVE  Hopeless(s, o, f.expected)
      OBVIOUS
    <3>1. Denied(w, t) /\ t \in w.told
      BY <1>8 DEF Denied
    <3> QED BY <3>1, <1>9 DEF EntryOk
  <2>3. \A a \in Named(s, w1, l1) : a.op = o =>
           a.intent < f.intent \/ (a.intent = f.intent /\ a.key = f.key)
    BY <1>7, <1>9 DEF EntryOk
  <2>4. f.uncertain => f.key # None
    BY <1>9 DEF EntryOk
  <2> QED BY <2>1, <2>2, <2>3, <2>4 DEF EntryOk
<1>10. \A o \in Ops : EntryOk(s, w1, l1, o, w1.entry[o])
  <2> SUFFICES ASSUME NEW o \in Ops PROVE EntryOk(s, w1, l1, o, w1.entry[o])
    OBVIOUS
  <2>1. EntryOk(s, w, l, o, w.entry[o])
    BY DEF EntriesOk
  <2>2. EntryOk(s, w1, l1, o, w.entry[o])
    BY <2>1, <1>9
  <2>3. CASE o = op
    <3>1. EntryOk(s, w1, l1, op, e)
      BY <2>2, <2>3, RowFields, SameEntry
    <3> QED BY <3>1, <2>3, <1>1
  <2>4. CASE o # op
    BY <2>2, <2>4, <1>1
  <2> QED BY <2>3, <2>4
<1>11. \A o \in Controls :
          EntryOk(s, w1, l1, o, w1.saved[o]) /\ Restful(w1.saved[o])
  <2> SUFFICES ASSUME NEW o \in Controls
               PROVE  EntryOk(s, w1, l1, o, w1.saved[o]) /\ Restful(w1.saved[o])
    OBVIOUS
  <2>1. o \in Ops /\ o \in RunOps
    BY OpKinds
  <2>2. CASE w1.saved[o] = w.saved[o]
    <3>1. EntryOk(s, w, l, o, w.saved[o]) /\ Restful(w.saved[o])
      BY DEF EntriesOk
    <3>2. EntryOk(s, w1, l1, o, w.saved[o])
      BY <3>1, <2>1, <1>9
    <3> QED BY <3>1, <3>2, <2>2
  <2>3. CASE o = op /\ w1.saved[o] = Kept(e)
    <3>1. EntryOk(s, w1, l1, op, e)
      BY <1>10, <1>1
    <3>2. EntryOk(s, w1, l1, op, Kept(e))
      BY <3>1, <1>3, RowFields, SameEntry
    <3> QED BY <3>2, <2>3, <1>3
  <2> QED BY <2>2, <2>3, <1>1
<1>12. EntriesOk(s, w1, l1)
  BY <1>10, <1>11 DEF EntriesOk
<1>13. ToldOk(s, w1, l1)
  <2>1. ASSUME NEW t \in w1.told, t.how = "done", t.op \in RunOps
        PROVE  \E k \in s.commits : k.op = t.op /\ k.intent = t.intent
    BY <2>1 DEF ToldOk
  <2>2. ASSUME NEW t \in w1.told, Denied(w1, t)
        PROVE  \A k \in s.commits :
                    ~(k.op = t.op /\ k.intent = t.intent /\ k.by = t.by)
    BY <2>2, <1>8 DEF ToldOk, Denied
  <2>3. ASSUME NEW t \in w1.told, Denied(w1, t), NEW a \in Asked(w1, l1),
               a.op = t.op, a.intent = t.intent
        PROVE  Hopeless(s, a.op, a.expected)
    <3>1. Denied(w, t) /\ t \in w.told
      BY <2>3, <1>8 DEF Denied
    <3>2. CASE a \in Asked(w, l)
      BY <3>1, <3>2, <2>3 DEF ToldOk
    <3>3. CASE e.key # None /\ a = Claim(op, e)
      <4>1. a.op = op /\ a.intent = e.intent /\ a.expected = e.expected
        BY <3>3 DEF Claim
      <4>2. EntryOk(s, w, l, op, w.entry[op])
        BY DEF EntriesOk
      <4> QED BY <4>1, <4>2, <3>1, <2>3 DEF EntryOk
    <3> QED BY <3>2, <3>3
  <2> QED BY <2>1, <2>2, <2>3 DEF ToldOk
<1> QED BY <1>6, <1>12, <1>13

-----------------------------------------------------------------------------
(* Moves of the window that change what an entry stands for *)

\* A first submission names the intention of its entry with a key nobody has.
LEMMA Naming ==
    ASSUME NEW s \in ServerRows, NEW w \in WindowRows, NEW l,
           NEW w1 \in WindowRows, NEW n \in Nat,
           NEW op \in Ops, NEW e \in EntryRows,
           w1.entry = [w.entry EXCEPT ![op] = e],
           \/ op \notin Controls /\ w1.saved = w.saved
           \/ op \in Controls /\ w1.saved = [w.saved EXCEPT ![op] = Kept(e)],
           w.entry[op].key = None, e.key = n + 1, e.intent = w.entry[op].intent,
           e.expected = w.seen[op],
           w1.seen = w.seen, w1.told = w.told,
           \A a \in Asked(w1, l) : a \in Asked(w, l) \/ a = Claim(op, e),
           KeysOk(s, w, l, n), EntriesOk(s, w, l), ToldOk(s, w, l)
    PROVE  KeysOk(s, w1, l, n + 1) /\ EntriesOk(s, w1, l) /\ ToldOk(s, w1, l)
<1> DEFINE new == Claim(op, e)
<1>1. /\ \A o \in Ops : w1.entry[o] = IF o = op THEN e ELSE w.entry[o]
      /\ \A o \in Controls : \/ o # op /\ w1.saved[o] = w.saved[o]
                             \/ o = op /\ w1.saved[o] = Kept(e)
  BY RowFields
<1>2. /\ new.op = op /\ new.key = n + 1 /\ new.intent = e.intent
      /\ new.expected = w.seen[op]
  BY DEF Claim
<1>3. /\ Kept(e).key = e.key /\ Kept(e).intent = e.intent
      /\ Kept(e).expected = e.expected
      /\ Kept(e).uncertain <=> e.key # None
      /\ Kept(e).status # "submitting" /\ Restful(Kept(e))
  BY KeptIs DEF None
<1>4. Claim(op, Kept(e)) = new
  BY <1>3 DEF Claim
<1> HIDE DEF new
<1>5. Claims(w1, l) \subseteq Claims(w, l) \cup {new}
  <2> SUFFICES ASSUME NEW a \in Claims(w1, l) PROVE a \in Claims(w, l) \cup {new}
    OBVIOUS
  <2>1. CASE a \in Asked(w1, l)
    BY <2>1 DEF Claims, new
  <2>2. CASE \E o \in Ops : w1.entry[o].key # None /\ a = Claim(o, w1.entry[o])
    <3>1. PICK o \in Ops : w1.entry[o].key # None /\ a = Claim(o, w1.entry[o])
      BY <2>2
    <3>2. CASE o = op
      BY <3>1, <3>2, <1>1 DEF new
    <3>3. CASE o # op
      <4>1. w.entry[o].key # None /\ a = Claim(o, w.entry[o])
        BY <3>1, <3>3, <1>1
      <4> QED BY <4>1, EntryIsClaimed
    <3> QED BY <3>2, <3>3
  <2>3. CASE \E o \in Controls : w1.saved[o].key # None /\ a = Claim(o, w1.saved[o])
    <3>1. PICK o \in Controls : w1.saved[o].key # None /\ a = Claim(o, w1.saved[o])
      BY <2>3
    <3>2. CASE w1.saved[o] = w.saved[o]
      BY <3>1, <3>2, SavedIsClaimed
    <3>3. CASE o = op /\ w1.saved[o] = Kept(e)
      BY <3>1, <3>3, <1>4
    <3> QED BY <3>2, <3>3, <1>1
  <2> QED BY <2>1, <2>2, <2>3 DEF Claims
<1>6. Named(s, w1, l) \subseteq Named(s, w, l) \cup {new}
  BY <1>5 DEF Named
<1>7. \A a \in Named(s, w, l) : a.key \in 1..n /\ a.key # n + 1
  BY DEF KeysOk
<1>8. EntryOk(s, w, l, op, w.entry[op])
  BY DEF EntriesOk
<1>9. \A a \in Named(s, w, l) : a.op = op => a.intent < e.intent /\ a.intent # e.intent
  <2> SUFFICES ASSUME NEW a \in Named(s, w, l), a.op = op
               PROVE  a.intent < e.intent /\ a.intent # e.intent
    OBVIOUS
  <2>1. a.intent < e.intent \/ (a.intent = e.intent /\ a.key = None)
    BY <1>8 DEF EntryOk
  <2>2. a.key # None
    BY <1>7 DEF None
  <2>3. ~(e.intent < e.intent)
    BY RowFields
  <2> QED BY <2>1, <2>2, <2>3
<1>10. KeysOk(s, w1, l, n + 1)
  <2>1. \A a, b \in Named(s, w1, l) : a.key = b.key <=> (a.op = b.op /\ a.intent = b.intent)
    <3> SUFFICES ASSUME NEW a \in Named(s, w1, l), NEW b \in Named(s, w1, l)
                 PROVE  a.key = b.key <=> (a.op = b.op /\ a.intent = b.intent)
      OBVIOUS
    <3>1. CASE a \in Named(s, w, l) /\ b \in Named(s, w, l)
      BY <3>1 DEF KeysOk
    <3>2. CASE a \in Named(s, w, l) /\ b = new
      BY <3>2, <1>2, <1>7, <1>9
    <3>3. CASE b \in Named(s, w, l) /\ a = new
      BY <3>3, <1>2, <1>7, <1>9
    <3>4. CASE a = new /\ b = new
      BY <3>4
    <3> QED BY <3>1, <3>2, <3>3, <3>4, <1>6
  <2>2. \A a \in Claims(w, l) : a.key # n + 1
    BY <1>7, AskedAreClaims
  <2>3. \A a, b \in Claims(w1, l) : a.key = b.key => a.expected = b.expected
    <3> SUFFICES ASSUME NEW a \in Claims(w1, l), NEW b \in Claims(w1, l), a.key = b.key
                 PROVE  a.expected = b.expected
      OBVIOUS
    <3>1. CASE a \in Claims(w, l) /\ b \in Claims(w, l)
      BY <3>1 DEF KeysOk
    <3>2. CASE a = new \/ b = new
      <4>1. a.key = n + 1 /\ b.key = n + 1
        BY <3>2, <1>2
      <4> QED BY <4>1, <2>2, <1>5
    <3> QED BY <3>1, <3>2, <1>5
  <2>4. \A a \in Named(s, w1, l) : a.key \in 1..(n + 1)
    <3> SUFFICES ASSUME NEW a \in Named(s, w1, l) PROVE a.key \in 1..(n + 1)
      OBVIOUS
    <3>1. CASE a \in Named(s, w, l)
      BY <3>1, <1>7
    <3>2. CASE a = new
      BY <3>2, <1>2
    <3> QED BY <3>1, <3>2, <1>6
  <2>5. \A a \in Claims(w1, l) : a.expected <= s.revision[a.op]
    BY <1>2, <1>5 DEF KeysOk
  <2>6. \A o \in Ops : w1.seen[o] <= s.revision[o]
    BY DEF KeysOk
  <2>7. \A k \in s.commits : k.by = k.principal
    BY DEF KeysOk
  <2> QED BY <2>1, <2>3, <2>4, <2>5, <2>6, <2>7 DEF KeysOk
<1>11. \A t : Denied(w1, t) <=> Denied(w, t)
  BY DEF Denied
<1>12. \A t \in w.told : t.op = op => t.intent < e.intent /\ t.intent # e.intent
  <2> SUFFICES ASSUME NEW t \in w.told, t.op = op
               PROVE  t.intent < e.intent /\ t.intent # e.intent
    OBVIOUS
  <2>1. t.intent < e.intent
    BY <1>8 DEF EntryOk
  <2>2. ~(e.intent < e.intent)
    BY RowFields
  <2> QED BY <2>1, <2>2
<1>13. ASSUME NEW f, f.key = e.key, f.intent = e.intent
       PROVE  EntryOk(s, w1, l, op, f)
  <2>1. f.uncertain => f.key # None
    BY <1>13 DEF None
  <2>2. \A a \in Named(s, w1, l) : a.op = op =>
           a.intent < f.intent \/ (a.intent = f.intent /\ a.key = f.key)
    BY <1>13, <1>2, <1>6, <1>9
  <2>3. \A t \in w1.told : t.op = op => t.intent < f.intent /\ t.intent # f.intent
    BY <1>12, <1>13
  <2> QED BY <2>1, <2>2, <2>3 DEF EntryOk
<1>14. ASSUME NEW o \in Ops, o # op, NEW f, EntryOk(s, w, l, o, f)
       PROVE  EntryOk(s, w1, l, o, f)
  BY <1>14, <1>2, <1>6, <1>11 DEF EntryOk
<1>15. \A o \in Ops : EntryOk(s, w1, l, o, w1.entry[o])
  BY <1>1, <1>13, <1>14 DEF EntriesOk
<1>16. \A o \in Controls :
          EntryOk(s, w1, l, o, w1.saved[o]) /\ Restful(w1.saved[o])
  BY <1>1, <1>3, <1>13, <1>14, OpKinds DEF EntriesOk
<1>17. EntriesOk(s, w1, l)
  BY <1>15, <1>16 DEF EntriesOk
<1>18. ToldOk(s, w1, l)
  <2> SUFFICES ASSUME NEW t \in w1.told, Denied(w, t), NEW a \in Asked(w1, l),
                      a.op = t.op, a.intent = t.intent
               PROVE  Hopeless(s, a.op, a.expected)
    BY <1>11 DEF ToldOk
  <2>1. CASE a \in Asked(w, l)
    BY <2>1 DEF ToldOk
  <2>2. CASE a = new
    BY <2>2, <1>2, <1>12
  <2> QED BY <2>1, <2>2 DEF new
<1> QED BY <1>10, <1>17, <1>18

\* An intention comes to an end, the user is told how (t0), and the entry stands for
\* the next one.
Concludes(s, w, l, w1, op, e, a0, t0) ==
    /\ Puts(w, w1, op, e)
    /\ e.key = None /\ ~e.uncertain /\ e.intent = w.entry[op].intent + 1
    /\ a0 \in Asked(w, l) /\ a0.op = op /\ a0.intent = w.entry[op].intent
    /\ w1.told = w.told \cup {t0} /\ t0.op = op /\ t0.intent = a0.intent
    /\ t0.how = "done" => \E k \in s.commits : k.op = op /\ k.intent = a0.intent
    /\ \/ t0.how = "not done" /\ op \in Controls => Hopeless(s, op, a0.expected)
       \/ w1.saved = [w.saved EXCEPT ![op] = Kept(e)]
    /\ Denied(w1, t0) =>
          /\ \A k \in s.commits :
                ~(k.op = t0.op /\ k.intent = t0.intent /\ k.by = t0.by)
          /\ \A a \in Asked(w1, l) : a.op = t0.op /\ a.intent = t0.intent =>
                Hopeless(s, a.op, a.expected)
    /\ \A o \in Ops : w1.seen[o] <= s.revision[o]
    /\ Asked(w1, l) \subseteq Asked(w, l)

LEMMA Ending ==
    ASSUME NEW s \in ServerRows, NEW w \in WindowRows, NEW l \in SUBSET CallRows,
           NEW w1 \in WindowRows, NEW n \in Nat,
           NEW op \in Ops, NEW e \in EntryRows, NEW a0, NEW t0,
           Concludes(s, w, l, w1, op, e, a0, t0),
           KeysOk(s, w, l, n), EntriesOk(s, w, l), ToldOk(s, w, l)
    PROVE  KeysOk(s, w1, l, n) /\ EntriesOk(s, w1, l) /\ ToldOk(s, w1, l)
<1> USE DEF Concludes
<1>1. /\ \A o \in Ops : w1.entry[o] = IF o = op THEN e ELSE w.entry[o]
      /\ \A o \in Controls : \/ w1.saved[o] = w.saved[o]
                             \/ o = op /\ w1.saved[o] = Kept(e)
  BY RowFields DEF Puts
<1>2. /\ Kept(e).key = None /\ Kept(e).intent = e.intent /\ ~Kept(e).uncertain
      /\ Kept(e).status # "submitting" /\ Restful(Kept(e))
  BY KeptIs
<1>3. Claims(w1, l) \subseteq Claims(w, l)
  <2> SUFFICES ASSUME NEW a \in Claims(w1, l) PROVE a \in Claims(w, l)
    OBVIOUS
  <2>1. CASE a \in Asked(w1, l)
    BY <2>1 DEF Claims
  <2>2. CASE \E o \in Ops : w1.entry[o].key # None /\ a = Claim(o, w1.entry[o])
    <3>1. PICK o \in Ops : w1.entry[o].key # None /\ a = Claim(o, w1.entry[o])
      BY <2>2
    <3>2. w.entry[o].key # None /\ a = Claim(o, w.entry[o])
      BY <3>1, <1>1
    <3> QED BY <3>2, EntryIsClaimed
  <2>3. CASE \E o \in Controls : w1.saved[o].key # None /\ a = Claim(o, w1.saved[o])
    <3>1. PICK o \in Controls : w1.saved[o].key # None /\ a = Claim(o, w1.saved[o])
      BY <2>3
    <3>2. w.saved[o].key # None /\ a = Claim(o, w.saved[o])
      BY <3>1, <1>1, <1>2
    <3> QED BY <3>2, SavedIsClaimed
  <2> QED BY <2>1, <2>2, <2>3 DEF Claims
<1>4. KeysOk(s, w1, l, n)
  BY <1>3, FewerKeys
<1>5. Named(s, w1, l) \subseteq Named(s, w, l)
  BY <1>3 DEF Named
<1>6. ASSUME NEW t \in w1.told, Denied(w1, t) PROVE t = t0 \/ (t \in w.told /\ Denied(w, t))
  BY <1>6 DEF Denied
<1>7. ASSUME NEW o \in Ops, o # op, NEW f, EntryOk(s, w, l, o, f)
      PROVE  EntryOk(s, w1, l, o, f)
  BY <1>5, <1>6, <1>7 DEF EntryOk
<1>8. EntryOk(s, w, l, op, w.entry[op]) /\ w.entry[op].intent \in Nat
  BY RowFields DEF EntriesOk
<1>i. PICK i \in Nat : i = w.entry[op].intent /\ e.intent = i + 1
  BY <1>8
<1>9. \A a \in Named(s, w, l) : a.op = op => a.intent < e.intent
  <2> SUFFICES ASSUME NEW a \in Named(s, w, l), a.op = op PROVE a.intent < e.intent
    OBVIOUS
  <2>1. a.intent < i \/ a.intent = i
    BY <1>8, <1>i DEF EntryOk
  <2>2. a.intent \in Nat
    BY NamedRows
  <2> QED BY ONLY <2>1, <2>2, <1>i, i \in Nat
<1>10. \A t \in w1.told : t.op = op => t.intent < e.intent
  <2> SUFFICES ASSUME NEW t \in w1.told, t.op = op PROVE t.intent < e.intent
    OBVIOUS
  <2>1. t.intent \in Nat
    BY RowFields DEF ToldRows
  <2>2. CASE t \in w.told
    <3>1. t.intent < i \/ t.intent = i
      BY <2>2, <1>8, <1>i DEF EntryOk
    <3> QED BY ONLY <3>1, <2>1, <1>i, i \in Nat
  <2>3. CASE t = t0
    <3>1. t.intent = i
      BY <2>3, <1>i
    <3> QED BY ONLY <3>1, <1>i, i \in Nat
  <2> QED BY <2>2, <2>3
<1>11. ASSUME NEW f, ~f.uncertain, f.intent = e.intent
       PROVE  EntryOk(s, w1, l, op, f)
  <2>1. \A t \in w1.told : t.op = op => t.intent < f.intent /\ t.intent # f.intent
    <3> SUFFICES ASSUME NEW t \in w1.told, t.op = op
                 PROVE  t.intent < f.intent /\ t.intent # f.intent
      OBVIOUS
    <3>1. t.intent < i + 1 /\ f.intent = i + 1
      BY <1>10, <1>11, <1>i
    <3>2. ~(i + 1 < i + 1)
      BY ONLY i \in Nat
    <3> QED BY ONLY <3>1, <3>2
  <2>2. \A a \in Named(s, w1, l) : a.op = op => a.intent < f.intent
    BY <1>5, <1>9, <1>11
  <2> QED BY <2>1, <2>2, <1>11 DEF EntryOk
<1>12. op \in Controls => EntryOk(s, w1, l, op, w.saved[op]) \/ w1.saved[op] = Kept(e)
  <2> SUFFICES ASSUME op \in Controls, w1.saved[op] # Kept(e)
               PROVE  EntryOk(s, w1, l, op, w.saved[op])
    OBVIOUS
  <2>0. t0.how = "not done" => Hopeless(s, op, a0.expected)
    <3>1. w1.saved # [w.saved EXCEPT ![op] = Kept(e)]
      BY RowFields
    <3> QED BY <3>1
  <2> DEFINE f == w.saved[op]
  <2>1. EntryOk(s, w, l, op, f) /\ f.intent \in Nat
    BY RowFields DEF EntriesOk
  <2>2. a0 \in Named(s, w, l) /\ a0 \in Claims(w, l)
    BY AskedAreClaims
  <2>3. a0.key # None
    <3>1. a0.key \in 1..n
      BY <2>2 DEF KeysOk
    <3> QED BY ONLY <3>1, n \in Nat DEF None
  <2>4. a0.intent < f.intent \/ (a0.intent = f.intent /\ a0.key = f.key)
    BY <2>1, <2>2 DEF EntryOk
  <2>5. a0.intent = f.intent => a0.expected = f.expected
    <3> SUFFICES ASSUME a0.intent = f.intent PROVE a0.expected = f.expected
      OBVIOUS
    <3>0. ~(f.intent < f.intent)
      BY ONLY <2>1
    <3>1. a0.key = f.key /\ f.key # None
      BY ONLY <3>0, <2>3, <2>4, a0.intent = f.intent
    <3>2. /\ Claim(op, f) \in Claims(w, l) /\ Claim(op, f).key = f.key
          /\ Claim(op, f).expected = f.expected
      BY ONLY <3>1, op \in Controls, SavedIsClaimed
    <3>3. \A a, b \in Claims(w, l) : a.key = b.key => a.expected = b.expected
      BY DEF KeysOk
    <3> QED BY ONLY <3>1, <3>2, <3>3, <2>2
  <2> HIDE DEF f
  <2>6. \A t \in w1.told : t.op = op =>
           t.intent < f.intent \/ (t.intent = f.intent /\ f.key # None)
    BY <2>1, <2>3, <2>4 DEF EntryOk
  <2>7. ASSUME NEW t \in w1.told, Denied(w1, t), t.op = op, t.intent = f.intent
        PROVE  Hopeless(s, op, f.expected)
    <3>1. CASE t = t0
      <4>1. t0.how = "not done"
        BY <2>7, <3>1 DEF Denied
      <4> QED BY <4>1, <3>1, <2>0, <2>5, <2>7
    <3>2. CASE t \in w.told /\ Denied(w, t)
      BY <3>2, <2>1, <2>7 DEF EntryOk
    <3> QED BY <3>1, <3>2, <2>7, <1>6
  <2>8. \A a \in Named(s, w1, l) : a.op = op =>
           a.intent < f.intent \/ (a.intent = f.intent /\ a.key = f.key)
    BY <2>1, <1>5 DEF EntryOk
  <2>9. EntryOk(s, w1, l, op, f)
    BY <2>1, <2>6, <2>7, <2>8 DEF EntryOk
  <2> QED BY <2>9 DEF f
<1>13. \A o \in Ops : EntryOk(s, w1, l, o, w1.entry[o])
  BY <1>1, <1>7, <1>11 DEF EntriesOk
<1>14. \A o \in Controls :
          EntryOk(s, w1, l, o, w1.saved[o]) /\ Restful(w1.saved[o])
  <2> SUFFICES ASSUME NEW o \in Controls
               PROVE  EntryOk(s, w1, l, o, w1.saved[o]) /\ Restful(w1.saved[o])
    OBVIOUS
  <2>1. EntryOk(s, w, l, o, w.saved[o]) /\ Restful(w.saved[o]) /\ o \in Ops
    BY OpKinds DEF EntriesOk
  <2>2. CASE w1.saved[o] = w.saved[o]
    <3>1. CASE o # op
      BY <2>1, <2>2, <3>1, <1>7
    <3>2. CASE o = op /\ EntryOk(s, w1, l, op, w.saved[op])
      BY <2>1, <2>2, <3>2
    <3>3. CASE o = op /\ w1.saved[op] = Kept(e)
      BY <3>3, <1>2, <1>11
    <3> QED BY <3>1, <3>2, <3>3, <1>12
  <2>3. CASE o = op /\ w1.saved[o] = Kept(e)
    BY <2>3, <1>2, <1>11
  <2> QED BY <2>2, <2>3, <1>1
<1>15. EntriesOk(s, w1, l)
  BY <1>13, <1>14 DEF EntriesOk
<1>16. ToldOk(s, w1, l)
  <2>1. ASSUME NEW t \in w1.told, t.how = "done", t.op \in RunOps
        PROVE  \E k \in s.commits : k.op = t.op /\ k.intent = t.intent
    <3>1. CASE t = t0
      BY <2>1, <3>1
    <3>2. CASE t \in w.told
      BY <2>1, <3>2 DEF ToldOk
    <3> QED BY <3>1, <3>2
  <2>2. ASSUME NEW t \in w1.told, Denied(w1, t)
        PROVE  /\ \A k \in s.commits :
                      ~(k.op = t.op /\ k.intent = t.intent /\ k.by = t.by)
               /\ \A a \in Asked(w1, l) : a.op = t.op /\ a.intent = t.intent =>
                      Hopeless(s, a.op, a.expected)
    <3>1. CASE t = t0
      BY <2>2, <3>1
    <3>2. CASE t \in w.told /\ Denied(w, t)
      BY <2>2, <3>2 DEF ToldOk
    <3> QED BY <3>1, <3>2, <2>2, <1>6
  <2> QED BY <2>1, <2>2 DEF ToldOk
<1> QED BY <1>4, <1>15, <1>16

-----------------------------------------------------------------------------
(* Moves of the server *)

\* Entities move on, and what commits is a request that was not hopeless, in the
\* name of the Human who gave it.
Advances(s, w, l, s1) ==
    /\ \A o \in Ops : s.revision[o] <= s1.revision[o]
    /\ s.commits \subseteq s1.commits
    /\ \A k \in s1.commits : k \notin s.commits =>
          /\ k.by = k.principal
          /\ \E a \in Asked(w, l) :
                /\ k.op = a.op /\ k.key = a.key /\ k.intent = a.intent
                /\ ~Hopeless(s, a.op, a.expected)

LEMMA HopelessForGood ==
    ASSUME NEW s \in ServerRows, NEW s1 \in ServerRows, NEW w, NEW l,
           Advances(s, w, l, s1), NEW o \in Ops, NEW x \in Nat, Hopeless(s, o, x)
    PROVE  Hopeless(s1, o, x)
<1>1. s.revision[o] <= s1.revision[o] /\ s.revision[o] \in Nat /\ s1.revision[o] \in Nat
  BY RowFields DEF Advances
<1>2. o \notin Posts /\ x < s.revision[o]
  BY DEF Hopeless
<1>3. x < s1.revision[o]
  BY ONLY <1>1, <1>2, x \in Nat
<1> QED BY <1>2, <1>3 DEF Hopeless

\* Keys, entries, answers and what the user was told stay right.
LEMMA Advancing ==
    ASSUME NEW s \in ServerRows, NEW s1 \in ServerRows,
           NEW w \in WindowRows, NEW l \in SUBSET CallRows, NEW n \in Nat,
           Advances(s, w, l, s1),
           KeysOk(s, w, l, n), EntriesOk(s, w, l), AnswersOk(s, w), ToldOk(s, w, l)
    PROVE  /\ KeysOk(s1, w, l, n) /\ EntriesOk(s1, w, l)
           /\ AnswersOk(s1, w) /\ ToldOk(s1, w, l)
<1>1. \A k \in s1.commits : k \notin s.commits =>
         /\ k.by = k.principal
         /\ \E a \in Asked(w, l) :
               /\ k.op = a.op /\ k.key = a.key /\ k.intent = a.intent
               /\ ~Hopeless(s, a.op, a.expected)
  BY DEF Advances
<1>2. \A b \in Named(s1, w, l) : \E a \in Named(s, w, l) :
         b.op = a.op /\ b.key = a.key /\ b.intent = a.intent
  <2> SUFFICES ASSUME NEW b \in Named(s1, w, l)
               PROVE  \E a \in Named(s, w, l) :
                         b.op = a.op /\ b.key = a.key /\ b.intent = a.intent
    OBVIOUS
  <2>1. CASE b \in Claims(w, l) \/ b \in s.commits
    BY <2>1 DEF Named
  <2>2. CASE b \in s1.commits /\ b \notin s.commits
    BY <2>2, <1>1, AskedAreClaims
  <2> QED BY <2>1, <2>2 DEF Named
<1>3. \A o \in Ops : /\ s.revision[o] <= s1.revision[o]
                     /\ s.revision[o] \in Nat /\ s1.revision[o] \in Nat
  BY RowFields DEF Advances
<1>4. \A a \in Claims(w, l) : a.op \in Ops /\ a.expected \in Nat
  <2> SUFFICES ASSUME NEW a \in Claims(w, l) PROVE a.op \in Ops /\ a.expected \in Nat
    OBVIOUS
  <2>1. CASE a \in Asked(w, l)
    <3>1. PICK q \in Requests(w, l) : q.op = a.op /\ q.expected = a.expected
      BY <2>1, AskedIsOfRequest
    <3>2. q \in CallRows
      BY RowFields DEF Requests
    <3> QED BY <3>1, <3>2, RowFields
  <2>2. CASE \E o \in Ops : a = Claim(o, w.entry[o])
    BY <2>2, RowFields DEF Claim
  <2>3. CASE \E o \in Controls : a = Claim(o, w.saved[o])
    BY <2>3, RowFields, OpKinds DEF Claim
  <2> QED BY <2>1, <2>2, <2>3 DEF Claims
<1>5. KeysOk(s1, w, l, n)
  <2>1. \A a, b \in Named(s1, w, l) : a.key = b.key <=> (a.op = b.op /\ a.intent = b.intent)
    <3> SUFFICES ASSUME NEW a \in Named(s1, w, l), NEW b \in Named(s1, w, l)
                 PROVE  a.key = b.key <=> (a.op = b.op /\ a.intent = b.intent)
      OBVIOUS
    <3>1. PICK a1 \in Named(s, w, l) :
             a.op = a1.op /\ a.key = a1.key /\ a.intent = a1.intent
      BY <1>2
    <3>2. PICK b1 \in Named(s, w, l) :
             b.op = b1.op /\ b.key = b1.key /\ b.intent = b1.intent
      BY <1>2
    <3>3. a1.key = b1.key <=> (a1.op = b1.op /\ a1.intent = b1.intent)
      BY DEF KeysOk
    <3> QED BY ONLY <3>1, <3>2, <3>3
  <2>2. \A a, b \in Claims(w, l) : a.key = b.key => a.expected = b.expected
    BY DEF KeysOk
  <2>3. \A a \in Named(s1, w, l) : a.key \in 1..n
    BY <1>2 DEF KeysOk
  <2>4. \A a \in Claims(w, l) : a.expected <= s1.revision[a.op]
    <3> SUFFICES ASSUME NEW a \in Claims(w, l) PROVE a.expected <= s1.revision[a.op]
      OBVIOUS
    <3>1. a.expected <= s.revision[a.op]
      BY DEF KeysOk
    <3> QED BY ONLY <3>1, <1>3, <1>4, a \in Claims(w, l)
  <2>5. \A o \in Ops : w.seen[o] <= s1.revision[o]
    <3> SUFFICES ASSUME NEW o \in Ops PROVE w.seen[o] <= s1.revision[o]
      OBVIOUS
    <3>1. w.seen[o] <= s.revision[o] /\ w.seen[o] \in Nat
      BY RowFields DEF KeysOk
    <3> QED BY ONLY <3>1, <1>3, o \in Ops
  <2>6. \A k \in s1.commits : k.by = k.principal
    BY <1>1 DEF KeysOk
  <2> QED BY <2>1, <2>2, <2>3, <2>4, <2>5, <2>6 DEF KeysOk
<1>6. ASSUME NEW o \in Ops, NEW f, f.expected \in Nat, EntryOk(s, w, l, o, f)
      PROVE  EntryOk(s1, w, l, o, f)
  <2>1. \A b \in Named(s1, w, l) : b.op = o =>
           b.intent < f.intent \/ (b.intent = f.intent /\ b.key = f.key)
    <3> SUFFICES ASSUME NEW b \in Named(s1, w, l), b.op = o
                 PROVE  b.intent < f.intent \/ (b.intent = f.intent /\ b.key = f.key)
      OBVIOUS
    <3>1. PICK a \in Named(s, w, l) : b.op = a.op /\ b.key = a.key /\ b.intent = a.intent
      BY <1>2
    <3>2. a.intent < f.intent \/ (a.intent = f.intent /\ a.key = f.key)
      BY <3>1, <1>6 DEF EntryOk
    <3> QED BY <3>1, <3>2
  <2>2. \A t \in w.told :
           Denied(w, t) /\ t.op = o /\ t.intent = f.intent => Hopeless(s1, o, f.expected)
    BY <1>6, HopelessForGood DEF EntryOk
  <2> QED BY <2>1, <2>2, <1>6 DEF EntryOk
<1>7. EntriesOk(s1, w, l)
  BY <1>6, RowFields, OpKinds DEF EntriesOk
<1>8. AnswersOk(s1, w)
  <2> SUFFICES ASSUME NEW c \in w.calls PROVE AnswerOk(s1, c)
    BY DEF AnswersOk
  <2>1. AnswerOk(s, c) /\ c \in Requests(w, l) /\ c \in CallRows
    BY RowFields DEF AnswersOk, Requests
  <2>2. c.answer = "Ok" => \E k \in s1.commits : k.key = c.key /\ k.by = c.by
    BY <2>1 DEF AnswerOk, Advances
  <2>4. ASSUME c.answer = "Stale"
        PROVE  /\ c.op \notin Posts /\ c.expected < s1.revision[c.op]
               /\ \A k \in s1.commits : ~(k.key = c.key /\ k.by = c.by)
    <3>1. c.op \notin Posts /\ c.expected < s.revision[c.op]
      BY <2>1, <2>4 DEF AnswerOk
    <3>2. c.op \in Ops /\ c.expected \in Nat
      BY <2>1, RowFields
    <3>3. c.expected < s1.revision[c.op]
      BY ONLY <3>1, <3>2, <1>3
    <3>4. ASSUME NEW k \in s1.commits, k.key = c.key, k.by = c.by PROVE FALSE
      <4>1. k \notin s.commits
        BY <2>1, <2>4, <3>4 DEF AnswerOk
      <4>2. PICK a \in Asked(w, l) :
               k.op = a.op /\ k.key = a.key /\ ~Hopeless(s, a.op, a.expected)
        BY <4>1, <1>1
      <4> DEFINE b == Claim(c.op, c)
      <4>3. /\ b \in Claims(w, l) /\ b.op = c.op /\ b.key = c.key
            /\ b.expected = c.expected
        BY <2>1, RequestIsAsked
      <4>4. a \in Claims(w, l) /\ a \in Named(s, w, l) /\ b \in Named(s, w, l)
        BY <4>3, AskedAreClaims
      <4> HIDE DEF b
      <4>5. a.key = b.key
        BY <3>4, <4>2, <4>3
      <4>6. a.op = b.op /\ a.expected = b.expected
        BY <4>3, <4>4, <4>5 DEF KeysOk
      <4> QED BY <3>1, <4>2, <4>3, <4>6 DEF Hopeless
    <3> QED BY <3>1, <3>3, <3>4
  <2> QED BY <2>1, <2>2, <2>4 DEF AnswerOk
<1>9. ToldOk(s1, w, l)
  <2>1. ASSUME NEW t \in w.told, t.how = "done", t.op \in RunOps
        PROVE  \E k \in s1.commits : k.op = t.op /\ k.intent = t.intent
    BY <2>1 DEF ToldOk, Advances
  <2>2. ASSUME NEW t \in w.told, Denied(w, t), NEW a \in Asked(w, l),
               a.op = t.op, a.intent = t.intent
        PROVE  Hopeless(s, a.op, a.expected) /\ Hopeless(s1, a.op, a.expected)
    <3>1. Hopeless(s, a.op, a.expected)
      BY <2>2 DEF ToldOk
    <3>2. a.op \in Ops /\ a.expected \in Nat
      BY <1>4, AskedAreClaims
    <3> QED BY <3>1, <3>2, HopelessForGood
  <2>3. ASSUME NEW t \in w.told, Denied(w, t), NEW k \in s1.commits,
               k.op = t.op, k.intent = t.intent, k.by = t.by
        PROVE  FALSE
    <3>1. k \notin s.commits
      BY <2>3 DEF ToldOk
    <3> QED BY <3>1, <2>3, <2>2, <1>1
  <2> QED BY <2>1, <2>2, <2>3 DEF ToldOk
<1> QED BY <1>5, <1>7, <1>8, <1>9

-----------------------------------------------------------------------------
(* The calls under way *)

\* d is call c with another state, answer or token.
Same(c, d) ==
    /\ d.n = c.n /\ d.op = c.op /\ d.key = c.key /\ d.expected = c.expected
    /\ d.intent = c.intent /\ d.by = c.by

\* The same calls are under way.
Matched(w, w1) ==
    /\ \A d \in w1.calls : \E c \in w.calls : Same(c, d)
    /\ \A c \in w.calls : \E d \in w1.calls : Same(c, d)
    /\ \A c, d \in w1.calls : c.n = d.n => c = d

LEMMA NumbersOf ==
    ASSUME NEW w, NEW o
    PROVE  /\ \A x : x \in Numbers(w, o) <=> \E c \in w.calls : c.op = o /\ x = c.n
           /\ \A c : c \in CallsOf(w, o) <=> c \in w.calls /\ c.op = o
BY DEF Numbers, CallsOf

LEMMA NumbersAreFinite ==
    ASSUME NEW w \in WindowRows, NEW n \in Nat, CallsOk(w, n), NEW o \in Ops
    PROVE  IsFiniteSet(Numbers(w, o)) /\ Numbers(w, o) \subseteq 0..(n - 1)
<1>1. Numbers(w, o) \subseteq 0..(n - 1)
  <2> SUFFICES ASSUME NEW x \in Numbers(w, o) PROVE x \in 0..(n - 1)
    OBVIOUS
  <2>1. PICK c \in w.calls : c.op = o /\ x = c.n
    BY NumbersOf
  <2>2. c.n < n /\ c.n \in Nat
    BY RowFields DEF CallsOk
  <2> QED BY ONLY <2>1, <2>2, n \in Nat
<1>2. IsFiniteSet(0..(n - 1))
  <2>1. 0 \in Int /\ n - 1 \in Int
    OBVIOUS
  <2> QED BY <2>1, FS_Interval
<1> QED BY <1>1, <1>2, FS_Subset

LEMMA CallsMatched ==
    ASSUME NEW w, NEW w1, NEW n, w1.entry = w.entry, Matched(w, w1), CallsOk(w, n)
    PROVE  CallsOk(w1, n)
<1>1. \A d \in w1.calls : \E c \in w.calls : Same(c, d)
  BY DEF Matched
<1>2. \A c \in w.calls : \E d \in w1.calls : Same(c, d)
  BY DEF Matched
<1>3. \A o : Numbers(w1, o) = Numbers(w, o)
  <2> SUFFICES ASSUME NEW o PROVE Numbers(w1, o) = Numbers(w, o)
    OBVIOUS
  <2> SUFFICES ASSUME NEW x PROVE x \in Numbers(w1, o) <=> x \in Numbers(w, o)
    OBVIOUS
  <2>1. x \in Numbers(w1, o) <=> \E d \in w1.calls : d.op = o /\ x = d.n
    BY NumbersOf
  <2>2. x \in Numbers(w, o) <=> \E c \in w.calls : c.op = o /\ x = c.n
    BY NumbersOf
  <2> QED BY <2>1, <2>2, <1>1, <1>2 DEF Same
<1>4. \A c, d \in w1.calls : c.n = d.n => c = d
  BY DEF Matched
<1>5. \A c \in w1.calls : /\ c.n < n
                          /\ c.key = w1.entry[c.op].key
                          /\ c.intent = w1.entry[c.op].intent
                          /\ c.expected = w1.entry[c.op].expected
  BY <1>1 DEF CallsOk, Same
<1>6. \A o \in RunOps : w1.entry[o].status = "submitting" <=> \E c \in w1.calls : c.op = o
  BY <1>1, <1>2 DEF CallsOk, Same
<1>7. \A o \in RunOps : \A c, d \in w1.calls : c.op = o /\ d.op = o => c = d
  <2> SUFFICES ASSUME NEW o \in RunOps, NEW c \in w1.calls, NEW d \in w1.calls,
                      c.op = o, d.op = o
               PROVE  c.n = d.n
    BY <1>4
  <2>1. PICK c1 \in w.calls : Same(c1, c)
    BY <1>1
  <2>2. PICK d1 \in w.calls : Same(d1, d)
    BY <1>1
  <2> QED BY <2>1, <2>2 DEF Same, CallsOk
<1>8. \A o \in Pending : w1.entry[o].active = Cardinality(Numbers(w1, o))
  BY <1>3 DEF CallsOk
<1> QED BY <1>4, <1>5, <1>6, <1>7, <1>8 DEF CallsOk

\* A call is over: its entry has one less, and is no longer submitting.
LEMMA CallRemoved ==
    ASSUME NEW w \in WindowRows, NEW w1, NEW n \in Nat, NEW c \in w.calls,
           NEW e, w1.calls = w.calls \ {c}, w1.entry = [w.entry EXCEPT ![c.op] = e],
           c.op \in Pending => e.active = w.entry[c.op].active - 1,
           c.op \in RunOps => e.status # "submitting",
           \/ c.op \in Pending /\ e.active = 0
           \/ c.op \in RunOps
           \/ /\ e.key = w.entry[c.op].key /\ e.intent = w.entry[c.op].intent
              /\ e.expected = w.entry[c.op].expected,
           CallsOk(w, n)
    PROVE  CallsOk(w1, n)
<1>1. /\ c.op \in Ops /\ c.n \in Nat
      /\ \A o \in Ops : w1.entry[o] = IF o = c.op THEN e ELSE w.entry[o]
  BY RowFields
<1>2. \A d1, d2 \in w.calls : d1.n = d2.n => d1 = d2
  BY DEF CallsOk
<1>3. c.op \in Pending => Cardinality(Numbers(w1, c.op)) = e.active
  <2> SUFFICES ASSUME c.op \in Pending PROVE Cardinality(Numbers(w1, c.op)) = e.active
    OBVIOUS
  <2>1. Numbers(w1, c.op) = Numbers(w, c.op) \ {c.n}
    <3> SUFFICES ASSUME NEW x
                 PROVE  x \in Numbers(w1, c.op) <=> x \in Numbers(w, c.op) /\ x # c.n
      OBVIOUS
    <3>1. x \in Numbers(w1, c.op) <=> \E d \in w1.calls : d.op = c.op /\ x = d.n
      BY NumbersOf
    <3>2. x \in Numbers(w, c.op) <=> \E d \in w.calls : d.op = c.op /\ x = d.n
      BY NumbersOf
    <3> QED BY <3>1, <3>2, <1>2
  <2>2. c.n \in Numbers(w, c.op) /\ IsFiniteSet(Numbers(w, c.op))
    BY <1>1, NumbersOf, NumbersAreFinite
  <2>3. Cardinality(Numbers(w, c.op) \ {c.n}) = Cardinality(Numbers(w, c.op)) - 1
    BY <2>2, FS_RemoveElement
  <2>4. w.entry[c.op].active = Cardinality(Numbers(w, c.op))
    BY DEF CallsOk
  <2> QED BY <2>1, <2>3, <2>4
<1>4. ASSUME c.op \in Pending, e.active = 0 PROVE \A d \in w1.calls : d.op # c.op
  <2>1. Numbers(w1, c.op) \subseteq Numbers(w, c.op)
    BY DEF Numbers, CallsOf
  <2>2. IsFiniteSet(Numbers(w1, c.op))
    BY <1>1, <2>1, NumbersAreFinite, FS_Subset
  <2>3. Numbers(w1, c.op) = {}
    BY <1>3, <1>4, <2>2, FS_EmptySet
  <2> QED BY <2>3, NumbersOf
<1>5. c.op \in RunOps => \A d \in w1.calls : d.op # c.op
  BY DEF CallsOk
<1>6. \A d \in w1.calls : /\ d \in w.calls /\ d.op \in Ops /\ d.n < n
                          /\ d.key = w1.entry[d.op].key
                          /\ d.intent = w1.entry[d.op].intent
                          /\ d.expected = w1.entry[d.op].expected
  <2> SUFFICES ASSUME NEW d \in w1.calls
               PROVE  /\ d \in w.calls /\ d.op \in Ops /\ d.n < n
                      /\ d.key = w1.entry[d.op].key
                      /\ d.intent = w1.entry[d.op].intent
                      /\ d.expected = w1.entry[d.op].expected
    OBVIOUS
  <2>1. /\ d \in w.calls /\ d.op \in Ops /\ d.n < n
        /\ d.key = w.entry[d.op].key /\ d.intent = w.entry[d.op].intent
        /\ d.expected = w.entry[d.op].expected
    BY RowFields DEF CallsOk
  <2>2. CASE d.op # c.op
    BY <2>1, <2>2, <1>1
  <2>3. CASE d.op = c.op
    BY <2>1, <2>3, <1>1, <1>4, <1>5
  <2> QED BY <2>2, <2>3
<1>7. ASSUME NEW o \in RunOps
      PROVE  /\ w1.entry[o].status = "submitting" <=> \E d \in w1.calls : d.op = o
             /\ \A d1, d2 \in w1.calls : d1.op = o /\ d2.op = o => d1 = d2
  <2>1. CASE o = c.op
    BY <2>1, <1>1, <1>5, OpKinds
  <2>2. CASE o # c.op
    <3>1. w1.entry[o] = w.entry[o]
      BY <2>2, <1>1, OpKinds
    <3>2. w.entry[o].status = "submitting" <=> \E d \in w.calls : d.op = o
      BY DEF CallsOk
    <3>3. \A d1, d2 \in w.calls : d1.op = o /\ d2.op = o => d1 = d2
      BY DEF CallsOk
    <3> QED BY <3>1, <3>2, <3>3, <2>2
  <2> QED BY <2>1, <2>2
<1>8. ASSUME NEW o \in Pending PROVE w1.entry[o].active = Cardinality(Numbers(w1, o))
  <2>1. CASE o = c.op
    BY <2>1, <1>1, <1>3
  <2>2. CASE o # c.op
    <3>1. w1.entry[o] = w.entry[o]
      BY <2>2, <1>1, OpKinds
    <3>2. Numbers(w1, o) = Numbers(w, o)
      BY <2>2 DEF Numbers, CallsOf
    <3> QED BY <3>1, <3>2 DEF CallsOk
  <2> QED BY <2>1, <2>2
<1>9. \A d1, d2 \in w1.calls : d1.n = d2.n => d1 = d2
  BY <1>2
<1> QED BY <1>6, <1>7, <1>8, <1>9 DEF CallsOk

\* A call is made for an entry that goes on, or that had no key and no call.
LEMMA CallAdded ==
    ASSUME NEW w \in WindowRows, NEW w1, NEW n \in Nat, NEW op \in Ops, NEW e, NEW d,
           w1.calls = w.calls \cup {d}, w1.entry = [w.entry EXCEPT ![op] = e],
           d.n = n, d.op = op, d.key = e.key, d.intent = e.intent,
           d.expected = e.expected, e.active = w.entry[op].active + 1,
           e.status = "submitting",
           op \in RunOps => w.entry[op].status # "submitting",
           \/ \A c \in w.calls : c.op # op
           \/ /\ e.key = w.entry[op].key /\ e.intent = w.entry[op].intent
              /\ e.expected = w.entry[op].expected,
           CallsOk(w, n)
    PROVE  CallsOk(w1, n + 1)
<1>1. \A o \in Ops : w1.entry[o] = IF o = op THEN e ELSE w.entry[o]
  BY RowFields
<1>2. \A c \in w.calls : /\ c.n < n /\ c.n \in Nat /\ c.op \in Ops
                         /\ c.key = w.entry[c.op].key /\ c.intent = w.entry[c.op].intent
                         /\ c.expected = w.entry[c.op].expected
  BY RowFields DEF CallsOk
<1>3. \A c \in w.calls : c.n # d.n
  BY <1>2
<1>4. \A c1, c2 \in w1.calls : c1.n = c2.n => c1 = c2
  <2>1. \A c1, c2 \in w.calls : c1.n = c2.n => c1 = c2
    BY DEF CallsOk
  <2> QED BY <2>1, <1>3
<1>5. \A c \in w1.calls : /\ c.n < n + 1
                          /\ c.key = w1.entry[c.op].key
                          /\ c.intent = w1.entry[c.op].intent
                          /\ c.expected = w1.entry[c.op].expected
  <2> SUFFICES ASSUME NEW c \in w1.calls
               PROVE  /\ c.n < n + 1
                      /\ c.key = w1.entry[c.op].key
                      /\ c.intent = w1.entry[c.op].intent
                      /\ c.expected = w1.entry[c.op].expected
    OBVIOUS
  <2>1. CASE c = d
    BY <2>1, <1>1
  <2>2. CASE c \in w.calls
    <3>1. c.n < n + 1
      BY ONLY <2>2, <1>2, n \in Nat
    <3> QED BY <3>1, <2>2, <1>1, <1>2
  <2> QED BY <2>1, <2>2
<1>6. op \in RunOps => \A c \in w.calls : c.op # op
  BY DEF CallsOk
<1>7. ASSUME NEW o \in RunOps
      PROVE  /\ w1.entry[o].status = "submitting" <=> \E c \in w1.calls : c.op = o
             /\ \A c1, c2 \in w1.calls : c1.op = o /\ c2.op = o => c1 = c2
  <2>1. CASE o = op
    BY <2>1, <1>1, <1>6
  <2>2. CASE o # op
    <3>1. w1.entry[o] = w.entry[o]
      BY <2>2, <1>1, OpKinds
    <3>2. w.entry[o].status = "submitting" <=> \E c \in w.calls : c.op = o
      BY DEF CallsOk
    <3>3. \A c1, c2 \in w.calls : c1.op = o /\ c2.op = o => c1 = c2
      BY DEF CallsOk
    <3> QED BY <3>1, <3>2, <3>3, <2>2
  <2> QED BY <2>1, <2>2
<1>8. ASSUME NEW o \in Pending PROVE w1.entry[o].active = Cardinality(Numbers(w1, o))
  <2>1. CASE o = op
    <3>1. Numbers(w1, o) = Numbers(w, o) \cup {n}
      <4> SUFFICES ASSUME NEW x
                   PROVE  x \in Numbers(w1, o) <=> x \in Numbers(w, o) \/ x = n
        OBVIOUS
      <4>1. x \in Numbers(w1, o) <=> \E c \in w1.calls : c.op = o /\ x = c.n
        BY NumbersOf
      <4>2. x \in Numbers(w, o) <=> \E c \in w.calls : c.op = o /\ x = c.n
        BY NumbersOf
      <4> QED BY <4>1, <4>2, <2>1
    <3>2. n \notin Numbers(w, o)
      BY <1>3, NumbersOf
    <3>3. IsFiniteSet(Numbers(w, o))
      BY NumbersAreFinite, <2>1
    <3>4. Cardinality(Numbers(w1, o)) = Cardinality(Numbers(w, o)) + 1
      BY <3>1, <3>2, <3>3, FS_AddElement
    <3>5. w.entry[o].active = Cardinality(Numbers(w, o))
      BY DEF CallsOk
    <3> QED BY <3>4, <3>5, <2>1, <1>1
  <2>2. CASE o # op
    <3>1. w1.entry[o] = w.entry[o]
      BY <2>2, <1>1, OpKinds
    <3>2. Numbers(w1, o) = Numbers(w, o)
      BY <2>2 DEF Numbers, CallsOf
    <3> QED BY <3>1, <3>2 DEF CallsOk
  <2> QED BY <2>1, <2>2
<1> QED BY <1>4, <1>5, <1>7, <1>8 DEF CallsOk

LEMMA MatchedAsk ==
    ASSUME NEW w, NEW l, NEW w1, NEW l1, Matched(w, w1), l1 \subseteq l \cup w.calls
    PROVE  Asked(w1, l1) \subseteq Asked(w, l)
<1> SUFFICES ASSUME NEW a \in Asked(w1, l1) PROVE a \in Asked(w, l)
  OBVIOUS
<1>1. PICK q \in Requests(w1, l1) : a = Claim(q.op, q)
  BY DEF Asked
<1>2. CASE q \in l1
  <2>1. q \in Requests(w, l)
    BY <1>2 DEF Requests
  <2> QED BY <2>1, <1>1 DEF Asked
<1>3. CASE q \in w1.calls
  <2>1. PICK c \in w.calls : Same(c, q)
    BY <1>3 DEF Matched
  <2>2. Claim(q.op, q) = Claim(c.op, c)
    BY <2>1 DEF Claim, Same
  <2>3. c \in Requests(w, l)
    BY DEF Requests
  <2> QED BY <2>2, <2>3, <1>1 DEF Asked
<1> QED BY <1>2, <1>3 DEF Requests

-----------------------------------------------------------------------------
(* Moves of sessions *)

\* d is call c after a change of the session.
Twin(c, d) ==
    /\ Same(c, d)
    /\ d.token = c.token /\ d.state = c.state /\ d.answer = c.answer
    /\ d.sameSession => c.sameSession

Twins(C, D) ==
    /\ D \subseteq CallRows
    /\ \A d \in D : \E c \in C : Twin(c, d)
    /\ \A c \in C : \E d \in D : Twin(c, d)
    /\ \A c, d \in D : c.n = d.n => c = d

Alone(C) == \A c, d \in C : c.n = d.n => c = d

LEMMA TwinsOfToken ==
    ASSUME NEW C \in SUBSET CallRows, Alone(C)
    PROVE  Twins(C, {[c EXCEPT !.sameToken = FALSE] : c \in C})
<1> DEFINE D == {[c EXCEPT !.sameToken = FALSE] : c \in C}
<1>1. \A c \in CallRows : /\ [c EXCEPT !.sameToken = FALSE] \in CallRows
                          /\ Twin(c, [c EXCEPT !.sameToken = FALSE])
  BY DEF CallRows, Twin, Same
<1>2. \A d \in D : \E c \in C : d = [c EXCEPT !.sameToken = FALSE] /\ Twin(c, d)
  BY <1>1
<1>3. \A c \in C : [c EXCEPT !.sameToken = FALSE] \in D
  OBVIOUS
<1>4. D \subseteq CallRows
  BY <1>1
<1> HIDE DEF D
<1>5. ASSUME NEW d1 \in D, NEW d2 \in D, d1.n = d2.n PROVE d1 = d2
  <2>1. PICK c1 \in C : d1 = [c1 EXCEPT !.sameToken = FALSE] /\ Twin(c1, d1)
    BY <1>2
  <2>2. PICK c2 \in C : d2 = [c2 EXCEPT !.sameToken = FALSE] /\ Twin(c2, d2)
    BY <1>2
  <2>3. c1.n = c2.n
    BY <1>5, <2>1, <2>2 DEF Twin, Same
  <2> QED BY <2>1, <2>2, <2>3 DEF Alone
<1>6. Twins(C, D)
  BY <1>1, <1>2, <1>3, <1>4, <1>5 DEF Twins
<1> QED BY <1>6 DEF D

LEMMA TwinsOfSession ==
    ASSUME NEW C \in SUBSET CallRows, Alone(C)
    PROVE  Twins(C, {[c EXCEPT !.sameSession = FALSE] : c \in C})
<1> DEFINE D == {[c EXCEPT !.sameSession = FALSE] : c \in C}
<1>1. \A c \in CallRows : /\ [c EXCEPT !.sameSession = FALSE] \in CallRows
                          /\ Twin(c, [c EXCEPT !.sameSession = FALSE])
  BY DEF CallRows, Twin, Same
<1>2. \A d \in D : \E c \in C : d = [c EXCEPT !.sameSession = FALSE] /\ Twin(c, d)
  BY <1>1
<1>3. \A c \in C : [c EXCEPT !.sameSession = FALSE] \in D
  OBVIOUS
<1>4. D \subseteq CallRows
  BY <1>1
<1> HIDE DEF D
<1>5. ASSUME NEW d1 \in D, NEW d2 \in D, d1.n = d2.n PROVE d1 = d2
  <2>1. PICK c1 \in C : d1 = [c1 EXCEPT !.sameSession = FALSE] /\ Twin(c1, d1)
    BY <1>2
  <2>2. PICK c2 \in C : d2 = [c2 EXCEPT !.sameSession = FALSE] /\ Twin(c2, d2)
    BY <1>2
  <2>3. c1.n = c2.n
    BY <1>5, <2>1, <2>2 DEF Twin, Same
  <2> QED BY <2>1, <2>2, <2>3 DEF Alone
<1>6. Twins(C, D)
  BY <1>1, <1>2, <1>3, <1>4, <1>5 DEF Twins
<1> QED BY <1>6 DEF D

LEMMA TwinsOfBoth ==
    ASSUME NEW C \in SUBSET CallRows, Alone(C)
    PROVE  Twins(C, {[c EXCEPT !.sameToken = FALSE, !.sameSession = FALSE] : c \in C})
<1> DEFINE D == {[c EXCEPT !.sameToken = FALSE, !.sameSession = FALSE] : c \in C}
<1>1. \A c \in CallRows :
         /\ [c EXCEPT !.sameToken = FALSE, !.sameSession = FALSE] \in CallRows
         /\ Twin(c, [c EXCEPT !.sameToken = FALSE, !.sameSession = FALSE])
  BY DEF CallRows, Twin, Same
<1>2. \A d \in D : \E c \in C :
         d = [c EXCEPT !.sameToken = FALSE, !.sameSession = FALSE] /\ Twin(c, d)
  BY <1>1
<1>3. \A c \in C : [c EXCEPT !.sameToken = FALSE, !.sameSession = FALSE] \in D
  OBVIOUS
<1>4. D \subseteq CallRows
  BY <1>1
<1> HIDE DEF D
<1>5. ASSUME NEW d1 \in D, NEW d2 \in D, d1.n = d2.n PROVE d1 = d2
  <2>1. PICK c1 \in C : d1 = [c1 EXCEPT !.sameToken = FALSE, !.sameSession = FALSE] /\ Twin(c1, d1)
    BY <1>2
  <2>2. PICK c2 \in C : d2 = [c2 EXCEPT !.sameToken = FALSE, !.sameSession = FALSE] /\ Twin(c2, d2)
    BY <1>2
  <2>3. c1.n = c2.n
    BY <1>5, <2>1, <2>2 DEF Twin, Same
  <2> QED BY <2>1, <2>2, <2>3 DEF Alone
<1>6. Twins(C, D)
  BY <1>1, <1>2, <1>3, <1>4, <1>5 DEF Twins
<1> QED BY <1>6 DEF D

LEMMA TwinsOfTwins ==
    ASSUME NEW C, NEW D, NEW E, Twins(C, D), Twins(D, E)
    PROVE  Twins(C, E)
BY DEF Twins, Twin, Same

LEMMA TwinsOfNone ==
    ASSUME NEW C \in SUBSET CallRows, Alone(C)
    PROVE  Twins(C, C)
BY DEF Twins, Twin, Same, Alone

\* What the server knows of sessions, when no entity changes.
Owners(s, s1) ==
    /\ s1.revision = s.revision /\ s1.commits = s.commits
    /\ s1.live \subseteq DOMAIN s1.owner
    /\ \A i \in DOMAIN s.owner : i \in DOMAIN s1.owner /\ s1.owner[i] = s.owner[i]

\* Whatever happens to sessions, commands stay as they are.
LEMMA SessionMove ==
    ASSUME NEW s, NEW w, NEW l, NEW u, CommandOk(s, w, l, u),
           NEW s1 \in ServerRows, Owners(s, s1), NEW w1 \in WindowRows,
           w1.entry = w.entry, w1.saved = w.saved, w1.told = w.told, w1.seen = w.seen,
           Twins(w.calls, w1.calls),
           w1.token \in {None} \cup DOMAIN s1.owner,
           w1.principal = IF w1.token = None THEN Nobody ELSE s1.owner[w1.token],
           w1.exchanging \subseteq DOMAIN s1.owner,
           \A i \in DOMAIN w1.inbox : w1.inbox[i] \in {None} \cup DOMAIN s1.owner,
           \A d \in w1.calls : d.sameSession => d.by = w1.principal,
           NEW u1 \in UsedRows, u1.keys = u.keys, u1.submits = u.submits
    PROVE  CommandOk(s1, w1, l, u1)
<1>1. /\ s \in ServerRows /\ w \in WindowRows /\ l \in SUBSET CallRows /\ u \in UsedRows
      /\ SessionsOk(s, w, l) /\ KeysOk(s, w, l, u.keys) /\ EntriesOk(s, w, l)
      /\ CallsOk(w, u.submits) /\ AnswersOk(s, w) /\ CertainOk(s, w, l) /\ ToldOk(s, w, l)
      /\ u.keys \in Nat
  BY DEF CommandOk, Typed, UsedRows
<1>2. /\ \A d \in w1.calls : \E c \in w.calls : Twin(c, d)
      /\ \A c \in w.calls : \E d \in w1.calls : Twin(c, d)
  BY DEF Twins
<1>3. Matched(w, w1)
  BY DEF Matched, Twins, Twin
<1>4. CallsOk(w1, u1.submits)
  BY <1>1, <1>3, CallsMatched
<1>5. Asked(w1, l) \subseteq Asked(w, l)
  BY <1>3, MatchedAsk
<1>6. KeysOk(s, w1, l, u.keys) /\ EntriesOk(s, w1, l) /\ ToldOk(s, w1, l)
  <2>1. \A o \in Ops : w1.seen[o] <= s.revision[o]
    BY <1>1 DEF KeysOk
  <2> QED BY <1>1, <1>5, <2>1, Standing
<1>7. AnswersOk(s, w1)
  <2> SUFFICES ASSUME NEW d \in w1.calls PROVE AnswerOk(s, d)
    BY DEF AnswersOk
  <2>1. PICK c \in w.calls : Twin(c, d)
    BY <1>2
  <2>2. AnswerOk(s, c)
    BY <1>1 DEF AnswersOk
  <2> QED BY <2>1, <2>2 DEF AnswerOk, Twin, Same
<1>8. Advances(s, w1, l, s1)
  <2>1. \A o \in Ops : s.revision[o] \in Nat
    BY <1>1, RowFields
  <2> QED BY <2>1 DEF Advances, Owners
<1>9. /\ KeysOk(s1, w1, l, u1.keys) /\ EntriesOk(s1, w1, l)
      /\ AnswersOk(s1, w1) /\ ToldOk(s1, w1, l)
  BY <1>1, <1>6, <1>7, <1>8, Advancing
<1>10. CertainOk(s1, w1, l)
  <2> SUFFICES ASSUME NEW o \in Ops PROVE CertainAt(s1, w1, l, o)
    BY DEF CertainOk
  <2>1. CertainAt(s, w, l, o)
    BY <1>1 DEF CertainOk
  <2>2. Uncertain(w, o) => Uncertain(w1, o)
    BY <1>2 DEF Uncertain, CallsOf, Twin, Same
  <2>3. \A k : Acknowledged(w, k) => Acknowledged(w1, k)
    BY <1>2 DEF Acknowledged, CallsOf, Twin, Same
  <2> QED BY <2>1, <2>2, <2>3 DEF CertainAt, Owners
<1>11. SessionsOk(s1, w1, l)
  <2>1. ASSUME NEW q \in Requests(w1, l)
        PROVE  q.token \in DOMAIN s1.owner /\ s1.owner[q.token] = q.by
    <3>1. \E c \in Requests(w, l) : c.token = q.token /\ c.by = q.by
      BY <1>2 DEF Requests, Twin, Same
    <3> QED BY <3>1, <1>1 DEF SessionsOk, Owners
  <2>2. s1.live \subseteq DOMAIN s1.owner
    BY DEF Owners
  <2> QED BY <2>1, <2>2 DEF SessionsOk
<1>12. Typed(s1, w1, l, u1)
  BY <1>1 DEF Typed
<1> QED BY <1>4, <1>9, <1>10, <1>11, <1>12 DEF CommandOk

LEMMA InvParts ==
    ASSUME NEW s, NEW w, NEW l, NEW u, CommandOk(s, w, l, u)
    PROVE  /\ s \in ServerRows /\ w \in WindowRows /\ l \in SUBSET CallRows /\ u \in UsedRows
           /\ SessionsOk(s, w, l) /\ KeysOk(s, w, l, u.keys) /\ EntriesOk(s, w, l)
           /\ CallsOk(w, u.submits) /\ AnswersOk(s, w) /\ CertainOk(s, w, l)
           /\ ToldOk(s, w, l)
           /\ u.keys \in Nat /\ u.submits \in Nat /\ u.faults \in Nat /\ u.moves \in Nat
           /\ u.reloads \in Nat
           /\ w.calls \in SUBSET CallRows /\ Alone(w.calls) /\ Twins(w.calls, w.calls)
<1>1. /\ s \in ServerRows /\ w \in WindowRows /\ l \in SUBSET CallRows /\ u \in UsedRows
      /\ SessionsOk(s, w, l) /\ KeysOk(s, w, l, u.keys) /\ EntriesOk(s, w, l)
      /\ CallsOk(w, u.submits) /\ AnswersOk(s, w) /\ CertainOk(s, w, l)
      /\ ToldOk(s, w, l)
  BY DEF CommandOk, Typed
<1>2. /\ u.keys \in Nat /\ u.submits \in Nat /\ u.faults \in Nat /\ u.moves \in Nat
      /\ u.reloads \in Nat
  BY <1>1 DEF UsedRows
<1>3. w.calls \in SUBSET CallRows /\ Alone(w.calls)
  BY <1>1, RowFields DEF CallsOk, Alone
<1> QED BY <1>1, <1>2, <1>3, TwinsOfNone

\* What a window keeps whatever happens to its session.
Stays(w, w1) ==
    w1.entry = w.entry /\ w1.saved = w.saved /\ w1.told = w.told /\ w1.seen = w.seen

LEMMA ClearedIs ==
    ASSUME NEW w \in WindowRows, Alone(w.calls)
    PROVE  /\ Cleared(w) \in WindowRows /\ Stays(w, Cleared(w))
           /\ Twins(w.calls, Cleared(w).calls)
           /\ Cleared(w).token = None /\ Cleared(w).principal = Nobody
           /\ Cleared(w).exchanging = w.exchanging /\ Cleared(w).inbox = w.inbox
           /\ \A d \in Cleared(w).calls : ~d.sameSession
           /\ Cleared(w).broken = w.broken
           /\ Cleared(w).calls =
                 {[c EXCEPT !.sameToken = FALSE, !.sameSession = FALSE] : c \in w.calls}
<1> DEFINE D == {[c EXCEPT !.sameToken = FALSE, !.sameSession = FALSE] : c \in w.calls}
<1>1. w.calls \in SUBSET CallRows
  BY RowFields
<1>2. Twins(w.calls, D)
  BY <1>1, TwinsOfBoth
<1>3. \A d \in D : ~d.sameSession
  BY <1>1 DEF CallRows
<1>4. D \in SUBSET CallRows
  BY <1>2 DEF Twins
<1>5. Cleared(w) = [w EXCEPT !.token = None, !.principal = Nobody, !.calls = D]
  BY DEF Cleared, WindowRows
<1> HIDE DEF D
<1>6. Cleared(w) \in WindowRows
  <2>1. None \in Nat /\ Nobody \in Principals \cup {Nobody}
    BY DEF None
  <2> QED BY <2>1, <1>4, <1>5 DEF WindowRows
<1>7. /\ Stays(w, Cleared(w)) /\ Cleared(w).calls = D
      /\ Cleared(w).token = None /\ Cleared(w).principal = Nobody
      /\ Cleared(w).exchanging = w.exchanging /\ Cleared(w).inbox = w.inbox
      /\ Cleared(w).broken = w.broken
  BY <1>5 DEF WindowRows, Stays
<1>8. Cleared(w).calls =
         {[c EXCEPT !.sameToken = FALSE, !.sameSession = FALSE] : c \in w.calls}
  BY <1>7 DEF D
<1> QED BY <1>2, <1>3, <1>6, <1>7, <1>8

LEMMA SetTokenIs ==
    ASSUME NEW w \in WindowRows, Alone(w.calls), server \in ServerRows,
           NEW sid \in DOMAIN server.owner
    PROVE  /\ SetToken(w, sid) \in WindowRows /\ Stays(w, SetToken(w, sid))
           /\ Twins(w.calls, SetToken(w, sid).calls)
           /\ SetToken(w, sid).token = sid /\ SetToken(w, sid).principal = server.owner[sid]
           /\ SetToken(w, sid).exchanging = w.exchanging
           /\ SetToken(w, sid).inbox = w.inbox
           /\ sid # None /\ sid \in Nat /\ server.owner[sid] \in Principals
<1> DEFINE D == {[c EXCEPT !.sameToken = FALSE] : c \in w.calls}
<1>1. w.calls \in SUBSET CallRows
  BY RowFields
<1>2. Twins(w.calls, D)
  BY <1>1, TwinsOfToken
<1>3. D \in SUBSET CallRows
  BY <1>2 DEF Twins
<1>4. sid # None /\ sid \in Nat /\ server.owner[sid] \in Principals
  <2>1. server.owner \in Seq(Principals)
    BY DEF ServerRows
  <2>2. DOMAIN server.owner = 1..Len(server.owner) /\ Len(server.owner) \in Nat
        /\ \A i \in DOMAIN server.owner : server.owner[i] \in Principals
    BY <2>1, ElementOfSeq, LenProperties
  <2> QED BY <2>2 DEF None
<1>5. SetToken(w, sid) = [w EXCEPT !.token = sid, !.principal = server.owner[sid], !.calls = D]
  BY DEF SetToken, WindowRows
<1> HIDE DEF D
<1> QED BY <1>2, <1>3, <1>4, <1>5 DEF WindowRows, Stays

LEMMA OwnersStay ==
    ASSUME NEW s \in ServerRows, s.live \subseteq DOMAIN s.owner
    PROVE  Owners(s, s)
BY DEF Owners

\* #clearSession
LEMMA Clearing ==
    ASSUME NEW s, NEW w, NEW l, NEW u, CommandOk(s, w, l, u)
    PROVE  CommandOk(s, Cleared(w), l, u)
<1>1. /\ s \in ServerRows /\ w \in WindowRows /\ u \in UsedRows /\ SessionsOk(s, w, l)
      /\ Alone(w.calls)
  BY InvParts
<1>2. PICK w1 : w1 = Cleared(w)
  OBVIOUS
<1>3. /\ w1 \in WindowRows /\ Stays(w, w1) /\ Twins(w.calls, w1.calls)
      /\ w1.token = None /\ w1.principal = Nobody
      /\ w1.exchanging = w.exchanging /\ w1.inbox = w.inbox
      /\ \A d \in w1.calls : ~d.sameSession
  BY <1>1, <1>2, ClearedIs
<1>4. Owners(s, s)
  BY <1>1, OwnersStay DEF SessionsOk
<1>5. w1.entry = w.entry /\ w1.saved = w.saved /\ w1.told = w.told /\ w1.seen = w.seen
  BY <1>3 DEF Stays
<1>6. /\ w1.exchanging \subseteq DOMAIN s.owner
      /\ \A i \in DOMAIN w1.inbox : w1.inbox[i] \in {None} \cup DOMAIN s.owner
  BY <1>1, <1>3 DEF SessionsOk
<1>7. CommandOk(s, w1, l, u)
  BY <1>1, <1>3, <1>4, <1>5, <1>6, SessionMove
<1> QED BY <1>2, <1>7

LEMMA ExchangedIs ==
    ASSUME server \in ServerRows, server.live \subseteq DOMAIN server.owner,
           NEW p \in Principals
    PROVE  /\ Exchanged(p) \in ServerRows /\ Owners(server, Exchanged(p))
           /\ Exchanged(p).cookie \in DOMAIN Exchanged(p).owner
           /\ Exchanged(p).cookie \in Nat
<1> DEFINE owner == server.owner
           own == server.cookie \in server.live /\ owner[server.cookie] = p
           sid == IF own THEN server.cookie ELSE Len(owner) + 1
           owner1 == IF sid > Len(owner) THEN Append(owner, p) ELSE owner
<1>1. owner \in Seq(Principals) /\ server.cookie \in Nat /\ server.live \in SUBSET Nat
  BY DEF ServerRows
<1>2. DOMAIN owner = 1..Len(owner) /\ Len(owner) \in Nat
  BY <1>1, LenProperties
<1>3. sid \in Nat /\ (sid \in DOMAIN owner \/ sid = Len(owner) + 1)
  BY <1>1, <1>2
<1>4. /\ Append(owner, p) \in Seq(Principals)
      /\ DOMAIN Append(owner, p) = 1..(Len(owner) + 1)
      /\ \A i \in 1..Len(owner) : Append(owner, p)[i] = owner[i]
  BY <1>1, AppendProperties, LenProperties
<1>5. /\ owner1 \in Seq(Principals) /\ sid \in DOMAIN owner1
      /\ \A i \in DOMAIN owner : i \in DOMAIN owner1 /\ owner1[i] = owner[i]
  <2>1. CASE sid > Len(owner)
    BY <2>1, <1>2, <1>3, <1>4
  <2>2. CASE ~(sid > Len(owner))
    BY <2>2, <1>1, <1>2, <1>3
  <2> QED BY <2>1, <2>2
<1>6. Exchanged(p) = [server EXCEPT !.live = server.live \cup {sid}, !.cookie = sid,
                                    !.owner = owner1]
  BY DEF Exchanged, ServerRows
<1> HIDE DEF sid, owner1, own
<1>7. /\ Exchanged(p).live = server.live \cup {sid} /\ Exchanged(p).cookie = sid
      /\ Exchanged(p).owner = owner1 /\ Exchanged(p).revision = server.revision
      /\ Exchanged(p).permits = server.permits /\ Exchanged(p).commits = server.commits
  BY <1>6 DEF ServerRows
<1>8. Exchanged(p) \in ServerRows
  <2>1. server.live \cup {sid} \in SUBSET Nat
    BY <1>1, <1>3
  <2> QED BY <2>1, <1>3, <1>5, <1>6 DEF ServerRows
<1> QED BY <1>3, <1>5, <1>7, <1>8 DEF Owners

\* The tokens the window hears of have owners, and go on having them.
LEMMA OwnersKept ==
    ASSUME NEW s, NEW w, NEW l, SessionsOk(s, w, l), NEW s1, Owners(s, s1)
    PROVE  /\ s1.live \subseteq DOMAIN s1.owner
           /\ w.token \in {None} \cup DOMAIN s1.owner
           /\ w.principal = IF w.token = None THEN Nobody ELSE s1.owner[w.token]
           /\ w.exchanging \subseteq DOMAIN s1.owner
           /\ \A i \in DOMAIN w.inbox : w.inbox[i] \in {None} \cup DOMAIN s1.owner
           /\ \A d \in w.calls : d.sameSession => d.by = w.principal
<1>1. \A i \in DOMAIN s.owner : i \in DOMAIN s1.owner /\ s1.owner[i] = s.owner[i]
  BY DEF Owners
<1>2. w.principal = IF w.token = None THEN Nobody ELSE s1.owner[w.token]
  BY <1>1 DEF SessionsOk
<1> QED BY <1>1, <1>2 DEF SessionsOk, Owners

\* An answer of the server, or another window's message, is under way.
LEMMA SessionsHeard ==
    ASSUME NEW s, NEW w, NEW l, NEW u, CommandOk(s, w, l, u),
           NEW s1 \in ServerRows, Owners(s, s1),
           NEW w1 \in WindowRows, Stays(w, w1), w1.calls = w.calls,
           w1.token = w.token, w1.principal = w.principal,
           w1.exchanging \subseteq DOMAIN s1.owner,
           \A i \in DOMAIN w1.inbox : w1.inbox[i] \in {None} \cup DOMAIN s1.owner,
           NEW u1 \in UsedRows, u1.keys = u.keys, u1.submits = u.submits
    PROVE  CommandOk(s1, w1, l, u1)
<1>1. SessionsOk(s, w, l) /\ Twins(w.calls, w.calls)
  BY InvParts
<1>2. /\ w1.token \in {None} \cup DOMAIN s1.owner
      /\ w1.principal = IF w1.token = None THEN Nobody ELSE s1.owner[w1.token]
      /\ \A d \in w1.calls : d.sameSession => d.by = w1.principal
  BY <1>1, OwnersKept
<1>3. w1.entry = w.entry /\ w1.saved = w.saved /\ w1.told = w.told
      /\ w1.seen = w.seen /\ Twins(w.calls, w1.calls)
  BY <1>1 DEF Stays
<1> QED BY <1>1, <1>2, <1>3, SessionMove

LEMMA SignInKeeps ==
    ASSUME CommandInv, NEW p \in Principals, SignIn(p) PROVE CommandInv'
<1>1. /\ server \in ServerRows /\ window \in WindowRows /\ SessionsOk(server, window, late)
      /\ used \in UsedRows
      /\ server.live \subseteq DOMAIN server.owner
  BY InvParts DEF CommandInv, SessionsOk
<1>2. /\ server' = Exchanged(p) /\ window' = [window EXCEPT !.exchanging = {server'.cookie}]
      /\ late' = late /\ used' = used
  BY DEF SignIn
<1>3. /\ server' \in ServerRows /\ Owners(server, server')
      /\ server'.cookie \in DOMAIN server'.owner /\ server'.cookie \in Nat
  BY <1>1, <1>2, ExchangedIs
<1>4. /\ window' \in WindowRows /\ Stays(window, window') /\ window'.calls = window.calls
      /\ window'.token = window.token /\ window'.principal = window.principal
      /\ window'.exchanging = {server'.cookie} /\ window'.inbox = window.inbox
  BY <1>1, <1>2, <1>3 DEF WindowRows, Stays
<1>5. /\ window'.exchanging \subseteq DOMAIN server'.owner
      /\ \A i \in DOMAIN window'.inbox :
            window'.inbox[i] \in {None} \cup DOMAIN server'.owner
  BY <1>1, <1>3, <1>4, OwnersKept
<1>6. CommandOk(server', window', late, used)
  BY <1>1, <1>3, <1>4, <1>5, SessionsHeard DEF CommandInv
<1> QED BY <1>2, <1>6 DEF CommandInv

\* What is appended to the inbox is None or a session.
LEMMA InboxAppended ==
    ASSUME NEW s1 \in ServerRows, NEW w \in WindowRows, NEW x \in Nat,
           x \in {None} \cup DOMAIN s1.owner,
           \A i \in DOMAIN w.inbox : w.inbox[i] \in {None} \cup DOMAIN s1.owner
    PROVE  /\ Append(w.inbox, x) \in Seq(Nat)
           /\ \A i \in DOMAIN Append(w.inbox, x) :
                 Append(w.inbox, x)[i] \in {None} \cup DOMAIN s1.owner
<1>1. w.inbox \in Seq(Nat)
  BY DEF WindowRows
<1>2. PICK q \in Seq(Nat) : q = w.inbox
  BY <1>1
<1>3. /\ Append(q, x) \in Seq(Nat) /\ Len(q) \in Nat
      /\ DOMAIN q = 1..Len(q) /\ DOMAIN Append(q, x) = 1..(Len(q) + 1)
      /\ \A i \in 1..Len(q) : Append(q, x)[i] = q[i]
      /\ Append(q, x)[Len(q) + 1] = x
  BY AppendProperties, LenProperties
<1>4. \A i \in 1..(Len(q) + 1) : i \in 1..Len(q) \/ i = Len(q) + 1
  BY <1>3
<1> QED BY <1>2, <1>3, <1>4

LEMMA OtherSignsInKeeps ==
    ASSUME CommandInv, NEW p \in Principals, OtherSignsIn(p) PROVE CommandInv'
<1>1. /\ server \in ServerRows /\ window \in WindowRows /\ SessionsOk(server, window, late)
      /\ used \in UsedRows
      /\ server.live \subseteq DOMAIN server.owner
  BY InvParts DEF CommandInv, SessionsOk
<1>2. /\ server' = Exchanged(p)
      /\ window' = [window EXCEPT !.inbox = Append(window.inbox, server'.cookie)]
      /\ late' = late /\ used' = used
  BY <1>1 DEF OtherSignsIn, WindowRows
<1>3. /\ server' \in ServerRows /\ Owners(server, server')
      /\ server'.cookie \in DOMAIN server'.owner /\ server'.cookie \in Nat
  BY <1>1, <1>2, ExchangedIs
<1>4. /\ window.exchanging \subseteq DOMAIN server'.owner
      /\ \A i \in DOMAIN window.inbox : window.inbox[i] \in {None} \cup DOMAIN server'.owner
  BY <1>1, <1>3, OwnersKept
<1> DEFINE inbox == Append(window.inbox, server'.cookie)
<1>5. inbox \in Seq(Nat) /\ \A i \in DOMAIN inbox : inbox[i] \in {None} \cup DOMAIN server'.owner
  BY <1>1, <1>3, <1>4, InboxAppended
<1> HIDE DEF inbox
<1>6. /\ window' \in WindowRows /\ Stays(window, window') /\ window'.calls = window.calls
      /\ window'.token = window.token /\ window'.principal = window.principal
      /\ window'.exchanging = window.exchanging /\ window'.inbox = inbox
  BY <1>1, <1>2, <1>5 DEF WindowRows, Stays, inbox
<1>7. CommandOk(server', window', late, used)
  BY <1>1, <1>3, <1>4, <1>5, <1>6, SessionsHeard DEF CommandInv
<1> QED BY <1>2, <1>7 DEF CommandInv

\* A session ends: some of the live ones are no longer.
LEMMA SessionsEnd ==
    ASSUME server \in ServerRows, server.live \subseteq DOMAIN server.owner,
           NEW sid, NEW s1,
           \/ s1 = [server EXCEPT !.live = server.live \ {sid}]
           \/ s1 = [server EXCEPT !.live = server.live \ {sid}, !.cookie = None]
    PROVE  s1 \in ServerRows /\ Owners(server, s1)
<1>1. server.live \ {sid} \in SUBSET Nat /\ None \in Nat
  BY DEF ServerRows, None
<1>2. s1 \in ServerRows
  BY <1>1 DEF ServerRows
<1>3. /\ s1.live = server.live \ {sid} /\ s1.owner = server.owner
      /\ s1.revision = server.revision /\ s1.permits = server.permits
      /\ s1.commits = server.commits
  BY DEF ServerRows
<1> QED BY <1>2, <1>3 DEF Owners

LEMMA ClosedIs ==
    ASSUME server \in ServerRows, server.live \subseteq DOMAIN server.owner
    PROVE  Closed \in ServerRows /\ Owners(server, Closed)
<1>1. Closed = [server EXCEPT !.live = server.live \ {server.cookie}, !.cookie = None]
  BY DEF Closed, ServerRows
<1> QED BY <1>1, SessionsEnd

LEMMA OtherSignsOutKeeps ==
    ASSUME CommandInv, OtherSignsOut PROVE CommandInv'
<1>1. /\ server \in ServerRows /\ window \in WindowRows /\ SessionsOk(server, window, late)
      /\ used \in UsedRows
      /\ server.live \subseteq DOMAIN server.owner
  BY InvParts DEF CommandInv, SessionsOk
<1>2. /\ server' = Closed /\ window' = [window EXCEPT !.inbox = Append(window.inbox, None)]
      /\ late' = late /\ used' = used
  BY <1>1 DEF OtherSignsOut, WindowRows
<1>3. server' \in ServerRows /\ Owners(server, server')
  BY <1>1, <1>2, ClosedIs
<1>4. /\ window.exchanging \subseteq DOMAIN server'.owner
      /\ \A i \in DOMAIN window.inbox : window.inbox[i] \in {None} \cup DOMAIN server'.owner
  BY <1>1, <1>3, OwnersKept
<1> DEFINE inbox == Append(window.inbox, None)
<1>5. inbox \in Seq(Nat) /\ \A i \in DOMAIN inbox : inbox[i] \in {None} \cup DOMAIN server'.owner
  <2>1. None \in Nat
    BY DEF None
  <2> QED BY <2>1, <1>1, <1>3, <1>4, InboxAppended
<1> HIDE DEF inbox
<1>6. /\ window' \in WindowRows /\ Stays(window, window') /\ window'.calls = window.calls
      /\ window'.token = window.token /\ window'.principal = window.principal
      /\ window'.exchanging = window.exchanging /\ window'.inbox = inbox
  BY <1>1, <1>2, <1>5 DEF WindowRows, Stays, inbox
<1>7. CommandOk(server', window', late, used)
  BY <1>1, <1>3, <1>4, <1>5, <1>6, SessionsHeard DEF CommandInv
<1> QED BY <1>2, <1>7 DEF CommandInv

LEMMA SessionExpiresKeeps ==
    ASSUME CommandInv, NEW sid, SessionExpires(sid) PROVE CommandInv'
<1>1. /\ server \in ServerRows /\ window \in WindowRows /\ SessionsOk(server, window, late)
      /\ used \in UsedRows
      /\ server.live \subseteq DOMAIN server.owner
  BY InvParts DEF CommandInv, SessionsOk
<1>2. /\ server' = [server EXCEPT !.live = server.live \ {sid}]
      /\ window' = window /\ late' = late /\ used' = used
  BY <1>1 DEF SessionExpires, ServerRows
<1>3. server' \in ServerRows /\ Owners(server, server')
  BY <1>1, <1>2, SessionsEnd
<1>4. /\ window.exchanging \subseteq DOMAIN server'.owner
      /\ \A i \in DOMAIN window.inbox : window.inbox[i] \in {None} \cup DOMAIN server'.owner
  BY <1>1, <1>3, OwnersKept
<1>5. CommandOk(server', window, late, used)
  BY <1>1, <1>3, <1>4, SessionsHeard DEF Stays, CommandInv
<1> QED BY <1>2, <1>5 DEF CommandInv

LEMMA SignOutKeeps ==
    ASSUME CommandInv, SignOut PROVE CommandInv'
<1>1. /\ server \in ServerRows /\ window \in WindowRows /\ SessionsOk(server, window, late)
      /\ used \in UsedRows
      /\ server.live \subseteq DOMAIN server.owner
  BY InvParts DEF CommandInv, SessionsOk
<1>2. /\ server' = Closed /\ window' = Cleared(window)
      /\ late' = late /\ used' = used
  BY DEF SignOut
<1>3. server' \in ServerRows /\ Owners(server, server')
  BY <1>1, <1>2, ClosedIs
<1>4. /\ window.exchanging \subseteq DOMAIN server'.owner
      /\ \A i \in DOMAIN window.inbox : window.inbox[i] \in {None} \cup DOMAIN server'.owner
  BY <1>1, <1>3, OwnersKept
<1>5. CommandOk(server', window, late, used)
  BY <1>1, <1>3, <1>4, SessionsHeard DEF Stays, CommandInv
<1>6. CommandOk(server', Cleared(window), late, used)
  BY <1>5, Clearing
<1> QED BY <1>2, <1>6 DEF CommandInv

\* One more of a bound that has nothing to do with keys and calls.
LEMMA UsesIs ==
    ASSUME used \in UsedRows, NEW what \in {"faults", "moves", "reloads"},
           NEW bound, Uses(what, bound)
    PROVE  used' \in UsedRows /\ used'.keys = used.keys /\ used'.submits = used.submits
<1>1. used' = [used EXCEPT ![what] = used[what] + 1]
  BY DEF Uses, UsedRows
<1>2. CASE what = "faults"
  BY <1>1, <1>2 DEF UsedRows
<1>3. CASE what = "moves"
  BY <1>1, <1>3 DEF UsedRows
<1>4. CASE what = "reloads"
  BY <1>1, <1>4 DEF UsedRows
<1> QED BY <1>2, <1>3, <1>4

LEMMA SignInLostKeeps ==
    ASSUME CommandInv, SignInLost PROVE CommandInv'
<1>1. /\ server \in ServerRows /\ used \in UsedRows /\ window \in WindowRows
      /\ Alone(window.calls)
  BY InvParts DEF CommandInv
<1>2. PICK w \in WindowRows : w = Cleared(window)
  BY <1>1, ClearedIs
<1>3. CommandOk(server, w, late, used)
  BY <1>2, Clearing DEF CommandInv
<1>4. /\ server' = server /\ window' = [w EXCEPT !.exchanging = {}]
      /\ late' = late /\ Uses("faults", MaxFaults)
  BY <1>2 DEF SignInLost
<1>5. used' \in UsedRows /\ used'.keys = used.keys /\ used'.submits = used.submits
  BY <1>1, <1>4, UsesIs
<1>6. SessionsOk(server, w, late)
  BY <1>3, InvParts
<1>7. Owners(server, server)
  BY <1>1, <1>6, OwnersStay DEF SessionsOk
<1>8. /\ window' \in WindowRows /\ Stays(w, window') /\ window'.calls = w.calls
      /\ window'.token = w.token /\ window'.principal = w.principal
      /\ window'.exchanging = {} /\ window'.inbox = w.inbox
  BY <1>4 DEF WindowRows, Stays
<1>9. /\ window'.exchanging \subseteq DOMAIN server.owner
      /\ \A i \in DOMAIN window'.inbox : window'.inbox[i] \in {None} \cup DOMAIN server.owner
  BY <1>6, <1>8 DEF SessionsOk
<1>10. CommandOk(server, window', late, used')
  BY <1>1, <1>3, <1>5, <1>7, <1>8, <1>9, SessionsHeard
<1> QED BY <1>4, <1>10 DEF CommandInv

\* #setCsrfToken, for a window of the same Human or of none.
LEMMA TokenSet ==
    ASSUME NEW w, CommandOk(server, w, late, used), NEW sid \in DOMAIN server.owner,
           w.principal \in {Nobody, server.owner[sid]}
    PROVE  CommandOk(server, SetToken(w, sid), late, used)
<1>1. /\ server \in ServerRows /\ w \in WindowRows /\ used \in UsedRows
      /\ SessionsOk(server, w, late) /\ Alone(w.calls) /\ w.calls \in SUBSET CallRows
  BY InvParts
<1>2. PICK w1 : w1 = SetToken(w, sid)
  OBVIOUS
<1>3. /\ w1 \in WindowRows /\ Stays(w, w1)
      /\ Twins(w.calls, w1.calls)
      /\ w1.token = sid /\ w1.principal = server.owner[sid]
      /\ w1.exchanging = w.exchanging
      /\ w1.inbox = w.inbox
      /\ sid # None
  BY <1>1, <1>2, SetTokenIs
<1>4. w1.entry = w.entry /\ w1.saved = w.saved /\ w1.told = w.told /\ w1.seen = w.seen
  BY <1>3 DEF Stays
<1>5. Owners(server, server)
  BY <1>1, OwnersStay DEF SessionsOk
<1>6. \A d \in w1.calls : d.sameSession => d.by = w1.principal
  <2> SUFFICES ASSUME NEW d \in w1.calls, d.sameSession PROVE d.by = w1.principal
    OBVIOUS
  <2>1. PICK c \in w.calls : Twin(c, d)
    BY <1>3 DEF Twins
  <2>2. c.by = w.principal /\ c.by \in Principals
    BY <1>1, <2>1, RowFields DEF SessionsOk, Twin
  <2> QED BY <2>1, <2>2, <1>3, HumanCommandsAssumption DEF HumanCommandsAssumption, Twin, Same
<1>7. /\ w1.exchanging \subseteq DOMAIN server.owner
      /\ \A i \in DOMAIN w1.inbox : w1.inbox[i] \in {None} \cup DOMAIN server.owner
  BY <1>1, <1>3 DEF SessionsOk
<1>8. CommandOk(server, w1, late, used)
  BY <1>1, <1>3, <1>4, <1>5, <1>6, <1>7, SessionMove
<1> QED BY <1>2, <1>8

LEMMA ToldKeeps ==
    ASSUME CommandInv, Told PROVE CommandInv'
<1>1. /\ server \in ServerRows /\ window \in WindowRows /\ used \in UsedRows
      /\ SessionsOk(server, window, late)
  BY InvParts DEF CommandInv
<1> DEFINE sid == Head(window.inbox)
<1>2. PICK w : w = [window EXCEPT !.inbox = Tail(window.inbox)]
  OBVIOUS
<1>3. /\ window.inbox \in Seq(Nat) /\ window.inbox # << >>
      /\ \A i \in DOMAIN window.inbox : window.inbox[i] \in {None} \cup DOMAIN server.owner
  BY <1>1 DEF Told, WindowRows, SessionsOk
<1>4. /\ sid \in {None} \cup DOMAIN server.owner
      /\ Tail(window.inbox) \in Seq(Nat)
      /\ \A i \in DOMAIN Tail(window.inbox) :
            Tail(window.inbox)[i] \in {None} \cup DOMAIN server.owner
  <2>1. PICK q \in Seq(Nat) : q = window.inbox
    BY <1>3
  <2>2. /\ Head(q) = q[1] /\ Tail(q) \in Seq(Nat) /\ Len(Tail(q)) = Len(q) - 1
        /\ \A i \in 1..Len(Tail(q)) : Tail(q)[i] = q[i + 1]
    BY <1>3, <2>1, HeadTailProperties
  <2>3. /\ DOMAIN q = 1..Len(q) /\ Len(q) \in Nat \ {0}
        /\ DOMAIN Tail(q) = 1..Len(Tail(q))
    BY <1>3, <2>1, <2>2, LenProperties, EmptySeq
  <2>4. /\ 1 \in DOMAIN q
        /\ \A i \in DOMAIN Tail(q) : i + 1 \in DOMAIN q
    BY <2>2, <2>3
  <2> QED BY <1>3, <2>1, <2>2, <2>3, <2>4
<1>5. /\ window' = IF sid = None \/ w.principal \notin {Nobody, server.owner[sid]}
                   THEN Cleared(w) ELSE SetToken(w, sid)
      /\ server' = server /\ late' = late /\ used' = used
  BY <1>1, <1>2 DEF Told, WindowRows
<1>6. /\ w \in WindowRows /\ Stays(window, w) /\ w.calls = window.calls
      /\ w.token = window.token /\ w.principal = window.principal
      /\ w.exchanging = window.exchanging /\ w.inbox = Tail(window.inbox)
  BY <1>1, <1>2, <1>4 DEF WindowRows, Stays
<1> HIDE DEF sid
<1>7. Owners(server, server) /\ w.exchanging \subseteq DOMAIN server.owner
  BY <1>1, <1>6, OwnersStay DEF SessionsOk
<1>8. CommandOk(server, w, late, used)
  BY <1>1, <1>4, <1>6, <1>7, SessionsHeard DEF CommandInv
<1>9. CASE sid = None \/ w.principal \notin {Nobody, server.owner[sid]}
  <2>1. CommandOk(server, Cleared(w), late, used)
    BY <1>8, Clearing
  <2> QED BY <2>1, <1>5, <1>9 DEF CommandInv
<1>10. CASE ~(sid = None \/ w.principal \notin {Nobody, server.owner[sid]})
  <2>1. CommandOk(server, SetToken(w, sid), late, used)
    BY <1>4, <1>8, <1>10, TokenSet
  <2> QED BY <2>1, <1>5, <1>10 DEF CommandInv
<1> QED BY <1>9, <1>10

LEMMA SignedInKeeps ==
    ASSUME CommandInv, SignedIn PROVE CommandInv'
<1>1. /\ server \in ServerRows /\ window \in WindowRows /\ used \in UsedRows
      /\ SessionsOk(server, window, late) /\ Alone(window.calls)
      /\ window.calls \in SUBSET CallRows
  BY InvParts DEF CommandInv
<1>2. PICK sid \in window.exchanging :
         window' = [SetToken(window, sid) EXCEPT !.exchanging = {},
                       !.calls = {[c EXCEPT !.sameSession = FALSE] : c \in @}]
  BY DEF SignedIn
<1>3. sid \in DOMAIN server.owner
  BY <1>1 DEF SessionsOk
<1>4. PICK w : w = SetToken(window, sid)
  OBVIOUS
<1>5. /\ w \in WindowRows /\ Stays(window, w) /\ Twins(window.calls, w.calls)
      /\ w.token = sid /\ w.principal = server.owner[sid]
      /\ w.inbox = window.inbox /\ sid # None
  BY <1>1, <1>3, <1>4, SetTokenIs
<1> DEFINE D == {[c EXCEPT !.sameSession = FALSE] : c \in w.calls}
<1>6. w.calls \in SUBSET CallRows /\ Alone(w.calls)
  BY <1>5 DEF Twins, Alone
<1>7. Twins(w.calls, D) /\ \A d \in D : ~d.sameSession
  BY <1>6, TwinsOfSession DEF CallRows
<1>8. window' = [w EXCEPT !.exchanging = {}, !.calls = D]
  BY <1>2, <1>4, <1>5 DEF WindowRows
<1> HIDE DEF D
<1>9. D \in SUBSET CallRows
  BY <1>7 DEF Twins
<1>10. /\ window' \in WindowRows /\ window'.calls = D /\ window'.exchanging = {}
       /\ window'.entry = w.entry /\ window'.saved = w.saved /\ window'.told = w.told
       /\ window'.seen = w.seen /\ window'.token = w.token
       /\ window'.principal = w.principal /\ window'.inbox = w.inbox
  BY <1>5, <1>8, <1>9 DEF WindowRows
<1>11. Twins(window.calls, window'.calls)
  BY <1>5, <1>7, <1>10, TwinsOfTwins
<1>12. /\ window'.entry = window.entry /\ window'.saved = window.saved
       /\ window'.told = window.told /\ window'.seen = window.seen
  BY <1>5, <1>10 DEF Stays
<1>13. Owners(server, server)
  BY <1>1, OwnersStay DEF SessionsOk
<1>14. /\ window'.token \in {None} \cup DOMAIN server.owner
       /\ window'.principal = IF window'.token = None THEN Nobody
                              ELSE server.owner[window'.token]
       /\ window'.exchanging \subseteq DOMAIN server.owner
       /\ \A d \in window'.calls : d.sameSession => d.by = window'.principal
  BY <1>3, <1>5, <1>7, <1>10
<1>15. \A i \in DOMAIN window'.inbox : window'.inbox[i] \in {None} \cup DOMAIN server.owner
  BY <1>1, <1>5, <1>10 DEF SessionsOk
<1>16. CommandOk(server, window', late, used)
  BY <1>1, <1>10, <1>11, <1>12, <1>13, <1>14, <1>15, SessionMove DEF CommandInv
<1> QED BY <1>16 DEF CommandInv, SignedIn

-----------------------------------------------------------------------------
(* Requests reach the server, or are lost *)

LEMMA AdvancesNot ==
    ASSUME NEW s \in ServerRows, NEW w, NEW l
    PROVE  Advances(s, w, l, s)
BY RowFields DEF Advances

\* What the server does with a request, and what it answers.
LEMMA HandledIs ==
    ASSUME CommandInv, NEW c \in Requests(window, late)
    PROVE  /\ Handled(c) \in ServerRows
           /\ Handled(c).live = server.live /\ Handled(c).owner = server.owner
           /\ Advances(server, window, late, Handled(c))
           /\ \A k \in Handled(c).commits : k \notin server.commits =>
                 k.op = c.op /\ k.intent = c.intent /\ k.key = c.key /\ k.by = c.by
           /\ Outcome(c) \in {"401", "403", "Ok", "Forbidden", "Stale", "Commit"}
           /\ Outcome(c) \in {"Ok", "Commit"} =>
                 \E k \in Handled(c).commits : k.key = c.key /\ k.by = c.by
           /\ Outcome(c) = "Stale" =>
                 /\ c.op \notin Posts /\ c.expected < Handled(c).revision[c.op]
                 /\ \A k \in Handled(c).commits : ~(k.key = c.key /\ k.by = c.by)
<1>1. /\ server \in ServerRows /\ window \in WindowRows /\ late \in SUBSET CallRows
      /\ SessionsOk(server, window, late) /\ KeysOk(server, window, late, used.keys)
  BY InvParts DEF CommandInv
<1>2. /\ c \in CallRows /\ c.op \in Ops /\ c.key \in Nat /\ c.expected \in Nat
      /\ c.intent \in Nat /\ c.by \in Principals
      /\ server.revision \in [Ops -> Nat]
      /\ server.commits \in SUBSET CommitRows
  BY <1>1, RowFields DEF Requests
<1>3. /\ Claim(c.op, c) \in Asked(window, late) /\ Claim(c.op, c) \in Claims(window, late)
      /\ Claim(c.op, c).op = c.op /\ Claim(c.op, c).key = c.key
      /\ Claim(c.op, c).intent = c.intent /\ Claim(c.op, c).expected = c.expected
  BY RequestIsAsked
<1>4. c.expected <= server.revision[c.op]
  BY <1>1, <1>3 DEF KeysOk
<1>5. Outcome(c) \in {"401", "403", "Ok", "Forbidden", "Stale", "Commit"}
  BY DEF Outcome, Refused
<1>6. c.sid \in server.live /\ c.token = c.sid =>
         /\ server.owner[c.sid] = c.by
         /\ \A k \in server.commits : k.by = k.principal
  BY <1>1 DEF SessionsOk, KeysOk
<1>7. CASE Outcome(c) # "Commit"
  <2>1. Handled(c) = server
    BY <1>7 DEF Handled
  <2>2. Advances(server, window, late, server)
    BY <1>1, AdvancesNot
  <2>3. Outcome(c) \in {"Ok", "Forbidden", "Stale"} => c.sid \in server.live /\ c.token = c.sid
    BY DEF Outcome, Refused
  <2>4. Outcome(c) = "Ok" => \E k \in server.commits : k.key = c.key /\ k.by = c.by
    <3>1. Outcome(c) = "Ok" => Committed(c)
      BY DEF Outcome, Refused
    <3> QED BY <3>1, <2>3, <1>6 DEF Committed
  <2>6. Outcome(c) = "Stale" => /\ c.op \notin Posts /\ server.revision[c.op] # c.expected
                                /\ ~Committed(c)
    BY DEF Outcome, Refused
  <2>7. Outcome(c) = "Stale" => c.expected < server.revision[c.op]
    <3>1. server.revision[c.op] \in Nat
      BY <1>2
    <3> QED BY <2>6, <3>1, <1>2, <1>4
  <2>8. Outcome(c) = "Stale" => \A k \in server.commits : ~(k.key = c.key /\ k.by = c.by)
    BY <2>3, <2>6, <1>6 DEF Committed
  <2> QED BY <1>1, <1>5, <1>7, <2>1, <2>2, <2>4, <2>6, <2>7, <2>8
<1>8. CASE Outcome(c) = "Commit"
  <2>1. /\ c.sid \in server.live /\ c.token = c.sid
        /\ c.op \notin Posts => server.revision[c.op] = c.expected
    BY <1>8 DEF Outcome, Refused
  <2>2. server.owner[c.sid] = c.by
    BY <1>6, <2>1
  <2> DEFINE k0 == [op |-> c.op, key |-> c.key, intent |-> c.intent,
                    by |-> c.by, principal |-> server.owner[c.sid]]
             revision == [server.revision EXCEPT ![c.op] = server.revision[c.op] + 1]
             commits == server.commits \cup {k0}
  <2>3. Handled(c) = [server EXCEPT !.revision = revision, !.commits = commits]
    BY <1>1, <1>8 DEF Handled, ServerRows
  <2>4. revision \in [Ops -> Nat] /\ \A o \in Ops : server.revision[o] <= revision[o]
    BY <1>2
  <2>5. k0 \in CommitRows /\ k0.op = c.op /\ k0.key = c.key /\ k0.intent = c.intent
        /\ k0.by = c.by /\ k0.principal = c.by
    BY <1>2, <2>2 DEF CommitRows
  <2>6. commits \in SUBSET CommitRows
    BY <1>2, <2>5
  <2> HIDE DEF revision
  <2>7. /\ Handled(c) \in ServerRows
        /\ Handled(c).live = server.live /\ Handled(c).owner = server.owner
        /\ Handled(c).revision = revision
        /\ Handled(c).commits = commits
    <3> HIDE DEF commits, k0
    <3> QED BY <1>1, <2>3, <2>4, <2>6 DEF ServerRows
  <2>8. ~Hopeless(server, c.op, c.expected)
    <3>1. ~(server.revision[c.op] < server.revision[c.op])
      BY <1>2
    <3> QED BY <2>1, <3>1 DEF Hopeless
  <2> HIDE DEF k0
  <2>9. \A k \in commits : k \notin server.commits => k = k0
    OBVIOUS
  <2>10. k0 \in commits /\ server.commits \subseteq commits
    OBVIOUS
  <2> HIDE DEF commits
  <2>11. Advances(server, window, late, Handled(c))
    <3>1. \A k \in Handled(c).commits : k \notin server.commits =>
             /\ k.by = k.principal
             /\ \E a \in Asked(window, late) :
                   /\ k.op = a.op /\ k.key = a.key /\ k.intent = a.intent
                   /\ ~Hopeless(server, a.op, a.expected)
      BY <1>3, <2>5, <2>7, <2>8, <2>9
    <3> QED BY <2>4, <2>7, <2>10, <3>1 DEF Advances
  <2> QED BY <1>8, <2>5, <2>7, <2>9, <2>10, <2>11
<1> QED BY <1>5, <1>7, <1>8

\* A call goes on in another state, while the server may act on it.
LEMMA Replacing ==
    ASSUME NEW s, NEW w, NEW l, NEW u, CommandOk(s, w, l, u),
           NEW s1 \in ServerRows, s1.live = s.live, s1.owner = s.owner,
           Advances(s, w, l, s1),
           NEW c \in w.calls, NEW d \in CallRows, Same(c, d),
           NEW w1 \in WindowRows, Stays(w, w1), w1.calls = (w.calls \ {c}) \cup {d},
           w1.token = w.token, w1.principal = w.principal,
           w1.exchanging = w.exchanging, w1.inbox = w.inbox,
           NEW l1 \in SUBSET CallRows, l \subseteq l1, l1 \subseteq l \cup {c},
           l1 = l \/ d.answer = "Error",
           d.token \in DOMAIN s.owner, s.owner[d.token] = d.by,
           d.sameSession => d.by = w.principal,
           AnswerOk(s1, d), c.answer # "Error", c.answer = "Ok" => d.answer = "Ok",
           \A k \in s1.commits : k \notin s.commits =>
              k.op = c.op /\ (d.answer = "Error" \/ (d.answer = "Ok" /\ k.by = c.by)),
           NEW u1 \in UsedRows, u1.keys = u.keys, u1.submits = u.submits
    PROVE  CommandOk(s1, w1, l1, u1)
<1>1. /\ s \in ServerRows /\ w \in WindowRows /\ l \in SUBSET CallRows /\ u \in UsedRows
      /\ SessionsOk(s, w, l) /\ KeysOk(s, w, l, u.keys) /\ EntriesOk(s, w, l)
      /\ CallsOk(w, u.submits) /\ AnswersOk(s, w) /\ CertainOk(s, w, l)
      /\ ToldOk(s, w, l) /\ u.keys \in Nat /\ w.calls \in SUBSET CallRows
  BY InvParts
<1>2. w1.entry = w.entry /\ w1.saved = w.saved /\ w1.told = w.told /\ w1.seen = w.seen
  BY DEF Stays
<1>3. KeysOk(s1, w, l, u.keys) /\ EntriesOk(s1, w, l) /\ AnswersOk(s1, w) /\ ToldOk(s1, w, l)
  BY <1>1, Advancing
<1>4. \A e, f \in w.calls : e.n = f.n => e = f
  BY <1>1 DEF CallsOk
<1>5. Matched(w, w1)
  <2>1. \A e \in w1.calls : e = d \/ (e \in w.calls /\ e # c)
    OBVIOUS
  <2>2. \A e \in w1.calls : \E f \in w.calls : Same(f, e)
    BY <2>1 DEF Same
  <2>3. \A f \in w.calls : \E e \in w1.calls : Same(f, e)
    BY DEF Same
  <2>4. d.n = c.n
    BY DEF Same
  <2>5. \A e, f \in w1.calls : e.n = f.n => e = f
    BY <2>1, <2>4, <1>4
  <2> QED BY <2>2, <2>3, <2>5 DEF Matched
<1>6. CallsOk(w1, u1.submits)
  BY <1>1, <1>2, <1>5, CallsMatched
<1>7. Asked(w1, l1) \subseteq Asked(w, l)
  BY <1>5, MatchedAsk
<1>8. KeysOk(s1, w1, l1, u1.keys) /\ EntriesOk(s1, w1, l1) /\ ToldOk(s1, w1, l1)
  <2>1. \A o \in Ops : w1.seen[o] <= s1.revision[o]
    BY <1>2, <1>3 DEF KeysOk
  <2> QED BY <1>2, <1>3, <1>7, <2>1, Standing
<1>9. AnswersOk(s1, w1)
  BY <1>3 DEF AnswersOk
<1>10. CertainOk(s1, w1, l1)
  <2> SUFFICES ASSUME NEW o \in Ops PROVE CertainAt(s1, w1, l1, o)
    BY DEF CertainOk
  <2>1. CertainAt(s, w, l, o)
    BY <1>1 DEF CertainOk
  <2>2. d \in w1.calls /\ d.op = c.op /\ d.by = c.by
    BY DEF Same
  <2>3. Uncertain(w, o) => Uncertain(w1, o)
    BY <1>2 DEF Uncertain, CallsOf
  <2>4. \A k : Acknowledged(w, k) => Acknowledged(w1, k)
    BY <1>2, <2>2 DEF Acknowledged, CallsOf
  <2>5. CASE o = c.op /\ d.answer = "Error"
    <3>1. Uncertain(w1, o)
      BY <2>2, <2>5 DEF Uncertain, CallsOf
    <3> QED BY <3>1 DEF CertainAt
  <2>6. CASE ~(o = c.op /\ d.answer = "Error")
    <3>1. \A q \in l1 : q.op = o => q \in l
      BY <2>6
    <3>2. \A k \in s1.commits : k.op = o => k \in s.commits \/ Acknowledged(w1, k)
      BY <2>2, <2>6 DEF Acknowledged, CallsOf
    <3> QED BY <2>1, <2>3, <2>4, <3>1, <3>2, <1>2 DEF CertainAt
  <2> QED BY <2>5, <2>6
<1>11. SessionsOk(s1, w1, l1)
  <2>1. \A q \in Requests(w1, l1) : q.token \in DOMAIN s1.owner /\ s1.owner[q.token] = q.by
    <3>1. \A q \in Requests(w1, l1) : q \in Requests(w, l) \/ q = d
      BY DEF Requests
    <3> QED BY <3>1, <1>1 DEF SessionsOk
  <2>2. \A e \in w1.calls : e.sameSession => e.by = w1.principal
    BY <1>1 DEF SessionsOk
  <2> QED BY <1>1, <2>1, <2>2 DEF SessionsOk
<1>12. Typed(s1, w1, l1, u1)
  BY DEF Typed
<1> QED BY <1>6, <1>8, <1>9, <1>10, <1>11, <1>12 DEF CommandOk

\* What a window keeps besides its calls.
LEMMA BecomesIs ==
    ASSUME window \in WindowRows, NEW c \in window.calls, NEW d \in CallRows,
           Becomes(Without(c), d)
    PROVE  /\ window' \in WindowRows /\ Stays(window, window')
           /\ window'.calls = (window.calls \ {c}) \cup {d}
           /\ window'.token = window.token /\ window'.principal = window.principal
           /\ window'.exchanging = window.exchanging /\ window'.inbox = window.inbox
<1> DEFINE calls == (window.calls \ {c}) \cup {d}
<1>1. window' = [window EXCEPT !.calls = calls]
  BY DEF Becomes, Without, WindowRows
<1>2. calls \in SUBSET CallRows
  BY RowFields
<1> HIDE DEF calls
<1>3. /\ window' \in WindowRows /\ Stays(window, window') /\ window'.calls = calls
      /\ window'.token = window.token /\ window'.principal = window.principal
      /\ window'.exchanging = window.exchanging /\ window'.inbox = window.inbox
  BY <1>1, <1>2 DEF WindowRows, Stays
<1> QED BY <1>3 DEF calls

LEMMA CallParts ==
    ASSUME CommandInv, NEW c \in window.calls
    PROVE  /\ c \in CallRows /\ c \in Requests(window, late)
           /\ c.token \in DOMAIN server.owner /\ server.owner[c.token] = c.by
           /\ c.sameSession => c.by = window.principal
           /\ AnswerOk(server, c)
           /\ server \in ServerRows /\ window \in WindowRows
           /\ late \in SUBSET CallRows /\ used \in UsedRows
           /\ CommandOk(server, window, late, used)
BY InvParts, RowFields DEF CommandInv, Requests, SessionsOk, AnswersOk

LEMMA ArriveKeeps ==
    ASSUME CommandInv, NEW c \in window.calls, Arrive(c) PROVE CommandInv'
<1>1. /\ c \in CallRows /\ c \in Requests(window, late)
      /\ c.token \in DOMAIN server.owner /\ server.owner[c.token] = c.by
      /\ c.sameSession => c.by = window.principal
      /\ server \in ServerRows /\ window \in WindowRows
      /\ late \in SUBSET CallRows /\ used \in UsedRows
      /\ CommandOk(server, window, late, used)
  BY CallParts
<1>2. /\ Handled(c) \in ServerRows
      /\ Handled(c).live = server.live /\ Handled(c).owner = server.owner
      /\ Advances(server, window, late, Handled(c))
      /\ \A k \in Handled(c).commits : k \notin server.commits =>
            k.op = c.op /\ k.intent = c.intent /\ k.key = c.key /\ k.by = c.by
      /\ Outcome(c) \in {"401", "403", "Ok", "Forbidden", "Stale", "Commit"}
      /\ Outcome(c) \in {"Ok", "Commit"} =>
            \E k \in Handled(c).commits : k.key = c.key /\ k.by = c.by
      /\ Outcome(c) = "Stale" =>
            /\ c.op \notin Posts /\ c.expected < Handled(c).revision[c.op]
            /\ \A k \in Handled(c).commits : ~(k.key = c.key /\ k.by = c.by)
  BY <1>1, HandledIs
<1>3. PICK answer : answer = IF Outcome(c) = "Commit" THEN "Ok" ELSE Outcome(c)
  OBVIOUS
<1>4. answer \in {"401", "403", "Ok", "Forbidden", "Stale"}
  BY <1>2, <1>3
<1>5. PICK d : d = [c EXCEPT !.answer = answer]
  OBVIOUS
<1>6. /\ server' = Handled(c) /\ Becomes(Without(c), d) /\ late' = late /\ used' = used
      /\ c.state = "Sent" /\ c.answer = "None"
  BY <1>3, <1>5 DEF Arrive, Waiting
<1>7. /\ d \in CallRows /\ Same(c, d) /\ d.answer = answer /\ d.state = c.state
      /\ d.token = c.token /\ d.sameSession = c.sameSession /\ d.by = c.by
      /\ d.key = c.key /\ d.op = c.op /\ d.expected = c.expected
  BY <1>1, <1>4, <1>5 DEF CallRows, Same
<1>8. AnswerOk(Handled(c), d)
  <2>1. CASE answer = "Ok"
    <3>1. Outcome(c) \in {"Ok", "Commit"}
      BY <1>2, <1>3, <2>1
    <3>2. \E k \in Handled(c).commits : k.key = d.key /\ k.by = d.by
      BY <3>1, <1>2, <1>7
    <3> QED BY <3>2, <2>1, <1>6, <1>7 DEF AnswerOk
  <2>2. CASE answer = "Stale"
    <3>1. Outcome(c) = "Stale"
      BY <1>2, <1>3, <2>2
    <3>2. /\ d.op \notin Posts /\ d.expected < Handled(c).revision[d.op]
          /\ \A k \in Handled(c).commits : ~(k.key = d.key /\ k.by = d.by)
      BY <3>1, <1>2, <1>7
    <3> QED BY <3>2, <2>2, <1>6, <1>7 DEF AnswerOk
  <2>3. CASE answer \in {"401", "403", "Forbidden"}
    BY <2>3, <1>6, <1>7 DEF AnswerOk
  <2> QED BY <2>1, <2>2, <2>3, <1>4
<1>9. /\ window' \in WindowRows /\ Stays(window, window')
      /\ window'.calls = (window.calls \ {c}) \cup {d}
      /\ window'.token = window.token /\ window'.principal = window.principal
      /\ window'.exchanging = window.exchanging /\ window'.inbox = window.inbox
  BY <1>1, <1>6, <1>7, BecomesIs
<1>10. \A k \in Handled(c).commits : k \notin server.commits =>
          k.op = c.op /\ d.answer = "Ok" /\ k.by = c.by
  <2>1. Outcome(c) # "Commit" => Handled(c) = server
    BY DEF Handled
  <2>2. Outcome(c) = "Commit" => d.answer = "Ok"
    BY <1>3, <1>7
  <2> QED BY <2>1, <2>2, <1>2
<1>11. CommandOk(Handled(c), window', late, used)
  BY <1>1, <1>2, <1>6, <1>7, <1>8, <1>9, <1>10, Replacing
<1> QED BY <1>6, <1>11 DEF CommandInv

LEMMA FailsKeeps ==
    ASSUME CommandInv, NEW c \in window.calls, Fails(c) PROVE CommandInv'
<1>1. /\ c \in CallRows /\ c \in Requests(window, late)
      /\ c.token \in DOMAIN server.owner /\ server.owner[c.token] = c.by
      /\ c.sameSession => c.by = window.principal
      /\ server \in ServerRows /\ window \in WindowRows
      /\ late \in SUBSET CallRows /\ used \in UsedRows
      /\ CommandOk(server, window, late, used)
  BY CallParts
<1>2. PICK d : d = [c EXCEPT !.answer = "Error"]
  OBVIOUS
<1>3. /\ Becomes(Without(c), d) /\ Uses("faults", MaxFaults)
      /\ c.state = "Sent" /\ c.answer = "None"
      /\ server' = server \/ server' = Handled(c)
      /\ late' = late \/ late' = late \cup {c}
  BY <1>2 DEF Fails, Waiting
<1>4. /\ d \in CallRows /\ Same(c, d) /\ d.answer = "Error" /\ d.state = "Sent"
      /\ d.token = c.token /\ d.sameSession = c.sameSession /\ d.by = c.by
  BY <1>1, <1>2, <1>3 DEF CallRows, Same
<1>5. AnswerOk(server', d)
  BY <1>4 DEF AnswerOk
<1>6. /\ server' \in ServerRows /\ server'.live = server.live /\ server'.owner = server.owner
      /\ Advances(server, window, late, server')
      /\ \A k \in server'.commits : k \notin server.commits => k.op = c.op
  <2>1. CASE server' = server
    BY <2>1, <1>1, AdvancesNot
  <2>2. CASE server' = Handled(c)
    BY <2>2, <1>1, HandledIs
  <2> QED BY <2>1, <2>2, <1>3
<1>7. /\ window' \in WindowRows /\ Stays(window, window')
      /\ window'.calls = (window.calls \ {c}) \cup {d}
      /\ window'.token = window.token /\ window'.principal = window.principal
      /\ window'.exchanging = window.exchanging /\ window'.inbox = window.inbox
  BY <1>1, <1>3, <1>4, BecomesIs
<1>8. used' \in UsedRows /\ used'.keys = used.keys /\ used'.submits = used.submits
  BY <1>1, <1>3, UsesIs
<1>9. late' \in SUBSET CallRows /\ late \subseteq late' /\ late' \subseteq late \cup {c}
  BY <1>1, <1>3
<1>10. CommandOk(server', window', late', used')
  BY <1>1, <1>3, <1>4, <1>5, <1>6, <1>7, <1>8, <1>9, Replacing
<1> QED BY <1>10 DEF CommandInv

\* A call goes on: in another state, or tried once more.
LEMMA GoesOn ==
    ASSUME CommandInv, NEW c \in window.calls, NEW d \in CallRows, Same(c, d),
           Becomes(Without(c), d), UNCHANGED <<server, late, used>>,
           d.token \in DOMAIN server.owner, server.owner[d.token] = d.by,
           d.sameSession => d.by = window.principal,
           AnswerOk(server, d), c.answer # "Error", c.answer = "Ok" => d.answer = "Ok"
    PROVE  CommandInv'
<1>1. /\ server \in ServerRows /\ window \in WindowRows
      /\ late \in SUBSET CallRows /\ used \in UsedRows
      /\ CommandOk(server, window, late, used)
  BY CallParts
<1>2. /\ window' \in WindowRows /\ Stays(window, window')
      /\ window'.calls = (window.calls \ {c}) \cup {d}
      /\ window'.token = window.token /\ window'.principal = window.principal
      /\ window'.exchanging = window.exchanging /\ window'.inbox = window.inbox
  BY <1>1, BecomesIs
<1>3. Advances(server, window, late, server)
  BY <1>1, AdvancesNot
<1>4. CommandOk(server, window', late, used)
  BY <1>1, <1>2, <1>3, Replacing
<1> QED BY <1>4 DEF CommandInv

\* #sendCommand once more, with the token the window has now.
LEMMA SentAgain ==
    ASSUME CommandInv, NEW c \in window.calls, NEW attempt \in {2, 3},
           Becomes(Without(c), [Sent(c) EXCEPT !.attempt = attempt]),
           UNCHANGED <<server, late, used>>,
           window.token # None, window.principal = c.by,
           c.answer # "Error", c.answer # "Ok"
    PROVE  CommandInv'
<1>1. /\ c \in CallRows /\ server \in ServerRows /\ window \in WindowRows
      /\ SessionsOk(server, window, late)
  BY CallParts, InvParts DEF CommandInv
<1>2. PICK d : d = [Sent(c) EXCEPT !.attempt = attempt]
  OBVIOUS
<1>3. server.cookie \in Nat /\ window.token \in Nat
  BY <1>1 DEF ServerRows, WindowRows
<1>4. /\ d \in CallRows /\ Same(c, d) /\ d.token = window.token /\ d.by = c.by
      /\ d.answer = "None" /\ d.state = "Sent"
  BY <1>1, <1>2, <1>3 DEF CallRows, Same, Sent
<1>5. window.token \in DOMAIN server.owner /\ server.owner[window.token] = c.by
  BY <1>1 DEF SessionsOk
<1>6. AnswerOk(server, d)
  BY <1>4 DEF AnswerOk
<1> QED BY <1>2, <1>4, <1>5, <1>6, GoesOn

LEMMA ArrivesLateKeeps ==
    ASSUME CommandInv, NEW c \in late, ArrivesLate(c) PROVE CommandInv'
<1>1. /\ server \in ServerRows /\ window \in WindowRows /\ late \in SUBSET CallRows
      /\ used \in UsedRows /\ used.keys \in Nat
      /\ SessionsOk(server, window, late) /\ KeysOk(server, window, late, used.keys)
      /\ EntriesOk(server, window, late) /\ CallsOk(window, used.submits)
      /\ AnswersOk(server, window) /\ CertainOk(server, window, late)
      /\ ToldOk(server, window, late)
  BY InvParts DEF CommandInv
<1>2. c \in Requests(window, late)
  BY DEF Requests
<1>3. /\ server' = Handled(c) /\ late' = late \ {c} /\ window' = window /\ used' = used
  BY DEF ArrivesLate
<1>4. /\ server' \in ServerRows
      /\ server'.live = server.live /\ server'.owner = server.owner
      /\ Advances(server, window, late, server')
      /\ \A k \in server'.commits : k \notin server.commits =>
            k.op = c.op /\ k.intent = c.intent
  BY <1>2, <1>3, HandledIs
<1>5. /\ KeysOk(server', window, late, used.keys) /\ EntriesOk(server', window, late)
      /\ AnswersOk(server', window) /\ ToldOk(server', window, late)
  BY <1>1, <1>4, Advancing
<1>6. Asked(window, late') \subseteq Asked(window, late)
  BY <1>3 DEF Asked, Requests
<1>7. /\ KeysOk(server', window, late', used.keys) /\ EntriesOk(server', window, late')
      /\ ToldOk(server', window, late')
  <2>1. \A o \in Ops : window.seen[o] <= server'.revision[o]
    BY <1>5 DEF KeysOk
  <2> QED BY <1>5, <1>6, <2>1, Standing
<1>8. CertainOk(server', window, late')
  <2> SUFFICES ASSUME NEW o \in Ops PROVE CertainAt(server', window, late', o)
    BY DEF CertainOk
  <2>1. CertainAt(server, window, late, o)
    BY <1>1 DEF CertainOk
  <2> QED BY <2>1, <1>3, <1>4 DEF CertainAt
<1>9. SessionsOk(server', window, late')
  <2>1. Requests(window, late') \subseteq Requests(window, late)
    BY <1>3 DEF Requests
  <2> QED BY <2>1, <1>1, <1>4 DEF SessionsOk
<1>10. Typed(server', window, late', used)
  BY <1>1, <1>3, <1>4 DEF Typed
<1>11. CommandOk(server', window, late', used)
  BY <1>1, <1>5, <1>7, <1>8, <1>9, <1>10 DEF CommandOk
<1> QED BY <1>3, <1>11 DEF CommandInv

LEMMA MovesKeeps ==
    ASSUME CommandInv, NEW op \in Ops, Moves(op) PROVE CommandInv'
<1>1. /\ server \in ServerRows /\ window \in WindowRows /\ late \in SUBSET CallRows
      /\ used \in UsedRows /\ used.keys \in Nat
      /\ SessionsOk(server, window, late) /\ KeysOk(server, window, late, used.keys)
      /\ EntriesOk(server, window, late) /\ CallsOk(window, used.submits)
      /\ AnswersOk(server, window) /\ CertainOk(server, window, late)
      /\ ToldOk(server, window, late)
  BY InvParts DEF CommandInv
<1> DEFINE revision == [server.revision EXCEPT ![op] = server.revision[op] + 1]
<1>2. /\ server' = [server EXCEPT !.revision = revision] /\ window' = window /\ late' = late
      /\ Uses("moves", MaxMoves)
  BY <1>1 DEF Moves, ServerRows
<1>3. revision \in [Ops -> Nat] /\ \A o \in Ops : server.revision[o] <= revision[o]
  BY <1>1, RowFields
<1> HIDE DEF revision
<1>4. /\ server' \in ServerRows /\ server'.revision = revision
      /\ server'.live = server.live /\ server'.owner = server.owner
      /\ server'.commits = server.commits
  BY <1>1, <1>2, <1>3 DEF ServerRows
<1>5. Advances(server, window, late, server')
  BY <1>3, <1>4 DEF Advances
<1>6. /\ KeysOk(server', window, late, used.keys) /\ EntriesOk(server', window, late)
      /\ AnswersOk(server', window) /\ ToldOk(server', window, late)
  BY <1>1, <1>4, <1>5, Advancing
<1>7. CertainOk(server', window, late)
  BY <1>1, <1>4 DEF CertainOk, CertainAt
<1>8. SessionsOk(server', window, late)
  BY <1>1, <1>4 DEF SessionsOk
<1>9. used' \in UsedRows /\ used'.keys = used.keys /\ used'.submits = used.submits
  BY <1>1, <1>2, UsesIs
<1>10. CommandOk(server', window, late, used')
  BY <1>1, <1>4, <1>6, <1>7, <1>8, <1>9 DEF CommandOk, Typed
<1> QED BY <1>2, <1>10 DEF CommandInv

LEMMA PermitsKeeps ==
    ASSUME CommandInv, NEW op \in Ops, Permits(op) PROVE CommandInv'
<1>1. /\ server \in ServerRows /\ window \in WindowRows /\ SessionsOk(server, window, late)
      /\ used \in UsedRows /\ server.live \subseteq DOMAIN server.owner
  BY InvParts DEF CommandInv, SessionsOk
<1>2. PICK b \in BOOLEAN : b = ~server.permits[op]
  OBVIOUS
<1>3. PICK permits : permits = [server.permits EXCEPT ![op] = b]
  OBVIOUS
<1>4. permits \in [Ops -> BOOLEAN]
  BY <1>1, <1>3, RowFields
<1>5. /\ server' = [server EXCEPT !.permits = permits] /\ window' = window /\ late' = late
      /\ Uses("moves", MaxMoves)
  BY <1>1, <1>2, <1>3 DEF Permits, ServerRows
<1>6. /\ server' \in ServerRows /\ server'.revision = server.revision
      /\ server'.live = server.live /\ server'.owner = server.owner
      /\ server'.commits = server.commits
  BY <1>1, <1>4, <1>5 DEF ServerRows
<1>7. Owners(server, server')
  BY <1>1, <1>6, OwnersStay DEF Owners
<1>8. /\ window.exchanging \subseteq DOMAIN server'.owner
      /\ \A i \in DOMAIN window.inbox : window.inbox[i] \in {None} \cup DOMAIN server'.owner
  BY <1>1, <1>7, OwnersKept
<1>9. used' \in UsedRows /\ used'.keys = used.keys /\ used'.submits = used.submits
  BY <1>1, <1>5, UsesIs
<1>10. Stays(window, window)
  BY DEF Stays
<1>11. CommandOk(server', window, late, used')
  BY <1>1, <1>6, <1>7, <1>8, <1>9, <1>10, SessionsHeard DEF CommandInv
<1> QED BY <1>5, <1>11 DEF CommandInv

LEMMA SaveFailsKeeps ==
    ASSUME CommandInv, NEW op \in Ops, SaveFails(op) PROVE CommandInv'
<1>1. /\ server \in ServerRows /\ window \in WindowRows /\ SessionsOk(server, window, late)
      /\ used \in UsedRows /\ server.live \subseteq DOMAIN server.owner
  BY InvParts DEF CommandInv, SessionsOk
<1>2. /\ window' = [window EXCEPT !.broken = TRUE] /\ server' = server /\ late' = late
      /\ Uses("faults", MaxFaults)
  BY DEF SaveFails
<1>3. Owners(server, server)
  BY <1>1, OwnersStay
<1>4. /\ window.exchanging \subseteq DOMAIN server.owner
      /\ \A i \in DOMAIN window.inbox : window.inbox[i] \in {None} \cup DOMAIN server.owner
  BY <1>1, <1>3, OwnersKept
<1>5. /\ window' \in WindowRows /\ Stays(window, window') /\ window'.calls = window.calls
      /\ window'.token = window.token /\ window'.principal = window.principal
      /\ window'.exchanging = window.exchanging /\ window'.inbox = window.inbox
  BY <1>1, <1>2 DEF WindowRows, Stays
<1>6. used' \in UsedRows /\ used'.keys = used.keys /\ used'.submits = used.submits
  BY <1>1, <1>2, UsesIs
<1>7. CommandOk(server, window', late, used')
  BY <1>1, <1>3, <1>4, <1>5, <1>6, SessionsHeard DEF CommandInv
<1> QED BY <1>2, <1>7 DEF CommandInv

-----------------------------------------------------------------------------
(* The end of a call *)

\* Window w is this one without call c, and perhaps with a newer view.
Over(w, c) ==
    /\ w \in WindowRows /\ w.calls = window.calls \ {c}
    /\ w.entry = window.entry /\ w.saved = window.saved /\ w.told = window.told
    /\ w.token = window.token /\ w.principal = window.principal
    /\ w.exchanging = window.exchanging /\ w.inbox = window.inbox
    /\ \A o \in Ops : w.seen[o] <= server.revision[o]

\* The entry of the call goes on, with its key.
LEMMA OverGoesOn ==
    ASSUME CommandInv, NEW c \in window.calls, NEW w, Over(w, c),
           NEW e \in EntryRows, NEW w1 \in WindowRows, Puts(w, w1, c.op, e),
           w1.calls = w.calls, w1.token = w.token, w1.principal = w.principal,
           w1.exchanging = w.exchanging, w1.inbox = w.inbox, w1.seen = w.seen,
           e.key = w.entry[c.op].key, e.intent = w.entry[c.op].intent,
           e.expected = w.entry[c.op].expected,
           w.entry[c.op].uncertain => e.uncertain,
           c.answer = "Error" => e.uncertain,
           c.op \in Pending => e.active = w.entry[c.op].active - 1,
           c.op \in RunOps => e.status # "submitting",
           NEW done \in BOOLEAN, done => c.op \in Pending,
           w1.told = w.told \cup
              (IF done
               THEN {[op |-> c.op, intent |-> c.intent, by |-> c.by, how |-> "done"]}
               ELSE {}),
           c.answer = "Ok" => done
    PROVE  CommandOk(server, w1, late, used)
<1>1. /\ server \in ServerRows /\ window \in WindowRows /\ late \in SUBSET CallRows
      /\ used \in UsedRows /\ used.keys \in Nat /\ used.submits \in Nat
      /\ SessionsOk(server, window, late) /\ KeysOk(server, window, late, used.keys)
      /\ EntriesOk(server, window, late) /\ CallsOk(window, used.submits)
      /\ AnswersOk(server, window) /\ CertainOk(server, window, late)
      /\ ToldOk(server, window, late)
  BY InvParts DEF CommandInv
<1>2. /\ w.entry = window.entry /\ w.saved = window.saved /\ w.told = window.told
      /\ w1.calls = window.calls \ {c}
      /\ \A o \in Ops : w1.seen[o] <= server.revision[o]
  BY DEF Over
<1>3. /\ c.op \in Ops /\ c.intent = e.intent /\ c.key = e.key
      /\ c.key \in 1..used.keys
  <2>1. c \in Requests(window, late)
    BY DEF Requests
  <2>2. Claim(c.op, c) \in Named(server, window, late) /\ Claim(c.op, c).key = c.key
    BY <2>1, RequestIsAsked DEF Named
  <2> QED BY <2>2, <1>1, <1>2, RowFields DEF KeysOk, CallsOk
<1>4. e.key # None
  BY <1>1, <1>3 DEF None
<1>5. Puts(window, w1, c.op, e)
  BY <1>2 DEF Puts
<1> DEFINE t0 == [op |-> c.op, intent |-> c.intent, by |-> c.by, how |-> "done"]
<1>6. /\ w1.told = window.told \cup (IF done THEN {t0} ELSE {})
      /\ t0.op = c.op /\ t0.intent = c.intent /\ t0.by = c.by /\ t0.how = "done"
  BY <1>2
<1> HIDE DEF t0
<1>7. /\ window.told \subseteq w1.told
      /\ \A t \in w1.told : \/ t \in window.told
                            \/ /\ t.how = "done" /\ t.op = c.op /\ c.op \notin RunOps
                               /\ t.intent = e.intent /\ e.key # None
  <2>1. window.told \subseteq w1.told
    BY <1>6
  <2>2. ASSUME NEW t \in w1.told, t \notin window.told
        PROVE  /\ t.how = "done" /\ t.op = c.op /\ c.op \notin RunOps
               /\ t.intent = e.intent /\ e.key # None
    <3>1. t = t0 /\ done
      BY <2>2, <1>6
    <3> QED BY <3>1, <1>3, <1>4, <1>6, OpKinds
  <2> QED BY <2>1, <2>2
<1>8. Asked(w1, late) \subseteq Asked(window, late)
  BY <1>2 DEF Asked, Requests
<1>9. /\ KeysOk(server, w1, late, used.keys) /\ EntriesOk(server, w1, late)
      /\ ToldOk(server, w1, late)
  <2>1. /\ e.key = window.entry[c.op].key /\ e.intent = window.entry[c.op].intent
        /\ e.expected = window.entry[c.op].expected
    BY <1>2
  <2>2. e.uncertain => e.key # None
    BY <1>4
  <2>3. \A a \in Asked(w1, late) :
           a \in Asked(window, late) \/ (e.key # None /\ a = Claim(c.op, e))
    BY <1>8
  <2>4. \A o \in Ops : w1.seen[o] <= server.revision[o]
    BY <1>2
  <2>5. server \in ServerRows /\ window \in WindowRows /\ used.keys \in Nat
        /\ w1 \in WindowRows /\ c.op \in Ops /\ e \in EntryRows
        /\ KeysOk(server, window, late, used.keys) /\ EntriesOk(server, window, late)
        /\ ToldOk(server, window, late)
    BY <1>1, <1>3
  <2> QED BY ONLY <1>5, <1>7, <2>1, <2>2, <2>3, <2>4, <2>5, Keeping
<1>10. CallsOk(w1, used.submits)
  <2>1. /\ w1.entry = [window.entry EXCEPT ![c.op] = e]
        /\ e.key = window.entry[c.op].key /\ e.intent = window.entry[c.op].intent
        /\ e.expected = window.entry[c.op].expected
        /\ c.op \in Pending => e.active = window.entry[c.op].active - 1
    BY <1>2, <1>5 DEF Puts
  <2> QED BY <1>1, <1>2, <2>1, CallRemoved
<1>11. AnswersOk(server, w1)
  BY <1>1, <1>2 DEF AnswersOk
<1>12. CertainOk(server, w1, late)
  <2> SUFFICES ASSUME NEW o \in Ops PROVE CertainAt(server, w1, late, o)
    BY DEF CertainOk
  <2>1. CertainAt(server, window, late, o)
    BY <1>1 DEF CertainOk
  <2>2. /\ w1.entry[o].key = window.entry[o].key
        /\ w1.entry[o].intent = window.entry[o].intent
        /\ window.entry[o].uncertain => w1.entry[o].uncertain
        /\ o = c.op => w1.entry[o] = e
    BY <1>1, <1>2, <1>5, OpKinds, RowFields DEF Puts
  <2>3. Uncertain(window, o) => Uncertain(w1, o)
    BY <1>2, <2>2 DEF Uncertain, CallsOf
  <2>4. ASSUME NEW k, k.op = o, k.intent = window.entry[o].intent, Acknowledged(window, k)
        PROVE  Acknowledged(w1, k)
    <3>1. CASE \E t \in window.told :
                  t.op = k.op /\ t.intent = k.intent /\ t.by = k.by /\ t.how = "done"
      BY <3>1, <1>6 DEF Acknowledged
    <3>2. CASE \E d \in CallsOf(window, k.op) : d.answer = "Ok" /\ d.by = k.by
      <4>1. PICK d \in window.calls : d.op = k.op /\ d.answer = "Ok" /\ d.by = k.by
        BY <3>2 DEF CallsOf
      <4>2. CASE d = c
        <5>1. done /\ k.intent = c.intent
          BY <4>1, <4>2, <2>4, <1>1 DEF CallsOk
        <5>2. t0 \in w1.told
          BY <5>1, <1>6
        <5> QED BY <4>1, <4>2, <5>1, <5>2, <1>6 DEF Acknowledged
      <4>3. CASE d # c
        BY <4>1, <4>3, <1>2 DEF Acknowledged, CallsOf
      <4> QED BY <4>2, <4>3
    <3> QED BY <3>1, <3>2, <2>4 DEF Acknowledged
  <2> QED BY <2>1, <2>2, <2>3, <2>4 DEF CertainAt
<1>13. SessionsOk(server, w1, late)
  <2>1. Requests(w1, late) \subseteq Requests(window, late) /\ w1.calls \subseteq window.calls
    BY <1>2 DEF Requests
  <2>2. /\ w1.token = window.token /\ w1.principal = window.principal
        /\ w1.exchanging = window.exchanging /\ w1.inbox = window.inbox
    BY DEF Over
  <2> QED BY <1>1, <2>1, <2>2 DEF SessionsOk
<1> QED BY <1>1, <1>9, <1>10, <1>11, <1>12, <1>13 DEF CommandOk, Typed

\* The keys of what is named are keys.
LEMMA NamedKeys ==
    ASSUME NEW s, NEW w, NEW l, NEW n \in Nat, KeysOk(s, w, l, n), NEW a \in Named(s, w, l)
    PROVE  a.key \in Nat /\ a.key # None
<1>1. a.key \in 1..n
  BY DEF KeysOk
<1>2. \A k \in 1..n : k \in Nat /\ k # 0
  OBVIOUS
<1> QED BY ONLY <1>1, <1>2 DEF None

LEMMA DoneOf ==
    ASSUME NEW t \in ToldRows, NEW t1 \in ToldRows, t1.op = t.op, t1.intent = t.intent,
           t1.by = t.by, t1.how = "done"
    PROVE  t1 = [t EXCEPT !.how = "done"]
BY DEF ToldRows

\* What window w may say of the intention of call c, now that c is over: what the
\* last answer says, or what any refusal says when nothing else is known of the
\* intention and nothing of it stays behind.
Says(w, c, how) ==
    \/ how = "done" /\ c.answer = "Ok"
    \/ how = "refused"
    \/ how = "not done" /\ c.answer = "Stale"
    \/ /\ how = "not done" /\ c.answer \in {"Forbidden"} \cup Authentication
       /\ ~window.entry[c.op].uncertain
       /\ c.op \in Controls => ~w.broken

\* Window w1 is w where the intention of call c is over, told as how, and entry e
\* stands for the next one.
EndedAs(w, w1, c, e, how) ==
    /\ Puts(w, w1, c.op, e)
    /\ w1.calls = w.calls /\ w1.token = w.token /\ w1.principal = w.principal
    /\ w1.exchanging = w.exchanging /\ w1.inbox = w.inbox /\ w1.seen = w.seen
    /\ e.key = None /\ ~e.uncertain /\ e.intent = w.entry[c.op].intent + 1
    /\ e.active = 0 /\ e.status # "submitting"
    /\ c.op \in Pending => e.active = w.entry[c.op].active - 1
    /\ c.op \in Controls /\ ~w.broken => w1.saved = [w.saved EXCEPT ![c.op] = Kept(e)]
    /\ w1.told = w.told \cup
          {[op |-> c.op, intent |-> c.intent, by |-> c.by, how |-> how]}

\* The intention of the call is over.
LEMMA OverEnds ==
    ASSUME CommandInv, NEW c \in window.calls, NEW w, Over(w, c),
           NEW e \in EntryRows, NEW w1 \in WindowRows,
           NEW how \in {"done", "not done", "refused"}, Says(w, c, how),
           EndedAs(w, w1, c, e, how)
    PROVE  CommandOk(server, w1, late, used)
<1> USE DEF EndedAs
<1>1. /\ server \in ServerRows /\ window \in WindowRows /\ late \in SUBSET CallRows
      /\ used \in UsedRows /\ used.keys \in Nat /\ used.submits \in Nat
      /\ SessionsOk(server, window, late) /\ KeysOk(server, window, late, used.keys)
      /\ EntriesOk(server, window, late) /\ CallsOk(window, used.submits)
      /\ AnswersOk(server, window) /\ CertainOk(server, window, late)
      /\ ToldOk(server, window, late)
  BY InvParts DEF CommandInv
<1>2. /\ w.entry = window.entry /\ w.saved = window.saved /\ w.told = window.told
      /\ w1.calls = window.calls \ {c}
      /\ \A o \in Ops : w1.seen[o] <= server.revision[o]
  BY DEF Over
<1>3. /\ c.op \in Ops /\ c.intent = window.entry[c.op].intent
      /\ c.key = window.entry[c.op].key /\ c \in Requests(window, late)
  BY <1>1, RowFields DEF CallsOk, Requests
<1>4. PICK a0 \in Asked(window, late) :
         /\ a0 \in Claims(window, late) /\ a0.op = c.op /\ a0.key = c.key
         /\ a0.intent = c.intent /\ a0.expected = c.expected
  <2>1. c \in Requests(window, late)
    BY <1>3
  <2> QED BY ONLY <2>1, RequestIsAsked
<1>5. Puts(window, w1, c.op, e) /\ e.intent = window.entry[c.op].intent + 1
  BY <1>2 DEF Puts
<1>6. AnswerOk(server, c)
  BY <1>1 DEF AnswersOk
<1>7. a0 \in Named(server, window, late) /\ server.commits \subseteq Named(server, window, late)
  BY AskedAreClaims
<1>k. c.key \in Nat /\ c.key # None
  BY <1>1, <1>4, <1>7, NamedKeys
<1>n. /\ \A a, b \in Named(server, window, late) :
            a.key = b.key <=> (a.op = b.op /\ a.intent = b.intent)
      /\ \A a, b \in Claims(window, late) : a.key = b.key => a.expected = b.expected
  BY <1>1 DEF KeysOk
<1>8. \A k \in server.commits : k.op = c.op /\ k.intent = c.intent => k.key = c.key
  BY <1>4, <1>7, <1>n
<1>9. \A a \in Asked(window, late) : a.op = c.op /\ a.intent = c.intent =>
         a.expected = c.expected
  <2> SUFFICES ASSUME NEW a \in Asked(window, late), a.op = c.op, a.intent = c.intent
               PROVE  a.expected = c.expected
    OBVIOUS
  <2>1. a \in Claims(window, late) /\ a \in Named(server, window, late)
    BY AskedAreClaims
  <2>2. a.key = a0.key
    BY <2>1, <1>4, <1>7, <1>n
  <2> QED BY <2>1, <2>2, <1>4, <1>n
<1> DEFINE t0 == [op |-> c.op, intent |-> c.intent, by |-> c.by, how |-> how]
<1>10. /\ w1.told = window.told \cup {t0}
       /\ t0.op = c.op /\ t0.intent = c.intent /\ t0.by = c.by /\ t0.how = how
       /\ t0 \in ToldRows
  <2>1. w1.told = window.told \cup {t0}
    BY <1>2
  <2>2. t0 \in ToldRows
    <3>1. c \in CallRows
      BY <1>1, RowFields
    <3>2. c.op \in Ops /\ c.intent \in Nat /\ c.by \in Principals
      BY <3>1, RowFields
    <3> QED BY ONLY <3>2, how \in {"done", "not done", "refused"} DEF ToldRows
  <2>3. t0.op = c.op /\ t0.intent = c.intent /\ t0.by = c.by /\ t0.how = how
    BY ONLY TRUE
  <2> QED BY <2>1, <2>2, <2>3
<1> HIDE DEF t0
<1>11. Asked(w1, late) \subseteq Asked(window, late)
  BY <1>2 DEF Asked, Requests
<1>12. how = "done" => \E k \in server.commits : k.op = c.op /\ k.intent = c.intent
  <2> SUFFICES ASSUME how = "done"
               PROVE  \E k \in server.commits : k.op = c.op /\ k.intent = c.intent
    OBVIOUS
  <2>1. PICK k \in server.commits : k.key = c.key
    BY <1>6 DEF Says, AnswerOk
  <2> QED BY <2>1, <1>4, <1>7, <1>n
<1>13. c.answer = "Stale" => Hopeless(server, c.op, c.expected)
  BY <1>6 DEF AnswerOk, Hopeless
<1>14. \/ how = "not done" /\ c.op \in Controls => Hopeless(server, c.op, a0.expected)
       \/ w1.saved = [window.saved EXCEPT ![c.op] = Kept(e)]
  BY <1>2, <1>4, <1>13 DEF Says
<1>15. \A o \in Ops : w1.entry[o] = IF o = c.op THEN e ELSE window.entry[o]
  BY <1>1, <1>5, RowFields DEF Puts
<1>16. CallsOk(w1, used.submits)
  <2>1. /\ w1.entry = [window.entry EXCEPT ![c.op] = e]
        /\ c.op \in Pending => e.active = window.entry[c.op].active - 1
        /\ c.op \in Pending \/ c.op \in RunOps
    BY <1>2, <1>3, <1>5, OpKinds DEF Puts
  <2>2. \/ c.op \in Pending /\ e.active = 0
        \/ c.op \in RunOps
    BY <2>1
  <2>3. c.op \in RunOps => e.status # "submitting"
    OBVIOUS
  <2>4. window \in WindowRows /\ used.submits \in Nat /\ CallsOk(window, used.submits)
        /\ w1.calls = window.calls \ {c}
    BY <1>1, <1>2
  <2> QED BY ONLY <2>1, <2>2, <2>3, <2>4, c \in window.calls, CallRemoved
<1>17. \A d \in window.calls : d.op = c.op => d = c
  <2> SUFFICES ASSUME NEW d \in window.calls, d.op = c.op, d # c
               PROVE  FALSE
    OBVIOUS
  <2>1. d \in w1.calls /\ d.op \in Ops
    BY <1>2, <1>3
  <2>2. d.key = e.key
    BY <2>1, <1>15, <1>16 DEF CallsOk
  <2>3. d.key = c.key
    BY <1>1, <1>3 DEF CallsOk
  <2> QED BY <2>2, <2>3, <1>k
<1>18. Denied(w1, t0) =>
          /\ \A k \in server.commits :
                ~(k.op = t0.op /\ k.intent = t0.intent /\ k.by = t0.by)
          /\ \A a \in Asked(w1, late) : a.op = t0.op /\ a.intent = t0.intent =>
                Hopeless(server, a.op, a.expected)
  <2> SUFFICES ASSUME Denied(w1, t0)
               PROVE  /\ \A k \in server.commits :
                            ~(k.op = c.op /\ k.intent = c.intent /\ k.by = c.by)
                      /\ \A a \in Asked(w1, late) : a.op = c.op /\ a.intent = c.intent =>
                            Hopeless(server, a.op, a.expected)
    BY <1>10
  <2>1. how = "not done"
    BY <1>10 DEF Denied
  <2>2. CASE c.answer = "Stale"
    <3>1. \A k \in server.commits : ~(k.key = c.key /\ k.by = c.by)
      BY <1>6, <2>2 DEF AnswerOk
    <3> QED BY <3>1, <2>2, <1>8, <1>9, <1>11, <1>13
  <2>4. CASE /\ c.answer \in {"Forbidden"} \cup Authentication
             /\ ~window.entry[c.op].uncertain
    <3>1. c.answer # "Error" /\ c.answer # "Ok"
      BY <2>4 DEF Authentication
    <3>2. ~Uncertain(window, c.op)
      BY <3>1, <2>4, <1>17 DEF Uncertain, CallsOf
    <3>3. window.entry[c.op].key # None
      BY <1>3, <1>k
    <3>4. CertainAt(server, window, late, c.op)
      BY <1>1, <1>3 DEF CertainOk
    <3>5. \A q \in late : ~(q.op = c.op /\ q.intent = c.intent)
      BY <3>2, <3>3, <3>4, <1>3 DEF CertainAt
    <3>6. \A k \in server.commits :
             k.op = c.op /\ k.intent = c.intent => Acknowledged(window, k)
      BY <3>2, <3>3, <3>4, <1>3 DEF CertainAt
    <3>7. ASSUME NEW k \in server.commits, k.op = c.op, k.intent = c.intent, k.by = c.by
          PROVE  FALSE
      <4>1. Acknowledged(window, k)
        BY <3>6, <3>7
      <4>2. ~ \E d \in CallsOf(window, k.op) : d.answer = "Ok" /\ d.by = k.by
        BY <3>1, <3>7, <2>4, <1>17 DEF CallsOf
      <4>3. PICK t \in window.told :
               t.op = k.op /\ t.intent = k.intent /\ t.by = k.by /\ t.how = "done"
        BY <4>1, <4>2 DEF Acknowledged
      <4>4. t = [t0 EXCEPT !.how = "done"]
        <5>1. t \in ToldRows
          BY <4>3, <1>1, RowFields
        <5>2. t.op = t0.op /\ t.intent = t0.intent /\ t.by = t0.by /\ t.how = "done"
          BY <4>3, <3>7, <1>10
        <5> QED BY ONLY <5>1, <5>2, <1>10, DoneOf
      <4>5. t \notin w1.told
        BY <4>4, <1>10 DEF Denied
      <4> QED BY <4>3, <4>5, <1>10
    <3>8. ASSUME NEW a \in Asked(w1, late), a.op = c.op, a.intent = c.intent
          PROVE  FALSE
      <4>1. PICK q \in Requests(w1, late) : q.op = a.op /\ q.intent = a.intent
        <5>1. a \in Asked(w1, late)
          OBVIOUS
        <5> QED BY ONLY <5>1, AskedIsOfRequest
      <4>2. q \in late \/ (q \in window.calls /\ q # c)
        BY <4>1, <1>2 DEF Requests
      <4> QED BY <4>1, <4>2, <3>5, <3>8, <2>4, <1>17
    <3> QED BY <3>7, <3>8
  <2> QED BY <2>1, <2>2, <2>4 DEF Says
<1>19. /\ KeysOk(server, w1, late, used.keys) /\ EntriesOk(server, w1, late)
       /\ ToldOk(server, w1, late)
  <2>1. /\ a0.intent = window.entry[c.op].intent /\ t0.intent = a0.intent
        /\ t0.how = "done" => \E k \in server.commits : k.op = c.op /\ k.intent = a0.intent
        /\ \/ t0.how = "not done" /\ c.op \in Controls =>
                  Hopeless(server, c.op, a0.expected)
           \/ w1.saved = [window.saved EXCEPT ![c.op] = Kept(e)]
    BY <1>3, <1>4, <1>10, <1>12, <1>14
  <2>2. server \in ServerRows /\ window \in WindowRows /\ used.keys \in Nat
        /\ late \in SUBSET CallRows
        /\ w1 \in WindowRows /\ c.op \in Ops /\ e \in EntryRows
        /\ KeysOk(server, window, late, used.keys) /\ EntriesOk(server, window, late)
        /\ ToldOk(server, window, late)
        /\ e.key = None /\ ~e.uncertain
        /\ \A o \in Ops : w1.seen[o] <= server.revision[o]
        /\ a0.op = c.op /\ w1.told = window.told \cup {t0} /\ t0.op = c.op
    BY <1>1, <1>2, <1>3, <1>4, <1>10
  <2>3. \A o \in Ops : w1.seen[o] <= server.revision[o]
    BY <1>2
  <2>4. a0.op = c.op /\ a0.intent = window.entry[c.op].intent
    BY <1>4, <2>1
  <2>5. t0.intent = a0.intent /\ t0.op = c.op
    BY <2>1, <1>10
  <2>6. Concludes(server, window, late, w1, c.op, e, a0, t0)
    BY ONLY <2>1, <2>2, <2>3, <2>4, <2>5, a0 \in Asked(window, late),
            <1>5, <1>11, <1>18 DEF Concludes
  <2> QED BY ONLY <2>2, <2>6, Ending
<1>20. AnswersOk(server, w1)
  BY <1>1, <1>2 DEF AnswersOk
<1>21. CertainOk(server, w1, late)
  <2> SUFFICES ASSUME NEW o \in Ops PROVE CertainAt(server, w1, late, o)
    BY DEF CertainOk
  <2>1. CASE o = c.op
    BY <2>1, <1>3, <1>15 DEF CertainAt
  <2>2. CASE o # c.op
    <3>1. CertainAt(server, window, late, o)
      BY <1>1 DEF CertainOk
    <3>2. w1.entry[o] = window.entry[o]
      BY <2>2, <1>15, OpKinds
    <3>3. CallsOf(w1, o) = CallsOf(window, o)
      BY <2>2, <1>2 DEF CallsOf
    <3>4. Uncertain(w1, o) <=> Uncertain(window, o)
      BY <3>2, <3>3 DEF Uncertain
    <3>5. \A k : k.op = o /\ Acknowledged(window, k) => Acknowledged(w1, k)
      BY <3>3, <1>10 DEF Acknowledged
    <3> QED BY <3>1, <3>2, <3>4, <3>5 DEF CertainAt
  <2> QED BY <2>1, <2>2
<1>22. SessionsOk(server, w1, late)
  <2>1. Requests(w1, late) \subseteq Requests(window, late) /\ w1.calls \subseteq window.calls
    BY <1>2 DEF Requests
  <2>2. /\ w1.token = window.token /\ w1.principal = window.principal
        /\ w1.exchanging = window.exchanging /\ w1.inbox = window.inbox
    BY DEF Over
  <2> QED BY <1>1, <2>1, <2>2 DEF SessionsOk
<1> QED BY <1>1, <1>16, <1>19, <1>20, <1>21, <1>22 DEF CommandOk, Typed

LEMMA EmptyIs ==
    /\ EmptyEntry \in EntryRows
    /\ EmptyEntry.key = None /\ ~EmptyEntry.uncertain /\ EmptyEntry.active = 0
    /\ EmptyEntry.intent = 1 /\ EmptyEntry.status = "draft"
<1>1. EmptyEntry \in EntryRows
  BY DEF EmptyEntry, EntryRows, None
<1> QED BY <1>1 DEF EmptyEntry

\* What is left of an entry whose intention is over.
LEMMA ForgottenIs ==
    ASSUME NEW e \in EntryRows
    PROVE  /\ Forgotten(e) \in EntryRows /\ Forgotten(e).key = None
           /\ ~Forgotten(e).uncertain /\ Forgotten(e).intent = e.intent
           /\ Forgotten(e).active = 0 /\ Forgotten(e).status = "draft"
<1>1. e.intent \in Nat
  BY RowFields
<1>2. Forgotten(e) = [EmptyEntry EXCEPT !.intent = e.intent]
  BY DEF Forgotten
<1>3. Forgotten(e) \in EntryRows
  BY <1>1, <1>2, EmptyIs DEF EntryRows
<1>4. /\ Forgotten(e).key = EmptyEntry.key /\ Forgotten(e).uncertain = EmptyEntry.uncertain
      /\ Forgotten(e).intent = e.intent /\ Forgotten(e).active = EmptyEntry.active
      /\ Forgotten(e).status = EmptyEntry.status
  BY <1>2, EmptyIs DEF EntryRows
<1> QED BY <1>3, <1>4, EmptyIs

LEMMA TellsIs ==
    ASSUME NEW w \in WindowRows, NEW c \in CallRows, NEW how \in {"done", "not done", "refused"}
    PROVE  /\ Tells(w, c, how) \in WindowRows
           /\ Tells(w, c, how).told = w.told \cup
                 {[op |-> c.op, intent |-> c.intent, by |-> c.by, how |-> how]}
           /\ Tells(w, c, how).entry = w.entry /\ Tells(w, c, how).saved = w.saved
           /\ Tells(w, c, how).calls = w.calls /\ Tells(w, c, how).token = w.token
           /\ Tells(w, c, how).principal = w.principal /\ Tells(w, c, how).seen = w.seen
           /\ Tells(w, c, how).exchanging = w.exchanging
           /\ Tells(w, c, how).inbox = w.inbox /\ Tells(w, c, how).broken = w.broken
<1> DEFINE t0 == [op |-> c.op, intent |-> c.intent, by |-> c.by, how |-> how]
           told == w.told \cup {t0}
<1>1. c.op \in Ops /\ c.intent \in Nat /\ c.by \in Principals
  BY RowFields
<1>2. t0 \in ToldRows
  BY ONLY <1>1, how \in {"done", "not done", "refused"} DEF ToldRows
<1> HIDE DEF t0
<1>3. told \in SUBSET ToldRows
  BY <1>2, RowFields
<1>4. Tells(w, c, how) = [w EXCEPT !.told = told]
  BY DEF Tells, WindowRows, t0
<1>5. told = w.told \cup {[op |-> c.op, intent |-> c.intent, by |-> c.by, how |-> how]}
  BY DEF t0
<1> HIDE DEF told
<1>6. /\ Tells(w, c, how) \in WindowRows /\ Tells(w, c, how).told = told
      /\ Tells(w, c, how).entry = w.entry /\ Tells(w, c, how).saved = w.saved
      /\ Tells(w, c, how).calls = w.calls /\ Tells(w, c, how).token = w.token
      /\ Tells(w, c, how).principal = w.principal /\ Tells(w, c, how).seen = w.seen
      /\ Tells(w, c, how).exchanging = w.exchanging
      /\ Tells(w, c, how).inbox = w.inbox /\ Tells(w, c, how).broken = w.broken
  BY <1>3, <1>4 DEF WindowRows
<1> QED BY <1>5, <1>6

\* Counting goes on.
LEMMA NextIsNat == ASSUME NEW i \in Nat PROVE i + 1 \in Nat
OBVIOUS

\* Ends, for an entry f that holds nothing of the intention that is over.
LEMMA EndsKeeps ==
    ASSUME CommandInv, NEW c \in window.calls, NEW w, Over(w, c), NEW f \in EntryRows,
           f.key = None, ~f.uncertain, f.intent = w.entry[c.op].intent, f.active = 0,
           f.status # "submitting", c.op \in Pending => f.active = w.entry[c.op].active - 1,
           NEW how \in {"done", "not done", "refused"}, Says(w, c, how)
    PROVE  CommandOk(server, Ends(f, w, c, how), late, used)
<1>1. c \in CallRows /\ c.op \in Ops /\ w \in WindowRows
  BY CallParts, RowFields DEF Over
<1>2. PICK v : v = Tells(w, c, how)
  OBVIOUS
<1>3. /\ v \in WindowRows
      /\ v.told = w.told \cup
            {[op |-> c.op, intent |-> c.intent, by |-> c.by, how |-> how]}
      /\ v.entry = w.entry /\ v.saved = w.saved
      /\ v.calls = w.calls /\ v.token = w.token
      /\ v.principal = w.principal /\ v.seen = w.seen
      /\ v.exchanging = w.exchanging /\ v.inbox = w.inbox /\ v.broken = w.broken
  BY <1>1, <1>2, TellsIs
<1>4. PICK e : e = [f EXCEPT !.intent = f.intent + 1]
  OBVIOUS
<1>5. /\ e \in EntryRows /\ e.key = None /\ ~e.uncertain /\ e.active = 0
      /\ e.status # "submitting" /\ e.intent = w.entry[c.op].intent + 1
      /\ c.op \in Pending => e.active = w.entry[c.op].active - 1
  <2>1. e \in EntryRows
    <3>1. PICK j \in Nat : j = f.intent
      BY RowFields
    <3>2. PICK i \in Nat : i = f.intent + 1
      <4>1. j + 1 \in Nat
        BY NextIsNat
      <4>2. f.intent + 1 \in Nat
        BY <4>1, <3>1
      <4> QED BY <4>2
    <3>3. e = [f EXCEPT !.intent = i]
      BY <1>4, <3>2
    <3> QED BY <3>3 DEF EntryRows
  <2>2. /\ e.key = f.key /\ e.uncertain = f.uncertain /\ e.active = f.active
        /\ e.status = f.status /\ e.intent = f.intent + 1
    BY <1>4 DEF EntryRows
  <2> QED BY <2>1, <2>2
<1>6. PICK w1 : w1 = Put(v, c.op, e)
  OBVIOUS
<1>7. /\ w1 \in WindowRows /\ Puts(v, w1, c.op, e)
      /\ c.op \in Controls /\ ~v.broken => w1.saved = [v.saved EXCEPT ![c.op] = Kept(e)]
      /\ w1.token = v.token /\ w1.principal = v.principal
      /\ w1.calls = v.calls /\ w1.seen = v.seen
      /\ w1.exchanging = v.exchanging
      /\ w1.inbox = v.inbox /\ w1.told = v.told
  BY ONLY <1>1, <1>3, <1>5, <1>6, PutIs, ZenonT(60)
<1>8. Puts(w, w1, c.op, e)
  BY <1>3, <1>7 DEF Puts
<1>9. CommandOk(server, w1, late, used)
  <2>1. /\ w1.token = w.token /\ w1.principal = w.principal /\ w1.calls = w.calls
        /\ w1.seen = w.seen /\ w1.exchanging = w.exchanging /\ w1.inbox = w.inbox
        /\ w1.told = w.told \cup
              {[op |-> c.op, intent |-> c.intent, by |-> c.by, how |-> how]}
    BY <1>3, <1>7
  <2>2. c.op \in Controls /\ ~w.broken => w1.saved = [w.saved EXCEPT ![c.op] = Kept(e)]
    BY <1>3, <1>7
  <2>3. /\ CommandInv /\ c \in window.calls /\ Over(w, c) /\ Says(w, c, how)
        /\ how \in {"done", "not done", "refused"}
    OBVIOUS
  <2>4. EndedAs(w, w1, c, e, how)
    BY ONLY <1>5, <1>8, <2>1, <2>2 DEF EndedAs
  <2> QED BY ONLY <2>3, <1>5, <1>7, <2>4, OverEnds
<1>10. Ends(f, w, c, how) = w1
  <2>1. Ends(f, w, c, how) = Put(Tells(w, c, how), c.op, [f EXCEPT !.intent = f.intent + 1])
    BY DEF Ends, EntryRows
  <2> QED BY <2>1, <1>2, <1>4, <1>6
<1> QED BY <1>9, <1>10

\* What a failure makes of window w.
Failed(w, c) == IF c.op \in RunOps THEN RunFailed(w, c) ELSE PendingFailed(w, c)

Failures == {"Stale", "Forbidden", "Error"} \cup Authentication

\* A refusal says no more than it may.
LEMMA RefusalIs ==
    ASSUME NEW w, NEW c, w.entry = window.entry, c.answer \in Failures, c.answer # "Error"
    PROVE  /\ Refusal(w, c) \in {"done", "not done", "refused"}
           /\ Says(w, c, Refusal(w, c))
<1>1. CASE Refusal(w, c) = "refused"
  BY <1>1 DEF Says
<1>2. CASE Refusal(w, c) # "refused"
  <2>1. Refusal(w, c) = "not done"
    BY <1>2 DEF Refusal
  <2>2. c.answer = "Stale" \/ (~window.entry[c.op].uncertain
                               /\ ~(c.op \in Controls /\ w.broken))
    BY <1>2 DEF Refusal
  <2>3. c.answer \in {"Stale", "Forbidden"} \cup Authentication
    BY DEF Failures
  <2> QED BY <2>1, <2>2, <2>3 DEF Says
<1> QED BY <1>1, <1>2

\* Put, for an entry that goes on.
LEMMA PutKeeps ==
    ASSUME CommandInv, NEW c \in window.calls, NEW w, Over(w, c), NEW e \in EntryRows,
           e.key = w.entry[c.op].key, e.intent = w.entry[c.op].intent,
           e.expected = w.entry[c.op].expected,
           w.entry[c.op].uncertain => e.uncertain,
           c.answer = "Error" => e.uncertain,
           c.op \in Pending => e.active = w.entry[c.op].active - 1,
           c.op \in RunOps => e.status # "submitting", c.answer # "Ok"
    PROVE  CommandOk(server, Put(w, c.op, e), late, used)
<1>1. c \in CallRows /\ c.op \in Ops /\ w \in WindowRows
  BY CallParts, RowFields DEF Over
<1>2. PICK w1 : w1 = Put(w, c.op, e)
  OBVIOUS
<1>3. /\ w1 \in WindowRows /\ Puts(w, w1, c.op, e)
      /\ w1.token = w.token /\ w1.principal = w.principal
      /\ w1.calls = w.calls /\ w1.seen = w.seen
      /\ w1.exchanging = w.exchanging
      /\ w1.inbox = w.inbox /\ w1.told = w.told
  BY <1>1, <1>2, PutIs
<1>4. PICK done \in BOOLEAN : done = FALSE
  OBVIOUS
<1>5. /\ w1.told = w.told \cup
            (IF done
             THEN {[op |-> c.op, intent |-> c.intent, by |-> c.by, how |-> "done"]}
             ELSE {})
      /\ done => c.op \in Pending
      /\ c.answer = "Ok" => done
  BY <1>3, <1>4
<1>6. CommandOk(server, w1, late, used)
  BY <1>3, <1>5, OverGoesOn
<1> QED BY <1>2, <1>6

\* The catch of submitRequest.
LEMMA RunFailedKeeps ==
    ASSUME CommandInv, NEW c \in window.calls, NEW w, Over(w, c),
           c.op \in RunOps, c.answer \in Failures
    PROVE  CommandOk(server, RunFailed(w, c), late, used)
<1>1. c \in CallRows /\ c.op \in Ops /\ w \in WindowRows /\ c.expected \in Nat
  BY CallParts, RowFields DEF Over
<1>2. PICK e : e = [w.entry[c.op] EXCEPT !.active = 0]
  OBVIOUS
<1>3. w.entry[c.op] \in EntryRows
  BY <1>1, RowFields
<1>4. /\ e \in EntryRows /\ e.key = w.entry[c.op].key /\ e.intent = w.entry[c.op].intent
      /\ e.expected = w.entry[c.op].expected
      /\ e.uncertain = w.entry[c.op].uncertain
  BY <1>2, <1>3 DEF EntryRows
<1>5. c.op \notin Pending
  BY OpKinds
<1>6. CASE c.answer = "Stale" \/ (c.answer = "Forbidden" /\ ~e.uncertain)
  <2>1. PICK f : f = [EmptyEntry EXCEPT !.intent = e.intent, !.status = "rejected",
                         !.rejected = c.expected, !.review = TRUE]
    OBVIOUS
  <2>2. /\ f \in EntryRows /\ f.key = None /\ ~f.uncertain /\ f.intent = e.intent
        /\ f.active = 0 /\ f.status = "rejected"
    <3>1. e.intent \in Nat
      BY <1>4, RowFields
    <3>2. f \in EntryRows
      BY <3>1, <2>1, <1>1, EmptyIs DEF EntryRows
    <3>3. /\ f.key = EmptyEntry.key /\ f.uncertain = EmptyEntry.uncertain
          /\ f.intent = e.intent /\ f.active = EmptyEntry.active /\ f.status = "rejected"
      BY <2>1, EmptyIs DEF EntryRows
    <3> QED BY <3>2, <3>3, EmptyIs
  <2>3. PICK how \in {"done", "not done", "refused"} : how = Refusal(w, c) /\ Says(w, c, how)
    <3>1. w.entry = window.entry /\ c.answer \in Failures /\ c.answer # "Error"
      BY <1>6 DEF Over
    <3> QED BY ONLY <3>1, RefusalIs
  <2>4. CommandOk(server, Ends(f, w, c, how), late, used)
    BY <2>2, <2>3, <1>4, <1>5, EndsKeeps
  <2> QED BY <2>1, <2>3, <2>4, <1>2, <1>6 DEF RunFailed
<1>7. CASE ~(c.answer = "Stale" \/ (c.answer = "Forbidden" /\ ~e.uncertain))
  <2>1. PICK uncertain \in BOOLEAN :
           uncertain = (e.uncertain \/ c.answer \notin Authentication)
    OBVIOUS
  <2>2. PICK g : g = [e EXCEPT !.uncertain = uncertain,
                        !.status = IF uncertain THEN "unknown" ELSE "auth-required"]
    OBVIOUS
  <2>3. /\ g \in EntryRows /\ g.key = e.key /\ g.intent = e.intent
        /\ g.expected = e.expected /\ g.uncertain = uncertain
        /\ g.status \in {"unknown", "auth-required"}
    BY <2>2, <1>4 DEF EntryRows
  <2>4. (e.uncertain => g.uncertain) /\ (c.answer = "Error" => g.uncertain)
    BY <2>1, <2>3 DEF Authentication
  <2>5. c.answer # "Ok"
    BY DEF Failures, Authentication
  <2>6. CommandOk(server, Put(w, c.op, g), late, used)
    BY <2>3, <2>4, <2>5, <1>4, <1>5, PutKeeps
  <2> QED BY <2>1, <2>2, <2>6, <1>2, <1>7 DEF RunFailed
<1> QED BY <1>6, <1>7

LEMMA PendingFailedKeeps ==
    ASSUME CommandInv, NEW c \in window.calls, NEW w, Over(w, c),
           c.op \in Pending, c.answer \in Failures
    PROVE  CommandOk(server, PendingFailed(w, c), late, used)
<1>1. c \in CallRows /\ c.op \in Ops /\ w \in WindowRows /\ w.entry = window.entry
  BY CallParts, RowFields DEF Over
<1>2. PICK e : e = [w.entry[c.op] EXCEPT !.active = w.entry[c.op].active - 1,
                       !.uncertain = w.entry[c.op].uncertain \/ c.answer = "Error"]
  OBVIOUS
<1>3. w.entry[c.op] \in EntryRows
  BY <1>1, RowFields
<1>4. /\ e \in EntryRows /\ e.key = w.entry[c.op].key /\ e.intent = w.entry[c.op].intent
      /\ e.expected = w.entry[c.op].expected
      /\ e.active = w.entry[c.op].active - 1
  <2>1. PICK a \in Int : a = w.entry[c.op].active - 1
    BY <1>3, RowFields
  <2>2. PICK b \in BOOLEAN : b = (w.entry[c.op].uncertain \/ c.answer = "Error")
    OBVIOUS
  <2>3. e = [w.entry[c.op] EXCEPT !.active = a, !.uncertain = b]
    BY <2>1, <2>2, <1>2
  <2>4. /\ e \in EntryRows /\ e.key = w.entry[c.op].key /\ e.intent = w.entry[c.op].intent
        /\ e.expected = w.entry[c.op].expected /\ e.active = a
    BY <2>3, <1>3 DEF EntryRows
  <2> QED BY <2>1, <2>4
<1>5. e.uncertain <=> (w.entry[c.op].uncertain \/ c.answer = "Error")
  BY <1>2, <1>3 DEF EntryRows
<1>6. Mine(w, c)
  BY <1>1, InvParts DEF Mine, CommandInv, CallsOk
<1>7. c.op \notin RunOps
  BY OpKinds
<1>8. PendingFailed(w, c) =
         IF /\ e.active = 0 /\ c.answer # "Error"
            /\ ~(e.uncertain /\ c.answer \in Authentication)
         THEN Ends(Forgotten(e), w, c, Refusal(w, c)) ELSE Put(w, c.op, e)
  BY <1>2, <1>3, <1>6 DEF PendingFailed, EntryRows
<1>9. CASE /\ e.active = 0 /\ c.answer # "Error"
           /\ ~(e.uncertain /\ c.answer \in Authentication)
  <2>1. PICK f : f = Forgotten(e)
    OBVIOUS
  <2>2. /\ f \in EntryRows /\ f.key = None /\ ~f.uncertain /\ f.intent = e.intent
        /\ f.active = 0 /\ f.status = "draft"
    BY <2>1, <1>4, ForgottenIs
  <2>3. PICK how \in {"done", "not done", "refused"} : how = Refusal(w, c) /\ Says(w, c, how)
    BY <1>1, <1>9, RefusalIs, c.answer \in Failures
  <2>4. c.op \in Pending => f.active = w.entry[c.op].active - 1
    BY <2>2, <1>4, <1>9
  <2>5. CommandOk(server, Ends(f, w, c, how), late, used)
    BY <2>2, <2>3, <2>4, <1>4, EndsKeeps
  <2> QED BY <2>1, <2>3, <2>5, <1>8, <1>9
<1>10. CASE ~(/\ e.active = 0 /\ c.answer # "Error"
              /\ ~(e.uncertain /\ c.answer \in Authentication))
  <2>1. c.answer # "Ok"
    BY DEF Failures, Authentication
  <2>2. CommandOk(server, Put(w, c.op, e), late, used)
    BY <2>1, <1>4, <1>5, <1>7, PutKeeps
  <2> QED BY <2>2, <1>8, <1>10
<1> QED BY <1>9, <1>10

LEMMA SameWindow ==
    ASSUME NEW w \in WindowRows, NEW w1 \in WindowRows,
           w1.token = w.token, w1.principal = w.principal, w1.calls = w.calls,
           w1.entry = w.entry, w1.seen = w.seen, w1.broken = w.broken,
           w1.saved = w.saved, w1.exchanging = w.exchanging, w1.inbox = w.inbox,
           w1.told = w.told
    PROVE  w1 = w
<1>1. ASSUME NEW v \in WindowRows
      PROVE  v = [token |-> v.token, principal |-> v.principal, calls |-> v.calls,
                  entry |-> v.entry, seen |-> v.seen, broken |-> v.broken,
                  saved |-> v.saved, exchanging |-> v.exchanging, inbox |-> v.inbox,
                  told |-> v.told]
  BY DEF WindowRows
<1> QED BY <1>1

LEMMA PutCleared ==
    ASSUME NEW w \in WindowRows, NEW op \in Ops, NEW e \in EntryRows
    PROVE  Put(Cleared(w), op, e) = Cleared(Put(w, op, e))
<1> DEFINE entry == [w.entry EXCEPT ![op] = e]
           saved == IF op \in Controls /\ ~w.broken
                    THEN [w.saved EXCEPT ![op] = Kept(e)] ELSE w.saved
           calls == {[c EXCEPT !.sameToken = FALSE, !.sameSession = FALSE] : c \in w.calls}
<1>1. Cleared(w) = [w EXCEPT !.token = None, !.principal = Nobody, !.calls = calls]
  BY DEF Cleared, WindowRows
<1>2. Cleared(w).entry = w.entry /\ Cleared(w).saved = w.saved /\ Cleared(w).broken = w.broken
  <2> HIDE DEF calls
  <2> QED BY <1>1 DEF WindowRows
<1>3. Put(w, op, e) = [w EXCEPT !.entry = entry, !.saved = saved]
  BY DEF Put, WindowRows
<1>4. Put(Cleared(w), op, e) = [Cleared(w) EXCEPT !.entry = entry, !.saved = saved]
  <2>1. Put(Cleared(w), op, e) =
           [Cleared(w) EXCEPT !.entry = [Cleared(w).entry EXCEPT ![op] = e],
              !.saved = IF op \in Controls /\ ~Cleared(w).broken
                        THEN [Cleared(w).saved EXCEPT ![op] = Kept(e)] ELSE Cleared(w).saved]
    <3> HIDE DEF calls
    <3> QED BY <1>1 DEF Put, WindowRows
  <2> QED BY <2>1, <1>2
<1>5. Put(w, op, e).calls = w.calls
  <2> HIDE DEF entry, saved
  <2> QED BY <1>3 DEF WindowRows
<1>6. Cleared(Put(w, op, e)) =
         [Put(w, op, e) EXCEPT !.token = None, !.principal = Nobody, !.calls = calls]
  <2>1. Cleared(Put(w, op, e)) =
           [Put(w, op, e) EXCEPT !.token = None, !.principal = Nobody,
              !.calls = {[c EXCEPT !.sameToken = FALSE, !.sameSession = FALSE] :
                            c \in Put(w, op, e).calls}]
    BY DEF Cleared
  <2> QED BY <2>1, <1>5
<1>7. calls \in SUBSET CallRows
  <2>1. \A c \in CallRows :
           [c EXCEPT !.sameToken = FALSE, !.sameSession = FALSE] \in CallRows
    BY DEF CallRows
  <2>2. \A c \in w.calls : c \in CallRows
    BY RowFields
  <2> QED BY ONLY <2>1, <2>2
<1>8. entry \in [Ops -> EntryRows] /\ saved \in [Controls -> EntryRows]
  BY RowFields, KeptIs
<1>9. None \in Nat /\ Nobody \in Principals \cup {Nobody}
  BY DEF None
<1> HIDE DEF entry, saved, calls
<1> DEFINE x == Put(Cleared(w), op, e)
           y == Cleared(Put(w, op, e))
           v == Cleared(w)
           u == Put(w, op, e)
<1>10. v \in WindowRows /\ u \in WindowRows
  BY <1>1, <1>3, <1>7, <1>8, <1>9 DEF WindowRows
<1>11. /\ v.token = None /\ v.principal = Nobody /\ v.calls = calls /\ v.seen = w.seen
       /\ v.broken = w.broken /\ v.exchanging = w.exchanging /\ v.inbox = w.inbox
       /\ v.told = w.told
  BY <1>1 DEF WindowRows
<1>12. /\ u.entry = entry /\ u.saved = saved /\ u.seen = w.seen
       /\ u.broken = w.broken /\ u.exchanging = w.exchanging /\ u.inbox = w.inbox
       /\ u.told = w.told
  BY <1>3 DEF WindowRows
<1>13. x = [v EXCEPT !.entry = entry, !.saved = saved]
  BY <1>4
<1>14. y = [u EXCEPT !.token = None, !.principal = Nobody, !.calls = calls]
  BY <1>6
<1> HIDE DEF x, y, u, v
<1>15. /\ x \in WindowRows /\ x.entry = entry /\ x.saved = saved
       /\ x.token = v.token /\ x.principal = v.principal /\ x.calls = v.calls
       /\ x.seen = v.seen /\ x.broken = v.broken /\ x.exchanging = v.exchanging
       /\ x.inbox = v.inbox /\ x.told = v.told
  BY <1>8, <1>10, <1>13 DEF WindowRows
<1>16. /\ y \in WindowRows /\ y.token = None /\ y.principal = Nobody /\ y.calls = calls
       /\ y.entry = u.entry /\ y.saved = u.saved
       /\ y.seen = u.seen /\ y.broken = u.broken /\ y.exchanging = u.exchanging
       /\ y.inbox = u.inbox /\ y.told = u.told
  BY <1>7, <1>9, <1>10, <1>14 DEF WindowRows
<1>17. x = y
  BY <1>11, <1>12, <1>15, <1>16, SameWindow
<1> QED BY <1>17 DEF x, y

\* What the user is told does not depend on the session.
LEMMA TellsCleared ==
    ASSUME NEW w \in WindowRows, Alone(w.calls), NEW c \in CallRows,
           NEW how \in {"done", "not done", "refused"}
    PROVE  Tells(Cleared(w), c, how) = Cleared(Tells(w, c, how))
<1> DEFINE t0 == [op |-> c.op, intent |-> c.intent, by |-> c.by, how |-> how]
<1>1. PICK v : v = Cleared(w)
  OBVIOUS
<1>2. PICK u : u = Tells(w, c, how)
  OBVIOUS
<1>3. PICK x : x = Tells(v, c, how)
  OBVIOUS
<1>4. PICK y : y = Cleared(u)
  OBVIOUS
<1>5. /\ v \in WindowRows /\ Stays(w, v) /\ v.token = None /\ v.principal = Nobody
      /\ v.exchanging = w.exchanging /\ v.inbox = w.inbox /\ v.broken = w.broken
      /\ v.calls = {[d EXCEPT !.sameToken = FALSE, !.sameSession = FALSE] : d \in w.calls}
  BY <1>1, ClearedIs
<1>6. /\ u \in WindowRows /\ u.told = w.told \cup {t0}
      /\ u.entry = w.entry /\ u.saved = w.saved /\ u.calls = w.calls
      /\ u.seen = w.seen /\ u.exchanging = w.exchanging /\ u.inbox = w.inbox
      /\ u.broken = w.broken
  BY <1>2, TellsIs
<1>7. /\ x \in WindowRows /\ x.told = v.told \cup {t0}
      /\ x.entry = v.entry /\ x.saved = v.saved /\ x.calls = v.calls
      /\ x.seen = v.seen /\ x.exchanging = v.exchanging /\ x.inbox = v.inbox
      /\ x.broken = v.broken /\ x.token = v.token /\ x.principal = v.principal
  BY ONLY <1>3, c \in CallRows, how \in {"done", "not done", "refused"}, <1>5, TellsIs, ZenonT(60)
<1>8. /\ y \in WindowRows /\ Stays(u, y) /\ y.token = None /\ y.principal = Nobody
      /\ y.exchanging = u.exchanging /\ y.inbox = u.inbox /\ y.broken = u.broken
      /\ y.calls = {[d EXCEPT !.sameToken = FALSE, !.sameSession = FALSE] : d \in u.calls}
  BY <1>4, <1>6, ClearedIs
<1> HIDE DEF t0
<1>9. x.calls = y.calls
  BY <1>5, <1>6, <1>7, <1>8
<1>10. /\ x.token = y.token /\ x.principal = y.principal /\ x.entry = y.entry
       /\ x.seen = y.seen /\ x.broken = y.broken /\ x.saved = y.saved
       /\ x.exchanging = y.exchanging /\ x.inbox = y.inbox /\ x.told = y.told
  BY <1>5, <1>6, <1>7, <1>8 DEF Stays
<1>11. x = y
  BY <1>7, <1>8, <1>9, <1>10, SameWindow
<1> QED BY <1>1, <1>2, <1>3, <1>4, <1>11

LEMMA EndsCleared ==
    ASSUME NEW w \in WindowRows, Alone(w.calls), NEW c \in CallRows, NEW f \in EntryRows,
           NEW how \in {"done", "not done", "refused"}
    PROVE  Ends(f, Cleared(w), c, how) = Cleared(Ends(f, w, c, how))
<1>1. PICK e : e = [f EXCEPT !.intent = f.intent + 1]
  OBVIOUS
<1>2. e \in EntryRows
  <2>1. PICK j \in Nat : j = f.intent
    BY RowFields
  <2>2. PICK i \in Nat : i = f.intent + 1
    <3>1. j + 1 \in Nat
      BY NextIsNat
    <3> QED BY <3>1, <2>1
  <2>3. e = [f EXCEPT !.intent = i]
    BY <1>1, <2>2
  <2> QED BY <2>3 DEF EntryRows
<1>3. PICK v : v = Tells(w, c, how)
  OBVIOUS
<1>4. v \in WindowRows /\ Tells(Cleared(w), c, how) = Cleared(v)
  BY <1>3, TellsIs, TellsCleared
<1>5. c.op \in Ops
  BY RowFields
<1>6. Put(Cleared(v), c.op, e) = Cleared(Put(v, c.op, e))
  BY <1>2, <1>4, <1>5, PutCleared
<1>7. \A z : Ends(f, z, c, how) = Put(Tells(z, c, how), c.op, e)
  BY <1>1 DEF Ends, EntryRows
<1> QED BY <1>3, <1>4, <1>6, <1>7

\* Handling a failure has the same result before and after the session is cleared.
LEMMA FailedCleared ==
    ASSUME NEW w \in WindowRows, Alone(w.calls), NEW c \in CallRows
    PROVE  Failed(Cleared(w), c) = Cleared(Failed(w, c))
<1>1. PICK v : v = Cleared(w)
  OBVIOUS
<1>2. v.entry = w.entry /\ v.broken = w.broken
  BY <1>1 DEF Cleared, WindowRows
<1>3. c.op \in Ops /\ w.entry[c.op] \in EntryRows /\ c.expected \in Nat
  BY RowFields
<1>6. PICK how : how = Refusal(w, c)
  OBVIOUS
<1>7. how \in {"not done", "refused"}
  BY <1>6 DEF Refusal
<1>8. \A z : z.entry = w.entry /\ z.broken = w.broken => Refusal(z, c) = how
  BY <1>6 DEF Refusal
<1>4. CASE c.op \in RunOps
  <2>1. PICK e : e = [w.entry[c.op] EXCEPT !.active = 0]
    OBVIOUS
  <2>2. e \in EntryRows
    BY <1>3, <2>1 DEF EntryRows
  <2>3. PICK f : f = [EmptyEntry EXCEPT !.intent = e.intent, !.status = "rejected",
                         !.rejected = c.expected, !.review = TRUE]
    OBVIOUS
  <2>4. f \in EntryRows
    <3>1. e.intent \in Nat
      BY <2>2, RowFields
    <3> QED BY <3>1, <2>3, <1>3, EmptyIs DEF EntryRows
  <2>5. PICK uncertain \in BOOLEAN :
           uncertain = (e.uncertain \/ c.answer \notin Authentication)
    OBVIOUS
  <2>6. PICK g : g = [e EXCEPT !.uncertain = uncertain,
                        !.status = IF uncertain THEN "unknown" ELSE "auth-required"]
    OBVIOUS
  <2>7. g \in EntryRows
    BY <2>2, <2>6 DEF EntryRows
  <2>8. CASE c.answer = "Stale" \/ (c.answer = "Forbidden" /\ ~e.uncertain)
    <3>1. RunFailed(w, c) = Ends(f, w, c, how)
      BY <1>8, <2>1, <2>3, <2>8 DEF RunFailed
    <3>2. RunFailed(v, c) = Ends(f, v, c, how)
      BY <1>2, <1>8, <2>1, <2>3, <2>8 DEF RunFailed
    <3>3. Ends(f, v, c, how) = Cleared(Ends(f, w, c, how))
      BY <1>1, <1>7, <2>4, EndsCleared
    <3> QED BY <1>1, <1>4, <3>1, <3>2, <3>3 DEF Failed
  <2>9. CASE ~(c.answer = "Stale" \/ (c.answer = "Forbidden" /\ ~e.uncertain))
    <3>1. RunFailed(w, c) = Put(w, c.op, g)
      BY <2>1, <2>5, <2>6, <2>9 DEF RunFailed
    <3>2. RunFailed(v, c) = Put(v, c.op, g)
      BY <1>2, <2>1, <2>5, <2>6, <2>9 DEF RunFailed
    <3>3. Put(v, c.op, g) = Cleared(Put(w, c.op, g))
      BY <1>1, <1>3, <2>7, PutCleared
    <3> QED BY <1>1, <1>4, <3>1, <3>2, <3>3 DEF Failed
  <2> QED BY <2>8, <2>9
<1>5. CASE c.op \notin RunOps
  <2>1. PICK a \in Int : a = w.entry[c.op].active - 1
    BY <1>3, RowFields
  <2>2. PICK b \in BOOLEAN : b = (w.entry[c.op].uncertain \/ c.answer = "Error")
    OBVIOUS
  <2>3. PICK e : e = [w.entry[c.op] EXCEPT !.active = a, !.uncertain = b]
    OBVIOUS
  <2>4. e \in EntryRows
    BY <1>3, <2>3 DEF EntryRows
  <2>5. e = [w.entry[c.op] EXCEPT !.active = @ - 1, !.uncertain = @ \/ c.answer = "Error"]
    BY <1>3, <2>1, <2>2, <2>3 DEF EntryRows
  <2>6. PICK f : f = Forgotten(e)
    OBVIOUS
  <2>7. f \in EntryRows
    BY <2>4, <2>6, ForgottenIs
  <2>8. PICK ends \in BOOLEAN :
           ends = (/\ e.active = 0 /\ c.answer # "Error"
                   /\ ~(e.uncertain /\ c.answer \in Authentication))
    OBVIOUS
  <2>9. \A z : z.entry = w.entry /\ z.broken = w.broken =>
           PendingFailed(z, c) = IF w.entry[c.op].key # c.key THEN z
                                 ELSE IF ends THEN Ends(f, z, c, how)
                                 ELSE Put(z, c.op, e)
    BY <1>8, <2>5, <2>6, <2>8 DEF PendingFailed, Mine
  <2>10. Ends(f, v, c, how) = Cleared(Ends(f, w, c, how))
    BY <1>1, <1>7, <2>7, EndsCleared
  <2>11. Put(v, c.op, e) = Cleared(Put(w, c.op, e))
    BY <1>1, <1>3, <2>4, PutCleared
  <2>12. PendingFailed(v, c) = Cleared(PendingFailed(w, c))
    <3>1. CASE w.entry[c.op].key # c.key
      <4>1. PendingFailed(w, c) = w /\ PendingFailed(v, c) = v
        BY <1>2, <2>9, <3>1
      <4> QED BY <1>1, <4>1
    <3>2. CASE w.entry[c.op].key = c.key /\ ends
      <4>1. PendingFailed(w, c) = Ends(f, w, c, how)
        BY <2>9, <3>2
      <4>2. PendingFailed(v, c) = Ends(f, v, c, how)
        BY <1>2, <2>9, <3>2
      <4> QED BY <2>10, <4>1, <4>2
    <3>3. CASE w.entry[c.op].key = c.key /\ ~ends
      <4>1. PendingFailed(w, c) = Put(w, c.op, e)
        BY <2>9, <3>3
      <4>2. PendingFailed(v, c) = Put(v, c.op, e)
        BY <1>2, <2>9, <3>3
      <4> QED BY <2>11, <4>1, <4>2
    <3> QED BY <3>1, <3>2, <3>3
  <2> QED BY <1>1, <1>5, <2>12 DEF Failed
<1> QED BY <1>4, <1>5

\* The window without call c is what Over speaks of.
LEMMA WithoutIsOver ==
    ASSUME CommandInv, NEW c \in window.calls
    PROVE  Over(Without(c), c) /\ Alone(Without(c).calls)
<1>1. /\ window \in WindowRows /\ server \in ServerRows
      /\ KeysOk(server, window, late, used.keys) /\ Alone(window.calls)
  BY InvParts DEF CommandInv
<1>2. window.calls \ {c} \in SUBSET CallRows
  BY <1>1, RowFields
<1>3. Without(c) = [window EXCEPT !.calls = window.calls \ {c}]
  BY <1>1 DEF Without, WindowRows
<1>4. PICK calls : calls = window.calls \ {c}
  OBVIOUS
<1>5. /\ Without(c) \in WindowRows /\ Without(c).calls = calls
      /\ Without(c).entry = window.entry /\ Without(c).saved = window.saved
      /\ Without(c).told = window.told /\ Without(c).token = window.token
      /\ Without(c).principal = window.principal
      /\ Without(c).exchanging = window.exchanging /\ Without(c).inbox = window.inbox
      /\ Without(c).seen = window.seen
  BY <1>1, <1>2, <1>3, <1>4 DEF WindowRows
<1>6. \A o \in Ops : window.seen[o] <= server.revision[o]
  BY <1>1 DEF KeysOk
<1> QED BY <1>1, <1>4, <1>5, <1>6 DEF Over, Alone

\* The error leaves #command, with the session or without.
LEMMA ThrownKeeps ==
    ASSUME CommandInv, NEW c \in window.calls, c.answer \in Failures,
           NEW w \in {Without(c), Cleared(Without(c))}, Thrown(w, c),
           UNCHANGED <<server, late, used>>
    PROVE  CommandInv'
<1>1. Over(Without(c), c) /\ Alone(Without(c).calls) /\ Without(c) \in WindowRows
  BY WithoutIsOver DEF Over
<1>2. c \in CallRows /\ c.op \in Ops
  BY CallParts, RowFields
<1>3. CommandOk(server, Failed(Without(c), c), late, used)
  BY <1>1, <1>2, OpKinds, RunFailedKeeps, PendingFailedKeeps DEF Failed
<1>4. CommandOk(server, Cleared(Failed(Without(c), c)), late, used)
  BY <1>3, Clearing
<1>5. window' = Failed(w, c)
  BY DEF Thrown, Failed
<1>6. CommandOk(server, window', late, used)
  BY <1>1, <1>2, <1>3, <1>4, <1>5, FailedCleared
<1> QED BY <1>6 DEF CommandInv

LEMMA SucceedsKeeps ==
    ASSUME CommandInv, NEW c \in window.calls, Succeeds(c) PROVE CommandInv'
<1>1. /\ c \in CallRows /\ c.op \in Ops /\ AnswerOk(server, c)
      /\ c.token \in DOMAIN server.owner /\ server.owner[c.token] = c.by
      /\ c.sameSession => c.by = window.principal
  BY CallParts, RowFields
<1>2. Answered(c) /\ c.answer = "Ok" /\ UNCHANGED <<server, late, used>>
  BY DEF Succeeds
<1>3. CASE c.op \in RunOps
  <2>1. PICK w : w = Without(c)
    OBVIOUS
  <2>2. Over(w, c) /\ w \in WindowRows
    BY <2>1, WithoutIsOver DEF Over
  <2>3. PICK f : f = [EmptyEntry EXCEPT !.intent = w.entry[c.op].intent,
                         !.status = "submitted", !.acknowledged = c.key]
    OBVIOUS
  <2>4. /\ f \in EntryRows /\ f.key = None /\ ~f.uncertain
        /\ f.intent = w.entry[c.op].intent /\ f.active = 0 /\ f.status = "submitted"
    <3>1. w.entry[c.op].intent \in Nat /\ c.key \in Nat
      BY <1>1, <2>2, RowFields
    <3>2. f \in EntryRows
      BY <3>1, <2>3, EmptyIs DEF EntryRows
    <3>3. /\ f.key = EmptyEntry.key /\ f.uncertain = EmptyEntry.uncertain
          /\ f.intent = w.entry[c.op].intent /\ f.active = EmptyEntry.active
          /\ f.status = "submitted"
      BY <2>3, EmptyIs DEF EntryRows
    <3> QED BY <3>2, <3>3, EmptyIs
  <2>5. c.op \notin Pending
    BY <1>3, OpKinds
  <2>6. Says(w, c, "done")
    BY <1>2 DEF Says
  <2>7. CommandOk(server, Ends(f, w, c, "done"), late, used)
    BY <2>2, <2>4, <2>5, <2>6, EndsKeeps
  <2>8. window' = Ends(f, w, c, "done")
    BY <1>3, <2>1, <2>3 DEF Succeeds, RunSubmitted
  <2> QED BY <1>2, <2>7, <2>8 DEF CommandInv
<1>4. CASE c.op \notin RunOps
  <2>1. PICK d : d = [c EXCEPT !.state = "Refreshing"]
    OBVIOUS
  <2>2. /\ d \in CallRows /\ Same(c, d) /\ d.state = "Refreshing" /\ d.answer = c.answer
        /\ d.token = c.token /\ d.by = c.by /\ d.sameSession = c.sameSession
    BY <1>1, <2>1 DEF CallRows, Same
  <2>3. AnswerOk(server, d)
    BY <1>1, <1>2, <1>4, <2>2, OpKinds DEF AnswerOk, Same
  <2>4. Becomes(Without(c), d)
    BY <1>4, <2>1 DEF Succeeds
  <2> QED BY <1>1, <1>2, <2>2, <2>3, <2>4, GoesOn
<1> QED BY <1>3, <1>4

\* The refresh after a success, of a pending request that is still in its map.
LEMMA PendingDoneKeeps ==
    ASSUME CommandInv, NEW c \in window.calls, NEW w, Over(w, c),
           c.op \in Pending, c.answer = "Ok"
    PROVE  CommandOk(server, PendingDone(w, c), late, used)
<1>1. c \in CallRows /\ c.op \in Ops /\ w \in WindowRows /\ w.entry = window.entry
  BY CallParts, RowFields DEF Over
<1>2. PICK e : e = [w.entry[c.op] EXCEPT !.active = w.entry[c.op].active - 1]
  OBVIOUS
<1>3. w.entry[c.op] \in EntryRows
  BY <1>1, RowFields
<1>4. /\ e \in EntryRows /\ e.key = w.entry[c.op].key /\ e.intent = w.entry[c.op].intent
      /\ e.expected = w.entry[c.op].expected /\ e.uncertain = w.entry[c.op].uncertain
      /\ e.active = w.entry[c.op].active - 1
  <2>1. PICK a \in Int : a = w.entry[c.op].active - 1
    BY <1>3, RowFields
  <2>2. e = [w.entry[c.op] EXCEPT !.active = a]
    BY <2>1, <1>2
  <2>3. /\ e \in EntryRows /\ e.key = w.entry[c.op].key /\ e.intent = w.entry[c.op].intent
        /\ e.expected = w.entry[c.op].expected /\ e.uncertain = w.entry[c.op].uncertain
        /\ e.active = a
    BY <2>2, <1>3 DEF EntryRows
  <2> QED BY <2>1, <2>3
<1>5. Mine(w, c)
  BY <1>1, InvParts DEF Mine, CommandInv, CallsOk
<1>6. c.op \notin RunOps
  BY OpKinds
<1>7. PendingDone(w, c) =
         IF e.active = 0 THEN Ends(Forgotten(e), w, c, "done")
         ELSE Put(Tells(w, c, "done"), c.op, e)
  BY <1>2, <1>3, <1>5 DEF PendingDone, EntryRows
<1>8. CASE e.active = 0
  <2>1. PICK f : f = Forgotten(e)
    OBVIOUS
  <2>2. /\ f \in EntryRows /\ f.key = None /\ ~f.uncertain /\ f.intent = e.intent
        /\ f.active = 0 /\ f.status = "draft"
    BY <2>1, <1>4, ForgottenIs
  <2>3. Says(w, c, "done")
    BY DEF Says
  <2>4. c.op \in Pending => f.active = w.entry[c.op].active - 1
    BY <2>2, <1>4, <1>8
  <2>5. CommandOk(server, Ends(f, w, c, "done"), late, used)
    BY <2>2, <2>3, <2>4, <1>4, EndsKeeps
  <2> QED BY <2>1, <2>5, <1>7, <1>8
<1>9. CASE e.active # 0
  <2>1. PICK v : v = Tells(w, c, "done")
    OBVIOUS
  <2>2. /\ v \in WindowRows
        /\ v.told = w.told \cup
              {[op |-> c.op, intent |-> c.intent, by |-> c.by, how |-> "done"]}
        /\ v.entry = w.entry /\ v.saved = w.saved
        /\ v.calls = w.calls /\ v.token = w.token
        /\ v.principal = w.principal /\ v.seen = w.seen
        /\ v.exchanging = w.exchanging /\ v.inbox = w.inbox
    BY <1>1, <2>1, TellsIs
  <2>3. PICK w1 : w1 = Put(v, c.op, e)
    OBVIOUS
  <2>4. /\ w1 \in WindowRows /\ Puts(v, w1, c.op, e)
        /\ w1.token = v.token /\ w1.principal = v.principal
        /\ w1.calls = v.calls /\ w1.seen = v.seen
        /\ w1.exchanging = v.exchanging
        /\ w1.inbox = v.inbox /\ w1.told = v.told
    BY ONLY <1>1, <1>4, <2>2, <2>3, PutIs, ZenonT(60)
  <2>5. Puts(w, w1, c.op, e)
    BY <2>2, <2>4 DEF Puts
  <2>6. PICK done \in BOOLEAN : done = TRUE
    OBVIOUS
  <2>7. /\ w1.token = w.token /\ w1.principal = w.principal /\ w1.calls = w.calls
        /\ w1.seen = w.seen /\ w1.exchanging = w.exchanging /\ w1.inbox = w.inbox
        /\ w1.told = w.told \cup
              (IF done
               THEN {[op |-> c.op, intent |-> c.intent, by |-> c.by, how |-> "done"]}
               ELSE {})
    BY <2>2, <2>4, <2>6
  <2>8. /\ w.entry[c.op].uncertain => e.uncertain
        /\ c.answer = "Error" => e.uncertain
        /\ c.op \in Pending => e.active = w.entry[c.op].active - 1
        /\ c.op \in RunOps => e.status # "submitting"
        /\ done => c.op \in Pending
        /\ c.answer = "Ok" => done
    BY <1>4, <1>6, <2>6
  <2>9. CommandOk(server, w1, late, used)
    BY <1>4, <2>4, <2>5, <2>7, <2>8, OverGoesOn
  <2> QED BY <1>7, <1>9, <2>1, <2>3, <2>9
<1> QED BY <1>8, <1>9

LEMMA RefreshEndsKeeps ==
    ASSUME CommandInv, NEW c \in window.calls, RefreshEnds(c) PROVE CommandInv'
<1>1. /\ c \in CallRows /\ c.op \in Ops /\ AnswerOk(server, c) /\ server \in ServerRows
  BY CallParts, RowFields
<1>2. c.answer = "Ok" /\ c.op \in Pending
  BY <1>1 DEF RefreshEnds, AnswerOk
<1>3. PICK v : v = Without(c)
  OBVIOUS
<1>4. Over(v, c) /\ v \in WindowRows
  BY <1>3, WithoutIsOver DEF Over
<1>5. PICK x \in Nat : x = server.revision[c.op]
  BY <1>1, RowFields
<1>6. PICK w : w = [v EXCEPT !.seen[c.op] = x]
  OBVIOUS
<1>7. Over(w, c)
  <2>1. PICK seen : seen = [v.seen EXCEPT ![c.op] = x]
    OBVIOUS
  <2>2. seen \in [Ops -> Nat] /\ \A o \in Ops : seen[o] <= server.revision[o]
    <3>1. v.seen \in [Ops -> Nat] /\ \A o \in Ops : v.seen[o] <= server.revision[o]
      BY <1>4, RowFields DEF Over
    <3>2. \A o \in Ops : seen[o] = IF o = c.op THEN x ELSE v.seen[o]
      BY <2>1, <3>1
    <3>3. server.revision \in [Ops -> Nat]
      BY <1>1, RowFields
    <3>4. x <= server.revision[c.op]
      BY <1>5
    <3>5. seen \in [Ops -> Nat]
      BY <2>1, <3>1
    <3> QED BY <3>1, <3>2, <3>4, <3>5
  <2>3. w = [v EXCEPT !.seen = seen]
    BY <1>4, <1>6, <2>1 DEF WindowRows
  <2>4. /\ w \in WindowRows /\ w.seen = seen /\ w.calls = v.calls
        /\ w.entry = v.entry /\ w.saved = v.saved /\ w.told = v.told
        /\ w.token = v.token /\ w.principal = v.principal
        /\ w.exchanging = v.exchanging /\ w.inbox = v.inbox
    BY <1>4, <2>2, <2>3 DEF WindowRows
  <2> QED BY <1>4, <2>2, <2>4 DEF Over
<1>8. CommandOk(server, PendingDone(w, c), late, used)
  BY <1>2, <1>7, PendingDoneKeeps
<1>9. window' = PendingDone(w, c) /\ UNCHANGED <<server, late, used>>
  BY <1>3, <1>5, <1>6 DEF RefreshEnds
<1> QED BY <1>8, <1>9 DEF CommandInv

LEMMA RejectsKeeps ==
    ASSUME CommandInv, NEW c \in window.calls, Rejects(c) PROVE CommandInv'
<1>1. c.answer \in Failures /\ Thrown(Without(c), c) /\ UNCHANGED <<server, late, used>>
  BY DEF Rejects, Failures
<1> QED BY <1>1, ThrownKeeps

LEMMA UnauthenticatedKeeps ==
    ASSUME CommandInv, NEW c \in window.calls, Unauthenticated(c) PROVE CommandInv'
<1>1. c.answer = "401" /\ c.answer \in Failures /\ UNCHANGED <<server, late, used>>
  BY DEF Unauthenticated, Failures, Authentication
<1>2. CASE /\ c.op \notin Posts /\ c.attempt = 1
           /\ ~c.sameToken /\ window.token # None /\ window.principal = c.by
  <2>1. Unauthorized(c) = Without(c)
    BY <1>2 DEF Unauthorized
  <2>2. PICK attempt \in {2, 3} : attempt = 2
    OBVIOUS
  <2>3. Becomes(Without(c), [Sent(c) EXCEPT !.attempt = attempt])
    BY <1>2, <2>1, <2>2 DEF Unauthenticated
  <2> QED BY <1>1, <1>2, <2>3, SentAgain
<1>3. CASE ~(/\ c.op \notin Posts /\ c.attempt = 1
             /\ ~c.sameToken /\ window.token # None /\ window.principal = c.by)
  <2>1. Unauthorized(c) \in {Without(c), Cleared(Without(c))}
    BY DEF Unauthorized
  <2>2. Thrown(Unauthorized(c), c)
    BY <1>3 DEF Unauthenticated
  <2> QED BY <1>1, <2>1, <2>2, ThrownKeeps
<1> QED BY <1>2, <1>3

LEMMA BadTokenKeeps ==
    ASSUME CommandInv, NEW c \in window.calls, BadToken(c) PROVE CommandInv'
<1>1. /\ c.answer = "403" /\ c.answer \in Failures /\ UNCHANGED <<server, late, used>>
  BY DEF BadToken, Failures, Authentication
<1>2. /\ c \in CallRows /\ AnswerOk(server, c)
      /\ c.token \in DOMAIN server.owner /\ server.owner[c.token] = c.by
      /\ c.sameSession => c.by = window.principal
  BY CallParts
<1>3. CASE c.attempt = 1
  <2>1. PICK d : d = [c EXCEPT !.state = "Rotating"]
    OBVIOUS
  <2>2. /\ d \in CallRows /\ Same(c, d) /\ d.state = "Rotating" /\ d.answer = c.answer
        /\ d.token = c.token /\ d.by = c.by /\ d.sameSession = c.sameSession
    BY <1>2, <2>1 DEF CallRows, Same
  <2>3. AnswerOk(server, d)
    BY <1>1, <1>2, <2>2 DEF AnswerOk, Same
  <2>4. Becomes(Without(c), d)
    BY <1>3, <2>1 DEF BadToken
  <2> QED BY <1>1, <1>2, <2>2, <2>3, <2>4, GoesOn
<1>4. CASE c.attempt # 1
  <2>1. PICK w : w = IF c.attempt = 3 /\ c.sameSession /\ c.sameToken
                     THEN Cleared(Without(c)) ELSE Without(c)
    OBVIOUS
  <2>2. w \in {Without(c), Cleared(Without(c))}
    BY <2>1
  <2>3. Thrown(w, c)
    BY <1>4, <2>1 DEF BadToken
  <2> QED BY <1>1, <2>2, <2>3, ThrownKeeps
<1> QED BY <1>3, <1>4

LEMMA RotationEndsKeeps ==
    ASSUME CommandInv, NEW c \in window.calls, RotationEnds(c) PROVE CommandInv'
<1>1. AnswerOk(server, c) /\ (c.sameSession => c.by = window.principal)
  BY CallParts
<1>2. /\ c.answer = "403" /\ c.answer \in Failures /\ UNCHANGED <<server, late, used>>
  BY <1>1 DEF RotationEnds, AnswerOk, Failures, Authentication
<1>3. CASE Rotated(c) /\ window.token # None /\ c.sameSession
  <2>1. PICK attempt \in {2, 3} : attempt = 3
    OBVIOUS
  <2>2. Becomes(Without(c), [Sent(c) EXCEPT !.attempt = attempt])
    BY <1>3, <2>1 DEF RotationEnds
  <2> QED BY <1>1, <1>2, <1>3, <2>2, SentAgain
<1>4. CASE ~(Rotated(c) /\ window.token # None /\ c.sameSession)
  <2>1. PICK w : w = IF c.sameSession THEN Cleared(Without(c)) ELSE Without(c)
    OBVIOUS
  <2>2. w \in {Without(c), Cleared(Without(c))}
    BY <2>1
  <2>3. Thrown(w, c)
    BY <1>4, <2>1 DEF RotationEnds
  <2> QED BY <1>2, <2>2, <2>3, ThrownKeeps
<1> QED BY <1>3, <1>4

-----------------------------------------------------------------------------
(* Refresh, submission and reload *)

\* Entry e of op means what it meant, and its calls are under way.
SameMeaning(w, op, e) ==
    /\ e.key = w.entry[op].key /\ e.intent = w.entry[op].intent
    /\ e.expected = w.entry[op].expected /\ e.uncertain = w.entry[op].uncertain

LEMMA RefreshKeeps ==
    ASSUME CommandInv, NEW op \in Ops, Refresh(op) PROVE CommandInv'
<1>1. /\ server \in ServerRows /\ window \in WindowRows /\ late \in SUBSET CallRows
      /\ used \in UsedRows /\ used.keys \in Nat /\ used.submits \in Nat
      /\ SessionsOk(server, window, late) /\ KeysOk(server, window, late, used.keys)
      /\ EntriesOk(server, window, late) /\ CallsOk(window, used.submits)
      /\ AnswersOk(server, window) /\ CertainOk(server, window, late)
      /\ ToldOk(server, window, late)
  BY InvParts DEF CommandInv
<1>2. PICK e : e = [window.entry[op] EXCEPT !.review = FALSE]
  OBVIOUS
<1>3. window.entry[op] \in EntryRows
  BY <1>1, RowFields
<1>4. /\ e \in EntryRows /\ SameMeaning(window, op, e)
      /\ e.active = window.entry[op].active /\ e.status = window.entry[op].status
  BY <1>2, <1>3 DEF EntryRows, SameMeaning
<1>5. PICK seen : seen = [window.seen EXCEPT ![op] = server.revision[op]]
  OBVIOUS
<1>6. seen \in [Ops -> Nat] /\ \A o \in Ops : seen[o] <= server.revision[o]
  <2>1. PICK x \in Nat : x = server.revision[op]
    BY <1>1, RowFields
  <2>2. window.seen \in [Ops -> Nat] /\ \A o \in Ops : window.seen[o] <= server.revision[o]
    BY <1>1, RowFields DEF KeysOk
  <2>3. seen = [window.seen EXCEPT ![op] = x]
    BY <1>5, <2>1
  <2>4. seen \in [Ops -> Nat]
    BY <2>2, <2>3
  <2>5. \A o \in Ops : seen[o] = IF o = op THEN x ELSE window.seen[o]
    BY <2>2, <2>3
  <2>6. x <= server.revision[op]
    BY <2>1
  <2> QED BY <2>2, <2>4, <2>5, <2>6
<1>7. PICK v : v = [window EXCEPT !.seen = seen]
  OBVIOUS
<1>8. /\ v \in WindowRows /\ v.seen = seen /\ v.calls = window.calls
      /\ v.entry = window.entry /\ v.saved = window.saved /\ v.told = window.told
      /\ v.token = window.token /\ v.principal = window.principal
      /\ v.exchanging = window.exchanging /\ v.inbox = window.inbox
  BY <1>1, <1>6, <1>7 DEF WindowRows
<1>9. PICK w1 : w1 = Put(v, op, e)
  OBVIOUS
<1>10. /\ w1 \in WindowRows /\ Puts(v, w1, op, e)
       /\ w1.token = v.token /\ w1.principal = v.principal
       /\ w1.calls = v.calls /\ w1.seen = v.seen
       /\ w1.exchanging = v.exchanging
       /\ w1.inbox = v.inbox /\ w1.told = v.told
  BY <1>4, <1>8, <1>9, PutIs
<1>11. window' = w1 /\ UNCHANGED <<server, late, used>>
  <2>1. [window EXCEPT !.seen[op] = server.revision[op]] = v
    BY <1>1, <1>5, <1>7 DEF WindowRows
  <2> QED BY <2>1, <1>2, <1>9 DEF Refresh
<1>12. Puts(window, w1, op, e)
  BY <1>8, <1>10 DEF Puts
<1>13. /\ KeysOk(server, w1, late, used.keys) /\ EntriesOk(server, w1, late)
       /\ ToldOk(server, w1, late)
  <2>1. /\ e.key = window.entry[op].key /\ e.intent = window.entry[op].intent
        /\ e.expected = window.entry[op].expected
    BY <1>4 DEF SameMeaning
  <2>2. e.uncertain => e.key # None
    BY <1>1, <1>4 DEF SameMeaning, EntriesOk, EntryOk
  <2>3. \A a \in Asked(w1, late) :
           a \in Asked(window, late) \/ (e.key # None /\ a = Claim(op, e))
    BY <1>8, <1>10 DEF Asked, Requests
  <2>4. \A o \in Ops : w1.seen[o] <= server.revision[o]
    BY <1>6, <1>8, <1>10
  <2>5. /\ window.told \subseteq w1.told
        /\ \A t \in w1.told : \/ t \in window.told
                              \/ /\ t.how = "done" /\ t.op = op /\ op \notin RunOps
                                 /\ t.intent = e.intent /\ e.key # None
    BY <1>8, <1>10
  <2>6. server \in ServerRows /\ window \in WindowRows /\ used.keys \in Nat
        /\ w1 \in WindowRows /\ e \in EntryRows
        /\ KeysOk(server, window, late, used.keys) /\ EntriesOk(server, window, late)
        /\ ToldOk(server, window, late)
    BY <1>1, <1>4, <1>10
  <2> QED BY ONLY op \in Ops, <1>12, <2>1, <2>2, <2>3, <2>4, <2>5, <2>6, Keeping
<1>14. \A o \in Ops : /\ w1.entry[o].key = window.entry[o].key
                      /\ w1.entry[o].intent = window.entry[o].intent
                      /\ w1.entry[o].expected = window.entry[o].expected
                      /\ w1.entry[o].uncertain = window.entry[o].uncertain
                      /\ w1.entry[o].active = window.entry[o].active
                      /\ w1.entry[o].status = window.entry[o].status
  BY <1>1, <1>4, <1>12, RowFields DEF Puts, SameMeaning
<1>15. w1.calls = window.calls /\ w1.told = window.told
  BY <1>8, <1>10
<1>16. \A c \in window.calls : c.op \in Ops
  BY <1>1, RowFields
<1>17. CallsOk(w1, used.submits)
  <2>1. \A o : Numbers(w1, o) = Numbers(window, o)
    BY <1>15 DEF Numbers, CallsOf
  <2> QED BY <1>1, <1>14, <1>15, <1>16, <2>1, OpKinds DEF CallsOk
<1>18. CertainOk(server, w1, late)
  <2> SUFFICES ASSUME NEW o \in Ops PROVE CertainAt(server, w1, late, o)
    BY DEF CertainOk
  <2>1. CertainAt(server, window, late, o)
    BY <1>1 DEF CertainOk
  <2>2. Uncertain(w1, o) <=> Uncertain(window, o)
    BY <1>14, <1>15, OpKinds DEF Uncertain, CallsOf
  <2>3. \A k : Acknowledged(window, k) => Acknowledged(w1, k)
    BY <1>15 DEF Acknowledged, CallsOf
  <2> QED BY <1>14, <2>1, <2>2, <2>3, OpKinds DEF CertainAt
<1>19. AnswersOk(server, w1)
  BY <1>1, <1>15 DEF AnswersOk
<1>20. SessionsOk(server, w1, late)
  <2>1. Requests(w1, late) = Requests(window, late)
    BY <1>15 DEF Requests
  <2> QED BY <1>1, <1>8, <1>10, <2>1 DEF SessionsOk
<1>21. CommandOk(server, w1, late, used)
  BY <1>1, <1>10, <1>13, <1>17, <1>18, <1>19, <1>20 DEF CommandOk, Typed
<1> QED BY <1>11, <1>21 DEF CommandInv

\* A reload keeps what the session storage holds, and nothing else.
LEMMA ReloadKeeps ==
    ASSUME CommandInv, Reload PROVE CommandInv'
<1>1. /\ server \in ServerRows /\ window \in WindowRows /\ late \in SUBSET CallRows
      /\ used \in UsedRows /\ used.keys \in Nat /\ used.submits \in Nat
      /\ SessionsOk(server, window, late) /\ KeysOk(server, window, late, used.keys)
      /\ EntriesOk(server, window, late) /\ CallsOk(window, used.submits)
      /\ AnswersOk(server, window) /\ CertainOk(server, window, late)
      /\ ToldOk(server, window, late) /\ window.calls \subseteq CallRows
  BY InvParts DEF CommandInv
<1>2. PICK entry : entry = [o \in Ops |-> IF o \in Controls THEN window.saved[o]
                               ELSE [EmptyEntry EXCEPT !.intent = window.entry[o].intent + 1]]
  OBVIOUS
<1>3. window' = [token |-> window.token, principal |-> window.principal, calls |-> {},
                 entry |-> entry, seen |-> window.seen, broken |-> FALSE,
                 saved |-> window.saved, exchanging |-> {}, inbox |-> << >>,
                 told |-> window.told]
  BY <1>2 DEF Reload, FreshWindow
<1>4. ASSUME NEW o \in Ops, o \notin Controls
      PROVE  /\ entry[o] \in EntryRows /\ entry[o].key = None /\ ~entry[o].uncertain
             /\ entry[o].intent = window.entry[o].intent + 1
             /\ entry[o].active = 0 /\ entry[o].status = "draft"
  <2>1. PICK i \in Nat : i = window.entry[o].intent + 1
    <3>1. PICK j \in Nat : j = window.entry[o].intent
      BY <1>1, RowFields
    <3>2. j + 1 \in Nat
      BY NextIsNat
    <3> QED BY <3>1, <3>2
  <2>2. entry[o] = [EmptyEntry EXCEPT !.intent = i]
    BY <1>2, <1>4, <2>1
  <2>3. /\ entry[o] \in EntryRows /\ entry[o].key = EmptyEntry.key
        /\ entry[o].uncertain = EmptyEntry.uncertain
        /\ entry[o].intent = i
        /\ entry[o].active = EmptyEntry.active /\ entry[o].status = EmptyEntry.status
    BY <2>2, EmptyIs DEF EntryRows
  <2> QED BY <2>1, <2>3, EmptyIs
<1>5. \A o \in Controls : entry[o] = window.saved[o] /\ entry[o] \in EntryRows
  BY <1>1, <1>2, OpKinds, RowFields
<1>6. entry \in [Ops -> EntryRows]
  BY <1>2, <1>4, <1>5
<1>7. /\ window'.calls = {} /\ window'.entry = entry /\ window'.seen = window.seen
      /\ window'.saved = window.saved /\ window'.told = window.told
      /\ window'.token = window.token /\ window'.principal = window.principal
      /\ window'.exchanging = {} /\ window'.inbox = << >>
  BY <1>3
<1>8. window' \in WindowRows
  <2>1. << >> \in Seq(Nat) /\ {} \in SUBSET CallRows /\ {} \in SUBSET Nat
    OBVIOUS
  <2>2. /\ window.token \in Nat /\ window.principal \in Principals \cup {Nobody}
        /\ window.seen \in [Ops -> Nat] /\ window.saved \in [Controls -> EntryRows]
        /\ window.told \in SUBSET ToldRows
    BY <1>1 DEF WindowRows
  <2> QED BY ONLY <1>3, <1>6, <2>1, <2>2 DEF WindowRows
<1>9. late' = late \cup {c \in window.calls : Waiting(c)} /\ server' = server
  BY DEF Reload
<1>10. PICK l1 : l1 = late \cup {c \in window.calls : Waiting(c)}
  OBVIOUS
<1>11. l1 \in SUBSET CallRows /\ Requests(window', l1) \subseteq Requests(window, late)
  BY <1>1, <1>7, <1>10 DEF Requests
<1>12. used' \in UsedRows /\ used'.keys = used.keys /\ used'.submits = used.submits
  <2>1. Uses("reloads", MaxReloads)
    BY DEF Reload
  <2> QED BY <1>1, <2>1, UsesIs
<1>13. PICK w1 : w1 = window'
  OBVIOUS
<1>14. /\ w1 \in WindowRows /\ w1.calls = {} /\ w1.entry = entry /\ w1.seen = window.seen
       /\ w1.saved = window.saved /\ w1.told = window.told
       /\ w1.token = window.token /\ w1.principal = window.principal
       /\ w1.exchanging = {} /\ w1.inbox = << >>
       /\ Requests(w1, l1) \subseteq Requests(window, late)
  BY <1>7, <1>8, <1>11, <1>13
<1>15. Asked(w1, l1) \subseteq Asked(window, late)
  BY <1>14 DEF Asked
<1>16. Claims(w1, l1) \subseteq Claims(window, late)
  <2> SUFFICES ASSUME NEW a \in Claims(w1, l1) PROVE a \in Claims(window, late)
    OBVIOUS
  <2>1. CASE a \in Asked(w1, l1)
    BY <2>1, <1>15, AskedAreClaims
  <2>2. CASE \E o \in Ops : w1.entry[o].key # None /\ a = Claim(o, w1.entry[o])
    <3>1. PICK o \in Ops : w1.entry[o].key # None /\ a = Claim(o, w1.entry[o])
      BY <2>2
    <3>2. o \in Controls /\ w1.entry[o] = window.saved[o]
      BY <3>1, <1>4, <1>5, <1>14
    <3> QED BY <3>1, <3>2, SavedIsClaimed
  <2>3. CASE \E o \in Controls : w1.saved[o].key # None /\ a = Claim(o, w1.saved[o])
    BY <2>3, <1>14, SavedIsClaimed
  <2> QED BY <2>1, <2>2, <2>3 DEF Claims
<1>17. KeysOk(server, w1, l1, used.keys)
  <2>1. \A o \in Ops : w1.seen[o] <= server.revision[o]
    BY <1>1, <1>14 DEF KeysOk
  <2> QED BY <1>1, <1>16, <2>1, FewerKeys
<1>18. EntriesOk(server, w1, l1)
  <2>1. ASSUME NEW o \in Controls
        PROVE  EntryOk(server, w1, l1, o, window.saved[o])
               /\ Restful(window.saved[o])
    BY <1>1, <1>14, <1>16, FewerNames DEF EntriesOk
  <2>2. ASSUME NEW o \in Ops, o \notin Controls
        PROVE  EntryOk(server, w1, l1, o, entry[o])
    <3>1. EntryOk(server, window, late, o, window.entry[o])
      BY <1>1 DEF EntriesOk
    <3>2. PICK i \in Nat : i = window.entry[o].intent
      BY <1>1, RowFields
    <3>3. entry[o].intent = i + 1 /\ ~entry[o].uncertain
      BY <1>4, <2>2, <3>2
    <3>4. Named(server, w1, l1) \subseteq Named(server, window, late)
      BY <1>16 DEF Named
    <3>5. ASSUME NEW a \in Named(server, w1, l1), a.op = o PROVE a.intent < entry[o].intent
      <4>1. a.intent < i \/ a.intent = i
        BY <3>1, <3>2, <3>4, <3>5 DEF EntryOk
      <4>2. PICK j \in Nat : j = a.intent
        BY <1>1, <3>4, NamedRows
      <4> QED BY <3>3, <4>1, <4>2
    <3>6. ASSUME NEW t \in w1.told, t.op = o PROVE t.intent < entry[o].intent /\ t.intent \in Nat
      <4>1. t.intent < i \/ t.intent = i
        BY <1>14, <3>1, <3>2, <3>6 DEF EntryOk
      <4>2. PICK j \in Nat : j = t.intent
        BY <1>1, <1>14, RowFields DEF ToldRows
      <4> QED BY <3>3, <4>1, <4>2
    <3>7. \A t \in w1.told : t.op = o => t.intent # entry[o].intent
      BY <3>3, <3>6
    <3> QED BY <3>3, <3>5, <3>6, <3>7 DEF EntryOk
  <2>3. \A o \in Ops : EntryOk(server, w1, l1, o, w1.entry[o])
    BY <1>5, <1>14, <2>1, <2>2
  <2> QED BY <1>14, <2>1, <2>3 DEF EntriesOk
<1>19. CallsOk(w1, used.submits)
  <2>1. \A o : Numbers(w1, o) = {}
    BY <1>14 DEF Numbers, CallsOf
  <2>2. \A o \in RunOps : w1.entry[o].status # "submitting"
    BY <1>1, <1>4, <1>5, <1>14, OpKinds DEF EntriesOk, Restful
  <2>3. \A o \in Pending : w1.entry[o].active = 0
    BY <1>4, <1>14, OpKinds
  <2> QED BY <1>14, <2>1, <2>2, <2>3, FS_EmptySet DEF CallsOk
<1>20. CertainOk(server, w1, l1)
  <2>1. \A o \in Ops : o \notin Controls => w1.entry[o].key = None
    BY <1>4, <1>14
  <2>2. \A o \in Controls : w1.entry[o].key # None => w1.entry[o].uncertain
    BY <1>1, <1>5, <1>14 DEF EntriesOk, Restful
  <2> QED BY <2>1, <2>2 DEF CertainOk, CertainAt, Uncertain
<1>21. AnswersOk(server, w1)
  BY <1>14 DEF AnswersOk
<1>22. ToldOk(server, w1, l1)
  <2>1. \A t : Denied(w1, t) <=> Denied(window, t)
    BY <1>14 DEF Denied
  <2> QED BY <1>1, <1>14, <1>15, <2>1 DEF ToldOk
<1>23. SessionsOk(server, w1, l1)
  BY <1>1, <1>14 DEF SessionsOk
<1>24. CommandOk(server, w1, l1, used')
  BY <1>1, <1>11, <1>12, <1>14, <1>17, <1>18, <1>19, <1>20, <1>21, <1>22, <1>23
     DEF CommandOk, Typed
<1> QED BY <1>9, <1>10, <1>13, <1>24 DEF CommandInv

\* What a submission makes: call d of entry e, which is put into the window with it.
LEMMA SubmitIs ==
    ASSUME CommandInv, NEW op \in Ops, Submit(op)
    PROVE  \E d \in CallRows, e \in EntryRows, v \in WindowRows :
              /\ d.n = used.submits /\ d.op = op /\ d.key = e.key /\ d.intent = e.intent
              /\ d.expected = e.expected /\ d.by = window.principal
              /\ d.token = window.token /\ d.state = "Sent" /\ d.answer = "None"
              /\ e.status = "submitting" /\ e.intent = window.entry[op].intent
              /\ e.active = window.entry[op].active + 1
              /\ e.uncertain = window.entry[op].uncertain
              /\ \/ /\ window.entry[op].key # None /\ e.key = window.entry[op].key
                    /\ e.expected = window.entry[op].expected
                 \/ /\ window.entry[op].key = None /\ e.key = used.keys + 1
                    /\ e.expected = window.seen[op]
              /\ v.calls = window.calls \cup {d} /\ v.broken = window.broken
              /\ Stays(window, v) /\ v.token = window.token
              /\ v.principal = window.principal
              /\ v.exchanging = window.exchanging /\ v.inbox = window.inbox
              /\ window' = Put(v, op, e)
              /\ used' = [used EXCEPT !.submits = used.submits + 1,
                             !.keys = IF e.key > used.keys THEN e.key ELSE used.keys]
<1>1. /\ server \in ServerRows /\ window \in WindowRows /\ used \in UsedRows
      /\ used.keys \in Nat /\ used.submits \in Nat
      /\ SessionsOk(server, window, late)
  BY InvParts DEF CommandInv
<1>2. PICK e0 \in EntryRows : e0 = window.entry[op]
  BY <1>1, RowFields
<1>3. PICK r : r = Request(e0, op)
  OBVIOUS
<1>4. /\ r.key \in Nat /\ r.expected \in Nat
      /\ \/ e0.key # None /\ r.key = e0.key /\ r.expected = e0.expected
         \/ e0.key = None /\ r.key = used.keys + 1 /\ r.expected = window.seen[op]
  <2>1. CASE e0.key # None
    <3>1. r = [key |-> e0.key, expected |-> e0.expected]
      BY <1>3, <2>1 DEF Request
    <3> QED BY <3>1, <2>1, RowFields
  <2>2. CASE e0.key = None
    <3>1. r = [key |-> used.keys + 1, expected |-> window.seen[op]]
      BY <1>3, <2>2 DEF Request
    <3>2. PICK j \in Nat : j = used.keys
      BY <1>1
    <3>3. j + 1 \in Nat /\ window.seen[op] \in Nat
      BY <1>1, NextIsNat, RowFields
    <3> QED BY <3>1, <3>2, <3>3, <2>2
  <2> QED BY <2>1, <2>2
<1>5. window.principal \in Principals /\ server.cookie \in Nat /\ window.token \in Nat
  <2>1. window.principal # Nobody
    BY DEF Submit
  <2> QED BY <1>1, <2>1 DEF WindowRows, ServerRows
<1>6. PICK d : d = Sent(Call(op, r, e0))
  OBVIOUS
<1>7. d = [n |-> used.submits, op |-> op, key |-> r.key, expected |-> r.expected,
           intent |-> e0.intent, by |-> window.principal, sid |-> server.cookie,
           token |-> window.token, sameSession |-> TRUE, sameToken |-> TRUE, attempt |-> 1,
           state |-> "Sent", answer |-> "None"]
  BY <1>6 DEF Sent, Call
<1>8. d \in CallRows
  <2>1. e0.intent \in Nat
    BY RowFields
  <2> QED BY ONLY <1>1, <1>4, <1>5, <1>7, <2>1, op \in Ops DEF CallRows
<1>9. /\ d.n = used.submits /\ d.op = op /\ d.key = r.key /\ d.intent = e0.intent
      /\ d.expected = r.expected /\ d.by = window.principal
      /\ d.token = window.token /\ d.state = "Sent" /\ d.answer = "None"
  BY <1>7
<1>10. PICK e : e = [e0 EXCEPT !.status = "submitting", !.key = r.key,
                        !.principal = window.principal, !.expected = r.expected,
                        !.rejected = 0, !.active = e0.active + 1]
  OBVIOUS
<1>11. /\ e \in EntryRows /\ e.key = r.key /\ e.expected = r.expected
       /\ e.status = "submitting" /\ e.intent = e0.intent /\ e.active = e0.active + 1
       /\ e.uncertain = e0.uncertain
  <2>1. PICK a \in Int : a = e0.active + 1
    BY RowFields
  <2>2. e = [e0 EXCEPT !.status = "submitting", !.key = r.key,
                        !.principal = window.principal, !.expected = r.expected,
                        !.rejected = 0, !.active = a]
    BY <1>10, <2>1
  <2>3. /\ e \in EntryRows /\ e.key = r.key /\ e.expected = r.expected
        /\ e.status = "submitting" /\ e.intent = e0.intent /\ e.active = a
        /\ e.uncertain = e0.uncertain
    BY <1>4, <1>5, <2>2 DEF EntryRows
  <2> QED BY <2>1, <2>3
<1>12. PICK calls : calls = window.calls \cup {d}
  OBVIOUS
<1>13. calls \in SUBSET CallRows
  BY <1>1, <1>8, <1>12, RowFields
<1>14. PICK v : v = [window EXCEPT !.calls = calls]
  OBVIOUS
<1>15. /\ v \in WindowRows /\ v.calls = calls /\ v.broken = window.broken
       /\ Stays(window, v) /\ v.token = window.token /\ v.principal = window.principal
       /\ v.exchanging = window.exchanging /\ v.inbox = window.inbox
  BY <1>1, <1>13, <1>14 DEF WindowRows, Stays
<1>16. window' = Put(v, op, e)
  <2>1. v = [window EXCEPT !.calls = @ \cup {Sent(Call(op, r, e0))}]
    BY <1>1, <1>6, <1>12, <1>14 DEF WindowRows
  <2>2. e = [e0 EXCEPT !.status = "submitting", !.key = r.key,
               !.principal = window.principal, !.expected = r.expected,
               !.rejected = 0, !.active = @ + 1]
    BY <1>10 DEF EntryRows
  <2> QED BY <1>2, <1>3, <2>1, <2>2 DEF Submit
<1>17. used' = [used EXCEPT !.submits = used.submits + 1,
                   !.keys = IF e.key > used.keys THEN e.key ELSE used.keys]
  BY <1>1, <1>2, <1>3, <1>11 DEF Submit, UsedRows
<1>18. /\ d.key = e.key /\ d.intent = e.intent /\ d.expected = e.expected
       /\ e.intent = window.entry[op].intent
       /\ e.active = window.entry[op].active + 1
       /\ e.uncertain = window.entry[op].uncertain
       /\ \/ /\ window.entry[op].key # None /\ e.key = window.entry[op].key
             /\ e.expected = window.entry[op].expected
          \/ /\ window.entry[op].key = None /\ e.key = used.keys + 1
             /\ e.expected = window.seen[op]
  BY <1>2, <1>4, <1>9, <1>11
<1> QED BY <1>8, <1>9, <1>11, <1>12, <1>15, <1>16, <1>17, <1>18

\* A first request and one that is made again.
LEMMA SubmitKeeps ==
    ASSUME CommandInv, NEW op \in Ops, Submit(op) PROVE CommandInv'
<1>1. /\ server \in ServerRows /\ window \in WindowRows /\ late \in SUBSET CallRows
      /\ used \in UsedRows /\ used.keys \in Nat /\ used.submits \in Nat
      /\ SessionsOk(server, window, late) /\ KeysOk(server, window, late, used.keys)
      /\ EntriesOk(server, window, late) /\ CallsOk(window, used.submits)
      /\ AnswersOk(server, window) /\ CertainOk(server, window, late)
      /\ ToldOk(server, window, late)
  BY InvParts DEF CommandInv
<1>2. PICK d \in CallRows, e \in EntryRows, v \in WindowRows :
         /\ d.n = used.submits /\ d.op = op /\ d.key = e.key /\ d.intent = e.intent
         /\ d.expected = e.expected /\ d.by = window.principal
         /\ d.token = window.token /\ d.state = "Sent" /\ d.answer = "None"
         /\ e.status = "submitting" /\ e.intent = window.entry[op].intent
         /\ e.active = window.entry[op].active + 1
         /\ e.uncertain = window.entry[op].uncertain
         /\ \/ /\ window.entry[op].key # None /\ e.key = window.entry[op].key
               /\ e.expected = window.entry[op].expected
            \/ /\ window.entry[op].key = None /\ e.key = used.keys + 1
               /\ e.expected = window.seen[op]
         /\ v.calls = window.calls \cup {d} /\ v.broken = window.broken
         /\ Stays(window, v) /\ v.token = window.token
         /\ v.principal = window.principal
         /\ v.exchanging = window.exchanging /\ v.inbox = window.inbox
         /\ window' = Put(v, op, e)
         /\ used' = [used EXCEPT !.submits = used.submits + 1,
                        !.keys = IF e.key > used.keys THEN e.key ELSE used.keys]
  BY SubmitIs
<1>3. /\ window.principal # Nobody
      /\ op \in Controls => ~window.broken
      /\ op \in RunOps => window.entry[op].status # "submitting"
      /\ server' = server /\ late' = late
  BY DEF Submit
<1>4. PICK w1 : w1 = Put(v, op, e)
  OBVIOUS
<1>5. /\ w1 \in WindowRows /\ Puts(v, w1, op, e)
      /\ op \in Controls /\ ~v.broken => w1.saved = [v.saved EXCEPT ![op] = Kept(e)]
      /\ w1.token = v.token /\ w1.principal = v.principal
      /\ w1.calls = v.calls /\ w1.seen = v.seen
      /\ w1.exchanging = v.exchanging
      /\ w1.inbox = v.inbox /\ w1.told = v.told
  BY <1>2, <1>4, PutIs
<1>6. /\ Puts(window, w1, op, e)
      /\ op \in Controls => w1.saved = [window.saved EXCEPT ![op] = Kept(e)]
      /\ w1.token = window.token /\ w1.principal = window.principal
      /\ w1.calls = window.calls \cup {d} /\ w1.seen = window.seen
      /\ w1.exchanging = window.exchanging
      /\ w1.inbox = window.inbox /\ w1.told = window.told
  BY <1>2, <1>3, <1>5 DEF Puts, Stays
<1>7. Claim(d.op, d) = Claim(op, e)
  BY <1>2 DEF Claim
<1>8. \A a \in Asked(w1, late) : a \in Asked(window, late) \/ a = Claim(op, e)
  <2> SUFFICES ASSUME NEW a \in Asked(w1, late)
               PROVE  a \in Asked(window, late) \/ a = Claim(op, e)
    OBVIOUS
  <2>1. PICK q \in Requests(w1, late) : a = Claim(q.op, q)
    BY DEF Asked
  <2> QED BY <2>1, <1>6, <1>7 DEF Asked, Requests
<1>9. /\ used' \in UsedRows /\ used'.submits = used.submits + 1
      /\ used'.keys = IF e.key > used.keys THEN e.key ELSE used.keys
  <2>1. PICK m \in Nat : m = used.submits + 1
    <3>1. PICK j \in Nat : j = used.submits
      BY <1>1
    <3>2. j + 1 \in Nat
      BY NextIsNat
    <3> QED BY <3>1, <3>2
  <2>2. PICK n \in Nat : n = IF e.key > used.keys THEN e.key ELSE used.keys
    BY <1>1, RowFields
  <2>3. used' = [used EXCEPT !.submits = m, !.keys = n]
    BY <1>2, <2>1, <2>2
  <2>4. used' \in UsedRows /\ used'.submits = m /\ used'.keys = n
    BY <1>1, <2>3 DEF UsedRows
  <2> QED BY <2>1, <2>2, <2>4
<1>10. /\ KeysOk(server, w1, late, used'.keys) /\ EntriesOk(server, w1, late)
       /\ ToldOk(server, w1, late)
  <2>1. CASE /\ window.entry[op].key # None /\ e.key = window.entry[op].key
             /\ e.expected = window.entry[op].expected
    <3>1. e.key \in 1..used.keys
      <4>1. Claim(op, window.entry[op]) \in Claims(window, late)
            /\ Claim(op, window.entry[op]).key = window.entry[op].key
        BY <2>1, EntryIsClaimed
      <4>2. Claim(op, window.entry[op]) \in Named(server, window, late)
        BY <4>1 DEF Named
      <4> QED BY <1>1, <2>1, <4>1, <4>2 DEF KeysOk
    <3>2. used'.keys = used.keys
      <4>1. PICK k \in Nat, n \in Nat : k = e.key /\ n = used.keys
        BY <1>1, RowFields
      <4>2. k \in 1..n
        BY <3>1, <4>1
      <4>3. ~(k > n)
        BY ONLY <4>2, k \in Nat, n \in Nat
      <4> QED BY <1>9, <4>1, <4>3
    <3>3. e.uncertain => e.key # None
      BY <2>1
    <3>4. \A a \in Asked(w1, late) :
             a \in Asked(window, late) \/ (e.key # None /\ a = Claim(op, e))
      BY <1>8, <2>1
    <3>5. \A o \in Ops : w1.seen[o] <= server.revision[o]
      BY <1>1, <1>6 DEF KeysOk
    <3>6. /\ window.told \subseteq w1.told
          /\ \A t \in w1.told : \/ t \in window.told
                                \/ /\ t.how = "done" /\ t.op = op /\ op \notin RunOps
                                   /\ t.intent = e.intent /\ e.key # None
      BY <1>6
    <3>7. server \in ServerRows /\ window \in WindowRows /\ used.keys \in Nat
          /\ w1 \in WindowRows /\ e \in EntryRows /\ e.intent = window.entry[op].intent
          /\ KeysOk(server, window, late, used.keys) /\ EntriesOk(server, window, late)
          /\ ToldOk(server, window, late) /\ Puts(window, w1, op, e)
      BY <1>1, <1>2, <1>5, <1>6
    <3>8. /\ KeysOk(server, w1, late, used.keys) /\ EntriesOk(server, w1, late)
          /\ ToldOk(server, w1, late)
      BY ONLY op \in Ops, <2>1, <3>3, <3>4, <3>5, <3>6, <3>7, Keeping
    <3> QED BY <3>2, <3>8
  <2>2. CASE /\ window.entry[op].key = None /\ e.key = used.keys + 1
             /\ e.expected = window.seen[op]
    <3>1. used'.keys = used.keys + 1
      <4>1. PICK n \in Nat : n = used.keys
        BY <1>1
      <4>2. n + 1 > n
        BY ONLY n \in Nat
      <4> QED BY <1>9, <2>2, <4>1, <4>2
    <3>2. /\ w1.entry = [window.entry EXCEPT ![op] = e]
          /\ \/ op \notin Controls /\ w1.saved = window.saved
             \/ op \in Controls /\ w1.saved = [window.saved EXCEPT ![op] = Kept(e)]
      BY <1>6 DEF Puts
    <3>3. server \in ServerRows /\ window \in WindowRows /\ used.keys \in Nat
          /\ w1 \in WindowRows /\ e \in EntryRows /\ e.intent = window.entry[op].intent
          /\ KeysOk(server, window, late, used.keys) /\ EntriesOk(server, window, late)
          /\ ToldOk(server, window, late) /\ w1.seen = window.seen /\ w1.told = window.told
      BY <1>1, <1>2, <1>5, <1>6
    <3>4. /\ KeysOk(server, w1, late, used.keys + 1) /\ EntriesOk(server, w1, late)
          /\ ToldOk(server, w1, late)
      BY ONLY op \in Ops, <1>8, <2>2, <3>2, <3>3, Naming
    <3> QED BY <3>1, <3>4
  <2> QED BY <1>2, <2>1, <2>2
<1>11. CallsOk(w1, used'.submits)
  <2>1. w1.entry = [window.entry EXCEPT ![op] = e]
    BY <1>6 DEF Puts
  <2>2. \/ \A c \in window.calls : c.op # op
        \/ /\ e.key = window.entry[op].key /\ e.intent = window.entry[op].intent
           /\ e.expected = window.entry[op].expected
    <3>1. ASSUME NEW c \in window.calls, c.op = op PROVE window.entry[op].key # None
      <4>1. c \in Requests(window, late) /\ c.key = window.entry[op].key
        BY <1>1, <3>1 DEF Requests, CallsOk
      <4>2. Claim(c.op, c) \in Named(server, window, late) /\ Claim(c.op, c).key = c.key
        BY <4>1, RequestIsAsked DEF Named
      <4> QED BY <1>1, <4>1, <4>2, NamedKeys
    <3> QED BY <1>2, <3>1
  <2>3. CallsOk(w1, used.submits + 1)
    <3>1. window \in WindowRows /\ used.submits \in Nat /\ CallsOk(window, used.submits)
      BY <1>1
    <3>2. /\ d.n = used.submits /\ d.op = op /\ d.key = e.key /\ d.intent = e.intent
          /\ d.expected = e.expected /\ e.active = window.entry[op].active + 1
          /\ e.status = "submitting"
      BY <1>2
    <3>3. w1.calls = window.calls \cup {d}
      BY <1>6
    <3>4. op \in RunOps => window.entry[op].status # "submitting"
      BY <1>3
    <3> QED BY ONLY op \in Ops, <2>1, <2>2, <3>1, <3>2, <3>3, <3>4, CallAdded
  <2> QED BY <1>9, <2>3
<1>12. CertainOk(server, w1, late)
  <2> SUFFICES ASSUME NEW o \in Ops PROVE CertainAt(server, w1, late, o)
    BY DEF CertainOk
  <2>1. CertainAt(server, window, late, o)
    BY <1>1 DEF CertainOk
  <2>2. \A k : Acknowledged(window, k) => Acknowledged(w1, k)
    BY <1>6 DEF Acknowledged, CallsOf
  <2>3. o \in Ops /\ w1.entry[o] = IF o = op THEN e ELSE window.entry[o]
    BY <1>1, <1>6, OpKinds, RowFields DEF Puts
  <2>4. CASE window.entry[o].key # None
    <3>1. /\ w1.entry[o].key = window.entry[o].key
          /\ w1.entry[o].intent = window.entry[o].intent
          /\ w1.entry[o].uncertain = window.entry[o].uncertain
      BY <1>2, <2>3, <2>4
    <3>2. Uncertain(window, o) => Uncertain(w1, o)
      BY <3>1, <1>6 DEF Uncertain, CallsOf
    <3> QED BY <2>1, <2>2, <3>1, <3>2 DEF CertainAt
  <2>5. CASE window.entry[o].key = None
    <3>1. CASE o # op
      BY <2>3, <2>5, <3>1 DEF CertainAt
    <3>2. CASE o = op
      <4>1. EntryOk(server, window, late, o, window.entry[o])
        BY <1>1, <2>3 DEF EntriesOk
      <4>2. w1.entry[o].intent = window.entry[o].intent
        BY <1>2, <2>3, <3>2
      <4>3. ASSUME NEW a \in Named(server, window, late), a.op = o
            PROVE  a.intent # window.entry[o].intent
        <5>1. a.key # None
          BY <1>1, NamedKeys
        <5>2. a.intent < window.entry[o].intent
          BY <2>5, <4>1, <4>3, <5>1 DEF EntryOk
        <5>3. PICK i \in Nat, j \in Nat : i = a.intent /\ j = window.entry[o].intent
          BY <1>1, <2>3, NamedRows, RowFields
        <5>4. i < j
          BY <5>2, <5>3
        <5>5. i # j
          BY ONLY <5>4, i \in Nat, j \in Nat
        <5> QED BY <5>3, <5>5
      <4>4. \A k \in server.commits : ~(k.op = o /\ k.intent = w1.entry[o].intent)
        BY <4>2, <4>3 DEF Named
      <4>5. ASSUME NEW q \in late, q.op = o PROVE q.intent # w1.entry[o].intent
        <5>1. q \in Requests(window, late)
          BY DEF Requests
        <5>2. /\ Claim(q.op, q) \in Named(server, window, late)
              /\ Claim(q.op, q).op = o /\ Claim(q.op, q).intent = q.intent
          BY <4>5, <5>1, RequestIsAsked DEF Named
        <5> QED BY <4>2, <4>3, <5>2
      <4> QED BY <4>4, <4>5 DEF CertainAt
    <3> QED BY <3>1, <3>2
  <2> QED BY <2>4, <2>5
<1>13. AnswersOk(server, w1)
  <2>1. AnswerOk(server, d)
    BY <1>2 DEF AnswerOk
  <2> QED BY <1>1, <1>6, <2>1 DEF AnswersOk
<1>14. SessionsOk(server, w1, late)
  <2>1. /\ window.token # None /\ d.token \in DOMAIN server.owner
        /\ server.owner[d.token] = d.by
    BY <1>1, <1>2, <1>3 DEF SessionsOk
  <2>2. \A q \in Requests(w1, late) : q \in Requests(window, late) \/ q = d
    BY <1>6 DEF Requests
  <2>3. \A q \in Requests(w1, late) :
           q.token \in DOMAIN server.owner /\ server.owner[q.token] = q.by
    BY <1>1, <2>1, <2>2 DEF SessionsOk
  <2>4. \A c \in w1.calls : c.sameSession => c.by = w1.principal
    BY <1>1, <1>2, <1>6 DEF SessionsOk
  <2> QED BY <1>1, <1>6, <2>3, <2>4 DEF SessionsOk
<1>15. CommandOk(server, w1, late, used')
  BY <1>1, <1>5, <1>9, <1>10, <1>11, <1>12, <1>13, <1>14 DEF CommandOk, Typed
<1> QED BY <1>2, <1>3, <1>4, <1>15 DEF CommandInv

-----------------------------------------------------------------------------
(* The invariant holds *)

LEMMA InitKeeps == CommandInit => CommandInv
<1> SUFFICES ASSUME CommandInit PROVE CommandInv
  OBVIOUS
<1>1. PICK permits \in [Ops -> BOOLEAN] :
         server = [live |-> {}, owner |-> << >>, cookie |-> None,
                   revision |-> [o \in Ops |-> 1], permits |-> permits, commits |-> {}]
  BY DEF CommandInit
<1>2. window = FreshWindow /\ late = {}
      /\ used = [submits |-> 0, faults |-> 0, moves |-> 0, reloads |-> 0, keys |-> 0]
  BY DEF CommandInit
<1>3. PICK ones : ones = [o \in Ops |-> 1]
  OBVIOUS
<1>4. PICK entry : entry = [o \in Ops |-> EmptyEntry]
  OBVIOUS
<1>5. PICK saved : saved = [o \in Controls |-> EmptyEntry]
  OBVIOUS
<1>6. /\ ones \in [Ops -> Nat] /\ \A o \in Ops : ones[o] = 1
      /\ entry \in [Ops -> EntryRows] /\ \A o \in Ops : entry[o] = EmptyEntry
      /\ saved \in [Controls -> EntryRows] /\ \A o \in Controls : saved[o] = EmptyEntry
  BY <1>3, <1>4, <1>5, EmptyIs
<1>7. server = [live |-> {}, owner |-> << >>, cookie |-> 0, revision |-> ones,
                permits |-> permits, commits |-> {}]
  BY <1>1, <1>3 DEF None
<1>8. window = [token |-> 0, principal |-> Nobody, calls |-> {}, entry |-> entry,
                seen |-> ones, broken |-> FALSE, saved |-> saved, exchanging |-> {},
                inbox |-> << >>, told |-> {}]
  BY <1>2, <1>3, <1>4, <1>5 DEF FreshWindow, None
<1>9. Typed(server, window, late, used)
  <2>1. server \in ServerRows
    <3>1. << >> \in Seq(Principals)
      OBVIOUS
    <3> QED BY <1>6, <1>7, <3>1 DEF ServerRows
  <2>2. window \in WindowRows
    <3>1. << >> \in Seq(Nat)
      OBVIOUS
    <3> QED BY <1>6, <1>8, <3>1 DEF WindowRows
  <2>3. late \in SUBSET CallRows /\ used \in UsedRows
    BY <1>2 DEF UsedRows
  <2> QED BY <2>1, <2>2, <2>3 DEF Typed
<1>10. /\ server.live = {} /\ server.commits = {} /\ server.revision = ones
       /\ window.token = None /\ window.principal = Nobody /\ window.calls = {}
       /\ window.entry = entry /\ window.seen = ones /\ window.saved = saved
       /\ window.exchanging = {} /\ window.inbox = << >> /\ window.told = {}
       /\ late = {}
  BY <1>2, <1>7, <1>8 DEF None
<1>11. Requests(window, late) = {}
  BY <1>10 DEF Requests
<1>12. Claims(window, late) = {} /\ Named(server, window, late) = {}
  <2>1. \A o \in Ops : window.entry[o].key = None
    BY <1>6, <1>10, EmptyIs
  <2>2. \A o \in Controls : window.saved[o].key = None
    BY <1>6, <1>10, EmptyIs
  <2>3. Asked(window, late) = {}
    BY <1>11 DEF Asked
  <2> QED BY <1>10, <2>1, <2>2, <2>3 DEF Claims, Named
<1>13. SessionsOk(server, window, late)
  BY <1>10, <1>11 DEF SessionsOk
<1>14. KeysOk(server, window, late, used.keys)
  BY <1>6, <1>10, <1>12 DEF KeysOk
<1>15. EntriesOk(server, window, late)
  BY <1>6, <1>10, <1>12, EmptyIs, OpKinds DEF EntriesOk, EntryOk, Denied, Restful
<1>16. CallsOk(window, used.submits)
  <2>1. \A o : Numbers(window, o) = {}
    BY <1>10 DEF Numbers, CallsOf
  <2>2. \A o \in Ops : window.entry[o].status # "submitting" /\ window.entry[o].active = 0
    BY <1>6, <1>10, EmptyIs
  <2> QED BY <1>10, <2>1, <2>2, OpKinds, FS_EmptySet DEF CallsOk
<1>17. AnswersOk(server, window) /\ ToldOk(server, window, late)
  BY <1>10 DEF AnswersOk, ToldOk
<1>18. CertainOk(server, window, late)
  <2>1. \A o \in Ops : window.entry[o].key = None
    BY <1>6, <1>10, EmptyIs
  <2> QED BY <2>1 DEF CertainOk, CertainAt
<1> QED BY <1>9, <1>13, <1>14, <1>15, <1>16, <1>17, <1>18 DEF CommandInv, CommandOk

LEMMA NextKeeps == CommandInv /\ [CommandNext]_commandVars => CommandInv'
<1> SUFFICES ASSUME CommandInv, [CommandNext]_commandVars PROVE CommandInv'
  OBVIOUS
<1>1. CASE UNCHANGED commandVars
  BY <1>1 DEF commandVars, CommandInv
<1>2. CASE \E c \in window.calls : RotationEnds(c)
  BY <1>2, RotationEndsKeeps
<1>3. CASE Answering
  <2>1. PICK c \in window.calls : \/ Succeeds(c) \/ Rejects(c) \/ Unauthenticated(c)
                                  \/ BadToken(c) \/ RefreshEnds(c)
    BY <1>3 DEF Answering
  <2> QED BY <2>1, SucceedsKeeps, RejectsKeeps, UnauthenticatedKeeps, BadTokenKeeps,
             RefreshEndsKeeps
<1>4. CASE \E c \in window.calls : Arrive(c)
  BY <1>4, ArriveKeeps
<1>5. CASE \E c \in window.calls : Fails(c)
  BY <1>5, FailsKeeps
<1>6. CASE \E op \in Ops : Submit(op) \/ SaveFails(op) \/ Refresh(op)
  BY <1>6, SubmitKeeps, SaveFailsKeeps, RefreshKeeps
<1>7. CASE \E op \in Ops : Moves(op) \/ Permits(op)
  BY <1>7, MovesKeeps, PermitsKeeps
<1>8. CASE \E c \in late : ArrivesLate(c)
  BY <1>8, ArrivesLateKeeps
<1>9. CASE \E p \in Principals : SignIn(p) \/ OtherSignsIn(p)
  BY <1>9, SignInKeeps, OtherSignsInKeeps
<1>10. CASE SignedIn \/ SignInLost \/ SignOut \/ OtherSignsOut \/ Told
  BY <1>10, SignedInKeeps, SignInLostKeeps, SignOutKeeps, OtherSignsOutKeeps, ToldKeeps
<1>11. CASE \E sid \in server.live : SessionExpires(sid)
  BY <1>11, SessionExpiresKeeps
<1>12. CASE Reload
  BY <1>12, ReloadKeeps
<1> QED BY <1>1, <1>2, <1>3, <1>4, <1>5, <1>6, <1>7, <1>8, <1>9, <1>10, <1>11, <1>12
        DEF CommandNext

\* Calls have numbers of their own, so there are as many of them as of numbers.
LEMMA CallsAreCounted ==
    ASSUME CommandInv, NEW o \in Ops
    PROVE  Cardinality({c \in window.calls : c.op = o}) = Cardinality(Numbers(window, o))
<1>1. /\ window \in WindowRows /\ used.submits \in Nat /\ CallsOk(window, used.submits)
  BY InvParts DEF CommandInv
<1>2. IsFiniteSet(Numbers(window, o))
  BY <1>1, NumbersAreFinite
<1> DEFINE S == Numbers(window, o)
           T == {c \in window.calls : c.op = o}
           f == [x \in S |-> CHOOSE c \in T : c.n = x]
<1>3. \A x \in S : \E c \in T : c.n = x
  BY NumbersOf
<1>4. \A c \in T : c.n \in S
  BY NumbersOf
<1>5. \A c, d \in T : c.n = d.n => c = d
  BY <1>1 DEF CallsOk
<1> HIDE DEF S, T
<1>6. \A x \in S : f[x] \in T /\ f[x].n = x
  BY <1>3
<1>7. f \in [S -> T] /\ DOMAIN f = S
  BY <1>6
<1> HIDE DEF f
<1>8. IsInjective(f)
  BY <1>6, <1>7 DEF IsInjective
<1>9. \A c \in T : \E x \in S : f[x] = c
  BY <1>4, <1>5, <1>6
<1>10. f \in Bijection(S, T)
  BY <1>7, <1>8, <1>9 DEF Bijection, Injection, Surjection
<1>11. ExistsBijection(S, T)
  BY <1>10 DEF ExistsBijection
<1>12. Cardinality(T) = Cardinality(S)
  BY <1>2, <1>11, FS_Bijection DEF S
<1> QED BY <1>12 DEF S, T

LEMMA InvIsSafe == CommandInv => CommandSafety
<1> SUFFICES ASSUME CommandInv PROVE CommandSafety
  OBVIOUS
<1>1. /\ server \in ServerRows /\ window \in WindowRows
      /\ used.keys \in Nat
      /\ SessionsOk(server, window, late) /\ KeysOk(server, window, late, used.keys)
      /\ EntriesOk(server, window, late) /\ CallsOk(window, used.submits)
      /\ ToldOk(server, window, late)
  BY InvParts DEF CommandInv
<1>2. CommandTypeOK
  <2>1. /\ server.live \subseteq DOMAIN server.owner
        /\ window.token \in {None} \cup DOMAIN server.owner
        /\ window.principal =
              IF window.token = None THEN Nobody ELSE server.owner[window.token]
    BY <1>1 DEF SessionsOk
  <2>2. ASSUME NEW o \in Ops
        PROVE  LET e == window.entry[o] IN
          /\ e.key \in 0..used.keys
          /\ e.status \in {"draft", "submitting", "unknown", "auth-required",
                           "rejected", "submitted"}
          /\ o \in RunOps => (e.status = "submitting" <=> \E c \in window.calls : c.op = o)
          /\ o \in Pending => e.active = Cardinality({c \in window.calls : c.op = o})
          /\ e.uncertain => e.key # None
    <3>1. window.entry[o] \in EntryRows
      BY <1>1, RowFields
    <3>2. window.entry[o].key \in 0..used.keys
      <4>1. CASE window.entry[o].key = None
        BY <1>1, <4>1 DEF None
      <4>2. CASE window.entry[o].key # None
        <5>1. Claim(o, window.entry[o]) \in Named(server, window, late)
              /\ Claim(o, window.entry[o]).key = window.entry[o].key
          BY <4>2, EntryIsClaimed DEF Named
        <5>2. window.entry[o].key \in 1..used.keys
          BY <1>1, <5>1 DEF KeysOk
        <5> QED BY <5>2, <1>1
      <4> QED BY <4>1, <4>2
    <3>3. window.entry[o].status \in {"draft", "submitting", "unknown", "auth-required",
                                      "rejected", "submitted"}
      BY <3>1 DEF EntryRows
    <3>4. o \in RunOps => (window.entry[o].status = "submitting"
                           <=> \E c \in window.calls : c.op = o)
      BY <1>1 DEF CallsOk
    <3>5. o \in Pending =>
             window.entry[o].active = Cardinality({c \in window.calls : c.op = o})
      BY <1>1, CallsAreCounted DEF CallsOk
    <3>6. window.entry[o].uncertain => window.entry[o].key # None
      BY <1>1 DEF EntriesOk, EntryOk
    <3> QED BY <3>2, <3>3, <3>4, <3>5, <3>6
  <2> QED BY <2>1, <2>2 DEF CommandTypeOK
<1>3. AtMostOnce
  <2> SUFFICES ASSUME NEW k \in server.commits, NEW l \in server.commits,
                      k.op = l.op, k.intent = l.intent, k.by = l.by
               PROVE  k = l
    BY DEF AtMostOnce
  <2>1. k.key = l.key
    BY <1>1 DEF KeysOk, Named
  <2>2. k.by = k.principal /\ l.by = l.principal
    BY <1>1 DEF KeysOk
  <2>3. k \in CommitRows /\ l \in CommitRows
    BY <1>1, RowFields
  <2>4. \A x \in CommitRows : x = [op |-> x.op, key |-> x.key, intent |-> x.intent,
                                   by |-> x.by, principal |-> x.principal]
    BY DEF CommitRows
  <2> QED BY <2>1, <2>2, <2>3, <2>4
<1>4. RefusedIsNotDone
  BY <1>1 DEF RefusedIsNotDone, ToldOk, Denied
<1>5. SubmittedIsDone
  BY <1>1 DEF SubmittedIsDone, ToldOk
<1>6. DoneInTheNameOfItsHuman
  BY <1>1 DEF DoneInTheNameOfItsHuman, KeysOk
<1> QED BY <1>2, <1>3, <1>4, <1>5, <1>6 DEF CommandSafety

\* Over lost answers, retries, requests that arrive after the window gave up on
\* them, other windows, expired sessions, permissions that change and reloads, an
\* intention takes effect at most once and in the name of the Human who had it; a Run
\* command the window calls submitted was done, and what it calls not done never is,
\* but for the refusals RefusedIsNotDone sets aside.  All this whatever the number of commands,
\* Humans, sessions, submissions, faults and reloads: #command,
\* run-composer-model.ts, run-controls-model.ts.
THEOREM CommandsAreSafe == CommandSpec => []CommandSafety
<1>1. CommandInit => CommandInv
  BY InitKeeps
<1>2. CommandInv /\ [CommandNext]_commandVars => CommandInv'
  BY NextKeeps
<1>3. CommandInv => CommandSafety
  BY InvIsSafe
<1> QED BY <1>1, <1>2, <1>3, PTL DEF CommandSpec

=============================================================================
