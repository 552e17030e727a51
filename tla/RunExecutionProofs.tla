------------------------- MODULE RunExecutionProofs -------------------------
(***************************************************************************)
(* Proofs about RunExecution for any number of inputs, Activations and     *)
(* ProviderAttempts, any durations and any set of Runtimes.                *)
(*                                                                         *)
(* The first part is about the outbox alone.  Its inductive invariant says *)
(* that no row and no receipt carries a token that was not drawn yet       *)
(* (TokensDrawn), and that a row once handed out under a token is          *)
(* acknowledged or carries that token or a later one (BatchesFenced).      *)
(*                                                                         *)
(* Every step of the composition is a step of the outbox, so that holds    *)
(* here too.  RunSafety is not inductive: that a completion considered     *)
(* everything rests on nothing having been considered before it            *)
(* (NothingConsidered), and "the latest Activation" on the generation      *)
(* counting the Activations (GenerationCounts) and on every attempt naming *)
(* one (AttemptsBelong).                                                   *)
(***************************************************************************)
EXTENDS RunExecution, SequenceTheorems, TLAPS

\* A token is drawn before a row or a receipt carries it.
TokensDrawn ==
    /\ \A i \in DOMAIN outbox : outbox[i].token <= drawn
    /\ \A s \in receipts : s.token <= drawn

\* Rows handed out under a token never fall back to an earlier one.
BatchesFenced ==
    \A s \in receipts : \A i \in s.batch :
        /\ i \in DOMAIN outbox
        /\ outbox[i].acked \/ s.token <= outbox[i].token

OutboxInv ==
    /\ OutboxTypeOK
    /\ ConsumedPrefix
    /\ UniformLease
    /\ TokensDrawn
    /\ BatchesFenced

-----------------------------------------------------------------------------
(* Rows and sequences of rows *)

\* The domain and the elements of a sequence of rows.
LEMMA RowsOf ==
    ASSUME NEW s \in Seq(Rows)
    PROVE  /\ DOMAIN s = 1..Len(s)
           /\ Len(s) \in Nat
           /\ \A i \in DOMAIN s : i \in Nat \ {0} /\ s[i] \in Rows
  OBVIOUS

\* Rewriting rows in place keeps the sequence and its length.
LEMMA RewrittenRows ==
    ASSUME NEW s \in Seq(Rows), NEW f,
           DOMAIN f = DOMAIN s,
           f \in [DOMAIN s -> Rows]
    PROVE  f \in Seq(Rows) /\ Len(f) = Len(s)
  <1>1. DOMAIN s = 1..Len(s) /\ Len(s) \in Nat
    OBVIOUS
  <1>2. f \in [1..Len(s) -> Rows]
    BY <1>1
  <1>3. f \in Seq(Rows)
    BY <1>1, <1>2, SeqDef
  <1>4. Len(f) = Len(s)
    BY <1>1, <1>2, <1>3
  <1> QED BY <1>3, <1>4

\* A row with new column values is a row.
LEMMA ColumnUpdate ==
    ASSUME NEW r \in Rows
    PROVE  /\ \A v \in BOOLEAN : [r EXCEPT !.acked = v] \in Rows
           /\ \A v \in Runtimes \cup {Nobody} : [r EXCEPT !.holder = v] \in Rows
           /\ \A v \in Nat : [r EXCEPT !.token = v] \in Rows
           /\ \A v \in Nat : [r EXCEPT !.expires = v] \in Rows
  <1>1. \A v \in BOOLEAN : [r EXCEPT !.acked = v] \in Rows
    BY DEF Rows
  <1>2. \A v \in Runtimes \cup {Nobody} : [r EXCEPT !.holder = v] \in Rows
    BY DEF Rows
  <1>3. \A v \in Nat : [r EXCEPT !.token = v] \in Rows
    BY DEF Rows
  <1>4. \A v \in Nat : [r EXCEPT !.expires = v] \in Rows
    BY DEF Rows
  <1> QED BY <1>1, <1>2, <1>3, <1>4

\* A row leased to p is a row.
LEMMA LeasedRow ==
    ASSUME NEW r \in Rows, NEW p \in Runtimes, NEW token \in Nat,
           NEW expires \in Nat
    PROVE  [r EXCEPT !.holder = p, !.token = token, !.expires = expires] \in Rows
  <1>1. [[[r EXCEPT !.holder = p] EXCEPT !.token = token]
            EXCEPT !.expires = expires] \in Rows
    BY ColumnUpdate, Zenon
  <1> QED BY <1>1

\* A row acknowledged.
LEMMA AckedRow ==
    ASSUME NEW r \in Rows
    PROVE  LET row == [r EXCEPT !.acked = TRUE, !.holder = Nobody,
                                !.token = 0, !.expires = 0]
           IN  /\ row \in Rows
               /\ row.acked
               /\ row.token = 0
  <1>1. [[[[r EXCEPT !.acked = TRUE] EXCEPT !.holder = Nobody]
            EXCEPT !.token = 0] EXCEPT !.expires = 0] \in Rows
    BY ColumnUpdate, Zenon
  <1>2. [r EXCEPT !.acked = TRUE, !.holder = Nobody, !.token = 0,
                  !.expires = 0] \in Rows
    BY <1>1
  <1> DEFINE row == [r EXCEPT !.acked = TRUE, !.holder = Nobody,
                              !.token = 0, !.expires = 0]
  <1>3. row.acked /\ row.token = 0
    BY DEF Rows
  <1> QED BY <1>2, <1>3

-----------------------------------------------------------------------------
(* What the three ways of changing the table do to it *)

\* enqueueOutbox adds one pending row that nobody holds.
LEMMA EnqueuedRows ==
    ASSUME OutboxTypeOK, NEW payload \in Payloads
    PROVE  LET new == Enqueued(payload)
           IN  /\ new \in Seq(Rows)
               /\ Len(new) = Len(outbox) + 1
               /\ \A i \in DOMAIN outbox : i \in DOMAIN new /\ new[i] = outbox[i]
               /\ \A i \in DOMAIN new :
                     \/ i \in DOMAIN outbox
                     \/ /\ i = Len(outbox) + 1
                        /\ ~new[i].acked
                        /\ new[i].token = 0
  <1> DEFINE row == Fresh(payload)
             new == Append(outbox, row)
  <1>1. row \in Rows /\ ~row.acked /\ row.token = 0
    BY DEF Fresh, Rows
  <1>2. outbox \in Seq(Rows)
    BY DEF OutboxTypeOK
  <1> HIDE DEF row
  <1>3. /\ new \in Seq(Rows)
        /\ Len(new) = Len(outbox) + 1
        /\ \A i \in 1..Len(outbox) : new[i] = outbox[i]
        /\ new[Len(outbox) + 1] = row
    BY <1>1, <1>2, AppendProperties
  <1>4. DOMAIN outbox = 1..Len(outbox) /\ Len(outbox) \in Nat
    BY <1>2, RowsOf
  <1>5. DOMAIN new = 1..Len(new)
    BY <1>3, RowsOf
  <1>6. \A i \in DOMAIN outbox : i \in DOMAIN new /\ new[i] = outbox[i]
    BY <1>3, <1>4, <1>5
  <1>7. \A i \in DOMAIN new : i \in DOMAIN outbox \/ i = Len(outbox) + 1
    BY <1>3, <1>4, <1>5
  <1>8. Enqueued(payload) = new
    BY DEF Enqueued, row
  <1> HIDE DEF new
  <1>9. \A i \in DOMAIN new :
            \/ i \in DOMAIN outbox
            \/ /\ i = Len(outbox) + 1
               /\ ~new[i].acked
               /\ new[i].token = 0
    BY <1>1, <1>3, <1>7
  <1> QED BY <1>3, <1>6, <1>8, <1>9

\* Leasing a batch writes holder, token and expiry of its rows only.
LEMMA LeasedRows ==
    ASSUME OutboxTypeOK, NEW batch, NEW p \in Runtimes, NEW token \in Nat,
           NEW expires \in Nat
    PROVE  LET new == Leased(batch, p, token, expires)
           IN  /\ new \in Seq(Rows)
               /\ Len(new) = Len(outbox)
               /\ DOMAIN new = DOMAIN outbox
               /\ \A i \in DOMAIN outbox :
                     /\ new[i].acked = outbox[i].acked
                     /\ i \notin batch => new[i] = outbox[i]
                     /\ i \in batch => /\ new[i].holder = p
                                       /\ new[i].token = token
                                       /\ new[i].expires = expires
  <1> DEFINE Row(i) == [outbox[i] EXCEPT !.holder = p, !.token = token,
                                         !.expires = expires]
             new == [i \in DOMAIN outbox |->
                        IF i \in batch THEN Row(i) ELSE outbox[i]]
  <1>1. outbox \in Seq(Rows) /\ \A i \in DOMAIN outbox : outbox[i] \in Rows
    BY RowsOf DEF OutboxTypeOK
  <1>2. ASSUME NEW i \in DOMAIN outbox
        PROVE  /\ Row(i) \in Rows
               /\ Row(i).acked = outbox[i].acked
               /\ Row(i).holder = p
               /\ Row(i).token = token
               /\ Row(i).expires = expires
    <2>1. outbox[i] \in Rows
      BY <1>1
    <2>2. Row(i) \in Rows
      BY <2>1, LeasedRow, Zenon
    <2>3. /\ Row(i).acked = outbox[i].acked
          /\ Row(i).holder = p
          /\ Row(i).token = token
          /\ Row(i).expires = expires
      BY <2>1 DEF Rows
    <2> QED BY <2>2, <2>3, Zenon
  <1>3. Leased(batch, p, token, expires) = new
    BY Zenon DEF Leased
  <1> HIDE DEF Row
  <1>4. new \in [DOMAIN outbox -> Rows]
    BY <1>1, <1>2
  <1>5. /\ DOMAIN new = DOMAIN outbox
        /\ \A i \in DOMAIN outbox :
              new[i] = IF i \in batch THEN Row(i) ELSE outbox[i]
    OBVIOUS
  <1> HIDE DEF new
  <1>6. new \in Seq(Rows) /\ Len(new) = Len(outbox)
    BY <1>1, <1>4, <1>5, RewrittenRows
  <1>7. \A i \in DOMAIN outbox :
            /\ new[i].acked = outbox[i].acked
            /\ i \notin batch => new[i] = outbox[i]
            /\ i \in batch => /\ new[i].holder = p
                              /\ new[i].token = token
                              /\ new[i].expires = expires
    BY <1>2, <1>5
  <1> QED BY <1>3, <1>5, <1>6, <1>7

\* Acknowledging marks the rows held under the token and leaves the others.
LEMMA AcknowledgedRows ==
    ASSUME OutboxTypeOK, NEW p, NEW token, Acknowledge(p, token)
    PROVE  /\ outbox' \in Seq(Rows)
           /\ Len(outbox') = Len(outbox)
           /\ DOMAIN outbox' = DOMAIN outbox
           /\ \A i \in DOMAIN outbox :
                 /\ i \notin HeldUnder(p, token) => outbox'[i] = outbox[i]
                 /\ i \in HeldUnder(p, token) =>
                       outbox'[i].acked /\ outbox'[i].token = 0
  <1> DEFINE held == HeldUnder(p, token)
             Row(i) == [outbox[i] EXCEPT !.acked = TRUE, !.holder = Nobody,
                                         !.token = 0, !.expires = 0]
             new == [i \in DOMAIN outbox |->
                        IF i \in held THEN Row(i) ELSE outbox[i]]
  <1>1. outbox \in Seq(Rows) /\ \A i \in DOMAIN outbox : outbox[i] \in Rows
    BY RowsOf DEF OutboxTypeOK
  <1>2. ASSUME NEW i \in DOMAIN outbox
        PROVE  /\ Row(i) \in Rows
               /\ Row(i).acked
               /\ Row(i).token = 0
    BY <1>1, AckedRow, Zenon
  <1>3. outbox' = new
    BY Zenon DEF Acknowledge
  <1> HIDE DEF Row, held
  <1>4. new \in [DOMAIN outbox -> Rows]
    BY <1>1, <1>2
  <1>5. /\ DOMAIN new = DOMAIN outbox
        /\ \A i \in DOMAIN outbox :
              new[i] = IF i \in held THEN Row(i) ELSE outbox[i]
    OBVIOUS
  <1> HIDE DEF new
  <1>6. new \in Seq(Rows) /\ Len(new) = Len(outbox)
    BY <1>1, <1>4, <1>5, RewrittenRows
  <1>7. \A i \in DOMAIN outbox :
            /\ i \notin held => new[i] = outbox[i]
            /\ i \in held => new[i].acked /\ new[i].token = 0
    BY <1>2, <1>5
  <1> QED BY <1>3, <1>5, <1>6, <1>7 DEF held

-----------------------------------------------------------------------------
(* Claim and ReplayClaim both hand out a batch under a fresh token. *)

\* The batch is pending, and the receipt of it is remembered.
HandsOut(p, batch, d) ==
    /\ batch \subseteq Pending
    /\ outbox' = Leased(batch, p, drawn + 1, now + d)
    /\ drawn' = drawn + 1
    /\ receipts' = receipts \cup {Receipt(p, drawn + 1, batch)}
    /\ now' = now

\* What a receipt of rows of the outbox is.
LEMMA ReceiptType ==
    ASSUME OutboxTypeOK, NEW p \in Runtimes, NEW batch \in SUBSET Pending
    PROVE  /\ Receipt(p, drawn + 1, batch) \in Receipts
           /\ Receipt(p, drawn + 1, batch).token = drawn + 1
           /\ Receipt(p, drawn + 1, batch).batch = batch
  <1>1. batch \subseteq Nat
    BY RowsOf DEF OutboxTypeOK, Pending
  <1>2. drawn + 1 \in Nat
    BY DEF OutboxTypeOK
  <1> QED BY <1>1, <1>2 DEF Receipt, Receipts

\* ClaimOutboxEvents hands out the rows it scanned.
LEMMA ClaimHandsOut ==
    ASSUME OutboxTypeOK, NEW p \in Runtimes, NEW limit \in Limits,
           NEW d \in LeaseTimes, Claim(p, limit, d)
    PROVE  /\ HandsOut(p, Claimable(limit), d)
           /\ claims' \in Seq(Receipts)
  <1>1. HandsOut(p, Claimable(limit), d)
    BY DEF HandsOut, Claim, Claimable, Oldest
  <1>2. Claimable(limit) \in SUBSET Pending
    BY DEF Claimable, Oldest
  <1>3. Receipt(p, drawn + 1, Claimable(limit)) \in Receipts
    BY <1>2, ReceiptType
  <1>4. claims' = Append(claims, Receipt(p, drawn + 1, Claimable(limit)))
    BY DEF Claim
  <1>5. claims' \in Seq(Receipts)
    BY <1>3, <1>4, AppendProperties DEF OutboxTypeOK
  <1> QED BY <1>1, <1>5

\* A replay that leases afresh hands out the batch of the cached claim.
LEMMA ReplayHandsOut ==
    ASSUME OutboxTypeOK, NEW k \in DOMAIN claims, NEW d \in LeaseTimes,
           ReplayClaim(k, d)
    PROVE  /\ claims[k].holder \in Runtimes
           /\ HandsOut(claims[k].holder, claims[k].batch, d)
           /\ claims' \in Seq(Receipts)
  <1> DEFINE c == claims[k]
             r == Receipt(c.holder, drawn + 1, c.batch)
  <1>1. claims \in Seq(Receipts)
    BY DEF OutboxTypeOK
  <1>2. c \in Receipts
    BY <1>1
  <1>3. c.holder \in Runtimes
    BY <1>2 DEF Receipts
  <1> HIDE DEF c
  <1>4. c.batch \in SUBSET Pending
    BY DEF ReplayClaim, HeldUnder, c
  <1>5. HandsOut(c.holder, c.batch, d)
    BY <1>4 DEF HandsOut, ReplayClaim, c
  <1>6. r \in Receipts
    BY <1>3, <1>4, ReceiptType
  <1>7. claims' = [claims EXCEPT ![k] = r]
    BY Zenon DEF ReplayClaim, c
  <1> HIDE DEF r
  <1>8. claims' \in Seq(Receipts)
    BY <1>1, <1>6, <1>7
  <1> QED BY <1>3, <1>5, <1>8 DEF c

\* Handing out a batch keeps the invariant.
LEMMA HandingOutKeepsInv ==
    ASSUME OutboxInv, NEW p \in Runtimes, NEW batch, NEW d \in LeaseTimes,
           HandsOut(p, batch, d), claims' \in Seq(Receipts)
    PROVE  OutboxInv'
  <1>1. OutboxTypeOK
    BY DEF OutboxInv
  <1>2. drawn \in Nat /\ now \in Nat /\ d \in Nat
    BY <1>1, OutboxAssumption DEF OutboxTypeOK
  <1>3. /\ outbox' \in Seq(Rows)
        /\ DOMAIN outbox' = DOMAIN outbox
        /\ \A i \in DOMAIN outbox :
              /\ outbox'[i].acked = outbox[i].acked
              /\ i \notin batch => outbox'[i] = outbox[i]
              /\ i \in batch => /\ outbox'[i].holder = p
                                /\ outbox'[i].token = drawn + 1
                                /\ outbox'[i].expires = now + d
    <2>1. PICK token \in Nat, expires \in Nat :
             token = drawn + 1 /\ expires = now + d
      BY <1>2
    <2>2. outbox' = Leased(batch, p, token, expires)
      BY <2>1 DEF HandsOut
    <2>3. LET new == Leased(batch, p, token, expires)
          IN  /\ new \in Seq(Rows)
              /\ DOMAIN new = DOMAIN outbox
              /\ \A i \in DOMAIN outbox :
                    /\ new[i].acked = outbox[i].acked
                    /\ i \notin batch => new[i] = outbox[i]
                    /\ i \in batch => /\ new[i].holder = p
                                      /\ new[i].token = token
                                      /\ new[i].expires = expires
      BY <1>1, LeasedRows
    <2> QED BY <2>1, <2>2, <2>3
  <1>4. /\ batch \in SUBSET Pending
        /\ receipts' = receipts \cup {Receipt(p, drawn + 1, batch)}
        /\ drawn' = drawn + 1
        /\ now' = now
    BY DEF HandsOut
  <1>5. /\ Receipt(p, drawn + 1, batch) \in Receipts
        /\ Receipt(p, drawn + 1, batch).token = drawn + 1
        /\ Receipt(p, drawn + 1, batch).batch = batch
    BY <1>1, <1>4, ReceiptType
  <1>6. \A i \in DOMAIN outbox : outbox[i] \in Rows /\ outbox[i].token \in Nat
    BY <1>1, RowsOf DEF OutboxTypeOK, Rows
  <1>7. OutboxTypeOK'
    BY <1>1, <1>2, <1>3, <1>4, <1>5 DEF OutboxTypeOK
  <1>8. ConsumedPrefix'
    BY <1>3 DEF OutboxInv, ConsumedPrefix
  <1>9. UniformLease'
    <2> SUFFICES ASSUME NEW i \in DOMAIN outbox, NEW j \in DOMAIN outbox,
                        ~outbox[i].acked, ~outbox[j].acked,
                        outbox'[i].token = outbox'[j].token,
                        outbox'[i].token # 0
                 PROVE  /\ outbox'[i].holder = outbox'[j].holder
                        /\ outbox'[i].expires = outbox'[j].expires
      BY <1>3 DEF UniformLease, Pending
    <2>1. outbox[i].token <= drawn /\ outbox[j].token <= drawn
      BY DEF OutboxInv, TokensDrawn
    <2>2. i \in batch <=> j \in batch
      BY <1>2, <1>3, <1>6, <2>1
    <2>3. CASE i \in batch
      BY <1>3, <2>2, <2>3
    <2>4. CASE i \notin batch
      <3>1. outbox'[i] = outbox[i] /\ outbox'[j] = outbox[j]
        BY <1>3, <2>2, <2>4
      <3> QED BY <3>1 DEF OutboxInv, UniformLease, Pending
    <2> QED BY <2>3, <2>4
  <1>10. TokensDrawn'
    <2>1. \A i \in DOMAIN outbox : outbox'[i].token <= drawn + 1
      BY <1>2, <1>3, <1>6 DEF OutboxInv, TokensDrawn
    <2>2. \A s \in receipts : s.token <= drawn + 1
      <3>1. \A s \in receipts : s.token \in Nat /\ s.token <= drawn
        BY <1>1 DEF OutboxInv, OutboxTypeOK, TokensDrawn, Receipts
      <3> QED BY <1>2, <3>1
    <2> QED BY <1>2, <1>3, <1>4, <1>5, <2>1, <2>2 DEF TokensDrawn
  <1>11. BatchesFenced'
    <2> SUFFICES ASSUME NEW s \in receipts', NEW i \in s.batch
                 PROVE  /\ i \in DOMAIN outbox
                        /\ outbox'[i].acked \/ s.token <= outbox'[i].token
      BY <1>3 DEF BatchesFenced
    <2>1. CASE s = Receipt(p, drawn + 1, batch)
      <3>1. i \in batch /\ i \in DOMAIN outbox
        BY <1>4, <1>5, <2>1 DEF Pending
      <3> QED BY <1>2, <1>3, <1>5, <2>1, <3>1
    <2>2. CASE s \in receipts
      <3>1. /\ i \in DOMAIN outbox
            /\ outbox[i].acked \/ s.token <= outbox[i].token
            /\ s.token <= drawn
            /\ s.token \in Nat
        BY <1>1, <2>2 DEF OutboxInv, BatchesFenced, TokensDrawn, OutboxTypeOK,
                          Receipts
      <3>2. CASE i \in batch
        BY <1>2, <1>3, <3>1, <3>2
      <3>3. CASE i \notin batch
        BY <1>3, <3>1, <3>3
      <3> QED BY <3>2, <3>3
    <2> QED BY <1>4, <2>1, <2>2
  <1> QED BY <1>7, <1>8, <1>9, <1>10, <1>11 DEF OutboxInv

-----------------------------------------------------------------------------
(* The other steps *)

\* A new row is pending, free and the youngest.
LEMMA EnqueueKeepsInv ==
    ASSUME OutboxInv, NEW payload \in Payloads, Enqueue(payload)
    PROVE  OutboxInv'
  <1>1. OutboxTypeOK
    BY DEF OutboxInv
  <1>2. /\ outbox' \in Seq(Rows)
        /\ Len(outbox') = Len(outbox) + 1
        /\ \A i \in DOMAIN outbox : i \in DOMAIN outbox' /\ outbox'[i] = outbox[i]
        /\ \A i \in DOMAIN outbox' :
              \/ i \in DOMAIN outbox
              \/ /\ i = Len(outbox) + 1
                 /\ ~outbox'[i].acked
                 /\ outbox'[i].token = 0
    BY <1>1, EnqueuedRows DEF Enqueue
  <1>3. now' = now /\ drawn' = drawn /\ claims' = claims /\ receipts' = receipts
    BY DEF Enqueue
  <1>4. DOMAIN outbox = 1..Len(outbox) /\ Len(outbox) \in Nat
    BY <1>1, RowsOf DEF OutboxTypeOK
  <1>5. drawn \in Nat
    BY <1>1 DEF OutboxTypeOK
  <1>6. OutboxTypeOK'
    BY <1>1, <1>2, <1>3 DEF OutboxTypeOK
  <1>7. ConsumedPrefix'
    <2> SUFFICES ASSUME NEW i \in DOMAIN outbox', NEW j \in DOMAIN outbox',
                        outbox'[i].acked, j < i
                 PROVE  outbox'[j].acked
      BY DEF ConsumedPrefix
    <2>1. i \in DOMAIN outbox
      BY <1>2
    <2>2. j \in DOMAIN outbox
      BY <1>2, <1>4, <2>1
    <2> QED BY <1>2, <2>1, <2>2 DEF OutboxInv, ConsumedPrefix
  <1>8. UniformLease'
    <2> SUFFICES ASSUME NEW i \in DOMAIN outbox', NEW j \in DOMAIN outbox',
                        ~outbox'[i].acked, ~outbox'[j].acked,
                        outbox'[i].token = outbox'[j].token,
                        outbox'[i].token # 0
                 PROVE  /\ outbox'[i].holder = outbox'[j].holder
                        /\ outbox'[i].expires = outbox'[j].expires
      BY DEF UniformLease, Pending
    <2>1. i \in DOMAIN outbox /\ j \in DOMAIN outbox
      BY <1>2
    <2> QED BY <1>2, <2>1 DEF OutboxInv, UniformLease, Pending
  <1>9. TokensDrawn'
    BY <1>2, <1>3, <1>5 DEF OutboxInv, TokensDrawn
  <1>10. BatchesFenced'
    BY <1>2, <1>3 DEF OutboxInv, BatchesFenced
  <1> QED BY <1>6, <1>7, <1>8, <1>9, <1>10 DEF OutboxInv

\* An acknowledgement takes the oldest pending rows, all that p holds.
LEMMA AcknowledgeKeepsInv ==
    ASSUME OutboxInv, NEW p, NEW token, Acknowledge(p, token)
    PROVE  OutboxInv'
  <1> DEFINE held == HeldUnder(p, token)
  <1>1. OutboxTypeOK
    BY DEF OutboxInv
  <1>2. /\ outbox' \in Seq(Rows)
        /\ DOMAIN outbox' = DOMAIN outbox
        /\ \A i \in DOMAIN outbox :
              /\ i \notin held => outbox'[i] = outbox[i]
              /\ i \in held => outbox'[i].acked /\ outbox'[i].token = 0
    BY <1>1, AcknowledgedRows
  <1>3. now' = now /\ drawn' = drawn /\ claims' = claims /\ receipts' = receipts
    BY DEF Acknowledge
  <1>4. \A i \in held : \A j \in Pending : j < i => j \in held
    BY DEF Acknowledge, AckAllowed
  <1>5. drawn \in Nat
    BY <1>1 DEF OutboxTypeOK
  <1>6. OutboxTypeOK'
    BY <1>1, <1>2, <1>3 DEF OutboxTypeOK
  <1>7. ConsumedPrefix'
    <2> SUFFICES ASSUME NEW i \in DOMAIN outbox, NEW j \in DOMAIN outbox,
                        outbox'[i].acked, j < i
                 PROVE  outbox'[j].acked
      BY <1>2 DEF ConsumedPrefix
    <2>1. CASE j \in held
      BY <1>2, <2>1
    <2>2. CASE j \notin held
      <3>1. i \notin held => outbox[i].acked
        BY <1>2
      <3>2. outbox[j].acked
        BY <1>4, <2>2, <3>1 DEF OutboxInv, ConsumedPrefix, Pending
      <3> QED BY <1>2, <2>2, <3>2
    <2> QED BY <2>1, <2>2
  <1>8. UniformLease'
    <2> SUFFICES ASSUME NEW i \in DOMAIN outbox, NEW j \in DOMAIN outbox,
                        ~outbox'[i].acked, ~outbox'[j].acked,
                        outbox'[i].token = outbox'[j].token,
                        outbox'[i].token # 0
                 PROVE  /\ outbox'[i].holder = outbox'[j].holder
                        /\ outbox'[i].expires = outbox'[j].expires
      BY <1>2 DEF UniformLease, Pending
    <2>1. outbox'[i] = outbox[i] /\ outbox'[j] = outbox[j]
      BY <1>2
    <2> QED BY <2>1 DEF OutboxInv, UniformLease, Pending
  <1>9. TokensDrawn'
    BY <1>2, <1>3, <1>5 DEF OutboxInv, TokensDrawn
  <1>10. BatchesFenced'
    BY <1>2, <1>3 DEF OutboxInv, BatchesFenced
  <1> QED BY <1>6, <1>7, <1>8, <1>9, <1>10 DEF OutboxInv

\* Every step keeps the invariant.
LEMMA OutboxInvStep ==
    ASSUME OutboxInv, [OutboxNext]_outboxVars
    PROVE  OutboxInv'
  <1>1. CASE \E payload \in Payloads : Enqueue(payload)
    BY <1>1, EnqueueKeepsInv
  <1>2. CASE \E p \in Runtimes, limit \in Limits, d \in LeaseTimes :
                Claim(p, limit, d)
    <2>1. PICK p \in Runtimes, limit \in Limits, d \in LeaseTimes :
                Claim(p, limit, d)
      BY <1>2
    <2>2. OutboxTypeOK
      BY DEF OutboxInv
    <2>3. HandsOut(p, Claimable(limit), d) /\ claims' \in Seq(Receipts)
      BY <2>1, <2>2, ClaimHandsOut
    <2> QED BY <2>3, HandingOutKeepsInv
  <1>3. CASE \E p \in Runtimes, r \in receipts : Acknowledge(p, r.token)
    BY <1>3, AcknowledgeKeepsInv
  <1>4. CASE \E k \in DOMAIN claims, d \in LeaseTimes : ReplayClaim(k, d)
    <2>1. PICK k \in DOMAIN claims, d \in LeaseTimes : ReplayClaim(k, d)
      BY <1>4
    <2>2. OutboxTypeOK
      BY DEF OutboxInv
    <2>3. /\ claims[k].holder \in Runtimes
          /\ HandsOut(claims[k].holder, claims[k].batch, d)
          /\ claims' \in Seq(Receipts)
      BY <2>1, <2>2, ReplayHandsOut
    <2> QED BY <2>3, HandingOutKeepsInv
  <1>5. CASE TimeMoves
    BY <1>5 DEF TimeMoves, OutboxInv, OutboxTypeOK, ConsumedPrefix,
                UniformLease, Pending, TokensDrawn, BatchesFenced
  <1>6. CASE UNCHANGED outboxVars
    BY <1>6 DEF outboxVars, OutboxInv, OutboxTypeOK, ConsumedPrefix,
                UniformLease, Pending, TokensDrawn, BatchesFenced
  <1> QED BY <1>1, <1>2, <1>3, <1>4, <1>5, <1>6 DEF OutboxNext, DeliveryStep

-----------------------------------------------------------------------------
(* The theorems *)

\* The invariant holds of every behaviour of the outbox.
THEOREM OutboxInvariant == OutboxSpec => []OutboxInv
  <1>1. OutboxInit => OutboxInv
    BY OutboxAssumption DEF OutboxInit, OutboxInv, OutboxTypeOK,
          ConsumedPrefix, UniformLease, Pending, TokensDrawn, BatchesFenced
  <1>2. OutboxInv /\ [OutboxNext]_outboxVars => OutboxInv'
    BY OutboxInvStep
  <1> QED BY <1>1, <1>2, PTL DEF OutboxSpec

\* Every column keeps its type, and a NULL token is never a holder's.
THEOREM OutboxTypeCorrect == OutboxSpec => []OutboxTypeOK
  <1>1. OutboxInv => OutboxTypeOK
    BY DEF OutboxInv
  <1> QED BY <1>1, OutboxInvariant, PTL

\* Acknowledged rows are always an initial segment of the table.
THEOREM ConsumedPrefixHolds == OutboxSpec => []ConsumedPrefix
  <1>1. OutboxInv => ConsumedPrefix
    BY DEF OutboxInv
  <1> QED BY <1>1, OutboxInvariant, PTL

\* The plain Error of resolveCachedOutboxClaim about inconsistent lease
\* expiry is unreachable.
THEOREM UniformLeaseHolds == OutboxSpec => []UniformLease
  <1>1. OutboxInv => UniformLease
    BY DEF OutboxInv
  <1> QED BY <1>1, OutboxInvariant, PTL

\* Two leases that both pass a check hold the oldest pending row, so they are
\* one lease.
LEMMA OneLeasePasses ==
    ASSUME OutboxInv
    PROVE  SoleConsumer
  <1>1. \A i \in DOMAIN outbox : i \in Nat
    BY RowsOf DEF OutboxInv, OutboxTypeOK
  <1> SUFFICES ASSUME NEW r \in receipts, NEW s \in receipts,
                      NEW p \in Runtimes, NEW q \in Runtimes,
                      AckAllowed(p, r.token),
                      \/ AckAllowed(q, s.token)
                      \/ \E i \in Pending : DeliveryAuthority(q, s.token, i)
               PROVE  p = q /\ r.token = s.token
    BY DEF SoleConsumer
  <1>2. PICK i \in Pending : i \in HeldUnder(p, r.token)
    BY DEF AckAllowed, HeldUnder
  <1>3. \A j \in Pending : j < i => j \in HeldUnder(p, r.token)
    BY <1>2 DEF AckAllowed
  <1>4. CASE AckAllowed(q, s.token)
    <2>1. PICK j \in Pending : j \in HeldUnder(q, s.token)
      BY <1>4 DEF AckAllowed, HeldUnder
    <2>2. \A k \in Pending : k < j => k \in HeldUnder(q, s.token)
      BY <1>4, <2>1 DEF AckAllowed
    <2>3. i < j \/ i = j \/ j < i
      BY <1>1 DEF Pending
    <2>4. PICK k \in Pending : k \in HeldUnder(p, r.token) \cap
                                    HeldUnder(q, s.token)
      BY <1>2, <1>3, <2>1, <2>2, <2>3
    <2> QED BY <2>4 DEF HeldUnder
  <1>5. CASE \E j \in Pending : DeliveryAuthority(q, s.token, j)
    <2>1. PICK j \in Pending : DeliveryAuthority(q, s.token, j)
      BY <1>5
    <2>2. j \in HeldUnder(q, s.token) /\ j <= i
      BY <1>2, <2>1 DEF DeliveryAuthority
    <2>3. j \in HeldUnder(p, r.token)
      BY <1>1, <1>2, <1>3, <2>2 DEF Pending
    <2> QED BY <2>2, <2>3 DEF HeldUnder
  <1> QED BY <1>4, <1>5

\* At any moment one lease only may acknowledge, or deliver, the frontier.
THEOREM SoleConsumerHolds == OutboxSpec => []SoleConsumer
  BY OneLeasePasses, OutboxInvariant, PTL

\* A row that a later claim leased carries a later token, so no check made for
\* the earlier token reaches it.
LEMMA LaterTokenFences ==
    ASSUME OutboxInv
    PROVE  TakeoverFences
  <1> SUFFICES ASSUME NEW r \in receipts, NEW s \in receipts,
                      NEW p \in Runtimes, s.token > r.token,
                      NEW i \in s.batch, i \in HeldUnder(p, r.token)
               PROVE  FALSE
    BY DEF TakeoverFences
  <1>1. outbox[i].token = r.token /\ ~outbox[i].acked
    BY DEF HeldUnder, Pending
  <1>2. s.token <= outbox[i].token
    BY <1>1 DEF OutboxInv, BatchesFenced
  <1>3. s.token \in Nat /\ r.token \in Nat
    BY DEF OutboxInv, OutboxTypeOK, Receipts
  <1> QED BY <1>1, <1>2, <1>3

\* A takeover or a replay fences every earlier lease out of the rows it took.
THEOREM TakeoverFencesHolds == OutboxSpec => []TakeoverFences
  BY LaterTokenFences, OutboxInvariant, PTL

-----------------------------------------------------------------------------
(* Refinement: the outbox is a delivery log. *)

\* The consumed positions, as the refinement maps them.
Consumed == DOMAIN outbox \ Pending

\* A position is consumed when its row is acknowledged.
LEMMA ConsumedRows ==
    Consumed = {i \in DOMAIN outbox : outbox[i].acked}
  BY DEF Consumed, Pending

\* A step that changes neither the length nor what is acknowledged is a
\* stuttering step of the log.
LEMMA LogStutter ==
    ASSUME DOMAIN outbox' = DOMAIN outbox, Len(outbox') = Len(outbox),
           \A i \in DOMAIN outbox : outbox'[i].acked = outbox[i].acked
    PROVE  UNCHANGED <<Len(outbox), Consumed>>
  <1>1. Consumed' = {i \in DOMAIN outbox' : outbox'[i].acked}
    BY DEF Consumed, Pending
  <1>2. Consumed' = Consumed
    BY <1>1, ConsumedRows
  <1> QED BY <1>2

\* Leasing is invisible in the log.
LEMMA HandingOutStutters ==
    ASSUME OutboxTypeOK, NEW p \in Runtimes, NEW batch, NEW d \in LeaseTimes,
           HandsOut(p, batch, d)
    PROVE  UNCHANGED <<Len(outbox), Consumed>>
  <1>1. drawn + 1 \in Nat /\ now + d \in Nat
    BY OutboxAssumption DEF OutboxTypeOK
  <1>2. PICK token \in Nat, expires \in Nat :
           token = drawn + 1 /\ expires = now + d
    BY <1>1
  <1>3. outbox' = Leased(batch, p, token, expires)
    BY <1>2 DEF HandsOut
  <1>4. LET new == Leased(batch, p, token, expires)
        IN  /\ DOMAIN new = DOMAIN outbox
            /\ Len(new) = Len(outbox)
            /\ \A i \in DOMAIN outbox : new[i].acked = outbox[i].acked
    BY LeasedRows
  <1> QED BY <1>3, <1>4, LogStutter

\* An acknowledgement consumes: it moves the consumed segment forward.
LEMMA AcknowledgeConsumes ==
    ASSUME OutboxInv, OutboxInv', NEW p, NEW token, Acknowledge(p, token)
    PROVE  Log!Consume
  <1>1. OutboxTypeOK
    BY DEF OutboxInv
  <1>2. /\ DOMAIN outbox' = DOMAIN outbox
        /\ Len(outbox') = Len(outbox)
        /\ \A i \in DOMAIN outbox :
              /\ i \notin HeldUnder(p, token) => outbox'[i] = outbox[i]
              /\ i \in HeldUnder(p, token) => outbox'[i].acked
    BY <1>1, AcknowledgedRows
  <1>3. DOMAIN outbox = 1..Len(outbox) /\ Len(outbox) \in Nat
    BY <1>1, RowsOf DEF OutboxTypeOK
  <1>4. Consumed' = {i \in DOMAIN outbox : outbox'[i].acked}
    BY <1>2 DEF Consumed, Pending
  <1>5. Consumed' \in SUBSET (1..Len(outbox))
    BY <1>3, <1>4
  <1>6. Consumed \subseteq Consumed'
    BY <1>2, <1>4, ConsumedRows
  <1>7. \A i \in Consumed' : 1..i \subseteq Consumed'
    <2>1. \A i, j \in DOMAIN outbox : outbox'[i].acked /\ j < i => outbox'[j].acked
      BY <1>2 DEF OutboxInv, ConsumedPrefix
    <2> SUFFICES ASSUME NEW i \in Consumed', NEW j \in 1..i
                 PROVE  j \in Consumed'
      OBVIOUS
    <2>2. i \in DOMAIN outbox /\ outbox'[i].acked
      BY <1>4
    <2>3. j \in DOMAIN outbox /\ (j = i \/ j < i)
      BY <1>3, <2>2
    <2> QED BY <1>4, <2>1, <2>2, <2>3
  <1> QED BY <1>2, <1>5, <1>6, <1>7 DEF Log!Consume, Consumed

\* A step of the outbox is a step of the log or leaves it as it is.
LEMMA LogStep ==
    ASSUME OutboxInv, OutboxInv', [OutboxNext]_outboxVars
    PROVE  [Log!LogNext]_<<Len(outbox), Consumed>>
  <1>1. OutboxTypeOK
    BY DEF OutboxInv
  <1>2. CASE \E payload \in Payloads : Enqueue(payload)
    <2>1. PICK payload \in Payloads : Enqueue(payload)
      BY <1>2
    <2>2. /\ Len(outbox') = Len(outbox) + 1
          /\ \A i \in DOMAIN outbox :
                i \in DOMAIN outbox' /\ outbox'[i] = outbox[i]
          /\ \A i \in DOMAIN outbox' : i \in DOMAIN outbox \/ ~outbox'[i].acked
      BY <1>1, <2>1, EnqueuedRows DEF Enqueue
    <2>3. Consumed' = {i \in DOMAIN outbox' : outbox'[i].acked}
      BY DEF Consumed, Pending
    <2>4. Consumed' = Consumed
      BY <2>2, <2>3, ConsumedRows
    <2> QED BY <2>2, <2>4 DEF Log!LogNext, Log!AppendFact, Consumed
  <1>3. CASE \E p \in Runtimes, limit \in Limits, d \in LeaseTimes :
                Claim(p, limit, d)
    BY <1>1, <1>3, ClaimHandsOut, HandingOutStutters
  <1>4. CASE \E p \in Runtimes, r \in receipts : Acknowledge(p, r.token)
    BY <1>4, AcknowledgeConsumes DEF Log!LogNext
  <1>5. CASE \E k \in DOMAIN claims, d \in LeaseTimes : ReplayClaim(k, d)
    BY <1>1, <1>5, ReplayHandsOut, HandingOutStutters
  <1>6. CASE TimeMoves
    BY <1>6, LogStutter DEF TimeMoves
  <1>7. CASE UNCHANGED outboxVars
    BY <1>7, LogStutter DEF outboxVars
  <1> QED BY <1>2, <1>3, <1>4, <1>5, <1>6, <1>7 DEF OutboxNext, DeliveryStep

\* enqueueOutbox, claims, replays, acknowledgements and the clock together
\* implement the delivery log: facts are consumed in commit order.
THEOREM FifoDeliveryHolds == OutboxSpec => FifoDelivery
  <1>1. OutboxInit => Log!LogInit
    BY DEF OutboxInit, Log!LogInit, Pending
  <1>2. OutboxInv /\ OutboxInv' /\ [OutboxNext]_outboxVars
           => [Log!LogNext]_(Log!logVars)
    BY LogStep DEF Log!logVars, Consumed
  <1> QED BY <1>1, <1>2, OutboxInvariant, PTL
            DEF OutboxSpec, FifoDelivery, Log!LogSpec

-----------------------------------------------------------------------------
(* The Run *)

Considered == {"Incorporated", "Declined", "Superseded"}

NothingConsidered ==
    run.state # "Completed" =>
        \A n \in DOMAIN inputs : inputs[n].disposition \notin Considered

GenerationCounts ==
    /\ run.generation = Len(activations)
    /\ run.state = "Completed" => run.generation \in DOMAIN activations

AttemptsBelong ==
    \A t \in DOMAIN attempts : attempts[t].activation \in DOMAIN activations

RunInv ==
    /\ OutboxInv
    /\ RunSafety
    /\ NothingConsidered
    /\ GenerationCounts
    /\ AttemptsBelong

-----------------------------------------------------------------------------
(* Rows, and sequences of rows *)

InputRows == [disposition : Dispositions, supersededBy : Nat]

ActRows ==
    [finished : BOOLEAN, revoked : BOOLEAN, expires : Nat, supplied : Nat]

AttemptRows == [activation : Nat, inputs : SUBSET Nat, status : AttemptStatuses]

RunRows == [state : RunStates, revision : Nat, generation : Nat]

\* The types of the variables and of the elements of the sequences.
LEMMA RunTypes ==
    ASSUME RunTypeOK
    PROVE  /\ run \in RunRows
           /\ inputs \in Seq(InputRows)
           /\ DOMAIN inputs = 1..Len(inputs)
           /\ Len(inputs) \in Nat
           /\ \A n \in DOMAIN inputs : inputs[n] \in InputRows
           /\ activations \in Seq(ActRows)
           /\ DOMAIN activations = 1..Len(activations)
           /\ Len(activations) \in Nat
           /\ \A a \in DOMAIN activations : activations[a] \in ActRows
           /\ attempts \in Seq(AttemptRows)
           /\ DOMAIN attempts = 1..Len(attempts)
           /\ Len(attempts) \in Nat
           /\ \A t \in DOMAIN attempts : attempts[t] \in AttemptRows
  <1>1. /\ run \in RunRows
        /\ inputs \in Seq(InputRows)
        /\ activations \in Seq(ActRows)
        /\ attempts \in Seq(AttemptRows)
    BY DEF RunTypeOK, RunRows, InputRows, ActRows, AttemptRows
  <1> QED BY <1>1

\* Rewriting the elements of a sequence keeps it a sequence of that length.
LEMMA RewrittenSequence ==
    ASSUME NEW S, NEW s \in Seq(S), NEW f \in [DOMAIN s -> S]
    PROVE  f \in Seq(S) /\ Len(f) = Len(s) /\ DOMAIN f = DOMAIN s
  <1>1. DOMAIN s = 1..Len(s) /\ Len(s) \in Nat
    OBVIOUS
  <1>2. f \in [1..Len(s) -> S]
    BY <1>1
  <1>3. f \in Seq(S)
    BY <1>1, <1>2, SeqDef
  <1>4. Len(f) = Len(s)
    BY <1>1, <1>2, <1>3
  <1> QED BY <1>1, <1>2, <1>3, <1>4

\* revokeRunActivations leaves no Activation able to act, and touches nothing
\* else of them.
LEMMA RevokedRows ==
    ASSUME RunTypeOK
    PROVE  LET new == RevokedActivations
           IN  /\ new \in Seq(ActRows)
               /\ Len(new) = Len(activations)
               /\ DOMAIN new = DOMAIN activations
               /\ \A a \in DOMAIN activations :
                     /\ new[a].finished \/ new[a].revoked
                     /\ new[a].supplied = activations[a].supplied
  <1> DEFINE Row(a) ==
               [activations[a] EXCEPT !.revoked = @ \/ ~activations[a].finished]
             new == [a \in DOMAIN activations |-> Row(a)]
  <1>1. ASSUME NEW a \in DOMAIN activations
        PROVE  /\ Row(a) \in ActRows
               /\ Row(a).finished \/ Row(a).revoked
               /\ Row(a).supplied = activations[a].supplied
    <2>1. activations[a] \in ActRows
      BY RunTypes
    <2> QED BY <2>1 DEF ActRows
  <1>2. RevokedActivations = new
    BY Zenon DEF RevokedActivations
  <1> HIDE DEF Row
  <1>3. new \in [DOMAIN activations -> ActRows]
    BY <1>1
  <1>4. \A a \in DOMAIN activations : new[a] = Row(a)
    OBVIOUS
  <1> HIDE DEF new
  <1>5. /\ new \in Seq(ActRows)
        /\ Len(new) = Len(activations)
        /\ DOMAIN new = DOMAIN activations
    BY <1>3, RunTypes, RewrittenSequence
  <1> QED BY <1>1, <1>2, <1>4, <1>5

-----------------------------------------------------------------------------
(* The composition acts on the outbox as its own steps do *)

\* The payload of an event that announces an input, or nothing.
LEMMA PayloadsOf ==
    ASSUME RunTypeOK
    PROVE  /\ Notice \in Payloads
           /\ Len(inputs) < MaxInputs => Len(inputs) + 1 \in Payloads
  BY RunTypes, RunAssumption DEF Notice

\* enqueueOutbox is the only thing a transaction about the Run does to it.
LEMMA AnnounceEnqueues ==
    ASSUME NEW payload, Announce(payload)
    PROVE  Enqueue(payload)
  BY DEF Announce, Enqueue

\* Every step is a step of the outbox.
LEMMA OutboxStep ==
    ASSUME RunTypeOK, [Next]_vars
    PROVE  [OutboxNext]_outboxVars
  <1>1. ASSUME NEW payload \in Payloads, Announce(payload)
        PROVE  OutboxNext
    BY <1>1, AnnounceEnqueues DEF OutboxNext
  <1>2. ASSUME NEW state, Settle(state)
        PROVE  OutboxNext
    BY <1>1, <1>2, PayloadsOf DEF Settle
  <1>3. CASE RunStep
    <2>1. CASE AddInput
      BY <1>1, <2>1, PayloadsOf DEF AddInput
    <2>2. CASE \E n \in DOMAIN inputs : WithdrawInput(n)
      BY <1>1, <2>2, PayloadsOf DEF WithdrawInput
    <2>3. CASE \E p \in Runtimes, r \in receipts, i \in DOMAIN outbox :
                  \E d \in ActivationTimes : StartActivation(p, r, i, d)
      BY <1>1, <2>3, PayloadsOf DEF StartActivation
    <2>4. CASE \E p \in Runtimes, r \in receipts, i \in DOMAIN outbox :
                  \E a \in DOMAIN activations, ins \in SUBSET DOMAIN inputs :
                     StartProviderAttempt(p, r, i, a, ins)
      BY <2>4 DEF StartProviderAttempt
    <2>5. CASE \E t \in DOMAIN attempts :
                  \/ \E status \in AttemptStatuses : SetAttemptStatus(t, status)
                  \/ ParkRun(t)
      BY <1>2, <2>5 DEF SetAttemptStatus, ParkRun
    <2>6. CASE \E a \in DOMAIN activations :
                  \/ FinishActivation(a) \/ WaitRun(a) \/ FailRun(a)
                  \/ \E declined, superseded \in SUBSET PendingInputs :
                        \E by \in [superseded -> DOMAIN inputs] :
                           CompleteRun(a, declined, by)
      BY <1>2, <2>6
         DEF FinishActivation, WaitRun, FailRun, Terminate, CompleteRun
    <2>7. CASE CancelRun
      BY <1>2, <2>7 DEF CancelRun, Terminate
    <2> QED BY <1>3, <2>1, <2>2, <2>3, <2>4, <2>5, <2>6, <2>7 DEF RunStep
  <1>4. CASE OtherEvent
    BY <1>1, <1>4, PayloadsOf DEF OtherEvent
  <1>5. CASE DeliveryStep /\ UNCHANGED runVars
    BY <1>5 DEF OutboxNext
  <1>6. CASE UNCHANGED vars
    BY <1>6 DEF vars, outboxVars
  <1> QED BY <1>3, <1>4, <1>5, <1>6 DEF Next

-----------------------------------------------------------------------------
(* What the steps about the Run do to the rest of the invariant *)

RunPart ==
    /\ run \in RunRows
    /\ inputs \in Seq(InputRows)
    /\ activations \in Seq(ActRows)
    /\ attempts \in Seq(AttemptRows)
    /\ TerminalOwesNothing
    /\ OnlyLatestUnrevoked
    /\ CompletedConsidered
    /\ AttemptInputsSupplied
    /\ NothingConsidered
    /\ GenerationCounts
    /\ AttemptsBelong

LEMMA RunInvParts == RunInv <=> OutboxInv /\ RunPart
  BY DEF RunInv, RunPart, RunSafety, RunTypeOK, OutboxInv, RunRows, InputRows,
         ActRows, AttemptRows

\* Supersession of a Run that is not completed concerns no input.
LEMMA UnfinishedConsidered ==
    ASSUME run.state # "Completed"
    PROVE  CompletedConsidered
  BY DEF CompletedConsidered

\* A new input is Pending, in a Run that goes on.
LEMMA AddInputKeepsInv ==
    ASSUME RunInv, AddInput
    PROVE  RunPart'
  <1>1. RunTypeOK /\ Mutable
    BY DEF RunInv, RunSafety, AddInput
  <1>2. /\ run' = [run EXCEPT !.revision = @ + 1]
        /\ inputs' = Append(inputs, PendingInput)
        /\ activations' = activations
        /\ attempts' = attempts
    BY DEF AddInput
  <1>3. /\ run' \in RunRows
        /\ run'.state = run.state
        /\ run'.generation = run.generation
    <2>1. run \in RunRows
      BY <1>1, RunTypes
    <2> QED BY <1>2, <2>1 DEF RunRows
  <1>4. PendingInput \in InputRows
    BY DEF PendingInput, InputRows, Dispositions
  <1>5. /\ inputs' \in Seq(InputRows)
        /\ DOMAIN inputs' = 1..(Len(inputs) + 1)
        /\ \A n \in DOMAIN inputs : n \in DOMAIN inputs' /\ inputs'[n] = inputs[n]
        /\ inputs'[Len(inputs) + 1] = PendingInput
    BY <1>1, <1>2, <1>4, RunTypes, AppendProperties
  <1>6. run'.state \notin Terminal
    BY <1>1, <1>3 DEF Mutable
  <1>7. TerminalOwesNothing' /\ CompletedConsidered'
    BY <1>6 DEF TerminalOwesNothing, CompletedConsidered, Mutable, Terminal
  <1>8. OnlyLatestUnrevoked' /\ GenerationCounts' /\ AttemptsBelong'
    BY <1>2, <1>3 DEF RunInv, RunSafety, OnlyLatestUnrevoked, GenerationCounts,
                      AttemptsBelong
  <1>9. AttemptInputsSupplied'
    BY <1>2, <1>5 DEF RunInv, RunSafety, AttemptInputsSupplied
  <1>10. NothingConsidered'
    <2>1. \A n \in DOMAIN inputs' : n \in DOMAIN inputs \/ n = Len(inputs) + 1
      BY <1>1, <1>5, RunTypes
    <2>2. run.state # "Completed"
      BY <1>1 DEF Mutable, Terminal
    <2>3. PendingInput.disposition \notin Considered
      BY DEF PendingInput, Considered
    <2> QED BY <1>5, <2>1, <2>2, <2>3 DEF RunInv, NothingConsidered
  <1> QED BY <1>1, <1>2, <1>3, <1>5, <1>7, <1>8, <1>9, <1>10, RunTypes
          DEF RunPart

\* Withdrawing decides an input without considering it.
LEMMA WithdrawInputKeepsInv ==
    ASSUME RunInv, NEW n \in DOMAIN inputs, WithdrawInput(n)
    PROVE  RunPart'
  <1> DEFINE row == [inputs[n] EXCEPT !.disposition = "Withdrawn"]
  <1>1. RunTypeOK /\ Mutable
    BY DEF RunInv, RunSafety, WithdrawInput
  <1>2. /\ run' = [run EXCEPT !.revision = @ + 1]
        /\ inputs' = [inputs EXCEPT ![n] = row]
        /\ activations' = activations
        /\ attempts' = attempts
    BY DEF WithdrawInput
  <1>3. /\ run' \in RunRows
        /\ run'.state = run.state
        /\ run'.generation = run.generation
    <2>1. run \in RunRows
      BY <1>1, RunTypes
    <2> QED BY <1>2, <2>1 DEF RunRows
  <1>4. row \in InputRows /\ row.disposition = "Withdrawn"
    <2>1. inputs[n] \in InputRows
      BY <1>1, RunTypes
    <2> QED BY <2>1 DEF InputRows, Dispositions
  <1> HIDE DEF row
  <1>5. /\ inputs' \in Seq(InputRows)
        /\ DOMAIN inputs' = DOMAIN inputs
        /\ \A m \in DOMAIN inputs : m # n => inputs'[m] = inputs[m]
        /\ inputs'[n] = row
    BY <1>1, <1>2, <1>4, RunTypes
  <1>6. run'.state \notin Terminal
    BY <1>1, <1>3 DEF Mutable
  <1>7. TerminalOwesNothing' /\ CompletedConsidered'
    BY <1>6 DEF TerminalOwesNothing, CompletedConsidered, Mutable, Terminal
  <1>8. OnlyLatestUnrevoked' /\ GenerationCounts' /\ AttemptsBelong'
    BY <1>2, <1>3 DEF RunInv, RunSafety, OnlyLatestUnrevoked, GenerationCounts,
                      AttemptsBelong
  <1>9. AttemptInputsSupplied'
    BY <1>2, <1>5 DEF RunInv, RunSafety, AttemptInputsSupplied
  <1>10. NothingConsidered'
    <2>1. run.state # "Completed"
      BY <1>1 DEF Mutable, Terminal
    <2>2. row.disposition \notin Considered
      BY <1>4 DEF Considered
    <2> QED BY <1>5, <2>1, <2>2 DEF RunInv, NothingConsidered
  <1> QED BY <1>1, <1>2, <1>3, <1>5, <1>7, <1>8, <1>9, <1>10, RunTypes
          DEF RunPart

\* The new Activation is the only one that can act.
LEMMA StartActivationKeepsInv ==
    ASSUME RunInv, NEW p, NEW r, NEW i, NEW d \in ActivationTimes,
           StartActivation(p, r, i, d)
    PROVE  RunPart'
  <1> DEFINE new == [finished |-> FALSE, revoked |-> FALSE, expires |-> now + d,
                     supplied |-> Len(inputs)]
             old == RevokedActivations
             g == Len(activations)
  <1>1. RunTypeOK /\ Mutable /\ run.generation = g
    BY DEF RunInv, RunSafety, StartActivation, GenerationCounts
  <1>2. /\ activations' = Append(old, new)
        /\ inputs' = inputs
        /\ attempts' = attempts
    BY DEF StartActivation
  <1>3. /\ run' \in RunRows
        /\ run'.state = "Active"
        /\ run'.generation = g + 1
    <2>1. CASE run.state = "Waiting"
      BY <1>1, <2>1, RunTypes DEF StartActivation, RunRows, RunStates
    <2>2. CASE run.state # "Waiting"
      BY <1>1, <2>2, RunTypes DEF StartActivation, RunRows
    <2> QED BY <2>1, <2>2
  <1>4. new \in ActRows /\ g \in Nat
    <2>1. now \in Nat /\ d \in Nat
      BY <1>1, RunAssumption DEF RunTypeOK, OutboxTypeOK
    <2> QED BY <1>1, <2>1, RunTypes DEF ActRows
  <1>5. /\ old \in Seq(ActRows)
        /\ Len(old) = g
        /\ DOMAIN old = DOMAIN activations
        /\ \A a \in DOMAIN activations :
              /\ old[a].finished \/ old[a].revoked
              /\ old[a].supplied = activations[a].supplied
    BY <1>1, RevokedRows
  <1>6. DOMAIN activations = 1..g
    BY <1>1, RunTypes
  <1> HIDE DEF new, old
  <1>7. /\ activations' \in Seq(ActRows)
        /\ Len(activations') = g + 1
        /\ \A a \in 1..g : activations'[a] = old[a]
    BY <1>2, <1>4, <1>5, AppendProperties
  <1> HIDE DEF g
  <1>8. DOMAIN activations' = 1..(g + 1)
    BY <1>7
  <1>9. TerminalOwesNothing' /\ CompletedConsidered'
    BY <1>3 DEF TerminalOwesNothing, CompletedConsidered, Mutable, Terminal
  <1>10. GenerationCounts'
    BY <1>3, <1>7 DEF GenerationCounts
  <1>11. OnlyLatestUnrevoked'
    <2>1. \A a \in 1..g : activations'[a].finished \/ activations'[a].revoked
      BY <1>5, <1>6, <1>7
    <2>2. \A a \in 1..(g + 1) : a \in 1..g \/ a = g + 1
      BY <1>4
    <2> QED BY <1>3, <1>8, <2>1, <2>2 DEF OnlyLatestUnrevoked
  <1>12. \A a \in DOMAIN activations :
            /\ a \in DOMAIN activations'
            /\ activations'[a].supplied = activations[a].supplied
    BY <1>4, <1>5, <1>6, <1>7, <1>8
  <1>13. AttemptsBelong'
    BY <1>2, <1>12 DEF RunInv, AttemptsBelong
  <1>14. AttemptInputsSupplied'
    BY <1>2, <1>12 DEF RunInv, RunSafety, AttemptInputsSupplied, AttemptsBelong
  <1>15. NothingConsidered'
    BY <1>1, <1>2 DEF RunInv, NothingConsidered, Mutable, Terminal
  <1> QED BY <1>1, <1>2, <1>3, <1>7, <1>9, <1>10, <1>11, <1>13, <1>14, <1>15,
             RunTypes
          DEF RunPart

\* An Activation's row after FinishActivation can act even less.
LEMMA FinishActivationKeepsInv ==
    ASSUME RunInv, NEW a \in DOMAIN activations, FinishActivation(a)
    PROVE  RunPart'
  <1> DEFINE row == [activations[a] EXCEPT !.finished = TRUE]
  <1>1. RunTypeOK
    BY DEF RunInv, RunSafety
  <1>2. /\ activations' = [activations EXCEPT ![a] = row]
        /\ run' = run /\ inputs' = inputs /\ attempts' = attempts
    BY DEF FinishActivation
  <1>3. /\ row \in ActRows
        /\ row.finished
        /\ row.supplied = activations[a].supplied
    <2>1. activations[a] \in ActRows
      BY <1>1, RunTypes
    <2> QED BY <2>1 DEF ActRows
  <1> HIDE DEF row
  <1>4. /\ activations' \in Seq(ActRows)
        /\ Len(activations') = Len(activations)
        /\ DOMAIN activations' = DOMAIN activations
        /\ \A b \in DOMAIN activations :
              activations'[b] = IF b = a THEN row ELSE activations[b]
    BY <1>1, <1>2, <1>3, RunTypes
  <1>5. \A b \in DOMAIN activations :
           /\ activations'[b].supplied = activations[b].supplied
           /\ activations'[b].finished \/ activations'[b] = activations[b]
    BY <1>3, <1>4
  <1>6. TerminalOwesNothing' /\ OnlyLatestUnrevoked'
    BY <1>2, <1>4, <1>5 DEF RunInv, RunSafety, TerminalOwesNothing, Mutable,
                            PendingInputs, OnlyLatestUnrevoked
  <1>7. CompletedConsidered'
    <2>1. run.state = "Completed" => run.generation \in DOMAIN activations
      BY DEF RunInv, GenerationCounts
    <2> QED BY <1>2, <1>4, <1>5, <2>1
            DEF RunInv, RunSafety, CompletedConsidered, Considered
  <1>8. AttemptInputsSupplied'
    BY <1>2, <1>5 DEF RunInv, RunSafety, AttemptInputsSupplied, AttemptsBelong
  <1>9. NothingConsidered' /\ GenerationCounts' /\ AttemptsBelong'
    BY <1>2, <1>4 DEF RunInv, NothingConsidered, GenerationCounts, AttemptsBelong
  <1> QED BY <1>1, <1>2, <1>4, <1>6, <1>7, <1>8, <1>9, RunTypes DEF RunPart

\* A Provider is given inputs its Activation was supplied.
LEMMA StartProviderAttemptKeepsInv ==
    ASSUME RunInv, NEW p, NEW r, NEW i, NEW a \in DOMAIN activations,
           NEW ins \in SUBSET DOMAIN inputs, StartProviderAttempt(p, r, i, a, ins)
    PROVE  RunPart'
  <1> DEFINE new == [activation |-> a, inputs |-> ins, status |-> "Started"]
  <1>1. RunTypeOK
    BY DEF RunInv, RunSafety
  <1>2. /\ attempts' = Append(attempts, new)
        /\ run' = run /\ inputs' = inputs /\ activations' = activations
        /\ \A n \in ins : n \in PendingInputs /\ n <= activations[a].supplied
    BY DEF StartProviderAttempt
  <1>3. new \in AttemptRows
    <2>1. a \in Nat /\ DOMAIN inputs \subseteq Nat
      BY <1>1, RunTypes
    <2> QED BY <2>1 DEF AttemptRows, AttemptStatuses, Unsettled
  <1>4. new.activation = a /\ new.inputs = ins
    OBVIOUS
  <1> HIDE DEF new
  <1>5. /\ attempts' \in Seq(AttemptRows)
        /\ DOMAIN attempts' = 1..(Len(attempts) + 1)
        /\ \A t \in 1..Len(attempts) : attempts'[t] = attempts[t]
        /\ attempts'[Len(attempts) + 1] = new
    BY <1>1, <1>2, <1>3, RunTypes, AppendProperties
  <1>6. \A t \in DOMAIN attempts' :
           \/ t \in DOMAIN attempts /\ attempts'[t] = attempts[t]
           \/ attempts'[t] = new
    BY <1>1, <1>5, RunTypes
  <1>7. /\ TerminalOwesNothing' /\ OnlyLatestUnrevoked' /\ CompletedConsidered'
        /\ NothingConsidered' /\ GenerationCounts'
    BY <1>2 DEF RunInv, RunSafety, TerminalOwesNothing, Mutable, PendingInputs,
                OnlyLatestUnrevoked, CompletedConsidered, NothingConsidered,
                GenerationCounts
  <1>8. AttemptsBelong'
    BY <1>2, <1>4, <1>6 DEF RunInv, AttemptsBelong
  <1>9. AttemptInputsSupplied'
    BY <1>2, <1>4, <1>6
       DEF RunInv, RunSafety, AttemptInputsSupplied, PendingInputs
  <1> QED BY <1>1, <1>2, <1>5, <1>7, <1>8, <1>9, RunTypes DEF RunPart

\* An attempt's status says nothing about what it was given.
LEMMA SetAttemptStatusKeepsInv ==
    ASSUME RunInv, NEW t \in DOMAIN attempts, NEW status \in AttemptStatuses,
           SetAttemptStatus(t, status)
    PROVE  RunPart'
  <1> DEFINE row == [attempts[t] EXCEPT !.status = status]
  <1>1. RunTypeOK
    BY DEF RunInv, RunSafety
  <1>2. /\ attempts' = [attempts EXCEPT ![t] = row]
        /\ run' = run /\ inputs' = inputs /\ activations' = activations
    BY DEF SetAttemptStatus
  <1>3. /\ row \in AttemptRows
        /\ row.activation = attempts[t].activation
        /\ row.inputs = attempts[t].inputs
    <2>1. attempts[t] \in AttemptRows
      BY <1>1, RunTypes
    <2> QED BY <2>1 DEF AttemptRows
  <1> HIDE DEF row
  <1>4. /\ attempts' \in Seq(AttemptRows)
        /\ DOMAIN attempts' = DOMAIN attempts
        /\ \A s \in DOMAIN attempts :
              /\ attempts'[s].activation = attempts[s].activation
              /\ attempts'[s].inputs = attempts[s].inputs
    BY <1>1, <1>2, <1>3, RunTypes
  <1>5. /\ TerminalOwesNothing' /\ OnlyLatestUnrevoked' /\ CompletedConsidered'
        /\ NothingConsidered' /\ GenerationCounts'
    BY <1>2 DEF RunInv, RunSafety, TerminalOwesNothing, Mutable, PendingInputs,
                OnlyLatestUnrevoked, CompletedConsidered, NothingConsidered,
                GenerationCounts
  <1>6. AttemptsBelong' /\ AttemptInputsSupplied'
    BY <1>2, <1>4 DEF RunInv, RunSafety, AttemptsBelong, AttemptInputsSupplied
  <1> QED BY <1>1, <1>2, <1>4, <1>5, <1>6, RunTypes DEF RunPart

-----------------------------------------------------------------------------
(* Decisions *)

\* Every decision ends the Activations; which of the rest of the invariant is
\* left to show depends on what it does to the inputs.
LEMMA SettleKeepsRest ==
    ASSUME RunInv, NEW state \in RunStates, Settle(state)
    PROVE  /\ run' \in RunRows
           /\ run'.state = state
           /\ run'.generation = run.generation
           /\ activations' \in Seq(ActRows)
           /\ DOMAIN activations' = DOMAIN activations
           /\ \A a \in DOMAIN activations :
                 /\ activations'[a].finished \/ activations'[a].revoked
                 /\ activations'[a].supplied = activations[a].supplied
           /\ attempts' = attempts
           /\ OnlyLatestUnrevoked'
           /\ run.generation = Len(activations')
           /\ AttemptsBelong'
           /\ DOMAIN inputs' = DOMAIN inputs => AttemptInputsSupplied'
  <1>1. RunTypeOK
    BY DEF RunInv, RunSafety
  <1>2. /\ run' = [run EXCEPT !.state = state, !.revision = @ + 1]
        /\ activations' = RevokedActivations
        /\ attempts' = attempts
    BY DEF Settle
  <1>3. /\ run' \in RunRows
        /\ run'.state = state
        /\ run'.generation = run.generation
    <2>1. run \in RunRows
      BY <1>1, RunTypes
    <2>2. run.revision \in Nat /\ run.generation \in Nat
      BY <2>1 DEF RunRows
    <2>3. run' = [state |-> state, revision |-> run.revision + 1,
                  generation |-> run.generation]
      BY <1>2, <2>1 DEF RunRows
    <2> QED BY <2>2, <2>3 DEF RunRows
  <1>4. /\ activations' \in Seq(ActRows)
        /\ Len(activations') = Len(activations)
        /\ DOMAIN activations' = DOMAIN activations
        /\ \A a \in DOMAIN activations :
              /\ activations'[a].finished \/ activations'[a].revoked
              /\ activations'[a].supplied = activations[a].supplied
    BY <1>1, <1>2, RevokedRows
  <1>5. OnlyLatestUnrevoked'
    BY <1>4 DEF OnlyLatestUnrevoked
  <1>6. run.generation = Len(activations')
    BY <1>4 DEF RunInv, GenerationCounts
  <1>7. AttemptsBelong'
    BY <1>2, <1>4 DEF RunInv, AttemptsBelong
  <1>8. ASSUME DOMAIN inputs' = DOMAIN inputs
        PROVE  AttemptInputsSupplied'
    BY <1>2, <1>4, <1>8
       DEF RunInv, RunSafety, AttemptInputsSupplied, AttemptsBelong
  <1> QED BY <1>2, <1>3, <1>4, <1>5, <1>6, <1>7, <1>8

\* WaitRun and ParkRun: the inputs stay as they are.
LEMMA WaitingKeepsInv ==
    ASSUME RunInv, Mutable, Settle("Waiting"), inputs' = inputs
    PROVE  RunPart'
  <1>1. RunTypeOK
    BY DEF RunInv, RunSafety
  <1>2. /\ run' \in RunRows
        /\ run'.state = "Waiting"
        /\ run'.generation = run.generation
        /\ activations' \in Seq(ActRows)
        /\ attempts' = attempts
        /\ OnlyLatestUnrevoked'
        /\ run.generation = Len(activations')
        /\ AttemptsBelong'
        /\ AttemptInputsSupplied'
    BY SettleKeepsRest DEF RunStates
  <1>3. TerminalOwesNothing' /\ CompletedConsidered' /\ GenerationCounts'
    BY <1>2 DEF TerminalOwesNothing, CompletedConsidered, GenerationCounts,
                Mutable, Terminal
  <1>4. NothingConsidered'
    BY DEF RunInv, NothingConsidered, Mutable, Terminal
  <1> QED BY <1>1, <1>2, <1>3, <1>4, RunTypes DEF RunPart

\* terminateRun abandons what is Pending.
LEMMA TerminateKeepsInv ==
    ASSUME RunInv, Mutable, NEW state \in {"Failed", "Cancelled"},
           Terminate(state)
    PROVE  RunPart'
  <1> DEFINE Row(n) == IF n \in PendingInputs
                       THEN [inputs[n] EXCEPT !.disposition = "Abandoned"]
                       ELSE inputs[n]
             new == [n \in DOMAIN inputs |-> Row(n)]
  <1>1. RunTypeOK
    BY DEF RunInv, RunSafety
  <1>2. ASSUME NEW n \in DOMAIN inputs
        PROVE  /\ Row(n) \in InputRows
               /\ Row(n).disposition # "Pending"
               /\ Row(n).disposition \notin Considered
    <2>1. inputs[n] \in InputRows
      BY <1>1, RunTypes
    <2>2. inputs[n].disposition \notin Considered
      BY DEF RunInv, NothingConsidered, Mutable, Terminal
    <2> QED BY <2>1, <2>2
            DEF InputRows, Dispositions, Considered, PendingInputs
  <1>3. inputs' = new
    BY Zenon DEF Terminate
  <1> HIDE DEF Row
  <1>4. new \in [DOMAIN inputs -> InputRows] /\ \A n \in DOMAIN inputs : new[n] = Row(n)
    BY <1>2
  <1> HIDE DEF new
  <1>5. inputs' \in Seq(InputRows) /\ DOMAIN inputs' = DOMAIN inputs
    BY <1>1, <1>3, <1>4, RunTypes, RewrittenSequence
  <1>6. /\ run' \in RunRows
        /\ run'.state = state
        /\ activations' \in Seq(ActRows)
        /\ DOMAIN activations' = DOMAIN activations
        /\ \A a \in DOMAIN activations :
              activations'[a].finished \/ activations'[a].revoked
        /\ attempts' = attempts
        /\ OnlyLatestUnrevoked'
        /\ run'.generation = Len(activations')
        /\ AttemptsBelong'
        /\ AttemptInputsSupplied'
    BY <1>5, SettleKeepsRest DEF Terminate, RunStates, Terminal
  <1>7. TerminalOwesNothing'
    BY <1>2, <1>3, <1>4, <1>5, <1>6 DEF TerminalOwesNothing, PendingInputs
  <1>8. NothingConsidered' /\ CompletedConsidered' /\ GenerationCounts'
    BY <1>2, <1>3, <1>4, <1>5, <1>6
       DEF NothingConsidered, CompletedConsidered, GenerationCounts
  <1> QED BY <1>1, <1>5, <1>6, <1>7, <1>8, RunTypes DEF RunPart

\* CompleteRun: what is considered was Pending and supplied to Activation a,
\* and the supersessions are those of the command, which has no cycle.
LEMMA CompleteRunKeepsInv ==
    ASSUME RunInv, NEW a \in DOMAIN activations, NEW declined,
           NEW superseded \in SUBSET PendingInputs,
           NEW by \in [superseded -> DOMAIN inputs],
           CompleteRun(a, declined, by)
    PROVE  RunPart'
  <1> DEFINE Row(n) ==
               IF n \notin PendingInputs THEN inputs[n]
               ELSE IF n \in DOMAIN by
                    THEN [disposition |-> "Superseded", supersededBy |-> by[n]]
               ELSE IF n \in declined
                    THEN [disposition |-> "Declined", supersededBy |-> 0]
               ELSE [disposition |-> "Incorporated", supersededBy |-> 0]
             new == [n \in DOMAIN inputs |-> Row(n)]
  <1>1. RunTypeOK /\ run.state = "Active" /\ run.generation = a
    BY DEF RunInv, RunSafety, CompleteRun, Live
  <1>2. DOMAIN by \subseteq PendingInputs
    OBVIOUS
  <1>3. \A n \in DOMAIN inputs : n \in Nat
    BY <1>1, RunTypes
  <1>4. ASSUME NEW n \in DOMAIN inputs
        PROVE  /\ Row(n) \in InputRows
               /\ Row(n).disposition # "Pending"
               /\ Row(n).disposition \in Considered => n \in PendingInputs
               /\ Row(n).disposition = "Superseded" =>
                     n \in DOMAIN by /\ Row(n).supersededBy = by[n]
    <2>1. inputs[n] \in InputRows
      BY <1>1, RunTypes
    <2>2. inputs[n].disposition \notin Considered
      BY <1>1 DEF RunInv, NothingConsidered
    <2>3. CASE n \notin PendingInputs
      BY <2>1, <2>2, <2>3 DEF PendingInputs, Considered
    <2>4. CASE n \in DOMAIN by
      <3>1. by[n] \in Nat
        BY <1>3, <2>4
      <3> QED BY <1>2, <2>4, <3>1 DEF InputRows, Dispositions
    <2>5. CASE n \in PendingInputs /\ n \notin DOMAIN by
      BY <2>5 DEF InputRows, Dispositions
    <2> QED BY <2>3, <2>4, <2>5
  <1>5. inputs' = new /\ Settle("Completed")
    BY Zenon DEF CompleteRun
  <1> HIDE DEF Row
  <1>6. new \in [DOMAIN inputs -> InputRows] /\ \A n \in DOMAIN inputs : new[n] = Row(n)
    BY <1>4
  <1> HIDE DEF new
  <1>7. inputs' \in Seq(InputRows) /\ DOMAIN inputs' = DOMAIN inputs
    BY <1>1, <1>5, <1>6, RunTypes, RewrittenSequence
  <1>8. /\ run' \in RunRows
        /\ run'.state = "Completed"
        /\ run'.generation = a
        /\ activations' \in Seq(ActRows)
        /\ DOMAIN activations' = DOMAIN activations
        /\ \A b \in DOMAIN activations :
              /\ activations'[b].finished \/ activations'[b].revoked
              /\ activations'[b].supplied = activations[b].supplied
        /\ attempts' = attempts
        /\ OnlyLatestUnrevoked'
        /\ run'.generation = Len(activations')
        /\ AttemptsBelong'
        /\ AttemptInputsSupplied'
    BY <1>1, <1>5, <1>7, SettleKeepsRest DEF RunStates, Terminal
  <1>9. TerminalOwesNothing'
    BY <1>4, <1>5, <1>6, <1>7, <1>8 DEF TerminalOwesNothing, PendingInputs
  <1>10. NothingConsidered' /\ GenerationCounts'
    BY <1>8 DEF NothingConsidered, GenerationCounts
  <1>11. CompletedConsidered'
    <2> DEFINE Superseded ==
                 {n \in DOMAIN inputs' : inputs'[n].disposition = "Superseded"}
    <2>1. ASSUME NEW n \in DOMAIN inputs', inputs'[n].disposition \in Considered
          PROVE  n <= activations'[run'.generation].supplied
      <3>1. n \in PendingInputs
        BY <1>4, <1>5, <1>6, <1>7, <2>1
      <3>2. n <= activations[a].supplied
        BY <3>1 DEF CompleteRun
      <3> QED BY <1>8, <3>2
    <2>2. ASSUME NEW S \in SUBSET Superseded, S # {}
          PROVE  \E n \in S : inputs'[n].supersededBy \in DOMAIN inputs' \ S
      <3>1. \A n \in S : n \in DOMAIN by /\ inputs'[n].supersededBy = by[n]
        BY <1>4, <1>5, <1>6, <1>7
      <3>2. Acyclic(by)
        BY DEF CompleteRun
      <3>3. PICK n \in S : by[n] \notin S
        BY <2>2, <3>1, <3>2 DEF Acyclic
      <3> QED BY <1>7, <3>1, <3>3
    <2> QED BY <2>1, <2>2 DEF CompletedConsidered, Considered
  <1> QED BY <1>1, <1>7, <1>8, <1>9, <1>10, <1>11, RunTypes DEF RunPart

-----------------------------------------------------------------------------
(* The theorems *)

\* Steps of others leave the Run as it is.
LEMMA OthersKeepInv ==
    ASSUME RunInv, UNCHANGED runVars
    PROVE  RunPart'
  <1>1. RunPart
    BY RunInvParts
  <1>2. run' = run /\ inputs' = inputs /\ activations' = activations
            /\ attempts' = attempts
    BY DEF runVars
  <1> QED BY <1>1, <1>2
          DEF RunPart, TerminalOwesNothing, Mutable, PendingInputs,
              OnlyLatestUnrevoked, CompletedConsidered, AttemptInputsSupplied,
              NothingConsidered, GenerationCounts, AttemptsBelong

LEMMA RunInvStep ==
    ASSUME RunInv, [Next]_vars
    PROVE  RunInv'
  <1>1. RunTypeOK /\ OutboxInv
    BY DEF RunInv, RunSafety
  <1>2. OutboxInv'
    BY <1>1, OutboxStep, OutboxInvStep
  <1>3. ASSUME RunStep
        PROVE  RunPart'
    <2>1. CASE AddInput
      BY <2>1, AddInputKeepsInv
    <2>2. CASE \E n \in DOMAIN inputs : WithdrawInput(n)
      BY <2>2, WithdrawInputKeepsInv
    <2>3. CASE \E p \in Runtimes, r \in receipts, i \in DOMAIN outbox :
                  \E d \in ActivationTimes : StartActivation(p, r, i, d)
      BY <2>3, StartActivationKeepsInv
    <2>4. CASE \E p \in Runtimes, r \in receipts, i \in DOMAIN outbox :
                  \E a \in DOMAIN activations, ins \in SUBSET DOMAIN inputs :
                     StartProviderAttempt(p, r, i, a, ins)
      BY <2>4, StartProviderAttemptKeepsInv
    <2>5. CASE \E t \in DOMAIN attempts, status \in AttemptStatuses :
                  SetAttemptStatus(t, status)
      BY <2>5, SetAttemptStatusKeepsInv
    <2>6. CASE \E t \in DOMAIN attempts : ParkRun(t)
      BY <2>6, WaitingKeepsInv DEF ParkRun, Mutable, Terminal
    <2>7. CASE \E a \in DOMAIN activations : FinishActivation(a)
      BY <2>7, FinishActivationKeepsInv
    <2>8. CASE \E a \in DOMAIN activations : WaitRun(a)
      BY <2>8, WaitingKeepsInv DEF WaitRun, Live, Mutable, Terminal
    <2>9. CASE \E a \in DOMAIN activations : FailRun(a)
      BY <2>9, TerminateKeepsInv DEF FailRun, Live, Mutable, Terminal
    <2>10. CASE \E a \in DOMAIN activations :
                   \E declined, superseded \in SUBSET PendingInputs :
                      \E by \in [superseded -> DOMAIN inputs] :
                         CompleteRun(a, declined, by)
      BY <2>10, CompleteRunKeepsInv
    <2>11. CASE CancelRun
      BY <2>11, TerminateKeepsInv DEF CancelRun
    <2> QED BY <1>3, <2>1, <2>2, <2>3, <2>4, <2>5, <2>6, <2>7, <2>8, <2>9,
               <2>10, <2>11 DEF RunStep
  <1>4. ASSUME OtherEvent \/ (DeliveryStep /\ UNCHANGED runVars) \/ UNCHANGED vars
        PROVE  RunPart'
    BY <1>4, OthersKeepInv DEF OtherEvent, vars, runVars
  <1>5. RunPart'
    BY <1>3, <1>4 DEF Next
  <1> QED BY <1>2, <1>5, RunInvParts, PTL

\* The Run invariant: what the outbox, the Run, its inputs, its Activations
\* and its ProviderAttempts may be at any time.
THEOREM RunInvariant == Spec => []RunInv
  <1>1. Init => RunInv
    <2> SUFFICES ASSUME Init
                 PROVE  RunInv
      OBVIOUS
    <2>1. Fresh(1) \in Rows /\ ~Fresh(1).acked /\ Fresh(1).token = 0
      BY RunAssumption DEF Fresh, Rows
    <2>2. /\ outbox \in Seq(Rows)
          /\ DOMAIN outbox = {1}
          /\ outbox[1] = Fresh(1)
      BY <2>1 DEF Init
    <2>3. PendingInput \in InputRows /\ PendingInput.disposition \notin Considered
      BY DEF PendingInput, InputRows, Dispositions, Considered
    <2>4. /\ inputs \in Seq(InputRows)
          /\ DOMAIN inputs = {1}
          /\ inputs[1] = PendingInput
      BY <2>3 DEF Init
    <2>5. /\ activations = << >> /\ attempts = << >> /\ receipts = {}
          /\ activations \in Seq(ActRows) /\ attempts \in Seq(AttemptRows)
          /\ run = [state |-> "Active", revision |-> 1, generation |-> 0]
      BY DEF Init
    <2>6. run \in RunRows /\ run.state = "Active" /\ run.generation = 0
      BY <2>5 DEF RunRows, RunStates
    <2>7. OutboxTypeOK
      BY <2>2, OutboxAssumption DEF Init, OutboxTypeOK
    <2>8. OutboxInv
      BY <2>1, <2>2, <2>5, <2>7
         DEF Init, OutboxInv, ConsumedPrefix, UniformLease, TokensDrawn,
             BatchesFenced, Pending
    <2>9. RunPart
      BY <2>3, <2>4, <2>5, <2>6
         DEF RunPart, TerminalOwesNothing, Mutable, Terminal,
             OnlyLatestUnrevoked, CompletedConsidered, AttemptInputsSupplied,
             NothingConsidered, GenerationCounts, AttemptsBelong
    <2> QED BY <2>8, <2>9, RunInvParts
  <1>2. RunInv /\ [Next]_vars => RunInv'
    BY RunInvStep
  <1> QED BY <1>1, <1>2, PTL DEF Spec

\* Whatever order Agents, people, Providers and the clock act in, a terminal
\* Run owes nothing, one Activation at most can act, a completion considered
\* every input, and Providers see only what their Activation was supplied.
THEOREM RunSafetyHolds == Spec => []RunSafety
  <1>1. RunInv => RunSafety
    BY DEF RunInv
  <1> QED BY <1>1, RunInvariant, PTL

\* What a caller can have based a decision on changes with the revision.
LEMMA RevisionMoves ==
    ASSUME RunInv, [Next]_vars
    PROVE  /\ run'.state # run.state \/ inputs' # inputs =>
                 run'.revision = run.revision + 1
           /\ ~Mutable => run' = run /\ inputs' = inputs
  <1>1. run \in RunRows
    BY RunTypes DEF RunInv, RunSafety
  <1>2. ASSUME NEW state, Settle(state), Mutable
        PROVE  run'.revision = run.revision + 1
    BY <1>1, <1>2 DEF Settle, RunRows
  <1>3. CASE AddInput \/ \E n \in DOMAIN inputs : WithdrawInput(n)
    BY <1>1, <1>3 DEF AddInput, WithdrawInput, RunRows
  <1>4. CASE \E p \in Runtimes, r \in receipts, i \in DOMAIN outbox :
                \E d \in ActivationTimes : StartActivation(p, r, i, d)
    <2>1. PICK p \in Runtimes, r \in receipts, i \in DOMAIN outbox :
                \E d \in ActivationTimes : StartActivation(p, r, i, d)
      BY <1>4
    <2>2. Mutable /\ inputs' = inputs
      BY <2>1 DEF StartActivation
    <2>3. CASE run.state = "Waiting"
      BY <1>1, <2>1, <2>2, <2>3 DEF StartActivation, RunRows
    <2>4. CASE run.state # "Waiting"
      <3>1. run' = [run EXCEPT !.generation = @ + 1]
        BY <2>1, <2>4 DEF StartActivation
      <3> QED BY <1>1, <2>2, <3>1 DEF RunRows
    <2> QED BY <2>3, <2>4
  <1>5. CASE \/ \E p \in Runtimes, r \in receipts, i \in DOMAIN outbox :
                   \E a \in DOMAIN activations, ins \in SUBSET DOMAIN inputs :
                      StartProviderAttempt(p, r, i, a, ins)
             \/ \E t \in DOMAIN attempts, status \in AttemptStatuses :
                   SetAttemptStatus(t, status)
             \/ \E a \in DOMAIN activations : FinishActivation(a)
    BY <1>5 DEF StartProviderAttempt, SetAttemptStatus, FinishActivation
  <1>6. CASE \/ \E t \in DOMAIN attempts : ParkRun(t)
             \/ \E a \in DOMAIN activations :
                   \/ WaitRun(a) \/ FailRun(a)
                   \/ \E declined, superseded \in SUBSET PendingInputs :
                         \E by \in [superseded -> DOMAIN inputs] :
                            CompleteRun(a, declined, by)
             \/ CancelRun
    <2>1. Mutable /\ \E state : Settle(state)
      BY <1>6 DEF ParkRun, WaitRun, FailRun, CompleteRun, CancelRun, Terminate,
                  Live, Mutable, Terminal
    <2> QED BY <1>2, <2>1
  <1>7. CASE OtherEvent \/ (DeliveryStep /\ UNCHANGED runVars) \/ UNCHANGED vars
    BY <1>7 DEF OtherEvent, vars, runVars
  <1> QED BY <1>3, <1>4, <1>5, <1>6, <1>7 DEF Next, RunStep

\* Optimistic concurrency is sound: no command changes the Run behind the back
\* of a caller that states a revision, and a terminal Run never changes.
THEOREM RevisionGuardsDecisionsHolds == Spec => RevisionGuardsDecisions
  <1>1. RunInv /\ [Next]_vars =>
          [/\ run'.state # run.state \/ inputs' # inputs =>
                 run'.revision = run.revision + 1
           /\ ~Mutable => run' = run /\ inputs' = inputs]_vars
    BY RevisionMoves
  <1> QED BY <1>1, RunInvariant, PTL DEF Spec, RevisionGuardsDecisions

\* The composition refines the outbox: whatever is done about the Run, the
\* rows change only as enqueueing, claiming and acknowledging change them.
THEOREM StepsAreOutboxSteps == Spec => [][OutboxNext]_outboxVars
  <1>1. RunInv /\ [Next]_vars => [OutboxNext]_outboxVars
    BY OutboxStep DEF RunInv, RunSafety
  <1> QED BY <1>1, RunInvariant, PTL DEF Spec

\* What the outbox promises its consumers alone holds while they start
\* Activations and attempts: one lease only may deliver the oldest event, and
\* a takeover leaves no earlier one able to.
THEOREM DeliveryStaysFenced == Spec => [](SoleConsumer /\ TakeoverFences)
  <1>1. RunInv => SoleConsumer /\ TakeoverFences
    BY OneLeasePasses, LaterTokenFences DEF RunInv
  <1> QED BY <1>1, RunInvariant, PTL
=============================================================================
