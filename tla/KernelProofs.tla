---------------------------- MODULE KernelProofs ----------------------------
(***************************************************************************)
(* Proofs about the Kernel's commands (Collaboration) and the reports of   *)
(* Agents (ArtifactPublication), and about MCKernel, which runs either:    *)
(* for any principals, Agents, idempotency keys and causal limits, any     *)
(* circumstances, and any Runs, report keys, contents, calls and readers.  *)
(*                                                                         *)
(* Commands.  StoreOk says what a Kernel's tables are at any time; each    *)
(* command has a lemma that it keeps StoreOk and that Moves holds: at most *)
(* one Thread changes, whose cursor tells of it.  Commands sent again      *)
(* refer to what existed when they were recorded, so that RecordsOk rests  *)
(* on nothing being removed (Grows).                                       *)
(*                                                                         *)
(* Reports.  ReportInv is stated by what the variables belong to: the      *)
(* Runs (RunsInv), the calls (CallsInv), the storage (StorageInv), what    *)
(* the kernel committed and answered (RecordsInv) and the reads            *)
(* (ReadsInv).  ReportSafety needs of it that the storage never holds a    *)
(* name whose bytes are not flushed, that a call that stored its report    *)
(* has it kept, that records are unique by key and by content, and that    *)
(* each answer was read from a record.                                     *)
(***************************************************************************)
EXTENDS MCKernel, SequenceTheorems, FiniteSetTheorems, TLAPS

-----------------------------------------------------------------------------
(* Reports *)

RunRows ==
    [state : {"Active", "Waiting", "Ended"}, revision : 1..(MaxRevision + 1),
     generation : 0..MaxActivations]

CallStates ==
    {"collecting", "staging", "written", "synced", "linked", "verified",
     "stored"}

Requests ==
    [pc : CallStates, run : Runs, activation : Activations, key : ReportKeys,
     revision : 0..MaxRevision, content : Contents,
     staged : {"none", "cached", "durable"}]

ArtifactRows ==
    [id : Nat, run : Runs, activation : Activations, base : 0..MaxRevision,
     content : Contents]

ReadRows ==
    [pc : {"reading", "held", "missing", "given", "refused"},
     who : Activations \cup {Human}, artifact : ArtifactRows]

Durable == [name |-> "durable", bytes |-> "durable"]

Absent == [name |-> "none", bytes |-> "none"]

RunsInv ==
    /\ run \in [Runs -> RunRows]
    /\ \A r \in Runs : run[r].state = "Active" => run[r].revision <= MaxRevision
    /\ live \subseteq Activations
    /\ bridge \in [Activations -> 0..MaxRevision]

CallsInv ==
    /\ calls \in [Calls -> Requests \cup {IdleCall}]
    /\ \A c \in Calls :
          calls[c].pc # "idle" => calls[c].activation[1] = calls[c].run

\* What is linked under a digest was flushed before, and a call knows what it
\* has done so far.
StorageInv ==
    /\ disk \in [Contents -> ContentStates]
    /\ \A d \in Contents : disk[d] = Absent \/ disk[d].bytes = "durable"
    /\ \A d \in Contents : disk[d].name = "none" => disk[d] = Absent
    /\ \A c \in Calls :
          /\ calls[c].pc = "synced" => calls[c].staged = "durable"
          /\ calls[c].pc = "verified" => disk[calls[c].content].name # "none"
          /\ calls[c].pc = "stored" => disk[calls[c].content] = Durable

RecordsInv ==
    /\ IsFiniteSet(artifacts)
    /\ artifacts \subseteq ArtifactRows
    /\ \A f \in artifacts : disk[f.content] = Durable
    /\ \A e \in reportRecords : \E f \in artifacts :
          e.id = f.id /\ e.run = f.run /\ e.content = f.content
    /\ \A e, g \in reportRecords :
          e.run = g.run /\ (e.key = g.key \/ e.content = g.content) => e = g
    /\ \A p \in reportAnswers : \E e \in reportRecords :
          /\ e.run = p.run /\ e.key = p.key
          /\ e.content = p.content /\ e.id = p.id

ReadsInv == reads \in [Readers -> ReadRows \cup {IdleRead}]

ReportInv == RunsInv /\ CallsInv /\ StorageInv /\ RecordsInv /\ ReadsInv

-----------------------------------------------------------------------------
(* The invariant is strong enough *)

\* What was published can be read, and one key or content of a Run has one
\* answer: the one in its record.
LEMMA InvIsSafe == ReportInv => ReportSafety
  <1> SUFFICES ASSUME ReportInv
               PROVE  ReportSafety
    OBVIOUS
  <1>1. ReportTypeOK
    <2>1. \A r \in Runs : run[r] \in RunRows
      BY DEF ReportInv, RunsInv
    <2>2. \A d \in Contents : disk[d].name = "none" <=> disk[d].bytes = "none"
      BY DEF ReportInv, StorageInv, Absent
    <2>3. \A r \in Runs : /\ run[r].state \in {"Active", "Waiting", "Ended"}
                          /\ run[r].revision \in 1..(MaxRevision + 1)
                          /\ run[r].generation \in 0..MaxActivations
      BY <2>1 DEF RunRows
    <2>4. \A f \in artifacts : f.run \in Runs /\ f.content \in Contents
      BY DEF ReportInv, RecordsInv, ArtifactRows
    <2> QED BY <2>2, <2>3, <2>4
            DEF ReportInv, RunsInv, StorageInv, RecordsInv, ReportTypeOK
  <1>2. DescriptorsReadable
    BY DEF ReportInv, RecordsInv, Durable, DescriptorsReadable
  <1>3. RetriesAnswerAlike
    BY DEF ReportInv, RecordsInv, RetriesAnswerAlike
  <1> QED BY <1>1, <1>2, <1>3 DEF ReportSafety

-----------------------------------------------------------------------------
(* Runs and Activations *)

LEMMA ActivationParts ==
    ASSUME NEW a \in Activations
    PROVE  a[1] \in Runs /\ a[2] \in 1..MaxActivations /\ a = <<a[1], a[2]>>
  BY DEF Activations

\* The actions about Runs and Activations keep what the Runs are.
LEMMA StartActivationKeepsInv ==
    ASSUME RunsInv, NEW r \in Runs, StartActivation(r)
    PROVE  RunsInv'
  <1> DEFINE g == run[r].generation + 1
             rev == IF run[r].state = "Waiting" THEN run[r].revision + 1
                                                ELSE run[r].revision
             row == [state |-> "Active", revision |-> rev, generation |-> g]
  <1>1. /\ run' = [run EXCEPT ![r] = row]
        /\ live' = (live \ OfRun(r)) \cup {<<r, g>>}
        /\ bridge' = [bridge EXCEPT ![<<r, g>>] = rev]
        /\ g <= MaxActivations /\ rev <= MaxRevision
    BY DEF StartActivation
  <1>2. run[r] \in RunRows /\ MaxRevision \in Nat /\ MaxActivations \in Nat
    BY PublicationAssumption DEF RunsInv
  <1>3. rev \in 1..MaxRevision /\ g \in 1..MaxActivations
    BY <1>1, <1>2 DEF RunRows
  <1> HIDE DEF g, rev
  <1>4. row \in RunRows /\ row.revision <= MaxRevision
    BY <1>2, <1>3 DEF RunRows
  <1>5. <<r, g>> \in Activations
    BY <1>3 DEF Activations
  <1> HIDE DEF row
  <1> QED BY <1>1, <1>2, <1>3, <1>4, <1>5 DEF RunsInv

LEMMA ReviseRunKeepsInv ==
    ASSUME RunsInv, NEW r \in Runs, ReviseRun(r)
    PROVE  RunsInv'
  <1> DEFINE row == [run[r] EXCEPT !.revision = @ + 1]
  <1>1. /\ run' = [run EXCEPT ![r] = row]
        /\ live' = live /\ bridge' = bridge
        /\ run[r].revision < MaxRevision
    BY DEF ReviseRun
  <1>2. run[r] \in RunRows /\ MaxRevision \in Nat
    BY PublicationAssumption DEF RunsInv
  <1>3. row \in RunRows /\ row.revision <= MaxRevision
    BY <1>1, <1>2 DEF RunRows
  <1> HIDE DEF row
  <1> QED BY <1>1, <1>3 DEF RunsInv

LEMMA LeftRow ==
    ASSUME NEW x \in RunRows, NEW s
    PROVE  [[x EXCEPT !.state = s] EXCEPT !.revision = x.revision + 1]
             = [state |-> s, revision |-> x.revision + 1,
                generation |-> x.generation]
  <1>1. x = [state |-> x.state, revision |-> x.revision,
             generation |-> x.generation]
    BY DEF RunRows
  <1>2. [x EXCEPT !.state = s]
          = [state |-> s, revision |-> x.revision, generation |-> x.generation]
    BY <1>1
  <1> DEFINE y == [x EXCEPT !.state = s]
             n == x.revision + 1
  <1> HIDE DEF y, n
  <1>3. y = [state |-> s, revision |-> x.revision, generation |-> x.generation]
    BY <1>2 DEF y
  <1>4. [y EXCEPT !.revision = n]
          = [state |-> s, revision |-> n, generation |-> x.generation]
    BY <1>3
  <1> QED BY <1>4, Zenon DEF y, n

LEMMA LeaveKeepsInv ==
    ASSUME RunsInv, NEW r \in Runs, run[r].state = "Active",
           NEW s \in {"Waiting", "Ended"}, Leave(r, s)
    PROVE  RunsInv'
  <1> DEFINE row == [state |-> s, revision |-> run[r].revision + 1,
                     generation |-> run[r].generation]
  <1>1. run[r] \in RunRows /\ MaxRevision \in Nat /\ run[r].revision <= MaxRevision
    BY PublicationAssumption DEF RunsInv
  <1>2. /\ run' = [run EXCEPT ![r].state = s, ![r].revision = @ + 1]
        /\ live' \subseteq live /\ bridge' = bridge
    BY DEF Leave
  <1>3. run' = [run EXCEPT ![r] = row]
    <2>1. run' = [run EXCEPT ![r] = [[run[r] EXCEPT !.state = s]
                                        EXCEPT !.revision = run[r].revision + 1]]
      BY <1>1, <1>2 DEF RunsInv, RunRows
    <2>2. [[run[r] EXCEPT !.state = s] EXCEPT !.revision = run[r].revision + 1] = row
      BY <1>1, LeftRow
    <2> QED BY <2>1, <2>2
  <1>4. row \in RunRows /\ row.state # "Active"
    BY <1>1 DEF RunRows
  <1> HIDE DEF row
  <1> QED BY <1>2, <1>3, <1>4 DEF RunsInv

-----------------------------------------------------------------------------
(* Calls and the storage *)

\* A call under way is a request of an Activation of its Run.
LEMMA CallUnderWay ==
    ASSUME CallsInv, NEW c \in Calls, calls[c].pc # "idle"
    PROVE  calls[c] \in Requests /\ calls[c].activation[1] = calls[c].run
  BY DEF CallsInv, IdleCall

\* One call moves: it is as the step leaves it, the others are as they were.
LEMMA CallMoves ==
    ASSUME CallsInv, NEW c \in Calls, NEW row \in Requests \cup {IdleCall},
           row.pc # "idle" => row.activation[1] = row.run,
           calls' = [calls EXCEPT ![c] = row]
    PROVE  /\ CallsInv'
           /\ \A b \in Calls : calls'[b] = IF b = c THEN row ELSE calls[b]
  BY DEF CallsInv

\* A call that only advances.
LEMMA CallAdvances ==
    ASSUME CallsInv, NEW c \in Calls, calls[c].pc # "idle",
           NEW pc \in CallStates, Goes(c, pc)
    PROVE  /\ CallsInv'
           /\ calls'[c].pc = pc
           /\ calls'[c].content = calls[c].content
           /\ calls'[c].staged = calls[c].staged
           /\ \A b \in Calls : b # c => calls'[b] = calls[b]
  <1> DEFINE row == [calls[c] EXCEPT !.pc = pc]
  <1>1. calls[c] \in Requests /\ calls[c].activation[1] = calls[c].run
    BY CallUnderWay
  <1>2. /\ row \in Requests
        /\ row.activation[1] = row.run
        /\ row.pc = pc
        /\ row.content = calls[c].content
        /\ row.staged = calls[c].staged
    BY <1>1 DEF Requests
  <1>3. calls' = [calls EXCEPT ![c] = row]
    BY DEF Goes
  <1> HIDE DEF row
  <1>4. /\ CallsInv'
        /\ \A b \in Calls : calls'[b] = IF b = c THEN row ELSE calls[b]
    BY <1>2, <1>3, CallMoves
  <1> QED BY <1>2, <1>4

\* A call that is over.
LEMMA CallEnds ==
    ASSUME CallsInv, NEW c \in Calls, Ends(c)
    PROVE  /\ CallsInv'
           /\ \A b \in Calls : calls'[b] = IF b = c THEN IdleCall ELSE calls[b]
  <1>1. IdleCall \in Requests \cup {IdleCall} /\ IdleCall.pc = "idle"
    BY DEF IdleCall
  <1> QED BY <1>1, CallMoves DEF Ends

\* Ending a call owes the storage nothing.
LEMMA EndKeepsStorage ==
    ASSUME CallsInv, StorageInv, NEW c \in Calls, Ends(c), disk' = disk
    PROVE  CallsInv' /\ StorageInv'
  <1>1. /\ CallsInv'
        /\ \A b \in Calls : calls'[b] = IF b = c THEN IdleCall ELSE calls[b]
    BY CallEnds
  <1>2. IdleCall.pc = "idle"
    BY DEF IdleCall
  <1> QED BY <1>1, <1>2 DEF StorageInv

\* Nothing but a call and the storage changes, and what is kept stays kept.
LEMMA StorageFrame ==
    ASSUME ReportInv, CallsInv', StorageInv',
           UNCHANGED <<kernelVars, reads, reportAnswers>>,
           \A d \in Contents : disk[d] = Durable => disk'[d] = Durable
    PROVE  ReportInv'
  <1>1. RunsInv'
    BY DEF ReportInv, RunsInv, kernelVars
  <1>2. RecordsInv'
    BY DEF ReportInv, RecordsInv, kernelVars, ArtifactRows
  <1>3. ReadsInv'
    BY DEF ReportInv, ReadsInv
  <1> QED BY <1>1, <1>2, <1>3 DEF ReportInv

\* finalizeReport up to the storage, and the steps of the storage that leave
\* the directory alone.
LEMMA CallKeepsInv ==
    ASSUME ReportInv, NEW c \in Calls,
           \/ \E a \in Activations, k \in ReportKeys, d \in Contents :
                 BeginReport(c, a, k, d)
           \/ CollectReport(c) \/ WriteStaged(c) \/ SyncStaged(c)
           \/ VerifyContent(c) \/ StorageFails(c) \/ RefuseReport(c)
    PROVE  ReportInv'
  <1>1. CallsInv /\ StorageInv
    BY DEF ReportInv
  <1>2. disk' = disk /\ UNCHANGED <<kernelVars, reads, reportAnswers>>
    BY DEF BeginReport, CollectReport, WriteStaged, SyncStaged, VerifyContent,
           StorageFails, RefuseReport
  <1>3. ASSUME NEW a \in Activations, NEW k \in ReportKeys, NEW d \in Contents,
               BeginReport(c, a, k, d)
        PROVE  CallsInv' /\ StorageInv'
    <2> DEFINE row == Request(a, k, d)
    <2>1. bridge[a] \in 0..MaxRevision /\ a[1] \in Runs
      BY ActivationParts DEF ReportInv, RunsInv
    <2>2. /\ row \in Requests
          /\ row.activation[1] = row.run
          /\ row.pc = "collecting"
          /\ row \in Requests \cup {IdleCall}
      BY <2>1 DEF Request, Requests, CallStates
    <2>3. calls' = [calls EXCEPT ![c] = row]
      BY <1>3 DEF BeginReport
    <2> HIDE DEF row
    <2>4. /\ CallsInv'
          /\ \A b \in Calls : calls'[b] = IF b = c THEN row ELSE calls[b]
      BY <1>1, <2>2, <2>3, CallMoves
    <2> QED BY <1>1, <1>2, <2>2, <2>4 DEF StorageInv
  <1>4. ASSUME NEW pc \in {"staging", "verified"}, calls[c].pc # "idle",
               Goes(c, pc),
               pc = "verified" => disk[calls[c].content].name # "none"
        PROVE  CallsInv' /\ StorageInv'
    <2>1. /\ CallsInv'
          /\ calls'[c].pc = pc
          /\ calls'[c].content = calls[c].content
          /\ \A b \in Calls : b # c => calls'[b] = calls[b]
      BY <1>1, <1>4, CallAdvances DEF CallStates
    <2> QED BY <1>1, <1>2, <1>4, <2>1 DEF StorageInv
  <1>5. ASSUME NEW pc \in {"written", "synced"}, calls[c].pc # "idle",
               NEW staged \in {"cached", "durable"},
               pc = "synced" => staged = "durable",
               calls' = [calls EXCEPT ![c].pc = pc, ![c].staged = staged]
        PROVE  CallsInv' /\ StorageInv'
    <2> DEFINE row == [[calls[c] EXCEPT !.pc = pc] EXCEPT !.staged = staged]
    <2>1. calls[c] \in Requests /\ calls[c].activation[1] = calls[c].run
      BY <1>1, <1>5, CallUnderWay
    <2>2. /\ row \in Requests
          /\ row.activation[1] = row.run
          /\ row.pc = pc
          /\ row.staged = staged
      BY <2>1 DEF Requests, CallStates
    <2>3. calls' = [calls EXCEPT ![c] = row]
      BY <1>1, <1>5 DEF CallsInv
    <2> HIDE DEF row
    <2>4. /\ CallsInv'
          /\ \A b \in Calls : calls'[b] = IF b = c THEN row ELSE calls[b]
      BY <1>1, <2>2, <2>3, CallMoves
    <2>5. \A b \in Calls :
             /\ calls'[b].pc = "synced" => calls'[b].staged = "durable"
             /\ b # c => calls'[b] = calls[b]
      BY <1>1, <1>5, <2>2, <2>4 DEF StorageInv
    <2>6. \A b \in Calls :
             /\ calls'[b].pc = "verified" => disk[calls'[b].content].name # "none"
             /\ calls'[b].pc = "stored" => disk[calls'[b].content] = Durable
      <3>1. row.pc \notin {"verified", "stored"}
        BY <2>2
      <3>2. \A b \in Calls :
               /\ calls[b].pc = "verified" => disk[calls[b].content].name # "none"
               /\ calls[b].pc = "stored" => disk[calls[b].content] = Durable
        BY <1>1 DEF StorageInv
      <3> QED BY <2>4, <3>1, <3>2
    <2> QED BY <1>1, <1>2, <2>4, <2>5, <2>6 DEF StorageInv
  <1>6. ASSUME Ends(c)
        PROVE  CallsInv' /\ StorageInv'
    BY <1>1, <1>2, <1>6, EndKeepsStorage
  <1>7. CallsInv' /\ StorageInv'
    BY <1>3, <1>4, <1>5, <1>6
       DEF CollectReport, WriteStaged, SyncStaged, VerifyContent, StorageFails,
           RefuseReport, At, Readable
  <1> QED BY <1>2, <1>7, StorageFrame

\* A link publishes flushed bytes, or leaves the name to who published it.
LEMMA LinkKeepsInv ==
    ASSUME ReportInv, NEW c \in Calls, LinkContent(c)
    PROVE  ReportInv'
  <1> DEFINE d == calls[c].content
             new == [name |-> "cached", bytes |-> calls[c].staged]
  <1>1. CallsInv /\ StorageInv
    BY DEF ReportInv
  <1>2. /\ calls[c].pc = "synced"
        /\ Goes(c, "linked")
        /\ disk' = IF disk[d].name # "none" THEN disk
                   ELSE [disk EXCEPT ![d] = new]
        /\ UNCHANGED <<kernelVars, reads, reportAnswers>>
    BY DEF LinkContent, At
  <1>3. d \in Contents /\ calls[c].staged = "durable"
    <2>1. calls[c] \in Requests
      BY <1>1, <1>2, CallUnderWay
    <2> QED BY <1>1, <1>2, <2>1 DEF Requests, StorageInv
  <1>4. new \in ContentStates /\ new.bytes = "durable" /\ new.name = "cached"
    BY <1>3 DEF ContentStates
  <1> HIDE DEF d, new
  <1>5. /\ CallsInv'
        /\ calls'[c].pc = "linked"
        /\ \A b \in Calls : b # c => calls'[b] = calls[b]
    BY <1>1, <1>2, CallAdvances DEF CallStates
  <1>6. /\ disk' \in [Contents -> ContentStates]
        /\ \A e \in Contents :
              \/ disk'[e] = disk[e]
              \/ e = d /\ disk[d].name = "none" /\ disk'[d] = new
    BY <1>1, <1>2, <1>3, <1>4 DEF StorageInv
  <1>7. \A e \in Contents : disk[e] = Durable => disk'[e] = Durable
    BY <1>6 DEF Durable
  <1>8. StorageInv'
    <2>1. \A b \in Calls :
             calls[b].pc # "idle" => calls[b].content \in Contents
      BY <1>1, CallUnderWay DEF Requests
    <2>2. \A b \in Calls :
             /\ calls'[b].pc = "synced" => calls'[b].staged = "durable"
             /\ calls'[b].pc = "verified" => disk'[calls'[b].content].name # "none"
             /\ calls'[b].pc = "stored" => disk'[calls'[b].content] = Durable
      BY <1>1, <1>4, <1>5, <1>6, <1>7, <2>1 DEF StorageInv
    <2> QED BY <1>1, <1>4, <1>6, <2>2 DEF StorageInv
  <1> QED BY <1>2, <1>5, <1>7, <1>8, StorageFrame

\* A flush makes every name durable; what was linked was flushed before.
LEMMA FlushKeepsInv ==
    ASSUME ReportInv, NEW c \in Calls, FlushDirectory(c)
    PROVE  ReportInv'
  <1>1. CallsInv /\ StorageInv
    BY DEF ReportInv
  <1>2. /\ calls[c].pc = "verified"
        /\ Goes(c, "stored")
        /\ UNCHANGED <<kernelVars, reads, reportAnswers>>
    BY DEF FlushDirectory, At
  <1>3. disk' = [d \in Contents |-> IF disk[d].name = "none" THEN disk[d]
                                    ELSE [disk[d] EXCEPT !.name = "durable"]]
    BY DEF FlushDirectory
  <1>4. ASSUME NEW d \in Contents
        PROVE  /\ disk[d].name = "none" => disk'[d] = Absent
               /\ disk[d].name # "none" => disk'[d] = Durable
    <2>1. disk[d] \in ContentStates
      BY <1>1 DEF StorageInv
    <2>2. CASE disk[d].name = "none"
      BY <1>1, <1>3, <2>2 DEF StorageInv
    <2>3. CASE disk[d].name # "none"
      <3>1. disk[d].bytes = "durable"
        BY <1>1, <2>3 DEF StorageInv, Absent
      <3>2. disk'[d] = [disk[d] EXCEPT !.name = "durable"]
        BY <1>3, <2>3
      <3> QED BY <2>1, <2>3, <3>1, <3>2 DEF ContentStates, Durable
    <2> QED BY <2>2, <2>3
  <1>5. /\ CallsInv'
        /\ calls'[c].pc = "stored"
        /\ calls'[c].content = calls[c].content
        /\ \A b \in Calls : b # c => calls'[b] = calls[b]
    BY <1>1, <1>2, CallAdvances DEF CallStates
  <1>6. \A d \in Contents : disk[d] = Durable => disk'[d] = Durable
    BY <1>4 DEF Durable
  <1>7. StorageInv'
    <2>1. \A b \in Calls :
             calls[b].pc # "idle" => calls[b].content \in Contents
      BY <1>1, CallUnderWay DEF Requests
    <2>2. /\ Durable.name # "none" /\ Durable.bytes = "durable"
          /\ Durable \in ContentStates /\ Absent \in ContentStates
      BY DEF Durable, Absent, ContentStates
    <2>3. disk' \in [Contents -> ContentStates]
      BY <1>3, <1>4, <2>2
    <2>4. \A d \in Contents : disk'[d] = Absent \/ disk'[d] = Durable
      BY <1>4
    <2>5. \A b \in Calls :
             /\ calls'[b].pc = "synced" => calls'[b].staged = "durable"
             /\ calls'[b].pc = "verified" => disk'[calls'[b].content].name # "none"
             /\ calls'[b].pc = "stored" => disk'[calls'[b].content] = Durable
      BY <1>1, <1>2, <1>4, <1>5, <1>6, <2>1, <2>2 DEF StorageInv
    <2> QED BY <2>2, <2>3, <2>4, <2>5 DEF StorageInv
  <1> QED BY <1>2, <1>5, <1>6, <1>7, StorageFrame

-----------------------------------------------------------------------------
(* The transaction, and what it answers *)

\* The request of a call that stored its report, and that the report is kept.
LEMMA StoredCall ==
    ASSUME ReportInv, NEW c \in Calls, At(c, "stored")
    PROVE  /\ calls[c] \in Requests
           /\ calls[c].activation = <<calls[c].run, calls[c].activation[2]>>
           /\ disk[calls[c].content] = Durable
  <1>1. calls[c].pc = "stored" /\ CallsInv /\ StorageInv
    BY DEF At, ReportInv
  <1>2. calls[c] \in Requests /\ calls[c].activation[1] = calls[c].run
    BY <1>1, CallUnderWay
  <1>3. calls[c].activation \in Activations
    BY <1>2 DEF Requests
  <1> QED BY <1>1, <1>2, <1>3, ActivationParts DEF StorageInv

\* A replay answers from the record.
LEMMA ReplayKeepsInv ==
    ASSUME ReportInv, NEW c \in Calls, ReplayReport(c)
    PROVE  ReportInv'
  <1> DEFINE p == calls[c]
  <1>1. PICK e \in RecordsOf(p.run, p.key) : SamePayload(e, p) /\ ReportAnswer(p, e.id)
    BY DEF ReplayReport
  <1>2. /\ Ends(c)
        /\ UNCHANGED <<kernelVars, disk, reads>>
    BY DEF ReplayReport
  <1>3. CallsInv' /\ StorageInv'
    BY <1>2, EndKeepsStorage DEF ReportInv
  <1>4. /\ e \in reportRecords /\ e.run = p.run /\ e.key = p.key
        /\ e.content = p.content
    BY <1>1 DEF RecordsOf, SamePayload
  <1> HIDE DEF p
  <1>5. \A q \in reportAnswers' : \E g \in reportRecords :
           g.run = q.run /\ g.key = q.key /\ g.content = q.content /\ g.id = q.id
    BY <1>1, <1>4 DEF ReportAnswer, ReportInv, RecordsInv
  <1>6. RecordsInv'
    BY <1>2, <1>5 DEF ReportInv, RecordsInv, kernelVars, ArtifactRows
  <1>7. RunsInv' /\ ReadsInv'
    BY <1>2 DEF ReportInv, RunsInv, ReadsInv, kernelVars
  <1> QED BY <1>3, <1>6, <1>7 DEF ReportInv

\* What PublishArtifact commits, of a call that stored its report: a key and a
\* content that no record of the Run has.
LEMMA PublishCommits ==
    ASSUME ReportInv, NEW c \in Calls, PublishReport(c)
    PROVE  LET p == calls[c]
               e == [run |-> p.run, key |-> p.key, revision |-> p.revision,
                     content |-> p.content, id |-> Cardinality(artifacts) + 1]
           IN  /\ reportRecords' = reportRecords \cup {e}
               /\ p \in Requests
               /\ disk[p.content] = Durable
               /\ run[p.run].state = "Active"
               /\ \A g \in reportRecords :
                     g.run = p.run => g.key # p.key /\ g.content # p.content
  <1> DEFINE p == calls[c]
  <1>1. /\ p \in Requests
        /\ p.activation = <<p.run, p.activation[2]>>
        /\ disk[p.content] = Durable
    BY StoredCall DEF PublishReport
  <1>2. Authorized(p.activation) /\ RecordsOf(p.run, p.key) = {} /\ Publishable(p)
    BY DEF PublishReport
  <1> HIDE DEF p
  <1>3. run[p.run].state = "Active"
    BY <1>1, <1>2 DEF Authorized
  <1>4. ASSUME NEW g \in reportRecords, g.run = p.run
        PROVE  g.key # p.key /\ g.content # p.content
    <2>1. PICK f \in artifacts : g.run = f.run /\ g.content = f.content
      BY DEF ReportInv, RecordsInv
    <2> QED BY <1>2, <1>4, <2>1 DEF RecordsOf, Publishable
  <1> QED BY <1>1, <1>3, <1>4 DEF PublishReport, p

LEMMA PublishKeepsInv ==
    ASSUME ReportInv, NEW c \in Calls, PublishReport(c)
    PROVE  ReportInv'
  <1> DEFINE p == calls[c]
             id == Cardinality(artifacts) + 1
             f == [id |-> id, run |-> p.run, activation |-> p.activation,
                   base |-> p.revision, content |-> p.content]
             e == [run |-> p.run, key |-> p.key, revision |-> p.revision,
                   content |-> p.content, id |-> id]
  <1>1. /\ artifacts' = artifacts \cup {f}
        /\ reportRecords' = reportRecords \cup {e}
        /\ ReportAnswer(p, id)
        /\ Ends(c)
        /\ UNCHANGED <<run, live, bridge, disk, reads>>
    BY DEF PublishReport
  <1>2. /\ p \in Requests
        /\ disk[p.content] = Durable
        /\ \A g \in reportRecords :
              g.run = p.run => g.key # p.key /\ g.content # p.content
    BY PublishCommits
  <1>3. IsFiniteSet(artifacts) /\ id \in Nat
    BY FS_CardinalityType DEF ReportInv, RecordsInv
  <1> HIDE DEF p, id
  <1>4. f \in ArtifactRows /\ f.id = id /\ f.run = p.run /\ f.content = p.content
    BY <1>2, <1>3 DEF ArtifactRows, Requests
  <1>5. e.run = p.run /\ e.key = p.key /\ e.content = p.content /\ e.id = id
    OBVIOUS
  <1> HIDE DEF e, f
  <1>6. RecordsInv'
    <2>1. IsFiniteSet(artifacts')
      BY <1>1, <1>3, FS_AddElement
    <2>2. \A g \in artifacts' : disk'[g.content] = Durable
      BY <1>1, <1>2, <1>4 DEF ReportInv, RecordsInv
    <2>3. \A g \in reportRecords' : \E h \in artifacts' :
             g.id = h.id /\ g.run = h.run /\ g.content = h.content
      BY <1>1, <1>4, <1>5 DEF ReportInv, RecordsInv
    <2>4. ASSUME NEW g \in reportRecords', NEW h \in reportRecords',
                 g.run = h.run, g.key = h.key \/ g.content = h.content
          PROVE  g = h
      BY <1>1, <1>2, <1>5, <2>4 DEF ReportInv, RecordsInv
    <2>5. \A q \in reportAnswers' : \E g \in reportRecords' :
             g.run = q.run /\ g.key = q.key /\ g.content = q.content /\ g.id = q.id
      BY <1>1, <1>5 DEF ReportAnswer, ReportInv, RecordsInv
    <2>6. artifacts' \subseteq ArtifactRows'
      BY <1>1, <1>4 DEF ReportInv, RecordsInv, ArtifactRows
    <2> QED BY <2>1, <2>2, <2>3, <2>4, <2>5, <2>6 DEF RecordsInv
  <1>7. CallsInv' /\ StorageInv'
    BY <1>1, EndKeepsStorage DEF ReportInv
  <1>8. RunsInv' /\ ReadsInv'
    BY <1>1 DEF ReportInv, RunsInv, ReadsInv
  <1> QED BY <1>6, <1>7, <1>8 DEF ReportInv

-----------------------------------------------------------------------------
(* Reads, and stops *)

LEMMA ReadKeepsInv ==
    ASSUME ReportInv, NEW x \in Readers,
           \/ \E who \in Activations \cup {Human}, f \in artifacts :
                 BeginRead(x, who, f)
           \/ ReadContent(x) \/ EndRead(x) \/ ForgetRead(x)
    PROVE  ReportInv'
  <1>1. UNCHANGED <<kernelVars, disk, calls, reportAnswers>>
    BY DEF BeginRead, ReadContent, EndRead, ForgetRead
  <1>2. ASSUME reads[x].pc # "idle",
               NEW pc \in {"held", "missing", "given", "refused"},
               reads' = [reads EXCEPT ![x].pc = pc]
        PROVE  ReadsInv'
    <2>1. reads[x] \in ReadRows
      BY <1>2 DEF ReportInv, ReadsInv, IdleRead
    <2>2. [reads[x] EXCEPT !.pc = pc] \in ReadRows
      BY <2>1 DEF ReadRows
    <2> QED BY <1>2, <2>2 DEF ReportInv, ReadsInv
  <1>3. ASSUME NEW who \in Activations \cup {Human}, NEW f \in artifacts,
               BeginRead(x, who, f)
        PROVE  ReadsInv'
    <2>1. f \in ArtifactRows
      BY DEF ReportInv, RecordsInv
    <2>2. [pc |-> "reading", who |-> who, artifact |-> f] \in ReadRows
      BY <2>1 DEF ReadRows
    <2> QED BY <1>3, <2>2 DEF BeginRead, ReportInv, ReadsInv
  <1>4. ASSUME ForgetRead(x)
        PROVE  ReadsInv'
    BY <1>4 DEF ForgetRead, ReportInv, ReadsInv
  <1>5. ReadsInv'
    BY <1>2, <1>3, <1>4 DEF ReadContent, EndRead
  <1>6. RunsInv' /\ CallsInv' /\ StorageInv' /\ RecordsInv'
    BY <1>1 DEF ReportInv, RunsInv, CallsInv, StorageInv, RecordsInv, kernelVars,
                ArtifactRows
  <1> QED BY <1>5, <1>6 DEF ReportInv

\* A stop loses the calls; a power failure loses no content that is kept, and
\* tears none, because only flushed bytes are linked.
LEMMA StopKeepsInv ==
    ASSUME ReportInv, ProcessStops \/ PowerFails
    PROVE  ReportInv'
  <1>1. /\ calls' = [c \in Calls |-> IdleCall]
        /\ reads' = [x \in Readers |-> IdleRead]
        /\ UNCHANGED <<kernelVars, reportAnswers>>
    BY DEF ProcessStops, PowerFails, Stop
  <1>2. IdleCall.pc = "idle"
    BY DEF IdleCall
  <1>3. CallsInv' /\ ReadsInv'
    BY <1>1, <1>2 DEF CallsInv, ReadsInv
  <1>4. /\ disk' \in [Contents -> ContentStates]
        /\ \A d \in Contents : \/ disk'[d] = disk[d]
                               \/ disk'[d] = Absent
                               \/ disk'[d] = Durable
        /\ \A d \in Contents : disk[d] = Durable => disk'[d] = Durable
    <2>1. CASE ProcessStops
      BY <2>1 DEF ProcessStops, ReportInv, StorageInv
    <2>2. CASE PowerFails
      <3>1. PICK lost \in SUBSET {d \in Contents : disk[d].name = "cached"} :
              disk' = [d \in Contents |->
                         IF d \in lost THEN [name |-> "none", bytes |-> "none"]
                         ELSE IF disk[d].name = "none" THEN disk[d]
                         ELSE [name  |-> "durable",
                               bytes |-> IF disk[d].bytes = "durable"
                                         THEN "durable" ELSE "torn"]]
        BY <2>2 DEF PowerFails
      <3>2. ASSUME NEW d \in Contents
            PROVE  /\ \/ disk'[d] = disk[d]
                      \/ disk'[d] = Absent
                      \/ disk'[d] = Durable
                   /\ disk[d] = Durable => disk'[d] = Durable
        <4>1. disk[d].name # "none" => disk[d].bytes = "durable"
          BY DEF ReportInv, StorageInv, Absent
        <4> QED BY <3>1, <4>1 DEF Absent, Durable
      <3>3. Absent \in ContentStates /\ Durable \in ContentStates
        BY DEF Absent, Durable, ContentStates
      <3>4. \A d \in Contents : disk'[d] \in ContentStates
        BY <3>2, <3>3 DEF ReportInv, StorageInv
      <3>5. disk' \in [Contents -> ContentStates]
        BY <3>1, <3>4
      <3> QED BY <3>2, <3>5
    <2> QED BY <2>1, <2>2
  <1>5. StorageInv'
    <2>1. /\ Durable.name # "none" /\ Durable.bytes = "durable"
      BY DEF Durable
    <2>2. \A c \in Calls : calls'[c].pc = "idle"
      BY <1>1, <1>2
    <2> QED BY <1>4, <2>1, <2>2 DEF ReportInv, StorageInv
  <1>6. RunsInv'
    BY <1>1 DEF ReportInv, RunsInv, kernelVars
  <1>7. RecordsInv'
    BY <1>1, <1>4 DEF ReportInv, RecordsInv, kernelVars, ArtifactRows
  <1> QED BY <1>3, <1>5, <1>6, <1>7 DEF ReportInv

-----------------------------------------------------------------------------
(* The theorems *)

LEMMA ReportInvStep ==
    ASSUME ReportInv, [ReportNext]_reportVars
    PROVE  ReportInv'
  <1>1. ASSUME UNCHANGED <<artifacts, reportRecords, disk, calls, reads,
                           reportAnswers>>,
               RunsInv'
        PROVE  ReportInv'
    BY <1>1 DEF ReportInv, CallsInv, StorageInv, RecordsInv, ReadsInv,
                ArtifactRows
  <1>2. RunsInv
    BY DEF ReportInv
  <1>3. CASE \E r \in Runs : StartActivation(r)
    BY <1>1, <1>2, <1>3, StartActivationKeepsInv DEF StartActivation
  <1>4. CASE \E r \in Runs : ReviseRun(r)
    BY <1>1, <1>2, <1>4, ReviseRunKeepsInv DEF ReviseRun
  <1>5. CASE \/ \E r \in Runs : Park(r)
             \/ \E a \in Activations, s \in {"Waiting", "Ended"} :
                   BridgeSettles(a, s)
    <2>1. PICK r \in Runs, s \in {"Waiting", "Ended"} :
             run[r].state = "Active" /\ Leave(r, s)
      BY <1>5, ActivationParts DEF Park, BridgeSettles, Authorized
    <2> QED BY <1>1, <1>2, <2>1, LeaveKeepsInv DEF Leave
  <1>6. CASE \E a \in Activations : Expire(a)
    BY <1>1, <1>2, <1>6 DEF Expire, RunsInv
  <1>7. CASE \E c \in Calls :
               \/ \E a \in Activations, k \in ReportKeys, d \in Contents :
                     BeginReport(c, a, k, d)
               \/ CollectReport(c) \/ WriteStaged(c) \/ SyncStaged(c)
               \/ VerifyContent(c) \/ StorageFails(c) \/ RefuseReport(c)
    BY <1>7, CallKeepsInv
  <1>8. CASE \E c \in Calls : LinkContent(c)
    BY <1>8, LinkKeepsInv
  <1>9. CASE \E c \in Calls : FlushDirectory(c)
    BY <1>9, FlushKeepsInv
  <1>10. CASE \E c \in Calls : ReplayReport(c)
    BY <1>10, ReplayKeepsInv
  <1>11. CASE \E c \in Calls : PublishReport(c)
    BY <1>11, PublishKeepsInv
  <1>12. CASE \E x \in Readers :
                \/ \E who \in Activations \cup {Human}, f \in artifacts :
                      BeginRead(x, who, f)
                \/ ReadContent(x) \/ EndRead(x) \/ ForgetRead(x)
    BY <1>12, ReadKeepsInv
  <1>13. CASE ProcessStops \/ PowerFails
    BY <1>13, StopKeepsInv
  <1>14. CASE UNCHANGED reportVars
    <2>1. RunsInv'
      BY <1>2, <1>14 DEF RunsInv, reportVars
    <2> QED BY <1>1, <1>14, <2>1 DEF reportVars
  <1> QED BY <1>3, <1>4, <1>5, <1>6, <1>7, <1>8, <1>9, <1>10, <1>11, <1>12,
             <1>13, <1>14 DEF ReportNext, Store

\* The invariant of the Runs, the calls, the storage, the records and the
\* reads.
THEOREM ReportInvariant == ReportSpec => []ReportInv
  <1>1. ReportInit => ReportInv
    <2> SUFFICES ASSUME ReportInit
                 PROVE  ReportInv
      OBVIOUS
    <2>1. RunsInv
      <3>1. /\ 1 \in 1..(MaxRevision + 1)
            /\ 0 \in 0..MaxActivations
            /\ 0 \in 0..MaxRevision
        BY PublicationAssumption
      <3>2. [state |-> "Waiting", revision |-> 1, generation |-> 0] \in RunRows
        BY <3>1 DEF RunRows
      <3> QED BY <3>1, <3>2 DEF ReportInit, RunsInv
    <2>2. CallsInv /\ ReadsInv
      BY DEF ReportInit, CallsInv, ReadsInv, IdleCall
    <2>3. StorageInv
      <3>1. Absent \in ContentStates
        BY DEF Absent, ContentStates
      <3>2. disk = [d \in Contents |-> Absent]
        BY DEF ReportInit, Absent
      <3>3. \A c \in Calls : calls[c].pc = "idle"
        BY DEF ReportInit, IdleCall
      <3> QED BY <3>1, <3>2, <3>3 DEF StorageInv
    <2>4. RecordsInv
      BY FS_EmptySet DEF ReportInit, RecordsInv
    <2> QED BY <2>1, <2>2, <2>3, <2>4 DEF ReportInv
  <1>2. ReportInv /\ [ReportNext]_reportVars => ReportInv'
    BY ReportInvStep
  <1> QED BY <1>1, <1>2, PTL DEF ReportSpec

\* Whichever calls store and publish concurrently, over retries, lost answers
\* and stops: a committed descriptor can be read, and one key or one content
\* of a Run is answered with one report.
THEOREM ReportSafetyHolds == ReportSpec => []ReportSafety
  BY InvIsSafe, ReportInvariant, PTL

\* The authority is that of the moment a step answers, not of the moment the
\* call or the read began.
LEMMA StepsAnswerAuthorized ==
    ASSUME ReportInv, [ReportNext]_reportVars
    PROVE  /\ \A p \in reportAnswers' \ reportAnswers :
                 Authorized(<<p.run, p.generation>>)
           /\ \A x \in Readers :
                 /\ reads'[x].pc = "given"
                 /\ reads[x].pc # "given"
                 /\ reads[x].who # Human
                 => Authorized(reads[x].who)
  <1>1. ASSUME NEW c \in Calls, At(c, "stored"), Authorized(calls[c].activation),
               NEW id, ReportAnswer(calls[c], id), reads' = reads
        PROVE  /\ \A p \in reportAnswers' \ reportAnswers :
                     Authorized(<<p.run, p.generation>>)
               /\ reads' = reads
    <2>1. calls[c].activation = <<calls[c].run, calls[c].activation[2]>>
      BY <1>1, StoredCall
    <2> QED BY <1>1, <2>1 DEF ReportAnswer
  <1>2. CASE \E c \in Calls : ReplayReport(c) \/ PublishReport(c)
    BY <1>1, <1>2 DEF ReplayReport, PublishReport
  <1>3. CASE \E x \in Readers : EndRead(x)
    <2>1. PICK x \in Readers : EndRead(x)
      BY <1>3
    <2>2. /\ reportAnswers' = reportAnswers
          /\ \A y \in Readers : y # x => reads'[y] = reads[y]
      BY <2>1 DEF EndRead, ReportInv, ReadsInv
    <2>3. ASSUME reads'[x].pc = "given", reads[x].who # Human
          PROVE  Authorized(reads[x].who)
      <3> DEFINE pc == IF reads[x].pc = "held" /\ Visible(reads[x].who, reads[x].artifact)
                       THEN "given" ELSE "refused"
      <3>1. reads[x] \in ReadRows
        BY <2>1 DEF EndRead, ReportInv, ReadsInv, IdleRead
      <3>2. reads'[x].pc = pc
        BY <2>1, <3>1 DEF EndRead, ReportInv, ReadsInv, ReadRows
      <3>3. Visible(reads[x].who, reads[x].artifact)
        BY <2>3, <3>2
      <3> QED BY <2>3, <3>3 DEF Visible
    <2> QED BY <2>2, <2>3
  <1>4. CASE \E x \in Readers :
                \/ \E who \in Activations \cup {Human}, f \in artifacts :
                      BeginRead(x, who, f)
                \/ ReadContent(x) \/ ForgetRead(x)
    <2>1. PICK x \in Readers :
                \/ \E who \in Activations \cup {Human}, f \in artifacts :
                      BeginRead(x, who, f)
                \/ ReadContent(x) \/ ForgetRead(x)
      BY <1>4
    <2>2. /\ reportAnswers' = reportAnswers
          /\ \A y \in Readers : y # x => reads'[y] = reads[y]
      BY <2>1 DEF BeginRead, ReadContent, ForgetRead, ReportInv, ReadsInv
    <2>3. reads'[x].pc # "given"
      <3>1. CASE ReadContent(x)
        <4>1. reads[x] \in ReadRows
          BY <3>1 DEF ReadContent, ReportInv, ReadsInv, IdleRead
        <4> QED BY <3>1, <4>1 DEF ReadContent, ReportInv, ReadsInv, ReadRows
      <3>2. CASE \E who \in Activations \cup {Human}, f \in artifacts :
                    BeginRead(x, who, f)
        BY <3>2 DEF BeginRead, ReportInv, ReadsInv
      <3>3. CASE ForgetRead(x)
        BY <3>3 DEF ForgetRead, ReportInv, ReadsInv, IdleRead
      <3> QED BY <2>1, <3>1, <3>2, <3>3
    <2> QED BY <2>2, <2>3
  <1>5. CASE ProcessStops \/ PowerFails
    <2>1. reportAnswers' = reportAnswers /\ reads' = [x \in Readers |-> IdleRead]
      BY <1>5 DEF ProcessStops, PowerFails, Stop
    <2>2. IdleRead.pc # "given"
      BY DEF IdleRead
    <2> QED BY <2>1, <2>2
  <1>6. CASE reportAnswers' = reportAnswers /\ reads' = reads
    BY <1>6
  <1>7. CASE \/ \E r \in Runs : StartActivation(r) \/ ReviseRun(r) \/ Park(r)
             \/ \E a \in Activations :
                   \/ Expire(a)
                   \/ \E s \in {"Waiting", "Ended"} : BridgeSettles(a, s)
             \/ \E c \in Calls, a \in Activations, k \in ReportKeys, d \in Contents :
                   BeginReport(c, a, k, d)
             \/ \E c \in Calls : CollectReport(c) \/ Store(c) \/ RefuseReport(c)
             \/ UNCHANGED reportVars
    BY <1>6, <1>7
       DEF StartActivation, ReviseRun, Park, Leave, Expire, BridgeSettles,
           BeginReport, CollectReport, Store, WriteStaged, SyncStaged,
           LinkContent, VerifyContent, FlushDirectory, StorageFails,
           RefuseReport, reportVars
  <1> QED BY <1>2, <1>3, <1>4, <1>5, <1>7 DEF ReportNext

\* No report is answered, and no content given to an Agent, by a step at which
\* the Activation it is for has no authority.
THEOREM ReportStepsHold == ReportSpec => ReportSteps
  <1>1. ReportInv /\ [ReportNext]_reportVars =>
          [\A p \in reportAnswers' \ reportAnswers :
             Authorized(<<p.run, p.generation>>)]_reportVars
    BY StepsAnswerAuthorized
  <1>2. ReportInv /\ [ReportNext]_reportVars =>
          [\A x \in Readers :
             reads'[x].pc = "given" /\ reads[x].pc # "given" /\ reads[x].who # Human
                => Authorized(reads[x].who)]_reportVars
    BY StepsAnswerAuthorized
  <1> QED BY <1>1, <1>2, ReportInvariant, PTL
          DEF ReportSpec, ReportSteps, NoAnswerAfterAuthority, NoReadAfterAuthority

-----------------------------------------------------------------------------
(* Refinement: publication is a register of reports that only grows. *)

\* The registered reports, and the contents that outlive a stop.
Registered ==
    {[run |-> e.run, key |-> e.key, content |-> e.content] : e \in reportRecords}

KeptContents ==
    {d \in Contents : disk[d] = [name |-> "durable", bytes |-> "durable"]}

WorkingRuns == {r \in Runs : run[r].state = "Active"}

\* A step that records nothing keeps contents, or moves on.
LEMMA UnrecordedStep ==
    ASSUME ReportInv, [ReportNext]_reportVars,
           ~ \E c \in Calls : PublishReport(c)
    PROVE  [Register!RegisterNext]_(Register!registerVars)
  <1>1. CASE \E c \in Calls : LinkContent(c)
    <2>1. PICK c \in Calls : LinkContent(c)
      BY <1>1
    <2>2. \A d \in Contents : disk[d] = Durable => disk'[d] = Durable
      BY <2>1 DEF LinkContent, ReportInv, StorageInv, Durable
    <2>3. run' = run /\ reportRecords' = reportRecords
      BY <2>1 DEF LinkContent, kernelVars
    <2> QED BY <2>2, <2>3 DEF Register!RegisterNext, Register!Keep, Durable
  <1>2. CASE \E c \in Calls : FlushDirectory(c)
    <2>1. PICK c \in Calls : FlushDirectory(c)
      BY <1>2
    <2>2. \A d \in Contents : disk[d] = Durable => disk'[d] = Durable
      BY <2>1 DEF FlushDirectory, ReportInv, StorageInv, Durable
    <2>3. run' = run /\ reportRecords' = reportRecords
      BY <2>1 DEF FlushDirectory, kernelVars
    <2> QED BY <2>2, <2>3 DEF Register!RegisterNext, Register!Keep, Durable
  <1>3. CASE PowerFails
    <2>1. \A d \in Contents : disk[d] = Durable => disk'[d] = Durable
      BY <1>3 DEF PowerFails, ReportInv, StorageInv, Durable
    <2>2. run' = run /\ reportRecords' = reportRecords
      BY <1>3 DEF PowerFails, Stop, kernelVars
    <2> QED BY <2>1, <2>2 DEF Register!RegisterNext, Register!Keep, Durable
  <1>4. CASE reportRecords' = reportRecords /\ disk' = disk
    BY <1>4 DEF Register!RegisterNext, Register!MoveOn
  <1>5. CASE \/ \E r \in Runs : StartActivation(r) \/ ReviseRun(r) \/ Park(r)
             \/ \E a \in Activations :
                   \/ Expire(a)
                   \/ \E s \in {"Waiting", "Ended"} : BridgeSettles(a, s)
             \/ \E c \in Calls, a \in Activations, k \in ReportKeys, d \in Contents :
                   BeginReport(c, a, k, d)
             \/ \E c \in Calls :
                   \/ CollectReport(c) \/ ReplayReport(c) \/ RefuseReport(c)
                   \/ WriteStaged(c) \/ SyncStaged(c) \/ VerifyContent(c)
                   \/ StorageFails(c)
             \/ \E x \in Readers :
                   \/ \E who \in Activations \cup {Human}, f \in artifacts :
                         BeginRead(x, who, f)
                   \/ ReadContent(x) \/ EndRead(x) \/ ForgetRead(x)
             \/ ProcessStops
             \/ UNCHANGED reportVars
    BY <1>4, <1>5
       DEF StartActivation, ReviseRun, Park, Leave, Expire, BridgeSettles,
           BeginReport, CollectReport, ReplayReport, RefuseReport, WriteStaged,
           SyncStaged, VerifyContent, StorageFails, BeginRead, ReadContent,
           EndRead, ForgetRead, ProcessStops, Stop, kernelVars, reportVars
  <1> QED BY <1>1, <1>2, <1>3, <1>5 DEF ReportNext, Store

\* The transaction enters one report that the register has by neither its key
\* nor its content.
LEMMA PublishEnters ==
    ASSUME ReportInv, NEW c \in Calls, PublishReport(c)
    PROVE  Register!Enter
  <1> DEFINE p == calls[c]
             e == [run |-> p.run, key |-> p.key, revision |-> p.revision,
                   content |-> p.content, id |-> Cardinality(artifacts) + 1]
             q == [run |-> p.run, key |-> p.key, content |-> p.content]
  <1>1. /\ reportRecords' = reportRecords \cup {e}
        /\ p \in Requests
        /\ disk[p.content] = Durable
        /\ run[p.run].state = "Active"
        /\ \A g \in reportRecords :
              g.run = p.run => g.key # p.key /\ g.content # p.content
    BY PublishCommits
  <1>2. run' = run /\ disk' = disk
    BY DEF PublishReport
  <1>3. p.run \in WorkingRuns /\ p.content \in KeptContents
    BY <1>1 DEF Requests, WorkingRuns, KeptContents, Durable
  <1>4. Registered' = Registered \cup {q}
    <2> DEFINE Named(g) == [run |-> g.run, key |-> g.key, content |-> g.content]
    <2>1. Named(e) = q
      OBVIOUS
    <2>2. /\ Registered = {Named(g) : g \in reportRecords}
          /\ Registered' = {Named(g) : g \in reportRecords'}
      BY DEF Registered
    <2> HIDE DEF Named, e, q
    <2> QED BY <1>1, <2>1, <2>2
  <1>5. ASSUME NEW g \in Registered, g.run = q.run
        PROVE  g.key # q.key /\ g.content # q.content
    BY <1>1, <1>5 DEF Registered
  <1>6. q \notin Registered
    BY <1>5
  <1>7. WorkingRuns' = WorkingRuns /\ KeptContents' = KeptContents
    BY <1>2 DEF WorkingRuns, KeptContents
  <1>8. /\ q.run \in WorkingRuns
        /\ q.content \in KeptContents
    BY <1>3
  <1> HIDE DEF q
  <1>9. /\ Registered \subseteq Registered'
        /\ \E r \in Registered' \ Registered :
              /\ Registered' = Registered \cup {r}
              /\ r.run \in WorkingRuns
              /\ r.content \in KeptContents
              /\ \A g \in Registered :
                    g.run = r.run => g.key # r.key /\ g.content # r.content
    BY <1>4, <1>5, <1>6, <1>8
  <1> QED BY <1>7, <1>9
          DEF Register!Enter, Registered, KeptContents, WorkingRuns

\* Publication implements the register: a report enters once for its key and
\* once for its bytes, while its Run works, after its bytes are kept.
THEOREM RegisterSpecHolds == ReportSpec => RegisterSpec
  <1>1. ReportInit => Register!RegisterInit
    BY DEF ReportInit, Register!RegisterInit
  <1>2. ReportInv /\ [ReportNext]_reportVars =>
          [Register!RegisterNext]_(Register!registerVars)
    <2>1. ASSUME ReportInv, NEW c \in Calls, PublishReport(c)
          PROVE  Register!RegisterNext
      BY <2>1, PublishEnters DEF Register!RegisterNext
    <2> QED BY <2>1, UnrecordedStep
  <1> QED BY <1>1, <1>2, ReportInvariant, PTL
          DEF ReportSpec, RegisterSpec, Register!RegisterSpec

-----------------------------------------------------------------------------
(* Commands: what the tables are at any time *)

ChannelMessages ==
    [author : Principals, thread : Nat, run : Nat, tombstone : BOOLEAN,
     revisions : Seq(SUBSET Agents), silent : SUBSET Principals]

ChannelAttentions ==
    [message : Nat, revision : Nat, target : Agents,
     status : {"Open", "Resolved", "Ignored"}, run : Nat]

ChannelRuns ==
    [owner : Agents, thread : Nat, state : {"Active", "Completed", "Cancelled"},
     revision : Nat, inputs : Nat, writer : {"None", "Held", "Stopped", "Lost"},
     root : Nat, parent : Nat, depth : Nat]

StoreRows ==
    [messages : Seq(ChannelMessages), cursors : Seq(Nat),
     attentions : SUBSET ChannelAttentions, runs : Seq(ChannelRuns)]

-----------------------------------------------------------------------------
(* The inductive invariant of what the Kernel keeps *)

StoreTyped(d) ==
    /\ d \in StoreRows
    /\ Len(d.cursors) = Len(d.messages)
    /\ IsFiniteSet(d.attentions)

\* A Message of an Agent is a reply of its Run, in the Run's Thread.
MessagesOk(d) ==
    \A m \in DOMAIN d.messages :
        LET row == d.messages[m]
        IN  /\ row.thread \in 1..m
            /\ row.run \in 0..Len(d.runs)
            /\ row.author \in Agents <=> row.run # None
            /\ row.run # None => /\ row.author = d.runs[row.run].owner
                                 /\ row.thread = d.runs[row.run].thread
            /\ Len(row.revisions) >= 1

AttentionsOk(d) ==
    /\ \A a \in d.attentions :
          /\ a.message \in DOMAIN d.messages
          /\ a.revision \in DOMAIN d.messages[a.message].revisions
          /\ IF a.status = "Resolved" THEN a.run \in DOMAIN d.runs ELSE a.run = None
    /\ \A a, b \in d.attentions :
          a.message = b.message /\ a.revision = b.revision /\ a.target = b.target => a = b

\* Attention a is what made Run r.
Caused(d, a, r) ==
    LET work == d.runs[r]
    IN  /\ a.run = r /\ a.target = work.owner
        /\ d.messages[a.message].run = work.parent
        /\ work.parent = None => a.message = work.root

RunsOk(d) ==
    \A r \in DOMAIN d.runs :
        LET work == d.runs[r]
        IN  /\ work.root \in DOMAIN d.messages
            /\ d.messages[work.root].author \in Humans
            /\ d.messages[work.root].thread = work.thread
            /\ work.parent \in 0..r - 1
            /\ IF work.parent = None THEN work.depth = 0
               ELSE /\ work.root = d.runs[work.parent].root
                    /\ work.depth = d.runs[work.parent].depth + 1
            /\ work.depth <= MaxDepth
            /\ work.revision >= work.inputs
            /\ \E a \in d.attentions : Caused(d, a, r)

\* Whom revision n of Message m asks.
Addressed(d, m, n) ==
    IF n = 1 THEN d.messages[m].revisions[n] \ d.messages[m].silent
    ELSE d.messages[m].revisions[n]

AskedOk(d) ==
    \A m \in DOMAIN d.messages : \A n \in DOMAIN d.messages[m].revisions, x \in Agents :
        x \in Addressed(d, m, n) <=>
            \E a \in d.attentions : a.message = m /\ a.revision = n /\ a.target = x

BoundOk(d) == \A m \in Nat : Cardinality(NonTerminal(d, m)) <= MaxNonTerminal

StoreOk(d) ==
    /\ StoreTyped(d)
    /\ MessagesOk(d)
    /\ AttentionsOk(d)
    /\ RunsOk(d)
    /\ AskedOk(d)
    /\ BoundOk(d)

\* From d to e only Thread t changes, and its cursor tells of it n times.
Moves(d, e, t, n) ==
    /\ DOMAIN d.messages \subseteq DOMAIN e.messages
    /\ DOMAIN d.cursors \subseteq DOMAIN e.cursors
    /\ DOMAIN d.runs \subseteq DOMAIN e.runs
    /\ \A r \in DOMAIN d.runs : /\ e.runs[r].owner = d.runs[r].owner
                                /\ e.runs[r].thread = d.runs[r].thread
    /\ \A m \in DOMAIN d.messages : e.messages[m].thread = d.messages[m].thread
    /\ \A m \in DOMAIN e.messages :
          e.messages[m].thread # t =>
             m \in DOMAIN d.messages /\ e.messages[m] = d.messages[m]
    /\ \A r \in DOMAIN e.runs :
          e.runs[r].thread # t =>
             /\ r \in DOMAIN d.runs
             /\ e.runs[r].state = d.runs[r].state
             /\ e.runs[r].revision = d.runs[r].revision
             /\ e.runs[r].inputs = d.runs[r].inputs
    /\ t \in DOMAIN d.cursors => e.cursors[t] >= d.cursors[t] + n

Types ==
    {"StartThread", "ReplyToThread", "EditMessage", "DeleteMessage", "SendToRun",
     "CancelRun", "PublishRunReply", "CompleteRun", "ResolveAttentionWithRun",
     "ResolveAttentionWithExistingRun", "IgnoreAttention"}

\* Command c refers to what exists.
CommandOk(d, c) ==
    /\ c.type \in Types
    /\ c.type = "ReplyToThread" => c.thread \in DOMAIN d.messages
    /\ c.type \in {"EditMessage", "DeleteMessage"} => c.message \in DOMAIN d.messages
    /\ c.type \in {"StartThread", "ReplyToThread", "EditMessage", "SendToRun",
                   "PublishRunReply", "CompleteRun"} => c.targets \subseteq Agents
    /\ c.type \in {"SendToRun", "CancelRun", "PublishRunReply", "CompleteRun",
                   "ResolveAttentionWithExistingRun"} => c.run \in DOMAIN d.runs

RecordsOk ==
    /\ \A slot \in DOMAIN records :
          LET c == records[slot].cmd
          IN  /\ slot \in Principals \X Types \X Keys
              /\ records[slot] = [cmd |-> c, result |-> records[slot].result]
              /\ CommandOk(store, c)
              /\ c.type = slot[2]
              /\ c.type \in {"PublishRunReply", "CompleteRun"} =>
                    store.runs[c.run].owner = slot[1]
    /\ \A slot \in DOMAIN answers :
          slot \in DOMAIN records /\ answers[slot] \in Seq({records[slot]})

CollaborationInv ==
    /\ StoreOk(store)
    /\ RecordsOk
    /\ limits = [depth |-> MaxDepth, nonTerminal |-> MaxNonTerminal]
    /\ scene \in Circumstances

-----------------------------------------------------------------------------
(* Sequences and rows *)

\* An element of a sequence is replaced.
LEMMA Updated ==
    ASSUME NEW S, NEW s \in Seq(S), NEW i \in DOMAIN s, NEW v \in S
    PROVE  /\ [s EXCEPT ![i] = v] \in Seq(S)
           /\ DOMAIN [s EXCEPT ![i] = v] = DOMAIN s
           /\ Len([s EXCEPT ![i] = v]) = Len(s)
BY DEF Seq

\* A store has the fields it is made of.
LEMMA StoreFields ==
    ASSUME NEW d \in StoreRows
    PROVE  /\ d.messages \in Seq(ChannelMessages) /\ d.cursors \in Seq(Nat)
           /\ d.attentions \subseteq ChannelAttentions /\ d.runs \in Seq(ChannelRuns)
           /\ d = [messages |-> d.messages, cursors |-> d.cursors,
                   attentions |-> d.attentions, runs |-> d.runs]
           /\ DOMAIN d.messages = 1..Len(d.messages) /\ Len(d.messages) \in Nat
           /\ DOMAIN d.cursors = 1..Len(d.cursors) /\ Len(d.cursors) \in Nat
           /\ DOMAIN d.runs = 1..Len(d.runs) /\ Len(d.runs) \in Nat
BY DEF StoreRows

LEMMA CursorsAreNat ==
    ASSUME NEW d \in StoreRows, NEW t \in DOMAIN d.cursors
    PROVE  d.cursors[t] \in Nat
BY StoreFields

LEMMA RowFields ==
    ASSUME NEW d \in StoreRows
    PROVE  /\ \A m \in DOMAIN d.messages :
                 LET row == d.messages[m]
                 IN  /\ row \in ChannelMessages
                     /\ row.author \in Principals /\ row.thread \in Nat /\ row.run \in Nat
                     /\ row.revisions \in Seq(SUBSET Agents)
                     /\ row.silent \subseteq Principals
           /\ \A r \in DOMAIN d.runs :
                 LET row == d.runs[r]
                 IN  /\ row \in ChannelRuns
                     /\ row.owner \in Agents /\ row.thread \in Nat /\ row.root \in Nat
                     /\ row.parent \in Nat /\ row.depth \in Nat
                     /\ row.revision \in Nat /\ row.inputs \in Nat
           /\ \A a \in d.attentions :
                 /\ a \in ChannelAttentions /\ a.message \in Nat /\ a.revision \in Nat
                 /\ a.target \in Agents /\ a.run \in Nat
<1>1. \A m \in DOMAIN d.messages : d.messages[m] \in ChannelMessages
  BY StoreFields
<1>2. \A r \in DOMAIN d.runs : d.runs[r] \in ChannelRuns
  BY StoreFields
<1>3. \A a \in d.attentions : a \in ChannelAttentions
  BY StoreFields
<1>4. \A row \in ChannelMessages :
         /\ row.author \in Principals /\ row.thread \in Nat /\ row.run \in Nat
         /\ row.revisions \in Seq(SUBSET Agents) /\ row.silent \subseteq Principals
  BY DEF ChannelMessages
<1>5. \A row \in ChannelRuns :
         /\ row.owner \in Agents /\ row.thread \in Nat /\ row.root \in Nat
         /\ row.parent \in Nat /\ row.depth \in Nat
         /\ row.revision \in Nat /\ row.inputs \in Nat
  BY DEF ChannelRuns
<1>6. \A a \in ChannelAttentions :
         /\ a.message \in Nat /\ a.revision \in Nat /\ a.target \in Agents /\ a.run \in Nat
  BY DEF ChannelAttentions
<1> QED BY <1>1, <1>2, <1>3, <1>4, <1>5, <1>6

\* One field of a store is replaced.
LEMMA WithMessages ==
    ASSUME NEW d \in StoreRows, NEW x \in Seq(ChannelMessages), NEW e,
           e = [d EXCEPT !.messages = x]
    PROVE  /\ e \in StoreRows /\ e.messages = x /\ e.cursors = d.cursors
           /\ e.attentions = d.attentions /\ e.runs = d.runs
BY DEF StoreRows

LEMMA WithCursors ==
    ASSUME NEW d \in StoreRows, NEW x \in Seq(Nat), NEW e, e = [d EXCEPT !.cursors = x]
    PROVE  /\ e \in StoreRows /\ e.cursors = x /\ e.messages = d.messages
           /\ e.attentions = d.attentions /\ e.runs = d.runs
BY DEF StoreRows

LEMMA WithAttentions ==
    ASSUME NEW d \in StoreRows, NEW x, x \subseteq ChannelAttentions, NEW e,
           e = [d EXCEPT !.attentions = x]
    PROVE  /\ e \in StoreRows /\ e.attentions = x /\ e.messages = d.messages
           /\ e.cursors = d.cursors /\ e.runs = d.runs
BY DEF StoreRows

LEMMA WithRuns ==
    ASSUME NEW d \in StoreRows, NEW x \in Seq(ChannelRuns), NEW e, e = [d EXCEPT !.runs = x]
    PROVE  /\ e \in StoreRows /\ e.runs = x /\ e.messages = d.messages
           /\ e.cursors = d.cursors /\ e.attentions = d.attentions
BY DEF StoreRows

-----------------------------------------------------------------------------
(* Cursors *)

\* The invariant does not depend on where the cursors are.
LEMMA CursorsApart ==
    ASSUME NEW d, NEW e \in StoreRows, StoreOk(d),
           e.messages = d.messages, e.attentions = d.attentions, e.runs = d.runs,
           Len(e.cursors) = Len(d.cursors)
    PROVE  StoreOk(e)
<1>1. StoreTyped(e)
  BY DEF StoreOk, StoreTyped
<1>2. MessagesOk(e) /\ AttentionsOk(e) /\ AskedOk(e)
  BY DEF StoreOk, MessagesOk, AttentionsOk, AskedOk, Addressed
<1>3. RunsOk(e)
  BY DEF StoreOk, RunsOk, Caused
<1>4. \A m : NonTerminal(e, m) = NonTerminal(d, m)
  BY DEF NonTerminal
<1>5. BoundOk(e)
  BY <1>4 DEF StoreOk, BoundOk
<1> QED BY <1>1, <1>2, <1>3, <1>5 DEF StoreOk

LEMMA EmitIs ==
    ASSUME NEW d \in StoreRows, NEW t \in DOMAIN d.cursors, NEW n \in Nat
    PROVE  /\ Emit(d, t, n) \in StoreRows
           /\ Emit(d, t, n).messages = d.messages
           /\ Emit(d, t, n).attentions = d.attentions
           /\ Emit(d, t, n).runs = d.runs
           /\ Emit(d, t, n).cursors = [d.cursors EXCEPT ![t] = d.cursors[t] + n]
           /\ Len(Emit(d, t, n).cursors) = Len(d.cursors)
<1>1. PICK cursors : cursors = [d.cursors EXCEPT ![t] = d.cursors[t] + n]
  OBVIOUS
<1>2. d.cursors[t] + n \in Nat
  BY StoreFields
<1>3. cursors \in Seq(Nat) /\ Len(cursors) = Len(d.cursors)
  BY <1>1, <1>2, Updated, StoreFields
<1>4. PICK e : e = Emit(d, t, n)
  OBVIOUS
<1>5. e = [d EXCEPT !.cursors = cursors]
  BY <1>1, <1>4 DEF Emit
<1>6. /\ e \in StoreRows /\ e.cursors = cursors /\ e.messages = d.messages
      /\ e.attentions = d.attentions /\ e.runs = d.runs
  BY <1>3, <1>5, WithCursors
<1> QED BY <1>1, <1>3, <1>4, <1>6

LEMMA EmitKeeps ==
    ASSUME NEW d, StoreOk(d), NEW t \in DOMAIN d.messages, NEW n \in Nat
    PROVE  StoreOk(Emit(d, t, n)) /\ Moves(d, Emit(d, t, n), t, n)
<1>1. d \in StoreRows /\ t \in DOMAIN d.cursors
  BY StoreFields DEF StoreOk, StoreTyped
<1>2. PICK e : e = Emit(d, t, n)
  OBVIOUS
<1>3. /\ e \in StoreRows /\ e.messages = d.messages /\ e.attentions = d.attentions
      /\ e.runs = d.runs /\ e.cursors = [d.cursors EXCEPT ![t] = d.cursors[t] + n]
      /\ Len(e.cursors) = Len(d.cursors)
  BY <1>1, <1>2, EmitIs
<1>4. StoreOk(e)
  BY <1>3, CursorsApart
<1>5. Moves(d, e, t, n)
  <2>1. DOMAIN e.cursors = DOMAIN d.cursors /\ e.cursors[t] = d.cursors[t] + n
    BY <1>1, <1>3
  <2>2. e.cursors[t] \in Nat /\ d.cursors[t] \in Nat
    BY <1>1, <1>3, <2>1, StoreFields
  <2> QED BY <1>3, <2>1, <2>2 DEF Moves
<1> QED BY <1>2, <1>4, <1>5

\* Moves add up.
LEMMA MovesAddUp ==
    ASSUME NEW d \in StoreRows, NEW e \in StoreRows, NEW f \in StoreRows, NEW t,
           NEW n \in Nat, NEW k \in Nat, Moves(d, e, t, n), Moves(e, f, t, k)
    PROVE  Moves(d, f, t, n + k)
<1>1. t \in DOMAIN d.cursors => f.cursors[t] >= d.cursors[t] + (n + k)
  <2> SUFFICES ASSUME t \in DOMAIN d.cursors
               PROVE  f.cursors[t] >= d.cursors[t] + (n + k)
    OBVIOUS
  <2>1. t \in DOMAIN e.cursors /\ t \in DOMAIN f.cursors
    BY DEF Moves
  <2>2. d.cursors[t] \in Nat /\ e.cursors[t] \in Nat /\ f.cursors[t] \in Nat
    BY <2>1, CursorsAreNat
  <2>3. e.cursors[t] >= d.cursors[t] + n /\ f.cursors[t] >= e.cursors[t] + k
    BY <2>1 DEF Moves
  <2> QED BY <2>2, <2>3
<1>2. \A m \in DOMAIN f.messages : f.messages[m].thread # t =>
         m \in DOMAIN d.messages /\ f.messages[m] = d.messages[m]
  BY DEF Moves
<1>3. \A r \in DOMAIN f.runs : f.runs[r].thread # t =>
         /\ r \in DOMAIN d.runs /\ f.runs[r].state = d.runs[r].state
         /\ f.runs[r].revision = d.runs[r].revision /\ f.runs[r].inputs = d.runs[r].inputs
  BY DEF Moves
<1> QED BY <1>1, <1>2, <1>3 DEF Moves

\* A Thread in which nothing changes looks as before.
LEMMA ViewsApart ==
    ASSUME NEW d \in StoreRows, NEW e \in StoreRows, NEW t, NEW n, Moves(d, e, t, n),
           NEW s, s # t
    PROVE  View(e, s) = View(d, s)
<1>1. {m \in DOMAIN e.messages : e.messages[m].thread = s}
         = {m \in DOMAIN d.messages : d.messages[m].thread = s}
  BY DEF Moves
<1>2. {r \in DOMAIN e.runs : e.runs[r].thread = s}
         = {r \in DOMAIN d.runs : d.runs[r].thread = s}
  BY DEF Moves
<1>3. \A m \in {x \in DOMAIN e.messages : e.messages[x].thread = s} :
         e.messages[m] = d.messages[m]
  BY DEF Moves
<1>4. \A r \in {x \in DOMAIN e.runs : e.runs[x].thread = s} :
         <<e.runs[r].state, e.runs[r].revision, e.runs[r].inputs>>
            = <<d.runs[r].state, d.runs[r].revision, d.runs[r].inputs>>
  BY DEF Moves
<1>5. [m \in {x \in DOMAIN e.messages : e.messages[x].thread = s} |-> e.messages[m]]
         = [m \in {x \in DOMAIN d.messages : d.messages[x].thread = s} |-> d.messages[m]]
  BY <1>1, <1>3
<1>6. [r \in {x \in DOMAIN e.runs : e.runs[x].thread = s} |->
          <<e.runs[r].state, e.runs[r].revision, e.runs[r].inputs>>]
         = [r \in {x \in DOMAIN d.runs : d.runs[x].thread = s} |->
               <<d.runs[r].state, d.runs[r].revision, d.runs[r].inputs>>]
  BY <1>2, <1>4
<1> QED BY <1>5, <1>6 DEF View

-----------------------------------------------------------------------------
(* Attentions *)

\* The Attentions of Message m and its revision, one for each Agent.
Questions(m, revision, agents) ==
    {[message |-> m, revision |-> revision, target |-> a, status |-> "Open", run |-> None]
     : a \in agents}

LEMMA QuestionsAre ==
    ASSUME NEW m \in Nat, NEW n \in Nat, NEW agents \in SUBSET Agents
    PROVE  /\ Questions(m, n, agents) \subseteq ChannelAttentions
           /\ IsFiniteSet(Questions(m, n, agents))
           /\ \A a \in Questions(m, n, agents) :
                 /\ a.message = m /\ a.revision = n /\ a.target \in agents
                 /\ a.status = "Open" /\ a.run = None
           /\ \A x \in agents : \E a \in Questions(m, n, agents) : a.target = x
           /\ \A a, b \in Questions(m, n, agents) : a.target = b.target => a = b
<1>1. Questions(m, n, agents) \subseteq ChannelAttentions
  BY DEF Questions, ChannelAttentions, None
<1>2. IsFiniteSet(Questions(m, n, agents))
  <2>1. IsFiniteSet(agents)
    BY FS_Subset, CollaborationAssumption DEF CollaborationAssumption
  <2> DEFINE F(x) == [message |-> m, revision |-> n, target |-> x, status |-> "Open",
                      run |-> None]
             f == [x \in agents |-> F(x)]
  <2>2. f \in Surjection(agents, Questions(m, n, agents))
    BY DEF Questions, Surjection
  <2> QED BY <2>1, <2>2, FS_Surjection
<1>3. \A a \in Questions(m, n, agents) :
         /\ a.message = m /\ a.revision = n /\ a.target \in agents
         /\ a.status = "Open" /\ a.run = None
  BY DEF Questions
<1>4. \A x \in agents : \E a \in Questions(m, n, agents) : a.target = x
  <2> TAKE x \in agents
  <2>1. [message |-> m, revision |-> n, target |-> x, status |-> "Open", run |-> None]
           \in Questions(m, n, agents)
    BY DEF Questions
  <2> QED BY <2>1
<1>5. \A a, b \in Questions(m, n, agents) : a.target = b.target => a = b
  BY DEF Questions
<1> QED BY <1>1, <1>2, <1>3, <1>4, <1>5

LEMMA AskIs ==
    ASSUME NEW d \in StoreRows, NEW m \in Nat, NEW n \in Nat, NEW agents \in SUBSET Agents,
           IsFiniteSet(d.attentions)
    PROVE  LET e == Ask(d, m, n, agents)
           IN  /\ e \in StoreRows /\ e.messages = d.messages /\ e.cursors = d.cursors
               /\ e.attentions = d.attentions \cup Questions(m, n, agents)
               /\ e.runs = d.runs
               /\ IsFiniteSet(e.attentions)
<1>1. PICK e : e = Ask(d, m, n, agents)
  OBVIOUS
<1>2. e = [d EXCEPT !.attentions = d.attentions \cup Questions(m, n, agents)]
  BY <1>1 DEF Ask, Questions
<1>3. d.attentions \cup Questions(m, n, agents) \subseteq ChannelAttentions
  BY QuestionsAre, StoreFields
<1>4. IsFiniteSet(d.attentions \cup Questions(m, n, agents))
  BY QuestionsAre, FS_Union
<1>5. /\ e \in StoreRows /\ e.messages = d.messages /\ e.cursors = d.cursors
      /\ e.attentions = d.attentions \cup Questions(m, n, agents) /\ e.runs = d.runs
  BY <1>2, <1>3, WithAttentions
<1> QED BY <1>1, <1>4, <1>5

-----------------------------------------------------------------------------
(* Messages *)

NewMessage(author, t, work, targets, suppressed) ==
    [author |-> author, thread |-> t, run |-> work, tombstone |-> FALSE,
     revisions |-> << targets >>, silent |-> {author} \cup suppressed]

\* What CreateMessage makes of d.
Created(d, e, m, t, message) ==
    /\ StoreTyped(e)
    /\ e.messages = Append(d.messages, message)
    /\ e.attentions = d.attentions \cup Questions(m, 1, message.revisions[1] \ message.silent)
    /\ e.runs = d.runs
    /\ t \in DOMAIN e.cursors
    /\ DOMAIN d.cursors \subseteq DOMAIN e.cursors
    /\ t \in DOMAIN d.cursors => e.cursors[t] = d.cursors[t] + 1

LEMMA CreateIs ==
    ASSUME NEW d, StoreTyped(d), NEW author \in Principals, NEW thread \in 0..Len(d.messages),
           NEW work \in Nat, NEW targets \in SUBSET Agents, NEW suppressed \in SUBSET Agents,
           NEW m \in Nat, m = Len(d.messages) + 1,
           NEW t \in 1..m, t = IF thread = None THEN m ELSE thread,
           NEW message, message = NewMessage(author, t, work, targets, suppressed),
           NEW e, e = CreateMessage(d, author, thread, work, targets, suppressed)
    PROVE  Created(d, e, m, t, message)
<1>1. d \in StoreRows /\ Len(d.cursors) = Len(d.messages) /\ IsFiniteSet(d.attentions)
  BY DEF StoreTyped
<1>5. message \in ChannelMessages /\ message.silent = {author} \cup suppressed
  <2>1. << targets >> \in Seq(SUBSET Agents)
    OBVIOUS
  <2>2. {author} \cup suppressed \in SUBSET Principals
    BY DEF Principals
  <2>3. t \in Nat
    OBVIOUS
  <2> QED BY <2>1, <2>2, <2>3 DEF NewMessage, ChannelMessages
<1>6. PICK messages : messages = Append(d.messages, message)
  OBVIOUS
<1>7. messages \in Seq(ChannelMessages) /\ Len(messages) = m
  BY <1>1, <1>5, <1>6, StoreFields, AppendProperties
<1>8. PICK cursors : cursors = Append(d.cursors, 0)
  OBVIOUS
<1>9. /\ cursors \in Seq(Nat) /\ Len(cursors) = m /\ DOMAIN cursors = 1..m
      /\ DOMAIN d.cursors \subseteq DOMAIN cursors
      /\ \A s \in DOMAIN d.cursors : cursors[s] = d.cursors[s]
  BY <1>1, <1>8, StoreFields, AppendProperties
<1>10. PICK f1 : f1 = [d EXCEPT !.messages = messages]
  OBVIOUS
<1>11. PICK f2 : f2 = [f1 EXCEPT !.cursors = cursors]
  OBVIOUS
<1>12. /\ f2 \in StoreRows /\ f2.messages = messages /\ f2.cursors = cursors
       /\ f2.attentions = d.attentions /\ f2.runs = d.runs
  <2>1. /\ f1 \in StoreRows /\ f1.messages = messages /\ f1.attentions = d.attentions
        /\ f1.runs = d.runs
    BY <1>1, <1>7, <1>10, WithMessages
  <2>2. /\ f2 \in StoreRows /\ f2.messages = f1.messages /\ f2.cursors = cursors
        /\ f2.attentions = f1.attentions /\ f2.runs = f1.runs
    BY <2>1, <1>9, <1>11, WithCursors
  <2> QED BY <2>1, <2>2
<1>13. PICK f3 : f3 = Emit(f2, t, 1)
  OBVIOUS
<1>14. t \in DOMAIN f2.cursors
  BY <1>9, <1>12
<1>15. /\ f3 \in StoreRows /\ f3.messages = messages /\ f3.attentions = d.attentions
       /\ f3.runs = d.runs /\ f3.cursors = [cursors EXCEPT ![t] = cursors[t] + 1]
       /\ Len(f3.cursors) = m
  <2>1. /\ f3 \in StoreRows /\ f3.messages = f2.messages /\ f3.attentions = f2.attentions
        /\ f3.runs = f2.runs /\ f3.cursors = [f2.cursors EXCEPT ![t] = f2.cursors[t] + 1]
        /\ Len(f3.cursors) = Len(f2.cursors)
    BY ONLY <1>12, <1>13, <1>14, EmitIs
  <2> QED BY <2>1, <1>9, <1>12
<1>16. PICK f : f = Ask(f3, m, 1, targets \ message.silent)
  OBVIOUS
<1>17. /\ f \in StoreRows /\ f.messages = messages /\ f.cursors = f3.cursors
       /\ f.attentions = d.attentions \cup Questions(m, 1, targets \ message.silent)
       /\ f.runs = d.runs /\ IsFiniteSet(f.attentions)
  BY <1>1, <1>15, <1>16, AskIs
<1>18. f = e
  <2>1. f2 = [d EXCEPT !.messages = Append(@, message), !.cursors = Append(@, 0)]
    BY <1>1, <1>6, <1>8, <1>10, <1>11 DEF StoreRows
  <2> QED BY <1>13, <1>16, <2>1 DEF CreateMessage, NewMessage
<1>19. StoreTyped(e)
  BY <1>7, <1>15, <1>17, <1>18 DEF StoreTyped
<1>20. /\ t \in DOMAIN e.cursors /\ DOMAIN d.cursors \subseteq DOMAIN e.cursors
       /\ t \in DOMAIN d.cursors => e.cursors[t] = d.cursors[t] + 1
  BY <1>9, <1>14, <1>12, <1>15, <1>17, <1>18
<1>21. message.revisions[1] = targets
  BY DEF NewMessage
<1> QED BY <1>6, <1>17, <1>18, <1>19, <1>20, <1>21 DEF Created

\* Runs stay below their causes when Messages and Attentions are added.
LEMMA RunsKept ==
    ASSUME NEW d \in StoreRows, NEW e, RunsOk(d), AttentionsOk(d), e.runs = d.runs,
           DOMAIN d.messages \subseteq DOMAIN e.messages,
           \A m \in DOMAIN d.messages : /\ e.messages[m].author = d.messages[m].author
                                        /\ e.messages[m].thread = d.messages[m].thread
                                        /\ e.messages[m].run = d.messages[m].run,
           d.attentions \subseteq e.attentions
    PROVE  RunsOk(e) /\ (BoundOk(d) => BoundOk(e))
<1>1. \A a \in d.attentions, r \in DOMAIN d.runs : Caused(d, a, r) => Caused(e, a, r)
  BY DEF AttentionsOk, Caused
<1>2. RunsOk(e)
  BY <1>1 DEF RunsOk
<1>3. \A m : NonTerminal(e, m) = NonTerminal(d, m)
  BY DEF NonTerminal
<1> QED BY <1>2, <1>3 DEF BoundOk

\* A Run is in a Thread that there is.
LEMMA RunThread ==
    ASSUME NEW d, StoreOk(d), NEW r \in DOMAIN d.runs
    PROVE  /\ d.runs[r].thread \in DOMAIN d.messages /\ d.runs[r].thread # None
           /\ d.runs[r].thread \in 0..Len(d.messages)
           /\ d.runs[r].owner \in Agents /\ r # None /\ r \in 0..Len(d.runs)
<1>1. d \in StoreRows /\ MessagesOk(d) /\ RunsOk(d)
  BY DEF StoreOk, StoreTyped
<1>2. PICK m \in DOMAIN d.messages : d.messages[m].thread = d.runs[r].thread
  BY <1>1 DEF RunsOk
<1>3. d.messages[m].thread \in 1..m /\ m \in 1..Len(d.messages) /\ Len(d.messages) \in Nat
  BY <1>1, StoreFields DEF MessagesOk
<1>4. DOMAIN d.messages = 1..Len(d.messages)
  BY <1>1, StoreFields
<1>5. d.runs[r].owner \in Agents /\ r # None /\ r \in 0..Len(d.runs)
  BY <1>1, RowFields, StoreFields DEF None
<1> QED BY <1>2, <1>3, <1>4, <1>5 DEF None

LEMMA CreateKeeps ==
    ASSUME NEW d, StoreOk(d), NEW author \in Principals, NEW thread \in 0..Len(d.messages),
           NEW work \in 0..Len(d.runs),
           author \in Agents <=> work # None,
           work # None => author = d.runs[work].owner /\ thread = d.runs[work].thread,
           NEW targets \in SUBSET Agents, NEW suppressed \in SUBSET Agents,
           NEW e, e = CreateMessage(d, author, thread, work, targets, suppressed),
           NEW t, t = IF thread = None THEN Len(d.messages) + 1 ELSE thread
    PROVE  StoreOk(e) /\ Moves(d, e, t, 1) /\ t \in DOMAIN e.messages /\ e.runs = d.runs
<1>1. /\ d \in StoreRows /\ Len(d.cursors) = Len(d.messages) /\ MessagesOk(d)
      /\ AttentionsOk(d) /\ RunsOk(d) /\ AskedOk(d) /\ BoundOk(d) /\ StoreTyped(d)
  BY DEF StoreOk, StoreTyped
<1>2. PICK m \in Nat : m = Len(d.messages) + 1
  BY <1>1, StoreFields
<1>3. t \in 1..m /\ t = IF thread = None THEN m ELSE thread
  BY <1>1, <1>2, StoreFields DEF None
<1>4. PICK message : message = NewMessage(author, t, work, targets, suppressed)
  OBVIOUS
<1>5. e = CreateMessage(d, author, thread, work, targets, suppressed)
  OBVIOUS
<1>6. /\ StoreTyped(e) /\ e.messages = Append(d.messages, message)
      /\ e.attentions = d.attentions \cup Questions(m, 1, targets \ ({author} \cup suppressed))
      /\ e.runs = d.runs
      /\ t \in DOMAIN e.cursors /\ DOMAIN d.cursors \subseteq DOMAIN e.cursors
      /\ t \in DOMAIN d.cursors => e.cursors[t] = d.cursors[t] + 1
  <2>1. work \in Nat
    BY <1>1, StoreFields
  <2>2. Created(d, e, m, t, message)
    BY <2>1, <1>1, <1>2, <1>3, <1>4, <1>5, CreateIs
  <2>3. message.revisions[1] = targets /\ message.silent = {author} \cup suppressed
    BY <1>4 DEF NewMessage
  <2> QED BY <2>2, <2>3 DEF Created
<1>7. /\ message.author = author /\ message.thread = t /\ message.run = work
      /\ message.revisions = << targets >> /\ message.silent = {author} \cup suppressed
  BY <1>4 DEF NewMessage
<1>8. e \in StoreRows
  BY <1>6 DEF StoreTyped
<1>9. /\ DOMAIN e.messages = 1..m /\ e.messages[m] = message
      /\ DOMAIN d.messages = 1..(m - 1)
      /\ \A x \in DOMAIN d.messages : x \in DOMAIN e.messages /\ e.messages[x] = d.messages[x]
      /\ m \notin DOMAIN d.messages
      /\ \A x \in DOMAIN e.messages : x = m \/ x \in DOMAIN d.messages
  <2>1. message \in ChannelMessages
    <3>1. m \in DOMAIN e.messages /\ e.messages[m] = message
      BY <1>1, <1>2, <1>6, StoreFields, AppendProperties
    <3> QED BY <3>1, <1>8, StoreFields
  <2> QED BY <2>1, <1>1, <1>2, <1>6, StoreFields, AppendProperties
<1>10. DOMAIN << targets >> = {1} /\ << targets >>[1] = targets /\ Len(<< targets >>) = 1
  OBVIOUS
<1>11. MessagesOk(e)
  <2> SUFFICES ASSUME NEW x \in DOMAIN e.messages
               PROVE  LET row == e.messages[x]
                      IN  /\ row.thread \in 1..x
                          /\ row.run \in 0..Len(e.runs)
                          /\ row.author \in Agents <=> row.run # None
                          /\ row.run # None => /\ row.author = e.runs[row.run].owner
                                               /\ row.thread = e.runs[row.run].thread
                          /\ Len(row.revisions) >= 1
    BY DEF MessagesOk
  <2>1. CASE x \in DOMAIN d.messages
    BY <2>1, <1>1, <1>6, <1>9 DEF MessagesOk
  <2>2. CASE x = m
    <3>1. work # None => t = thread
      <4> SUFFICES ASSUME work # None
                   PROVE  t = thread
        OBVIOUS
      <4>1. work \in DOMAIN d.runs
        BY <1>1, StoreFields DEF None
      <4>3. thread # None
        BY <4>1, RunThread
      <4> QED BY <1>3, <4>3 DEF None
    <3>2. e.messages[x] = message /\ t \in 1..x
      BY <2>2, <1>3, <1>9
    <3>3. Len(message.revisions) >= 1
      BY <1>7, <1>10
    <3>4. work # None => author = d.runs[work].owner /\ t = d.runs[work].thread
      BY <3>1
    <3> QED BY <3>2, <3>3, <3>4, <1>6, <1>7
  <2> QED BY <1>9, <2>1, <2>2
<1> DEFINE agents == targets \ ({author} \cup suppressed)
           Q == Questions(m, 1, agents)
<1>12. /\ \A a \in Q : /\ a.message = m /\ a.revision = 1 /\ a.target \in agents
                       /\ a.status = "Open" /\ a.run = None
       /\ \A x \in agents : \E a \in Q : a.target = x
       /\ \A a, b \in Q : a.target = b.target => a = b
  <2>1. agents \in SUBSET Agents /\ 1 \in Nat
    OBVIOUS
  <2> HIDE DEF agents
  <2> QED BY ONLY <2>1, QuestionsAre, m \in Nat
<1>13. /\ e.attentions = d.attentions \cup Q
       /\ \A a \in d.attentions : a.message \in DOMAIN d.messages /\ a.message # m
  BY <1>1, <1>6, <1>9 DEF AttentionsOk
<1> HIDE DEF Q
<1>14. AttentionsOk(e)
  <2>1. ASSUME NEW a \in e.attentions
        PROVE  /\ a.message \in DOMAIN e.messages
               /\ a.revision \in DOMAIN e.messages[a.message].revisions
               /\ IF a.status = "Resolved" THEN a.run \in DOMAIN e.runs ELSE a.run = None
    <3>1. CASE a \in d.attentions
      BY <3>1, <1>1, <1>6, <1>9 DEF AttentionsOk
    <3>2. CASE a \in Q
      BY <3>2, <1>6, <1>7, <1>9, <1>10, <1>12
    <3> QED BY <3>1, <3>2, <1>13
  <2>2. ASSUME NEW a \in e.attentions, NEW b \in e.attentions,
               a.message = b.message, a.revision = b.revision, a.target = b.target
        PROVE  a = b
    <3>1. CASE a \in d.attentions /\ b \in d.attentions
      BY <3>1, <2>2, <1>1 DEF AttentionsOk
    <3>2. CASE a \in Q /\ b \in Q
      BY <3>2, <2>2, <1>12
    <3> QED BY <3>1, <3>2, <2>2, <1>12, <1>13
  <2> QED BY <2>1, <2>2 DEF AttentionsOk
<1>15. RunsOk(e) /\ BoundOk(e)
  <2>1. d.attentions \subseteq e.attentions
    BY <1>13
  <2>2. DOMAIN d.messages \subseteq DOMAIN e.messages
    BY <1>9
  <2>3. \A x \in DOMAIN d.messages : /\ e.messages[x].author = d.messages[x].author
                                     /\ e.messages[x].thread = d.messages[x].thread
                                     /\ e.messages[x].run = d.messages[x].run
    BY <1>9
  <2> QED BY <2>1, <2>2, <2>3, <1>1, <1>6, RunsKept
<1>16. AskedOk(e)
  <2> SUFFICES ASSUME NEW x \in DOMAIN e.messages, NEW n \in DOMAIN e.messages[x].revisions,
                      NEW y \in Agents
               PROVE  y \in Addressed(e, x, n) <=>
                         \E a \in e.attentions : a.message = x /\ a.revision = n /\ a.target = y
    BY DEF AskedOk
  <2>1. CASE x \in DOMAIN d.messages
    <3>1. Addressed(e, x, n) = Addressed(d, x, n) /\ n \in DOMAIN d.messages[x].revisions
      BY <2>1, <1>9 DEF Addressed
    <3>2. \A a \in Q : a.message # x
      BY <2>1, <1>9, <1>12
    <3>3. y \in Addressed(d, x, n) <=>
             \E a \in d.attentions : a.message = x /\ a.revision = n /\ a.target = y
      BY <1>1, <2>1, <3>1 DEF AskedOk
    <3> QED BY <3>1, <3>2, <3>3, <1>13
  <2>2. CASE x = m
    <3>1. n = 1 /\ Addressed(e, x, n) = agents
      BY <2>2, <1>7, <1>9, <1>10 DEF Addressed
    <3>2. \A a \in d.attentions : a.message # x
      BY <2>2, <1>13
    <3> QED BY <2>2, <3>1, <3>2, <1>12, <1>13
  <2> QED BY <1>9, <2>1, <2>2
<1>17. Moves(d, e, t, 1)
  <2>1. t \in DOMAIN d.cursors => e.cursors[t] >= d.cursors[t] + 1
    BY <1>1, <1>6, StoreFields
  <2>2. \A x \in DOMAIN e.messages : e.messages[x].thread # t =>
           x \in DOMAIN d.messages /\ e.messages[x] = d.messages[x]
    BY <1>7, <1>9
  <2> QED BY <2>1, <2>2, <1>6, <1>9 DEF Moves
<1>18. StoreOk(e)
  BY <1>6, <1>11, <1>14, <1>15, <1>16 DEF StoreOk
<1> QED BY <1>2, <1>3, <1>5, <1>6, <1>9, <1>17, <1>18

LEMMA ReviseKeeps ==
    ASSUME NEW d, StoreOk(d), NEW m \in DOMAIN d.messages, NEW targets \in SUBSET Agents,
           NEW tombstone \in BOOLEAN,
           NEW e, e = Revise(d, m, targets, tombstone),
           NEW t, t = d.messages[m].thread
    PROVE  StoreOk(e) /\ Moves(d, e, t, 1)
<1>1. /\ d \in StoreRows /\ Len(d.cursors) = Len(d.messages) /\ MessagesOk(d)
      /\ AttentionsOk(d) /\ RunsOk(d) /\ AskedOk(d) /\ BoundOk(d) /\ IsFiniteSet(d.attentions)
  BY DEF StoreOk, StoreTyped
<1>2. PICK old \in ChannelMessages : old = d.messages[m]
  BY <1>1, RowFields
<1>3. PICK n \in Nat : n = Len(old.revisions)
  BY <1>1, <1>2, RowFields
<1>4. PICK revisions : revisions = Append(old.revisions, targets)
  OBVIOUS
<1>5. PICK row : row = [old EXCEPT !.revisions = revisions, !.tombstone = tombstone]
  OBVIOUS
<1>6. /\ DOMAIN old.revisions = 1..n /\ n >= 1
      /\ revisions \in Seq(SUBSET Agents) /\ DOMAIN revisions = 1..(n + 1)
      /\ Len(revisions) = n + 1 /\ revisions[n + 1] = targets
      /\ \A i \in 1..n : revisions[i] = old.revisions[i]
  <2>1. old.revisions \in Seq(SUBSET Agents) /\ Len(old.revisions) >= 1
    BY <1>1, <1>2, RowFields DEF MessagesOk
  <2> QED BY <2>1, <1>3, <1>4, AppendProperties
<1>7. /\ row \in ChannelMessages /\ row.revisions = revisions
      /\ row.author = old.author /\ row.thread = old.thread /\ row.run = old.run
      /\ row.silent = old.silent
  BY <1>5, <1>6 DEF ChannelMessages
<1>8. PICK messages : messages = [d.messages EXCEPT ![m] = row]
  OBVIOUS
<1>9. /\ messages \in Seq(ChannelMessages) /\ DOMAIN messages = DOMAIN d.messages
      /\ Len(messages) = Len(d.messages) /\ messages[m] = row
      /\ \A x \in DOMAIN d.messages : x # m => messages[x] = d.messages[x]
  BY <1>1, <1>7, <1>8, StoreFields, Updated
<1>10. PICK f1 : f1 = [d EXCEPT !.messages = messages]
  OBVIOUS
<1>11. /\ f1 \in StoreRows /\ f1.messages = messages /\ f1.cursors = d.cursors
       /\ f1.attentions = d.attentions /\ f1.runs = d.runs
  BY <1>1, <1>9, <1>10, WithMessages
<1>12. t \in DOMAIN f1.cursors /\ t \in Nat
  BY <1>1, <1>11, StoreFields DEF MessagesOk
<1>13. PICK f2 : f2 = Emit(f1, t, 1)
  OBVIOUS
<1>14. /\ f2 \in StoreRows /\ f2.messages = f1.messages /\ f2.attentions = f1.attentions
       /\ f2.runs = f1.runs /\ f2.cursors = [f1.cursors EXCEPT ![t] = f1.cursors[t] + 1]
       /\ Len(f2.cursors) = Len(f1.cursors)
  BY ONLY <1>11, <1>12, <1>13, EmitIs
<1>15. m \in Nat /\ n + 1 \in Nat
  BY <1>1, StoreFields
<1>16. PICK f : f = Ask(f2, m, n + 1, targets)
  OBVIOUS
<1>17. /\ f \in StoreRows /\ f.messages = f2.messages /\ f.cursors = f2.cursors
       /\ f.attentions = f2.attentions \cup Questions(m, n + 1, targets)
       /\ f.runs = f2.runs /\ IsFiniteSet(f.attentions)
  BY <1>1, <1>11, <1>14, <1>15, <1>16, AskIs
<1>18. f = e
  <2>1. f1 = [d EXCEPT !.messages[m].revisions = Append(@, targets),
                       !.messages[m].tombstone = tombstone]
    BY <1>1, <1>2, <1>4, <1>5, <1>8, <1>10 DEF StoreRows
  <2> QED BY <1>2, <1>3, <1>13, <1>16, <2>1 DEF Revise
<1> DEFINE Q == Questions(m, n + 1, targets)
<1>19. /\ e \in StoreRows /\ e.messages = messages
       /\ e.cursors = [d.cursors EXCEPT ![t] = d.cursors[t] + 1]
       /\ Len(e.cursors) = Len(e.messages) /\ IsFiniteSet(e.attentions)
       /\ e.attentions = d.attentions \cup Q /\ e.runs = d.runs
  BY <1>1, <1>9, <1>11, <1>14, <1>17, <1>18
<1>20. /\ \A a \in Q : /\ a.message = m /\ a.revision = n + 1 /\ a.target \in targets
                       /\ a.status = "Open" /\ a.run = None
       /\ \A x \in targets : \E a \in Q : a.target = x
       /\ \A a, b \in Q : a.target = b.target => a = b
  <2>1. \A k \in Nat :
           /\ \A a \in Questions(m, k, targets) :
                 /\ a.message = m /\ a.revision = k /\ a.target \in targets
                 /\ a.status = "Open" /\ a.run = None
           /\ \A x \in targets : \E a \in Questions(m, k, targets) : a.target = x
           /\ \A a, b \in Questions(m, k, targets) : a.target = b.target => a = b
    BY ONLY <1>15, targets \in SUBSET Agents, QuestionsAre
  <2> QED BY ONLY <2>1, <1>15 DEF Q
<1> HIDE DEF Q
<1>21. \A a \in d.attentions : a.message = m => a.revision \in 1..n
  BY <1>1, <1>2, <1>6 DEF AttentionsOk
<1>22. \A x \in DOMAIN d.messages : /\ e.messages[x].author = d.messages[x].author
                                    /\ e.messages[x].thread = d.messages[x].thread
                                    /\ e.messages[x].run = d.messages[x].run
                                    /\ e.messages[x].silent = d.messages[x].silent
  BY <1>2, <1>7, <1>9, <1>19
<1>23. MessagesOk(e)
  <2> SUFFICES ASSUME NEW x \in DOMAIN d.messages
               PROVE  LET q == e.messages[x]
                      IN  /\ q.thread \in 1..x
                          /\ q.run \in 0..Len(e.runs)
                          /\ q.author \in Agents <=> q.run # None
                          /\ q.run # None => /\ q.author = e.runs[q.run].owner
                                             /\ q.thread = e.runs[q.run].thread
                          /\ Len(q.revisions) >= 1
    BY <1>9, <1>19 DEF MessagesOk
  <2>1. LET q == d.messages[x]
        IN  /\ q.thread \in 1..x
            /\ q.run \in 0..Len(d.runs)
            /\ q.author \in Agents <=> q.run # None
            /\ q.run # None => /\ q.author = d.runs[q.run].owner
                               /\ q.thread = d.runs[q.run].thread
            /\ Len(q.revisions) >= 1
    BY <1>1 DEF MessagesOk
  <2>2. Len(e.messages[x].revisions) >= 1
    <3>1. CASE x = m
      BY <3>1, <1>6, <1>7, <1>9, <1>19
    <3>2. CASE x # m
      BY <3>2, <2>1, <1>9, <1>19
    <3> QED BY <3>1, <3>2
  <2>3. e.runs = d.runs
    BY <1>19
  <2> QED BY <2>1, <2>2, <2>3, <1>22
<1>24. AttentionsOk(e)
  <2>1. ASSUME NEW a \in e.attentions
        PROVE  /\ a.message \in DOMAIN e.messages
               /\ a.revision \in DOMAIN e.messages[a.message].revisions
               /\ IF a.status = "Resolved" THEN a.run \in DOMAIN e.runs ELSE a.run = None
    <3>1. CASE a \in d.attentions
      <4>1. /\ a.message \in DOMAIN d.messages
            /\ a.revision \in DOMAIN d.messages[a.message].revisions
            /\ IF a.status = "Resolved" THEN a.run \in DOMAIN d.runs ELSE a.run = None
        BY <3>1, <1>1 DEF AttentionsOk
      <4>2. CASE a.message = m
        BY <3>1, <4>1, <4>2, <1>6, <1>7, <1>9, <1>19, <1>21
      <4>3. CASE a.message # m
        BY <4>1, <4>3, <1>9, <1>19
      <4> QED BY <4>2, <4>3
    <3>2. CASE a \in Q
      BY <3>2, <1>6, <1>7, <1>9, <1>19, <1>20
    <3> QED BY <3>1, <3>2, <1>19
  <2>2. ASSUME NEW a \in e.attentions, NEW b \in e.attentions,
               a.message = b.message, a.revision = b.revision, a.target = b.target
        PROVE  a = b
    <3>1. CASE a \in d.attentions /\ b \in d.attentions
      BY <3>1, <2>2, <1>1 DEF AttentionsOk
    <3>2. CASE a \in Q /\ b \in Q
      BY <3>2, <2>2, <1>20
    <3>3. n + 1 \notin 1..n
      OBVIOUS
    <3> QED BY <3>1, <3>2, <3>3, <2>2, <1>19, <1>20, <1>21
  <2> QED BY <2>1, <2>2 DEF AttentionsOk
<1>25. RunsOk(e) /\ BoundOk(e)
  <2>1. DOMAIN d.messages \subseteq DOMAIN e.messages /\ d.attentions \subseteq e.attentions
    BY <1>9, <1>19
  <2> QED BY <2>1, <1>1, <1>19, <1>22, RunsKept
<1>26. AskedOk(e)
  <2> SUFFICES ASSUME NEW x \in DOMAIN e.messages, NEW i \in DOMAIN e.messages[x].revisions,
                      NEW y \in Agents
               PROVE  y \in Addressed(e, x, i) <=>
                         \E a \in e.attentions : a.message = x /\ a.revision = i /\ a.target = y
    BY DEF AskedOk
  <2>1. CASE x # m \/ i # n + 1
    <3>1. i \in DOMAIN d.messages[x].revisions
      BY <2>1, <1>2, <1>6, <1>7, <1>9, <1>19
    <3>2. e.messages[x].revisions[i] = d.messages[x].revisions[i]
      BY <2>1, <3>1, <1>2, <1>6, <1>7, <1>9, <1>19
    <3>3. Addressed(e, x, i) = Addressed(d, x, i) /\ x \in DOMAIN d.messages
      BY <3>2, <1>9, <1>19, <1>22 DEF Addressed
    <3>4. y \in Addressed(d, x, i) <=>
             \E a \in d.attentions : a.message = x /\ a.revision = i /\ a.target = y
      BY <1>1, <3>1, <3>3 DEF AskedOk
    <3> QED BY <2>1, <3>3, <3>4, <1>19, <1>20
  <2>2. CASE x = m /\ i = n + 1
    <3>1. Addressed(e, x, i) = targets
      BY <2>2, <1>6, <1>7, <1>9, <1>19 DEF Addressed
    <3>2. \A a \in d.attentions : ~(a.message = x /\ a.revision = i)
      BY <2>2, <1>21
    <3> QED BY <2>2, <3>1, <3>2, <1>19, <1>20
  <2> QED BY <2>1, <2>2
<1>27. Moves(d, e, t, 1)
  <2>1. DOMAIN e.cursors = DOMAIN d.cursors
    BY <1>19
  <2>2. t \in DOMAIN d.cursors => e.cursors[t] >= d.cursors[t] + 1
    <3>1. t \in DOMAIN d.cursors => e.cursors[t] = d.cursors[t] + 1
      BY <1>19
    <3>2. t \in DOMAIN d.cursors => d.cursors[t] \in Nat
      BY <1>1, StoreFields
    <3> QED BY <3>1, <3>2
  <2>3. \A x \in DOMAIN e.messages : e.messages[x].thread # t =>
           x \in DOMAIN d.messages /\ e.messages[x] = d.messages[x]
    BY <1>2, <1>7, <1>9, <1>19
  <2> QED BY <2>1, <2>2, <2>3, <1>9, <1>19, <1>22 DEF Moves
<1>28. StoreTyped(e)
  BY <1>19 DEF StoreTyped
<1> QED BY <1>23, <1>24, <1>25, <1>26, <1>27, <1>28 DEF StoreOk

-----------------------------------------------------------------------------
(* Runs *)

LEMMA RunsAreFinite ==
    ASSUME NEW d \in StoreRows, NEW m
    PROVE  IsFiniteSet(NonTerminal(d, m))
<1>1. PICK n \in Nat : DOMAIN d.runs = 1..n
  BY StoreFields
<1>2. 1 \in Int /\ n \in Int
  OBVIOUS
<1>3. IsFiniteSet(1..n)
  BY ONLY <1>2, FS_Interval
<1>4. NonTerminal(d, m) \in SUBSET (1..n)
  BY <1>1 DEF NonTerminal
<1> QED BY <1>3, <1>4, FS_Subset

\* A Run moves on, and neither revives nor leaves its place.
LEMMA RunChanged ==
    ASSUME NEW d, StoreOk(d), NEW r \in DOMAIN d.runs, NEW row \in ChannelRuns,
           row.owner = d.runs[r].owner, row.thread = d.runs[r].thread,
           row.root = d.runs[r].root, row.parent = d.runs[r].parent,
           row.depth = d.runs[r].depth, row.revision >= row.inputs,
           d.runs[r].state \in Terminal => row.state \in Terminal,
           NEW e, e = [d EXCEPT !.runs = [d.runs EXCEPT ![r] = row]],
           NEW t, t = d.runs[r].thread
    PROVE  StoreOk(e) /\ Moves(d, e, t, 0)
<1>1. /\ d \in StoreRows /\ Len(d.cursors) = Len(d.messages) /\ MessagesOk(d)
      /\ AttentionsOk(d) /\ RunsOk(d) /\ AskedOk(d) /\ BoundOk(d) /\ IsFiniteSet(d.attentions)
  BY DEF StoreOk, StoreTyped
<1>2. PICK runs : runs = [d.runs EXCEPT ![r] = row]
  OBVIOUS
<1>3. /\ runs \in Seq(ChannelRuns) /\ DOMAIN runs = DOMAIN d.runs /\ Len(runs) = Len(d.runs)
      /\ runs[r] = row /\ \A x \in DOMAIN d.runs : x # r => runs[x] = d.runs[x]
  BY <1>1, <1>2, StoreFields, Updated
<1>4. /\ e \in StoreRows /\ e.messages = d.messages /\ e.cursors = d.cursors
      /\ e.attentions = d.attentions /\ e.runs = runs
  <2>1. e = [d EXCEPT !.runs = runs]
    BY <1>2
  <2> QED BY ONLY <2>1, <1>1, <1>3, WithRuns
<1>5. \A x \in DOMAIN d.runs :
         /\ runs[x].owner = d.runs[x].owner /\ runs[x].thread = d.runs[x].thread
         /\ runs[x].root = d.runs[x].root /\ runs[x].parent = d.runs[x].parent
         /\ runs[x].depth = d.runs[x].depth
         /\ d.runs[x].state \in Terminal => runs[x].state \in Terminal
  BY <1>3
<1>6. MessagesOk(e)
  <2> SUFFICES ASSUME NEW m \in DOMAIN e.messages
               PROVE  LET q == e.messages[m]
                      IN  /\ q.thread \in 1..m
                          /\ q.run \in 0..Len(e.runs)
                          /\ q.author \in Agents <=> q.run # None
                          /\ q.run # None => /\ q.author = e.runs[q.run].owner
                                             /\ q.thread = e.runs[q.run].thread
                          /\ Len(q.revisions) >= 1
    BY DEF MessagesOk
  <2>1. /\ d.messages[m].run \in 0..Len(d.runs)
        /\ d.messages[m].run # None => d.messages[m].run \in DOMAIN d.runs
    BY <1>1, <1>4, StoreFields DEF MessagesOk, None
  <2> QED BY <2>1, <1>1, <1>3, <1>4, <1>5 DEF MessagesOk
<1>7. AttentionsOk(e) /\ AskedOk(e)
  BY <1>1, <1>3, <1>4 DEF AttentionsOk, AskedOk, Addressed
<1>8. RunsOk(e)
  <2> SUFFICES ASSUME NEW x \in DOMAIN e.runs
               PROVE  LET work == e.runs[x]
                      IN  /\ work.root \in DOMAIN e.messages
                          /\ e.messages[work.root].author \in Humans
                          /\ e.messages[work.root].thread = work.thread
                          /\ work.parent \in 0..x - 1
                          /\ IF work.parent = None THEN work.depth = 0
                             ELSE /\ work.root = e.runs[work.parent].root
                                  /\ work.depth = e.runs[work.parent].depth + 1
                          /\ work.depth <= MaxDepth
                          /\ work.revision >= work.inputs
                          /\ \E a \in e.attentions : Caused(e, a, x)
    BY DEF RunsOk
  <2>1. x \in DOMAIN d.runs
    BY <1>3, <1>4
  <2>2. \A a : Caused(d, a, x) => Caused(e, a, x)
    BY <2>1, <1>4, <1>5 DEF Caused
  <2>3. d.runs[x].parent # None => d.runs[x].parent \in DOMAIN d.runs
    <3>1. d.runs[x].parent \in 0..x - 1 /\ x \in 1..Len(d.runs) /\ Len(d.runs) \in Nat
      BY <1>1, <2>1, StoreFields DEF RunsOk
    <3>2. DOMAIN d.runs = 1..Len(d.runs)
      BY <1>1, StoreFields
    <3> QED BY <3>1, <3>2 DEF None
  <2>4. e.runs[x].revision >= e.runs[x].inputs
    BY <1>1, <1>3, <1>4, <2>1 DEF RunsOk
  <2>5. LET work == d.runs[x]
        IN  /\ work.root \in DOMAIN d.messages
            /\ d.messages[work.root].author \in Humans
            /\ d.messages[work.root].thread = work.thread
            /\ work.parent \in 0..x - 1
            /\ IF work.parent = None THEN work.depth = 0
               ELSE /\ work.root = d.runs[work.parent].root
                    /\ work.depth = d.runs[work.parent].depth + 1
            /\ work.depth <= MaxDepth
            /\ \E a \in d.attentions : Caused(d, a, x)
    BY <1>1, <2>1 DEF RunsOk
  <2> QED BY <2>1, <2>2, <2>3, <2>4, <2>5, <1>4, <1>5
<1>9. BoundOk(e)
  <2> SUFFICES ASSUME NEW m \in Nat
               PROVE  Cardinality(NonTerminal(e, m)) <= MaxNonTerminal
    BY DEF BoundOk
  <2>1. NonTerminal(e, m) \subseteq NonTerminal(d, m)
    BY <1>3, <1>4, <1>5 DEF NonTerminal
  <2>2. IsFiniteSet(NonTerminal(d, m))
    BY <1>1, RunsAreFinite
  <2>3. /\ Cardinality(NonTerminal(e, m)) <= Cardinality(NonTerminal(d, m))
        /\ Cardinality(NonTerminal(e, m)) \in Nat /\ Cardinality(NonTerminal(d, m)) \in Nat
    BY <2>1, <2>2, FS_Subset, FS_CardinalityType
  <2>4. Cardinality(NonTerminal(d, m)) <= MaxNonTerminal
    BY <1>1 DEF BoundOk
  <2>5. MaxNonTerminal \in Nat
    BY CollaborationAssumption DEF CollaborationAssumption
  <2> QED BY <2>3, <2>4, <2>5
<1>10. Moves(d, e, t, 0)
  <2>1. t \in DOMAIN d.cursors => d.cursors[t] \in Nat
    BY <1>1, StoreFields
  <2>2. t \in DOMAIN d.cursors => e.cursors[t] >= d.cursors[t] + 0
    BY <2>1, <1>4
  <2>3. \A x \in DOMAIN e.runs : e.runs[x].thread # t => x # r
    BY <1>4, <1>5
  <2> QED BY <2>2, <2>3, <1>3, <1>4, <1>5 DEF Moves
<1>11. StoreTyped(e)
  BY <1>1, <1>4 DEF StoreTyped
<1> QED BY <1>6, <1>7, <1>8, <1>9, <1>10, <1>11 DEF StoreOk

\* An Attention is decided.
LEMMA DecideKeeps ==
    ASSUME NEW d, StoreOk(d), NEW a \in d.attentions, a.status = "Open",
           NEW status \in {"Resolved", "Ignored"}, NEW work \in Nat,
           IF status = "Resolved" THEN work \in DOMAIN d.runs ELSE work = None,
           NEW e, e = Decide(d, a, status, work), NEW t
    PROVE  StoreOk(e) /\ Moves(d, e, t, 0) /\ e.runs = d.runs /\ e.messages = d.messages
<1>1. /\ d \in StoreRows /\ Len(d.cursors) = Len(d.messages) /\ MessagesOk(d)
      /\ AttentionsOk(d) /\ RunsOk(d) /\ AskedOk(d) /\ BoundOk(d) /\ IsFiniteSet(d.attentions)
  BY DEF StoreOk, StoreTyped
<1>2. PICK b : b = [a EXCEPT !.status = status, !.run = work]
  OBVIOUS
<1>3. a \in ChannelAttentions
  BY <1>1, StoreFields
<1>4. /\ b \in ChannelAttentions /\ b.message = a.message /\ b.revision = a.revision
      /\ b.target = a.target /\ b.status = status /\ b.run = work
  BY <1>2, <1>3 DEF ChannelAttentions
<1>5. PICK attentions : attentions = (d.attentions \ {a}) \cup {b}
  OBVIOUS
<1>6. attentions \subseteq ChannelAttentions /\ IsFiniteSet(attentions)
  <2>1. IsFiniteSet(d.attentions \ {a})
    BY <1>1, FS_Subset
  <2>2. IsFiniteSet((d.attentions \ {a}) \cup {b})
    BY <2>1, FS_AddElement
  <2> QED BY <2>2, <1>1, <1>4, <1>5, StoreFields
<1>7. e = [d EXCEPT !.attentions = attentions]
  BY <1>2, <1>5 DEF Decide
<1>8. /\ e \in StoreRows /\ e.messages = d.messages /\ e.cursors = d.cursors
      /\ e.attentions = attentions /\ e.runs = d.runs
  <2>1. d \in StoreRows /\ attentions \subseteq ChannelAttentions
    BY <1>1, <1>6
  <2> QED BY ONLY <2>1, <1>7 DEF StoreRows
<1>9. \A x \in attentions : x = b \/ (x \in d.attentions /\ x # a)
  BY <1>5
<1>10. b \in attentions /\ \A x \in d.attentions : x # a => x \in attentions
  BY <1>5
<1>11. MessagesOk(e)
  BY <1>1, <1>8 DEF MessagesOk
<1>12. AttentionsOk(e)
  <2>1. ASSUME NEW x \in attentions
        PROVE  /\ x.message \in DOMAIN d.messages
               /\ x.revision \in DOMAIN d.messages[x.message].revisions
               /\ IF x.status = "Resolved" THEN x.run \in DOMAIN d.runs ELSE x.run = None
    BY <2>1, <1>1, <1>4, <1>9 DEF AttentionsOk
  <2>2. ASSUME NEW x \in attentions, NEW y \in attentions,
               x.message = y.message, x.revision = y.revision, x.target = y.target
        PROVE  x = y
    BY <2>2, <1>1, <1>4, <1>9 DEF AttentionsOk
  <2> QED BY <2>1, <2>2, <1>8 DEF AttentionsOk
<1>13. RunsOk(e)
  <2>1. a.run = None
    BY <1>1 DEF AttentionsOk
  <2>2. \A r \in DOMAIN d.runs : r # None
    BY <1>1, StoreFields DEF None
  <2>3. \A r \in DOMAIN d.runs : \A x \in d.attentions : Caused(d, x, r) => x # a
    BY <2>1, <2>2 DEF Caused
  <2>4. \A r \in DOMAIN d.runs : \A x : Caused(d, x, r) => Caused(e, x, r)
    BY <1>8 DEF Caused
  <2> QED BY <2>3, <2>4, <1>1, <1>8, <1>10 DEF RunsOk
<1>14. AskedOk(e)
  <2> SUFFICES ASSUME NEW m \in DOMAIN d.messages, NEW n \in DOMAIN d.messages[m].revisions,
                      NEW y \in Agents
               PROVE  y \in Addressed(e, m, n) <=>
                         \E x \in attentions : x.message = m /\ x.revision = n /\ x.target = y
    BY <1>8 DEF AskedOk
  <2>1. Addressed(e, m, n) = Addressed(d, m, n)
    BY <1>8 DEF Addressed
  <2>2. y \in Addressed(d, m, n) <=>
           \E x \in d.attentions : x.message = m /\ x.revision = n /\ x.target = y
    BY <1>1 DEF AskedOk
  <2> QED BY <2>1, <2>2, <1>4, <1>9, <1>10
<1>15. BoundOk(e)
  <2>1. \A m : NonTerminal(e, m) = NonTerminal(d, m)
    BY <1>8 DEF NonTerminal
  <2> QED BY <2>1, <1>1 DEF BoundOk
<1>16. Moves(d, e, t, 0)
  <2>1. t \in DOMAIN d.cursors => d.cursors[t] \in Nat
    BY <1>1, StoreFields
  <2>2. t \in DOMAIN d.cursors => e.cursors[t] >= d.cursors[t] + 0
    BY <2>1, <1>8
  <2> QED BY <2>2, <1>8 DEF Moves
<1>17. StoreTyped(e)
  BY <1>1, <1>6, <1>8 DEF StoreTyped
<1> QED BY <1>8, <1>11, <1>12, <1>13, <1>14, <1>15, <1>16, <1>17 DEF StoreOk

LimitsKept == limits = [depth |-> MaxDepth, nonTerminal |-> MaxNonTerminal]

\* Where an admitted Run for Attention a stands.
Stands(d, from, a) ==
    /\ from.root \in DOMAIN d.messages /\ from.root \in Nat
    /\ d.messages[from.root].author \in Humans
    /\ d.messages[from.root].thread = d.messages[a.message].thread
    /\ from.parent = d.messages[a.message].run
    /\ from.parent \in 0..Len(d.runs)
    /\ IF from.parent = None THEN from.depth = 0 /\ from.root = a.message
       ELSE /\ from.parent \in DOMAIN d.runs
            /\ from.root = d.runs[from.parent].root
            /\ from.depth = d.runs[from.parent].depth + 1
    /\ from.depth \in Nat /\ from.depth <= MaxDepth
    /\ Cardinality(NonTerminal(d, from.root)) < MaxNonTerminal

LEMMA ProvenanceIs ==
    ASSUME NEW d, StoreOk(d), NEW a \in d.attentions, LimitsKept, Admitted(d, a),
           NEW from, from = Provenance(d, a)
    PROVE  Stands(d, from, a)
<1>1. d \in StoreRows /\ MessagesOk(d) /\ AttentionsOk(d) /\ RunsOk(d)
  BY DEF StoreOk, StoreTyped
<1>2. PICK m \in DOMAIN d.messages : m = a.message
  BY <1>1 DEF AttentionsOk
<1>3. from.depth <= MaxDepth /\ Cardinality(NonTerminal(d, from.root)) < MaxNonTerminal
  BY DEF Admitted, LimitsKept
<1>4. CASE d.messages[m].run = None
  <2>1. from = [root |-> m, parent |-> None, depth |-> 0]
    BY <1>2, <1>4 DEF Provenance
  <2>2. from.root = m /\ from.parent = None /\ from.depth = 0
    BY <2>1
  <2>3. d.messages[m].author \in Humans
    BY <1>1, <1>4, RowFields DEF MessagesOk, Principals
  <2>4. None \in 0..Len(d.runs) /\ m \in Nat
    BY <1>1, StoreFields DEF None
  <2> QED BY <2>2, <2>3, <2>4, <1>2, <1>3, <1>4 DEF Stands
<1>5. CASE d.messages[m].run # None
  <2>1. PICK r : r = d.messages[m].run
    OBVIOUS
  <2>2. from = [root |-> d.runs[r].root, parent |-> r, depth |-> d.runs[r].depth + 1]
    BY <1>2, <1>5, <2>1 DEF Provenance
  <2>3. /\ r \in 0..Len(d.runs) /\ r # None /\ r \in DOMAIN d.runs
        /\ d.messages[m].thread = d.runs[r].thread
    BY <1>1, <1>5, <2>1, StoreFields DEF MessagesOk, None
  <2>4. from.root = d.runs[r].root /\ from.parent = r /\ from.depth = d.runs[r].depth + 1
    BY <2>2
  <2>5. /\ d.runs[r].root \in DOMAIN d.messages /\ d.runs[r].root \in Nat
        /\ d.messages[d.runs[r].root].author \in Humans
        /\ d.messages[d.runs[r].root].thread = d.runs[r].thread
        /\ d.runs[r].depth \in Nat
    BY <1>1, <2>3, RowFields DEF RunsOk
  <2>6. from.depth \in Nat
    BY <2>4, <2>5
  <2> QED BY <2>1, <2>3, <2>4, <2>5, <2>6, <1>2, <1>3 DEF Stands
<1> QED BY <1>4, <1>5

\* A Run is created and Attention a decided by it.
Opens(d, e, a, b, from, row) ==
    /\ e \in StoreRows /\ e.messages = d.messages /\ e.cursors = d.cursors
    /\ e.attentions = (d.attentions \ {a}) \cup {b}
    /\ e.runs = Append(d.runs, row)
    /\ b \in ChannelAttentions /\ b.message = a.message /\ b.revision = a.revision
    /\ b.target = a.target /\ b.status = "Resolved" /\ b.run = Len(d.runs) + 1
    /\ row \in ChannelRuns
    /\ row.owner = a.target /\ row.thread = d.messages[a.message].thread
    /\ row.state = "Active" /\ row.revision = 1 /\ row.inputs = 1
    /\ row.root = from.root /\ row.parent = from.parent /\ row.depth = from.depth

NewRun(d, a, from) ==
    [owner |-> a.target, thread |-> d.messages[a.message].thread, state |-> "Active",
     revision |-> 1, inputs |-> 1, writer |-> "None",
     root |-> from.root, parent |-> from.parent, depth |-> from.depth]

Resolved(a, r) == [a EXCEPT !.status = "Resolved", !.run = r]

LEMMA OpensIs ==
    ASSUME NEW d, StoreOk(d), NEW a \in d.attentions, NEW from, Stands(d, from, a),
           NEW row, row = NewRun(d, a, from),
           NEW f1, f1 = [d EXCEPT !.runs = Append(d.runs, row)],
           NEW b, b = Resolved(a, Len(d.runs) + 1),
           NEW e, e = Decide(f1, a, "Resolved", Len(f1.runs))
    PROVE  Opens(d, e, a, b, from, row)
<1>1. d \in StoreRows /\ MessagesOk(d) /\ AttentionsOk(d)
  BY DEF StoreOk, StoreTyped
<1>2. /\ a \in ChannelAttentions /\ a.message \in DOMAIN d.messages
      /\ a.target \in Agents /\ Len(d.runs) \in Nat
  BY <1>1, RowFields, StoreFields DEF AttentionsOk
<1>3. PICK t \in Nat : t = d.messages[a.message].thread
  BY <1>1, <1>2, StoreFields DEF MessagesOk
<1>4. /\ row.owner = a.target /\ row.thread = t /\ row.state = "Active"
      /\ row.revision = 1 /\ row.inputs = 1 /\ row.root = from.root
      /\ row.parent = from.parent /\ row.depth = from.depth
  BY <1>3 DEF NewRun
<1>5. row \in ChannelRuns
  <2>1. from.parent \in Nat /\ from.root \in Nat /\ from.depth \in Nat
    BY <1>1, StoreFields DEF Stands
  <2> QED BY <2>1, <1>2, <1>3 DEF ChannelRuns, NewRun
<1>6. PICK runs : runs = Append(d.runs, row)
  OBVIOUS
<1>7. runs \in Seq(ChannelRuns) /\ Len(runs) = Len(d.runs) + 1
  BY <1>1, <1>5, <1>6, StoreFields, AppendProperties
<1>8. /\ f1 \in StoreRows /\ f1.messages = d.messages /\ f1.cursors = d.cursors
      /\ f1.attentions = d.attentions /\ f1.runs = runs
  <2>1. f1 = [d EXCEPT !.runs = runs]
    BY <1>6
  <2> QED BY ONLY <2>1, <1>1, <1>7, WithRuns
<1>9. /\ b \in ChannelAttentions /\ b.message = a.message /\ b.revision = a.revision
      /\ b.target = a.target /\ b.status = "Resolved" /\ b.run = Len(d.runs) + 1
  <2>1. PICK n \in Nat : n = Len(d.runs) + 1
    BY <1>2
  <2>2. b = [a EXCEPT !.status = "Resolved", !.run = n]
    BY <2>1 DEF Resolved
  <2> QED BY ONLY <2>1, <2>2, <1>2 DEF ChannelAttentions
<1>10. PICK attentions : attentions = (d.attentions \ {a}) \cup {b}
  OBVIOUS
<1>11. attentions \subseteq ChannelAttentions
  BY ONLY <1>1, <1>9, <1>10, StoreFields
<1>12. e = [f1 EXCEPT !.attentions = attentions]
  BY <1>7, <1>8, <1>10 DEF Decide, Resolved
<1>13. /\ e \in StoreRows /\ e.messages = f1.messages /\ e.cursors = f1.cursors
       /\ e.attentions = attentions /\ e.runs = f1.runs
  <2>1. f1 \in StoreRows
    BY <1>8
  <2> QED BY ONLY <2>1, <1>11, <1>12 DEF StoreRows
<1> QED BY ONLY <1>3, <1>4, <1>5, <1>6, <1>8, <1>9, <1>10, <1>13 DEF Opens

LEMMA NewRunKeeps ==
    ASSUME NEW d, StoreOk(d), NEW a \in d.attentions, NEW from, Stands(d, from, a),
           a.status = "Open", NEW t, t = d.messages[a.message].thread,
           NEW b, NEW row, NEW e, Opens(d, e, a, b, from, row)
    PROVE  StoreOk(e) /\ Moves(d, e, t, 0) /\ t \in DOMAIN e.messages
<1>1. /\ d \in StoreRows /\ Len(d.cursors) = Len(d.messages) /\ MessagesOk(d)
      /\ AttentionsOk(d) /\ RunsOk(d) /\ AskedOk(d) /\ BoundOk(d) /\ IsFiniteSet(d.attentions)
  BY DEF StoreOk, StoreTyped
<1>2. /\ from.root \in DOMAIN d.messages /\ from.root \in Nat
      /\ d.messages[from.root].author \in Humans
      /\ d.messages[from.root].thread = t
      /\ from.parent = d.messages[a.message].run
      /\ from.parent \in 0..Len(d.runs)
      /\ IF from.parent = None THEN from.depth = 0 /\ from.root = a.message
         ELSE /\ from.parent \in DOMAIN d.runs
              /\ from.root = d.runs[from.parent].root
              /\ from.depth = d.runs[from.parent].depth + 1
      /\ from.depth \in Nat /\ from.depth <= MaxDepth
      /\ Cardinality(NonTerminal(d, from.root)) < MaxNonTerminal
  BY DEF Stands
<1>3. a.message \in DOMAIN d.messages /\ (a.status = "Open" => a.run = None)
  BY <1>1, RowFields DEF AttentionsOk
<1>4. t \in Nat /\ t \in DOMAIN d.messages
  BY <1>1, <1>3, StoreFields DEF MessagesOk
<1>5. /\ row \in ChannelRuns /\ row.owner = a.target /\ row.thread = t /\ row.state = "Active"
      /\ row.revision = 1 /\ row.inputs = 1 /\ row.root = from.root
      /\ row.parent = from.parent /\ row.depth = from.depth
  BY DEF Opens
<1>7. PICK n \in Nat : n = Len(d.runs)
  BY <1>1, StoreFields
<1>8. PICK runs : runs = Append(d.runs, row)
  OBVIOUS
<1>9. /\ runs \in Seq(ChannelRuns) /\ Len(runs) = n + 1 /\ runs[n + 1] = row
      /\ DOMAIN runs = 1..(n + 1) /\ DOMAIN d.runs = 1..n
      /\ \A x \in DOMAIN d.runs : x \in DOMAIN runs /\ runs[x] = d.runs[x]
      /\ \A x \in DOMAIN runs : x = n + 1 \/ x \in DOMAIN d.runs
  BY <1>1, <1>5, <1>7, <1>8, StoreFields, AppendProperties
<1>10. PICK attentions : attentions = (d.attentions \ {a}) \cup {b}
  OBVIOUS
<1>12. /\ b.message = a.message /\ b.revision = a.revision
       /\ b.target = a.target /\ b.status = "Resolved" /\ b.run = n + 1
  BY <1>7 DEF Opens
<1>14. IsFiniteSet(attentions)
  <2>1. IsFiniteSet(d.attentions \ {a})
    BY <1>1, FS_Subset
  <2> QED BY <2>1, <1>10, FS_AddElement
<1>16. /\ e \in StoreRows /\ e.messages = d.messages /\ e.cursors = d.cursors
       /\ e.attentions = attentions /\ e.runs = runs
  BY <1>8, <1>10 DEF Opens
<1>17. /\ \A x \in attentions : x = b \/ (x \in d.attentions /\ x # a)
       /\ b \in attentions /\ \A x \in d.attentions : x # a => x \in attentions
  BY <1>10
<1>18. MessagesOk(e)
  <2> SUFFICES ASSUME NEW m \in DOMAIN d.messages
               PROVE  LET q == d.messages[m]
                      IN  /\ q.thread \in 1..m
                          /\ q.run \in 0..Len(runs)
                          /\ q.author \in Agents <=> q.run # None
                          /\ q.run # None => /\ q.author = runs[q.run].owner
                                             /\ q.thread = runs[q.run].thread
                          /\ Len(q.revisions) >= 1
    BY <1>16 DEF MessagesOk
  <2>1. LET q == d.messages[m]
        IN  /\ q.thread \in 1..m
            /\ q.run \in 0..Len(d.runs)
            /\ q.author \in Agents <=> q.run # None
            /\ q.run # None => /\ q.author = d.runs[q.run].owner
                               /\ q.thread = d.runs[q.run].thread
            /\ Len(q.revisions) >= 1
    BY <1>1 DEF MessagesOk
  <2>2. d.messages[m].run \in 0..Len(runs)
        /\ (d.messages[m].run # None => d.messages[m].run \in DOMAIN d.runs)
    BY <2>1, <1>7, <1>9 DEF None
  <2>3. d.messages[m].run # None => runs[d.messages[m].run] = d.runs[d.messages[m].run]
    BY <2>2, <1>9
  <2> QED BY <2>1, <2>2, <2>3
<1>19. AttentionsOk(e)
  <2>1. ASSUME NEW x \in attentions
        PROVE  /\ x.message \in DOMAIN d.messages
               /\ x.revision \in DOMAIN d.messages[x.message].revisions
               /\ IF x.status = "Resolved" THEN x.run \in DOMAIN runs ELSE x.run = None
    BY <2>1, <1>1, <1>9, <1>12, <1>17 DEF AttentionsOk
  <2>2. ASSUME NEW x \in attentions, NEW y \in attentions,
               x.message = y.message, x.revision = y.revision, x.target = y.target
        PROVE  x = y
    BY <2>2, <1>1, <1>12, <1>17 DEF AttentionsOk
  <2> QED BY <2>1, <2>2, <1>16 DEF AttentionsOk
<1>20. RunsOk(e)
  <2> SUFFICES ASSUME NEW x \in DOMAIN runs
               PROVE  LET work == runs[x]
                      IN  /\ work.root \in DOMAIN d.messages
                          /\ d.messages[work.root].author \in Humans
                          /\ d.messages[work.root].thread = work.thread
                          /\ work.parent \in 0..x - 1
                          /\ IF work.parent = None THEN work.depth = 0
                             ELSE /\ work.root = runs[work.parent].root
                                  /\ work.depth = runs[work.parent].depth + 1
                          /\ work.depth <= MaxDepth
                          /\ work.revision >= work.inputs
                          /\ \E y \in attentions : Caused(e, y, x)
    BY <1>16 DEF RunsOk
  <2>1. CASE x \in DOMAIN d.runs
    <3>1. LET work == d.runs[x]
          IN  /\ work.root \in DOMAIN d.messages
              /\ d.messages[work.root].author \in Humans
              /\ d.messages[work.root].thread = work.thread
              /\ work.parent \in 0..x - 1
              /\ IF work.parent = None THEN work.depth = 0
                 ELSE /\ work.root = d.runs[work.parent].root
                      /\ work.depth = d.runs[work.parent].depth + 1
              /\ work.depth <= MaxDepth
              /\ work.revision >= work.inputs
              /\ \E y \in d.attentions : Caused(d, y, x)
      BY <2>1, <1>1 DEF RunsOk
    <3>2. d.runs[x].parent # None => d.runs[x].parent \in DOMAIN d.runs
      BY <2>1, <3>1, <1>9 DEF None
    <3>3. PICK y \in d.attentions : Caused(d, y, x)
      BY <3>1
    <3>4. y # a
      BY <2>1, <3>3, <1>3, <1>9 DEF Caused, None
    <3>5. Caused(e, y, x)
      BY <2>1, <3>3, <1>9, <1>16 DEF Caused
    <3> QED BY <2>1, <3>1, <3>2, <3>4, <3>5, <1>9, <1>17
  <2>2. CASE x = n + 1
    <3>1. Caused(e, b, x)
      BY <2>2, <1>2, <1>5, <1>9, <1>12, <1>16 DEF Caused
    <3>2. from.parent \in 0..x - 1
      BY <2>2, <1>2, <1>7
    <3>3. from.parent # None => runs[from.parent] = d.runs[from.parent]
      BY <1>2, <1>9
    <3>4. runs[x] = row
      BY <2>2, <1>9
    <3> QED BY <3>1, <3>2, <3>3, <3>4, <1>2, <1>5, <1>17
  <2> QED BY <2>1, <2>2, <1>9
<1>21. AskedOk(e)
  <2> SUFFICES ASSUME NEW m \in DOMAIN d.messages, NEW i \in DOMAIN d.messages[m].revisions,
                      NEW y \in Agents
               PROVE  y \in Addressed(e, m, i) <=>
                         \E x \in attentions : x.message = m /\ x.revision = i /\ x.target = y
    BY <1>16 DEF AskedOk
  <2>1. Addressed(e, m, i) = Addressed(d, m, i)
    BY <1>16 DEF Addressed
  <2>2. y \in Addressed(d, m, i) <=>
           \E x \in d.attentions : x.message = m /\ x.revision = i /\ x.target = y
    BY <1>1 DEF AskedOk
  <2> QED BY <2>1, <2>2, <1>12, <1>17
<1>22. BoundOk(e)
  <2> SUFFICES ASSUME NEW m \in Nat
               PROVE  Cardinality(NonTerminal(e, m)) <= MaxNonTerminal
    BY DEF BoundOk
  <2>1. CASE m # from.root
    <3>1. NonTerminal(e, m) = NonTerminal(d, m)
      BY <2>1, <1>5, <1>9, <1>16 DEF NonTerminal
    <3> QED BY <3>1, <1>1 DEF BoundOk
  <2>2. CASE m = from.root
    <3>1. NonTerminal(e, m) = NonTerminal(d, m) \cup {n + 1}
      BY <2>2, <1>5, <1>9, <1>16 DEF NonTerminal, Terminal
    <3>2. n + 1 \notin NonTerminal(d, m)
      BY <1>9 DEF NonTerminal
    <3>3. IsFiniteSet(NonTerminal(d, m))
      BY <1>1, RunsAreFinite
    <3>4. Cardinality(NonTerminal(e, m)) = Cardinality(NonTerminal(d, m)) + 1
      BY <3>1, <3>2, <3>3, FS_AddElement
    <3>5. Cardinality(NonTerminal(d, m)) \in Nat
      BY <3>3, FS_CardinalityType
    <3>6. MaxNonTerminal \in Nat
      BY CollaborationAssumption DEF CollaborationAssumption
    <3> QED BY <2>2, <3>4, <3>5, <3>6, <1>2
  <2> QED BY <2>1, <2>2
<1>23. Moves(d, e, t, 0)
  <2>1. t \in DOMAIN d.cursors => d.cursors[t] \in Nat
    BY <1>1, StoreFields
  <2>2. t \in DOMAIN d.cursors => e.cursors[t] >= d.cursors[t] + 0
    BY <2>1, <1>16
  <2>3. \A x \in DOMAIN e.runs : e.runs[x].thread # t => x \in DOMAIN d.runs
    BY <1>5, <1>9, <1>16
  <2> QED BY <2>2, <2>3, <1>9, <1>16 DEF Moves
<1>24. StoreTyped(e)
  BY <1>1, <1>14, <1>16 DEF StoreTyped
<1> QED BY <1>4, <1>16, <1>18, <1>19, <1>20, <1>21, <1>22, <1>23, <1>24 DEF StoreOk

LEMMA EndingKeeps ==
    ASSUME NEW d, StoreOk(d), NEW r \in DOMAIN d.runs, NEW state \in Terminal,
           NEW e, e = Ending(d, r, state), NEW t, t = d.runs[r].thread
    PROVE  StoreOk(e) /\ Moves(d, e, t, 1)
<1>1. d \in StoreRows /\ RunsOk(d)
  BY DEF StoreOk, StoreTyped
<1>2. PICK old \in ChannelRuns : old = d.runs[r]
  BY <1>1, RowFields
<1>4. old.revision \in Nat /\ old.inputs \in Nat /\ old.revision >= old.inputs
  BY <1>1, <1>2, RowFields DEF RunsOk
<1> PICK v \in Nat : v = old.revision + 1
  BY <1>4
<1>3. PICK row : row = [old EXCEPT !.state = state, !.revision = v]
  OBVIOUS
<1>5. /\ row \in ChannelRuns /\ row.owner = old.owner /\ row.thread = old.thread
      /\ row.root = old.root /\ row.parent = old.parent /\ row.depth = old.depth
      /\ row.state = state /\ row.revision = v /\ row.inputs = old.inputs
  <2>1. old \in ChannelRuns /\ v \in Nat /\ state \in {"Completed", "Cancelled"}
    BY DEF Terminal
  <2> QED BY ONLY <1>3, <2>1 DEF ChannelRuns
<1>6. PICK f1 : f1 = [d EXCEPT !.runs = [d.runs EXCEPT ![r] = row]]
  OBVIOUS
<1>7. StoreOk(f1) /\ Moves(d, f1, t, 0)
  <2>1. row.revision >= row.inputs
    BY <1>4, <1>5
  <2> QED BY <2>1, <1>2, <1>5, <1>6, RunChanged
<1>8. t \in DOMAIN f1.messages
  BY <1>1, <1>7, RunThread DEF Moves
<1>9. StoreOk(Emit(f1, t, 1)) /\ Moves(f1, Emit(f1, t, 1), t, 1)
  BY <1>7, <1>8, EmitKeeps
<1>10. e = Emit(f1, t, 1)
  BY <1>1, <1>2, <1>3, <1>6 DEF Ending, StoreRows
<1>11. Moves(d, e, t, 0 + 1)
  BY <1>1, <1>7, <1>9, <1>10, MovesAddUp DEF StoreOk, StoreTyped
<1> QED BY <1>9, <1>10, <1>11

LEMMA InputKeeps ==
    ASSUME NEW d, StoreOk(d), NEW r \in DOMAIN d.runs,
           NEW e, e = [d EXCEPT !.runs[r].inputs = @ + 1, !.runs[r].revision = @ + 1],
           NEW t, t = d.runs[r].thread
    PROVE  StoreOk(e) /\ Moves(d, e, t, 0)
<1>1. d \in StoreRows /\ RunsOk(d)
  BY DEF StoreOk, StoreTyped
<1>2. PICK old \in ChannelRuns : old = d.runs[r]
  BY <1>1, RowFields
<1>4. old.revision \in Nat /\ old.inputs \in Nat /\ old.revision >= old.inputs
  BY <1>1, <1>2, RowFields DEF RunsOk
<1> PICK v \in Nat : v = old.revision + 1
  BY <1>4
<1> PICK w \in Nat : w = old.inputs + 1
  BY <1>4
<1>3. PICK row : row = [old EXCEPT !.inputs = w, !.revision = v]
  OBVIOUS
<1>5. /\ row \in ChannelRuns /\ row.owner = old.owner /\ row.thread = old.thread
      /\ row.root = old.root /\ row.parent = old.parent /\ row.depth = old.depth
      /\ row.state = old.state /\ row.revision = v /\ row.inputs = w
  <2>1. old \in ChannelRuns /\ v \in Nat /\ w \in Nat
    OBVIOUS
  <2> QED BY ONLY <1>3, <2>1 DEF ChannelRuns
<1>6. e = [d EXCEPT !.runs = [d.runs EXCEPT ![r] = row]]
  BY <1>1, <1>2, <1>3 DEF StoreRows
<1>7. /\ row.owner = d.runs[r].owner /\ row.thread = d.runs[r].thread
      /\ row.root = d.runs[r].root /\ row.parent = d.runs[r].parent
      /\ row.depth = d.runs[r].depth /\ row.revision >= row.inputs
      /\ d.runs[r].state \in Terminal => row.state \in Terminal
  BY <1>2, <1>4, <1>5
<1>8. StoreOk(d) /\ r \in DOMAIN d.runs /\ t = d.runs[r].thread /\ row \in ChannelRuns
  BY <1>5
<1> QED BY ONLY <1>6, <1>7, <1>8, RunChanged

-----------------------------------------------------------------------------
(* Commands *)

\* What there is stays.
Grows(d, e) ==
    /\ DOMAIN d.messages \subseteq DOMAIN e.messages
    /\ DOMAIN d.runs \subseteq DOMAIN e.runs
    /\ \A r \in DOMAIN d.runs : e.runs[r].owner = d.runs[r].owner

\* A Thread that looks different has a later cursor.
Tells(d, e) ==
    \A s \in DOMAIN d.cursors : View(e, s) # View(d, s) => e.cursors[s] > d.cursors[s]

Sound(d, e) == StoreOk(e) /\ Grows(d, e) /\ Tells(d, e)

\* One Thread changes, and its cursor tells.
LEMMA OneThread ==
    ASSUME NEW d, StoreOk(d), NEW e, StoreOk(e), NEW t, NEW n \in Nat \ {0},
           Moves(d, e, t, n)
    PROVE  Sound(d, e)
<1>1. d \in StoreRows /\ e \in StoreRows
  BY DEF StoreOk, StoreTyped
<1>2. Grows(d, e)
  BY DEF Grows, Moves
<1>3. Tells(d, e)
  <2> SUFFICES ASSUME NEW s \in DOMAIN d.cursors, View(e, s) # View(d, s)
               PROVE  e.cursors[s] > d.cursors[s]
    BY DEF Tells
  <2>1. s = t
    BY <1>1, ViewsApart
  <2>2. s \in DOMAIN e.cursors /\ e.cursors[s] >= d.cursors[s] + n
    BY <2>1 DEF Moves
  <2>3. d.cursors[s] \in Nat /\ e.cursors[s] \in Nat
    BY <1>1, <2>2, StoreFields
  <2> QED BY <2>2, <2>3
<1> QED BY <1>2, <1>3 DEF Sound

\* Nothing that a reader sees changes.
LEMMA NoThread ==
    ASSUME NEW d, StoreOk(d), NEW e, StoreOk(e), \A t : Moves(d, e, t, 0)
    PROVE  Sound(d, e)
<1>1. d \in StoreRows /\ e \in StoreRows
  BY DEF StoreOk, StoreTyped
<1>2. Grows(d, e)
  <2>1. Moves(d, e, 0, 0)
    OBVIOUS
  <2> QED BY <2>1 DEF Grows, Moves
<1>3. Tells(d, e)
  <2> SUFFICES ASSUME NEW s \in DOMAIN d.cursors
               PROVE  View(e, s) = View(d, s)
    BY DEF Tells
  <2>1. s \in Nat
    BY <1>1, StoreFields
  <2>2. s # s + 1 /\ Moves(d, e, s + 1, 0)
    BY <2>1
  <2> QED BY <1>1, <2>2, ViewsApart
<1> QED BY <1>2, <1>3 DEF Sound

LEMMA HumansApart == \A p \in Humans : p \in Principals /\ p \notin Agents
BY CollaborationAssumption DEF CollaborationAssumption, Principals

LEMMA StartThreadSound ==
    ASSUME NEW d, StoreOk(d), NEW p \in Humans, NEW c, c.targets \subseteq Agents,
           NEW e, e = StartThread(d, p, c)
    PROVE  Sound(d, e)
<1>1. d \in StoreRows /\ Len(d.messages) \in Nat /\ Len(d.runs) \in Nat
  BY StoreFields DEF StoreOk, StoreTyped
<1>2. e = CreateMessage(d, p, None, None, c.targets, {})
  BY DEF StartThread
<1>3. None \in 0..Len(d.messages) /\ None \in 0..Len(d.runs)
  BY <1>1 DEF None
<1>4. p \in Principals /\ (p \in Agents <=> None # None)
  BY HumansApart
<1>5. StoreOk(e) /\ Moves(d, e, Len(d.messages) + 1, 1)
  BY <1>2, <1>3, <1>4, CreateKeeps
<1> QED BY <1>5, OneThread

LEMMA ReplyToThreadSound ==
    ASSUME NEW d, StoreOk(d), NEW p \in Humans, NEW c, c.targets \subseteq Agents,
           c.thread \in DOMAIN d.messages, NEW e, e = ReplyToThread(d, p, c)
    PROVE  Sound(d, e)
<1>1. d \in StoreRows /\ Len(d.messages) \in Nat /\ Len(d.runs) \in Nat
      /\ DOMAIN d.messages = 1..Len(d.messages)
  BY StoreFields DEF StoreOk, StoreTyped
<1>2. e = CreateMessage(d, p, c.thread, None, c.targets, {})
  BY DEF ReplyToThread
<1>3. c.thread \in 0..Len(d.messages) /\ c.thread # None /\ None \in 0..Len(d.runs)
  BY <1>1 DEF None
<1>4. p \in Principals /\ (p \in Agents <=> None # None)
  BY HumansApart
<1>5. StoreOk(e) /\ Moves(d, e, c.thread, 1)
  BY <1>2, <1>3, <1>4, CreateKeeps
<1> QED BY <1>5, OneThread

LEMMA PublishKeeps ==
    ASSUME NEW d, StoreOk(d), NEW p \in Agents, NEW c, c.targets \subseteq Agents,
           c.run \in DOMAIN d.runs, d.runs[c.run].owner = p,
           NEW e, e = PublishRunReply(d, p, c)
    PROVE  StoreOk(e) /\ Moves(d, e, d.runs[c.run].thread, 1) /\ e.runs = d.runs
<1>1. e = CreateMessage(d, p, d.runs[c.run].thread, c.run, c.targets, {})
  BY DEF PublishRunReply
<1>2. /\ d.runs[c.run].thread # None /\ d.runs[c.run].thread \in 0..Len(d.messages)
      /\ c.run # None /\ c.run \in 0..Len(d.runs)
  BY RunThread
<1>3. p \in Principals /\ (p \in Agents <=> c.run # None)
  BY <1>2 DEF Principals
<1>4. /\ StoreOk(e) /\ e.runs = d.runs
      /\ Moves(d, e, IF d.runs[c.run].thread = None THEN Len(d.messages) + 1
                     ELSE d.runs[c.run].thread, 1)
  BY <1>1, <1>2, <1>3, CreateKeeps
<1> QED BY <1>2, <1>4

LEMMA CompleteSound ==
    ASSUME NEW d, StoreOk(d), NEW p \in Agents, NEW c, c.targets \subseteq Agents,
           c.run \in DOMAIN d.runs, d.runs[c.run].owner = p,
           NEW e, e = CompleteRun(d, p, c)
    PROVE  Sound(d, e)
<1>1. PICK f : f = IF c.reply THEN PublishRunReply(d, p, c) ELSE d
  OBVIOUS
<1>2. e = Ending(f, c.run, "Completed")
  BY <1>1 DEF CompleteRun
<1>3. PICK t : t = d.runs[c.run].thread
  OBVIOUS
<1>4. CASE c.reply
  <2>1. f = PublishRunReply(d, p, c)
    BY <1>1, <1>4
  <2>2. StoreOk(f) /\ Moves(d, f, t, 1) /\ f.runs = d.runs
    BY <1>3, <2>1, PublishKeeps
  <2>3. "Completed" \in Terminal
    BY DEF Terminal
  <2>4. StoreOk(e) /\ Moves(f, e, t, 1)
    BY <1>2, <1>3, <2>2, <2>3, EndingKeeps
  <2>5. Moves(d, e, t, 1 + 1)
    BY <2>2, <2>4, MovesAddUp DEF StoreOk, StoreTyped
  <2> QED BY <2>4, <2>5, OneThread
<1>5. CASE ~c.reply
  <2>1. f = d
    BY <1>1, <1>5
  <2>2. "Completed" \in Terminal
    BY DEF Terminal
  <2>3. StoreOk(e) /\ Moves(d, e, t, 1)
    BY <1>2, <1>3, <2>1, <2>2, EndingKeeps
  <2> QED BY <2>3, OneThread
<1> QED BY <1>4, <1>5

LEMMA SendToRunSound ==
    ASSUME NEW d, StoreOk(d), NEW p \in Humans, NEW c, c.targets \subseteq Agents,
           c.run \in DOMAIN d.runs, NEW e, e = SendToRun(d, p, c)
    PROVE  Sound(d, e)
<1>1. /\ d.runs[c.run].thread # None /\ d.runs[c.run].thread \in 0..Len(d.messages)
      /\ d.runs[c.run].owner \in Agents
  BY RunThread
<1>2. PICK t : t = d.runs[c.run].thread
  OBVIOUS
<1>3. PICK m : m = CreateMessage(d, p, t, None, c.targets, {d.runs[c.run].owner})
  OBVIOUS
<1>4. /\ None \in 0..Len(d.runs) /\ p \in Principals /\ (p \in Agents <=> None # None)
      /\ {d.runs[c.run].owner} \in SUBSET Agents
  <2>1. d \in StoreRows
    BY DEF StoreOk, StoreTyped
  <2> QED BY <1>1, <2>1, StoreFields, HumansApart DEF None
<1>5. StoreOk(m) /\ Moves(d, m, t, 1) /\ t \in DOMAIN m.messages /\ m.runs = d.runs
  BY <1>1, <1>2, <1>3, <1>4, CreateKeeps
<1>6. PICK f : f = [m EXCEPT !.runs[c.run].inputs = @ + 1, !.runs[c.run].revision = @ + 1]
  OBVIOUS
<1>7. StoreOk(f) /\ Moves(m, f, t, 0)
  BY <1>2, <1>5, <1>6, InputKeeps
<1>8. t \in DOMAIN f.messages
  BY <1>5, <1>7 DEF Moves
<1>9. e = Emit(f, t, 1)
  BY <1>2, <1>3, <1>6 DEF SendToRun
<1>10. StoreOk(e) /\ Moves(f, e, t, 1)
  BY <1>7, <1>8, <1>9, EmitKeeps
<1>11. d \in StoreRows /\ m \in StoreRows /\ f \in StoreRows /\ e \in StoreRows
  BY <1>5, <1>7, <1>10 DEF StoreOk, StoreTyped
<1>12. Moves(d, f, t, 1 + 0)
  BY <1>5, <1>7, <1>11, MovesAddUp
<1>13. Moves(d, e, t, (1 + 0) + 1)
  BY <1>10, <1>11, <1>12, MovesAddUp
<1> QED BY <1>10, <1>13, OneThread

LEMMA ResolveWithRunSound ==
    ASSUME NEW d, StoreOk(d), LimitsKept, NEW p, NEW c, c.attention \in d.attentions,
           c.attention.target = p, c.attention.status = "Open", Admitted(d, c.attention),
           NEW e, e = ResolveAttentionWithRun(d, p, c)
    PROVE  Sound(d, e)
<1>1. PICK a \in d.attentions : a = c.attention
  OBVIOUS
<1>2. PICK from : from = Provenance(d, a)
  OBVIOUS
<1>3. Stands(d, from, a)
  BY <1>1, <1>2, ProvenanceIs
<1>4. PICK t : t = d.messages[a.message].thread
  OBVIOUS
<1>5. PICK row : row = NewRun(d, a, from)
  OBVIOUS
<1>6. PICK f1 : f1 = [d EXCEPT !.runs = Append(d.runs, row)]
  OBVIOUS
<1>7. PICK b : b = Resolved(a, Len(d.runs) + 1)
  OBVIOUS
<1>8. PICK f : f = Decide(f1, a, "Resolved", Len(f1.runs))
  OBVIOUS
<1>9. Opens(d, f, a, b, from, row)
  <2>1. StoreOk(d) /\ a \in d.attentions
    OBVIOUS
  <2> QED BY ONLY <2>1, <1>3, <1>5, <1>6, <1>7, <1>8, OpensIs
<1>10. StoreOk(f) /\ Moves(d, f, t, 0) /\ t \in DOMAIN f.messages
  BY <1>1, <1>3, <1>4, <1>9, NewRunKeeps
<1>11. StoreOk(Emit(f, t, 1)) /\ Moves(f, Emit(f, t, 1), t, 1)
  BY <1>10, EmitKeeps
<1>12. e = Emit(f, t, 1)
  <2>1. row.thread = t
    BY <1>4, <1>5 DEF NewRun
  <2> QED BY <2>1, <1>1, <1>2, <1>5, <1>6, <1>8 DEF ResolveAttentionWithRun, NewRun
<1>13. Moves(d, e, t, 0 + 1)
  BY <1>10, <1>11, <1>12, MovesAddUp DEF StoreOk, StoreTyped
<1> QED BY <1>11, <1>12, <1>13, OneThread

LEMMA ResolveWithExistingSound ==
    ASSUME NEW d, StoreOk(d), NEW p, NEW c, c.attention \in d.attentions,
           c.attention.status = "Open", c.run \in DOMAIN d.runs,
           NEW e, e = ResolveAttentionWithExistingRun(d, p, c)
    PROVE  Sound(d, e)
<1>1. PICK t : t = d.runs[c.run].thread
  OBVIOUS
<1>2. PICK f : f = [d EXCEPT !.runs[c.run].inputs = @ + 1, !.runs[c.run].revision = @ + 1]
  OBVIOUS
<1>3. StoreOk(f) /\ Moves(d, f, t, 0)
  BY <1>1, <1>2, InputKeeps
<1>4. f.attentions = d.attentions
  BY <1>2 DEF StoreOk, StoreTyped, StoreRows
<1>5. PICK g : g = Decide(f, c.attention, "Resolved", c.run)
  OBVIOUS
<1>6. c.run \in DOMAIN f.runs /\ c.run \in Nat
  BY <1>3, StoreFields DEF Moves, StoreOk, StoreTyped
<1>7. StoreOk(g) /\ Moves(f, g, t, 0)
  BY <1>3, <1>4, <1>5, <1>6, DecideKeeps
<1>8. t \in DOMAIN g.messages
  BY <1>1, <1>3, <1>7, RunThread DEF Moves
<1>9. e = Emit(g, t, 1)
  BY <1>1, <1>2, <1>5 DEF ResolveAttentionWithExistingRun
<1>10. StoreOk(e) /\ Moves(g, e, t, 1)
  BY <1>7, <1>8, <1>9, EmitKeeps
<1>11. d \in StoreRows /\ f \in StoreRows /\ g \in StoreRows /\ e \in StoreRows
  BY <1>3, <1>7, <1>10 DEF StoreOk, StoreTyped
<1>12. Moves(d, g, t, 0 + 0)
  BY <1>3, <1>7, <1>11, MovesAddUp
<1>13. Moves(d, e, t, (0 + 0) + 1)
  BY <1>10, <1>11, <1>12, MovesAddUp
<1> QED BY <1>10, <1>13, OneThread

LEMMA IgnoreSound ==
    ASSUME NEW d, StoreOk(d), NEW a \in d.attentions, a.status = "Open",
           NEW e, e = Decide(d, a, "Ignored", None)
    PROVE  Sound(d, e)
<1>1. None \in Nat
  BY DEF None
<1>2. \A t : StoreOk(e) /\ Moves(d, e, t, 0)
  <2> TAKE t
  <2> QED BY <1>1, DecideKeeps
<1> QED BY <1>2, NoThread

\* Whatever is allowed keeps the store in order.
LEMMA DispatchSound ==
    ASSUME NEW d, StoreOk(d), LimitsKept, NEW p \in Principals, NEW c, CommandOk(d, c),
           Allowed(d, p, c), NEW e, e = Dispatch(d, p, c)
    PROVE  /\ Sound(d, e)
           /\ c.type \in {"PublishRunReply", "CompleteRun"} => d.runs[c.run].owner = p
<1>1. c.type \in Types
  BY DEF CommandOk
<1>2. CASE c.type = "StartThread"
  <2>1. e = StartThread(d, p, c)
    BY <1>2 DEF Dispatch
  <2>2. p \in Humans /\ c.targets \subseteq Agents
    BY <1>2 DEF Allowed, CommandOk
  <2> QED BY <1>2, <2>1, <2>2, StartThreadSound
<1>3. CASE c.type = "ReplyToThread"
  <2>1. e = ReplyToThread(d, p, c)
    BY <1>3 DEF Dispatch
  <2>2. p \in Humans /\ c.targets \subseteq Agents /\ c.thread \in DOMAIN d.messages
    BY <1>3 DEF Allowed, CommandOk
  <2> QED BY <1>3, <2>1, <2>2, ReplyToThreadSound
<1>4. CASE c.type = "EditMessage"
  <2>1. e = Revise(d, c.message, c.targets, FALSE)
    BY <1>4 DEF Dispatch, EditMessage
  <2>2. c.targets \subseteq Agents /\ c.message \in DOMAIN d.messages
    BY <1>4 DEF CommandOk
  <2>3. StoreOk(e) /\ Moves(d, e, d.messages[c.message].thread, 1)
    BY <2>1, <2>2, ReviseKeeps
  <2> QED BY <1>4, <2>3, OneThread
<1>5. CASE c.type = "DeleteMessage"
  <2>1. e = Revise(d, c.message, {}, TRUE)
    BY <1>5 DEF Dispatch, DeleteMessage
  <2>2. c.message \in DOMAIN d.messages
    BY <1>5 DEF CommandOk
  <2>3. StoreOk(e) /\ Moves(d, e, d.messages[c.message].thread, 1)
    BY <2>1, <2>2, ReviseKeeps
  <2> QED BY <1>5, <2>3, OneThread
<1>6. CASE c.type = "SendToRun"
  <2>1. e = SendToRun(d, p, c)
    BY <1>6 DEF Dispatch
  <2>2. p \in Humans /\ c.targets \subseteq Agents /\ c.run \in DOMAIN d.runs
    BY <1>6 DEF Allowed, CommandOk
  <2> QED BY <1>6, <2>1, <2>2, SendToRunSound
<1>7. CASE c.type = "CancelRun"
  <2>1. e = Ending(d, c.run, "Cancelled")
    BY <1>7 DEF Dispatch
  <2>2. c.run \in DOMAIN d.runs /\ "Cancelled" \in Terminal
    BY <1>7 DEF CommandOk, Terminal
  <2>3. StoreOk(e) /\ Moves(d, e, d.runs[c.run].thread, 1)
    BY <2>1, <2>2, EndingKeeps
  <2> QED BY <1>7, <2>3, OneThread
<1>8. CASE c.type \in {"PublishRunReply", "CompleteRun"}
  <2>1. /\ d.runs[c.run].owner = p /\ c.targets \subseteq Agents
        /\ c.run \in DOMAIN d.runs
    BY <1>8 DEF Allowed, CommandOk
  <2>2. p \in Agents
    BY <2>1, RunThread
  <2>3. CASE c.type = "PublishRunReply"
    <3>1. e = PublishRunReply(d, p, c)
      BY <2>3 DEF Dispatch
    <3>2. StoreOk(e) /\ Moves(d, e, d.runs[c.run].thread, 1)
      BY <3>1, <2>1, <2>2, PublishKeeps
    <3> QED BY <2>1, <3>2, OneThread
  <2>4. CASE c.type = "CompleteRun"
    <3>1. e = CompleteRun(d, p, c)
      BY <2>4 DEF Dispatch
    <3> QED BY <2>1, <2>2, <3>1, CompleteSound
  <2> QED BY <1>8, <2>3, <2>4
<1>9. CASE c.type = "ResolveAttentionWithRun"
  <2>1. e = ResolveAttentionWithRun(d, p, c)
    BY <1>9 DEF Dispatch
  <2>2. /\ c.attention \in d.attentions /\ c.attention.target = p
        /\ c.attention.status = "Open" /\ Admitted(d, c.attention)
    BY <1>9 DEF Allowed
  <2> QED BY <1>9, <2>1, <2>2, ResolveWithRunSound
<1>10. CASE c.type = "ResolveAttentionWithExistingRun"
  <2>1. e = ResolveAttentionWithExistingRun(d, p, c)
    BY <1>10 DEF Dispatch
  <2>2. /\ c.attention \in d.attentions /\ c.attention.status = "Open"
        /\ c.run \in DOMAIN d.runs
    BY <1>10 DEF Allowed, CommandOk
  <2> QED BY <1>10, <2>1, <2>2, ResolveWithExistingSound
<1>11. CASE c.type = "IgnoreAttention"
  <2>1. e = Decide(d, c.attention, "Ignored", None)
    BY <1>11 DEF Dispatch
  <2>2. c.attention \in d.attentions /\ c.attention.status = "Open"
    BY <1>11 DEF Allowed
  <2> QED BY <1>11, <2>1, <2>2, IgnoreSound
<1> QED BY <1>1, <1>2, <1>3, <1>4, <1>5, <1>6, <1>7, <1>8, <1>9, <1>10, <1>11 DEF Types

\* A command keeps its referents.
LEMMA CommandStands ==
    ASSUME NEW d, NEW e, Grows(d, e), NEW c, CommandOk(d, c)
    PROVE  CommandOk(e, c)
BY DEF Grows, CommandOk

-----------------------------------------------------------------------------
(* Steps *)

LEMMA CommandsStand ==
    ASSUME CollaborationInv, NEW c \in Commands
    PROVE  CommandOk(store, c)
<1>1. \A x \in scene.targets : x \subseteq Agents
  BY CollaborationAssumption DEF CollaborationAssumption, CollaborationInv
<1>2. CASE \E slot \in DOMAIN records : c = records[slot].cmd
  BY <1>2 DEF CollaborationInv, RecordsOk
<1>3. CASE c \in ThreadCommands(store)
  <2>1. CASE c.type = "StartThread" /\ c.targets \in scene.targets
    BY <2>1, <1>1 DEF CommandOk, Types
  <2>2. CASE /\ c.type = "ReplyToThread" /\ c.targets \in scene.targets
             /\ c.thread \in DOMAIN store.messages
    BY <2>2, <1>1 DEF CommandOk, Types
  <2>3. CASE /\ c.type = "EditMessage" /\ c.targets \in scene.targets
             /\ c.message \in DOMAIN store.messages
    BY <2>3, <1>1 DEF CommandOk, Types
  <2>4. CASE c.type = "DeleteMessage" /\ c.message \in DOMAIN store.messages
    BY <2>4 DEF CommandOk, Types
  <2>5. \/ c.type = "StartThread" /\ c.targets \in scene.targets
        \/ /\ c.type = "ReplyToThread" /\ c.targets \in scene.targets
           /\ c.thread \in DOMAIN store.messages
        \/ /\ c.type = "EditMessage" /\ c.targets \in scene.targets
           /\ c.message \in DOMAIN store.messages
        \/ c.type = "DeleteMessage" /\ c.message \in DOMAIN store.messages
    <3>1. CASE c \in [type : {"StartThread"}, targets : scene.targets]
      BY <3>1
    <3>2. ASSUME NEW t \in DOMAIN store.messages,
                 c \in [type : {"ReplyToThread"}, thread : {t}, targets : scene.targets,
                       cursor : Stated(store.cursors[t])]
          PROVE  /\ c.type = "ReplyToThread" /\ c.targets \in scene.targets
                 /\ c.thread \in DOMAIN store.messages
      BY <3>2
    <3>3. ASSUME NEW m \in DOMAIN store.messages, NEW revisions,
                 c \in [type : {"EditMessage"}, message : {m}, expected : revisions,
                       targets : scene.targets]
          PROVE  /\ c.type = "EditMessage" /\ c.targets \in scene.targets
                 /\ c.message \in DOMAIN store.messages
      BY <3>3
    <3>4. ASSUME NEW m \in DOMAIN store.messages, NEW revisions,
                 c \in [type : {"DeleteMessage"}, message : {m}, expected : revisions]
          PROVE  c.type = "DeleteMessage" /\ c.message \in DOMAIN store.messages
      BY <3>4
    <3>5. \/ c \in [type : {"StartThread"}, targets : scene.targets]
          \/ \E t \in DOMAIN store.messages :
                c \in [type : {"ReplyToThread"}, thread : {t}, targets : scene.targets,
                      cursor : Stated(store.cursors[t])]
          \/ \E m \in DOMAIN store.messages :
                \/ c \in [type : {"EditMessage"}, message : {m},
                         expected : 1..Len(store.messages[m].revisions),
                         targets : scene.targets]
                \/ c \in [type : {"DeleteMessage"}, message : {m},
                         expected : 1..Len(store.messages[m].revisions)]
      <4> DEFINE S == [type : {"StartThread"}, targets : scene.targets]
                 R(t) == [type : {"ReplyToThread"}, thread : {t}, targets : scene.targets,
                          cursor : Stated(store.cursors[t])]
                 E(m) == [type : {"EditMessage"}, message : {m},
                          expected : 1..Len(store.messages[m].revisions),
                          targets : scene.targets]
                 D(m) == [type : {"DeleteMessage"}, message : {m},
                          expected : 1..Len(store.messages[m].revisions)]
                 threads == {m \in DOMAIN store.messages : store.messages[m].thread = m}
      <4>1. ThreadCommands(store) = S \cup (UNION {R(t) : t \in threads})
                                      \cup (UNION {E(m) \cup D(m) : m \in DOMAIN store.messages})
        BY DEF ThreadCommands
      <4>2. \A t \in threads : t \in DOMAIN store.messages
        OBVIOUS
      <4> HIDE DEF S, R, E, D, threads
      <4>3. \/ c \in S
            \/ \E t \in DOMAIN store.messages : c \in R(t)
            \/ \E m \in DOMAIN store.messages : c \in E(m) \/ c \in D(m)
        BY <1>3, <4>1, <4>2
      <4> QED BY <4>3 DEF S, R, E, D
    <3> QED BY <3>1, <3>2, <3>3, <3>4, <3>5
  <2> QED BY <2>1, <2>2, <2>3, <2>4, <2>5
<1>4. CASE c \in RunCommands(store)
  BY <1>1, <1>4 DEF RunCommands, CommandOk, Types
<1>5. CASE c \in AttentionCommands(store)
  BY <1>5 DEF AttentionCommands, CommandOk, Types
<1> QED BY <1>2, <1>3, <1>4, <1>5 DEF Commands

\* The empty store.
LEMMA CollaborationInitInv == CollaborationInit => CollaborationInv
<1> SUFFICES ASSUME CollaborationInit
             PROVE  CollaborationInv
  OBVIOUS
<1>1. /\ store.messages = << >> /\ store.cursors = << >> /\ store.attentions = {}
      /\ store.runs = << >> /\ store \in StoreRows
  BY DEF CollaborationInit, StoreRows
<1>2. /\ DOMAIN store.messages = {} /\ DOMAIN store.runs = {}
      /\ Len(store.cursors) = Len(store.messages)
  BY <1>1
<1>3. StoreTyped(store) /\ MessagesOk(store) /\ AttentionsOk(store)
  BY <1>1, <1>2, FS_EmptySet DEF StoreTyped, MessagesOk, AttentionsOk
<1>4. RunsOk(store) /\ AskedOk(store)
  BY <1>2 DEF RunsOk, AskedOk
<1>5. BoundOk(store)
  <2>1. \A m : NonTerminal(store, m) = {}
    BY <1>2 DEF NonTerminal
  <2>2. MaxNonTerminal \in Nat
    BY CollaborationAssumption DEF CollaborationAssumption
  <2> QED BY <2>1, <2>2, FS_EmptySet DEF BoundOk
<1>6. RecordsOk
  BY DEF CollaborationInit, RecordsOk
<1> QED BY <1>3, <1>4, <1>5, <1>6
        DEF CollaborationInit, CollaborationInv, StoreOk, LimitsKept

\* A Run's writer is nobody's business but the gate's.
LEMMA WriterSound ==
    ASSUME NEW d, StoreOk(d), NEW r \in DOMAIN d.runs,
           NEW writer \in {"Held", "Stopped", "Lost"},
           NEW e, e = [d EXCEPT !.runs[r].writer = writer]
    PROVE  Sound(d, e)
<1>1. d \in StoreRows /\ RunsOk(d)
  BY DEF StoreOk, StoreTyped
<1>2. PICK old \in ChannelRuns : old = d.runs[r]
  BY <1>1, RowFields
<1>3. PICK row : row = [old EXCEPT !.writer = writer]
  OBVIOUS
<1>4. /\ row \in ChannelRuns /\ row.owner = old.owner /\ row.thread = old.thread
      /\ row.root = old.root /\ row.parent = old.parent /\ row.depth = old.depth
      /\ row.state = old.state /\ row.revision = old.revision /\ row.inputs = old.inputs
  BY ONLY <1>3, old \in ChannelRuns, writer \in {"Held", "Stopped", "Lost"} DEF ChannelRuns
<1>5. PICK runs : runs = [d.runs EXCEPT ![r] = row]
  OBVIOUS
<1>6. /\ runs \in Seq(ChannelRuns) /\ DOMAIN runs = DOMAIN d.runs
      /\ runs[r] = row /\ \A x \in DOMAIN d.runs : x # r => runs[x] = d.runs[x]
  BY <1>1, <1>4, <1>5, StoreFields, Updated
<1>7. e = [d EXCEPT !.runs = runs]
  BY <1>1, <1>2, <1>3, <1>5 DEF StoreRows
<1>8. /\ e \in StoreRows /\ e.messages = d.messages /\ e.cursors = d.cursors
      /\ e.attentions = d.attentions /\ e.runs = runs
  BY ONLY <1>1, <1>6, <1>7, WithRuns
<1>9. StoreOk(e)
  <2>1. /\ row.owner = d.runs[r].owner /\ row.thread = d.runs[r].thread
        /\ row.root = d.runs[r].root /\ row.parent = d.runs[r].parent
        /\ row.depth = d.runs[r].depth /\ row.revision >= row.inputs
        /\ d.runs[r].state \in Terminal => row.state \in Terminal
    BY <1>1, <1>2, <1>4 DEF RunsOk
  <2>2. e = [d EXCEPT !.runs = [d.runs EXCEPT ![r] = row]]
    BY <1>5, <1>7
  <2>3. StoreOk(d) /\ r \in DOMAIN d.runs /\ row \in ChannelRuns
    BY <1>4
  <2> QED BY ONLY <2>1, <2>2, <2>3, RunChanged
<1>10. \A x \in DOMAIN d.runs :
          /\ runs[x].owner = d.runs[x].owner /\ runs[x].thread = d.runs[x].thread
          /\ runs[x].state = d.runs[x].state /\ runs[x].revision = d.runs[x].revision
          /\ runs[x].inputs = d.runs[x].inputs
  BY <1>2, <1>4, <1>6
<1>11. \A t : Moves(d, e, t, 0)
  <2> TAKE t
  <2>1. t \in DOMAIN d.cursors => d.cursors[t] \in Nat
    BY <1>1, StoreFields
  <2>2. t \in DOMAIN d.cursors => e.cursors[t] >= d.cursors[t] + 0
    BY <2>1, <1>8
  <2> QED BY <2>2, <1>6, <1>8, <1>10 DEF Moves
<1> QED BY <1>9, <1>11, NoThread

\* Records outlive what the store becomes.
LEMMA RecordsStand ==
    ASSUME RecordsOk, Grows(store, store'), UNCHANGED <<records, answers>>
    PROVE  RecordsOk'
<1>1. ASSUME NEW slot \in DOMAIN records
      PROVE  LET c == records[slot].cmd
             IN  /\ CommandOk(store', c)
                 /\ c.type \in {"PublishRunReply", "CompleteRun"} =>
                       store'.runs[c.run].owner = slot[1]
  <2>1. CommandOk(store, records[slot].cmd)
    BY <1>1 DEF RecordsOk
  <2>2. CommandOk(store', records[slot].cmd)
    BY <2>1, CommandStands
  <2>3. records[slot].cmd.type \in {"PublishRunReply", "CompleteRun"} =>
           /\ records[slot].cmd.run \in DOMAIN store.runs
           /\ store.runs[records[slot].cmd.run].owner = slot[1]
    BY <1>1, <2>1 DEF RecordsOk, CommandOk
  <2> QED BY <2>2, <2>3 DEF Grows
<1> QED BY <1>1 DEF RecordsOk

\* An answer repeats the record.
LEMMA AnswersStand ==
    ASSUME RecordsOk, NEW slot, NEW c, NEW result, Answer(slot, c, result),
           slot \in DOMAIN records', records'[slot] = [cmd |-> c, result |-> result],
           \A s \in DOMAIN records : s \in DOMAIN records' /\ (s # slot => records'[s] = records[s]),
           slot \in DOMAIN records => records'[slot] = records[slot]
    PROVE  /\ \A s \in DOMAIN answers' :
                 s \in DOMAIN records' /\ answers'[s] \in Seq({records'[s]})
           /\ \A s \in DOMAIN answers' : s # slot => answers'[s] = Told(s)
<1>1. PICK told : told = Told(slot)
  OBVIOUS
<1>2. told \in Seq({records'[slot]})
  <2>1. << >> \in Seq({records'[slot]})
    OBVIOUS
  <2>2. slot \in DOMAIN answers =>
           slot \in DOMAIN records /\ answers[slot] \in Seq({records[slot]})
    BY DEF RecordsOk
  <2> QED BY <2>1, <2>2, <1>1 DEF Told
<1>3. CASE Len(Told(slot)) < 2
  <2>1. PICK more : more = Append(told, [cmd |-> c, result |-> result])
    OBVIOUS
  <2>2. more \in Seq({records'[slot]})
    BY <1>2, <2>1, AppendProperties
  <2>3. answers' = Put(answers, slot, more)
    BY <1>1, <1>3, <2>1 DEF Answer
  <2>4. /\ DOMAIN answers' = DOMAIN answers \cup {slot} /\ answers'[slot] = more
        /\ \A s \in DOMAIN answers : s # slot => answers'[s] = answers[s]
    BY <2>3 DEF Put
  <2> QED BY <2>2, <2>4 DEF RecordsOk, Told
<1>4. CASE ~(Len(Told(slot)) < 2)
  <2>1. answers' = answers
    BY <1>4 DEF Answer
  <2> QED BY <2>1 DEF RecordsOk, Told
<1> QED BY <1>3, <1>4

LEMMA ReplayKeeps ==
    ASSUME CollaborationInv, NEW p \in Principals, NEW c, NEW key, Replay(p, c, key)
    PROVE  CollaborationInv'
<1>1. PICK slot : slot = Slot(p, c, key)
  OBVIOUS
<1>2. /\ slot \in DOMAIN records /\ records[slot].cmd = c
      /\ Answer(slot, c, records[slot].result)
      /\ UNCHANGED <<store, records, limits, scene>>
  BY <1>1 DEF Replay
<1>3. records'[slot] = [cmd |-> c, result |-> records[slot].result]
  BY <1>2 DEF CollaborationInv, RecordsOk
<1>4. \A s \in DOMAIN answers' : s \in DOMAIN records' /\ answers'[s] \in Seq({records'[s]})
  BY <1>2, <1>3, AnswersStand DEF CollaborationInv
<1> QED BY <1>2, <1>4 DEF CollaborationInv, RecordsOk

\* What a command has done is recorded under its key.
LEMMA ExecuteRecords ==
    ASSUME CollaborationInv, NEW p \in Principals, NEW c \in Commands,
           NEW key \in scene.keys \cup {Once}, Execute(p, c, key)
    PROVE  /\ Sound(store, store')
           /\ RecordsOk'
           /\ c.type \in {"PublishRunReply", "CompleteRun"} => store.runs[c.run].owner = p
           /\ limits' = limits /\ scene' = scene
<1>1. CommandOk(store, c)
  BY CommandsStand
<1>2. Allowed(store, p, c) /\ store' = Dispatch(store, p, c) /\ StoreOk(store) /\ LimitsKept
  BY DEF Execute, CollaborationInv, LimitsKept
<1>3. /\ Sound(store, store')
      /\ c.type \in {"PublishRunReply", "CompleteRun"} => store.runs[c.run].owner = p
  BY <1>1, <1>2, DispatchSound
<1>4. limits' = limits /\ scene' = scene
  BY DEF Execute
<1>5. RecordsOk'
  <2>1. CASE key = Once
    BY <2>1, <1>3, RecordsStand DEF Execute, CollaborationInv, Sound
  <2>2. CASE key # Once
    <3>1. PICK slot : slot = Slot(p, c, key)
      OBVIOUS
    <3>2. PICK result : result = Result(Dispatch(store, p, c), ThreadOf(Dispatch(store, p, c), c))
      OBVIOUS
    <3>3. PICK new : new = [cmd |-> c, result |-> result]
      OBVIOUS
    <3>4. /\ slot \notin DOMAIN records /\ records' = Put(records, slot, new)
          /\ Answer(slot, c, result) \/ UNCHANGED answers
      BY <2>2, <3>1, <3>2, <3>3 DEF Execute
    <3>5. /\ DOMAIN records' = DOMAIN records \cup {slot} /\ records'[slot] = new
          /\ \A s \in DOMAIN records : s # slot /\ records'[s] = records[s]
      BY <3>4 DEF Put
    <3>6. new.cmd = c /\ new = [cmd |-> c, result |-> new.result]
      BY <3>3
    <3>7. slot \in Principals \X Types \X Keys /\ slot[1] = p /\ slot[2] = c.type
      <4>1. key \in Keys
        BY <2>2, CollaborationAssumption DEF CollaborationAssumption, CollaborationInv
      <4> QED BY <3>1, <4>1, <1>1 DEF Slot, CommandOk
    <3>8. \A s \in DOMAIN answers' : s \in DOMAIN records' /\ answers'[s] \in Seq({records'[s]})
      <4>1. CASE Answer(slot, c, result)
        <5>1. RecordsOk
          BY DEF CollaborationInv
        <5> QED BY ONLY <4>1, <5>1, <3>3, <3>4, <3>5, AnswersStand
      <4>2. CASE UNCHANGED answers
        BY <4>2, <3>5 DEF CollaborationInv, RecordsOk
      <4> QED BY <3>4, <4>1, <4>2
    <3>9. Grows(store, store')
      BY <1>3 DEF Sound
    <3>10. ASSUME NEW s \in DOMAIN records'
           PROVE  LET q == records'[s].cmd
                  IN  /\ s \in Principals \X Types \X Keys
                      /\ records'[s] = [cmd |-> q, result |-> records'[s].result]
                      /\ CommandOk(store', q)
                      /\ q.type = s[2]
                      /\ q.type \in {"PublishRunReply", "CompleteRun"} =>
                            store'.runs[q.run].owner = s[1]
      <4>1. CASE s = slot
        <5>1. CommandOk(store', c)
          BY <1>1, <3>9, CommandStands
        <5>2. c.type \in {"PublishRunReply", "CompleteRun"} =>
                 store'.runs[c.run].owner = p
          BY <1>1, <1>3, <3>9 DEF Grows, CommandOk
        <5> QED BY <4>1, <5>1, <5>2, <3>5, <3>6, <3>7
      <4>2. CASE s # slot
        <5>1. s \in DOMAIN records /\ records'[s] = records[s]
          BY <4>2, <3>5
        <5>2. /\ s \in Principals \X Types \X Keys
              /\ records[s] = [cmd |-> records[s].cmd, result |-> records[s].result]
              /\ CommandOk(store, records[s].cmd)
              /\ records[s].cmd.type = s[2]
              /\ records[s].cmd.type \in {"PublishRunReply", "CompleteRun"} =>
                    store.runs[records[s].cmd.run].owner = s[1]
          BY <5>1 DEF CollaborationInv, RecordsOk
        <5>3. CommandOk(store', records[s].cmd)
          BY <5>2, <3>9, CommandStands
        <5>4. records[s].cmd.type \in {"PublishRunReply", "CompleteRun"} =>
                 store'.runs[records[s].cmd.run].owner = s[1]
          BY <5>2, <3>9 DEF Grows, CommandOk
        <5> QED BY <5>1, <5>2, <5>3, <5>4
      <4> QED BY <4>1, <4>2
    <3> QED BY <3>8, <3>10 DEF RecordsOk
  <2> QED BY <2>1, <2>2
<1> QED BY <1>3, <1>4, <1>5

\* Each step keeps the invariant, and no Thread changes behind its cursor.
LEMMA CollaborationStep ==
    ASSUME CollaborationInv, [CollaborationNext]_collaborationVars
    PROVE  CollaborationInv' /\ Tells(store, store')
<1>1. ASSUME Sound(store, store'), UNCHANGED <<records, answers, limits, scene>>
      PROVE  CollaborationInv' /\ Tells(store, store')
  BY <1>1, RecordsStand DEF CollaborationInv, Sound
<1>2. ASSUME store' = store
      PROVE  Tells(store, store')
  BY <1>2 DEF Tells
<1>3. StoreOk(store)
  BY DEF CollaborationInv
<1>4. ASSUME NEW p \in Principals, NEW c \in Commands, Refuse(p, c)
      PROVE  CollaborationInv' /\ Tells(store, store')
  <2>1. c.run \in DOMAIN store.runs
    BY <1>4, CommandsStand DEF Refuse, Written, CommandOk
  <2>2. store' = [store EXCEPT !.runs[c.run].writer = "Lost"]
    BY <1>4 DEF Refuse
  <2>3. Sound(store, store')
    BY <1>3, <2>1, <2>2, WriterSound
  <2> QED BY <1>1, <1>4, <2>3 DEF Refuse
<1>5. ASSUME NEW p \in Principals, NEW c \in Commands, NEW key, Replay(p, c, key)
      PROVE  CollaborationInv' /\ Tells(store, store')
  BY <1>2, <1>5, ReplayKeeps DEF Replay
<1>6. ASSUME NEW p \in Principals, NEW c \in Commands, NEW key \in scene.keys \cup {Once},
             Execute(p, c, key)
      PROVE  CollaborationInv' /\ Tells(store, store')
  BY <1>6, ExecuteRecords DEF CollaborationInv, Sound
<1>7. ASSUME NEW r \in DOMAIN store.runs, Writer(r)
      PROVE  CollaborationInv' /\ Tells(store, store')
  <2>1. PICK w \in {"Held", "Stopped", "Lost"} : store' = [store EXCEPT !.runs[r].writer = w]
    BY <1>7 DEF Writer
  <2>2. Sound(store, store')
    BY <1>3, <2>1, WriterSound
  <2> QED BY <1>1, <1>7, <2>2 DEF Writer
<1>8. ASSUME UNCHANGED <<store, records, answers, limits, scene>>
      PROVE  CollaborationInv' /\ Tells(store, store')
  BY <1>2, <1>8 DEF CollaborationInv, RecordsOk
<1>9. CASE UNCHANGED collaborationVars
  BY <1>8, <1>9 DEF collaborationVars
<1>10. CASE CollaborationNext
  BY <1>4, <1>5, <1>6, <1>7, <1>8, <1>10 DEF CollaborationNext, Close, Reopen
<1> QED BY <1>9, <1>10

-----------------------------------------------------------------------------
(* What the invariant says *)

LEMMA AskedOnceHolds == CollaborationInv => AskedOnce
<1> SUFFICES ASSUME CollaborationInv,
                    NEW m \in DOMAIN store.messages,
                    NEW n \in DOMAIN store.messages[m].revisions
             PROVE  LET asked == {a \in store.attentions : a.message = m /\ a.revision = n}
                        mentioned == store.messages[m].revisions[n]
                    IN  /\ Cardinality(asked) = Cardinality({a.target : a \in asked})
                        /\ {a.target : a \in asked} =
                              IF n = 1 THEN mentioned \ store.messages[m].silent
                              ELSE mentioned
  BY DEF AskedOnce
<1> DEFINE asked == {a \in store.attentions : a.message = m /\ a.revision = n}
           who == {a.target : a \in asked}
           f == [a \in asked |-> a.target]
<1>1. store \in StoreRows /\ AttentionsOk(store) /\ AskedOk(store) /\ IsFiniteSet(store.attentions)
  BY DEF CollaborationInv, StoreOk, StoreTyped
<1>2. Cardinality(asked) = Cardinality(who)
  <2>1. IsFiniteSet(asked)
    BY <1>1, FS_Subset
  <2>2. \A a, b \in asked : a.target = b.target => a = b
    BY <1>1 DEF AttentionsOk
  <2>3. f \in [asked -> who] /\ \A x \in who : \E a \in asked : f[a] = x
    OBVIOUS
  <2>4. \A a, b \in asked : f[a] = f[b] => a = b
    BY <2>2
  <2> HIDE DEF asked, who, f
  <2>5. f \in Bijection(asked, who)
    BY <2>3, <2>4 DEF Bijection, Injection, Surjection, IsInjective
  <2>6. ExistsBijection(asked, who)
    BY <2>5 DEF ExistsBijection
  <2> QED BY <2>1, <2>6, FS_Bijection
<1>3. \A x \in Agents : x \in Addressed(store, m, n) <=> x \in who
  BY <1>1 DEF AskedOk
<1>4. who \subseteq Agents
  BY <1>1, RowFields
<1>5. Addressed(store, m, n) \subseteq Agents
  <2>1. store.messages[m].revisions \in Seq(SUBSET Agents)
    BY <1>1, RowFields
  <2>2. store.messages[m].revisions[n] \subseteq Agents
    BY <2>1
  <2> QED BY <2>2 DEF Addressed
<1>6. who = Addressed(store, m, n)
  BY <1>3, <1>4, <1>5
<1> QED BY <1>2, <1>6 DEF Addressed

LEMMA CollaborationInvIsSafe == CollaborationInv => CollaborationSafety
<1> SUFFICES ASSUME CollaborationInv
             PROVE  CollaborationSafety
  OBVIOUS
<1>1. /\ store \in StoreRows /\ MessagesOk(store) /\ AttentionsOk(store)
      /\ RunsOk(store) /\ BoundOk(store) /\ RecordsOk
  BY DEF CollaborationInv, StoreOk, StoreTyped
<1>2. CollaborationTypeOK
  <2>1. \A m \in DOMAIN store.messages : store.messages[m].author \in Principals
    BY <1>1, RowFields
  <2>2. \A a \in store.attentions :
           /\ a.message \in DOMAIN store.messages
           /\ a.status \in {"Open", "Resolved", "Ignored"}
           /\ a.status = "Resolved" <=> a.run \in DOMAIN store.runs
    <3> TAKE a \in store.attentions
    <3>1. a \in ChannelAttentions
      BY <1>1, RowFields
    <3>2. a.status \in {"Open", "Resolved", "Ignored"}
      BY <3>1 DEF ChannelAttentions
    <3>3. None \notin DOMAIN store.runs
      BY <1>1, StoreFields DEF None
    <3> QED BY <1>1, <3>2, <3>3 DEF AttentionsOk
  <2>3. \A r \in DOMAIN store.runs : store.runs[r].revision >= store.runs[r].inputs
    BY <1>1 DEF RunsOk
  <2>4. \A slot \in DOMAIN records : slot[1] \in Principals /\ slot[3] \in Keys
    BY <1>1 DEF RecordsOk
  <2>5. \A m \in DOMAIN store.messages :
           /\ store.messages[m].thread \in 1..m
           /\ store.messages[m].run \in 0..Len(store.runs)
           /\ store.messages[m].author \in Agents <=> store.messages[m].run # None
    BY <1>1 DEF MessagesOk
  <2> QED BY <2>1, <2>2, <2>3, <2>4, <2>5 DEF CollaborationTypeOK
<1>3. CausalBound
  <2>1. \A m \in DOMAIN store.messages : m \in Nat
    BY <1>1, StoreFields
  <2> QED BY <1>1, <2>1 DEF CausalBound, BoundOk, RunsOk
<1>4. CausalTree
  <2> SUFFICES ASSUME NEW r \in DOMAIN store.runs
               PROVE  LET work == store.runs[r]
                      IN  /\ store.messages[work.root].author \in Humans
                          /\ store.messages[work.root].thread = work.thread
                          /\ IF work.parent = None
                             THEN work.depth = 0
                             ELSE /\ work.parent < r
                                  /\ work.root = store.runs[work.parent].root
                                  /\ work.depth = store.runs[work.parent].depth + 1
                          /\ \E a \in store.attentions :
                                /\ a.run = r /\ a.target = work.owner
                                /\ store.messages[a.message].run = work.parent
                                /\ work.parent = None => a.message = work.root
    BY DEF CausalTree
  <2>1. store.runs[r].parent < r
    <3>1. store.runs[r].parent \in 0..r - 1 /\ r \in Nat
      BY <1>1, StoreFields DEF RunsOk
    <3> QED BY <3>1
  <2> QED BY <1>1, <2>1 DEF RunsOk, Caused
<1>5. AnsweredAlike
  <2> SUFFICES ASSUME NEW slot \in DOMAIN answers
               PROVE  /\ slot \in DOMAIN records
                      /\ \A i \in DOMAIN answers[slot] : answers[slot][i] = records[slot]
    BY DEF AnsweredAlike
  <2>1. slot \in DOMAIN records /\ answers[slot] \in Seq({records[slot]})
    BY <1>1 DEF RecordsOk
  <2>2. \A i \in DOMAIN answers[slot] : answers[slot][i] \in {records[slot]}
    BY <2>1
  <2> QED BY <2>1, <2>2
<1> QED BY <1>2, <1>3, <1>4, <1>5, AskedOnceHolds DEF CollaborationSafety

\* Whoever is told more has the authority for it.
LEMMA AnswersAuthorized ==
    ASSUME CollaborationInv, [CollaborationNext]_collaborationVars,
           NEW slot \in DOMAIN answers', Len(answers'[slot]) > Len(Told(slot)),
           slot[2] \in {"PublishRunReply", "CompleteRun"}
    PROVE  store.runs[records'[slot].cmd.run].writer # "Lost"
<1>1. answers' # answers
  <2> SUFFICES ASSUME answers' = answers
               PROVE  FALSE
    OBVIOUS
  <2>1. slot \in DOMAIN answers /\ answers'[slot] = Told(slot)
    BY DEF Told
  <2>2. Len(Told(slot)) \in Nat
    BY <2>1 DEF CollaborationInv, RecordsOk, Told
  <2> QED BY <2>1, <2>2
<1>2. ASSUME NEW p \in Principals, NEW c \in Commands, NEW key, slot = Slot(p, c, key),
             records'[slot].cmd = c, Written(p, c) => GatePasses(c),
             store.runs[c.run].owner = p
      PROVE  store.runs[records'[slot].cmd.run].writer # "Lost"
  <2>1. c.type = slot[2] /\ CommandOk(store, c)
    BY <1>2, CommandsStand DEF Slot
  <2>2. c.run \in DOMAIN store.runs
    BY <2>1 DEF CommandOk
  <2>3. p \in Agents
    BY <1>2, <2>2, RunThread DEF CollaborationInv
  <2>4. Written(p, c) \/ store.runs[c.run].writer = "None"
    BY <1>2, <2>1, <2>3 DEF Written
  <2> QED BY <1>2, <2>4 DEF GatePasses
<1>3. ASSUME NEW p \in Principals, NEW c \in Commands, NEW key, Replay(p, c, key)
      PROVE  store.runs[records'[slot].cmd.run].writer # "Lost"
  <2>1. PICK s : s = Slot(p, c, key)
    OBVIOUS
  <2>2. /\ s \in DOMAIN records /\ records[s].cmd = c /\ UNCHANGED <<store, records>>
        /\ Answer(s, c, records[s].result)
        /\ Written(p, c) => GatePasses(c)
    BY <1>3, <2>1 DEF Replay
  <2>3. /\ records[s] = [cmd |-> c, result |-> records[s].result] /\ RecordsOk
        /\ c.type = s[2]
        /\ c.type \in {"PublishRunReply", "CompleteRun"} => store.runs[c.run].owner = s[1]
    BY <2>2 DEF CollaborationInv, RecordsOk
  <2>4. \A x \in DOMAIN answers' : x # s => answers'[x] = Told(x)
    <3>1. /\ s \in DOMAIN records' /\ records'[s] = [cmd |-> c, result |-> records[s].result]
          /\ \A x \in DOMAIN records : x \in DOMAIN records'
                                     /\ (x # s => records'[x] = records[x])
          /\ records'[s] = records[s] /\ Answer(s, c, records[s].result)
      BY <2>2, <2>3
    <3>2. RecordsOk
      BY <2>3
    <3> QED BY ONLY <3>1, <3>2, AnswersStand
  <2>5. slot = s
    BY <2>4 DEF CollaborationInv, RecordsOk, Told
  <2>6. s[1] = p /\ s[2] = c.type
    BY <2>1 DEF Slot
  <2> QED BY <1>2, <2>1, <2>2, <2>3, <2>5, <2>6
<1>4. ASSUME NEW p \in Principals, NEW c \in Commands, NEW key \in scene.keys \cup {Once},
             Execute(p, c, key)
      PROVE  store.runs[records'[slot].cmd.run].writer # "Lost"
  <2>1. PICK s : s = Slot(p, c, key)
    OBVIOUS
  <2>2. PICK result : result = Result(Dispatch(store, p, c), ThreadOf(Dispatch(store, p, c), c))
    OBVIOUS
  <2>3. PICK new : new = [cmd |-> c, result |-> result]
    OBVIOUS
  <2>4. /\ s \notin DOMAIN records /\ records' = Put(records, s, new)
        /\ Answer(s, c, result)
        /\ Written(p, c) => GatePasses(c)
    BY <1>1, <1>4, <2>1, <2>2, <2>3 DEF Execute
  <2>5. /\ DOMAIN records' = DOMAIN records \cup {s} /\ records'[s] = new
        /\ \A x \in DOMAIN records : x # s /\ records'[x] = records[x]
    BY <2>4 DEF Put
  <2>6. RecordsOk
    BY DEF CollaborationInv
  <2>7. \A x \in DOMAIN answers' : x # s => answers'[x] = Told(x)
    <3>1. /\ s \in DOMAIN records' /\ records'[s] = [cmd |-> c, result |-> result]
          /\ \A x \in DOMAIN records : x \in DOMAIN records'
                                     /\ (x # s => records'[x] = records[x])
          /\ s \notin DOMAIN records /\ Answer(s, c, result)
      BY <2>3, <2>4, <2>5
    <3> QED BY ONLY <3>1, <2>6, AnswersStand
  <2>8. slot = s
    BY <2>6, <2>7 DEF RecordsOk, Told
  <2>9. s[1] = p /\ s[2] = c.type
    BY <2>1 DEF Slot
  <2>10. c.type \in {"PublishRunReply", "CompleteRun"} => store.runs[c.run].owner = p
    BY <1>4, ExecuteRecords
  <2> QED BY <1>2, <2>1, <2>3, <2>4, <2>5, <2>8, <2>9, <2>10
<1> QED BY <1>1, <1>3, <1>4
        DEF CollaborationNext, collaborationVars, Refuse, Writer, Close, Reopen

-----------------------------------------------------------------------------
(* Theorems about commands *)

\* The inductive invariant of the tables a command reads and writes, for any
\* principals, keys, limits and circumstances (collaboration.ts, causal-limits.ts,
\* kernel.ts #executeCommand).
THEOREM CollaborationInvariant == CollaborationSpec => []CollaborationInv
<1>1. CollaborationInit => CollaborationInv
  BY CollaborationInitInv
<1>2. CollaborationInv /\ [CollaborationNext]_collaborationVars => CollaborationInv'
  BY CollaborationStep
<1> QED BY <1>1, <1>2, PTL DEF CollaborationSpec

\* However commands follow one another and are sent again: Runs stay within the
\* causal limits and below the Attention that made them, each Agent is asked once
\* for each revision that mentions it, and each caller is told one thing.
THEOREM CollaborationIsSafe == CollaborationSpec => []CollaborationSafety
BY CollaborationInvariant, CollaborationInvIsSafe, PTL

\* No Thread changes behind its cursor, and no caller is told anything about a Run
\* whose writer authority is lost (emitThreadEvent, assertWriterCommandAuthority).
THEOREM CollaborationStepsHold == CollaborationSpec => CollaborationSteps
<1>1. ASSUME CollaborationInv, [CollaborationNext]_collaborationVars
      PROVE  \A t \in DOMAIN store.cursors :
                View(store', t) # View(store, t) => store'.cursors[t] > store.cursors[t]
  BY <1>1, CollaborationStep DEF Tells
<1>2. ASSUME CollaborationInv, [CollaborationNext]_collaborationVars
      PROVE  \A slot \in DOMAIN answers' :
                /\ Len(answers'[slot]) > Len(Told(slot))
                /\ slot[2] \in {"PublishRunReply", "CompleteRun"}
                => store.runs[records'[slot].cmd.run].writer # "Lost"
  BY <1>2, AnswersAuthorized
<1> QED BY <1>1, <1>2, CollaborationInvariant, PTL
        DEF CollaborationSpec, CollaborationSteps, CursorTellsAll, NoAnswerWithoutAuthority

-----------------------------------------------------------------------------
(* Theorems about the Kernel *)

\* A behaviour of the Kernel is one of its commands and one of its reports.
THEOREM KernelIsBoth == Spec => CollaborationSpec /\ ReportSpec
<1>1. Init => CollaborationInit /\ ReportInit
  BY DEF Init
<1>2. [Next]_vars => [CollaborationNext]_collaborationVars /\ [ReportNext]_reportVars
  BY DEF Next, vars, reportVars
<1> QED BY <1>1, <1>2, PTL DEF Spec, CollaborationSpec, ReportSpec

\* The safety of commands and of reports hold of the Kernel the run checks.
THEOREM KernelIsSafe == Spec => [](CollaborationSafety /\ ReportSafety)
BY KernelIsBoth, CollaborationIsSafe, ReportSafetyHolds, PTL

\* No command hides a change from a Thread's cursor, and no caller, report or read
\* is answered without authority (StepsKeepAuthority).
THEOREM StepsKeepAuthorityHolds == Spec => StepsKeepAuthority
BY KernelIsBoth, CollaborationStepsHold, ReportStepsHold, PTL DEF StepsKeepAuthority

=============================================================================
