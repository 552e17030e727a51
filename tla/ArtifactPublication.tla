------------------------ MODULE ArtifactPublication ------------------------
(***************************************************************************)
(* Reports of Agents: kernel.finalizeReport and readArtifact, the content  *)
(* storage of artifact-storage.ts and the PublishArtifact transaction.     *)
(*                                                                         *)
(* A call is checked, collects its stream, stores the bytes and commits;   *)
(* it waits between these, and between the steps of the storage, while     *)
(* Runs move on and the Host may stop.  A content stands for its digest.  *)
(* The storage flushes directories, as it does except on Windows.          *)
(***************************************************************************)
EXTENDS Integers, FiniteSets

CONSTANTS
    Runs,               \* Runs of one Agent
    ReportKeys,               \* report keys the Agent chooses
    Contents,           \* report bytes, named by their digest
    Calls,              \* finalizeReport calls under way at one time
    Readers,            \* readArtifact calls under way at one time
    MaxActivations,     \* bound: Activations of a Run
    MaxRevision,        \* bound: Run revisions
    MaxCrashes          \* bound: stops of the Host

ASSUME PublicationAssumption ==
    /\ MaxActivations \in Nat \ {0}
    /\ MaxRevision \in Nat \ {0}
    /\ MaxCrashes \in Nat

VARIABLES
    run,            \* the runs rows: state, revision, activation_generation
    live,           \* the Activations neither revoked nor expired
    bridge,         \* the Run revision each Activation's bridge presents
    artifacts,      \* the artifacts rows
    reportRecords,        \* the PublishArtifact idempotency records
    disk,           \* the content directory, by digest
    calls,          \* the finalizeReport calls
    reads,          \* the readArtifact calls
    reportAnswers,        \* every report answered to an Agent
    crashes

reportVars == <<run, live, bridge, artifacts, reportRecords, disk, calls, reads, reportAnswers,
          crashes>>

kernelVars == <<run, live, bridge, artifacts, reportRecords>>

Activations == Runs \X (1..MaxActivations)

\* The reader of a readArtifact call that is a person, not an Activation.
Human == <<>>

IdleCall == [pc |-> "idle"]

IdleRead == [pc |-> "idle"]

ReportInit ==
    /\ run = [r \in Runs |-> [state |-> "Waiting", revision |-> 1, generation |-> 0]]
    /\ live = {}
    /\ bridge = [a \in Activations |-> 0]
    /\ artifacts = {}
    /\ reportRecords = {}
    /\ disk = [d \in Contents |-> [name |-> "none", bytes |-> "none"]]
    /\ calls = [c \in Calls |-> IdleCall]
    /\ reads = [x \in Readers |-> IdleRead]
    /\ reportAnswers = {}
    /\ crashes = 0
-----------------------------------------------------------------------------
(* Runs and Activations, as far as they grant authority to a report.        *)

Authorized(a) ==
    /\ a \in live
    /\ run[a[1]].state = "Active"
    /\ run[a[1]].generation = a[2]

OfRun(r) == {a \in Activations : a[1] = r}

StartActivation(r) ==
    LET g == run[r].generation + 1
        rev == IF run[r].state = "Waiting" THEN run[r].revision + 1
                                           ELSE run[r].revision
    IN  /\ run[r].state # "Ended" /\ g <= MaxActivations /\ rev <= MaxRevision
        /\ run' = [run EXCEPT ![r] = [state |-> "Active", revision |-> rev,
                                      generation |-> g]]
        /\ live' = (live \ OfRun(r)) \cup {<<r, g>>}
        /\ bridge' = [bridge EXCEPT ![<<r, g>>] = rev]
        /\ UNCHANGED <<artifacts, reportRecords, disk, calls, reads, reportAnswers, crashes>>

\* A message sent to the Run: its revision moves under the Activation.
ReviseRun(r) ==
    /\ run[r].state # "Ended" /\ run[r].revision < MaxRevision
    /\ run' = [run EXCEPT ![r].revision = @ + 1]
    /\ UNCHANGED <<live, bridge, artifacts, reportRecords, disk, calls, reads, reportAnswers,
                   crashes>>

Leave(r, state) ==
    /\ run' = [run EXCEPT ![r].state = state, ![r].revision = @ + 1]
    /\ live' = live \ OfRun(r)
    /\ UNCHANGED <<bridge, artifacts, reportRecords, disk, calls, reads, reportAnswers, crashes>>

\* The bridge's complete, fail and wait: fenced by the revision it presents.
BridgeSettles(a, state) ==
    /\ Authorized(a) /\ bridge[a] = run[a[1]].revision
    /\ Leave(a[1], state)

\* The Runtime parks a Run whose ProviderAttempt failed.
Park(r) == run[r].state = "Active" /\ Leave(r, "Waiting")

Expire(a) ==
    /\ a \in live
    /\ live' = live \ {a}
    /\ UNCHANGED <<run, bridge, artifacts, reportRecords, disk, calls, reads, reportAnswers, crashes>>
-----------------------------------------------------------------------------
(* finalizeReport up to the storage.                                        *)

At(c, pc) == calls[c].pc = pc

Goes(c, pc) == calls' = [calls EXCEPT ![c].pc = pc]

Ends(c) == calls' = [calls EXCEPT ![c] = IdleCall]

\* The Provider names a key and the bytes, its bridge the Run and the revision.
Request(a, k, d) ==
    [pc |-> "collecting", run |-> a[1], activation |-> a, key |-> k,
     revision |-> bridge[a], content |-> d, staged |-> "none"]

BeginReport(c, a, k, d) ==
    /\ At(c, "idle") /\ Authorized(a)
    /\ calls' = [calls EXCEPT ![c] = Request(a, k, d)]
    /\ UNCHANGED <<kernelVars, disk, reads, reportAnswers, crashes>>

\* The stream ends: the authority is checked again before anything is stored.
CollectReport(c) ==
    /\ At(c, "collecting")
    /\ IF Authorized(calls[c].activation) THEN Goes(c, "staging") ELSE Ends(c)
    /\ UNCHANGED <<kernelVars, disk, reads, reportAnswers, crashes>>
-----------------------------------------------------------------------------
(* The storage: a staged file, flushed, linked under its digest, read back  *)
(* and the directory flushed.                                               *)

\* The staging file is opened exclusively under a name of its own and written.
WriteStaged(c) ==
    /\ At(c, "staging")
    /\ calls' = [calls EXCEPT ![c].pc = "written", ![c].staged = "cached"]
    /\ UNCHANGED <<kernelVars, disk, reads, reportAnswers, crashes>>

SyncStaged(c) ==
    /\ At(c, "written")
    /\ calls' = [calls EXCEPT ![c].pc = "synced", ![c].staged = "durable"]
    /\ UNCHANGED <<kernelVars, disk, reads, reportAnswers, crashes>>

\* A link never replaces: a name already there is left as it is.
LinkContent(c) ==
    LET d == calls[c].content IN
    /\ At(c, "synced")
    /\ Goes(c, "linked")
    /\ disk' = IF disk[d].name # "none" THEN disk
               ELSE [disk EXCEPT ![d] = [name |-> "cached", bytes |-> calls[c].staged]]
    /\ UNCHANGED <<kernelVars, reads, reportAnswers, crashes>>

\* LocalArtifactStorage.read: a name that holds the whole content.
Readable(d) == disk[d].name # "none" /\ disk[d].bytes # "torn"

\* What the digest names is read back and compared with the report.
VerifyContent(c) ==
    /\ At(c, "linked")
    /\ IF Readable(calls[c].content) THEN Goes(c, "verified") ELSE Ends(c)
    /\ UNCHANGED <<kernelVars, disk, reads, reportAnswers, crashes>>

\* Mutant: a name another call published is not flushed again.
FlushOwnNames(c) ==
    /\ At(c, "verified")
    /\ Goes(c, "stored")
    /\ UNCHANGED <<kernelVars, disk, reads, reportAnswers, crashes>>

FlushDirectory(c) ==
    /\ At(c, "verified")
    /\ Goes(c, "stored")
    /\ disk' = [d \in Contents |->
                  IF disk[d].name = "none" THEN disk[d]
                  ELSE [disk[d] EXCEPT !.name = "durable"]]
    /\ UNCHANGED <<kernelVars, reads, reportAnswers, crashes>>

\* Any step of the storage may fail; the staging file is unlinked.
StorageFails(c) ==
    /\ calls[c].pc \in {"staging", "written", "synced", "linked", "verified"}
    /\ Ends(c)
    /\ UNCHANGED <<kernelVars, disk, reads, reportAnswers, crashes>>
-----------------------------------------------------------------------------
(* The PublishArtifact transaction.                                         *)

RecordsOf(r, k) == {e \in reportRecords : e.run = r /\ e.key = k}

\* The payload that is hashed: revision, digest and length with the key.
SamePayload(e, p) == e.revision = p.revision /\ e.content = p.content

\* Mutant: the same bytes may be described twice for a Run.
PublishableAgain(p) ==
    /\ run[p.run].state # "Ended"
    /\ run[p.run].revision = p.revision

\* The Run as the request knew it, and no descriptor of the bytes yet.
Publishable(p) ==
    /\ run[p.run].state # "Ended"
    /\ run[p.run].revision = p.revision
    /\ ~ \E f \in artifacts : f.run = p.run /\ f.content = p.content

ReportAnswer(p, id) ==
    reportAnswers' = reportAnswers \cup
        {[run |-> p.run, key |-> p.key, content |-> p.content, id |-> id,
          generation |-> p.activation[2]]}

\* A record of the same key answers, for an authorized Activation only.
ReplayReport(c) ==
    LET p == calls[c] IN
    /\ At(c, "stored")
    /\ Authorized(p.activation)
    /\ \E e \in RecordsOf(p.run, p.key) : SamePayload(e, p) /\ ReportAnswer(p, e.id)
    /\ Ends(c)
    /\ UNCHANGED <<kernelVars, disk, reads, crashes>>

\* Descriptor, event, outbox row and record are committed together.
PublishReport(c) ==
    LET p  == calls[c]
        id == Cardinality(artifacts) + 1
    IN  /\ At(c, "stored")
        /\ Authorized(p.activation) /\ RecordsOf(p.run, p.key) = {} /\ Publishable(p)
        /\ artifacts' = artifacts \cup
              {[id |-> id, run |-> p.run, activation |-> p.activation,
                base |-> p.revision, content |-> p.content]}
        /\ reportRecords' = reportRecords \cup
              {[run |-> p.run, key |-> p.key, revision |-> p.revision,
                content |-> p.content, id |-> id]}
        /\ ReportAnswer(p, id)
        /\ Ends(c)
        /\ UNCHANGED <<run, live, bridge, disk, reads, crashes>>

RefuseReport(c) ==
    LET p == calls[c] IN
    /\ At(c, "stored")
    /\ \/ ~Authorized(p.activation)
       \/ \E e \in RecordsOf(p.run, p.key) : ~SamePayload(e, p)
       \/ RecordsOf(p.run, p.key) = {} /\ ~Publishable(p)
    /\ Ends(c)
    /\ UNCHANGED <<kernelVars, disk, reads, reportAnswers, crashes>>
-----------------------------------------------------------------------------
(* readArtifact: the descriptor, the bytes, and the authority once more.    *)

Visible(who, f) == IF who = Human THEN TRUE ELSE Authorized(who) /\ f.run = who[1]

BeginRead(x, who, f) ==
    /\ reads[x].pc = "idle" /\ Visible(who, f)
    /\ reads' = [reads EXCEPT ![x] = [pc |-> "reading", who |-> who, artifact |-> f]]
    /\ UNCHANGED <<kernelVars, disk, calls, reportAnswers, crashes>>

ReadContent(x) ==
    /\ reads[x].pc = "reading"
    /\ reads' = [reads EXCEPT ![x].pc =
                   IF Readable(reads[x].artifact.content) THEN "held" ELSE "missing"]
    /\ UNCHANGED <<kernelVars, disk, calls, reportAnswers, crashes>>

EndRead(x) ==
    /\ reads[x].pc \in {"held", "missing"}
    /\ reads' = [reads EXCEPT ![x].pc =
                   IF reads[x].pc = "held" /\ Visible(reads[x].who, reads[x].artifact)
                   THEN "given" ELSE "refused"]
    /\ UNCHANGED <<kernelVars, disk, calls, reportAnswers, crashes>>

ForgetRead(x) ==
    /\ reads[x].pc \in {"given", "refused"}
    /\ reads' = [reads EXCEPT ![x] = IdleRead]
    /\ UNCHANGED <<kernelVars, disk, calls, reportAnswers, crashes>>
-----------------------------------------------------------------------------
(* The Host stops: calls are lost.  With the power go names and bytes that  *)
(* were not flushed; the database is durable at each commit.                *)

Stop ==
    /\ crashes < MaxCrashes
    /\ crashes' = crashes + 1
    /\ calls' = [c \in Calls |-> IdleCall]
    /\ reads' = [x \in Readers |-> IdleRead]
    /\ UNCHANGED <<kernelVars, reportAnswers>>

ProcessStops == Stop /\ UNCHANGED disk

PowerFails ==
    /\ Stop
    /\ \E lost \in SUBSET {d \in Contents : disk[d].name = "cached"} :
         disk' = [d \in Contents |->
                    IF d \in lost THEN [name |-> "none", bytes |-> "none"]
                    ELSE IF disk[d].name = "none" THEN disk[d]
                    ELSE [name  |-> "durable",
                          bytes |-> IF disk[d].bytes = "durable" THEN "durable"
                                                                 ELSE "torn"]]

Store(c) ==
    \/ WriteStaged(c) \/ SyncStaged(c) \/ LinkContent(c) \/ VerifyContent(c)
    \/ FlushDirectory(c) \/ StorageFails(c)

ReportNext ==
    \/ \E r \in Runs : StartActivation(r) \/ ReviseRun(r) \/ Park(r)
    \/ \E a \in Activations : \/ Expire(a)
                              \/ \E s \in {"Waiting", "Ended"} : BridgeSettles(a, s)
    \/ \E c \in Calls, a \in Activations, k \in ReportKeys, d \in Contents :
          BeginReport(c, a, k, d)
    \/ \E c \in Calls : \/ CollectReport(c) \/ Store(c)
                        \/ ReplayReport(c) \/ PublishReport(c) \/ RefuseReport(c)
    \/ \E x \in Readers : \/ \E who \in Activations \cup {Human}, f \in artifacts :
                                BeginRead(x, who, f)
                          \/ ReadContent(x) \/ EndRead(x) \/ ForgetRead(x)
    \/ ProcessStops \/ PowerFails

ReportSpec == ReportInit /\ [][ReportNext]_reportVars
-----------------------------------------------------------------------------
ContentStates == [name : {"none", "cached", "durable"},
                  bytes : {"none", "cached", "durable", "torn"}]

\* The shape of the state, between any two steps of calls, reads and stops.
ReportTypeOK ==
    /\ \A r \in Runs : /\ run[r].state \in {"Active", "Waiting", "Ended"}
                       /\ run[r].revision \in 1..(MaxRevision + 1)
                       /\ run[r].generation \in 0..MaxActivations
    /\ live \subseteq Activations
    /\ bridge \in [Activations -> 0..MaxRevision]
    /\ \A f \in artifacts : f.run \in Runs /\ f.content \in Contents
    /\ \A e \in reportRecords : \E f \in artifacts :
          e.id = f.id /\ e.run = f.run /\ e.content = f.content
    /\ disk \in [Contents -> ContentStates]
    /\ \A d \in Contents : disk[d].name = "none" <=> disk[d].bytes = "none"

\* A descriptor that was committed can be read by whoever may see it, after
\* any stop of the Host and whichever of the concurrent calls stored the bytes:
\* put resolves only once the content is durable.
DescriptorsReadable ==
    \A f \in artifacts : disk[f.content] = [name |-> "durable", bytes |-> "durable"]

\* Whatever is retried, by whichever Activation and across stops, one key of a
\* Run is only ever answered with one report, and one report has one key.
RetriesAnswerAlike ==
    \A p, q \in reportAnswers :
        p.run = q.run => /\ p.key = q.key => p.id = q.id /\ p.content = q.content
                         /\ p.content = q.content => p.id = q.id

\* A report a call began is not published, and no earlier result is given out,
\* once the Activation that asked lost its authority while the call waited.
NoAnswerAfterAuthority ==
    [][\A p \in reportAnswers' \ reportAnswers : Authorized(<<p.run, p.generation>>)]_reportVars

\* A read does not end with the bytes for an Agent whose Activation ended, or
\* whose Run moved on, while the storage was read.
NoReadAfterAuthority ==
    [][\A x \in Readers :
         reads'[x].pc = "given" /\ reads[x].pc # "given" /\ reads[x].who # Human
            => Authorized(reads[x].who)]_reportVars

\* The kernel publishes into a register that only grows: once for a key and
\* once for the bytes, while the Run works, after the bytes are kept.
Register == INSTANCE ReportRegister WITH
    reports <- {[run |-> e.run, key |-> e.key, content |-> e.content] : e \in reportRecords},
    kept    <- {d \in Contents : disk[d] = [name |-> "durable", bytes |-> "durable"]},
    working <- {r \in Runs : run[r].state = "Active"}

RegisterSpec == Register!RegisterSpec

\* What was published can be read, and what is retried is answered alike.
ReportSafety ==
    /\ ReportTypeOK
    /\ DescriptorsReadable
    /\ RetriesAnswerAlike

\* No step answers a report or a read without authority.
ReportSteps ==
    /\ NoAnswerAfterAuthority
    /\ NoReadAfterAuthority

=============================================================================
