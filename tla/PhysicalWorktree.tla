-------------------------- MODULE PhysicalWorktree --------------------------
(***************************************************************************)
(* One managed directory, the processes that were started in it and the    *)
(* authority to publish what they did: packages/kernel/src/                *)
(* physical-worktrees.ts, with the writer lease it is fenced by and the    *)
(* process-local denials of kernel.ts.                                     *)
(*                                                                         *)
(* The source Run is abstracted to what requireSourceActivation and the    *)
(* committed-decision exception read of it: the generation of its latest   *)
(* Activation and whether that Activation is current, has committed its    *)
(* own decision (Completed, Failed or Waiting), or is over.  Activations   *)
(* are named by their generation.                                          *)
(***************************************************************************)
EXTENDS WriterLease

CONSTANTS
    MaxExecutions,      \* bound: rows of worktree_executions
    MaxActivations      \* bound: Activations of the source Run

ASSUME PhysicalAssumption == MaxExecutions \in Nat /\ MaxActivations \in Nat

VARIABLES
    phys,       \* physical_worktrees.state; "None" before registration
    execs,      \* worktree_executions, in sequence order
    source,     \* the source Run and its latest Activation
    denied,     \* localWorktreeRevocations of the running Kernel process
    held,       \* executions whose executor still has its receipt
    lost        \* Activations ever told WriterAuthorityLost by a commit

physVars == <<phys, execs, source, denied, held, lost>>

vars == <<clock, lease, ledger, issued, grants, barriers,
          phys, execs, source, denied, held, lost>>

Activations == 1..MaxActivations

ExecStates ==
    {"Starting", "Running", "StopRequested", "StopConfirmed",
     "ForceTerminated", "Uncertain"}

Stopped == {"StopConfirmed", "ForceTerminated"}

Abnormal == {"Uncertain", "ForceTerminated"}

\* The ProviderAttempt an execution is bound to: "Executing" stands for Started
\* and Acknowledged, "Lost" for Failed and Unknown; "None" is the fixed probe,
\* which is bound to no attempt.
AttemptStates == {"None", "Executing", "Completed", "Lost"}

\* "abnormal": worktree_execution_events, which is append-only, holds an
\* Uncertain or ForceTerminated event of the execution.
Executions ==
    [act : Activations, owner : Principals, generation : Nat, fencing : Nat,
     provider : AttemptStates, state : ExecStates, revoked : BOOLEAN,
     abnormal : BOOLEAN]

PhysTypeOK ==
    /\ LeaseTypeOK
    /\ phys \in {"None", "Ready", "Quarantined"}
    /\ execs \in Seq(Executions)
    /\ source \in [gen : 0..MaxActivations, expires : Nat,
                   phase : {"Current", "Decided", "Over"}]
    /\ denied \subseteq Activations
    /\ held \subseteq DOMAIN execs
    /\ lost \subseteq Activations

Init ==
    /\ LeaseInit
    /\ phys = "None"
    /\ execs = << >>
    /\ source = [gen |-> 0, expires |-> 0, phase |-> "Over"]
    /\ denied = {}
    /\ held = {}
    /\ lost = {}

-----------------------------------------------------------------------------
Unsettled == {i \in DOMAIN execs : execs[i].state \notin Stopped}

\* Mutant: a directory nobody doubts is taken for idle.
IdleUnlessQuarantined == phys # "Quarantined"

\* assertPhysicalWorktreeIdle
Idle == phys # "Quarantined" /\ Unsettled = {}

\* requireSourceActivation: unfinished, unrevoked, unexpired and current.
SourceLive(act) ==
    source.gen = act /\ source.phase = "Current" /\ source.expires > clock

\* The committed decision of the Activation itself, still in force.
SourceDecided(act) ==
    source.gen = act /\ source.phase = "Decided" /\ source.expires > clock

\* What assertActivationWriterAuthority asks of execution i before it looks
\* at the lease.
ExecStands(i, stopped, decision) ==
    LET e == execs[i]
    IN  /\ \/ e.provider \in {"None", "Executing"}
           \/ decision /\ e.provider = "Completed"
        /\ e.act \notin denied
        /\ ~e.revoked
        /\ phys = "Ready"
        /\ lease.status # "None"
        /\ e.state \in {"Starting", "Running", "StopRequested",
                        "StopConfirmed"}
        /\ stopped => e.state = "StopConfirmed"

ExecAuthorized(i, stopped, decision) ==
    LET e == execs[i]
    IN  /\ ExecStands(i, stopped, decision)
        /\ Accepts(e.owner, [generation |-> e.generation,
                             fencing |-> e.fencing, token |-> lease.token])
        /\ SourceLive(e.act) \/ (decision /\ SourceDecided(e.act))

ExecsOf(act) == {i \in DOMAIN execs : execs[i].act = act}

\* assertActivationWriterAuthority returns normally.
Passes(act, stopped, decision) ==
    \A i \in ExecsOf(act) : ExecAuthorized(i, stopped, decision)

Revoke(i) == [execs EXCEPT ![i] = [@ EXCEPT !.revoked = TRUE]]

\* Mutant: the loss is remembered by the process only.
LoseAuthorityInMemory(act, stopped, decision) ==
    /\ Room
    /\ \E i \in ExecsOf(act) :
          /\ ~ExecAuthorized(i, stopped, decision)
          /\ \A j \in ExecsOf(act) :
                j < i => ExecAuthorized(j, stopped, decision)
          /\ denied' = denied \cup {act}
          /\ IF Lapsed /\ ExecStands(i, stopped, decision)
             THEN MaterializeExpiry
             ELSE UNCHANGED leaseVars
    /\ lost' = lost \cup {act}
    /\ UNCHANGED <<phys, source, execs, held>>

\* Mutant: the expiry met on the way is not entered in the ledger.
LoseAuthorityUnrecorded(act, stopped, decision) ==
    /\ Room
    /\ \E i \in ExecsOf(act) :
          /\ ~ExecAuthorized(i, stopped, decision)
          /\ \A j \in ExecsOf(act) :
                j < i => ExecAuthorized(j, stopped, decision)
          /\ execs' = Revoke(i)
          /\ IF Lapsed /\ ExecStands(i, stopped, decision)
             THEN /\ lease' = Existing
                  /\ UNCHANGED <<clock, ledger, issued, grants, barriers>>
             ELSE UNCHANGED leaseVars
    /\ lost' = lost \cup {act}
    /\ UNCHANGED <<phys, source, denied, held>>

\* assertActivationWriterAuthority throws: the first execution that fails is
\* revoked for good, and an expiry it met on the way is committed with it.
LoseAuthority(act, stopped, decision) ==
    /\ Room
    /\ \E i \in ExecsOf(act) :
          /\ ~ExecAuthorized(i, stopped, decision)
          /\ \A j \in ExecsOf(act) :
                j < i => ExecAuthorized(j, stopped, decision)
          /\ execs' = Revoke(i)
          /\ IF Lapsed /\ ExecStands(i, stopped, decision)
             THEN MaterializeExpiry
             ELSE UNCHANGED leaseVars
    /\ lost' = lost \cup {act}
    /\ UNCHANGED <<phys, source, denied, held>>

-----------------------------------------------------------------------------
(* The commands of physicalWorktreeCommand *)

Register ==
    /\ phys = "None"
    /\ phys' = "Ready"
    /\ UNCHANGED <<leaseVars, execs, source, denied, held, lost>>

\* StartWorktreeExecution by principal p under receipt a, bound to an executing
\* ProviderAttempt or to none.
StartExecution(p, a, provider) ==
    LET act == source.gen
    IN  /\ Len(execs) < MaxExecutions
        /\ phys # "None"
        /\ Idle
        /\ SourceLive(act)
        /\ provider \in {"None", "Executing"}
        /\ Passes(act, FALSE, FALSE)
        /\ Accepts(p, a)
        /\ execs' = Append(execs,
             [act |-> act, owner |-> p, generation |-> a.generation,
              fencing |-> a.fencing, provider |-> provider, state |-> "Starting",
              revoked |-> FALSE, abnormal |-> FALSE])
        /\ held' = held \cup {Len(execs) + 1}
        /\ UNCHANGED <<leaseVars, phys, source, denied, lost>>

\* The same command refused by assertActivationWriterAuthority.
StartExecutionRefused ==
    /\ phys # "None"
    /\ Idle
    /\ SourceLive(source.gen)
    /\ LoseAuthority(source.gen, FALSE, FALSE)

Allowed(from) ==
    CASE from = "Starting" ->
            {"Running", "StopRequested", "StopConfirmed", "Uncertain"}
      [] from = "Running" -> {"StopRequested", "StopConfirmed", "Uncertain"}
      [] from = "StopRequested" ->
            {"StopConfirmed", "ForceTerminated", "Uncertain"}
      [] from = "Uncertain" -> Stopped
      [] from \in Stopped -> {}

\* Mutant: an abnormal end leaves the authority to publish.
RecordedUnrevoked(e, state, revoke) ==
    [e EXCEPT !.state = state, !.revoked = @ \/ revoke,
              !.abnormal = @ \/ state \in Abnormal]

\* The row as recordState leaves it: an abnormal end revokes publication.
Recorded(e, state, revoke) ==
    [e EXCEPT !.state = state, !.revoked = @ \/ revoke \/ state \in Abnormal,
              !.abnormal = @ \/ state \in Abnormal]

\* recordState: doubt quarantines the directory and a stop makes it ready
\* again.
RecordState(i, state, revoke) ==
    /\ execs' = [execs EXCEPT ![i] = Recorded(@, state, revoke)]
    /\ phys' = CASE state = "Uncertain" -> "Quarantined"
                 [] state \in Stopped -> "Ready"
                 [] OTHER -> phys

RecordExecution(i, state, preserve) ==
    /\ i \in held
    /\ state \in Allowed(execs[i].state)
    /\ RecordState(i, state, state = "StopRequested" /\ ~preserve)
    /\ UNCHANGED <<leaseVars, source, denied, held, lost>>

\* RecoverWorktreeExecution needs no receipt: any Runtime may doubt, none may
\* confirm.
RecoverExecution(i) ==
    /\ IF execs[i].state \in Stopped \cup {"Uncertain"}
       THEN execs' = Revoke(i) /\ UNCHANGED phys
       ELSE RecordState(i, "Uncertain", TRUE)
    /\ UNCHANGED <<leaseVars, source, denied, held, lost>>

RevokeExecutionAuthority(i) ==
    /\ i \in held
    /\ execs' = Revoke(i)
    /\ UNCHANGED <<leaseVars, phys, source, denied, held, lost>>

\* A replayed StartWorktreeExecution returns the receipt again only while it
\* would grant mutation authority.
MutationAllowed(i, p, a) ==
    LET e == execs[i]
    IN  /\ p = e.owner
        /\ e.generation = a.generation
        /\ e.fencing = a.fencing
        /\ e.state \in {"Starting", "Running"}
        /\ phys = "Ready"
        /\ Passes(e.act, FALSE, FALSE)
        /\ Accepts(p, a)

ReplayStart(i, p, a) ==
    /\ execs[i].provider \in {"None", "Executing"}
    /\ MutationAllowed(i, p, a)
    /\ held' = held \cup {i}
    /\ UNCHANGED <<leaseVars, phys, execs, source, denied, lost>>

-----------------------------------------------------------------------------
(* Process-local denial, and a crash of the process that holds it. *)

RevokeLocal(i) ==
    /\ i \in held
    /\ denied' = denied \cup {execs[i].act}
    /\ UNCHANGED <<leaseVars, phys, execs, source, held, lost>>

Crash ==
    /\ denied # {} \/ held # {}
    /\ denied' = {}
    /\ held' = {}
    /\ UNCHANGED <<leaseVars, phys, execs, source, lost>>

-----------------------------------------------------------------------------
(* The gates.  Each command of a writer Activation passes                  *)
(* assertActivationWriterAuthority or loses its authority.                 *)

\* Any Agent command, AppendRunActivity, RecordLateOutput, StartProviderAttempt,
\* performWorktreeMutation: no effect here unless the authority is lost.
WriterCommandRefused(act) == LoseAuthority(act, FALSE, FALSE)

\* performWorktreeMutation by a held receipt, refused after its own checks.
MutationRefused(i) ==
    /\ i \in held
    /\ execs[i].state \in {"Starting", "Running"}
    /\ phys = "Ready"
    /\ LoseAuthority(execs[i].act, FALSE, FALSE)

\* checkWorktreePublication by a held receipt.
PublicationRefused(i) ==
    i \in held /\ LoseAuthority(execs[i].act, TRUE, FALSE)

\* CompleteRun demands a confirmed stop, FailRun and WaitRun do not.
Decide(act, stopped) ==
    /\ SourceLive(act)
    /\ Passes(act, stopped, FALSE)
    /\ source' = [source EXCEPT !.phase = "Decided"]
    /\ UNCHANGED <<leaseVars, phys, execs, denied, held, lost>>

CompleteRefused(act) == LoseAuthority(act, TRUE, FALSE)

FinishActivation(act) ==
    /\ SourceLive(act) \/ SourceDecided(act)
    /\ Passes(act, TRUE, TRUE)
    /\ source' = [source EXCEPT !.phase = "Over", !.expires = 0]
    /\ UNCHANGED <<leaseVars, phys, execs, denied, held, lost>>

\* FinishActivation(Completed) and FinishProviderAttempt(Completed).
SuccessRefused(act) == LoseAuthority(act, TRUE, TRUE)

SettleAttempt(i, status) ==
    /\ execs[i].provider = "Executing"
    /\ execs' = [execs EXCEPT ![i] = [@ EXCEPT !.provider = status]]
    /\ UNCHANGED <<leaseVars, phys, source, denied, held, lost>>

CompleteAttempt(i) ==
    /\ Passes(execs[i].act, TRUE, TRUE)
    /\ SettleAttempt(i, "Completed")

\* FinishProviderAttempt(Unknown) and FailProviderAttempt are never gated.
LoseAttempt(i) == SettleAttempt(i, "Lost")

\* FinishProviderAttempt(Acknowledged) is gated, without a confirmed stop.
AcknowledgeRefused(i) ==
    execs[i].provider # "None" /\ LoseAuthority(execs[i].act, FALSE, TRUE)

-----------------------------------------------------------------------------
(* The source Run: a new Activation supersedes the one before; the current *)
(* one may end without a decision of its own, or its decision be undone.   *)

Activate(d) ==
    /\ source.gen < MaxActivations
    /\ source' = [gen |-> source.gen + 1, expires |-> clock + d,
                  phase |-> "Current"]
    /\ UNCHANGED <<leaseVars, phys, execs, denied, held, lost>>

EndSource ==
    /\ source.phase # "Over"
    /\ source' = [source EXCEPT !.phase = "Over", !.expires = 0]
    /\ UNCHANGED <<leaseVars, phys, execs, denied, held, lost>>

-----------------------------------------------------------------------------
ExecutionStep ==
    \/ Register
    \/ \E p \in Principals, a \in grants, provider \in AttemptStates :
          StartExecution(p, a, provider)
    \/ StartExecutionRefused
    \/ \E i \in DOMAIN execs, state \in ExecStates, preserve \in BOOLEAN :
          RecordExecution(i, state, preserve)
    \/ \E i \in DOMAIN execs :
          RecoverExecution(i) \/ RevokeExecutionAuthority(i) \/ RevokeLocal(i)
    \/ \E i \in DOMAIN execs, p \in Principals, a \in grants :
          ReplayStart(i, p, a)
    \/ Crash

GateStep ==
    \/ \E i \in DOMAIN execs :
          \/ MutationRefused(i) \/ PublicationRefused(i)
          \/ CompleteAttempt(i) \/ LoseAttempt(i) \/ AcknowledgeRefused(i)
    \/ \E act \in Activations :
          \/ WriterCommandRefused(act)
          \/ Decide(act, TRUE) \/ Decide(act, FALSE) \/ CompleteRefused(act)
          \/ FinishActivation(act) \/ SuccessRefused(act)

SourceStep == (\E d \in Durations : Activate(d)) \/ EndSource

Next ==
    \/ LeaseStep(Idle) /\ UNCHANGED physVars
    \/ ExecutionStep
    \/ GateStep
    \/ SourceStep

Spec == Init /\ [][Next]_vars
-----------------------------------------------------------------------------
(* Properties *)

\* Physical exclusion.  At most one execution is not known to have stopped,
\* and while it is not, the lease it was started under is the last one that was
\* granted: expiry, quarantine, a crash of the executor or a Runtime that asks
\* again never lets a second writer in (kernel README: "Expiry alone cannot
\* unblock it").
PhysicalExclusion ==
    \A i \in Unsettled :
        /\ Unsettled = {i}
        /\ lease.generation = execs[i].generation
        /\ lease.status \in {"Active", "Expired", "Quarantined"}

\* The directory is quarantined exactly while some execution is in doubt; the
\* stop of one execution never releases a directory another one is still in.
QuarantineMeansDoubt ==
    phys = "Quarantined" <=> \E i \in DOMAIN execs : execs[i].state = "Uncertain"

\* "New tokens, late close, clock rollback or acquisition by the old Activation
\* cannot undo lost authority" (docs/prototype/001-overview.md): an Activation
\* once told WriterAuthorityLost passes no gate again, not even after a restart
\* cleared the process-local denials.
AuthorityLossIsFinal ==
    \A act \in lost, stopped, decision \in BOOLEAN : ~Passes(act, stopped, decision)

\* Success is published only over a quiet directory: when an Activation that
\* started processes passes the gate of CompleteRun or of success settlement,
\* none of its executions was ever in doubt or killed, and nothing runs in the
\* Worktree, for this Activation or for any other.
CleanPublication ==
    \A act \in Activations, decision \in BOOLEAN :
        ExecsOf(act) # {} /\ Passes(act, TRUE, decision) =>
            /\ Idle
            /\ \A i \in ExecsOf(act) : ~execs[i].abnormal

\* A mutation is let through for one execution only, under the newest fencing
\* token, while every other execution in the directory has stopped.
ExclusiveMutation ==
    \A i \in DOMAIN execs, p \in Principals, a \in grants :
        MutationAllowed(i, p, a) =>
            /\ Unsettled = {i}
            /\ \A j \in DOMAIN execs : execs[j].fencing <= execs[i].fencing
            /\ \A b \in barriers : b.fencing < execs[i].fencing

\* The composition is a writer lease: whatever executions, gates, crashes and
\* the source Run do, they touch the lease only by steps the lease itself could
\* take, so everything proved of WriterLease holds of the composed system.
ImplementsLease == LeaseSpec
=============================================================================
