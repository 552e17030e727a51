------------------------ MODULE ControlledExecution ------------------------
(***************************************************************************)
(* A controlled process in one managed Worktree: LocalWorktreeExecutor and *)
(* ControlledWorktreeProcess of packages/agent-runtime/src/                *)
(* worktree-executor.ts, the child they own and the durable execution they *)
(* report on, over restarts of the executor and a database that is busy.   *)
(*                                                                         *)
(* A step is what runs between two awaits.  The Kernel's side is the       *)
(* subset of PhysicalWorktree the executor meets: the directory is         *)
(* quarantined exactly while its latest execution is Uncertain.  Handles   *)
(* of earlier executions are not kept: all they can still do is release a  *)
(* lease whose generation is no longer theirs, which does nothing.         *)
(***************************************************************************)
EXTENDS Naturals

CONSTANTS
    MaxStarts,      \* bound: executions started
    MaxHosts,       \* bound: executor processes, one after another
    MaxBusy         \* bound: Kernel calls that fail on a busy database

ASSUME ExecutionAssumption ==
    MaxStarts \in Nat /\ MaxHosts \in Nat \ {0} /\ MaxBusy \in Nat

VARIABLES
    dir,        \* the Worktree's directory: "None", "Unregistered", "Registered"
    lease,      \* the writer lease of the Worktree; "Idle": released or none
    execs,      \* worktree_executions: state, revoked, owner
    trees,      \* the process tree of each execution, as it really is
    n,          \* executions started
    host,       \* the executor process: its number, recovered, closed
    launch,     \* how far #start has come
    signal,     \* why the caller's AbortSignal fired, if it did
    run,        \* whether the source Run has been cancelled
    handle,     \* the ControlledWorktreeProcess of the latest execution
    cause,      \* the flags of its NativeRunCancellationInterruption
    busy        \* Kernel calls failed so far

executionVars == <<dir, lease, execs, trees, n, host, launch, signal, run, handle, cause, busy>>

Ids == 1..MaxStarts

Stopped == {"StopConfirmed", "ForceTerminated"}

States == Stopped \cup {"Starting", "Running", "StopRequested", "Uncertain"}

\* closed: the close evidence, "Clean" for code 0, "Failed" for another code or
\* an error, "Signal" for a signal, "Lost" when the close was not observed;
\* found: what #physicalStop resolved to; final: what this settlement is to
\* record; watched: the abort listener and the deadline are armed.
Handles ==
    [live : BOOLEAN, child : BOOLEAN, attempted : BOOLEAN, exitSeen : BOOLEAN,
     closed : {"None", "Clean", "Failed", "Signal", "Lost"},
     stop : {"None", "Asked", "Forced", "Done"},
     found : {"None", "Uncertain"} \cup Stopped, forced : BOOLEAN,
     final : {"None", "Uncertain"} \cup Stopped,
     state : States, reason : BOOLEAN, revoked : BOOLEAN, settled : BOOLEAN,
     pc : {"Idle", "Waiting", "Revoking", "Reading", "Requesting",
           "Recording", "RevokingAgain", "Releasing"},
     retry : BOOLEAN, watched : BOOLEAN, recorded : BOOLEAN,
     authority : {"None", "Logging", "Done"}, exitFirst : BOOLEAN]

NoHandle ==
    [live |-> FALSE, child |-> FALSE, attempted |-> FALSE, exitSeen |-> FALSE,
     closed |-> "None", stop |-> "None", found |-> "None", forced |-> FALSE,
     final |-> "None", state |-> "Starting", reason |-> FALSE, revoked |-> FALSE,
     settled |-> FALSE, pc |-> "Idle", retry |-> FALSE, watched |-> FALSE,
     recorded |-> FALSE, authority |-> "None", exitFirst |-> FALSE]

ExecutionTypeOK ==
    /\ dir \in {"None", "Unregistered", "Registered"}
    /\ lease \in {"Idle", "Active", "Expired"}
    /\ execs \in [Ids -> [state : States, revoked : BOOLEAN, owner : Nat]]
    /\ trees \in [Ids -> {"None", "Alive", "Gone"}]
    /\ n \in 0..MaxStarts
    /\ host \in [id : 1..MaxHosts, recovered : BOOLEAN, closed : BOOLEAN]
    /\ launch \in {"Idle", "Provisioned", "Acquired", "Started", "Attached", "Up"}
    /\ signal \in {"None", "Cancelled", "Other"}
    /\ run \in BOOLEAN
    /\ handle \in Handles
    /\ cause \in [owned : BOOLEAN, preceded : BOOLEAN]
    /\ busy \in 0..MaxBusy

ExecutionInit ==
    /\ dir = "None"
    /\ lease = "Idle"
    /\ execs = [i \in Ids |-> [state |-> "Starting", revoked |-> FALSE, owner |-> 0]]
    /\ trees = [i \in Ids |-> "None"]
    /\ n = 0
    /\ host = [id |-> 1, recovered |-> FALSE, closed |-> FALSE]
    /\ launch = "Idle"
    /\ signal = "None"
    /\ run = FALSE
    /\ handle = NoHandle
    /\ cause = [owned |-> FALSE, preceded |-> FALSE]
    /\ busy = 0

-----------------------------------------------------------------------------
(* What the Kernel answers *)

\* assertPhysicalWorktreeIdle: no execution of the directory is unsettled.
DirectoryIdle == \A i \in 1..n : execs[i].state \in Stopped

\* checkWorktreeAuthority
Authorized ==
    /\ lease = "Active"
    /\ ~run
    /\ ~execs[n].revoked
    /\ ~handle.reason
    /\ execs[n].state \in {"Starting", "Running", "StopRequested", "StopConfirmed"}

AllowedFrom(state) ==
    CASE state = "Starting" ->
            {"Running", "StopRequested", "StopConfirmed", "Uncertain"}
      [] state = "Running" -> {"StopRequested", "StopConfirmed", "Uncertain"}
      [] state = "StopRequested" -> Stopped \cup {"Uncertain"}
      [] state = "Uncertain" -> Stopped
      [] state \in Stopped -> {}

RecordState(i, state) ==
    execs' = [execs EXCEPT ![i].state = state,
                  ![i].revoked = @ \/ state \in {"Uncertain", "ForceTerminated"}]

\* A Kernel call may find the database busy instead.
MayFail == busy < MaxBusy /\ busy' = busy + 1

-----------------------------------------------------------------------------
(* The handle *)

ObservedStopState(h) ==
    IF h.forced \/ h.closed = "Signal" THEN "ForceTerminated" ELSE "StopConfirmed"

Evidence(h) == h.closed \in {"Clean", "Failed", "Signal"}

Revoke(h) == [h EXCEPT !.reason = TRUE, !.watched = FALSE]

\* Mutant: a spawn that threw is taken for no spawn.
StopProcessTrusting(h) ==
    IF ~h.child
    THEN [h EXCEPT !.stop = "Done", !.found = "StopConfirmed"]
    ELSE IF Evidence(h)
         THEN [h EXCEPT !.stop = "Done", !.found = ObservedStopState(h)]
         ELSE [h EXCEPT !.stop = "Asked"]

\* #stopProcess up to its first await.
StopProcess(h) ==
    IF ~h.child
    THEN [h EXCEPT !.stop = "Done",
                   !.found = IF h.attempted THEN "Uncertain" ELSE "StopConfirmed"]
    ELSE IF Evidence(h)
         THEN [h EXCEPT !.stop = "Done", !.found = ObservedStopState(h)]
         ELSE [h EXCEPT !.stop = "Asked"]

\* Whether this drain is the cancellation's own: the signal fired for it and
\* nothing has been said about its cause before.
TellsCause(h, why) == why = "Cancelled" /\ ~h.recorded

Cause(h, why) ==
    IF ~TellsCause(h, why) THEN cause
    ELSE IF h.exitSeen THEN [cause EXCEPT !.preceded = TRUE]
    ELSE IF h.stop = "None" /\ h.authority = "None"
         THEN [cause EXCEPT !.owned = TRUE]
         ELSE cause

\* #drain: the physical stop begins at once and one settlement is under way.
Drain(h, why) ==
    LET told    == [h EXCEPT !.retry = FALSE, !.recorded = @ \/ TellsCause(h, why)]
        stopped == IF h.stop = "None"
                   THEN [StopProcess(told) EXCEPT !.exitFirst = h.exitSeen]
                   ELSE told
    IN  IF h.pc = "Idle" THEN [stopped EXCEPT !.pc = "Waiting"] ELSE stopped

Stop(h, why) == Drain(Revoke(h), why)

StopHandle ==
    /\ handle' = Stop(handle, signal)
    /\ cause' = Cause(handle, signal)

-----------------------------------------------------------------------------
(* The executor *)

\* #recover: what another process left unsettled or unrevoked is doubted.
Recover ==
    /\ ~host.recovered
    /\ host' = [host EXCEPT !.recovered = TRUE]
    /\ IF n > 0 /\ execs[n].owner # host.id
          /\ (~execs[n].revoked \/ execs[n].state \notin Stopped)
       THEN execs' = [execs EXCEPT ![n].revoked = TRUE,
                          ![n].state = IF @ \in Stopped THEN @ ELSE "Uncertain"]
       ELSE UNCHANGED execs
    /\ UNCHANGED <<dir, lease, trees, n, launch, signal, run, handle, cause, busy>>

\* createDetachedWorktree for a Run that has no Worktree: git may fail, or be
\* aborted, and leave the directory behind.
Provision ==
    /\ host.recovered /\ ~host.closed /\ ~run
    /\ launch = "Idle" /\ signal = "None" /\ dir = "None"
    /\ \/ dir' = "Unregistered" /\ launch' = "Provisioned"
       \/ dir' \in {"None", "Unregistered"} /\ UNCHANGED launch
    /\ UNCHANGED <<lease, execs, trees, n, host, signal, run, handle, cause, busy>>

\* register, right after: the executor may have been closed meanwhile.
Register ==
    /\ launch = "Provisioned"
    /\ launch' = "Idle"
    /\ \/ ~host.closed /\ dir' = "Registered" /\ UNCHANGED busy
       \/ MayFail /\ UNCHANGED dir
       \/ host.closed /\ UNCHANGED <<dir, busy>>
    /\ UNCHANGED <<lease, execs, trees, n, host, signal, run, handle, cause>>

Acquire ==
    /\ host.recovered
    /\ dir = "Registered"
    /\ ~host.closed
    /\ launch = "Idle"
    /\ signal = "None"
    /\ n < MaxStarts
    /\ lease # "Active"
    /\ DirectoryIdle
    /\ handle.pc = "Idle"
    /\ lease' = "Active"
    /\ launch' = "Acquired"
    /\ UNCHANGED <<dir, execs, trees, n, host, signal, run, handle, cause, busy>>

\* StartWorktreeExecution records the intent before anything is spawned.
StartExecution ==
    /\ launch = "Acquired"
    /\ signal = "None" /\ ~run /\ lease = "Active"
    /\ launch' = "Started"
    /\ n' = n + 1
    /\ execs' = [execs EXCEPT ![n + 1].owner = host.id]
    /\ handle' = [NoHandle EXCEPT !.live = TRUE]
    /\ cause' = [owned |-> FALSE, preceded |-> FALSE]
    /\ UNCHANGED <<dir, lease, trees, host, signal, run, busy>>

\* It is refused or fails: the unused lease is released.
StartRefused ==
    /\ launch = "Acquired"
    /\ \/ (signal # "None" \/ run \/ lease # "Active") /\ UNCHANGED busy
       \/ MayFail
    /\ launch' = "Idle"
    /\ lease' = IF lease = "Active" THEN "Idle" ELSE lease
    /\ UNCHANGED <<dir, execs, trees, n, host, signal, run, handle, cause>>

MayMutate == Authorized /\ signal = "None" /\ ~host.closed

Spawn ==
    /\ launch = "Started"
    /\ MayMutate
    /\ launch' = "Attached"
    /\ trees' = [trees EXCEPT ![n] = "Alive"]
    /\ handle' = [handle EXCEPT !.attempted = TRUE, !.child = TRUE]
    /\ UNCHANGED <<dir, lease, execs, n, host, signal, run, cause, busy>>

\* The start callback throws: a process may or may not be there.
SpawnThrows ==
    /\ launch = "Started"
    /\ MayMutate
    /\ launch' = "Up"
    /\ \E t \in {"Alive", "Gone"} : trees' = [trees EXCEPT ![n] = t]
    /\ handle' = Stop([handle EXCEPT !.attempted = TRUE], signal)
    /\ cause' = Cause(handle, signal)
    /\ UNCHANGED <<dir, lease, execs, n, host, signal, run, busy>>

SpawnRefused ==
    /\ launch = "Started"
    /\ \/ ~MayMutate /\ UNCHANGED busy
       \/ MayFail
    /\ launch' = "Up"
    /\ StopHandle
    /\ UNCHANGED <<dir, lease, execs, trees, n, host, signal, run>>

\* running(): Running is recorded, then the signal, the monitor and the deadline
\* are armed; a failure stops the child that was just spawned.
RecordRunning ==
    /\ launch = "Attached"
    /\ launch' = "Up"
    /\ \/ /\ "Running" \in AllowedFrom(execs[n].state)
          /\ handle.state = "Starting"
          /\ RecordState(n, "Running")
          /\ UNCHANGED busy
          /\ LET up == [handle EXCEPT !.state = "Running"]
             IN  IF signal # "None"
                 THEN handle' = Stop(up, signal) /\ cause' = Cause(up, signal)
                 ELSE /\ handle' = [up EXCEPT !.watched = TRUE]
                      /\ UNCHANGED cause
       \/ /\ \/ MayFail
             \/ /\ "Running" \notin AllowedFrom(execs[n].state) \/ handle.state # "Starting"
                /\ UNCHANGED busy
          /\ UNCHANGED execs
          /\ StopHandle
    /\ UNCHANGED <<dir, lease, trees, n, host, signal, run>>

-----------------------------------------------------------------------------
(* What may stop it *)

CancelRun ==
    /\ ~run
    /\ run' = TRUE
    /\ UNCHANGED <<dir, lease, execs, trees, n, host, launch, signal, handle, cause, busy>>

\* The runtime's own monitor aborts with the interruption once it sees the Run
\* cancelled, or for its budget or another failure; the abort listener of a
\* running handle stops it in the same turn.
Abort(why) ==
    /\ signal = "None"
    /\ launch # "Idle" \/ handle.live
    /\ why = "Cancelled" => run
    /\ signal' = why
    /\ IF handle.watched
       THEN handle' = Stop(handle, why) /\ cause' = Cause(handle, why)
       ELSE UNCHANGED <<handle, cause>>
    /\ UNCHANGED <<dir, lease, execs, trees, n, host, launch, run, busy>>

\* stopActivation, close and reconcile; the caller of an ended start does too.
StopCalled(closing) ==
    /\ handle.live
    /\ ~handle.reason \/ closing \/ handle.state = "Uncertain"
    /\ host' = [host EXCEPT !.closed = @ \/ closing]
    /\ closing => ~host.closed
    /\ StopHandle
    /\ UNCHANGED <<dir, lease, execs, trees, n, launch, signal, run, busy>>

\* finish(): the caller lets the child end by itself and keeps its authority.
Finish ==
    /\ launch = "Up"
    /\ ~handle.reason /\ handle.stop = "None"
    /\ lease = "Active"
    /\ handle' = Drain(handle, signal)
    /\ cause' = Cause(handle, signal)
    /\ UNCHANGED <<dir, lease, execs, trees, n, host, launch, signal, run, busy>>

LeaseExpires ==
    /\ lease = "Active"
    /\ lease' = "Expired"
    /\ UNCHANGED <<dir, execs, trees, n, host, launch, signal, run, handle, cause, busy>>

Deadline ==
    /\ handle.watched
    /\ lease = "Expired"
    /\ StopHandle
    /\ UNCHANGED <<dir, lease, execs, trees, n, host, launch, signal, run, busy>>

\* The 25 ms monitor, cleared once a stop begins, finds no authority, or cannot
\* tell.
MonitorFails ==
    /\ handle.watched /\ handle.stop = "None"
    /\ \/ ~Authorized /\ UNCHANGED busy
       \/ MayFail
    /\ handle' = [Stop(handle, signal) EXCEPT !.authority = "Logging"]
    /\ cause' = Cause(handle, signal)
    /\ UNCHANGED <<dir, lease, execs, trees, n, host, launch, signal, run>>

\* #stopAfterAuthorityLoss, after the loss was logged.
ClassifyLoss ==
    /\ handle.authority = "Logging"
    /\ IF run /\ lease = "Active" /\ ~handle.exitSeen /\ ~handle.recorded
       THEN /\ cause' = [cause EXCEPT !.owned = TRUE]
            /\ handle' = [handle EXCEPT !.authority = "Done", !.recorded = TRUE]
       ELSE /\ handle' = [handle EXCEPT !.authority = "Done"]
            /\ UNCHANGED cause
    /\ UNCHANGED <<dir, lease, execs, trees, n, host, launch, signal, run, busy>>

-----------------------------------------------------------------------------
(* The child *)

\* The provider inside the owned tree ends; the owner reports it at once.
ProviderExits ==
    /\ handle.child /\ trees[n] = "Alive" /\ ~handle.exitSeen
    /\ handle' = [handle EXCEPT !.exitSeen = TRUE]
    /\ UNCHANGED <<dir, lease, execs, trees, n, host, launch, signal, run, cause, busy>>

\* The whole tree has stopped and its close is observed.
TreeCloses(how) ==
    /\ handle.child /\ handle.closed = "None" /\ trees[n] = "Alive"
    /\ how \in {"Clean", "Failed", "Signal"}
    /\ trees' = [trees EXCEPT ![n] = "Gone"]
    /\ handle' = [handle EXCEPT !.closed = how, !.exitSeen = TRUE]
    /\ UNCHANGED <<dir, lease, execs, n, host, launch, signal, run, cause, busy>>

\* The owner is lost: its end proves nothing about the tree.
OwnerLost ==
    /\ handle.child /\ handle.closed = "None"
    /\ handle' = [handle EXCEPT !.closed = "Lost", !.exitSeen = TRUE]
    /\ UNCHANGED <<dir, lease, execs, trees, n, host, launch, signal, run, cause, busy>>

\* A tree nobody observes ends.
TreeEnds(i) ==
    /\ trees[i] = "Alive"
    /\ i # n \/ ~handle.child \/ handle.closed = "Lost"
    /\ trees' = [trees EXCEPT ![i] = "Gone"]
    /\ UNCHANGED <<dir, lease, execs, n, host, launch, signal, run, handle, cause, busy>>

\* The rest of #stopProcess: close evidence, or the end of a grace period; an
\* unobservable close ends the wait at once, without evidence.
StopWait ==
    /\ handle.stop \in {"Asked", "Forced"}
    /\ IF Evidence(handle)
       THEN handle' = [handle EXCEPT !.stop = "Done", !.found = ObservedStopState(handle)]
       ELSE IF handle.stop = "Asked"
       THEN \E killed \in BOOLEAN :
               handle' = [handle EXCEPT !.stop = "Forced", !.forced = killed]
       ELSE handle' = [handle EXCEPT !.stop = "Done", !.found = "Uncertain"]
    /\ UNCHANGED <<dir, lease, execs, trees, n, host, launch, signal, run, cause, busy>>

-----------------------------------------------------------------------------
(* #persistStop, one Kernel call at a time *)

\* What a settlement that begins now is to record.
Final(h) == IF Evidence(h) THEN ObservedStopState(h) ELSE h.found

Goes(from, to) == handle.pc = from /\ handle' = [handle EXCEPT !.pc = to]

Quiet == UNCHANGED <<dir, trees, n, host, launch, signal, run, cause, busy>>

\* The physical stop is known: anything but a normal end revokes.
Awaited ==
    /\ handle.pc = "Waiting" /\ handle.stop = "Done"
    /\ LET h == IF Final(handle) # "StopConfirmed" THEN Revoke(handle) ELSE handle
       IN  handle' = [h EXCEPT !.pc = "Revoking", !.final = Final(handle)]
    /\ UNCHANGED <<dir, lease, execs>> /\ Quiet

AfterRevocation(h) ==
    CASE h.pc = "Revoking" ->
            IF ~h.settled \/ h.state # h.final THEN "Reading" ELSE "RevokingAgain"
      [] h.pc = "RevokingAgain" ->
            IF h.reason /\ h.state \in Stopped THEN "Releasing" ELSE "Idle"

\* #persistRevocation, before and after the stop is recorded.
PersistRevocation ==
    /\ handle.pc \in {"Revoking", "RevokingAgain"}
    /\ IF handle.reason /\ ~handle.revoked
       THEN /\ execs' = [execs EXCEPT ![n].revoked = TRUE]
            /\ handle' = [handle EXCEPT !.revoked = TRUE, !.pc = AfterRevocation(handle)]
       ELSE /\ handle' = [handle EXCEPT !.pc = AfterRevocation(handle)]
            /\ UNCHANGED execs
    /\ UNCHANGED lease /\ Quiet

\* GetPhysicalWorktree: the durable state decides what is left to record.
ReadLatest ==
    /\ handle.pc = "Reading"
    /\ LET state == execs[n].state
           h == [handle EXCEPT !.state = state]
       IN  handle' =
             IF state \in Stopped \/ state = h.final
             THEN [h EXCEPT !.settled = TRUE, !.pc = "RevokingAgain"]
             ELSE IF h.child /\ state \notin {"StopRequested", "Uncertain"}
                  THEN [h EXCEPT !.pc = "Requesting"]
                  ELSE [h EXCEPT !.pc = "Recording"]
    /\ UNCHANGED <<dir, lease, execs>> /\ Quiet

RecordRequested ==
    /\ handle.pc = "Requesting"
    /\ RecordState(n, "StopRequested")
    /\ handle' = [handle EXCEPT !.state = "StopRequested", !.pc = "Recording"]
    /\ UNCHANGED lease /\ Quiet

RecordStop ==
    /\ handle.pc = "Recording"
    /\ handle.final \in AllowedFrom(execs[n].state)
    /\ RecordState(n, handle.final)
    /\ handle' = [handle EXCEPT !.state = handle.final, !.settled = TRUE,
                                !.pc = "RevokingAgain"]
    /\ UNCHANGED lease /\ Quiet

\* #release: an expired lease needs none, and one already acquired for the next
\* execution is of another generation.
Release ==
    /\ Goes("Releasing", "Idle")
    /\ lease' = IF lease = "Active" /\ launch # "Acquired" THEN "Idle" ELSE lease
    /\ UNCHANGED execs /\ Quiet

\* Mutant: a failed settlement is left for whoever stops the handle next.
SettlementFailsForGood ==
    /\ handle.pc \in {"Revoking", "Reading", "Requesting", "Recording",
                      "RevokingAgain", "Releasing"}
    /\ MayFail
    /\ handle' = [Revoke(handle) EXCEPT !.pc = "Idle"]
    /\ UNCHANGED <<dir, lease, execs, trees, n, host, launch, signal, run, cause>>

\* Any of these calls fails: authority is revoked and a retry armed.
SettlementFails ==
    /\ handle.pc \in {"Revoking", "Reading", "Requesting", "Recording",
                      "RevokingAgain", "Releasing"}
    /\ \/ MayFail
       \/ /\ handle.pc = "Recording"
          /\ handle.final \notin AllowedFrom(execs[n].state)
          /\ UNCHANGED busy
    /\ handle' = [Revoke(handle) EXCEPT !.pc = "Idle", !.retry = TRUE]
    /\ UNCHANGED <<dir, lease, execs, trees, n, host, launch, signal, run, cause>>

Retry ==
    /\ handle.retry
    /\ handle' = Drain(handle, signal)
    /\ cause' = Cause(handle, signal)
    /\ UNCHANGED <<dir, lease, execs, trees, n, host, launch, signal, run, busy>>

Settle ==
    \/ Awaited \/ PersistRevocation \/ ReadLatest \/ RecordRequested
    \/ RecordStop \/ Release

-----------------------------------------------------------------------------
\* The caller is done with a settled execution and may ask for another.
Forget ==
    /\ launch = "Up" /\ handle.settled /\ handle.pc = "Idle" /\ ~handle.retry
    /\ handle.reason
    /\ handle.authority # "Logging"
    /\ launch' = "Idle" /\ signal' = "None"
    /\ UNCHANGED <<dir, lease, execs, trees, n, host, run, handle, cause, busy>>

\* The executor's process ends; a new one follows, without the child handles.
Crash ==
    /\ host.id < MaxHosts
    /\ host' = [id |-> host.id + 1, recovered |-> FALSE, closed |-> FALSE]
    /\ launch' = "Idle" /\ signal' = "None"
    /\ handle' = NoHandle
    /\ cause' = [owned |-> FALSE, preceded |-> FALSE]
    /\ UNCHANGED <<dir, lease, execs, trees, n, run, busy>>

ExecutionNext ==
    \/ Recover \/ Provision \/ Register \/ Acquire \/ StartExecution \/ StartRefused
    \/ Spawn \/ SpawnThrows \/ SpawnRefused \/ RecordRunning
    \/ CancelRun \/ (\E why \in {"Cancelled", "Other"} : Abort(why))
    \/ (\E closing \in BOOLEAN : StopCalled(closing)) \/ Finish
    \/ LeaseExpires \/ Deadline \/ MonitorFails \/ ClassifyLoss
    \/ ProviderExits \/ (\E how \in {"Clean", "Failed", "Signal"} : TreeCloses(how))
    \/ OwnerLost \/ (\E i \in Ids : TreeEnds(i))
    \/ StopWait \/ Settle \/ SettlementFails \/ Retry \/ Forget \/ Crash

\* The event loop runs what is due, time passes, and a busy database or a crash
\* is bounded; no child, caller, signal or cancellation is assumed to move.
ExecutionFairness ==
    /\ WF_executionVars(Recover)
    /\ WF_executionVars(StartExecution \/ StartRefused)
    /\ WF_executionVars(Spawn \/ SpawnThrows \/ SpawnRefused)
    /\ WF_executionVars(RecordRunning)
    /\ WF_executionVars(LeaseExpires) /\ WF_executionVars(Deadline)
    /\ WF_executionVars(StopWait) /\ WF_executionVars(Settle) /\ WF_executionVars(Retry)

ExecutionSpec == ExecutionInit /\ [][ExecutionNext]_executionVars /\ ExecutionFairness
-----------------------------------------------------------------------------
(* Properties *)

\* "PID is not authority": what the ledger calls stopped has stopped, and while
\* a process tree lives no other is spawned in its directory, whatever crashes,
\* lost evidence, grace periods and busy databases came between.
StopIsPhysical ==
    /\ \A i \in 1..n : execs[i].state \in Stopped => trees[i] # "Alive"
    /\ \A i, j \in Ids : trees[i] = "Alive" /\ trees[j] = "Alive" => i = j

\* The two answers to "why did the provider end" exclude each other, whoever
\* gives one: a stop is owned by the cancellation only when the Run is cancelled
\* and the provider had not already been seen to end when the stop began.  (The
\* record methods of NativeRunCancellationInterruption throw otherwise, and
\* would break the stop they are called from.)
OwnedStopIsOurs ==
    /\ ~(cause.owned /\ cause.preceded)
    /\ cause.owned /\ launch # "Idle" => run /\ ~handle.exitFirst

\* Once a stop has settled nothing is left to withdraw: authority revoked at any
\* moment of the settlement is durably revoked, and a stopped execution does not
\* hold its lease (worktree-executor.ts:803, "Cancellation may have arrived while
\* a normal drain awaited persistence").
SettledIsWithdrawn ==
    handle.pc = "Idle" /\ handle.settled /\ handle.reason /\ ~handle.retry =>
        /\ execs[n].revoked
        /\ execs[n].state \in Stopped /\ launch # "Acquired" => lease # "Active"

\* An execution another process left behind can never publish: after recovery
\* each execution of an earlier process is revoked, one whose stop had been
\* confirmed too.
RestartRevokes ==
    host.recovered /\ n > 0 /\ execs[n].owner # host.id =>
        execs[n].revoked /\ execs[n].state \in Stopped \cup {"Uncertain"}

\* Every execution is finally settled: stopped, or in quarantine.
Durable(i) == execs[i].state \in Stopped \cup {"Uncertain"}

EveryExecutionSettles == \A i \in Ids : n = i ~> Durable(i)

\* The state a stop reports to its caller is the one the ledger holds, over
\* failed calls, late evidence and a second settlement.
SettledIsRecorded ==
    handle.settled => execs[n].state = handle.state

\* A directory left unregistered by a crash, an abort or a failed registration
\* is nobody's: no later start adopts what may be half made ("Unregistered
\* Worktree directory exists; explicit reconciliation is required.").
LeftoversStay ==
    [][dir = "Unregistered" /\ launch = "Idle" => dir' = dir /\ launch' = launch]_executionVars

\* A controlled process at any time: what is recorded of it agrees with what
\* happened, and whoever lost authority has nothing left to use.
ExecutionSafety ==
    /\ ExecutionTypeOK
    /\ StopIsPhysical
    /\ OwnedStopIsOurs
    /\ SettledIsWithdrawn
    /\ RestartRevokes
    /\ SettledIsRecorded

=============================================================================
