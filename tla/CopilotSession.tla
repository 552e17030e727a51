--------------------------- MODULE CopilotSession ---------------------------
(***************************************************************************)
(* One execution of the Copilot ACP adapter, packages/agent-runtime/src/   *)
(* copilot-acp-adapter.ts: the requests it sends a Provider process, what  *)
(* the process may send at any time, the queue that persists activity, the *)
(* abort signal, and the actions that are applied once the process stopped.*)
(*                                                                         *)
(* A frame is received whole and its contents are reduced to their effect. *)
(* Any frame that breaks the protocol or a limit is "bad".  In trusted     *)
(* policy the process is owned by ControlledExecution, of which only the   *)
(* outcome of finish and stop is kept.  A step runs to its next await.     *)
(***************************************************************************)
EXTENDS Integers, Sequences, FiniteSets, SequencesExt

CONSTANTS
    Policies,       \* "restricted", "default" and "allow" (trusted-local)
    Causes,         \* "attention", "run"
    Plans,          \* the action envelopes a Provider may write
    Tools,          \* the tool calls it may report
    Limit,          \* maxPendingPersistenceOperations
    MaxFrames       \* bound: frames received

ASSUME SessionAssumption ==
    /\ Policies \subseteq {"restricted", "default", "allow"}
    /\ Causes \subseteq {"attention", "run"}
    /\ Plans \subseteq Seq(STRING)
    /\ Limit \in Nat \ {0} /\ MaxFrames \in Nat

VARIABLES
    policy, sessionCause,  \* of this execution; an Attention is always restricted
    pc,             \* where execute() stands
    conn,           \* the NdjsonRpcConnection
    proc,           \* the Provider process: "running", "exited", "closed"
    stage,          \* where stopProcess() stands
    accept,         \* acceptUpdates
    asked,          \* restrictedPermissionRequested
    ended,          \* the prompt ended with end_turn
    output,         \* outputChunks
    queue,          \* the PersistenceQueue
    tools,          \* CopilotToolActivity
    aborted,        \* context.signal
    error,          \* primaryError, "none" if undefined
    plan,           \* the actions to apply
    begun, applied, \* how many were begun, and those the Kernel applied
    saved,          \* activity handed to the Kernel
    granted,        \* permission requests granted
    frames

sessionVars == <<policy, sessionCause, pc, conn, proc, stage, accept, asked, ended, output,
          queue, tools, aborted, error, plan, begun, applied, saved, granted, frames>>

Trusted == policy # "restricted"

\* Text that is no part of an action envelope.
Noise == <<>>

AttentionActions == {"create_run", "continue_run", "ignore_attention"}

TerminalActions == {"complete", "fail", "wait"}

RunActions == TerminalActions \cup
    {"append_activity", "publish_reply", "publish_report", "report_status"}

Awaiting == {"initialize", "new", "mode", "prompt", "correct"}

\* The request id pending in the connection stands in pc.
SessionInit ==
    /\ policy \in Policies /\ sessionCause \in Causes
    /\ sessionCause = "attention" => policy = "restricted"
    /\ pc = IF Trusted THEN "starting" ELSE "initialize"
    /\ conn = [failed |-> "none", allowExit |-> FALSE, shutting |-> FALSE,
               ended |-> FALSE, sealed |-> FALSE, closed |-> FALSE]
    /\ proc = "running" /\ stage = "none" /\ accept = TRUE
    /\ asked = FALSE /\ ended = FALSE /\ output = <<>>
    /\ queue = [pending |-> 0, failed |-> FALSE]
    /\ tools = [t \in Tools |-> "none"]
    /\ aborted = FALSE /\ error = "none"
    /\ plan = <<>> /\ begun = 0 /\ applied = <<>>
    /\ saved = 0 /\ granted = 0 /\ frames = 0

fixed == <<policy, sessionCause>>

\* NdjsonRpcConnection.fail: the first error is kept.
Failed(e) == IF conn.failed = "none" THEN [conn EXCEPT !.failed = e] ELSE conn

\* execute() throws: the catch and the start of the finally block.
Throw(e) == pc' = "cleanup" /\ error' = e /\ accept' = FALSE

\* stdout is read until the connection fails, is sealed or closed.
Receiving ==
    /\ frames < MaxFrames
    /\ conn.failed = "none" /\ ~conn.sealed /\ ~conn.closed /\ proc # "closed"

SessionKnown == pc \notin {"starting", "initialize", "new"}
-----------------------------------------------------------------------------
(* The requests of execute(), in order.                                     *)

\* An owned process has started, or was aborted while it did.
Started ==
    /\ pc = "starting"
    /\ IF aborted THEN Throw("aborted")
                  ELSE pc' = "initialize" /\ UNCHANGED <<error, accept>>
    /\ UNCHANGED <<fixed, conn, proc, stage, asked, ended, output, queue, tools, aborted,
                   plan, begun, applied, saved, granted, frames>>

\* parseActions: the whole output is one envelope.
IsEnvelope(out) == Len(out) = 1 /\ out[1] # Noise

\* Every action type is known, whatever the cause.
Understood(p) == Range(p) \subseteq AttentionActions \cup RunActions

\* After the last prompt the process may exit, and is asked to.
FinishSession == pc' = "finishing" /\ conn' = [conn EXCEPT !.allowExit = TRUE, !.shutting = TRUE]

\* A restricted prompt ended: the output is an envelope, or is corrected once,
\* unless the Provider had asked for a permission.
EndRestricted ==
    CASE IsEnvelope(output) /\ Understood(output[1]) ->
            FinishSession /\ UNCHANGED <<error, accept, output>>
      [] ~IsEnvelope(output) /\ ~asked ->
            pc' = "correct" /\ output' = <<>> /\ UNCHANGED <<error, accept, conn>>
      [] OTHER -> Throw("protocol") /\ UNCHANGED <<conn, output>>

AdvanceTo(next) ==
    pc' = next /\ UNCHANGED <<conn, error, accept, ended, output>>

Response ==
    /\ Receiving /\ pc \in Awaiting
    /\ frames' = frames + 1
    /\ CASE pc = "initialize" -> AdvanceTo("new")
         [] pc = "new" -> \E next \in IF Trusted THEN {"mode", "prompt"} ELSE {"prompt"} :
                             AdvanceTo(next)
         [] pc = "mode" -> AdvanceTo("prompt")
         [] pc = "prompt" /\ Trusted ->
               /\ ended' \in BOOLEAN
               /\ FinishSession
               /\ UNCHANGED <<error, accept, output>>
         [] pc = "prompt" /\ ~Trusted -> ended' = TRUE /\ EndRestricted
         [] pc = "correct" -> /\ FinishSession
                              /\ UNCHANGED <<error, accept, output, ended>>
    /\ UNCHANGED <<fixed, proc, stage, asked, queue, tools, aborted, plan, begun,
                   applied, saved, granted>>

\* An error response, a malformed result, or a turn that did not end as asked.
BadResponse ==
    /\ Receiving /\ pc \in Awaiting
    /\ frames' = frames + 1
    /\ Throw("protocol")
    /\ UNCHANGED <<fixed, conn, proc, stage, asked, ended, output, queue, tools,
                   aborted, plan, begun, applied, saved, granted>>

\* The pending request is rejected with what failed the connection.
Rejected ==
    /\ pc \in Awaiting /\ conn.failed # "none"
    /\ Throw(conn.failed)
    /\ UNCHANGED <<fixed, conn, proc, stage, asked, ended, output, queue, tools,
                   aborted, plan, begun, applied, saved, granted, frames>>
-----------------------------------------------------------------------------
(* Notifications and requests of the Provider.                              *)

\* PersistenceQueue.enqueue, k times: full, it fails the connection.
Enqueue(k) ==
    LET taken == IF queue.failed THEN 0
                 ELSE IF queue.pending + k <= Limit THEN k ELSE Limit - queue.pending
    IN  /\ queue' = [queue EXCEPT !.pending = @ + taken]
        /\ saved' = saved + taken
        /\ conn' = IF taken = k THEN conn
                   ELSE Failed(IF queue.failed THEN "persistence" ELSE "limit")

\* Updates that arrive when none is accepted are dropped.
Ignored == UNCHANGED <<conn, output, queue, tools, saved>>

MessageChunk(x) ==
    /\ Receiving
    /\ frames' = frames + 1
    /\ IF ~accept THEN Ignored
       ELSE IF Trusted /\ ~SessionKnown
       THEN conn' = Failed("protocol") /\ UNCHANGED <<output, queue, tools, saved>>
       ELSE /\ output' = Append(output, x)
            /\ Enqueue(IF Trusted \/ sessionCause # "run" THEN 0 ELSE 1)
            /\ UNCHANGED tools
    /\ UNCHANGED <<fixed, pc, proc, stage, accept, asked, ended, aborted, error, plan,
                   begun, applied, granted>>

\* CopilotToolActivity.accept: a known call that has not ended, or a new one.
ToolAccepted(t, call, status) ==
    \/ tools[t] = "none" /\ call
    \/ tools[t] = "in_progress"
    \/ tools[t] \in {"completed", "failed"} /\ status = tools[t]

ToolEvents(t, status) ==
    (IF tools[t] = "none" THEN 1 ELSE 0)
    + (IF tools[t] \in {"none", "in_progress"} /\ status # "in_progress" THEN 1 ELSE 0)

\* A tool call makes what was said before it no part of the answer.
ToolUpdate(t, call, status) ==
    /\ Receiving
    /\ frames' = frames + 1
    /\ IF ~accept THEN Ignored
       ELSE IF ~Trusted
       THEN conn' = Failed("policy") /\ UNCHANGED <<output, queue, tools, saved>>
       ELSE /\ output' = IF call /\ SessionKnown THEN <<>> ELSE output
            /\ IF SessionKnown /\ ToolAccepted(t, call, status)
               THEN /\ Enqueue(ToolEvents(t, status))
                    /\ tools' = [tools EXCEPT ![t] = status]
               ELSE conn' = Failed("protocol") /\ UNCHANGED <<queue, tools, saved>>
    /\ UNCHANGED <<fixed, pc, proc, stage, accept, asked, ended, aborted, error, plan,
                   begun, applied, granted>>

\* A grant needs allow-all, the session, an allow option and the publication
\* authority of the Worktree; a response needs a connection not shutting down.
RequestPermission(offered) ==
    /\ Receiving
    /\ frames' = frames + 1
    /\ asked' = (asked \/ ~Trusted)
    /\ granted' = IF /\ policy = "allow" /\ offered /\ SessionKnown
                     /\ accept /\ ~aborted /\ ~conn.shutting
                  THEN granted + 1 ELSE granted
    /\ UNCHANGED <<fixed, pc, conn, proc, stage, accept, ended, output, queue, tools,
                   aborted, error, plan, begun, applied, saved>>

\* Not JSON-RPC, an unknown id, a frame or stream over its limit, or a failed pipe.
BadFrame(e) ==
    /\ Receiving
    /\ frames' = frames + 1
    /\ conn' = Failed(e)
    /\ UNCHANGED <<fixed, pc, proc, stage, accept, asked, ended, output, queue, tools,
                   aborted, error, plan, begun, applied, saved, granted>>

\* An exit that was not asked for fails what is pending.
ProcessExits ==
    /\ proc = "running"
    /\ proc' = "exited"
    /\ conn' = IF conn.allowExit \/ conn.closed \/ conn.sealed THEN conn
               ELSE Failed("exited")
    /\ UNCHANGED <<fixed, pc, stage, accept, asked, ended, output, queue, tools, aborted,
                   error, plan, begun, applied, saved, granted, frames>>

StreamsClose ==
    /\ proc = "exited"
    /\ proc' = "closed"
    /\ UNCHANGED <<fixed, pc, conn, stage, accept, asked, ended, output, queue, tools,
                   aborted, error, plan, begun, applied, saved, granted, frames>>
-----------------------------------------------------------------------------
(* Persistence and the abort signal.                                        *)

\* An operation of the queue ends; the first failure stops the session.
Persisted(ok) ==
    /\ queue.pending > 0
    /\ queue' = [pending |-> queue.pending - 1, failed |-> queue.failed \/ ~ok]
    /\ IF ok THEN UNCHANGED <<conn, accept>>
             ELSE conn' = Failed("persistence") /\ accept' = FALSE
    /\ UNCHANGED <<fixed, pc, proc, stage, asked, ended, output, tools, aborted, error,
                   plan, begun, applied, saved, granted, frames>>

\* The abort listener is there from the start of the process to the cleanup.
Listening == pc \notin {"starting", "stopping", "returned"}

\* Mutant: the pending request is not rejected.
AbortQuietly ==
    /\ ~aborted /\ pc # "returned"
    /\ aborted' = TRUE
    /\ accept' = IF Listening THEN FALSE ELSE accept
    /\ UNCHANGED <<fixed, conn, pc, proc, stage, asked, ended, output, queue, tools, error,
                   plan, begun, applied, saved, granted, frames>>

AbortSession ==
    /\ ~aborted /\ pc # "returned"
    /\ aborted' = TRUE
    /\ IF Listening THEN accept' = FALSE /\ conn' = Failed("aborted")
                    ELSE UNCHANGED <<accept, conn>>
    /\ UNCHANGED <<fixed, pc, proc, stage, asked, ended, output, queue, tools, error,
                   plan, begun, applied, saved, granted, frames>>
-----------------------------------------------------------------------------
(* stopProcess, and the finish and stop of an owned process.                *)

unstopped == <<fixed, proc, asked, ended, output, queue, tools, aborted, plan, begun,
               applied, saved, granted, frames>>

\* finish or stop succeeded: on to the drain, or back to the caller.
SessionStopped ==
    /\ stage' = "none"
    /\ IF pc = "finishing"
       THEN pc' = "draining" /\ accept' = FALSE /\ UNCHANGED <<conn, error>>
       ELSE pc' = "returned" /\ conn' = [conn EXCEPT !.closed = TRUE]
            /\ UNCHANGED <<accept, error>>

NotStopped(e) ==
    /\ stage' = "none"
    /\ IF pc = "finishing" THEN Throw(e) /\ UNCHANGED conn
       ELSE /\ pc' = "returned" /\ conn' = [conn EXCEPT !.closed = TRUE]
            /\ error' = IF error = "none" THEN e ELSE error
            /\ UNCHANGED accept

Stopping == pc \in {"finishing", "stopping"} /\ ~Trusted

BeginStop ==
    /\ Stopping /\ stage = "none"
    /\ IF proc = "closed" THEN SessionStopped
       ELSE /\ stage' = IF conn.ended THEN "grace" ELSE "end"
            /\ conn' = [conn EXCEPT !.shutting = TRUE]
            /\ UNCHANGED <<pc, accept, error>>
    /\ UNCHANGED unstopped

\* endInput: stdin has finished or closed, or failed and the connection with it.
InputEnds ==
    /\ stage = "end"
    /\ stage' = "grace"
    /\ \E c \in {conn, Failed("io")} : conn' = [c EXCEPT !.ended = TRUE]
    /\ UNCHANGED <<unstopped, pc, accept, error>>

\* A Provider that runs reads what was written to it, or closes its end.  The
\* code waits for that without a timer.
InputRead == proc = "running" /\ InputEnds

\* What a Provider that is gone has not read cannot be written.
InputBroken == proc # "running" /\ InputEnds

Closed ==
    /\ stage \in {"grace", "term", "force"} /\ proc = "closed"
    /\ SessionStopped
    /\ UNCHANGED unstopped

\* A grace period ends: a running process is signalled, then killed; one that
\* exited and keeps its pipes open is a failed cleanup.
GraceEnds ==
    /\ stage \in {"grace", "term", "force"} /\ proc # "closed"
    /\ IF proc = "running" /\ stage # "force"
       THEN /\ stage' = IF stage = "grace" THEN "term" ELSE "force"
            /\ UNCHANGED <<pc, conn, accept, error>>
       ELSE NotStopped("cleanup")
    /\ UNCHANGED unstopped

\* worktree.finish, or worktree.stop after an error: ControlledExecution.
OwnedStops(ok) ==
    /\ Trusted
    /\ (pc = "finishing" \/ (pc = "stopping" /\ error # "none"))
    /\ IF ok THEN proc = "closed" /\ SessionStopped ELSE NotStopped("authority")
    /\ UNCHANGED unstopped

\* Without an error an owned process has finished already.
OwnedStopped ==
    /\ Trusted /\ pc = "stopping" /\ error = "none"
    /\ SessionStopped
    /\ UNCHANGED unstopped
-----------------------------------------------------------------------------
(* The actions.                                                             *)

ToolsComplete == \A t \in Tools : tools[t] # "in_progress"

\* validateActionPlan.
ValidPlan(p) ==
    IF sessionCause = "attention" THEN Len(p) = 1 /\ p[1] \in AttentionActions
    ELSE /\ Range(p) \cap AttentionActions = {}
         /\ {i \in DOMAIN p : p[i] \in TerminalActions} = {Len(p)}

\* Drained and sealed, the output must be the envelope of a valid plan.
Accepts ==
    /\ ~queue.failed /\ conn.failed = "none"
    /\ (Trusted => ToolsComplete) /\ ended
    /\ IsEnvelope(output)
    /\ Understood(output[1]) /\ ValidPlan(output[1])

SettleSession ==
    /\ pc = "draining" /\ queue.pending = 0
    /\ IF Accepts
       THEN /\ pc' = "applying" /\ plan' = output[1]
            /\ conn' = [conn EXCEPT !.sealed = TRUE]
            /\ UNCHANGED <<error, accept>>
       ELSE /\ Throw(IF queue.failed THEN "persistence"
                     ELSE IF conn.failed # "none" THEN conn.failed ELSE "protocol")
            /\ UNCHANGED <<conn, plan>>
    /\ UNCHANGED <<fixed, proc, stage, asked, ended, output, queue, tools, aborted, begun,
                   applied, saved, granted, frames>>

\* An incomplete last frame, or a report where none can be stored.
SettleRefused ==
    /\ pc = "draining" /\ queue.pending = 0 /\ Accepts
    /\ Throw("protocol")
    /\ UNCHANGED <<fixed, conn, proc, stage, asked, ended, output, queue, tools, aborted,
                   plan, begun, applied, saved, granted, frames>>

BeginAction ==
    /\ pc = "applying" /\ begun = Len(applied) /\ begun < Len(plan)
    /\ IF aborted THEN Throw("aborted") /\ UNCHANGED begun
                  ELSE begun' = begun + 1 /\ UNCHANGED <<pc, error, accept>>
    /\ UNCHANGED <<fixed, conn, proc, stage, asked, ended, output, queue, tools, aborted,
                   plan, applied, saved, granted, frames>>

\* Mutant: an action the Kernel refused is passed over.
EndActionAnyway(ok) ==
    /\ begun = Len(applied) + 1
    /\ applied' = Append(applied, IF ok THEN plan[begun] ELSE "refused")
    /\ UNCHANGED <<fixed, pc, error, accept, conn, proc, stage, asked, ended, output,
                   queue, tools, aborted, plan, begun, saved, granted, frames>>

\* The Kernel applies the action or refuses it.
EndAction(ok) ==
    /\ pc = "applying" /\ begun = Len(applied) + 1
    /\ IF ok THEN applied' = Append(applied, plan[begun]) /\ UNCHANGED <<pc, error, accept>>
             ELSE Throw("kernel") /\ UNCHANGED applied
    /\ UNCHANGED <<fixed, conn, proc, stage, asked, ended, output, queue, tools, aborted,
                   plan, begun, saved, granted, frames>>

AllApplied ==
    /\ pc = "applying" /\ Len(applied) = Len(plan)
    /\ pc' = "cleanup" /\ accept' = FALSE
    /\ UNCHANGED <<fixed, conn, proc, stage, asked, ended, output, queue, tools, aborted,
                   error, plan, begun, applied, saved, granted, frames>>

\* The finally block: the queue is drained before the process is stopped.
DrainLast ==
    /\ pc = "cleanup" /\ queue.pending = 0
    /\ pc' = "stopping"
    /\ error' = IF error = "none" /\ queue.failed THEN "persistence" ELSE error
    /\ UNCHANGED <<fixed, conn, proc, stage, accept, asked, ended, output, queue, tools,
                   aborted, plan, begun, applied, saved, granted, frames>>

Provider ==
    \/ Response \/ BadResponse
    \/ \E x \in Plans \cup {Noise} : MessageChunk(x)
    \/ \E t \in Tools, call \in BOOLEAN, s \in {"in_progress", "completed", "failed"} :
          ToolUpdate(t, call, s)
    \/ \E offered \in BOOLEAN : RequestPermission(offered)
    \/ \E e \in {"protocol", "io", "stderr"} : BadFrame(e)
    \/ ProcessExits \/ StreamsClose \/ InputRead

Adapter ==
    \/ Started \/ Rejected
    \/ BeginStop \/ InputBroken \/ Closed \/ GraceEnds \/ OwnedStopped
    \/ SettleSession \/ BeginAction \/ AllApplied \/ DrainLast

Kernel == \E ok \in BOOLEAN : Persisted(ok) \/ EndAction(ok)

SessionNext ==
    \/ Provider \/ Adapter \/ Kernel \/ AbortSession \/ SettleRefused
    \/ \E ok \in BOOLEAN : OwnedStops(ok)

SessionSpec == SessionInit /\ [][SessionNext]_sessionVars

\* Timers fire, promises continue, the Kernel answers, and the executor settles a
\* stop.  Nothing is assumed of the Provider, not even that it reads.
SessionFairSpec ==
    /\ SessionSpec
    /\ WF_sessionVars(Adapter) /\ WF_sessionVars(Kernel)
    /\ WF_sessionVars(\E ok \in BOOLEAN : OwnedStops(ok))
-----------------------------------------------------------------------------
Errors == {"none", "protocol", "limit", "policy", "persistence", "exited", "io",
           "stderr", "aborted", "cleanup", "authority", "kernel"}

\* The shape of the state; the queue of writes stays within its limit.
SessionTypeOK ==
    /\ pc \in Awaiting \cup {"starting", "finishing", "draining", "applying",
                             "cleanup", "stopping", "returned"}
    /\ conn \in [failed : Errors, allowExit : BOOLEAN, shutting : BOOLEAN,
                 ended : BOOLEAN, sealed : BOOLEAN, closed : BOOLEAN]
    /\ proc \in {"running", "exited", "closed"}
    /\ stage \in {"none", "end", "grace", "term", "force"}
    /\ queue \in [pending : 0..Limit, failed : BOOLEAN]
    /\ tools \in [Tools -> {"none", "in_progress", "completed", "failed"}]
    /\ error \in Errors
    /\ begun \in {Len(applied), Len(applied) + 1}

\* An action reaches the Kernel only after the process is gone with its pipes,
\* every update it sent is persisted, and every tool it started has ended.
ActionsAfterStop ==
    begun > 0 => /\ proc = "closed"
                 /\ queue = [pending |-> 0, failed |-> FALSE]
                 /\ \A t \in Tools : tools[t] # "in_progress"

\* execute() returns without an error only when the whole of one envelope, the
\* one the Provider last wrote, was applied and it ends the Activation's work.
SuccessIsWhole ==
    pc = "returned" /\ error = "none" =>
        /\ output = <<applied>>
        /\ Cardinality({i \in DOMAIN applied :
              applied[i] \in TerminalActions \cup AttentionActions}) = 1

\* When execute() has returned nothing is being written, and a process that is
\* not known to be gone is reported as an error.
ReturnedIsQuiet ==
    pc = "returned" => /\ queue.pending = 0
                       /\ proc # "closed" => error # "none"

\* Once aborted, no update is persisted, no permission is granted and no
\* further action begun, whatever the Provider still sends.
NothingAfterAbort ==
    [][aborted /\ Listening
         => saved' = saved /\ granted' = granted /\ begun' = begun]_sessionVars

\* endInput awaits a Provider that runs and has not read its input.
Unread == stage = "end" /\ proc = "running"

\* An abort ends the execution, though the Provider never answers, never exits
\* and keeps its output open, unless it runs for ever and never reads what was
\* written to it: endInput has no timer, and no signal is sent before.
AbortEnds == aborted ~> pc = "returned" \/ []Unread

\* A process told that its work is over does not keep the execution open, with
\* the same exception.
FinishEnds == pc = "finishing" ~> pc \in {"applying", "returned"} \/ []Unread

\* A session at any time: actions come last and whole, and what has returned is
\* quiet.
SessionSafety ==
    /\ SessionTypeOK
    /\ ActionsAfterStop
    /\ SuccessIsWhole
    /\ ReturnedIsQuiet

\* A session that was aborted does nothing more and ends, and so does one whose
\* work is done; only a Provider that runs and leaves its input unread holds it.
SessionEnds == NothingAfterAbort /\ AbortEnds /\ FinishEnds

=============================================================================
