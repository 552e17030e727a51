---------------------------- MODULE MCProcesses ----------------------------
(***************************************************************************)
(* Model-checking instance of what a Runtime does with processes: the      *)
(* executor's controlled process in a Worktree, and one session of the     *)
(* Copilot adapter.  A behaviour moves one of them and leaves the other in *)
(* an initial state.  The executor is looked at twice: with two executions *)
(* one after the other, for what is recorded of them, and with one whose   *)
(* Kernel calls fail, of which an end is expected.                         *)
(***************************************************************************)
EXTENDS ControlledExecution, CopilotSession, TLC

CONSTANT t1

VARIABLE subject    \* what this behaviour is about

vars == <<executionVars, sessionVars, subject>>

Init ==
    /\ ExecutionInit
    /\ SessionInit
    /\ subject \in {"one start", "two starts", "session"}
    /\ subject # "session" => policy = "restricted" /\ sessionCause = "run"

Next ==
    \/ /\ subject = "one start"
       /\ ExecutionNext
       /\ n' <= 1
       /\ UNCHANGED <<sessionVars, subject>>
    \/ /\ subject = "two starts"
       /\ ExecutionNext
       /\ busy' = 0 /\ signal' # "Other" /\ ~host'.closed
       /\ UNCHANGED <<sessionVars, subject>>
    \/ /\ subject = "session"
       /\ SessionNext
       /\ frames' = 5 => policy = "allow"
       /\ UNCHANGED <<executionVars, subject>>

\* ExecutionFairness and that of SessionFairSpec, for what moves
Spec ==
    /\ Init
    /\ [][Next]_vars
    /\ WF_vars(subject = "one start" /\ Recover
               /\ n' <= 1 /\ UNCHANGED <<sessionVars, subject>>)
    /\ WF_vars(subject = "one start" /\ (StartExecution \/ StartRefused)
               /\ n' <= 1 /\ UNCHANGED <<sessionVars, subject>>)
    /\ WF_vars(subject = "one start" /\ (Spawn \/ SpawnThrows \/ SpawnRefused)
               /\ n' <= 1 /\ UNCHANGED <<sessionVars, subject>>)
    /\ WF_vars(subject = "one start" /\ RecordRunning
               /\ n' <= 1 /\ UNCHANGED <<sessionVars, subject>>)
    /\ WF_vars(subject = "one start" /\ LeaseExpires
               /\ n' <= 1 /\ UNCHANGED <<sessionVars, subject>>)
    /\ WF_vars(subject = "one start" /\ Deadline
               /\ n' <= 1 /\ UNCHANGED <<sessionVars, subject>>)
    /\ WF_vars(subject = "one start" /\ StopWait
               /\ n' <= 1 /\ UNCHANGED <<sessionVars, subject>>)
    /\ WF_vars(subject = "one start" /\ Settle
               /\ n' <= 1 /\ UNCHANGED <<sessionVars, subject>>)
    /\ WF_vars(subject = "one start" /\ Retry
               /\ n' <= 1 /\ UNCHANGED <<sessionVars, subject>>)
    /\ WF_vars(subject = "session" /\ Adapter
               /\ UNCHANGED <<executionVars, subject>>)
    /\ WF_vars(subject = "session" /\ Kernel
               /\ UNCHANGED <<executionVars, subject>>)
    /\ WF_vars(subject = "session" /\ (\E ok \in BOOLEAN : OwnedStops(ok))
               /\ UNCHANGED <<executionVars, subject>>)

\* EveryExecutionSettles, of the execution an end is expected of
ExecutionSettles == subject = "one start" /\ n = 1 ~> Durable(1)

\* Good plans for either cause, and plans each check refuses
SomePlans == {<<"create_run">>, <<"publish_report", "complete">>,
              <<"complete", "publish_reply">>}
=============================================================================
