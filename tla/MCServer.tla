------------------------------ MODULE MCServer ------------------------------
(***************************************************************************)
(* Model-checking instance of the local runtime host: its lifecycle        *)
(* (HostLifecycle), its operational log (OperationalLog) and the stream of *)
(* public events to a browser (EventStream).  A behaviour moves one of     *)
(* them and leaves the others in their initial states.                     *)
(***************************************************************************)
EXTENDS HostLifecycle, OperationalLog, EventStream

VARIABLE subject    \* what this behaviour is about

vars == <<hostVars, logVars, streamVars, subject>>

Init ==
    /\ HostInit
    /\ LogInit
    /\ StreamInit
    /\ subject \in {"host", "log", "stream"}

NotHost   == UNCHANGED <<logVars, streamVars, subject>>
NotLog    == UNCHANGED <<hostVars, streamVars, subject>>
NotStream == UNCHANGED <<hostVars, logVars, subject>>

Next ==
    \/ subject = "host" /\ HostNext /\ NotHost
    \/ subject = "log" /\ LogNext /\ NotLog
    \/ subject = "stream" /\ StreamNext /\ NotStream

\* HostFairness, LogFairness and StreamFairness, for what moves
Spec ==
    /\ Init
    /\ [][Next]_vars
    /\ WF_vars(subject = "host" /\ Lifecycle /\ NotHost)
    /\ WF_vars(subject = "host" /\ PassEnds /\ NotHost)
    /\ WF_vars(subject = "host" /\ PassBegins /\ NotHost)
    /\ WF_vars(subject = "host" /\ RequestEnds /\ NotHost)
    /\ WF_vars(subject = "host" /\ ServiceClosed /\ NotHost)
    /\ WF_vars(subject = "host" /\ ServiceCloseKnown /\ NotHost)
    /\ WF_vars(subject = "host" /\ ExecutorClosed /\ NotHost)
    /\ WF_vars(subject = "host" /\ CleanupEnds /\ NotHost)
    /\ WF_vars(subject = "log" /\ Sink /\ NotLog)
    /\ WF_vars(subject = "log" /\ Settling /\ NotLog)
    /\ WF_vars(subject = "stream" /\ Bootstrap /\ NotStream)
    /\ WF_vars(subject = "stream" /\ Connect /\ NotStream)
    /\ WF_vars(subject = "stream" /\ Receive /\ NotStream)
    /\ WF_vars(subject = "stream" /\ ReadsEnd /\ NotStream)
    /\ \A s \in 1..MaxStreams :
          /\ WF_vars(subject = "stream" /\ HandlerOf(s) /\ NotStream)
          /\ WF_vars(subject = "stream" /\ AbortOf(s) /\ NotStream)

\* What the host and its log hold is sound.
HostIsSafe ==
    /\ HostSafety
    /\ LogSafety

\* The host and the streams take no step they may not take.
StepsAreSound ==
    /\ NothingBeginsStopped
    /\ StreamStepsAreSound

\* Whoever waits for the host, or for an event to be logged, is answered.
EveryoneIsAnswered ==
    /\ HostAnswers
    /\ AcceptedIsSettled

\* A stream brings its reader up to date, and does not outlive its use.
StreamsComeToAnEnd ==
    /\ CatchesUp
    /\ StreamsEnd
=============================================================================
