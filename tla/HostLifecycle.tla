----------------------------- MODULE HostLifecycle -----------------------------
(***************************************************************************)
(* The life of the local runtime host: #runLifecycle, close and the        *)
(* cleanup of apps/server/src/local-runtime-host.ts with the HTTP service  *)
(* it owns (listen, close, #shutdown, #fail of server.ts).  Whatever the   *)
(* user closes and whatever fails, promises must settle, resources must be *)
(* closed in order and no failure may pass for success.                    *)
(*                                                                         *)
(* A step is the code between two awaits.  The Runtime, the Worktree       *)
(* executor, the Kernel and the log appear by what the host sees of them:  *)
(* a pass runs and ends, recovery and close succeed or fail, an event is   *)
(* logged or not.                                                          *)
(***************************************************************************)
EXTENDS Integers, FiniteSets

CONSTANTS
    HasExecutor,    \* a worktreeExecutorFactory was given
    Faults,         \* what may fail: subset of FaultKinds
    MaxHostFaults,      \* bound: failures
    MaxCloses,      \* bound: calls of close
    MaxRequests,    \* bound: HTTP requests
    MaxPasses       \* bound: Runtime passes

\* "request" is the log failing for a request, "log" for the host itself.
FaultKinds == {"log", "recover", "listen", "pass", "request", "service", "executor"}

ASSUME HostLifecycleAssumption ==
    /\ HasExecutor \in BOOLEAN
    /\ Faults \subseteq FaultKinds
    /\ {MaxHostFaults, MaxCloses, MaxRequests, MaxPasses} \subseteq Nat

VARIABLES
    host,       \* fields of Host
    pc,         \* where #runLifecycle is
    service,    \* fields of the HTTP service
    executor,   \* what close of the Worktree executor has come to
    pass,       \* what #runRuntimeLoop does
    kernel,     \* "open" or "closed"
    seen,       \* history: what failed while the host had not finished
    hostUsed        \* what was used of each bound

hostVars == <<host, pc, service, executor, pass, kernel, seen, hostUsed>>

\* cleanup, before: #cleanupPromise and #closeBeforeStartPromise.
HostInit ==
    /\ host = [state |-> "created", started |-> "pending", finished |-> "pending",
               stop |-> FALSE, failure |-> FALSE, listening |-> FALSE,
               serviceClose |-> "none", cleanup |-> "none", cleanupFailed |-> FALSE,
               cleanupRetried |-> FALSE, before |-> "none"]
    /\ pc = "idle"
    /\ service = [state |-> "created", closing |-> "none", failed |-> FALSE, handlers |-> 0]
    /\ executor = IF HasExecutor THEN "none" ELSE "ok"
    /\ pass = "none"
    /\ kernel = "open"
    /\ seen = {}
    /\ hostUsed = [faults |-> 0, closes |-> 0, requests |-> 0, passes |-> 0]

Uses(what, bound) == hostUsed[what] < bound /\ hostUsed' = [hostUsed EXCEPT ![what] = @ + 1]

\* Something of this kind fails.
Fault(kind) ==
    /\ kind \in Faults /\ Uses("faults", MaxHostFaults)
    /\ seen' = IF host.finished = "pending" THEN seen \cup {kind} ELSE seen

Fine == UNCHANGED <<seen, hostUsed>>

-----------------------------------------------------------------------------
(* Promises *)

\* deferred: the first settlement counts.
Settled(h, field, how) ==
    [h EXCEPT ![field] = IF @ = "pending" THEN how ELSE @]

\* #requestStop
Stopped(h) == [h EXCEPT !.stop = TRUE]

\* close of the service, which begins its shutdown once and for all.
ServiceCloses(s) ==
    IF s.closing # "none" THEN s ELSE [s EXCEPT !.state = "closing", !.closing = "pending"]

\* #beginServiceClose
ServiceCloseBegun(h) ==
    [h EXCEPT !.serviceClose = IF @ = "none" THEN "pending" ELSE @]

\* #closeResources and the first steps of #tryCloseResources.
CloseResources(h) ==
    IF h.cleanup # "none"
    THEN host' = h /\ UNCHANGED <<service, executor>>
    ELSE /\ host' = ServiceCloseBegun([h EXCEPT !.cleanup = "pending", !.state = "closing"])
         /\ service' = ServiceCloses(service)
         /\ executor' = IF executor \in {"none", "failed"} THEN "pending" ELSE executor

-----------------------------------------------------------------------------
(* The lifecycle *)

AfterStart == IF HasExecutor THEN "log recovery" ELSE "recovered"

Start ==
    /\ host.state = "created"
    /\ host' = [host EXCEPT !.state = "starting"]
    /\ pc' = AfterStart
    /\ UNCHANGED <<service, executor, pass, kernel>> /\ Fine

\* catch: the first failure counts, and one before listening is logged.
Throws ==
    /\ host' = [Settled(host, "started", "rejected") EXCEPT !.failure = TRUE]
    /\ pc' = IF host.listening THEN "finally" ELSE "log no start"
    /\ UNCHANGED <<service, executor, pass, kernel>>

LogsRecovery ==
    /\ pc = "log recovery"
    /\ \/ pc' = "recovering" /\ UNCHANGED <<host, service, executor, pass, kernel>> /\ Fine
       \/ Fault("log") /\ Throws

Recovers ==
    /\ pc = "recovering"
    /\ \/ pc' = "log recovered" /\ UNCHANGED <<host, service, executor, pass, kernel>> /\ Fine
       \/ Fault("recover") /\ Throws

LogsRecovered ==
    /\ pc = "log recovered"
    /\ \/ pc' = "recovered" /\ UNCHANGED <<host, service, executor, pass, kernel>> /\ Fine
       \/ Fault("log") /\ Throws

\* listen of the service, unless a close came during recovery.
Listens ==
    /\ pc = "recovered"
    /\ IF host.stop
       THEN /\ host' = Settled(host, "started", "rejected")
            /\ pc' = "finally" /\ UNCHANGED <<service, executor, pass, kernel>>
       ELSE /\ pc' = "listen" /\ service' = [service EXCEPT !.state = "starting"]
            /\ UNCHANGED <<host, executor, pass, kernel>>
    /\ Fine

\* #bind; a port that cannot be bound makes the service close itself.
Binds ==
    /\ pc = "listen"
    /\ \/ /\ service' = [service EXCEPT !.state = IF @ = "starting" THEN "listening" ELSE @]
          /\ pc' = "log start"
          /\ host' = [host EXCEPT !.listening = TRUE, !.state = "running"]
          /\ UNCHANGED <<executor, pass, kernel>> /\ Fine
       \/ /\ Fault("listen")
          /\ service' = ServiceCloses(service)
          /\ host' = [Settled(host, "started", "rejected") EXCEPT !.failure = TRUE]
          /\ pc' = "log no start"
          /\ UNCHANGED <<executor, pass, kernel>>

\* The loop asks for the signal before each pass.
IfNotStopped(p) == IF host.stop THEN "ended" ELSE p

\* The loop's first pass begins in the same step.
LogsStart ==
    /\ pc = "log start"
    /\ \/ /\ host' = Settled(host, "started", "resolved")
          /\ pc' = "race"
          /\ pass' = IfNotStopped("running")
          /\ UNCHANGED <<service, executor, kernel>> /\ Fine
       \/ Fault("log") /\ Throws

LogsNoStart ==
    /\ pc = "log no start"
    /\ \/ pc' = "finally" /\ Fine
       \/ pc' = "finally thrown" /\ Fault("log")
    /\ UNCHANGED <<host, service, executor, pass, kernel>>

\* Promise.race: the loop, or the failure of the service.
RaceEnds ==
    /\ pc = "race"
    /\ \/ pass = "ended" /\ host' = host
       \/ /\ pass = "failed" \/ service.failed
          /\ host' = [host EXCEPT !.failure = TRUE]
    /\ pc' = "finally"
    /\ UNCHANGED <<service, executor, pass, kernel>> /\ Fine

\* "thrown" remembers an exception that is raised again after the finally.
Finally ==
    /\ pc \in {"finally", "finally thrown"}
    /\ CloseResources([Stopped(host) EXCEPT !.state = "closing"])
    /\ pc' = IF pc = "finally" THEN "cleanup" ELSE "cleanup thrown"
    /\ UNCHANGED <<pass, kernel>> /\ Fine

\* How #runLifecycle ends; thrown: without reaching what follows the finally.
LifecycleEnds(h, thrown) ==
    IF thrown THEN pc' = "rejected" /\ host' = h
    ELSE IF h.failure THEN pc' = "rejected" /\ host' = Settled(h, "finished", "rejected")
    ELSE pc' = "resolved" /\ host' = Settled(h, "finished", "resolved")

LogsStop ==
    /\ pc \in {"log stop", "log stop thrown"}
    /\ \/ LifecycleEnds(host, pc = "log stop thrown") /\ Fine
       \/ /\ Fault("log")
          /\ host' = [host EXCEPT !.failure = TRUE]
          /\ pc' = IF pc = "log stop" THEN "log failed stop" ELSE "log failed stop thrown"
    /\ UNCHANGED <<service, executor, pass, kernel>>

LogsFailedStop ==
    /\ pc \in {"log failed stop", "log failed stop thrown"}
    /\ LifecycleEnds([host EXCEPT !.failure = TRUE], pc = "log failed stop thrown")
    /\ Fine \/ Fault("log")
    /\ UNCHANGED <<service, executor, pass, kernel>>

-----------------------------------------------------------------------------
(* The Runtime loop *)

\* A pass fails by itself, or because the Kernel was closed under it.
PassEnds ==
    /\ pass = "running"
    /\ \/ pass' = IfNotStopped("waiting") /\ kernel = "open" /\ Fine
       \/ pass' = "failed" /\ kernel = "closed" /\ Fine
       \/ pass' = "failed" /\ Fault("pass")
    /\ UNCHANGED <<host, pc, service, executor, kernel>>

\* After the delay, or the abort of the delay.
PassBegins ==
    /\ pass = "waiting"
    /\ pass' = IfNotStopped("running")
    /\ IF host.stop THEN UNCHANGED hostUsed ELSE Uses("passes", MaxPasses)
    /\ UNCHANGED <<host, pc, service, executor, kernel, seen>>

-----------------------------------------------------------------------------
(* The HTTP service *)

Request ==
    /\ service.state = "listening" /\ Uses("requests", MaxRequests)
    /\ service' = [service EXCEPT !.handlers = @ + 1]
    /\ UNCHANGED <<host, pc, executor, pass, kernel, seen>>

\* #handle: all errors are answered, except that of the log: #fail.
RequestEnds ==
    /\ service.handlers > 0
    /\ \/ service' = [service EXCEPT !.handlers = @ - 1] /\ Fine
       \/ /\ Fault("request")
          /\ service' = ServiceCloses([service EXCEPT !.handlers = @ - 1, !.failed = TRUE])
    /\ UNCHANGED <<host, pc, executor, pass, kernel>>

\* #shutdown, after listen settled; handlers are not awaited.  A failure is
\* remembered by the service for good, not by the host.
ServiceClosed ==
    /\ service.closing = "pending" /\ pc # "listen"
    /\ \/ /\ service' = [service EXCEPT !.closing = "ok", !.state = "closed"]
          /\ host' = [host EXCEPT !.serviceClose = IF @ = "pending" THEN "ok" ELSE @]
          /\ Fine
       \/ /\ Fault("service")
          /\ service' = [service EXCEPT !.closing = "failed"]
          /\ host' = [host EXCEPT !.serviceClose = IF @ = "pending" THEN "none" ELSE @]
    /\ UNCHANGED <<pc, executor, pass, kernel>>

\* The host asks a service that has already closed or failed.
ServiceCloseKnown ==
    /\ host.serviceClose = "pending" /\ service.closing \in {"ok", "failed"}
    /\ host' = [host EXCEPT !.serviceClose = IF service.closing = "ok" THEN "ok" ELSE "none"]
    /\ UNCHANGED <<pc, service, executor, pass, kernel>> /\ Fine

ExecutorClosed ==
    /\ executor = "pending"
    /\ \/ executor' = "ok" /\ Fine
       \/ executor' = "failed" /\ Fault("executor")
    /\ UNCHANGED <<host, pc, service, pass, kernel>>

-----------------------------------------------------------------------------
(* Cleanup *)

\* Mutant: only success awakens the lifecycle.
AwakenedBySuccess(h, ok) ==
    /\ pc' = IF ~ok \/ pc \notin {"cleanup", "cleanup thrown"} THEN pc
             ELSE IF pc = "cleanup" THEN "log stop" ELSE "log stop thrown"
    /\ host' = IF h.before # "pending" THEN h
               ELSE [Settled(h, "finished", IF ok THEN "resolved" ELSE "rejected")
                        EXCEPT !.before = IF ok THEN "resolved" ELSE "rejected"]

\* What waits for the cleanup goes on: the lifecycle and a close before start.
Awakened(h, ok) ==
    /\ pc' = IF pc \notin {"cleanup", "cleanup thrown"} THEN pc
             ELSE IF pc = "cleanup" THEN (IF ok THEN "log stop" ELSE "log failed stop")
             ELSE (IF ok THEN "log stop thrown" ELSE "log failed stop thrown")
    /\ host' = IF h.before # "pending" THEN h
               ELSE [Settled(h, "finished", IF ok THEN "resolved" ELSE "rejected")
                        EXCEPT !.before = IF ok THEN "resolved" ELSE "rejected"]

\* Mutant: the Kernel is closed with the others.
CleanupEndsHasty ==
    /\ host.cleanup = "pending"
    /\ kernel' = "closed"
    /\ Awakened([host EXCEPT !.cleanup = "ok", !.state = "closed", !.cleanupFailed = FALSE], TRUE)
    /\ UNCHANGED <<service, executor, pass>> /\ Fine

\* Promise.allSettled, then close of the Kernel.
CleanupEnds ==
    /\ host.cleanup = "pending"
    /\ host.serviceClose # "pending" /\ executor # "pending"
    /\ IF host.serviceClose = "ok" /\ executor = "ok"
       THEN /\ kernel' = "closed"
            /\ Awakened([host EXCEPT !.cleanup = "ok", !.state = "closed",
                                     !.cleanupFailed = FALSE], TRUE)
       ELSE /\ kernel' = kernel
            /\ Awakened([host EXCEPT !.cleanup = "none", !.cleanupFailed = TRUE], FALSE)
    /\ UNCHANGED <<service, executor, pass>> /\ Fine

\* close, by the user or a signal.
Close ==
    /\ Uses("closes", MaxCloses)
    /\ IF host.cleanupFailed \/ host.cleanupRetried
       THEN CloseResources([host EXCEPT !.cleanupRetried = TRUE])
       ELSE IF host.state = "created"
       THEN CloseResources([Stopped(host) EXCEPT !.state = "closing", !.before = "pending"])
       ELSE IF host.state # "closed"
       THEN /\ host' = ServiceCloseBegun([Stopped(host) EXCEPT !.state = "closing"])
            /\ service' = ServiceCloses(service)
            /\ UNCHANGED executor
       ELSE UNCHANGED <<host, service, executor>>
    /\ UNCHANGED <<pc, pass, kernel, seen>>

-----------------------------------------------------------------------------
Lifecycle ==
    \/ LogsRecovery \/ Recovers \/ LogsRecovered \/ Listens \/ Binds
    \/ LogsStart \/ LogsNoStart \/ RaceEnds \/ Finally \/ LogsStop \/ LogsFailedStop

HostNext ==
    \/ Start \/ Close
    \/ Lifecycle
    \/ PassEnds \/ PassBegins
    \/ Request \/ RequestEnds
    \/ ServiceClosed \/ ServiceCloseKnown \/ ExecutorClosed
    \/ CleanupEnds

\* Awaited promises settle, a stopped pass included: adapters are aborted and
\* timeouts fire.
HostFairness ==
    /\ WF_hostVars(Lifecycle)
    /\ WF_hostVars(PassEnds) /\ WF_hostVars(PassBegins)
    /\ WF_hostVars(RequestEnds)
    /\ WF_hostVars(ServiceClosed) /\ WF_hostVars(ServiceCloseKnown) /\ WF_hostVars(ExecutorClosed)
    /\ WF_hostVars(CleanupEnds)

HostSpec == HostInit /\ [][HostNext]_hostVars /\ HostFairness
-----------------------------------------------------------------------------
(* Properties *)

HostTypeOK ==
    /\ host.started \in {"pending", "resolved", "rejected"}
    /\ host.finished \in {"pending", "resolved", "rejected"}
    /\ service.closing \in {"none", "pending", "ok", "failed"}
    /\ (host.cleanup = "ok") = (kernel = "closed")
    /\ host.cleanup = "pending" => host.stop
    /\ pc \in {"cleanup", "cleanup thrown"} => host.cleanup = "pending"

\* The Kernel is closed last: when HTTP is shut down and the executor has confirmed
\* that nothing physical runs.
KernelIsLast == kernel = "closed" => service.closing = "ok" /\ executor = "ok"

\* A host that reports an orderly end has closed everything, and until then neither
\* recovery, listen, a pass, a close nor a log of its own failed; a retried cleanup
\* does not turn a reported failure into success.  Not so the log of a request:
\* #fail tells #runLifecycle only as long as that waits in its race, so what fails
\* when a stop is under way is swallowed (server.ts:1009).
FinishedMeansClosed ==
    host.finished = "resolved" =>
        kernel = "closed" /\ seen \subseteq {"request"}

\* HTTP is opened and work is dispatched only after recovery, and neither after a
\* stop was requested.
NothingBeginsStopped ==
    [][/\ pass' = "running" /\ pass # "running" => ~host.stop /\ host.listening
       /\ service'.state = "starting" /\ service.state # "starting" => ~host.stop]_hostVars

\* start is answered, whatever fails.
StartIsAnswered == pc # "idle" => host.started # "pending"

\* After a close, or a failure, the lifecycle ends and with it every close that
\* awaits it.
CloseIsAnswered ==
    /\ host.stop /\ pc # "idle" => pc \in {"resolved", "rejected"}
    /\ host.before # "pending"

\* Startup, Runtime-loop and shutdown failures settle the host lifecycle
\* (apps/server/README.md, lines 11 to 13), unless the host's own log failed: in the
\* catch of #runLifecycle that failure escapes and leaves finished pending.
FinishedSettles ==
    pc # "idle" /\ (host.failure \/ host.stop) /\ "log" \notin seen =>
        host.finished # "pending"

\* Shutdown aborts active Runtime executions and waits for their settlement before
\* it closes the Kernel (apps/server/README.md, lines 9 to 11), unless the log of a
\* request failed: that fails the service, and the race ends under the pass.
KernelOutlivesThePass == kernel = "closed" /\ "request" \notin seen => pass # "running"

\* What is closed is closed in order, the Kernel last, and no failure but that of a
\* request's log (FinishedMeansClosed) passes for an orderly end.
HostSafety ==
    /\ HostTypeOK
    /\ KernelIsLast
    /\ FinishedMeansClosed
    /\ KernelOutlivesThePass

\* Whoever waits for the host is answered, whatever fails and whoever closes it: a
\* promise that is owed stays owed until it settles, and none is owed for ever.
HostAnswers == []<>(StartIsAnswered /\ CloseIsAnswered /\ FinishedSettles)
=============================================================================
