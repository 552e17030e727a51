---------------------------- MODULE ServerProofs ----------------------------
(***************************************************************************)
(* Proofs about the local runtime host (HostLifecycle), its operational    *)
(* log (OperationalLog), the stream of events to a browser (EventStream)   *)
(* and the behaviours that MCServer makes of them, for all values of the   *)
(* constants: any faults, any sizes and any number of calls.               *)
(*                                                                         *)
(* HostSafety is not inductive.  That a finished host closed everything    *)
(* and saw nothing fail rests on where each failure is remembered until    *)
(* the lifecycle ends: in the host, in the service, in the executor or in  *)
(* the position of #runLifecycle (FailuresRemembered); that the Kernel     *)
(* outlives a pass, on the cleanup not having begun before the race ended  *)
(* (LifecycleKnows).                                                       *)
(***************************************************************************)
EXTENDS MCServer, FiniteSetTheorems, SequenceTheorems, WellFoundedInduction, TLAPS

HostRows ==
    [state : {"created", "starting", "running", "closing", "closed"},
     started : {"pending", "resolved", "rejected"},
     finished : {"pending", "resolved", "rejected"},
     stop : BOOLEAN, failure : BOOLEAN, listening : BOOLEAN,
     serviceClose : {"none", "pending", "ok"},
     cleanup : {"none", "pending", "ok"},
     cleanupFailed : BOOLEAN, cleanupRetried : BOOLEAN,
     before : {"none", "pending", "resolved", "rejected"}]

ServiceRows ==
    [state : {"created", "starting", "listening", "closing", "closed"},
     closing : {"none", "pending", "ok", "failed"}, failed : BOOLEAN,
     handlers : Int]

\* Where #runLifecycle is.
Starting == {"log recovery", "recovering", "log recovered", "recovered", "listen"}
Running == {"log start", "race"}
Leaving == {"log no start", "finally", "finally thrown"}
Cleaning == {"cleanup", "cleanup thrown"}
CleanStop == {"log stop", "log stop thrown"}
FailedStop == {"log failed stop", "log failed stop thrown"}

Positions ==
    {"idle", "resolved", "rejected"} \cup Starting \cup Running \cup Leaving
       \cup Cleaning \cup CleanStop \cup FailedStop

HostTyped ==
    /\ host \in HostRows
    /\ service \in ServiceRows
    /\ pc \in Positions
    /\ executor \in {"none", "pending", "ok", "failed"}
    /\ pass \in {"none", "running", "waiting", "ended", "failed"}
    /\ kernel \in {"open", "closed"}

\* What the position of #runLifecycle says of the host.
LifecycleKnows ==
    /\ pc = "idle" =>
          /\ ~host.failure
          /\ host.finished # "pending" <=> host.before \in {"resolved", "rejected"}
    /\ pc \in Starting \cup {"idle", "log start"} => pass = "none"
    /\ pc = "log no start" => host.failure
    /\ host.state = "created" =>
          /\ pc = "idle" /\ host.before = "none" /\ host.cleanup = "none"
          /\ ~host.cleanupFailed /\ ~host.cleanupRetried
    /\ host.before # "none" => pc = "idle"
    /\ host.finished # "pending" => pc \in {"idle", "resolved", "rejected"}
    /\ pc \in Starting \cup Running \cup Leaving => host.cleanup = "none"
    /\ pc \in Running \/ pass # "none" => host.listening
    /\ pc \in Cleaning => host.cleanup = "pending"
    /\ pc \in CleanStop => kernel = "closed"

\* What has been closed stays closed, the Kernel last.
ClosedInOrder ==
    /\ host.cleanup = "ok" <=> kernel = "closed"
    /\ host.serviceClose = "ok" => service.closing = "ok"
    /\ kernel = "closed" => service.closing = "ok" /\ executor = "ok"
    /\ host.cleanup = "pending" \/ host.cleanupFailed \/ host.cleanupRetried =>
          host.stop
    /\ executor = "pending" => host.cleanup = "pending"

\* The lifecycle will not resolve any more.
Failing == pc \in FailedStop \cup {"rejected"} \/ host.finished = "rejected"

\* Where a failure is remembered until the lifecycle ends.
FailuresRemembered ==
    /\ host.cleanupFailed \/ host.cleanupRetried => Failing
    /\ host.cleanup = "pending" =>
          pc \in Cleaning \/ host.before = "pending" \/ Failing
    /\ seen \cap {"log", "recover", "listen"} # {} => host.failure
    /\ "pass" \in seen => host.failure \/ (pc = "race" /\ pass = "failed")
    /\ "service" \in seen => service.closing = "failed"
    /\ "executor" \in seen =>
          Failing \/ (executor = "failed" /\ host.cleanup = "pending")
    /\ service.failed => "request" \in seen \/ host.finished # "pending"
    /\ pass \in {"running", "waiting"} =>
          pc = "race" \/ (host.failure /\ "request" \in seen)
    /\ host.finished = "resolved" => kernel = "closed" /\ seen \subseteq {"request"}

HostInv ==
    /\ HostTyped
    /\ seen \subseteq FaultKinds
    /\ LifecycleKnows
    /\ ClosedInOrder
    /\ FailuresRemembered

-----------------------------------------------------------------------------
(* The host's lifecycle *)

\* The positions, one from another.
LEMMA PositionsDiffer ==
    /\ Starting = {"log recovery", "recovering", "log recovered", "recovered",
                   "listen"}
    /\ Running = {"log start", "race"}
    /\ Leaving = {"log no start", "finally", "finally thrown"}
    /\ Cleaning = {"cleanup", "cleanup thrown"}
    /\ CleanStop = {"log stop", "log stop thrown"}
    /\ FailedStop = {"log failed stop", "log failed stop thrown"}
  BY DEF Starting, Running, Leaving, Cleaning, CleanStop, FailedStop

\* The invariant says what HostSafety says.
LEMMA HostInvIsSafe == HostInv => HostSafety
  <1> SUFFICES ASSUME HostInv
               PROVE  HostSafety
    OBVIOUS
  <1>1. host.started \in {"pending", "resolved", "rejected"}
    BY DEF HostInv, HostTyped, HostRows
  <1>2. host.finished \in {"pending", "resolved", "rejected"}
    BY DEF HostInv, HostTyped, HostRows
  <1>3. service.closing \in {"none", "pending", "ok", "failed"}
    BY DEF HostInv, HostTyped, ServiceRows
  <1>4. HostTypeOK
    BY <1>1, <1>2, <1>3 DEF HostInv, ClosedInOrder, LifecycleKnows, Cleaning,
                            HostTypeOK
  <1>5. KernelIsLast /\ FinishedMeansClosed
    BY DEF HostInv, ClosedInOrder, FailuresRemembered, KernelIsLast,
           FinishedMeansClosed
  <1>6. KernelOutlivesThePass
    BY DEF HostInv, ClosedInOrder, LifecycleKnows, FailuresRemembered, Running,
           KernelOutlivesThePass
  <1> QED BY <1>4, <1>5, <1>6 DEF HostSafety

\* What a fault is remembered by.
LEMMA FaultSeen ==
    ASSUME NEW kind, Fault(kind), seen \subseteq FaultKinds, Faults \subseteq FaultKinds
    PROVE  /\ seen' \subseteq FaultKinds
           /\ seen \subseteq seen'
           /\ seen' \subseteq seen \cup {kind}
           /\ host.finished # "pending" => seen' = seen
           /\ host.finished = "pending" => kind \in seen'
  BY DEF Fault

\* Before the lifecycle begins, and as it is thrown out of its beginning.
LEMMA StartKeepsInv ==
    ASSUME HostInv, Start
    PROVE  HostInv'
  <1>1. /\ host' = [host EXCEPT !.state = "starting"]
        /\ host.state = "created"
        /\ pc' \in {"log recovery", "recovered"}
        /\ UNCHANGED <<service, executor, pass, kernel, seen>>
    BY DEF Start, Fine, AfterStart
  <1>2. host \in HostRows
    BY DEF HostInv, HostTyped
  <1>3. /\ host' \in HostRows
        /\ host'.state = "starting"
        /\ host'.finished = host.finished /\ host'.stop = host.stop
        /\ host'.failure = host.failure /\ host'.listening = host.listening
        /\ host'.serviceClose = host.serviceClose
        /\ host'.cleanup = host.cleanup
        /\ host'.cleanupFailed = host.cleanupFailed
        /\ host'.cleanupRetried = host.cleanupRetried
        /\ host'.before = host.before
    BY <1>1, <1>2 DEF HostRows
  <1>4. HostTyped'
    BY <1>1, <1>3 DEF HostInv, HostTyped, Positions, Starting
  <1>5. LifecycleKnows'
    BY <1>1, <1>3 DEF HostInv, LifecycleKnows, Starting, Running, Leaving,
                      Cleaning, CleanStop
  <1>6. ClosedInOrder'
    BY <1>1, <1>3 DEF HostInv, ClosedInOrder
  <1>7. FailuresRemembered'
    BY <1>1, <1>3 DEF HostInv, LifecycleKnows, FailuresRemembered, Failing,
                      Starting, Running, Leaving, Cleaning, FailedStop
  <1> QED BY <1>1, <1>4, <1>5, <1>6, <1>7 DEF HostInv

\* A promise that settles changes nothing else.
LEMMA StartedSettles ==
    ASSUME NEW h \in HostRows, NEW how \in {"resolved", "rejected"},
           NEW g, g = Settled(h, "started", how)
    PROVE  /\ g \in HostRows
           /\ g.state = h.state /\ g.finished = h.finished /\ g.stop = h.stop
           /\ g.failure = h.failure /\ g.listening = h.listening
           /\ g.serviceClose = h.serviceClose /\ g.cleanup = h.cleanup
           /\ g.cleanupFailed = h.cleanupFailed
           /\ g.cleanupRetried = h.cleanupRetried /\ g.before = h.before
  BY DEF Settled, HostRows

LEMMA FinishedSettlesOnce ==
    ASSUME NEW h \in HostRows, NEW how \in {"resolved", "rejected"},
           NEW g, g = Settled(h, "finished", how)
    PROVE  /\ g \in HostRows
           /\ g.state = h.state /\ g.started = h.started /\ g.stop = h.stop
           /\ g.failure = h.failure /\ g.listening = h.listening
           /\ g.serviceClose = h.serviceClose /\ g.cleanup = h.cleanup
           /\ g.cleanupFailed = h.cleanupFailed
           /\ g.cleanupRetried = h.cleanupRetried /\ g.before = h.before
           /\ g.finished = IF h.finished = "pending" THEN how ELSE h.finished
  BY DEF Settled, HostRows

\* The failure is remembered.
LEMMA FailureSet ==
    ASSUME NEW h \in HostRows, NEW g, g = [h EXCEPT !.failure = TRUE]
    PROVE  /\ g \in HostRows
           /\ g.state = h.state /\ g.started = h.started /\ g.stop = h.stop
           /\ g.finished = h.finished /\ g.listening = h.listening
           /\ g.serviceClose = h.serviceClose /\ g.cleanup = h.cleanup
           /\ g.cleanupFailed = h.cleanupFailed
           /\ g.cleanupRetried = h.cleanupRetried /\ g.before = h.before
           /\ g.failure = TRUE
  BY DEF HostRows

\* The service begins its shutdown at most once.
LEMMA ServiceClosesOnce ==
    ASSUME NEW s \in ServiceRows, NEW t, t = ServiceCloses(s)
    PROVE  /\ t \in ServiceRows
           /\ t.failed = s.failed
           /\ s.closing # "none" => t.closing = s.closing
           /\ s.closing = "none" => t.closing = "pending"
           /\ t.state = "starting" => s.state = "starting"
  BY DEF ServiceCloses, ServiceRows

\* A step that only changes what #runLifecycle has come to, towards its end.
LEMMA ThrowsKeepsInv ==
    ASSUME HostInv, Throws,
           pc \in {"log recovery", "recovering", "log recovered", "log start"},
           seen' \subseteq seen \cup {"log", "recover"}, seen \subseteq seen'
    PROVE  HostInv'
  <1> DEFINE g == Settled(host, "started", "rejected")
  <1>1. host \in HostRows
    BY DEF HostInv, HostTyped
  <1>2. /\ g \in HostRows
        /\ g.state = host.state /\ g.finished = host.finished /\ g.stop = host.stop
        /\ g.failure = host.failure /\ g.listening = host.listening
        /\ g.serviceClose = host.serviceClose /\ g.cleanup = host.cleanup
        /\ g.cleanupFailed = host.cleanupFailed
        /\ g.cleanupRetried = host.cleanupRetried /\ g.before = host.before
    BY <1>1, StartedSettles
  <1>3. /\ host' = [g EXCEPT !.failure = TRUE]
        /\ pc' \in {"finally", "log no start"}
        /\ UNCHANGED <<service, executor, pass, kernel>>
    BY DEF Throws
  <1> HIDE DEF g
  <1>4. /\ host' \in HostRows
        /\ host'.state = host.state /\ host'.finished = host.finished
        /\ host'.stop = host.stop
        /\ host'.listening = host.listening
        /\ host'.serviceClose = host.serviceClose /\ host'.cleanup = host.cleanup
        /\ host'.cleanupFailed = host.cleanupFailed
        /\ host'.cleanupRetried = host.cleanupRetried
        /\ host'.before = host.before
        /\ host'.failure = TRUE
    BY ZenonT(60), <1>2, <1>3, FailureSet
  <1>5. seen' \subseteq FaultKinds
    BY DEF HostInv, FaultKinds
  <1>6. HostTyped'
    BY <1>3, <1>4 DEF HostInv, HostTyped, Positions, Leaving
  <1>7. LifecycleKnows'
    BY <1>3, <1>4 DEF HostInv, LifecycleKnows, Starting, Running, Leaving,
                      Cleaning, CleanStop
  <1>8. ClosedInOrder'
    BY <1>3, <1>4 DEF HostInv, ClosedInOrder
  <1>9. FailuresRemembered'
    BY <1>3, <1>4 DEF HostInv, LifecycleKnows, FailuresRemembered, Failing,
                      Starting, Running, Cleaning, FailedStop
  <1> QED BY <1>5, <1>6, <1>7, <1>8, <1>9 DEF HostInv

\* A step in which #runLifecycle goes on without touching anything.
LEMMA GoesOnKeepsInv ==
    ASSUME HostInv, UNCHANGED <<host, service, executor, pass, kernel, seen>>,
           \/ pc = "log recovery" /\ pc' = "recovering"
           \/ pc = "recovering" /\ pc' = "log recovered"
           \/ pc = "log recovered" /\ pc' = "recovered"
    PROVE  HostInv'
  <1>1. HostTyped'
    BY DEF HostInv, HostTyped, Positions, Starting
  <1>2. LifecycleKnows'
    BY DEF HostInv, LifecycleKnows, Starting, Running, Leaving, Cleaning,
           CleanStop
  <1>3. ClosedInOrder'
    BY DEF HostInv, ClosedInOrder
  <1>4. FailuresRemembered'
    BY DEF HostInv, LifecycleKnows, FailuresRemembered, Failing, Starting,
           Running, Cleaning, FailedStop
  <1> QED BY <1>1, <1>2, <1>3, <1>4 DEF HostInv

\* Recovery, and the logging around it.
LEMMA RecoveryKeepsInv ==
    ASSUME HostInv, LogsRecovery \/ Recovers \/ LogsRecovered, Faults \subseteq FaultKinds
    PROVE  HostInv'
  <1> DEFINE Goes ==
        /\ UNCHANGED <<host, service, executor, pass, kernel, seen>>
        /\ \/ pc = "log recovery" /\ pc' = "recovering"
           \/ pc = "recovering" /\ pc' = "log recovered"
           \/ pc = "log recovered" /\ pc' = "recovered"
  <1>1. CASE Goes
    BY <1>1, GoesOnKeepsInv
  <1>2. CASE \E kind \in {"log", "recover"} : Fault(kind) /\ Throws
    <2>1. PICK kind \in {"log", "recover"} : Fault(kind) /\ Throws
      BY <1>2
    <2>2. pc \in {"log recovery", "recovering", "log recovered"}
      BY DEF LogsRecovery, Recovers, LogsRecovered
    <2>3. seen' \subseteq seen \cup {"log", "recover"} /\ seen \subseteq seen'
      BY <2>1, FaultSeen DEF HostInv
    <2> QED BY <2>1, <2>2, <2>3, ThrowsKeepsInv
  <1> QED BY <1>1, <1>2 DEF LogsRecovery, Recovers, LogsRecovered, Fine

\* listen, or the exit of a host stopped during recovery.
LEMMA ListensKeepsInv ==
    ASSUME HostInv, Listens
    PROVE  HostInv'
  <1>1. host \in HostRows /\ service \in ServiceRows
    BY DEF HostInv, HostTyped
  <1>2. CASE host.stop
    <2> DEFINE g == Settled(host, "started", "rejected")
    <2>1. /\ g \in HostRows
          /\ g.state = host.state /\ g.finished = host.finished /\ g.stop = host.stop
          /\ g.failure = host.failure /\ g.listening = host.listening
          /\ g.serviceClose = host.serviceClose /\ g.cleanup = host.cleanup
          /\ g.cleanupFailed = host.cleanupFailed
          /\ g.cleanupRetried = host.cleanupRetried /\ g.before = host.before
      BY <1>1, StartedSettles
    <2>2. /\ host' = g /\ pc = "recovered" /\ pc' = "finally"
          /\ UNCHANGED <<service, executor, pass, kernel, seen>>
      BY <1>2 DEF Listens, Fine
    <2> HIDE DEF g
    <2>3. HostTyped'
      BY <2>1, <2>2 DEF HostInv, HostTyped, Positions, Leaving
    <2>4. LifecycleKnows'
      BY <2>1, <2>2 DEF HostInv, LifecycleKnows, Starting, Running, Leaving,
                        Cleaning, CleanStop
    <2>5. ClosedInOrder'
      BY <2>1, <2>2 DEF HostInv, ClosedInOrder
    <2>6. FailuresRemembered'
      BY <2>1, <2>2 DEF HostInv, LifecycleKnows, FailuresRemembered, Failing,
                        Starting, Running, Cleaning, FailedStop
    <2> QED BY <2>2, <2>3, <2>4, <2>5, <2>6 DEF HostInv
  <1>3. CASE ~host.stop
    <2>1. /\ service' = [service EXCEPT !.state = "starting"]
          /\ pc = "recovered" /\ pc' = "listen"
          /\ UNCHANGED <<host, executor, pass, kernel, seen>>
      BY <1>3 DEF Listens, Fine
    <2>2. /\ service' \in ServiceRows
          /\ service'.closing = service.closing /\ service'.failed = service.failed
      BY <1>1, <2>1 DEF ServiceRows
    <2>3. HostTyped'
      BY <2>1, <2>2 DEF HostInv, HostTyped, Positions, Starting
    <2>4. LifecycleKnows'
      BY <2>1, <2>2 DEF HostInv, LifecycleKnows, Starting, Running, Leaving,
                        Cleaning, CleanStop
    <2>5. ClosedInOrder'
      BY <2>1, <2>2 DEF HostInv, ClosedInOrder
    <2>6. FailuresRemembered'
      BY <2>1, <2>2 DEF HostInv, LifecycleKnows, FailuresRemembered, Failing,
                        Starting, Running, Cleaning, FailedStop
    <2> QED BY <2>1, <2>3, <2>4, <2>5, <2>6 DEF HostInv
  <1> QED BY <1>2, <1>3

\* The port is bound, or the service closes itself.
LEMMA BindsKeepsInv ==
    ASSUME HostInv, Binds, Faults \subseteq FaultKinds
    PROVE  HostInv'
  <1>1. host \in HostRows /\ service \in ServiceRows
    BY DEF HostInv, HostTyped
  <1>2. ASSUME service' = [service EXCEPT !.state =
                              IF @ = "starting" THEN "listening" ELSE @],
               pc = "listen", pc' = "log start",
               host' = [host EXCEPT !.listening = TRUE, !.state = "running"],
               UNCHANGED <<executor, pass, kernel, seen>>
        PROVE  HostInv'
    <2>1. /\ service' \in ServiceRows
          /\ service'.closing = service.closing /\ service'.failed = service.failed
      BY <1>1, <1>2 DEF ServiceRows
    <2>2. /\ host' \in HostRows
          /\ host'.state = "running" /\ host'.finished = host.finished
          /\ host'.stop = host.stop /\ host'.failure = host.failure
          /\ host'.listening = TRUE
          /\ host'.serviceClose = host.serviceClose /\ host'.cleanup = host.cleanup
          /\ host'.cleanupFailed = host.cleanupFailed
          /\ host'.cleanupRetried = host.cleanupRetried
          /\ host'.before = host.before
      BY <1>1, <1>2 DEF HostRows
    <2>3. HostTyped'
      BY <1>2, <2>1, <2>2 DEF HostInv, HostTyped, Positions, Running
    <2>4. LifecycleKnows'
      BY <1>2, <2>1, <2>2 DEF HostInv, LifecycleKnows, Starting, Running, Leaving,
                              Cleaning, CleanStop
    <2>5. ClosedInOrder'
      BY <1>2, <2>1, <2>2 DEF HostInv, ClosedInOrder
    <2>6. FailuresRemembered'
      BY <1>2, <2>1, <2>2 DEF HostInv, LifecycleKnows, FailuresRemembered, Failing,
                              Starting, Running, Cleaning, FailedStop
    <2> QED BY <1>2, <2>3, <2>4, <2>5, <2>6 DEF HostInv
  <1>3. ASSUME Fault("listen"), service' = ServiceCloses(service), pc = "listen",
               host' = [Settled(host, "started", "rejected") EXCEPT !.failure = TRUE],
               pc' = "log no start", UNCHANGED <<executor, pass, kernel>>
        PROVE  HostInv'
    <2> DEFINE g == Settled(host, "started", "rejected")
    <2>1. /\ g \in HostRows
          /\ g.state = host.state /\ g.finished = host.finished /\ g.stop = host.stop
          /\ g.failure = host.failure /\ g.listening = host.listening
          /\ g.serviceClose = host.serviceClose /\ g.cleanup = host.cleanup
          /\ g.cleanupFailed = host.cleanupFailed
          /\ g.cleanupRetried = host.cleanupRetried /\ g.before = host.before
      BY <1>1, StartedSettles
    <2>2. host' = [g EXCEPT !.failure = TRUE]
      BY <1>3
    <2> HIDE DEF g
    <2>3. /\ host' \in HostRows
          /\ host'.state = host.state /\ host'.finished = host.finished
          /\ host'.stop = host.stop
          /\ host'.listening = host.listening
          /\ host'.serviceClose = host.serviceClose /\ host'.cleanup = host.cleanup
          /\ host'.cleanupFailed = host.cleanupFailed
          /\ host'.cleanupRetried = host.cleanupRetried
          /\ host'.before = host.before
          /\ host'.failure = TRUE
      BY ZenonT(60), <2>1, <2>2, FailureSet
    <2>4. /\ service' \in ServiceRows
          /\ service'.failed = service.failed
          /\ service.closing # "none" => service'.closing = service.closing
      BY <1>1, <1>3, ServiceClosesOnce
    <2>5. seen' \subseteq seen \cup {"listen"} /\ seen \subseteq seen'
      BY <1>3, FaultSeen DEF HostInv
    <2>6. HostTyped'
      BY <1>3, <2>3, <2>4 DEF HostInv, HostTyped, Positions, Leaving
    <2>7. LifecycleKnows'
      BY <1>3, <2>3 DEF HostInv, LifecycleKnows, Starting, Running, Leaving,
                        Cleaning, CleanStop
    <2>8. ClosedInOrder'
      BY <1>3, <2>3, <2>4 DEF HostInv, ClosedInOrder
    <2>9. FailuresRemembered'
      BY <1>3, <2>3, <2>4, <2>5
         DEF HostInv, LifecycleKnows, FailuresRemembered, Failing, Starting,
             Running, Cleaning, FailedStop
    <2> QED BY <2>5, <2>6, <2>7, <2>8, <2>9 DEF HostInv, FaultKinds
  <1> QED BY <1>2, <1>3 DEF Binds, Fine

\* The start is logged and the Runtime loop begins, unless a close came.
LEMMA LogsStartKeepsInv ==
    ASSUME HostInv, LogsStart, Faults \subseteq FaultKinds
    PROVE  HostInv'
  <1>1. CASE Fault("log") /\ Throws
    <2>1. seen' \subseteq seen \cup {"log", "recover"} /\ seen \subseteq seen'
      BY <1>1, FaultSeen DEF HostInv
    <2> QED BY <1>1, <2>1, ThrowsKeepsInv DEF LogsStart
  <1>2. ASSUME host' = Settled(host, "started", "resolved"), pc = "log start",
               pc' = "race", pass' = IfNotStopped("running"),
               UNCHANGED <<service, executor, kernel, seen>>
        PROVE  HostInv'
    <2> DEFINE g == Settled(host, "started", "resolved")
    <2>1. host \in HostRows
      BY DEF HostInv, HostTyped
    <2>2. /\ g \in HostRows
          /\ g.state = host.state /\ g.finished = host.finished /\ g.stop = host.stop
          /\ g.failure = host.failure /\ g.listening = host.listening
          /\ g.serviceClose = host.serviceClose /\ g.cleanup = host.cleanup
          /\ g.cleanupFailed = host.cleanupFailed
          /\ g.cleanupRetried = host.cleanupRetried /\ g.before = host.before
      BY <2>1, StartedSettles
    <2>3. host' = g /\ pass' \in {"running", "ended"}
      BY <1>2 DEF IfNotStopped
    <2> HIDE DEF g
    <2>4. HostTyped'
      BY <1>2, <2>2, <2>3 DEF HostInv, HostTyped, Positions, Running
    <2>5. LifecycleKnows'
      BY <1>2, <2>2, <2>3 DEF HostInv, LifecycleKnows, Starting, Running, Leaving,
                              Cleaning, CleanStop
    <2>6. ClosedInOrder'
      BY <1>2, <2>2, <2>3 DEF HostInv, ClosedInOrder
    <2>7. FailuresRemembered'
      BY <1>2, <2>2, <2>3 DEF HostInv, LifecycleKnows, FailuresRemembered, Failing,
                              Starting, Running, Cleaning, FailedStop
    <2> QED BY <1>2, <2>4, <2>5, <2>6, <2>7 DEF HostInv
  <1> QED BY <1>1, <1>2 DEF LogsStart, Fine

\* A failed start is logged, or the log fails too.
LEMMA LogsNoStartKeepsInv ==
    ASSUME HostInv, LogsNoStart, Faults \subseteq FaultKinds
    PROVE  HostInv'
  <1>1. /\ pc = "log no start" /\ pc' \in {"finally", "finally thrown"}
        /\ UNCHANGED <<host, service, executor, pass, kernel>>
    BY DEF LogsNoStart
  <1>2. /\ seen' \subseteq seen \cup {"log"} /\ seen \subseteq seen'
        /\ host.finished # "pending" => seen' = seen
    BY FaultSeen DEF LogsNoStart, Fine, HostInv
  <1>3. HostTyped'
    BY <1>1 DEF HostInv, HostTyped, Positions, Leaving
  <1>4. LifecycleKnows'
    BY <1>1 DEF HostInv, LifecycleKnows, Starting, Running, Leaving, Cleaning,
                CleanStop
  <1>5. ClosedInOrder'
    BY <1>1 DEF HostInv, ClosedInOrder
  <1>6. FailuresRemembered'
    BY <1>1, <1>2 DEF HostInv, LifecycleKnows, FailuresRemembered, Failing,
                      Starting, Running, Cleaning, FailedStop
  <1> QED BY <1>2, <1>3, <1>4, <1>5, <1>6 DEF HostInv, FaultKinds

\* The race: the loop has ended, or the failure is kept.
LEMMA RaceEndsKeepsInv ==
    ASSUME HostInv, RaceEnds
    PROVE  HostInv'
  <1>1. host \in HostRows
    BY DEF HostInv, HostTyped
  <1>2. /\ pc = "race" /\ pc' = "finally"
        /\ UNCHANGED <<service, executor, pass, kernel, seen>>
    BY DEF RaceEnds, Fine
  <1>3. /\ host' \in HostRows
        /\ host'.state = host.state /\ host'.finished = host.finished
        /\ host'.stop = host.stop
        /\ host'.listening = host.listening
        /\ host'.serviceClose = host.serviceClose /\ host'.cleanup = host.cleanup
        /\ host'.cleanupFailed = host.cleanupFailed
        /\ host'.cleanupRetried = host.cleanupRetried
        /\ host'.before = host.before
        /\ host.failure => host'.failure
        /\ \/ pass = "ended"
           \/ host'.failure = TRUE /\ (pass = "failed" \/ service.failed)
    <2>1. CASE pass = "ended" /\ host' = host
      BY <1>1, <2>1
    <2>2. CASE /\ pass = "failed" \/ service.failed
               /\ host' = [host EXCEPT !.failure = TRUE]
      BY <1>1, <2>2, FailureSet
    <2> QED BY <2>1, <2>2 DEF RaceEnds
  <1>4. HostTyped'
    BY <1>2, <1>3 DEF HostInv, HostTyped, Positions, Leaving
  <1>5. LifecycleKnows'
    BY <1>2, <1>3 DEF HostInv, LifecycleKnows, Starting, Running, Leaving,
                      Cleaning, CleanStop
  <1>6. ClosedInOrder'
    BY <1>2, <1>3 DEF HostInv, ClosedInOrder
  <1>7. FailuresRemembered'
    BY <1>2, <1>3 DEF HostInv, LifecycleKnows, FailuresRemembered, Failing,
                      Starting, Running, Cleaning, FailedStop
  <1> QED BY <1>2, <1>4, <1>5, <1>6, <1>7 DEF HostInv

\* The resources are asked to close, once.
LEMMA CloseResourcesDo ==
    ASSUME NEW h \in HostRows, HostTyped, CloseResources(h)
    PROVE  /\ host' \in HostRows /\ service' \in ServiceRows
           /\ executor' \in {"none", "pending", "ok", "failed"}
           /\ h.cleanup # "none" => host' = h /\ UNCHANGED <<service, executor>>
           /\ h.cleanup = "none" =>
                 /\ host'.cleanup = "pending" /\ host'.state = "closing"
                 /\ executor' # "pending" => executor' = executor
                 /\ executor = "ok" => executor' = "ok"
           /\ host'.finished = h.finished /\ host'.stop = h.stop
           /\ host'.failure = h.failure /\ host'.listening = h.listening
           /\ host'.cleanupFailed = h.cleanupFailed
           /\ host'.cleanupRetried = h.cleanupRetried /\ host'.before = h.before
           /\ host'.serviceClose = "ok" => h.serviceClose = "ok"
           /\ service'.failed = service.failed
           /\ service.closing # "none" => service'.closing = service.closing
           /\ executor' = "failed" => executor = "failed" /\ h.cleanup # "none"
  <1>1. CASE h.cleanup # "none"
    <2>1. host' = h /\ UNCHANGED <<service, executor>>
      BY <1>1 DEF CloseResources
    <2> QED BY <1>1, <2>1 DEF HostTyped
  <1>2. CASE h.cleanup = "none"
    <2> DEFINE k == [h EXCEPT !.cleanup = "pending", !.state = "closing"]
    <2>1. /\ k \in HostRows
          /\ k.cleanup = "pending" /\ k.state = "closing"
          /\ k.finished = h.finished /\ k.stop = h.stop
          /\ k.failure = h.failure /\ k.listening = h.listening
          /\ k.cleanupFailed = h.cleanupFailed
          /\ k.cleanupRetried = h.cleanupRetried /\ k.before = h.before
          /\ k.serviceClose = h.serviceClose
      BY DEF HostRows
    <2>2. /\ host' = ServiceCloseBegun(k)
          /\ service' = ServiceCloses(service)
          /\ executor' = IF executor \in {"none", "failed"} THEN "pending" ELSE executor
      BY <1>2 DEF CloseResources
    <2> HIDE DEF k
    <2>3. /\ host' \in HostRows
          /\ host'.cleanup = "pending" /\ host'.state = "closing"
          /\ host'.finished = h.finished /\ host'.stop = h.stop
          /\ host'.failure = h.failure /\ host'.listening = h.listening
          /\ host'.cleanupFailed = h.cleanupFailed
          /\ host'.cleanupRetried = h.cleanupRetried /\ host'.before = h.before
          /\ host'.serviceClose = "ok" => h.serviceClose = "ok"
      BY <2>1, <2>2 DEF ServiceCloseBegun, HostRows
    <2>4. /\ service' \in ServiceRows
          /\ service'.failed = service.failed
          /\ service.closing # "none" => service'.closing = service.closing
      BY <2>2, ServiceClosesOnce DEF HostTyped
    <2>5. /\ executor' \in {"none", "pending", "ok", "failed"}
          /\ executor' # "pending" => executor' = executor
          /\ executor = "ok" => executor' = "ok"
          /\ executor' # "failed"
      BY <2>2 DEF HostTyped
    <2> QED BY <1>2, <2>3, <2>4, <2>5
  <1> QED BY <1>1, <1>2

\* finally: the cleanup begins.
LEMMA FinallyKeepsInv ==
    ASSUME HostInv, Finally
    PROVE  HostInv'
  <1> DEFINE h == [Stopped(host) EXCEPT !.state = "closing"]
  <1>1. host \in HostRows /\ HostTyped
    BY DEF HostInv, HostTyped
  <1>2. /\ h \in HostRows
        /\ h.state = "closing" /\ h.stop = TRUE
        /\ h.finished = host.finished /\ h.failure = host.failure
        /\ h.listening = host.listening /\ h.cleanup = host.cleanup
        /\ h.cleanupFailed = host.cleanupFailed
        /\ h.cleanupRetried = host.cleanupRetried /\ h.before = host.before
        /\ h.serviceClose = host.serviceClose
    BY <1>1 DEF Stopped, HostRows
  <1>3. /\ CloseResources(h)
        /\ pc \in {"finally", "finally thrown"}
        /\ pc' \in {"cleanup", "cleanup thrown"}
        /\ UNCHANGED <<pass, kernel, seen>>
    BY DEF Finally, Fine
  <1>4. host.cleanup = "none"
    BY <1>3 DEF HostInv, LifecycleKnows, Leaving
  <1> HIDE DEF h
  <1>5. /\ host' \in HostRows /\ service' \in ServiceRows
        /\ executor' \in {"none", "pending", "ok", "failed"}
        /\ host'.cleanup = "pending" /\ host'.state = "closing"
        /\ executor' # "pending" => executor' = executor
        /\ executor = "ok" => executor' = "ok"
        /\ host'.finished = host.finished /\ host'.stop = TRUE
        /\ host'.failure = host.failure /\ host'.listening = host.listening
        /\ host'.cleanupFailed = host.cleanupFailed
        /\ host'.cleanupRetried = host.cleanupRetried
        /\ host'.before = host.before
        /\ host'.serviceClose = "ok" => host.serviceClose = "ok"
        /\ service'.failed = service.failed
        /\ service.closing # "none" => service'.closing = service.closing
    BY <1>1, <1>2, <1>3, <1>4, CloseResourcesDo
  <1>6. HostTyped'
    BY <1>3, <1>5 DEF HostInv, HostTyped, Positions, Cleaning
  <1>7. LifecycleKnows'
    BY <1>3, <1>5 DEF HostInv, LifecycleKnows, Starting, Running, Leaving,
                      Cleaning, CleanStop
  <1>8. ClosedInOrder'
    BY <1>3, <1>4, <1>5 DEF HostInv, ClosedInOrder
  <1>9. FailuresRemembered'
    BY <1>3, <1>4, <1>5 DEF HostInv, LifecycleKnows, FailuresRemembered, Failing,
                            Starting, Running, Leaving, Cleaning, FailedStop
  <1> QED BY <1>3, <1>6, <1>7, <1>8, <1>9 DEF HostInv

\* The lifecycle ends as it must: rejected when a failure is kept.
LEMMA LifecycleEndsFields ==
    ASSUME NEW h \in HostRows, NEW thrown \in BOOLEAN, LifecycleEnds(h, thrown)
    PROVE  /\ host' \in HostRows
           /\ host'.state = h.state /\ host'.stop = h.stop
           /\ host'.failure = h.failure /\ host'.listening = h.listening
           /\ host'.serviceClose = h.serviceClose /\ host'.cleanup = h.cleanup
           /\ host'.cleanupFailed = h.cleanupFailed
           /\ host'.cleanupRetried = h.cleanupRetried /\ host'.before = h.before
           /\ \/ pc' = "rejected" /\ host'.finished = h.finished
              \/ /\ pc' = "rejected" /\ h.finished = "pending"
                 /\ host'.finished = "rejected"
              \/ /\ pc' = "resolved" /\ ~thrown /\ ~h.failure
                 /\ h.finished = "pending" => host'.finished = "resolved"
                 /\ h.finished # "pending" => host'.finished = h.finished
  <1>1. CASE thrown
    BY <1>1 DEF LifecycleEnds
  <1>2. CASE ~thrown /\ h.failure
    <2>1. pc' = "rejected" /\ host' = Settled(h, "finished", "rejected")
      BY <1>2 DEF LifecycleEnds
    <2> QED BY <2>1, FinishedSettlesOnce
  <1>3. CASE ~thrown /\ ~h.failure
    <2>1. pc' = "resolved" /\ host' = Settled(h, "finished", "resolved")
      BY <1>3 DEF LifecycleEnds
    <2> QED BY <1>3, <2>1, FinishedSettlesOnce
  <1> QED BY <1>1, <1>2, <1>3

\* The stop is logged: the lifecycle resolves, or its log has failed.
LEMMA LogsStopKeepsInv ==
    ASSUME HostInv, LogsStop, Faults \subseteq FaultKinds
    PROVE  HostInv'
  <1>1. host \in HostRows
    BY DEF HostInv, HostTyped
  <1>2. /\ pc \in CleanStop
        /\ UNCHANGED <<service, executor, pass, kernel>>
    BY DEF LogsStop, CleanStop
  <1>3. host.finished = "pending" /\ kernel = "closed"
    BY <1>2 DEF HostInv, LifecycleKnows, CleanStop
  <1>4. CASE LifecycleEnds(host, pc = "log stop thrown") /\ Fine
    <2>1. /\ host' \in HostRows
          /\ host'.state = host.state /\ host'.stop = host.stop
          /\ host'.failure = host.failure /\ host'.listening = host.listening
          /\ host'.serviceClose = host.serviceClose /\ host'.cleanup = host.cleanup
          /\ host'.cleanupFailed = host.cleanupFailed
          /\ host'.cleanupRetried = host.cleanupRetried
          /\ host'.before = host.before
          /\ \/ pc' = "rejected" /\ host'.finished = host.finished
             \/ pc' = "rejected" /\ host'.finished = "rejected"
             \/ pc' = "resolved" /\ ~host.failure /\ host'.finished = "resolved"
      BY <1>1, <1>3, <1>4, LifecycleEndsFields
    <2>2. seen' = seen
      BY <1>4 DEF Fine
    <2>3. pc' = "resolved" => seen \subseteq {"request"}
      BY <1>2, <1>3, <2>1 DEF HostInv, FaultKinds, ClosedInOrder, LifecycleKnows,
                              FailuresRemembered, Failing, CleanStop, FailedStop
    <2>4. HostTyped'
      BY <1>2, <2>1 DEF HostInv, HostTyped, Positions
    <2>5. LifecycleKnows'
      BY <1>2, <2>1 DEF HostInv, LifecycleKnows, Starting, Running, Leaving,
                        Cleaning, CleanStop
    <2>6. ClosedInOrder'
      BY <1>2, <2>1 DEF HostInv, ClosedInOrder
    <2>7. FailuresRemembered'
      BY <1>2, <1>3, <2>1, <2>2, <2>3
         DEF HostInv, LifecycleKnows, FailuresRemembered, Failing, ClosedInOrder,
             Starting, Running, Cleaning, CleanStop, FailedStop
    <2> QED BY <2>2, <2>4, <2>5, <2>6, <2>7 DEF HostInv
  <1>5. ASSUME Fault("log"), host' = [host EXCEPT !.failure = TRUE],
               pc' \in {"log failed stop", "log failed stop thrown"}
        PROVE  HostInv'
    <2>1. /\ host' \in HostRows
          /\ host'.state = host.state /\ host'.stop = host.stop
          /\ host'.finished = host.finished /\ host'.listening = host.listening
          /\ host'.serviceClose = host.serviceClose /\ host'.cleanup = host.cleanup
          /\ host'.cleanupFailed = host.cleanupFailed
          /\ host'.cleanupRetried = host.cleanupRetried
          /\ host'.before = host.before
          /\ host'.failure = TRUE
      BY <1>1, <1>5, FailureSet
    <2>2. seen' \subseteq seen \cup {"log"} /\ seen \subseteq seen'
      BY <1>5, FaultSeen DEF HostInv
    <2>3. HostTyped'
      BY <1>2, <1>5, <2>1 DEF HostInv, HostTyped, Positions, FailedStop
    <2>4. LifecycleKnows'
      BY <1>2, <1>5, <2>1 DEF HostInv, LifecycleKnows, Starting, Running, Leaving,
                              Cleaning, CleanStop
    <2>5. ClosedInOrder'
      BY <1>2, <2>1 DEF HostInv, ClosedInOrder
    <2>6. FailuresRemembered'
      BY <1>2, <1>3, <1>5, <2>1, <2>2
         DEF HostInv, LifecycleKnows, FailuresRemembered, Failing, ClosedInOrder,
             Starting, Running, Cleaning, CleanStop, FailedStop
    <2> QED BY <2>2, <2>3, <2>4, <2>5, <2>6 DEF HostInv, FaultKinds
  <1> QED BY <1>4, <1>5 DEF LogsStop

\* The lifecycle ends after a failure.
LEMMA LogsFailedStopKeepsInv ==
    ASSUME HostInv, LogsFailedStop, Faults \subseteq FaultKinds
    PROVE  HostInv'
  <1> DEFINE h == [host EXCEPT !.failure = TRUE]
  <1>1. host \in HostRows
    BY DEF HostInv, HostTyped
  <1>2. /\ h \in HostRows
        /\ h.state = host.state /\ h.stop = host.stop
        /\ h.finished = host.finished /\ h.listening = host.listening
        /\ h.serviceClose = host.serviceClose /\ h.cleanup = host.cleanup
        /\ h.cleanupFailed = host.cleanupFailed
        /\ h.cleanupRetried = host.cleanupRetried /\ h.before = host.before
        /\ h.failure = TRUE
    BY <1>1, FailureSet
  <1>3. /\ pc \in FailedStop
        /\ LifecycleEnds(h, pc = "log failed stop thrown")
        /\ UNCHANGED <<service, executor, pass, kernel>>
    BY DEF LogsFailedStop, FailedStop
  <1> HIDE DEF h
  <1>4. host.finished = "pending"
    BY <1>3 DEF HostInv, LifecycleKnows, FailedStop
  <1>5. /\ host' \in HostRows
        /\ host'.state = host.state /\ host'.stop = host.stop
        /\ host'.failure = TRUE /\ host'.listening = host.listening
        /\ host'.serviceClose = host.serviceClose /\ host'.cleanup = host.cleanup
        /\ host'.cleanupFailed = host.cleanupFailed
        /\ host'.cleanupRetried = host.cleanupRetried
        /\ host'.before = host.before
        /\ pc' = "rejected" /\ host'.finished \in {"pending", "rejected"}
    BY <1>2, <1>3, <1>4, LifecycleEndsFields
  <1>6. seen' \subseteq seen \cup {"log"} /\ seen \subseteq seen'
    BY FaultSeen DEF LogsFailedStop, Fine, HostInv
  <1>7. HostTyped'
    BY <1>3, <1>5 DEF HostInv, HostTyped, Positions
  <1>8. LifecycleKnows'
    BY <1>3, <1>5 DEF HostInv, LifecycleKnows, Starting, Running, Leaving,
                      Cleaning, CleanStop, FailedStop
  <1>9. ClosedInOrder'
    BY <1>3, <1>5 DEF HostInv, ClosedInOrder
  <1>10. FailuresRemembered'
    BY <1>3, <1>4, <1>5, <1>6
       DEF HostInv, LifecycleKnows, FailuresRemembered, Failing, Starting,
           Running, Cleaning, FailedStop
  <1> QED BY <1>6, <1>7, <1>8, <1>9, <1>10 DEF HostInv, FaultKinds

\* A pass of the Runtime.
LEMMA PassKeepsInv ==
    ASSUME HostInv, PassEnds \/ PassBegins, Faults \subseteq FaultKinds
    PROVE  HostInv'
  <1>1. /\ pass \in {"running", "waiting"}
        /\ pass' \in {"running", "waiting", "ended", "failed"}
        /\ UNCHANGED <<host, pc, service, executor, kernel>>
        /\ seen \subseteq seen'
        /\ seen' \subseteq seen \cup {"pass"}
        /\ host.finished # "pending" => seen' = seen
        /\ "pass" \in seen' => "pass" \in seen \/ pass' = "failed"
    <2>1. CASE PassEnds
      BY <2>1, FaultSeen DEF PassEnds, IfNotStopped, Fine, HostInv
    <2>2. CASE PassBegins
      BY <2>2 DEF PassBegins, IfNotStopped
    <2> QED BY <2>1, <2>2
  <1>2. HostTyped'
    BY <1>1 DEF HostInv, HostTyped
  <1>3. LifecycleKnows'
    BY <1>1 DEF HostInv, LifecycleKnows, Starting, Running, Leaving, Cleaning,
                CleanStop
  <1>4. ClosedInOrder'
    BY <1>1 DEF HostInv, ClosedInOrder
  <1>5. FailuresRemembered'
    BY <1>1 DEF HostInv, LifecycleKnows, FailuresRemembered, Failing, Starting,
                Running, Cleaning, FailedStop
  <1> QED BY <1>1, <1>2, <1>3, <1>4, <1>5 DEF HostInv, FaultKinds
\* What a step of the service does when the failure is that of the log.
ServiceFails ==
    /\ service' \in ServiceRows
    /\ UNCHANGED <<host, pc, executor, pass, kernel>>
    /\ service.closing # "none" => service'.closing = service.closing
    /\ seen \subseteq seen' /\ seen' \subseteq seen \cup {"request"}
    /\ host.finished # "pending" => seen' = seen
    /\ service'.failed =>
          service.failed \/ "request" \in seen' \/ host.finished # "pending"

\* A request, and its answer or the failure of its log.
LEMMA RequestsFail ==
    ASSUME HostInv, Request \/ RequestEnds, Faults \subseteq FaultKinds
    PROVE  ServiceFails
  <1>1. service \in ServiceRows
    BY DEF HostInv, HostTyped
  <1>2. CASE Request
    BY <1>1, <1>2 DEF Request, ServiceFails, ServiceRows
  <1>3. ASSUME service' = [service EXCEPT !.handlers = @ - 1], Fine,
               UNCHANGED <<host, pc, executor, pass, kernel>>
        PROVE  ServiceFails
    BY <1>1, <1>3 DEF Fine, ServiceFails, ServiceRows
  <1>4. ASSUME Fault("request"),
               service' = ServiceCloses([service EXCEPT !.handlers = @ - 1,
                                                        !.failed = TRUE]),
               UNCHANGED <<host, pc, executor, pass, kernel>>
        PROVE  ServiceFails
    <2> DEFINE s == [service EXCEPT !.handlers = @ - 1, !.failed = TRUE]
    <2>1. s \in ServiceRows /\ s.closing = service.closing
      <3> DEFINE r == [service EXCEPT !.handlers = @ - 1]
      <3>1. r \in ServiceRows /\ r.closing = service.closing
        BY <1>1 DEF ServiceRows
      <3>2. s = [r EXCEPT !.failed = TRUE]
        OBVIOUS
      <3> HIDE DEF r, s
      <3> QED BY <3>1, <3>2 DEF ServiceRows
    <2>2. service' = ServiceCloses(s)
      BY <1>4
    <2> HIDE DEF s
    <2>3. /\ service' \in ServiceRows
          /\ service.closing # "none" => service'.closing = service.closing
      BY <2>1, <2>2, ServiceClosesOnce
    <2>4. /\ seen \subseteq seen' /\ seen' \subseteq seen \cup {"request"}
          /\ host.finished # "pending" => seen' = seen
          /\ host.finished = "pending" => "request" \in seen'
      BY <1>4, FaultSeen DEF HostInv
    <2>5. host.finished \in {"pending", "resolved", "rejected"}
      BY DEF HostInv, HostTyped, HostRows
    <2> QED BY <1>4, <2>3, <2>4, <2>5 DEF ServiceFails
  <1> QED BY <1>2, <1>3, <1>4 DEF RequestEnds

LEMMA ServiceFailsKeepsInv ==
    ASSUME HostInv, ServiceFails
    PROVE  HostInv'
  <1>1. HostTyped'
    BY DEF HostInv, HostTyped, ServiceFails
  <1>2. LifecycleKnows'
    BY DEF HostInv, LifecycleKnows, ServiceFails
  <1>3. ClosedInOrder'
    BY DEF HostInv, ClosedInOrder, ServiceFails
  <1>4. FailuresRemembered'
    BY DEF HostInv, FailuresRemembered, Failing, ServiceFails
  <1> QED BY <1>1, <1>2, <1>3, <1>4 DEF HostInv, ServiceFails, FaultKinds

\* The host learns what the close of its service came to.
LEMMA ServiceClosedKeepsInv ==
    ASSUME HostInv, ServiceClosed \/ ServiceCloseKnown, Faults \subseteq FaultKinds
    PROVE  HostInv'
  <1>1. host \in HostRows /\ service \in ServiceRows
    BY DEF HostInv, HostTyped
  <1>2. /\ service' \in ServiceRows /\ host' \in HostRows
        /\ UNCHANGED <<pc, executor, pass, kernel>>
        /\ service.closing \in {"ok", "failed"} => service'.closing = service.closing
        /\ service'.failed = service.failed
        /\ seen \subseteq seen' /\ seen' \subseteq seen \cup {"service"}
        /\ host.finished # "pending" => seen' = seen
        /\ "service" \in seen' => "service" \in seen \/ service'.closing = "failed"
        /\ host'.serviceClose = "ok" =>
              host.serviceClose = "ok" \/ service'.closing = "ok"
    <2>1. ASSUME service' = [service EXCEPT !.closing = "ok", !.state = "closed"],
                 host' = [host EXCEPT !.serviceClose =
                             IF @ = "pending" THEN "ok" ELSE @],
                 Fine
          PROVE  /\ service' \in ServiceRows /\ host' \in HostRows
                 /\ service'.closing = "ok" /\ service'.failed = service.failed
                 /\ seen' = seen
      BY <1>1, <2>1 DEF Fine, HostRows, ServiceRows
    <2>2. ASSUME service' = [service EXCEPT !.closing = "failed"],
                 host' = [host EXCEPT !.serviceClose =
                             IF @ = "pending" THEN "none" ELSE @],
                 Fault("service")
          PROVE  /\ service' \in ServiceRows /\ host' \in HostRows
                 /\ service'.closing = "failed" /\ service'.failed = service.failed
                 /\ seen \subseteq seen' /\ seen' \subseteq seen \cup {"service"}
                 /\ host.finished # "pending" => seen' = seen
                 /\ host'.serviceClose = "ok" => host.serviceClose = "ok"
      <3>1. service' \in ServiceRows /\ host' \in HostRows
        BY <1>1, <2>2 DEF HostRows, ServiceRows
      <3>2. /\ service'.closing = "failed" /\ service'.failed = service.failed
            /\ host'.serviceClose = "ok" => host.serviceClose = "ok"
        BY <1>1, <2>2 DEF HostRows, ServiceRows
      <3> QED BY <2>2, <3>1, <3>2, FaultSeen DEF HostInv
    <2>3. ASSUME ServiceCloseKnown
          PROVE  /\ host' \in HostRows
                 /\ UNCHANGED <<pc, service, executor, pass, kernel, seen>>
                 /\ host'.serviceClose = "ok" => service.closing = "ok"
      BY <1>1, <2>3 DEF ServiceCloseKnown, Fine, HostRows
    <2> QED BY <1>1, <2>1, <2>2, <2>3 DEF ServiceClosed
  <1>3. /\ host'.state = host.state /\ host'.stop = host.stop
        /\ host'.finished = host.finished /\ host'.listening = host.listening
        /\ host'.failure = host.failure /\ host'.cleanup = host.cleanup
        /\ host'.cleanupFailed = host.cleanupFailed
        /\ host'.cleanupRetried = host.cleanupRetried
        /\ host'.before = host.before
    BY <1>1 DEF ServiceClosed, ServiceCloseKnown, HostRows
  <1>4. HostTyped'
    BY <1>2, <1>3 DEF HostInv, HostTyped
  <1>5. LifecycleKnows'
    BY <1>2, <1>3 DEF HostInv, LifecycleKnows
  <1>6. ClosedInOrder'
    BY <1>2, <1>3 DEF HostInv, ClosedInOrder
  <1>7. FailuresRemembered'
    BY <1>2, <1>3 DEF HostInv, FailuresRemembered, Failing
  <1> QED BY <1>2, <1>4, <1>5, <1>6, <1>7 DEF HostInv, FaultKinds

\* The executor confirms its end, or its close fails during the cleanup.
LEMMA ExecutorClosedKeepsInv ==
    ASSUME HostInv, ExecutorClosed, Faults \subseteq FaultKinds
    PROVE  HostInv'
  <1>1. /\ executor = "pending" /\ executor' \in {"ok", "failed"}
        /\ UNCHANGED <<host, pc, service, pass, kernel>>
        /\ seen \subseteq seen' /\ seen' \subseteq seen \cup {"executor"}
        /\ host.finished # "pending" => seen' = seen
        /\ "executor" \in seen' => "executor" \in seen \/ executor' = "failed"
    BY FaultSeen DEF ExecutorClosed, Fine, HostInv
  <1>2. HostTyped'
    BY <1>1 DEF HostInv, HostTyped
  <1>3. LifecycleKnows'
    BY <1>1 DEF HostInv, LifecycleKnows
  <1>4. ClosedInOrder'
    BY <1>1 DEF HostInv, ClosedInOrder
  <1>5. FailuresRemembered'
    BY <1>1 DEF HostInv, FailuresRemembered, Failing, ClosedInOrder
  <1> QED BY <1>1, <1>2, <1>3, <1>4, <1>5 DEF HostInv, FaultKinds

\* Whoever waits for the cleanup goes on.
LEMMA AwakenedFields ==
    ASSUME NEW h \in HostRows, NEW ok \in BOOLEAN, Awakened(h, ok), pc \in Positions
    PROVE  /\ host' \in HostRows
           /\ host'.state = h.state /\ host'.stop = h.stop
           /\ host'.failure = h.failure /\ host'.listening = h.listening
           /\ host'.serviceClose = h.serviceClose /\ host'.cleanup = h.cleanup
           /\ host'.cleanupFailed = h.cleanupFailed
           /\ host'.cleanupRetried = h.cleanupRetried
           /\ \/ /\ h.before # "pending"
                 /\ host'.before = h.before /\ host'.finished = h.finished
              \/ /\ h.before = "pending"
                 /\ host'.before \in {"resolved", "rejected"}
                 /\ host'.finished = IF h.finished # "pending" THEN h.finished
                                     ELSE IF ok THEN "resolved" ELSE "rejected"
           /\ \/ pc \notin Cleaning /\ pc' = pc
              \/ pc \in Cleaning /\ ok /\ pc' \in CleanStop
              \/ pc \in Cleaning /\ ~ok /\ pc' \in FailedStop
  <1> DEFINE how == IF ok THEN "resolved" ELSE "rejected"
             g == Settled(h, "finished", how)
  <1>1. how \in {"resolved", "rejected"}
    OBVIOUS
  <1>2. /\ g \in HostRows
        /\ g.state = h.state /\ g.started = h.started /\ g.stop = h.stop
        /\ g.failure = h.failure /\ g.listening = h.listening
        /\ g.serviceClose = h.serviceClose /\ g.cleanup = h.cleanup
        /\ g.cleanupFailed = h.cleanupFailed
        /\ g.cleanupRetried = h.cleanupRetried /\ g.before = h.before
        /\ g.finished = IF h.finished = "pending" THEN how ELSE h.finished
    BY <1>1, FinishedSettlesOnce
  <1>3. host' = IF h.before # "pending" THEN h ELSE [g EXCEPT !.before = how]
    BY DEF Awakened
  <1>4. \/ pc \notin Cleaning /\ pc' = pc
        \/ pc \in Cleaning /\ ok /\ pc' \in CleanStop
        \/ pc \in Cleaning /\ ~ok /\ pc' \in FailedStop
    BY DEF Awakened, Cleaning, CleanStop, FailedStop
  <1>5. CASE h.before # "pending"
    BY <1>3, <1>4, <1>5
  <1>6. CASE h.before = "pending"
    <2>1. host' = [g EXCEPT !.before = how]
      BY <1>3, <1>6
    <2> HIDE DEF g
    <2>2. /\ host' \in HostRows /\ host'.before = how
          /\ host'.state = g.state /\ host'.stop = g.stop
          /\ host'.failure = g.failure /\ host'.listening = g.listening
          /\ host'.serviceClose = g.serviceClose /\ host'.cleanup = g.cleanup
          /\ host'.cleanupFailed = g.cleanupFailed
          /\ host'.cleanupRetried = g.cleanupRetried
          /\ host'.finished = g.finished
      BY <1>1, <1>2, <2>1 DEF HostRows
    <2>3. host'.finished = IF h.finished # "pending" THEN h.finished
                           ELSE IF ok THEN "resolved" ELSE "rejected"
      BY <1>2, <2>2
    <2> QED BY <1>1, <1>2, <1>4, <1>6, <2>2, <2>3
  <1> QED BY <1>5, <1>6

\* The cleanup succeeds: the Kernel is closed.
LEMMA CleanupSucceeds ==
    ASSUME HostInv, CleanupEnds, host.serviceClose = "ok", executor = "ok"
    PROVE  HostInv'
  <1> DEFINE h == [host EXCEPT !.cleanup = "ok", !.state = "closed",
                               !.cleanupFailed = FALSE]
  <1>1. host \in HostRows /\ pc \in Positions
    BY DEF HostInv, HostTyped
  <1>2. /\ h \in HostRows
        /\ h.state = "closed" /\ h.cleanup = "ok" /\ h.cleanupFailed = FALSE
        /\ h.stop = host.stop /\ h.failure = host.failure
        /\ h.finished = host.finished /\ h.listening = host.listening
        /\ h.serviceClose = host.serviceClose
        /\ h.cleanupRetried = host.cleanupRetried /\ h.before = host.before
    BY <1>1 DEF HostRows
  <1>3. /\ host.cleanup = "pending" /\ kernel' = "closed" /\ Awakened(h, TRUE)
        /\ UNCHANGED <<service, executor, pass, seen>>
    BY DEF CleanupEnds, Fine
  <1> HIDE DEF h
  <1>4. /\ host' \in HostRows
        /\ host'.state = "closed" /\ host'.stop = host.stop
        /\ host'.failure = host.failure /\ host'.listening = host.listening
        /\ host'.serviceClose = "ok" /\ host'.cleanup = "ok"
        /\ host'.cleanupFailed = FALSE
        /\ host'.cleanupRetried = host.cleanupRetried
        /\ \/ /\ host.before # "pending"
              /\ host'.before = host.before /\ host'.finished = host.finished
           \/ /\ host.before = "pending"
              /\ host'.before \in {"resolved", "rejected"}
              /\ host'.finished = IF host.finished # "pending" THEN host.finished
                                  ELSE "resolved"
        /\ \/ pc \notin Cleaning /\ pc' = pc
           \/ pc \in Cleaning /\ pc' \in CleanStop
    BY <1>1, <1>2, <1>3, AwakenedFields
  <1>5. host.before = "pending" => pc = "idle" /\ host.finished = "pending"
    BY <1>1 DEF HostInv, LifecycleKnows
  <1>6. host.before = "pending" => seen \subseteq {"request"}
    BY <1>5 DEF HostInv, FaultKinds, ClosedInOrder, LifecycleKnows,
                FailuresRemembered, Failing, FailedStop
  <1>7. HostTyped'
    BY <1>1, <1>3, <1>4 DEF HostInv, HostTyped, Positions, CleanStop
  <1>8. LifecycleKnows'
    <2>1. host.finished # "pending" => pc \notin Cleaning
      BY DEF HostInv, LifecycleKnows, Cleaning
    <2> QED BY <1>1, <1>3, <1>4, <1>5, <2>1
               DEF HostInv, LifecycleKnows, Starting, Running, Leaving, Cleaning,
                   CleanStop
  <1>9. ClosedInOrder'
    BY <1>3, <1>4 DEF HostInv, ClosedInOrder
  <1>10. FailuresRemembered'
    <2>1. host.finished # "pending" => pc \notin Cleaning
      BY DEF HostInv, LifecycleKnows, Cleaning
    <2>2. Failing => Failing'
      BY <1>4, <1>5, <2>1 DEF Failing, Cleaning, FailedStop
    <2>3. kernel # "closed"
      BY <1>3 DEF HostInv, ClosedInOrder
    <2> QED BY <1>3, <1>4, <1>5, <1>6, <2>1, <2>2, <2>3
               DEF HostInv, FailuresRemembered, Cleaning, CleanStop
  <1> QED BY <1>3, <1>7, <1>8, <1>9, <1>10 DEF HostInv

\* The cleanup fails: whoever waited for it is told.
LEMMA CleanupFails ==
    ASSUME HostInv, CleanupEnds, ~(host.serviceClose = "ok" /\ executor = "ok")
    PROVE  HostInv'
  <1> DEFINE h == [host EXCEPT !.cleanup = "none", !.cleanupFailed = TRUE]
  <1>1. host \in HostRows /\ pc \in Positions
    BY DEF HostInv, HostTyped
  <1>2. /\ h \in HostRows
        /\ h.state = host.state /\ h.cleanup = "none" /\ h.cleanupFailed = TRUE
        /\ h.stop = host.stop /\ h.failure = host.failure
        /\ h.finished = host.finished /\ h.listening = host.listening
        /\ h.serviceClose = host.serviceClose
        /\ h.cleanupRetried = host.cleanupRetried /\ h.before = host.before
    BY <1>1 DEF HostRows
  <1>3. /\ host.cleanup = "pending" /\ Awakened(h, FALSE)
        /\ executor # "pending"
        /\ UNCHANGED <<service, executor, pass, kernel, seen>>
    BY DEF CleanupEnds, Fine
  <1> HIDE DEF h
  <1>4. /\ host' \in HostRows
        /\ host'.state = host.state /\ host'.stop = host.stop
        /\ host'.failure = host.failure /\ host'.listening = host.listening
        /\ host'.serviceClose = host.serviceClose /\ host'.cleanup = "none"
        /\ host'.cleanupFailed = TRUE
        /\ host'.cleanupRetried = host.cleanupRetried
        /\ \/ /\ host.before # "pending"
              /\ host'.before = host.before /\ host'.finished = host.finished
           \/ /\ host.before = "pending"
              /\ host'.before \in {"resolved", "rejected"}
              /\ host'.finished = IF host.finished # "pending" THEN host.finished
                                  ELSE "rejected"
        /\ \/ pc \notin Cleaning /\ pc' = pc
           \/ pc \in Cleaning /\ pc' \in FailedStop
    BY <1>1, <1>2, <1>3, AwakenedFields
  <1>5. host.before = "pending" => pc = "idle" /\ host.finished = "pending"
    BY <1>1 DEF HostInv, LifecycleKnows
  <1>6. host.finished # "pending" => pc \notin Cleaning
    BY DEF HostInv, LifecycleKnows, Cleaning
  <1>7. kernel # "closed" /\ host.state # "created" /\ host.stop
    BY <1>3 DEF HostInv, ClosedInOrder, LifecycleKnows
  <1>8. Failing'
    <2>1. pc \in Cleaning \/ host.before = "pending" \/ Failing
      BY <1>3 DEF HostInv, FailuresRemembered
    <2> QED BY <1>4, <1>5, <1>6, <2>1 DEF Failing, Cleaning, FailedStop
  <1>9. HostTyped'
    BY <1>1, <1>3, <1>4 DEF HostInv, HostTyped, Positions, FailedStop
  <1>10. LifecycleKnows'
    BY <1>1, <1>3, <1>4, <1>5, <1>6, <1>7
       DEF HostInv, LifecycleKnows, Starting, Running, Leaving, Cleaning,
           CleanStop, FailedStop
  <1>11. ClosedInOrder'
    BY <1>3, <1>4, <1>7 DEF HostInv, ClosedInOrder
  <1>12. FailuresRemembered'
    BY <1>3, <1>4, <1>5, <1>6, <1>7, <1>8
       DEF HostInv, FailuresRemembered, Cleaning, FailedStop
  <1> QED BY <1>3, <1>9, <1>10, <1>11, <1>12 DEF HostInv

\* A close after the cleanup has failed tries it again.
LEMMA RetryKeepsInv ==
    ASSUME HostInv, host.cleanupFailed \/ host.cleanupRetried,
           CloseResources([host EXCEPT !.cleanupRetried = TRUE]),
           UNCHANGED <<pc, pass, kernel, seen>>
    PROVE  HostInv'
  <1> DEFINE h == [host EXCEPT !.cleanupRetried = TRUE]
  <1>1. host \in HostRows /\ HostTyped
    BY DEF HostInv, HostTyped
  <1>2. /\ h \in HostRows
        /\ h.state = host.state /\ h.stop = host.stop
        /\ h.finished = host.finished /\ h.failure = host.failure
        /\ h.listening = host.listening /\ h.cleanup = host.cleanup
        /\ h.cleanupFailed = host.cleanupFailed /\ h.cleanupRetried = TRUE
        /\ h.before = host.before /\ h.serviceClose = host.serviceClose
    BY <1>1 DEF HostRows
  <1>3. CloseResources(h)
    OBVIOUS
  <1>4. Failing /\ host.stop /\ host.state # "created"
    BY DEF HostInv, ClosedInOrder, LifecycleKnows, FailuresRemembered
  <1> HIDE DEF h
  <1>5. /\ host' \in HostRows /\ service' \in ServiceRows
        /\ executor' \in {"none", "pending", "ok", "failed"}
        /\ host.cleanup # "none" => host' = h /\ UNCHANGED <<service, executor>>
        /\ host.cleanup = "none" =>
              /\ host'.cleanup = "pending" /\ host'.state = "closing"
              /\ executor = "ok" => executor' = "ok"
        /\ host'.finished = host.finished /\ host'.stop = host.stop
        /\ host'.failure = host.failure /\ host'.listening = host.listening
        /\ host'.cleanupFailed = host.cleanupFailed
        /\ host'.cleanupRetried = TRUE /\ host'.before = host.before
        /\ host'.serviceClose = "ok" => host.serviceClose = "ok"
        /\ service'.failed = service.failed
        /\ service.closing # "none" => service'.closing = service.closing
    BY <1>1, <1>2, <1>3, CloseResourcesDo
  <1>6. Failing'
    BY <1>4, <1>5 DEF Failing
  <1>7. host'.state # "created" /\ (host.cleanup # "none" => host'.cleanup = host.cleanup)
    BY <1>2, <1>4, <1>5
  <1>8. pc \notin Starting \cup Running \cup Leaving \cup Cleaning
    BY <1>4 DEF HostInv, LifecycleKnows, Failing, FailedStop, Starting, Running,
                Leaving, Cleaning
  <1>9. HostTyped'
    BY <1>5 DEF HostInv, HostTyped
  <1>10. LifecycleKnows'
    BY <1>5, <1>7, <1>8 DEF HostInv, LifecycleKnows, Starting, Running
  <1>11. ClosedInOrder'
    <2>1. CASE host.cleanup = "none"
      BY <1>4, <1>5, <2>1 DEF HostInv, ClosedInOrder
    <2>2. CASE host.cleanup # "none"
      BY <1>2, <1>4, <1>5, <2>2 DEF HostInv, ClosedInOrder
    <2> QED BY <2>1, <2>2
  <1>12. FailuresRemembered'
    BY <1>5, <1>6 DEF HostInv, FailuresRemembered
  <1> QED BY <1>9, <1>10, <1>11, <1>12 DEF HostInv

\* A close before start begins the cleanup itself.
LEMMA CloseBeforeStartKeepsInv ==
    ASSUME HostInv, host.state = "created",
           CloseResources([Stopped(host) EXCEPT !.state = "closing",
                                                !.before = "pending"]),
           UNCHANGED <<pc, pass, kernel, seen>>
    PROVE  HostInv'
  <1> DEFINE h == [Stopped(host) EXCEPT !.state = "closing", !.before = "pending"]
             k == [Stopped(host) EXCEPT !.state = "closing"]
  <1>1. host \in HostRows /\ HostTyped
    BY DEF HostInv, HostTyped
  <1>2. /\ k \in HostRows
        /\ k.state = "closing" /\ k.stop = TRUE
        /\ k.finished = host.finished /\ k.failure = host.failure
        /\ k.listening = host.listening /\ k.cleanup = host.cleanup
        /\ k.cleanupFailed = host.cleanupFailed
        /\ k.cleanupRetried = host.cleanupRetried /\ k.before = host.before
        /\ k.serviceClose = host.serviceClose
    BY <1>1 DEF Stopped, HostRows
  <1>3. h = [k EXCEPT !.before = "pending"] /\ CloseResources(h)
    OBVIOUS
  <1> HIDE DEF h, k
  <1>4. /\ h \in HostRows /\ h.before = "pending"
        /\ h.state = "closing" /\ h.stop = TRUE
        /\ h.finished = host.finished /\ h.failure = host.failure
        /\ h.listening = host.listening /\ h.cleanup = host.cleanup
        /\ h.cleanupFailed = host.cleanupFailed
        /\ h.cleanupRetried = host.cleanupRetried
        /\ h.serviceClose = host.serviceClose
    BY <1>2, <1>3 DEF HostRows
  <1>5. /\ pc = "idle" /\ host.cleanup = "none" /\ host.finished = "pending"
        /\ ~host.cleanupFailed /\ ~host.cleanupRetried
    BY DEF HostInv, LifecycleKnows
  <1>6. /\ host' \in HostRows /\ service' \in ServiceRows
        /\ executor' \in {"none", "pending", "ok", "failed"}
        /\ host'.cleanup = "pending" /\ host'.state = "closing"
        /\ executor = "ok" => executor' = "ok"
        /\ host'.finished = "pending" /\ host'.stop = TRUE
        /\ host'.failure = host.failure /\ host'.listening = host.listening
        /\ host'.cleanupFailed = host.cleanupFailed
        /\ host'.cleanupRetried = host.cleanupRetried
        /\ host'.before = "pending"
        /\ host'.serviceClose = "ok" => host.serviceClose = "ok"
        /\ service'.failed = service.failed
        /\ service.closing # "none" => service'.closing = service.closing
    BY ZenonT(60), <1>1, <1>3, <1>4, <1>5, CloseResourcesDo
  <1>7. "executor" \notin seen
    BY <1>5 DEF HostInv, FailuresRemembered, Failing, FailedStop
  <1>8. HostTyped'
    BY <1>6 DEF HostInv, HostTyped
  <1>9. LifecycleKnows'
    BY <1>5, <1>6 DEF HostInv, LifecycleKnows, Starting, Running, Leaving,
                      Cleaning, CleanStop
  <1>10. ClosedInOrder'
    BY <1>5, <1>6 DEF HostInv, ClosedInOrder
  <1>11. FailuresRemembered'
    BY <1>5, <1>6, <1>7 DEF HostInv, FailuresRemembered, Cleaning
  <1> QED BY <1>8, <1>9, <1>10, <1>11 DEF HostInv

\* Any other close asks the lifecycle to stop.
LEMMA CloseRunningKeepsInv ==
    ASSUME HostInv, host.state # "created",
           host' = ServiceCloseBegun([Stopped(host) EXCEPT !.state = "closing"]),
           service' = ServiceCloses(service),
           UNCHANGED <<pc, executor, pass, kernel, seen>>
    PROVE  HostInv'
  <1> DEFINE h == [Stopped(host) EXCEPT !.state = "closing"]
  <1>1. host \in HostRows /\ service \in ServiceRows
    BY DEF HostInv, HostTyped
  <1>2. /\ h \in HostRows
        /\ h.state = "closing" /\ h.stop = TRUE
        /\ h.finished = host.finished /\ h.failure = host.failure
        /\ h.listening = host.listening /\ h.cleanup = host.cleanup
        /\ h.cleanupFailed = host.cleanupFailed
        /\ h.cleanupRetried = host.cleanupRetried /\ h.before = host.before
        /\ h.serviceClose = host.serviceClose
    BY <1>1 DEF Stopped, HostRows
  <1>3. host' = ServiceCloseBegun(h)
    OBVIOUS
  <1> HIDE DEF h
  <1>4. /\ host' \in HostRows
        /\ host'.state = "closing" /\ host'.stop = TRUE
        /\ host'.finished = host.finished /\ host'.failure = host.failure
        /\ host'.listening = host.listening /\ host'.cleanup = host.cleanup
        /\ host'.cleanupFailed = host.cleanupFailed
        /\ host'.cleanupRetried = host.cleanupRetried /\ host'.before = host.before
        /\ host'.serviceClose = "ok" => host.serviceClose = "ok"
    BY ZenonT(60), <1>2, <1>3 DEF ServiceCloseBegun, HostRows
  <1>5. /\ service' \in ServiceRows
        /\ service'.failed = service.failed
        /\ service.closing # "none" => service'.closing = service.closing
    BY <1>1, ServiceClosesOnce
  <1>6. HostTyped'
    BY <1>4, <1>5 DEF HostInv, HostTyped
  <1>7. LifecycleKnows'
    BY <1>4 DEF HostInv, LifecycleKnows
  <1>8. ClosedInOrder'
    BY <1>4, <1>5 DEF HostInv, ClosedInOrder
  <1>9. FailuresRemembered'
    BY <1>4, <1>5 DEF HostInv, FailuresRemembered, Failing
  <1> QED BY <1>6, <1>7, <1>8, <1>9 DEF HostInv

\* A step that touches nothing the invariant reads.
LEMMA IdleKeepsHostInv ==
    ASSUME HostInv, UNCHANGED <<host, pc, service, executor, pass, kernel, seen>>
    PROVE  HostInv'
  <1>1. HostTyped'
    BY DEF HostInv, HostTyped
  <1>2. LifecycleKnows'
    BY DEF HostInv, LifecycleKnows
  <1>3. ClosedInOrder'
    BY DEF HostInv, ClosedInOrder
  <1>4. FailuresRemembered'
    BY DEF HostInv, FailuresRemembered, Failing
  <1> QED BY <1>1, <1>2, <1>3, <1>4 DEF HostInv

LEMMA CloseKeepsInv ==
    ASSUME HostInv, Close
    PROVE  HostInv'
  <1>1. UNCHANGED <<pc, pass, kernel, seen>>
    BY DEF Close
  <1>2. CASE host.cleanupFailed \/ host.cleanupRetried
    BY <1>1, <1>2, RetryKeepsInv DEF Close
  <1>3. CASE ~(host.cleanupFailed \/ host.cleanupRetried) /\ host.state = "created"
    BY <1>1, <1>3, CloseBeforeStartKeepsInv DEF Close
  <1>4. CASE /\ ~(host.cleanupFailed \/ host.cleanupRetried)
             /\ host.state \notin {"created", "closed"}
    BY <1>1, <1>4, CloseRunningKeepsInv DEF Close
  <1>5. CASE ~(host.cleanupFailed \/ host.cleanupRetried) /\ host.state = "closed"
    BY <1>1, <1>5, IdleKeepsHostInv DEF Close
  <1> QED BY <1>2, <1>3, <1>4, <1>5

-----------------------------------------------------------------------------
(* The host's theorems *)

\* Every step of the host preserves the invariant.
LEMMA HostStepKeepsInv == HostInv /\ [HostNext]_hostVars => HostInv'
  <1> SUFFICES ASSUME HostInv, [HostNext]_hostVars
               PROVE  HostInv'
    OBVIOUS
  <1>1. Faults \subseteq FaultKinds
    BY HostLifecycleAssumption
  <1>2. CASE Start
    BY <1>2, StartKeepsInv
  <1>3. CASE Close
    BY <1>3, CloseKeepsInv
  <1>4. CASE Lifecycle
    BY <1>1, <1>4, RecoveryKeepsInv, ListensKeepsInv, BindsKeepsInv,
       LogsStartKeepsInv, LogsNoStartKeepsInv, RaceEndsKeepsInv, FinallyKeepsInv,
       LogsStopKeepsInv, LogsFailedStopKeepsInv DEF Lifecycle
  <1>5. CASE PassEnds \/ PassBegins
    BY <1>1, <1>5, PassKeepsInv
  <1>6. CASE Request \/ RequestEnds
    BY <1>1, <1>6, RequestsFail, ServiceFailsKeepsInv
  <1>7. CASE ServiceClosed \/ ServiceCloseKnown
    BY <1>1, <1>7, ServiceClosedKeepsInv
  <1>8. CASE ExecutorClosed
    BY <1>1, <1>8, ExecutorClosedKeepsInv
  <1>9. CASE CleanupEnds
    BY <1>9, CleanupSucceeds, CleanupFails
  <1>10. CASE UNCHANGED hostVars
    BY <1>10, IdleKeepsHostInv DEF hostVars
  <1> QED BY <1>2, <1>3, <1>4, <1>5, <1>6, <1>7, <1>8, <1>9, <1>10 DEF HostNext

LEMMA HostInitInv == HostInit => HostInv
  <1> SUFFICES ASSUME HostInit
               PROVE  HostInv
    OBVIOUS
  <1>1. HostTyped
    BY HostLifecycleAssumption DEF HostInit, HostTyped, HostRows, ServiceRows, Positions
  <1>2. LifecycleKnows
    BY DEF HostInit, LifecycleKnows, Starting, Running, Leaving, Cleaning,
           CleanStop
  <1>3. ClosedInOrder
    BY DEF HostInit, ClosedInOrder
  <1>4. FailuresRemembered
    BY DEF HostInit, FailuresRemembered, Failing, FailedStop
  <1> QED BY <1>1, <1>2, <1>3, <1>4 DEF HostInit, HostInv

\* The inductive invariant of the host holds in every state it reaches.
THEOREM HostInvariant == HostSpec => []HostInv
  BY HostInitInv, HostStepKeepsInv, PTL DEF HostSpec

\* Whatever fails and whenever a user closes, resources are closed in order, the
\* Kernel last, and a host that reports an orderly end saw nothing fail but the log
\* of a request.
THEOREM HostSafetyHolds == HostSpec => []HostSafety
  BY HostInvariant, HostInvIsSafe, PTL

\* Only the loop, which asks for the signal, begins a pass.
LEMMA PassesBeginUnstopped ==
    ASSUME HostInv, HostNext, pass' = "running", pass # "running"
    PROVE  ~host.stop /\ host.listening
  <1>1. LogsStart \/ PassBegins
    <2>1. CASE Lifecycle
      BY <2>1 DEF Lifecycle, LogsRecovery, Recovers, LogsRecovered, Listens, Binds,
                  LogsNoStart, RaceEnds, Finally, LogsStop, LogsFailedStop, Throws
    <2>2. CASE Start \/ Close \/ Request \/ RequestEnds \/ ServiceClosed
                  \/ ServiceCloseKnown \/ ExecutorClosed \/ CleanupEnds
      BY <2>2 DEF Start, Close, Request, RequestEnds, ServiceClosed,
                  ServiceCloseKnown, ExecutorClosed, CleanupEnds
    <2>3. CASE PassEnds
      BY <2>3 DEF PassEnds
    <2> QED BY <2>1, <2>2, <2>3 DEF HostNext
  <1>2. pass' = IfNotStopped("running") /\ (pc = "log start" \/ pass = "waiting")
    BY <1>1 DEF LogsStart, PassBegins, Throws
  <1>3. ~host.stop
    BY <1>2 DEF IfNotStopped
  <1>4. host.listening
    BY <1>2 DEF HostInv, LifecycleKnows, Running
  <1> QED BY <1>3, <1>4

\* Only listen, which has looked at the signal, starts the service.
LEMMA ListensUnstopped ==
    ASSUME HostInv, HostNext, service'.state = "starting",
           service.state # "starting"
    PROVE  ~host.stop
  <1>1. service \in ServiceRows
    BY DEF HostInv, HostTyped
  <1>2. service' # service
    OBVIOUS
  <1>3. service' # ServiceCloses(service)
    BY <1>1, ServiceClosesOnce
  <1>4. CASE Start \/ PassEnds \/ PassBegins \/ ServiceCloseKnown \/ ExecutorClosed
                \/ CleanupEnds
    BY <1>2, <1>4 DEF Start, PassEnds, PassBegins, ServiceCloseKnown, ExecutorClosed,
                      CleanupEnds
  <1>5. CASE Close
    BY <1>2, <1>3, <1>5 DEF Close, CloseResources
  <1>6. CASE Finally
    BY <1>2, <1>3, <1>6 DEF Finally, CloseResources
  <1>7. CASE Listens
    BY <1>2, <1>7 DEF Listens
  <1>8. CASE Binds
    <2>1. service' = [service EXCEPT !.state =
                         IF @ = "starting" THEN "listening" ELSE @]
      BY <1>3, <1>8 DEF Binds
    <2> QED BY <1>1, <2>1 DEF ServiceRows
  <1>9. CASE Lifecycle /\ ~Finally /\ ~Listens /\ ~Binds
    BY <1>2, <1>9 DEF Lifecycle, LogsRecovery, Recovers, LogsRecovered, LogsStart,
                      LogsNoStart, RaceEnds, LogsStop, LogsFailedStop, Throws
  <1>10. CASE Request
    BY <1>1, <1>10 DEF Request, ServiceRows
  <1>11. CASE RequestEnds
    <2> DEFINE r == [service EXCEPT !.handlers = @ - 1]
               t == [r EXCEPT !.failed = TRUE]
    <2>1. r \in ServiceRows /\ r.state = service.state
      BY <1>1 DEF ServiceRows
    <2>2. service' = r \/ service' = ServiceCloses(t)
      BY <1>11 DEF RequestEnds
    <2> HIDE DEF r
    <2>3. t \in ServiceRows /\ t.state = service.state
      BY <2>1 DEF ServiceRows
    <2> HIDE DEF t
    <2> QED BY <2>1, <2>2, <2>3, ServiceClosesOnce
  <1>12. CASE ServiceClosed
    BY <1>1, <1>12 DEF ServiceClosed, ServiceRows
  <1> QED BY <1>4, <1>5, <1>6, <1>7, <1>8, <1>9, <1>10, <1>11, <1>12
             DEF HostNext

LEMMA BeginningsUnstopped ==
    HostInv /\ [HostNext]_hostVars =>
        [/\ pass' = "running" /\ pass # "running" => ~host.stop /\ host.listening
         /\ service'.state = "starting" /\ service.state # "starting" =>
               ~host.stop]_hostVars
  BY PassesBeginUnstopped, ListensUnstopped

\* No pass and no listen of a host begins once a stop was requested, and no pass
\* before the port is bound.
THEOREM NothingBeginsStoppedHolds == HostSpec => NothingBeginsStopped
  BY BeginningsUnstopped, HostInvariant, PTL DEF HostSpec, NothingBeginsStopped

-----------------------------------------------------------------------------
(***************************************************************************)
(* The stream of events, for any sizes of pages and buffers and any number *)
(* of events, connections and failures.  NothingMissed relates what the    *)
(* page holds to its cursor; what it will hold is on the wire, and then in *)
(* the page its handler is writing.  WireInv says that the chunks on the   *)
(* wire continue the cursor without a gap, LiveInv that the handler        *)
(* continues the wire: what is left of its page is what the reader may see *)
(* beyond the last chunk.                                                  *)
(***************************************************************************)

PageRows == [events : SUBSET Nat, through : Nat, hasMore : BOOLEAN]

StreamRows ==
    [pc : {"Page", "Full", "Asleep", "Ended"}, prev : Nat, page : PageRows,
     left : SUBSET Nat, aborted : BOOLEAN]

BrowserRows ==
    [phase : {"Away", "Ready", "Live", "Ending", "Reconnecting", "Refused"},
     base : Nat, lastId : Nat, got : SUBSET Nat, conn : Nat]

Chunks == [id : Nat, event : BOOLEAN]

\* A handler's row.
Stream(r) ==
    /\ r \in StreamRows
    /\ r.left \subseteq r.page.events
    /\ r.page.through <= Len(log)

StreamTyped ==
    /\ log \in Seq(BOOLEAN) /\ Len(log) <= MaxEvents
    /\ session \in {"Current", "Revoked", "Expired"} /\ serving \in BOOLEAN
    /\ browser \in BrowserRows
    /\ wire \in Seq(Chunks)
    /\ streams \in Seq(StreamRows)
    /\ \A s \in DOMAIN streams : Stream(streams[s])

\* How far the browser gets with what is on the wire.
Reach == IF wire = << >> THEN Cursor(browser) ELSE wire[Len(wire)].id

\* A chunk takes its reader further, over nothing but what it carries.
Carries(from, chunk) ==
    /\ from < chunk.id /\ chunk.id <= Len(log)
    /\ Visible(from, chunk.id) = IF chunk.event THEN {chunk.id} ELSE {}

Preceding(k) == IF k = 1 THEN Cursor(browser) ELSE wire[k - 1].id

WireInv ==
    /\ Len(wire) <= Buffer
    /\ \A k \in 1..Len(wire) : Carries(Preceding(k), wire[k])
    /\ wire # << >> => browser.phase \in {"Live", "Ending"}

BrowserInv ==
    /\ browser.phase = "Away" => browser.lastId = 0 /\ browser.got = {}
    /\ browser.base <= Cursor(browser) /\ Cursor(browser) <= Len(log)
    /\ browser.conn # 0 <=> browser.phase = "Live"
    /\ browser.conn # 0 => browser.conn \in DOMAIN streams /\ Open(browser.conn)
    /\ NothingMissed

\* A handler that continues the wire.
Continues(r) ==
    /\ r.prev <= Reach /\ Reach <= r.page.through
    /\ r.left = Visible(Reach, r.page.through)
    /\ \A e \in r.page.events : e <= Reach \/ e \in r.left
    /\ Reach = r.page.through => r.prev = Reach \/ Reach \in r.page.events
    /\ r.pc # "Full" /\ ~r.aborted => Len(wire) < Buffer
    /\ r.pc = "Asleep" => Reach = r.page.through

LiveInv == browser.conn # 0 => Continues(streams[browser.conn])

StreamInv == StreamTyped /\ WireInv /\ BrowserInv /\ LiveInv

-----------------------------------------------------------------------------
(* Pages, cursors and wires *)

\* A set of naturals has a least element, which is the one that Min chooses.
LEMMA LeastNatural ==
    ASSUME NEW S \in SUBSET Nat, S # {}
    PROVE  Min(S) \in S /\ \A y \in S : Min(S) <= y
  <1> DEFINE R == OpToRel(<, Nat)
  <1>1. \A x \in Nat, y \in Nat : y < x => <<y, x>> \in R
    BY DEF OpToRel
  <1>2. \E x \in S : \A y \in S : ~ (<<y, x>> \in R)
    <2>1. IsWellFoundedOn(R, Nat)
      BY NatLessThanWellFounded
    <2> HIDE DEF R
    <2> QED BY <2>1, WFMin
  <1> HIDE DEF R
  <1>3. PICK x \in S : \A y \in S : ~ (y < x)
    BY <1>1, <1>2, Zenon
  <1>4. \A y \in S : x <= y
    BY <1>3
  <1> QED BY <1>4 DEF Min

\* The types, one by one.
LEMMA StreamTypes ==
    ASSUME StreamTyped
    PROVE  /\ Len(log) \in Nat /\ Len(wire) \in Nat /\ Len(streams) \in Nat
           /\ DOMAIN streams = 1..Len(streams)
           /\ browser.base \in Nat /\ browser.lastId \in Nat /\ browser.conn \in Nat
           /\ Cursor(browser) \in Nat /\ Reach \in Nat
           /\ \A k \in 1..Len(wire) : wire[k] \in Chunks /\ wire[k].id \in Nat
  <1>1. Len(log) \in Nat /\ Len(wire) \in Nat /\ Len(streams) \in Nat
    BY DEF StreamTyped
  <1>2. DOMAIN streams = 1..Len(streams)
    BY DEF StreamTyped
  <1>3. browser.base \in Nat /\ browser.lastId \in Nat /\ browser.conn \in Nat
    BY DEF StreamTyped, BrowserRows
  <1>4. Cursor(browser) \in Nat
    BY <1>3 DEF Cursor
  <1>5. \A k \in 1..Len(wire) : wire[k] \in Chunks
    BY DEF StreamTyped
  <1>6. \A k \in 1..Len(wire) : wire[k].id \in Nat
    BY <1>5 DEF Chunks
  <1>7. Reach \in Nat
    BY <1>1, <1>4, <1>6 DEF Reach, StreamTyped
  <1> QED BY <1>1, <1>2, <1>3, <1>4, <1>5, <1>6, <1>7

\* What is visible up to a point is so in parts.
LEMMA VisibleInParts ==
    ASSUME NEW a \in Nat, NEW b \in Nat, NEW c \in Nat, a <= b, b <= c
    PROVE  /\ Visible(a, c) = Visible(a, b) \cup Visible(b, c)
           /\ Visible(a, a) = {}
           /\ Visible(a, c) \in SUBSET Nat
           /\ \A e \in Visible(a, c) : a < e /\ e <= c
  BY DEF Visible

\* A row read from the log is a handler's row, at the head of its loop.
LEMMA ReadingContinues ==
    ASSUME StreamTyped, NEW cursor \in Nat, cursor <= Len(log)
    PROVE  LET r == Reading(cursor)
           IN  /\ Stream(r) /\ r.prev = cursor /\ r.pc = "Page"
               /\ cursor <= r.page.through /\ ~r.aborted
               /\ r.left = Visible(cursor, r.page.through)
               /\ r.page.events = r.left
  <1> DEFINE through == IF Len(log) < cursor + Batch THEN Len(log) ELSE cursor + Batch
             page == [events |-> Visible(cursor, through), through |-> through,
                      hasMore |-> Len(log) > through]
  <1>1. Len(log) \in Nat /\ Batch \in Nat
    BY StreamTypes, StreamAssumption
  <1>2. through \in Nat /\ cursor <= through /\ through <= Len(log)
    BY <1>1
  <1>3. Visible(cursor, through) \in SUBSET Nat
    BY <1>2 DEF Visible
  <1>4. Page(cursor) = page
    BY DEF Page
  <1> HIDE DEF through
  <1>5. page \in PageRows
    BY <1>2, <1>3 DEF PageRows
  <1>6. Reading(cursor) = [pc |-> "Page", prev |-> cursor, page |-> page,
                           left |-> Visible(cursor, through), aborted |-> FALSE]
    BY <1>4 DEF Reading
  <1>7. Reading(cursor) \in StreamRows
    BY <1>3, <1>5, <1>6 DEF StreamRows
  <1> QED BY <1>2, <1>6, <1>7 DEF Stream

LEMMA EndedIsStream == ASSUME StreamTyped PROVE Stream(Ended)
  <1>1. Ended.page \in PageRows
    BY DEF Ended, PageRows
  <1>2. Ended \in StreamRows
    BY <1>1 DEF Ended, StreamRows
  <1> QED BY <1>2, StreamTypes DEF Stream, Ended

\* A stream's row is replaced.
LEMMA RowReplaced ==
    ASSUME StreamTyped, NEW s \in DOMAIN streams, NEW r, Stream(r),
           streams' = [streams EXCEPT ![s] = r], log' = log
    PROVE  /\ streams' \in Seq(StreamRows)
           /\ DOMAIN streams' = DOMAIN streams /\ Len(streams') = Len(streams)
           /\ streams'[s] = r
           /\ \A t \in DOMAIN streams : t # s => streams'[t] = streams[t]
           /\ \A t \in DOMAIN streams' : Stream(streams[t])'
  <1>1. streams \in Seq(StreamRows) /\ r \in StreamRows
    BY DEF StreamTyped, Stream
  <1>2. /\ streams' \in Seq(StreamRows)
        /\ DOMAIN streams' = DOMAIN streams /\ Len(streams') = Len(streams)
        /\ streams'[s] = r
        /\ \A t \in DOMAIN streams : t # s => streams'[t] = streams[t]
    BY <1>1
  <1>3. \A t \in DOMAIN streams' : Stream(streams[t])'
    <2> SUFFICES ASSUME NEW t \in DOMAIN streams
                 PROVE  Stream(streams[t])'
      BY <1>2
    <2>1. Stream(streams[t])
      BY DEF StreamTyped
    <2> QED BY <1>2, <2>1 DEF Stream
  <1> QED BY <1>2, <1>3

\* A step of a handler that nobody listens to.
LEMMA OtherStreamKeepsInv ==
    ASSUME StreamInv, NEW s \in DOMAIN streams, s # browser.conn,
           NEW r, Stream(r), streams' = [streams EXCEPT ![s] = r],
           UNCHANGED <<log, session, serving, browser, wire>>
    PROVE  StreamInv'
  <1>1. StreamTyped
    BY DEF StreamInv
  <1>2. /\ streams' \in Seq(StreamRows)
        /\ DOMAIN streams' = DOMAIN streams
        /\ \A t \in DOMAIN streams : t # s => streams'[t] = streams[t]
        /\ \A t \in DOMAIN streams' : Stream(streams[t])'
    BY <1>1, RowReplaced
  <1>3. StreamTyped'
    BY <1>1, <1>2 DEF StreamTyped
  <1>4. WireInv'
    BY DEF StreamInv, WireInv, Carries, Preceding, Visible
  <1>5. BrowserInv'
    BY <1>2 DEF StreamInv, BrowserInv, NothingMissed, Visible, Open
  <1>6. LiveInv'
    <2> SUFFICES ASSUME browser.conn # 0
                 PROVE  Continues(streams[browser.conn])'
      BY DEF LiveInv
    <2>1. streams'[browser.conn] = streams[browser.conn]
      BY <1>2 DEF StreamInv, BrowserInv
    <2> QED BY <2>1 DEF StreamInv, LiveInv, Continues, Reach, Visible
  <1> QED BY <1>3, <1>4, <1>5, <1>6 DEF StreamInv

\* A step of the browser's handler that writes nothing.
LEMMA OwnStreamKeepsInv ==
    ASSUME StreamInv, browser.conn # 0, NEW s \in DOMAIN streams, s = browser.conn,
           NEW r, Stream(r), r.pc # "Ended", Continues(r),
           streams' = [streams EXCEPT ![s] = r],
           UNCHANGED <<log, session, serving, browser, wire>>
    PROVE  StreamInv'
  <1>1. StreamTyped
    BY DEF StreamInv
  <1>2. /\ streams' \in Seq(StreamRows)
        /\ DOMAIN streams' = DOMAIN streams
        /\ streams'[s] = r
        /\ \A t \in DOMAIN streams' : Stream(streams[t])'
    BY <1>1, RowReplaced
  <1>3. StreamTyped'
    BY <1>1, <1>2 DEF StreamTyped
  <1>4. WireInv'
    BY DEF StreamInv, WireInv, Carries, Preceding, Visible
  <1>5. BrowserInv'
    BY <1>2 DEF StreamInv, BrowserInv, NothingMissed, Visible, Open
  <1>6. LiveInv'
    BY <1>2 DEF LiveInv, Continues, Reach, Visible
  <1> QED BY <1>3, <1>4, <1>5, <1>6 DEF StreamInv

\* Either of them.
LEMMA StreamTurnKeepsInv ==
    ASSUME StreamInv, NEW s \in DOMAIN streams, NEW r, Stream(r), r.pc # "Ended",
           s = browser.conn => Continues(r),
           streams' = [streams EXCEPT ![s] = r],
           UNCHANGED <<log, session, serving, browser, wire>>
    PROVE  StreamInv'
  <1>1. CASE s # browser.conn
    BY <1>1, OtherStreamKeepsInv
  <1>2. CASE s = browser.conn
    <2>1. browser.conn # 0
      BY <1>2, StreamTypes DEF StreamInv
    <2> QED BY <1>2, <2>1, OwnStreamKeepsInv
  <1> QED BY <1>1, <1>2

\* A chunk that continues the wire is written.
LEMMA WireGrows ==
    ASSUME StreamTyped, WireInv, browser.phase \in {"Live", "Ending"},
           NEW chunk \in Chunks, Carries(Reach, chunk), Len(wire) < Buffer,
           wire' = Append(wire, chunk), UNCHANGED <<log, browser>>
    PROVE  WireInv' /\ wire' \in Seq(Chunks) /\ Len(wire') = Len(wire) + 1
           /\ Reach' = chunk.id
  <1>1. /\ wire' \in Seq(Chunks) /\ Len(wire') = Len(wire) + 1
        /\ \A k \in 1..Len(wire) : wire'[k] = wire[k]
        /\ wire'[Len(wire) + 1] = chunk
        /\ Len(wire) \in Nat
    BY DEF StreamTyped
  <1>2. wire' # << >> /\ Reach' = chunk.id
    BY <1>1 DEF Reach
  <1>3. ASSUME NEW k \in 1..Len(wire')
        PROVE  Carries(Preceding(k), wire[k])'
    <2>1. CASE k \in 1..Len(wire)
      <3>1. wire'[k] = wire[k] /\ Preceding(k)' = Preceding(k)
        BY <1>1, <2>1 DEF Preceding
      <3>2. Carries(Preceding(k), wire[k])
        BY <2>1 DEF WireInv
      <3> QED BY <3>1, <3>2 DEF Carries, Visible
    <2>2. CASE k = Len(wire) + 1
      <3>1. wire'[k] = chunk
        BY <1>1, <2>2
      <3>2. Preceding(k)' = Reach
        BY <1>1, <2>2 DEF Preceding, Reach, StreamTyped
      <3> QED BY <3>1, <3>2 DEF Carries, Visible
    <2> QED BY <1>1, <1>3, <2>1, <2>2
  <1>4. Len(wire') <= Buffer
    BY <1>1, StreamAssumption
  <1> QED BY <1>1, <1>2, <1>3, <1>4 DEF WireInv

\* The connection is let go: what was on the wire is lost, or still to be read.
LEMMA LetGoKeepsInv ==
    ASSUME StreamInv, browser.phase # "Away",
           NEW p \in {"Ending", "Reconnecting"},
           browser' = [browser EXCEPT !.phase = p, !.conn = 0],
           wire' = << >> \/ (wire' = wire /\ p = "Ending"),
           log' = log, session' = session, serving' \in BOOLEAN,
           streams' \in Seq(StreamRows),
           \A t \in DOMAIN streams' : Stream(streams[t])'
    PROVE  StreamInv'
  <1>1. browser \in BrowserRows
    BY DEF StreamInv, StreamTyped
  <1>2. /\ browser' \in BrowserRows /\ browser'.phase = p /\ browser'.conn = 0
        /\ browser'.base = browser.base /\ browser'.lastId = browser.lastId
        /\ browser'.got = browser.got
    BY <1>1 DEF BrowserRows
  <1>3. Cursor(browser)' = Cursor(browser)
    BY <1>2 DEF Cursor
  <1>4. wire' \in Seq(Chunks)
    <2>1. << >> \in Seq(Chunks) /\ wire \in Seq(Chunks)
      BY DEF StreamInv, StreamTyped
    <2> QED BY <2>1
  <1>5. StreamTyped'
    BY <1>2, <1>4 DEF StreamInv, StreamTyped
  <1>6. WireInv'
    <2>1. CASE wire' = << >>
      BY <1>2, <2>1, StreamAssumption DEF WireInv
    <2>2. CASE wire' = wire /\ p = "Ending"
      BY <1>2, <1>3, <2>2 DEF StreamInv, WireInv, Carries, Preceding, Visible
    <2> QED BY <2>1, <2>2
  <1>7. BrowserInv'
    BY <1>2, <1>3 DEF StreamInv, BrowserInv, NothingMissed, Visible
  <1>8. LiveInv'
    BY <1>2 DEF LiveInv
  <1> QED BY <1>5, <1>6, <1>7, <1>8 DEF StreamInv

\* What the browser's handler writes continues the wire.
LEMMA OwnWriteKeepsInv ==
    ASSUME StreamInv, NEW s \in DOMAIN streams, s = browser.conn, browser.conn # 0,
           NEW chunk \in Chunks, Carries(Reach, chunk), Len(wire) < Buffer,
           NEW next, Stream(next), next.pc = "Page",
           next.prev <= chunk.id, chunk.id <= next.page.through,
           next.left = Visible(chunk.id, next.page.through),
           \A e \in next.page.events : e <= chunk.id \/ e \in next.left,
           chunk.id = next.page.through =>
              next.prev = chunk.id \/ chunk.id \in next.page.events,
           Write(s, chunk, next), UNCHANGED <<log, session, serving, browser>>
    PROVE  StreamInv'
  <1> DEFINE r == [next EXCEPT !.pc = IF Len(wire) + 1 >= Buffer THEN "Full" ELSE @]
  <1>1. StreamTyped /\ WireInv /\ browser.phase = "Live" /\ Len(wire) \in Nat
    BY StreamTypes DEF StreamInv, BrowserInv
  <1>2. wire' = Append(wire, chunk) /\ streams' = [streams EXCEPT ![s] = r]
    BY DEF Write
  <1>3. next \in StreamRows
    BY DEF Stream
  <1>4. /\ r \in StreamRows
        /\ r.prev = next.prev /\ r.page = next.page /\ r.left = next.left
        /\ r.aborted = next.aborted
        /\ r.pc = IF Len(wire) + 1 >= Buffer THEN "Full" ELSE "Page"
    BY <1>3 DEF StreamRows
  <1> HIDE DEF r
  <1>5. Stream(r)
    BY <1>4 DEF Stream
  <1>6. /\ streams' \in Seq(StreamRows)
        /\ DOMAIN streams' = DOMAIN streams
        /\ streams'[s] = r
        /\ \A t \in DOMAIN streams' : Stream(streams[t])'
    BY <1>1, <1>2, <1>5, RowReplaced
  <1>7. WireInv' /\ wire' \in Seq(Chunks) /\ Len(wire') = Len(wire) + 1
        /\ Reach' = chunk.id
    BY <1>1, <1>2, WireGrows
  <1>8. StreamTyped'
    BY <1>1, <1>6, <1>7 DEF StreamTyped
  <1>9. BrowserInv'
    BY <1>4, <1>6 DEF StreamInv, BrowserInv, NothingMissed, Visible, Open
  <1>10. Continues(streams[browser.conn])'
    <2>1. streams'[browser'.conn] = r
      BY <1>6
    <2>2. Visible(chunk.id, next.page.through)' = Visible(chunk.id, next.page.through)
      BY DEF Visible
    <2>3. r.pc # "Full" => Len(wire') < Buffer
      BY <1>1, <1>4, <1>7, StreamAssumption
    <2> QED BY <1>4, <1>7, <2>1, <2>2, <2>3 DEF Continues, Visible
  <1> QED BY <1>7, <1>8, <1>9, <1>10 DEF StreamInv, LiveInv

\* What another handler writes reaches nobody.
LEMMA OtherWriteKeepsInv ==
    ASSUME StreamInv, NEW s \in DOMAIN streams, s # browser.conn,
           NEW chunk, NEW next, Stream(next), next.pc = "Page",
           Write(s, chunk, next), UNCHANGED <<log, session, serving, browser>>
    PROVE  StreamInv'
  <1>1. wire' = wire /\ \E pc1 \in {"Full", next.pc} :
            streams' = [streams EXCEPT ![s] = [next EXCEPT !.pc = pc1]]
    BY DEF Write
  <1>2. PICK pc1 \in {"Full", "Page"} :
            streams' = [streams EXCEPT ![s] = [next EXCEPT !.pc = pc1]]
    BY <1>1
  <1> DEFINE r == [next EXCEPT !.pc = pc1]
  <1>3. next \in StreamRows
    BY DEF Stream
  <1>4. r \in StreamRows /\ r.page = next.page /\ r.left = next.left
    BY <1>3 DEF StreamRows
  <1>5. streams' = [streams EXCEPT ![s] = r]
    BY <1>2
  <1> HIDE DEF r
  <1>6. Stream(r)
    BY <1>4 DEF Stream
  <1> QED BY <1>1, <1>5, <1>6, OtherStreamKeepsInv

-----------------------------------------------------------------------------
(* The steps of a stream *)

LEMMA PublishKeepsInv ==
    ASSUME StreamInv, Publish
    PROVE  StreamInv'
  <1>1. PICK visible \in BOOLEAN : log' = Append(log, visible)
    BY DEF Publish
  <1>2. /\ log' \in Seq(BOOLEAN) /\ Len(log') = Len(log) + 1 /\ Len(log) \in Nat
        /\ \A e \in 1..Len(log) : log'[e] = log[e]
    BY <1>1 DEF StreamInv, StreamTyped
  <1>3. UNCHANGED <<session, serving, streams, browser, wire>> /\ Len(log) < MaxEvents
    BY DEF Publish
  <1>4. \A a, b \in Nat : b <= Len(log) => Visible(a, b)' = Visible(a, b)
    BY <1>2 DEF Visible
  <1>5. StreamTyped
    BY DEF StreamInv
  <1>6. StreamTyped'
    <2>1. Len(log') <= MaxEvents
      BY <1>2, <1>3, StreamAssumption
    <2>2. \A s \in DOMAIN streams : Stream(streams[s])'
      BY SMTT(40), <1>2, <1>3, <1>5, StreamTypes
         DEF StreamTyped, Stream, StreamRows, PageRows
    <2> QED BY <1>2, <1>3, <1>5, <2>1, <2>2 DEF StreamTyped
  <1>7. WireInv'
    <2> SUFFICES ASSUME NEW k \in 1..Len(wire)
                 PROVE  Carries(Preceding(k), wire[k])'
      BY <1>3 DEF StreamInv, WireInv
    <2>1. Carries(Preceding(k), wire[k])
      BY DEF StreamInv, WireInv
    <2>2. Preceding(k)' = Preceding(k)
      BY <1>3 DEF Preceding
    <2>3. wire[k].id \in Nat /\ Preceding(k) \in Nat
      BY <1>5, StreamTypes DEF Preceding
    <2>4. Visible(Preceding(k), wire[k].id)' = Visible(Preceding(k), wire[k].id)
      BY <1>3, <1>4, <2>1, <2>2, <2>3 DEF Carries, Visible
    <2> QED BY <1>2, <1>3, <2>1, <2>2, <2>3, <2>4 DEF Carries
  <1>8. BrowserInv'
    <2>1. Visible(browser.base, Cursor(browser))' = Visible(browser.base, Cursor(browser))
      BY <1>3, <1>4, <1>5, StreamTypes DEF StreamInv, BrowserInv, Visible
    <2> QED BY <1>2, <1>3, <1>5, <2>1, StreamTypes
            DEF StreamInv, BrowserInv, NothingMissed, Open
  <1>9. LiveInv'
    <2> SUFFICES ASSUME browser.conn # 0
                 PROVE  Continues(streams[browser.conn])'
      BY <1>3 DEF LiveInv
    <2> DEFINE r == streams[browser.conn]
    <2>1. Continues(r) /\ Stream(r)
      BY DEF StreamInv, LiveInv, BrowserInv, StreamTyped
    <2>2. r.page.through \in Nat /\ r.page.through <= Len(log) /\ Reach \in Nat
      BY <1>5, <2>1, StreamTypes DEF Stream, StreamRows, PageRows
    <2>3. Visible(Reach, r.page.through)' = Visible(Reach, r.page.through)
      BY <1>3, <1>4, <2>2 DEF Visible, Reach
    <2> QED BY <1>3, <2>1, <2>3 DEF Continues, Reach
  <1> QED BY <1>6, <1>7, <1>8, <1>9 DEF StreamInv

\* The session ends; nothing else changes.
LEMMA EndSessionKeepsInv ==
    ASSUME StreamInv, EndSession \/ UNCHANGED streamVars
    PROVE  StreamInv'
  <1>1. /\ UNCHANGED <<log, serving, streams, browser, wire>>
        /\ session' \in {"Current", "Revoked", "Expired"}
    BY DEF EndSession, streamVars, StreamInv, StreamTyped
  <1>2. StreamTyped'
    BY <1>1 DEF StreamInv, StreamTyped, Stream
  <1>3. WireInv'
    BY <1>1 DEF StreamInv, WireInv, Carries, Preceding, Visible
  <1>4. BrowserInv'
    BY <1>1 DEF StreamInv, BrowserInv, NothingMissed, Visible, Open
  <1>5. LiveInv'
    BY <1>1 DEF StreamInv, LiveInv, Continues, Reach, Visible
  <1> QED BY <1>2, <1>3, <1>4, <1>5 DEF StreamInv

\* Nothing the browser gave up is on the wire for it.
LEMMA ShutdownKeepsInv ==
    ASSUME StreamInv, Shutdown
    PROVE  StreamInv'
  <1>1. StreamTyped
    BY DEF StreamInv
  <1>2. /\ streams' = [s \in DOMAIN streams |-> [streams[s] EXCEPT !.aborted = Open(s)]]
        /\ wire' = << >> /\ log' = log /\ session' = session /\ serving' \in BOOLEAN
    BY DEF Shutdown
  <1>3. ASSUME NEW s \in DOMAIN streams
        PROVE  /\ streams'[s] \in StreamRows
               /\ streams'[s].left = streams[s].left
               /\ streams'[s].page = streams[s].page
    <2>1. streams[s] \in StreamRows
      BY <1>1 DEF StreamTyped
    <2>2. streams'[s] = [streams[s] EXCEPT !.aborted = Open(s)]
      BY <1>2
    <2>3. Open(s) \in BOOLEAN
      BY DEF Open
    <2> HIDE DEF Open
    <2> QED BY <2>1, <2>2, <2>3 DEF StreamRows
  <1>4. streams' \in [DOMAIN streams -> StreamRows] /\ DOMAIN streams' = DOMAIN streams
    BY <1>2, <1>3
  <1>5. streams' \in Seq(StreamRows)
    <2>1. streams' \in [1..Len(streams) -> StreamRows] /\ Len(streams) \in Nat
      BY <1>1, <1>4, StreamTypes
    <2> QED BY <2>1, SeqDef
  <1>6. \A t \in DOMAIN streams' : Stream(streams[t])'
    BY <1>1, <1>2, <1>3, <1>4 DEF StreamTyped, Stream
  <1>7. CASE browser.conn # 0
    <2>1. browser' = Lost(browser) /\ browser.phase # "Away"
      BY <1>7 DEF Shutdown, StreamInv, BrowserInv
    <2> QED BY <1>2, <1>5, <1>6, <2>1, LetGoKeepsInv DEF Lost
  <1>8. CASE browser.conn = 0
    <2>1. browser' = browser
      BY <1>8 DEF Shutdown
    <2>2. wire' \in Seq(Chunks)
      BY <1>2
    <2>3. StreamTyped'
      BY <1>1, <1>2, <1>5, <1>6, <2>1, <2>2 DEF StreamTyped
    <2>4. WireInv'
      BY <1>2, StreamAssumption DEF WireInv
    <2>5. BrowserInv'
      BY <1>2, <1>8, <2>1 DEF StreamInv, BrowserInv, NothingMissed, Visible
    <2>6. LiveInv'
      BY <1>8, <2>1 DEF LiveInv
    <2> QED BY <2>3, <2>4, <2>5, <2>6 DEF StreamInv
  <1> QED BY <1>7, <1>8

\* The snapshot holds what came before it.
LEMMA BootstrapKeepsInv ==
    ASSUME StreamInv, Bootstrap
    PROVE  StreamInv'
  <1>1. browser \in BrowserRows /\ Len(log) \in Nat /\ StreamTyped
    BY StreamTypes DEF StreamInv, StreamTyped
  <1>2. /\ browser.phase = "Away" /\ browser.lastId = 0 /\ browser.got = {}
        /\ browser.conn = 0 /\ wire = << >>
    BY DEF Bootstrap, StreamInv, BrowserInv, WireInv
  <1>3. /\ browser' = [browser EXCEPT !.phase = "Ready", !.base = Len(log)]
        /\ UNCHANGED <<log, session, serving, streams, wire>>
    BY DEF Bootstrap
  <1>4. /\ browser' \in BrowserRows /\ browser'.phase = "Ready"
        /\ browser'.base = Len(log) /\ browser'.lastId = 0 /\ browser'.got = {}
        /\ browser'.conn = 0
    BY <1>1, <1>2, <1>3 DEF BrowserRows
  <1>5. Cursor(browser)' = Len(log)
    BY <1>4 DEF Cursor
  <1>6. StreamTyped'
    BY <1>1, <1>3, <1>4 DEF StreamTyped, Stream
  <1>7. WireInv'
    BY <1>2, <1>3, StreamAssumption DEF WireInv
  <1>8. NothingMissed'
    BY <1>1, <1>3, <1>4, <1>5 DEF NothingMissed, Visible
  <1>9. BrowserInv'
    BY <1>1, <1>3, <1>4, <1>5, <1>8 DEF BrowserInv
  <1>10. LiveInv'
    BY <1>4 DEF LiveInv
  <1> QED BY <1>6, <1>7, <1>9, <1>10 DEF StreamInv

\* A new connection begins at the cursor.
LEMMA ConnectKeepsInv ==
    ASSUME StreamInv, Connect
    PROVE  StreamInv'
  <1>1. /\ browser \in BrowserRows /\ Len(log) \in Nat /\ StreamTyped
        /\ Cursor(browser) \in Nat /\ Cursor(browser) <= Len(log)
        /\ Len(streams) \in Nat
    BY StreamTypes DEF StreamInv, StreamTyped, BrowserInv
  <1>2. /\ browser.phase \in {"Ready", "Reconnecting"}
        /\ browser.conn = 0 /\ wire = << >>
        /\ UNCHANGED <<log, session, serving, wire>>
    BY DEF Connect, StreamInv, BrowserInv, WireInv
  <1>3. WireInv'
    BY <1>2, StreamAssumption DEF WireInv
  <1>4. CASE session = "Current"
    <2> PICK r : r = Reading(Cursor(browser))
      OBVIOUS
    <2>1. /\ streams' = Append(streams, r)
          /\ browser' = [browser EXCEPT !.phase = "Live", !.conn = Len(streams) + 1]
          /\ Len(streams) + 1 \in Nat
      BY <1>1, <1>4 DEF Connect
    <2>2. /\ Stream(r) /\ r.prev = Cursor(browser) /\ r.pc = "Page"
          /\ Cursor(browser) <= r.page.through /\ ~r.aborted
          /\ r.left = Visible(Cursor(browser), r.page.through)
          /\ r.page.events = r.left
      BY <1>1, ReadingContinues
    <2>3. /\ browser' \in BrowserRows /\ browser'.phase = "Live"
          /\ browser'.base = browser.base /\ browser'.lastId = browser.lastId
          /\ browser'.got = browser.got /\ browser'.conn = Len(streams) + 1
      BY <1>1, <2>1 DEF BrowserRows
    <2>4. r \in StreamRows /\ streams \in Seq(StreamRows)
      BY <1>1, <2>2 DEF Stream, StreamTyped
    <2>5. /\ streams' \in Seq(StreamRows) /\ DOMAIN streams' = 1..Len(streams) + 1
          /\ \A s \in 1..Len(streams) : streams'[s] = streams[s]
          /\ streams'[Len(streams) + 1] = r
      BY <2>1, <2>4
    <2>6. \A s \in DOMAIN streams' : Stream(streams[s])'
      <3> SUFFICES ASSUME NEW s \in 1..Len(streams) + 1
                   PROVE  Stream(streams[s])'
        BY <2>5
      <3>1. CASE s \in 1..Len(streams)
        BY <1>1, <1>2, <2>5, <3>1, StreamTypes DEF StreamTyped, Stream
      <3>2. CASE s = Len(streams) + 1
        BY <1>2, <2>2, <2>5, <3>2 DEF Stream
      <3> QED BY <1>1, <3>1, <3>2
    <2>7. StreamTyped'
      BY <1>1, <1>2, <2>3, <2>5, <2>6 DEF StreamTyped
    <2>8. Cursor(browser)' = Cursor(browser)
      BY <2>3 DEF Cursor
    <2>9. BrowserInv'
      BY <1>1, <1>2, <2>2, <2>3, <2>5, <2>8
         DEF StreamInv, BrowserInv, NothingMissed, Visible, Open
    <2>10. Continues(streams[browser.conn])'
      <3>1. streams'[browser'.conn] = r
        BY <2>3, <2>5
      <3>2. Reach' = Cursor(browser)
        BY <1>2, <2>8 DEF Reach
      <3>3. r.left = Visible(Reach, r.page.through)'
        BY <1>2, <2>2, <3>2 DEF Visible
      <3>4. Len(wire') < Buffer
        BY <1>2, StreamAssumption
      <3> QED BY <1>1, <2>2, <3>1, <3>2, <3>3, <3>4 DEF Continues
    <2> QED BY <1>3, <2>7, <2>9, <2>10 DEF StreamInv, LiveInv
  <1>5. CASE session # "Current"
    <2>1. /\ browser' = [browser EXCEPT !.phase = "Refused"]
          /\ UNCHANGED streams
      BY <1>5 DEF Connect
    <2>2. /\ browser' \in BrowserRows /\ browser'.phase = "Refused"
          /\ browser'.base = browser.base /\ browser'.lastId = browser.lastId
          /\ browser'.got = browser.got /\ browser'.conn = 0
      BY <1>1, <1>2, <2>1 DEF BrowserRows
    <2>3. StreamTyped'
      BY <1>1, <1>2, <2>1, <2>2 DEF StreamTyped, Stream
    <2>4. BrowserInv'
      BY <1>2, <2>1, <2>2 DEF StreamInv, BrowserInv, NothingMissed, Visible, Cursor
    <2>5. LiveInv'
      BY <2>2 DEF LiveInv
    <2> QED BY <1>3, <2>3, <2>4, <2>5 DEF StreamInv
  <1> QED BY <1>4, <1>5

\* A chunk is read from the wire: the browser goes where the chunk takes it.
LEMMA ReceiveKeepsInv ==
    ASSUME StreamInv, Receive
    PROVE  StreamInv'
  <1> DEFINE chunk == Head(wire)
  <1>1. /\ StreamTyped /\ browser \in BrowserRows /\ wire \in Seq(Chunks)
        /\ browser.base \in Nat /\ Cursor(browser) \in Nat
        /\ browser.base <= Cursor(browser)
    BY StreamTypes DEF StreamInv, StreamTyped, BrowserInv
  <1>2. /\ wire # << >> /\ wire' = Tail(wire)
        /\ browser' = [browser EXCEPT !.lastId = chunk.id,
                         !.got = IF chunk.event THEN @ \cup {chunk.id} ELSE @]
        /\ UNCHANGED <<log, session, serving, streams>>
    BY DEF Receive
  <1>3. /\ Len(wire) \in Nat \ {0} /\ chunk = wire[1] /\ chunk \in Chunks
        /\ wire' \in Seq(Chunks) /\ Len(wire') = Len(wire) - 1
        /\ \A k \in 1..Len(wire') : wire'[k] = wire[k + 1]
    BY <1>1, <1>2
  <1>4. chunk.id \in Nat /\ chunk.event \in BOOLEAN
    BY <1>3 DEF Chunks
  <1>5. Carries(Cursor(browser), chunk)
    BY <1>3 DEF StreamInv, WireInv, Preceding
  <1> HIDE DEF chunk
  <1>6. /\ browser' \in BrowserRows /\ browser'.phase = browser.phase
        /\ browser'.base = browser.base /\ browser'.lastId = chunk.id
        /\ browser'.conn = browser.conn
        /\ browser'.got = browser.got \cup (IF chunk.event THEN {chunk.id} ELSE {})
    BY <1>1, <1>2, <1>4 DEF BrowserRows
  <1>7. Cursor(browser)' = chunk.id /\ Cursor(browser) < chunk.id
        /\ chunk.id <= Len(log)
    BY <1>1, <1>4, <1>5, <1>6 DEF Cursor, Carries
  <1>8. NothingMissed'
    <2>1. browser'.got = Visible(browser.base, Cursor(browser))
                         \cup Visible(Cursor(browser), chunk.id)
      BY <1>5, <1>6 DEF StreamInv, BrowserInv, NothingMissed, Carries
    <2>2. Visible(browser.base, chunk.id) =
              Visible(browser.base, Cursor(browser))
                         \cup Visible(Cursor(browser), chunk.id)
      BY <1>1, <1>4, <1>7, VisibleInParts
    <2> QED BY <1>2, <1>6, <1>7, <2>1, <2>2 DEF NothingMissed, Visible
  <1>9. browser.phase \in {"Live", "Ending"}
    BY <1>2 DEF StreamInv, WireInv
  <1>10. Reach' = Reach
    <2>1. CASE Len(wire) = 1
      BY <1>2, <1>3, <1>7, <2>1 DEF Reach
    <2>2. CASE Len(wire) # 1
      <3>1. /\ wire' # << >> /\ Len(wire') \in 1..Len(wire')
            /\ Len(wire') + 1 = Len(wire)
        BY <1>3, <2>2
      <3>2. wire'[Len(wire')] = wire[Len(wire)]
        BY <1>3, <3>1
      <3> QED BY <1>2, <3>1, <3>2 DEF Reach
    <2> QED BY <2>1, <2>2
  <1>11. StreamTyped'
    BY <1>1, <1>2, <1>3, <1>6 DEF StreamTyped, Stream
  <1>12. WireInv'
    <2>1. ASSUME NEW k \in 1..Len(wire')
          PROVE  Carries(Preceding(k), wire[k])'
      <3>1. k + 1 \in 1..Len(wire) /\ wire'[k] = wire[k + 1]
        BY <1>3
      <3>2. Carries(Preceding(k + 1), wire[k + 1])
        BY <3>1 DEF StreamInv, WireInv
      <3>3. Preceding(k)' = Preceding(k + 1)
        <4>1. CASE k = 1
          BY <1>3, <1>7, <4>1 DEF Preceding
        <4>2. CASE k # 1
          <5>1. k - 1 \in 1..Len(wire') /\ k - 1 + 1 = k /\ k + 1 - 1 = k /\ k + 1 # 1
            BY <4>2, <1>3
          <5>2. wire'[k - 1] = wire[k]
            BY <1>3, <5>1
          <5> QED BY <4>2, <5>1, <5>2 DEF Preceding
        <4> QED BY <4>1, <4>2
      <3> QED BY <1>2, <3>1, <3>2, <3>3 DEF Carries, Visible
    <2>2. Len(wire') <= Buffer
      BY <1>3, StreamAssumption DEF StreamInv, WireInv
    <2> QED BY <1>6, <1>9, <2>1, <2>2 DEF WireInv
  <1>13. BrowserInv'
    BY <1>1, <1>2, <1>4, <1>6, <1>7, <1>8, <1>9 DEF StreamInv, BrowserInv, Open
  <1>14. LiveInv'
    BY <1>2, <1>3, <1>6, <1>10, StreamAssumption
       DEF StreamInv, LiveInv, Continues, Visible, WireInv
  <1> QED BY <1>11, <1>12, <1>13, <1>14 DEF StreamInv

\* The connection breaks, or the browser has read a response to its end.
LEMMA BreakKeepsInv ==
    ASSUME StreamInv, Break \/ ReadsEnd
    PROVE  StreamInv'
  <1>1. /\ browser' = [browser EXCEPT !.phase = "Reconnecting", !.conn = 0]
        /\ wire' = << >> /\ UNCHANGED <<log, session, serving, streams>>
    BY DEF Break, ReadsEnd, Lost
  <1>2. browser.phase # "Away"
    BY DEF Break, ReadsEnd, StreamInv, BrowserInv
  <1>3. /\ streams' \in Seq(StreamRows) /\ serving' \in BOOLEAN
        /\ \A t \in DOMAIN streams' : Stream(streams[t])'
    BY <1>1 DEF StreamInv, StreamTyped, Stream
  <1> QED BY <1>1, <1>2, <1>3, LetGoKeepsInv

\* What holds of the handler of s, the browser's or another.
LEMMA HandlerRow ==
    ASSUME StreamInv, NEW s \in DOMAIN streams
    PROVE  /\ Stream(streams[s]) /\ streams[s] \in StreamRows
           /\ streams[s].page \in PageRows
           /\ streams[s].prev \in Nat /\ streams[s].page.through \in Nat
           /\ streams[s].page.events \in SUBSET Nat
           /\ streams[s].left \in SUBSET Nat
           /\ s # 0
           /\ s = browser.conn => Continues(streams[s])
  <1>1. Stream(streams[s]) /\ streams[s] \in StreamRows
    BY DEF StreamInv, StreamTyped, Stream
  <1>2. s # 0
    BY StreamTypes DEF StreamInv
  <1>3. s = browser.conn => Continues(streams[s])
    BY <1>2 DEF StreamInv, LiveInv
  <1> QED BY <1>1, <1>2, <1>3 DEF StreamRows, PageRows

\* A handler is aborted, wakes up or goes to sleep.
LEMMA TurnsKeepInv ==
    ASSUME StreamInv, NEW s \in DOMAIN streams,
           ExpiryTimer(s) \/ Disconnect(s) \/ Drained(s) \/ Sleep(s)
    PROVE  StreamInv'
  <1>1. /\ Stream(streams[s]) /\ streams[s] \in StreamRows
        /\ streams[s].page.through \in Nat /\ streams[s].prev \in Nat
        /\ s # 0
        /\ s = browser.conn => Continues(streams[s])
    BY HandlerRow
  <1>2. UNCHANGED <<log, session, serving, browser, wire>>
    BY DEF ExpiryTimer, Disconnect, Drained, Sleep
  <1>3. CASE ExpiryTimer(s) \/ Disconnect(s)
    <2> DEFINE r == [streams[s] EXCEPT !.aborted = TRUE]
    <2>1. /\ r \in StreamRows /\ r.pc = streams[s].pc /\ r.prev = streams[s].prev
          /\ r.page = streams[s].page /\ r.left = streams[s].left /\ r.aborted = TRUE
      BY <1>1 DEF StreamRows
    <2>2. streams' = [streams EXCEPT ![s] = r] /\ r.pc # "Ended"
      BY <1>3, <2>1 DEF ExpiryTimer, Disconnect, Open, StreamInv, StreamTyped
    <2> HIDE DEF r
    <2>3. Stream(r)
      BY <1>1, <2>1 DEF Stream
    <2>4. s = browser.conn => Continues(r)
      BY <1>1, <2>1 DEF Continues
    <2> QED BY <1>2, <2>2, <2>3, <2>4, StreamTurnKeepsInv
  <1>4. CASE Drained(s)
    <2> DEFINE r == [streams[s] EXCEPT !.pc = "Page"]
    <2>1. /\ r \in StreamRows /\ r.pc = "Page" /\ r.prev = streams[s].prev
          /\ r.page = streams[s].page /\ r.left = streams[s].left
          /\ r.aborted = streams[s].aborted
      BY <1>1 DEF StreamRows
    <2>2. streams' = [streams EXCEPT ![s] = r]
      BY <1>4 DEF Drained, StreamInv, StreamTyped
    <2> HIDE DEF r
    <2>3. Stream(r)
      BY <1>1, <2>1 DEF Stream
    <2>4. s = browser.conn => Continues(r)
      <3>1. streams[s].aborted \/ Len(wire) < Buffer
        BY <1>4, StreamAssumption DEF Drained
      <3> QED BY <1>1, <2>1, <3>1 DEF Continues
    <2>5. r.pc # "Ended"
      BY <2>1
    <2> QED BY <1>2, <2>2, <2>3, <2>4, <2>5, StreamTurnKeepsInv
  <1>5. CASE Sleep(s)
    <2> DEFINE r == [streams[s] EXCEPT !.pc = "Asleep"]
    <2>1. /\ r \in StreamRows /\ r.pc = "Asleep" /\ r.prev = streams[s].prev
          /\ r.page = streams[s].page /\ r.left = streams[s].left
          /\ r.aborted = streams[s].aborted
      BY <1>1 DEF StreamRows
    <2>2. streams' = [streams EXCEPT ![s] = r]
      BY <1>5 DEF Sleep, StreamInv, StreamTyped
    <2> HIDE DEF r
    <2>3. Stream(r)
      BY <1>1, <2>1 DEF Stream
    <2>4. s = browser.conn => Continues(r)
      <3> SUFFICES ASSUME s = browser.conn
                   PROVE  Continues(r)
        OBVIOUS
      <3>1. Reach \in Nat
        BY StreamTypes DEF StreamInv
      <3>2. Reach = streams[s].page.through
        BY <1>1, <1>5, <3>1 DEF Continues, Sleep, Written, TailHidden
      <3> QED BY <1>1, <1>5, <2>1, <3>2 DEF Continues, Sleep, Written
    <2>5. r.pc # "Ended"
      BY <2>1
    <2> QED BY <1>2, <2>2, <2>3, <2>4, <2>5, StreamTurnKeepsInv
  <1> QED BY <1>3, <1>4, <1>5

\* The least event left is written.
LEMMA WriteEventKeepsInv ==
    ASSUME StreamInv, NEW s \in DOMAIN streams, WriteEvent(s)
    PROVE  StreamInv'
  <1> DEFINE r == streams[s]
             e == Min(r.left)
             next == [r EXCEPT !.left = @ \ {e}]
  <1>1. /\ Stream(r) /\ r \in StreamRows /\ r.page \in PageRows
        /\ r.prev \in Nat /\ r.page.through \in Nat
        /\ r.page.events \in SUBSET Nat /\ r.left \in SUBSET Nat
        /\ s # 0
        /\ s = browser.conn => Continues(r)
    BY HandlerRow
  <1>2. /\ r.pc = "Page" /\ r.left # {} /\ ~r.aborted
        /\ Write(s, Chunk(e, TRUE), next)
        /\ UNCHANGED <<log, session, serving, browser>>
    BY DEF WriteEvent, MayContinue
  <1>3. e \in r.left /\ \A y \in r.left : e <= y
    BY <1>1, <1>2, LeastNatural
  <1> HIDE DEF e
  <1>4. /\ next \in StreamRows /\ next.pc = "Page" /\ next.prev = r.prev
        /\ next.page = r.page /\ next.left = r.left \ {e}
        /\ next.aborted = r.aborted
    BY <1>1, <1>2 DEF StreamRows
  <1> HIDE DEF next
  <1>5. Stream(next)
    BY <1>1, <1>4 DEF Stream
  <1>6. CASE s # browser.conn
    BY <1>2, <1>4, <1>5, <1>6, OtherWriteKeepsInv
  <1>7. CASE s = browser.conn
    <2> DEFINE chunk == Chunk(e, TRUE)
    <2>1. Continues(r) /\ Reach \in Nat /\ e \in Nat /\ StreamTyped
      BY <1>1, <1>3, <1>7, StreamTypes DEF StreamInv
    <2>2. /\ chunk \in Chunks /\ chunk.id = e /\ chunk.event
      BY <2>1 DEF Chunk, Chunks
    <2> HIDE DEF chunk
    <2>3. r.left = Visible(Reach, r.page.through) /\ Len(wire) < Buffer
      BY <1>2, <2>1 DEF Continues
    <2>4. Reach < e /\ e <= r.page.through /\ r.page.through <= Len(log)
      BY <1>1, <1>3, <2>1, <2>3 DEF Visible, Stream
    <2>5. Visible(Reach, e) = {e}
      BY <1>1, <1>3, <2>1, <2>3, <2>4 DEF Visible
    <2>6. next.left = Visible(e, r.page.through)
      BY <1>1, <1>3, <1>4, <2>1, <2>3, <2>4 DEF Visible
    <2>7. Carries(Reach, chunk)
      <3>1. Len(log) \in Nat
        BY <2>1, StreamTypes
      <3> QED BY <1>1, <2>1, <2>2, <2>4, <2>5, <3>1 DEF Carries
    <2>8. \A x \in next.page.events : x <= e \/ x \in next.left
      BY <1>1, <1>4, <2>1, <2>4 DEF Continues
    <2>9. e \in next.page.events /\ next.prev <= e
      BY <1>1, <1>3, <1>4, <2>1, <2>4 DEF Stream, Continues
    <2>10. Write(s, chunk, next)
      BY <1>2 DEF chunk
    <2>11. /\ next.prev <= chunk.id /\ chunk.id <= next.page.through
           /\ next.left = Visible(chunk.id, next.page.through)
           /\ \A x \in next.page.events : x <= chunk.id \/ x \in next.left
           /\ chunk.id \in next.page.events
      BY <1>4, <2>2, <2>4, <2>6, <2>8, <2>9
    <2>12. browser.conn # 0
      BY <1>1, <1>7
    <2> QED BY <1>2, <1>4, <1>5, <1>7, <2>2, <2>3, <2>7, <2>10, <2>11, <2>12,
               OwnWriteKeepsInv
  <1> QED BY <1>6, <1>7

\* The checkpoint moves the browser over what it may not see.
LEMMA WriteCheckpointKeepsInv ==
    ASSUME StreamInv, NEW s \in DOMAIN streams, WriteCheckpoint(s)
    PROVE  StreamInv'
  <1> DEFINE r == streams[s]
             next == Scanned(r)
  <1>1. /\ Stream(r) /\ r \in StreamRows /\ r.page \in PageRows
        /\ r.prev \in Nat /\ r.page.through \in Nat
        /\ r.page.events \in SUBSET Nat /\ r.left \in SUBSET Nat
        /\ s # 0
        /\ s = browser.conn => Continues(r)
    BY HandlerRow
  <1>2. /\ r.pc = "Page" /\ r.left = {} /\ ~r.aborted
        /\ r.page.through # r.prev /\ r.page.through \notin r.page.events
        /\ Write(s, Chunk(r.page.through, FALSE), next)
        /\ UNCHANGED <<log, session, serving, browser>>
    BY DEF WriteCheckpoint, MayContinue, TailHidden
  <1>3. /\ next \in StreamRows /\ next.pc = "Page" /\ next.prev = r.page.through
        /\ next.page = r.page /\ next.left = {} /\ next.aborted = r.aborted
    BY <1>1, <1>2 DEF Scanned, StreamRows
  <1> HIDE DEF next
  <1>4. Stream(next)
    BY <1>1, <1>2, <1>3 DEF Stream
  <1>5. CASE s # browser.conn
    BY <1>2, <1>3, <1>4, <1>5, OtherWriteKeepsInv
  <1>6. CASE s = browser.conn
    <2> DEFINE chunk == Chunk(r.page.through, FALSE)
    <2>1. Continues(r) /\ Reach \in Nat /\ Len(log) \in Nat /\ browser.conn # 0
      BY <1>1, <1>6, StreamTypes DEF StreamInv
    <2>2. /\ chunk \in Chunks /\ chunk.id = r.page.through /\ ~chunk.event
      BY <1>1 DEF Chunk, Chunks
    <2>3. Write(s, chunk, next)
      BY <1>2
    <2> HIDE DEF chunk
    <2>4. Reach < r.page.through /\ r.page.through <= Len(log) /\ Len(wire) < Buffer
      BY <1>1, <1>2, <2>1 DEF Continues, Stream
    <2>5. Visible(Reach, r.page.through) = {}
      BY <1>2, <2>1 DEF Continues
    <2>6. Carries(Reach, chunk)
      BY <2>2, <2>4, <2>5 DEF Carries
    <2>7. next.left = Visible(chunk.id, next.page.through)
      BY <1>1, <1>3, <2>2, VisibleInParts
    <2>8. \A x \in next.page.events : x <= chunk.id \/ x \in next.left
      BY <1>1, <1>2, <1>3, <2>1, <2>2, <2>4 DEF Continues
    <2>9. next.prev <= chunk.id /\ chunk.id <= next.page.through /\ next.prev = chunk.id
      BY <1>1, <1>3, <2>2
    <2> QED BY <1>2, <1>3, <1>4, <1>6, <2>1, <2>2, <2>3, <2>4, <2>6, <2>7, <2>8,
               <2>9, OwnWriteKeepsInv
  <1> QED BY <1>5, <1>6

\* The next page is read where the last one ends.
LEMMA ReadPageKeepsInv ==
    ASSUME StreamInv, NEW s \in DOMAIN streams, ReadPage(s)
    PROVE  StreamInv'
  <1> DEFINE through == streams[s].page.through
  <1>1. /\ Stream(streams[s]) /\ streams[s].prev \in Nat
        /\ s # 0
        /\ s = browser.conn => Continues(streams[s])
        /\ through \in Nat
    BY HandlerRow
  <1>2. /\ Reads(s) /\ streams' = [streams EXCEPT ![s] = Reading(through)]
        /\ UNCHANGED <<log, session, serving, browser, wire>>
    BY DEF ReadPage
  <1>3. StreamTyped /\ Reach \in Nat /\ through <= Len(log)
    BY <1>1, StreamTypes DEF StreamInv, Stream
  <1>4. s = browser.conn => Reach = through
    BY <1>1, <1>2, <1>3 DEF Continues, Reads, Written, TailHidden
  <1>5. s = browser.conn => Len(wire) < Buffer
    BY <1>1, <1>2 DEF Continues, Reads, Written, MayContinue
  <1> HIDE DEF through
  <1>6. PICK r : r = Reading(through)
    OBVIOUS
  <1>7. /\ Stream(r) /\ r.prev = through /\ r.pc = "Page"
        /\ through <= r.page.through /\ ~r.aborted
        /\ r.left = Visible(through, r.page.through)
        /\ r.page.events = r.left
    BY <1>1, <1>3, <1>6, ReadingContinues
  <1>8. s = browser.conn => Continues(r)
    BY <1>3, <1>4, <1>5, <1>7 DEF Continues
  <1>9. r.pc # "Ended"
    BY <1>7
  <1> QED BY <1>2, <1>6, <1>7, <1>8, <1>9, StreamTurnKeepsInv

\* A handler ends, by itself or with its response destroyed.
LEMMA EndsKeepInv ==
    ASSUME StreamInv, NEW s \in DOMAIN streams, QueryFails(s) \/ Ends(s)
    PROVE  StreamInv'
  <1>1. StreamTyped /\ Stream(Ended) /\ s # 0
    BY EndedIsStream, HandlerRow DEF StreamInv
  <1>2. /\ streams' = [streams EXCEPT ![s] = Ended]
        /\ UNCHANGED <<log, session, serving>>
        /\ s # browser.conn => UNCHANGED <<browser, wire>>
    BY DEF QueryFails, Ends
  <1>3. CASE s # browser.conn
    BY <1>1, <1>2, <1>3, OtherStreamKeepsInv
  <1>4. CASE s = browser.conn
    <2>1. /\ streams' \in Seq(StreamRows)
          /\ \A t \in DOMAIN streams' : Stream(streams[t])'
      BY <1>1, <1>2, RowReplaced
    <2>2. browser.phase # "Away" /\ serving' \in BOOLEAN
      BY <1>1, <1>2, <1>4 DEF StreamInv, BrowserInv, StreamTyped
    <2>3. CASE QueryFails(s)
      <3>1. /\ browser' = [browser EXCEPT !.phase = "Reconnecting", !.conn = 0]
            /\ wire' = << >>
        BY <1>4, <2>3 DEF QueryFails, Lost
      <3> QED BY <1>2, <2>1, <2>2, <3>1, LetGoKeepsInv
    <2>4. CASE Ends(s)
      <3>1. /\ browser' = [browser EXCEPT !.phase = "Ending", !.conn = 0]
            /\ wire' = wire
        <4>1. /\ browser' = [browser EXCEPT !.conn = 0, !.phase = "Ending"]
              /\ wire' = wire
          BY <1>4, <2>4 DEF Ends
        <4>2. browser \in BrowserRows
          BY <1>1 DEF StreamTyped
        <4> QED BY <4>1, <4>2 DEF BrowserRows
      <3> QED BY <1>2, <2>1, <2>2, <3>1, LetGoKeepsInv
    <2> QED BY <2>3, <2>4
  <1> QED BY <1>3, <1>4

-----------------------------------------------------------------------------
(* The stream's theorems *)

LEMMA StreamInitInv == StreamInit => StreamInv
  <1> SUFFICES ASSUME StreamInit
               PROVE  StreamInv
    OBVIOUS
  <1>1. StreamTyped
    BY StreamAssumption DEF StreamInit, StreamTyped, BrowserRows
  <1>2. WireInv
    BY StreamAssumption DEF StreamInit, WireInv
  <1>3. BrowserInv
    BY DEF StreamInit, BrowserInv, NothingMissed, Visible, Cursor
  <1>4. LiveInv
    BY DEF StreamInit, LiveInv
  <1> QED BY <1>1, <1>2, <1>3, <1>4 DEF StreamInv

\* Every step of a stream preserves the invariant.
LEMMA StreamStepKeepsInv == StreamInv /\ [StreamNext]_streamVars => StreamInv'
  <1> SUFFICES ASSUME StreamInv, [StreamNext]_streamVars
               PROVE  StreamInv'
    OBVIOUS
  <1>1. CASE Publish
    BY <1>1, PublishKeepsInv
  <1>2. CASE EndSession \/ UNCHANGED streamVars
    BY <1>2, EndSessionKeepsInv
  <1>3. CASE Shutdown
    BY <1>3, ShutdownKeepsInv
  <1>4. CASE Bootstrap
    BY <1>4, BootstrapKeepsInv
  <1>5. CASE Connect
    BY <1>5, ConnectKeepsInv
  <1>6. CASE Receive
    BY <1>6, ReceiveKeepsInv
  <1>7. CASE Break \/ ReadsEnd
    BY <1>7, BreakKeepsInv
  <1>8. ASSUME NEW s \in DOMAIN streams,
               ExpiryTimer(s) \/ Disconnect(s) \/ QueryFails(s) \/ Handler(s)
        PROVE  StreamInv'
    BY <1>8, TurnsKeepInv, WriteEventKeepsInv, WriteCheckpointKeepsInv,
       ReadPageKeepsInv, EndsKeepInv DEF Handler
  <1> QED BY <1>1, <1>2, <1>3, <1>4, <1>5, <1>6, <1>7, <1>8 DEF StreamNext

\* The inductive invariant of a stream holds in every state it reaches.
THEOREM StreamInvariant == StreamSpec => []StreamInv
  BY StreamInitInv, StreamStepKeepsInv, PTL DEF StreamSpec

\* The invariant says what StreamSafety says.
LEMMA StreamInvIsSafe == StreamInv => StreamSafety
  <1> SUFFICES ASSUME StreamInv
               PROVE  StreamSafety
    OBVIOUS
  <1>1. StreamTyped /\ WireInv /\ BrowserInv
    BY DEF StreamInv
  <1>2. /\ Cursor(browser) \in Nat /\ Len(log) \in Nat
        /\ browser.base \in Nat /\ browser.lastId \in Nat
    BY <1>1, StreamTypes
  <1>3. browser.base \in 0..Len(log) /\ browser.lastId \in 0..Len(log)
    BY <1>1, <1>2 DEF BrowserInv, Cursor
  <1>4. ASSUME NEW s \in DOMAIN streams
        PROVE  /\ streams[s].pc \in {"Page", "Full", "Asleep", "Ended"}
               /\ streams[s].left \subseteq streams[s].page.events
               /\ streams[s].page.through \in 0..Len(log)
    BY <1>1, <1>2 DEF StreamTyped, Stream, StreamRows, PageRows
  <1>5. browser.phase \in
            {"Away", "Ready", "Live", "Ending", "Reconnecting", "Refused"}
    BY <1>1 DEF StreamTyped, BrowserRows
  <1>6. StreamTypeOK
    BY <1>1, <1>3, <1>4, <1>5 DEF StreamTypeOK, StreamTyped, WireInv, BrowserInv
  <1> QED BY <1>1, <1>6 DEF StreamSafety, BrowserInv

\* Whatever pages, buffers, hidden events, broken connections and failed queries
\* there are, the page has applied exactly what its reader may see between its
\* snapshot and its cursor.
THEOREM StreamSafetyHolds == StreamSpec => []StreamSafety
  BY StreamInvariant, StreamInvIsSafe, PTL

LEMMA ReceivedOnce ==
    StreamInv /\ [StreamNext]_streamVars =>
        [Receive /\ Head(wire).event => Head(wire).id \notin browser.got]_streamVars
  <1> SUFFICES ASSUME StreamInv, Receive, Head(wire).event
               PROVE  Head(wire).id \notin browser.got
    OBVIOUS
  <1>1. /\ Cursor(browser) \in Nat /\ browser.base \in Nat /\ wire # << >>
        /\ browser.base <= Cursor(browser) /\ wire \in Seq(Chunks)
    BY StreamTypes DEF StreamInv, BrowserInv, StreamTyped, Receive
  <1>2. Head(wire) = wire[1] /\ 1 \in 1..Len(wire) /\ wire[1] \in Chunks
    BY <1>1
  <1>3. Cursor(browser) < wire[1].id /\ wire[1].id \in Nat
    BY <1>2 DEF StreamInv, WireInv, Carries, Preceding, Chunks
  <1>4. browser.got = Visible(browser.base, Cursor(browser))
    BY DEF StreamInv, BrowserInv, NothingMissed
  <1> QED BY <1>1, <1>2, <1>3, <1>4 DEF Visible

LEMMA QuietAfterSession ==
    StreamInv /\ [StreamNext]_streamVars =>
        [session # "Current" => Len(wire') <= Len(wire)]_streamVars
  <1> SUFFICES ASSUME StreamInv, StreamNext, session # "Current"
               PROVE  Len(wire') <= Len(wire)
    BY DEF streamVars
  <1>1. Len(wire) \in Nat /\ wire \in Seq(Chunks)
    BY StreamTypes DEF StreamInv, StreamTyped
  <1>2. wire' = wire \/ wire' = << >> \/ (wire # << >> /\ wire' = Tail(wire))
    BY DEF StreamNext, Publish, EndSession, Shutdown, Bootstrap, Connect, Receive,
           Break, ReadsEnd, ExpiryTimer, Disconnect, QueryFails, Handler,
           WriteEvent, Drained, WriteCheckpoint, Sleep, ReadPage, Ends, MayContinue
  <1> QED BY <1>1, <1>2

\* The page's receive never applies an event a second time, and no handler of
\* PublicEventStream writes once its session was revoked or has expired.
THEOREM StreamStepsAreSoundHolds == StreamSpec => StreamStepsAreSound
  BY ReceivedOnce, QuietAfterSession, StreamInvariant, PTL
     DEF StreamSpec, StreamStepsAreSound, DeliveredOnce, SilentAfterSession

-----------------------------------------------------------------------------
(***************************************************************************)
(* The operational log, for any sizes of lines, files and queue.  That a   *)
(* known line is never gone before an older one rests on the order of      *)
(* numbers through files, sink and queue (QueueInv, FilesInv); that the    *)
(* file stays within its limit, on what the sink knew when it decided to   *)
(* append, two system calls earlier.                                       *)
(***************************************************************************)

Lines == [n : Nat \ {0}, size : Nat \ {0}]

Settlements == [n : Nat \ {0}, how : {"logged", "failed"}]

Outcomes == {"invalid", "refused", "accepted", "logged", "failed", "unknown"}

Numbers(file) == {file[k].n : k \in DOMAIN file}

\* What is, or will be, reported as logged.
Recorded ==
    {n \in DOMAIN outcome : outcome[n] = "logged"}
       \cup {s.n : s \in {t \in settling : t.how = "logged"}}

LogTyped ==
    /\ queue \in Seq(Lines) /\ current \in Seq(Lines) /\ previous \in Seq(Lines)
    /\ bytes \in Nat /\ pending \in Nat
    /\ step \in {"idle", "stat", "unlink", "rename", "append", "chmod"}
    /\ settling \in SUBSET Settlements
    /\ outcome \in Seq(Outcomes)

QueueInv ==
    /\ step # "idle" => queue # << >>
    /\ \A i, j \in DOMAIN queue : i < j => queue[i].n < queue[j].n
    /\ \A i \in DOMAIN queue : queue[i].n <= Len(outcome) /\ queue[i].size <= MaxLine
    /\ \A i \in DOMAIN queue : \A s \in settling : s.n < queue[i].n
    /\ \A s, t \in settling : s.n = t.n => s = t
    /\ Unfinished = Numbers(queue) \cup {s.n : s \in settling}
    /\ pending = Cardinality(Unfinished) /\ pending <= MaxPending

\* The files in order, before what is queued.
FilesInv ==
    /\ InOrder
    /\ \A k \in DOMAIN Files : Files[k].n <= Len(outcome)
    /\ \A k \in DOMAIN Files, i \in DOMAIN queue :
          Files[k].n < queue[i].n \/ (step = "chmod" /\ Files[k].n = queue[i].n)
    /\ step = "chmod" => Head(queue).n \in Numbers(current)

\* What the sink knows of the current file while it rotates and appends.
SinkInv ==
    /\ step \in {"unlink", "rename"} => current # << >>
    /\ step = "rename" => previous = << >>
    /\ FileSize <= MaxBytes
    /\ current # << >> => bytes > 0
    /\ step = "append" => FileSize + Head(queue).size <= MaxBytes

KeptInv ==
    /\ \A n \in Recorded : \A i \in DOMAIN queue : n < queue[i].n
    /\ \A m \in Numbers(Files) : \A n \in Recorded : n > m => n \in Numbers(Files)
    /\ \A n \in Recorded : \E m \in Numbers(Files) : m >= n

LogInv == LogTyped /\ QueueInv /\ FilesInv /\ SinkInv /\ KeptInv

-----------------------------------------------------------------------------
(* The log's steps *)

\* One file after the other.
LEMMA Joined ==
    ASSUME NEW p \in Seq(Lines), NEW c \in Seq(Lines), NEW f, f = p \o c
    PROVE  /\ f \in Seq(Lines) /\ Len(f) = Len(p) + Len(c)
           /\ Len(p) \in Nat /\ Len(c) \in Nat
           /\ DOMAIN f = 1..Len(f) /\ DOMAIN p = 1..Len(p) /\ DOMAIN c = 1..Len(c)
           /\ \A k \in DOMAIN p : k \in DOMAIN f /\ f[k] = p[k]
           /\ \A k \in DOMAIN c : Len(p) + k \in DOMAIN f /\ f[Len(p) + k] = c[k]
           /\ \A k \in DOMAIN f : \/ k \in DOMAIN p
                                  \/ k > Len(p) /\ k - Len(p) \in DOMAIN c
                                       /\ f[k] = c[k - Len(p)]
           /\ \A k \in DOMAIN f : f[k] \in Lines /\ f[k].n \in Nat \ {0}
           /\ Numbers(f) = Numbers(p) \cup Numbers(c)
           /\ Numbers(f) \subseteq Nat \ {0}
  <1>1. /\ f \in Seq(Lines) /\ Len(f) = Len(p) + Len(c)
        /\ Len(p) \in Nat /\ Len(c) \in Nat
        /\ DOMAIN f = 1..Len(f) /\ DOMAIN p = 1..Len(p) /\ DOMAIN c = 1..Len(c)
        /\ \A k \in 1..Len(p) : f[k] = p[k]
        /\ \A k \in 1..Len(c) : f[Len(p) + k] = c[k]
    OBVIOUS
  <1>2. ASSUME NEW k \in DOMAIN f
        PROVE  \/ k \in DOMAIN p
               \/ k > Len(p) /\ k - Len(p) \in DOMAIN c /\ f[k] = c[k - Len(p)]
    <2>1. CASE k > Len(p)
      <3>1. k - Len(p) \in 1..Len(c) /\ Len(p) + (k - Len(p)) = k
        BY <1>1, <2>1
      <3>2. f[k] = c[k - Len(p)]
        BY <1>1, <3>1
      <3> QED BY <1>1, <2>1, <3>1, <3>2
    <2> QED BY <1>1, <2>1
  <1>3. /\ \A k \in DOMAIN p : k \in DOMAIN f
        /\ \A k \in DOMAIN c : Len(p) + k \in DOMAIN f
    BY <1>1
  <1>4. \A k \in DOMAIN f : f[k] \in Lines
    BY <1>1
  <1>5. \A k \in DOMAIN f : f[k].n \in Nat \ {0}
    BY <1>4 DEF Lines
  <1>6. Numbers(f) = Numbers(p) \cup Numbers(c)
    BY <1>1, <1>2, <1>3 DEF Numbers
  <1>7. Numbers(f) \subseteq Nat \ {0}
    BY <1>5 DEF Numbers
  <1> QED BY <1>1, <1>2, <1>3, <1>4, <1>5, <1>6, <1>7

LEMMA JoinedNumbers ==
    ASSUME NEW p \in Seq(Lines), NEW c \in Seq(Lines)
    PROVE  Numbers(p \o c) = Numbers(p) \cup Numbers(c)
  <1>1. /\ DOMAIN (p \o c) = 1..Len(p) + Len(c)
        /\ Len(p) \in Nat /\ Len(c) \in Nat
        /\ DOMAIN p = 1..Len(p) /\ DOMAIN c = 1..Len(c)
        /\ \A k \in 1..Len(p) : (p \o c)[k] = p[k]
        /\ \A k \in 1..Len(c) : (p \o c)[Len(p) + k] = c[k]
    OBVIOUS
  <1>2. ASSUME NEW k \in 1..Len(p) + Len(c), k \notin 1..Len(p)
        PROVE  k - Len(p) \in 1..Len(c) /\ (p \o c)[k] = c[k - Len(p)]
    <2>1. k - Len(p) \in 1..Len(c) /\ Len(p) + (k - Len(p)) = k
      BY <1>1, <1>2
    <2> QED BY <1>1, <2>1
  <1>3. /\ \A k \in 1..Len(p) : k \in 1..Len(p) + Len(c)
        /\ \A k \in 1..Len(c) : Len(p) + k \in 1..Len(p) + Len(c)
    BY <1>1
  <1>4. Numbers(p \o c) \subseteq Numbers(p) \cup Numbers(c)
    BY <1>1, <1>2 DEF Numbers
  <1>5. Numbers(p) \subseteq Numbers(p \o c) /\ Numbers(c) \subseteq Numbers(p \o c)
    BY SMTT(40), <1>1, <1>3 DEF Numbers
  <1> QED BY <1>4, <1>5

\* The types, one by one.
LEMMA LogTypes ==
    ASSUME LogTyped
    PROVE  /\ Len(queue) \in Nat /\ DOMAIN queue = 1..Len(queue)
           /\ \A i \in DOMAIN queue : /\ queue[i] \in Lines
                                      /\ queue[i].n \in Nat \ {0}
                                      /\ queue[i].size \in Nat \ {0}
           /\ \A s \in settling : s.n \in Nat \ {0}
           /\ Len(outcome) \in Nat /\ DOMAIN outcome = 1..Len(outcome)
           /\ \A n \in Recorded : n \in Nat \ {0}
           /\ FileSize \in Nat
           /\ queue # << >> => /\ Head(queue) = queue[1] /\ 1 \in DOMAIN queue
                               /\ Tail(queue) \in Seq(Lines)
                               /\ DOMAIN Tail(queue) = 1..Len(queue) - 1
                               /\ \A i \in DOMAIN Tail(queue) :
                                     /\ i + 1 \in DOMAIN queue
                                     /\ Tail(queue)[i] = queue[i + 1]
  <1>1. Len(queue) \in Nat /\ DOMAIN queue = 1..Len(queue)
    BY DEF LogTyped
  <1>2. \A i \in DOMAIN queue : queue[i] \in Lines
    BY <1>1 DEF LogTyped
  <1>3. \A i \in DOMAIN queue : queue[i].n \in Nat \ {0} /\ queue[i].size \in Nat \ {0}
    BY <1>2 DEF Lines
  <1>4. \A s \in settling : s.n \in Nat \ {0}
    BY DEF LogTyped, Settlements
  <1>5. Len(outcome) \in Nat /\ DOMAIN outcome = 1..Len(outcome)
    BY DEF LogTyped
  <1>6. \A n \in Recorded : n \in Nat \ {0}
    BY <1>4, <1>5 DEF Recorded
  <1>7. FileSize \in Nat
    BY DEF LogTyped, FileSize
  <1>8. ASSUME queue # << >>
        PROVE  /\ Head(queue) = queue[1] /\ 1 \in DOMAIN queue
               /\ Tail(queue) \in Seq(Lines)
               /\ DOMAIN Tail(queue) = 1..Len(queue) - 1
               /\ \A i \in DOMAIN Tail(queue) :
                     i + 1 \in DOMAIN queue /\ Tail(queue)[i] = queue[i + 1]
    <2>1. queue \in Seq(Lines)
      BY DEF LogTyped
    <2> QED BY <1>8, <2>1
  <1> QED BY <1>1, <1>2, <1>3, <1>4, <1>5, <1>6, <1>7, <1>8

\* A step that leaves queue, results and files alone.
LEMMA SinkStepKeepsInv ==
    ASSUME LogInv, queue # << >>,
           UNCHANGED <<pending, queue, settling, current, previous, bytes, outcome>>,
           step # "chmod", step' \in {"stat", "unlink", "append"},
           step' = "unlink" => current # << >>,
           step' = "append" => FileSize + Head(queue).size <= MaxBytes
    PROVE  LogInv'
  <1>1. LogTyped'
    BY DEF LogInv, LogTyped
  <1>2. QueueInv'
    BY DEF LogInv, QueueInv, Unfinished, Numbers
  <1>3. FilesInv'
    BY DEF LogInv, FilesInv, InOrder, Files
  <1>4. SinkInv'
    BY DEF LogInv, SinkInv, FileSize
  <1>5. KeptInv'
    BY DEF LogInv, KeptInv, Recorded, Numbers, Files
  <1> QED BY <1>1, <1>2, <1>3, <1>4, <1>5 DEF LogInv

LEMMA BeginsKeepInv ==
    ASSUME LogInv, Begin \/ Stat
    PROVE  LogInv'
  <1>1. UNCHANGED <<pending, queue, settling, current, previous, bytes, outcome>>
    BY DEF Begin, Stat
  <1>2. queue # << >> /\ step # "chmod"
    BY DEF Begin, Stat, LogInv, QueueInv
  <1>3. CASE Begin
    BY <1>1, <1>2, <1>3, SinkStepKeepsInv DEF Begin
  <1>4. CASE Stat
    <2> DEFINE size == Head(queue).size
    <2>1. size \in Nat \ {0} /\ size <= MaxLine /\ FileSize \in Nat
      BY <1>2, LogTypes DEF LogInv, QueueInv
    <2>2. step' = IF Overflows(size) THEN "unlink" ELSE "append"
      BY <1>4 DEF Stat
    <2> HIDE DEF size
    <2>3. Overflows(size) => current # << >>
      BY DEF Overflows, FileSize
    <2>4. ~Overflows(size) => FileSize + size <= MaxBytes
      BY <2>1, OperationalLogAssumption DEF Overflows
    <2>5. step' = "append" => FileSize + Head(queue).size <= MaxBytes
      BY <2>2, <2>4 DEF size
    <2> QED BY <1>1, <1>2, <2>2, <2>3, <2>5, SinkStepKeepsInv
  <1> QED BY <1>3, <1>4

\* The predecessor is removed.
LEMMA UnlinkKeepsInv ==
    ASSUME LogInv, Unlink
    PROVE  LogInv'
  <1>1. /\ step = "unlink" /\ step' = "rename" /\ previous' = << >>
        /\ UNCHANGED <<pending, queue, settling, current, bytes, outcome>>
        /\ queue # << >>
    BY DEF Unlink, LogInv, QueueInv
  <1>2. LogTyped /\ previous \in Seq(Lines) /\ current \in Seq(Lines)
    BY DEF LogInv, LogTyped
  <1>3. << >> \in Seq(Lines) /\ Len(<< >>) = 0
    OBVIOUS
  <1>4. LogTyped'
    BY <1>1, <1>2, <1>3 DEF LogTyped
  <1>5. Files' = << >> \o current
    BY <1>1 DEF Files
  <1>6. ASSUME NEW k \in DOMAIN Files'
        PROVE  /\ Len(previous) + k \in DOMAIN Files
               /\ Files'[k] = Files[Len(previous) + k] /\ k \in Nat
    <2>1. k \in DOMAIN current /\ Files'[k] = current[k] /\ k \in Nat
      <3>1. DOMAIN << >> = {}
        OBVIOUS
      <3>2. /\ \/ k \in DOMAIN << >>
               \/ k > 0 /\ k - 0 \in DOMAIN current /\ Files'[k] = current[k - 0]
            /\ DOMAIN Files' = 1..Len(Files') /\ Len(Files') \in Nat
        BY <1>2, <1>3, <1>5, <1>6, Joined
      <3> QED BY <1>6, <3>1, <3>2
    <2> QED BY <1>2, <2>1, Joined DEF Files
  <1>7. Len(previous) \in Nat
    BY <1>2
  <1>8. QueueInv'
    BY <1>1 DEF LogInv, QueueInv, Unfinished, Numbers
  <1>9. Numbers(Files)' \subseteq Numbers(Files)
    BY <1>1, <1>6 DEF Numbers
  <1>10. FilesInv'
    <2>1. InOrder'
      BY <1>6, <1>7 DEF LogInv, FilesInv, InOrder
    <2> QED BY <1>1, <1>6, <2>1 DEF LogInv, FilesInv
  <1>11. SinkInv'
    BY <1>1 DEF LogInv, SinkInv, FileSize
  <1>12. KeptInv'
    <2>1. Recorded' = Recorded
      BY <1>1 DEF Recorded
    <2>2. /\ Numbers(Files) = Numbers(previous) \cup Numbers(current)
          /\ Numbers(Files)' = Numbers(current)
      <3>1. Numbers(<< >> \o current) = Numbers(<< >>) \cup Numbers(current)
        BY <1>2, <1>3, JoinedNumbers
      <3>2. Numbers(<< >>) = {}
        BY DEF Numbers
      <3>3. Numbers(Files') = Numbers(current)
        BY <1>5, <3>1, <3>2
      <3>4. Numbers(Files)' = Numbers(Files')
        BY DEF Numbers
      <3>5. Numbers(Files) = Numbers(previous) \cup Numbers(current)
        BY <1>2, JoinedNumbers DEF Files
      <3> QED BY <3>3, <3>4, <3>5
    <2>3. \A p \in Numbers(previous), c \in Numbers(current) : p < c
      <3> SUFFICES ASSUME NEW i \in DOMAIN previous, NEW j \in DOMAIN current
                   PROVE  previous[i].n < current[j].n
        BY DEF Numbers
      <3>1. /\ i \in DOMAIN Files /\ Files[i] = previous[i]
            /\ Len(previous) + j \in DOMAIN Files
            /\ Files[Len(previous) + j] = current[j]
            /\ i \in 1..Len(previous) /\ j \in 1..Len(current)
        BY <1>2, Joined DEF Files
      <3>2. i < Len(previous) + j
        BY <1>7, <3>1
      <3> QED BY <3>1, <3>2 DEF LogInv, FilesInv, InOrder
    <2>4. \E c \in Numbers(current) : c \in Nat
      <3>1. 1 \in DOMAIN current /\ current[1] \in Lines
        BY <1>1, <1>2 DEF LogInv, SinkInv
      <3> QED BY <3>1 DEF Numbers, Lines
    <2>5. Numbers(Files) \subseteq Nat /\ \A n \in Recorded : n \in Nat
      BY <1>2, Joined, LogTypes DEF Files
    <2>6. \A n \in Recorded : \A i \in DOMAIN queue : n < queue[i].n
      BY DEF LogInv, KeptInv
    <2>7. \A m \in Numbers(current) : \A n \in Recorded :
              n > m => n \in Numbers(current)
      BY <2>2, <2>3, <2>5 DEF LogInv, KeptInv
    <2>8. \A n \in Recorded : \E m \in Numbers(current) : m >= n
      <3> SUFFICES ASSUME NEW n \in Recorded
                   PROVE  \E m \in Numbers(current) : m >= n
        OBVIOUS
      <3>1. PICK m \in Numbers(Files) : m >= n
        BY DEF LogInv, KeptInv
      <3>2. PICK c \in Numbers(current) : c \in Nat
        BY <2>4
      <3>3. CASE m \in Numbers(current)
        BY <3>1, <3>3
      <3>4. CASE m \in Numbers(previous)
        BY <2>3, <2>5, <3>1, <3>2, <3>4
      <3> QED BY <2>2, <3>3, <3>4
    <2> QED BY <1>1, <2>1, <2>2, <2>6, <2>7, <2>8 DEF KeptInv
  <1> QED BY <1>4, <1>8, <1>10, <1>11, <1>12 DEF LogInv
\* Files and what is appended to them.
LEMMA Emptied ==
    ASSUME NEW c \in Seq(Lines)
    PROVE  << >> \o c = c /\ c \o << >> = c
  OBVIOUS

LEMMA Extended ==
    ASSUME NEW f \in Seq(Lines), NEW h \in Lines
    PROVE  /\ Append(f, h) \in Seq(Lines) /\ Append(f, h) # << >>
           /\ DOMAIN Append(f, h) = 1..Len(f) + 1 /\ DOMAIN f = 1..Len(f) /\ Len(f) \in Nat
           /\ \A k \in DOMAIN f : Append(f, h)[k] = f[k]
           /\ Append(f, h)[Len(f) + 1] = h
           /\ Numbers(Append(f, h)) = Numbers(f) \cup {h.n}
  <1>1. /\ Append(f, h) \in Seq(Lines) /\ Append(f, h) # << >>
        /\ DOMAIN Append(f, h) = 1..Len(f) + 1 /\ DOMAIN f = 1..Len(f) /\ Len(f) \in Nat
        /\ \A k \in DOMAIN f : Append(f, h)[k] = f[k]
        /\ Append(f, h)[Len(f) + 1] = h
    OBVIOUS
  <1>2. Numbers(Append(f, h)) = Numbers(f) \cup {h.n}
    <2>1. \A k \in 1..Len(f) + 1 : k \in 1..Len(f) \/ k = Len(f) + 1
      BY <1>1
    <2>2. Len(f) + 1 \in 1..Len(f) + 1 /\ \A k \in 1..Len(f) : k \in 1..Len(f) + 1
      BY <1>1
    <2>3. Numbers(Append(f, h)) \subseteq Numbers(f) \cup {h.n}
      BY <1>1, <2>1 DEF Numbers
    <2>4. Numbers(f) \cup {h.n} \subseteq Numbers(Append(f, h))
      BY <1>1, <2>2 DEF Numbers
    <2> QED BY <2>3, <2>4
  <1> QED BY <1>1, <1>2

LEMMA ExtendedFiles ==
    ASSUME NEW p \in Seq(Lines), NEW c \in Seq(Lines), NEW h \in Lines
    PROVE  p \o Append(c, h) = Append(p \o c, h)
  OBVIOUS

\* The current file becomes the predecessor.
LEMMA RenameKeepsInv ==
    ASSUME LogInv, Rename
    PROVE  LogInv'
  <1>1. /\ step = "rename" /\ step' = "append" /\ previous' = current /\ current' = << >>
        /\ UNCHANGED <<pending, queue, settling, bytes, outcome>>
        /\ queue # << >> /\ previous = << >>
    BY DEF Rename, LogInv, QueueInv, SinkInv
  <1>2. LogTyped /\ current \in Seq(Lines) /\ << >> \in Seq(Lines)
    BY DEF LogInv, LogTyped
  <1>3. LogTyped'
    BY <1>1, <1>2 DEF LogTyped
  <1>4. Files' = Files
    <2>1. Files = current
      BY <1>1, <1>2, Emptied DEF Files
    <2>2. Files' = current
      BY <1>1, <1>2, Emptied DEF Files
    <2> QED BY <2>1, <2>2
  <1>5. QueueInv'
    BY <1>1 DEF LogInv, QueueInv, Unfinished, Numbers
  <1>6. FilesInv'
    BY <1>1, <1>4 DEF LogInv, FilesInv, InOrder
  <1>7. SinkInv'
    <2>1. Head(queue).size \in Nat /\ Head(queue).size <= MaxLine
      BY <1>1, LogTypes DEF LogInv, QueueInv
    <2>2. FileSize' = 0
      BY <1>1 DEF FileSize
    <2> QED BY <1>1, <2>1, <2>2, OperationalLogAssumption DEF SinkInv
  <1>8. KeptInv'
    <2>1. Numbers(Files)' = Numbers(Files)
      BY <1>4 DEF Numbers
    <2>2. Recorded' = Recorded
      BY <1>1 DEF Recorded
    <2> QED BY <1>1, <2>1, <2>2 DEF LogInv, KeptInv
  <1> QED BY <1>3, <1>5, <1>6, <1>7, <1>8 DEF LogInv

\* The head of the queue is appended.
LEMMA WriteLineKeepsInv ==
    ASSUME LogInv, WriteLine
    PROVE  LogInv'
  <1> DEFINE h == Head(queue)
  <1>1. /\ step = "append" /\ step' = "chmod"
        /\ current' = Append(current, h) /\ bytes' = FileSize + h.size
        /\ UNCHANGED <<pending, queue, settling, previous, outcome>>
        /\ queue # << >>
    BY DEF WriteLine, LogInv, QueueInv
  <1>2. /\ LogTyped /\ previous \in Seq(Lines) /\ current \in Seq(Lines)
        /\ Files \in Seq(Lines)
    BY DEF LogInv, LogTyped, Files
  <1>3. /\ h = queue[1] /\ 1 \in DOMAIN queue /\ h \in Lines
        /\ h.n \in Nat \ {0} /\ h.size \in Nat \ {0} /\ FileSize \in Nat
        /\ DOMAIN queue = 1..Len(queue) /\ Len(queue) \in Nat
    BY <1>1, <1>2, LogTypes
  <1> HIDE DEF h
  <1>4. current' \in Seq(Lines) /\ current' # << >> /\ bytes' \in Nat \ {0}
    <2>1. current' \in Seq(Lines) /\ current' # << >>
      BY <1>1, <1>2, <1>3, Extended
    <2>2. bytes' \in Nat \ {0}
      BY <1>1, <1>3
    <2> QED BY <2>1, <2>2
  <1>5. LogTyped'
    BY <1>1, <1>2, <1>4 DEF LogTyped
  <1>6. Files' = Append(Files, h)
    BY <1>1, <1>2, <1>3, ExtendedFiles DEF Files
  <1>7. /\ DOMAIN Files' = 1..Len(Files) + 1 /\ DOMAIN Files = 1..Len(Files)
        /\ Len(Files) \in Nat
        /\ \A k \in DOMAIN Files : Files'[k] = Files[k]
        /\ Files'[Len(Files) + 1] = h
        /\ Numbers(Files') = Numbers(Files) \cup {h.n}
    BY <1>2, <1>3, <1>6, Extended
  <1>8. /\ \A k \in DOMAIN Files : Files[k].n \in Nat
        /\ \A k \in DOMAIN Files, i \in DOMAIN queue : Files[k].n < queue[i].n
    <2>1. \A k \in DOMAIN Files : Files[k] \in Lines
      BY <1>2
    <2>2. \A k \in DOMAIN Files : Files[k].n \in Nat
      BY <2>1 DEF Lines
    <2>3. \A k \in DOMAIN Files, i \in DOMAIN queue : Files[k].n < queue[i].n
      BY <1>1 DEF LogInv, FilesInv
    <2> QED BY <2>2, <2>3
  <1>9. QueueInv'
    BY <1>1 DEF LogInv, QueueInv, Unfinished, Numbers
  <1>10. FilesInv'
    <2>1. InOrder'
      BY <1>3, <1>7, <1>8 DEF LogInv, FilesInv, InOrder
    <2>2. ASSUME NEW k \in DOMAIN Files' PROVE Files'[k].n <= Len(outcome')
      BY <1>1, <1>3, <1>7 DEF LogInv, FilesInv, QueueInv
    <2>3. ASSUME NEW k \in DOMAIN Files', NEW i \in DOMAIN queue
          PROVE  Files'[k].n < queue[i].n \/ Files'[k].n = queue[i].n
      <3>1. h.n = queue[i].n \/ h.n < queue[i].n
        BY <1>3 DEF LogInv, QueueInv
      <3> QED BY <1>3, <1>7, <1>8, <3>1
    <2>4. h.n \in Numbers(current')
      BY <1>1, <1>2, <1>3, Extended
    <2>5. Head(queue').n \in Numbers(current)'
      BY <1>1, <2>4 DEF h, Numbers
    <2>6. \A k \in DOMAIN Files', i \in DOMAIN queue' :
             Files'[k].n < queue'[i].n \/ (step' = "chmod" /\ Files'[k].n = queue'[i].n)
      BY <1>1, <2>3
    <2> QED BY <2>1, <2>2, <2>5, <2>6 DEF FilesInv
  <1>11. SinkInv'
    <2>1. FileSize' = FileSize + h.size
      BY <1>1, <1>4 DEF FileSize
    <2>2. FileSize + h.size <= MaxBytes
      BY <1>1 DEF LogInv, SinkInv, h
    <2> QED BY <1>1, <1>4, <2>1, <2>2 DEF SinkInv
  <1>12. KeptInv'
    <2>1. Recorded' = Recorded
      BY <1>1 DEF Recorded
    <2>2. Numbers(Files)' = Numbers(Files) \cup {h.n}
      BY <1>7 DEF Numbers
    <2>3. \A n \in Recorded : n < h.n /\ n \in Nat
      BY <1>2, <1>3, LogTypes DEF LogInv, KeptInv
    <2>4. \A n \in Recorded : ~(n > h.n)
      BY <1>3, <2>3
    <2> QED BY <1>1, <2>1, <2>2, <2>4 DEF LogInv, KeptInv
  <1> QED BY <1>5, <1>9, <1>10, <1>11, <1>12 DEF LogInv

\* The head of the queue is done with.
LEMMA FinishKeepsInv ==
    ASSUME LogInv, NEW how \in {"logged", "failed"}, Finish(how),
           step # "idle", how = "logged" => step = "chmod",
           UNCHANGED <<pending, current, previous, bytes, outcome>>
    PROVE  LogInv'
  <1> DEFINE h == Head(queue)
             done == [n |-> h.n, how |-> how]
  <1>1. /\ step' = "idle" /\ queue' = Tail(queue) /\ settling' = settling \cup {done}
        /\ queue # << >>
    BY DEF Finish, LogInv, QueueInv
  <1>2. LogTyped
    BY DEF LogInv
  <1>3. /\ h = queue[1] /\ 1 \in DOMAIN queue /\ h.n \in Nat \ {0}
        /\ queue' \in Seq(Lines) /\ DOMAIN queue' = 1..Len(queue) - 1
        /\ \A i \in DOMAIN queue' : /\ i + 1 \in DOMAIN queue /\ queue'[i] = queue[i + 1]
                                    /\ i \in Nat \ {0}
        /\ \A i \in DOMAIN queue : queue[i].n \in Nat \ {0}
        /\ DOMAIN queue = 1..Len(queue) /\ Len(queue) \in Nat
    BY <1>1, <1>2, LogTypes
  <1> HIDE DEF h
  <1>4. done \in Settlements /\ done.n = h.n /\ done.how = how
    BY <1>3 DEF Settlements
  <1> HIDE DEF done
  <1>5. LogTyped'
    BY <1>1, <1>2, <1>3, <1>4 DEF LogTyped
  <1>6. ASSUME NEW i \in DOMAIN queue' PROVE h.n < queue'[i].n /\ queue'[i].n \in Nat
    <2>1. 1 < i + 1
      BY <1>3
    <2> QED BY <1>3, <2>1 DEF LogInv, QueueInv
  <1>7. \A s \in settling : s.n < h.n /\ s.n \in Nat
    BY <1>2, <1>3, LogTypes DEF LogInv, QueueInv
  <1>8. QueueInv'
    <2>1. \A i, j \in DOMAIN queue' : i < j => queue'[i].n < queue'[j].n
      <3> SUFFICES ASSUME NEW i \in DOMAIN queue', NEW j \in DOMAIN queue', i < j
                   PROVE  queue'[i].n < queue'[j].n
        OBVIOUS
      <3>1. i + 1 < j + 1
        BY <1>3
      <3> QED BY <1>3, <3>1 DEF LogInv, QueueInv
    <2>2. \A i \in DOMAIN queue' : queue'[i].n <= Len(outcome') /\ queue'[i].size <= MaxLine
      BY <1>3 DEF LogInv, QueueInv
    <2>3. \A i \in DOMAIN queue' : \A s \in settling' : s.n < queue'[i].n
      BY <1>1, <1>3, <1>4, <1>6, <1>7
    <2>4. \A s, t \in settling' : s.n = t.n => s = t
      <3>1. \A s \in settling : s.n # done.n
        BY <1>3, <1>4, <1>7
      <3> QED BY <1>1, <3>1 DEF LogInv, QueueInv
    <2>5. Numbers(queue) = {h.n} \cup Numbers(queue')
      <3>1. \A i \in DOMAIN queue : i = 1 \/ (i - 1 \in DOMAIN queue' /\ (i - 1) + 1 = i)
        BY <1>3
      <3>2. \A i \in DOMAIN queue : i = 1 \/ (i - 1 \in DOMAIN queue' /\ queue'[i - 1] = queue[i])
        BY <1>3, <3>1
      <3>3. Numbers(queue) \subseteq {h.n} \cup Numbers(queue')
        BY <1>3, <3>2 DEF Numbers
      <3>4. {h.n} \cup Numbers(queue') \subseteq Numbers(queue)
        BY <1>3 DEF Numbers
      <3> QED BY <3>3, <3>4
    <2>6. {s.n : s \in settling'} = {s.n : s \in settling} \cup {h.n}
      BY <1>1, <1>4
    <2>7. Unfinished' = Unfinished
      BY DEF Unfinished
    <2>8. Unfinished' = Numbers(queue') \cup {s.n : s \in settling'}
      BY <2>5, <2>6, <2>7 DEF LogInv, QueueInv
    <2>9. Numbers(queue') = Numbers(queue)'
      BY DEF Numbers
    <2>10. pending' = Cardinality(Unfinished') /\ pending' <= MaxPending
      BY <2>7 DEF LogInv, QueueInv
    <2> QED BY <1>1, <2>1, <2>2, <2>3, <2>4, <2>8, <2>9, <2>10 DEF QueueInv
  <1>9. Files' = Files
    BY DEF Files
  <1>10. FilesInv'
    <2>1. InOrder' /\ \A k \in DOMAIN Files' : Files'[k].n <= Len(outcome')
      BY <1>9 DEF LogInv, FilesInv, InOrder
    <2>2. \A k \in DOMAIN Files : Files[k].n \in Nat
      <3>1. Files \in Seq(Lines)
        BY <1>2 DEF LogTyped, Files
      <3>2. \A k \in DOMAIN Files : Files[k] \in Lines
        BY <3>1
      <3> QED BY <3>2 DEF Lines
    <2>3. \A k \in DOMAIN Files : Files[k].n < h.n \/ Files[k].n = h.n
      BY <1>3 DEF LogInv, FilesInv
    <2>4. \A k \in DOMAIN Files, i \in DOMAIN queue' : Files[k].n < queue'[i].n
      BY <1>3, <1>6, <2>2, <2>3
    <2> QED BY <1>1, <1>9, <2>1, <2>4 DEF FilesInv
  <1>11. SinkInv'
    BY <1>1 DEF LogInv, SinkInv, FileSize
  <1>12. KeptInv'
    <2>1. Numbers(Files)' = Numbers(Files)
      BY <1>9 DEF Numbers
    <2>2. Recorded' = IF how = "logged" THEN Recorded \cup {h.n} ELSE Recorded
      BY <1>1, <1>4 DEF Recorded
    <2>3. how = "logged" => h.n \in Numbers(Files)
      <3>1. previous \in Seq(Lines) /\ current \in Seq(Lines)
        BY <1>2 DEF LogTyped
      <3> QED BY <3>1, JoinedNumbers DEF LogInv, FilesInv, Files, h
    <2>4. \A n \in Recorded : \A i \in DOMAIN queue' : n < queue'[i].n
      BY <1>3 DEF LogInv, KeptInv
    <2>5. \A n \in Recorded' : \A i \in DOMAIN queue' : n < queue'[i].n
      BY <1>6, <2>2, <2>4
    <2>6. \A m \in Numbers(Files) : \A n \in Recorded' : n > m => n \in Numbers(Files)
      BY <2>2, <2>3 DEF LogInv, KeptInv
    <2>7. \A n \in Recorded' : \E m \in Numbers(Files) : m >= n
      BY <1>3, <2>2, <2>3 DEF LogInv, KeptInv
    <2> QED BY <2>1, <2>5, <2>6, <2>7 DEF KeptInv
  <1> QED BY <1>5, <1>8, <1>10, <1>11, <1>12 DEF LogInv

LEMMA FinishesKeepInv ==
    ASSUME LogInv, Chmod \/ Fails
    PROVE  LogInv'
  <1>1. CASE Chmod
    BY <1>1, FinishKeepsInv DEF Chmod
  <1>2. CASE Fails
    BY <1>2, FinishKeepsInv DEF Fails
  <1> QED BY <1>1, <1>2

\* What is unfinished or recorded has been emitted, and is finite.
LEMMA Emitted ==
    ASSUME LogInv
    PROVE  /\ \A n \in Unfinished : n \in 1..Len(outcome) /\ outcome[n] = "accepted"
           /\ IsFiniteSet(Unfinished)
           /\ \A s \in settling : s.n \in Unfinished
           /\ \A n \in Recorded : n \in 1..Len(outcome)
  <1>1. LogTyped /\ DOMAIN outcome = 1..Len(outcome) /\ Len(outcome) \in Nat
    BY LogTypes DEF LogInv
  <1>2. Unfinished \subseteq 1..Len(outcome)
    BY <1>1 DEF Unfinished
  <1>3. IsFiniteSet(1..Len(outcome))
    BY <1>1, FS_Interval
  <1>4. IsFiniteSet(Unfinished)
    BY <1>2, <1>3, FS_Subset
  <1>5. \A s \in settling : s.n \in Unfinished
    BY DEF LogInv, QueueInv
  <1>6. \A n \in Recorded : n \in 1..Len(outcome)
    BY <1>1, <1>2, <1>5 DEF Recorded
  <1>7. \A n \in Unfinished : outcome[n] = "accepted"
    BY DEF Unfinished
  <1> QED BY <1>2, <1>4, <1>5, <1>6, <1>7

\* A result is told.
LEMMA SettleKeepsInv ==
    ASSUME LogInv, NEW s \in settling, Settle(s)
    PROVE  LogInv'
  <1>1. /\ settling' = settling \ {s} /\ outcome' = [outcome EXCEPT ![s.n] = s.how]
        /\ pending' = pending - 1
        /\ UNCHANGED <<queue, step, current, previous, bytes>>
    BY DEF Settle
  <1>2. /\ LogTyped /\ s.n \in Unfinished /\ s.n \in 1..Len(outcome)
        /\ outcome[s.n] = "accepted" /\ IsFiniteSet(Unfinished)
    BY Emitted DEF LogInv
  <1>3. DOMAIN outcome = 1..Len(outcome) /\ Len(outcome) \in Nat /\ outcome \in Seq(Outcomes)
    BY <1>2, LogTypes DEF LogTyped
  <1>4. s.how \in {"logged", "failed"}
    BY <1>2 DEF LogTyped, Settlements
  <1>5. /\ outcome' \in Seq(Outcomes) /\ Len(outcome') = Len(outcome)
        /\ DOMAIN outcome' = 1..Len(outcome)
    <2>1. s.how \in Outcomes
      BY <1>4 DEF Outcomes
    <2> QED BY <1>1, <1>2, <1>3, <2>1
  <1>6. /\ outcome'[s.n] = s.how
        /\ \A n \in 1..Len(outcome) : n # s.n => outcome'[n] = outcome[n]
    BY <1>1, <1>2, <1>3
  <1>7. Unfinished' = Unfinished \ {s.n}
    BY <1>2, <1>3, <1>4, <1>5, <1>6 DEF Unfinished
  <1>8. pending' = Cardinality(Unfinished') /\ pending' \in Nat /\ pending' <= MaxPending
    <2>1. Cardinality(Unfinished \ {s.n}) = Cardinality(Unfinished) - 1
      BY <1>2, FS_RemoveElement
    <2>2. IsFiniteSet(Unfinished \ {s.n})
      BY <1>2, FS_RemoveElement
    <2>3. Cardinality(Unfinished \ {s.n}) \in Nat
      BY <2>2, FS_CardinalityType
    <2>4. pending' = Cardinality(Unfinished')
      BY <1>1, <1>7, <2>1 DEF LogInv, QueueInv
    <2>5. pending \in Nat /\ pending <= MaxPending /\ MaxPending \in Nat
      BY OperationalLogAssumption DEF LogInv, LogTyped, QueueInv
    <2> QED BY <1>1, <1>7, <2>3, <2>4, <2>5
  <1>9. LogTyped'
    BY <1>1, <1>2, <1>5, <1>8 DEF LogTyped
  <1>10. QueueInv'
    <2>1. {t.n : t \in settling'} = {t.n : t \in settling} \ {s.n}
      BY <1>1 DEF LogInv, QueueInv
    <2>2. s.n \notin Numbers(queue)
      <3>1. \A i \in DOMAIN queue : s.n < queue[i].n /\ queue[i].n \in Nat /\ s.n \in Nat
        BY <1>2, LogTypes DEF LogInv, QueueInv
      <3>2. \A i \in DOMAIN queue : s.n # queue[i].n
        BY <3>1
      <3> QED BY <3>2 DEF Numbers
    <2>3. Unfinished = Numbers(queue) \cup {t.n : t \in settling}
      BY DEF LogInv, QueueInv
    <2>4. Unfinished' = Numbers(queue) \cup {t.n : t \in settling'}
      BY <1>7, <2>1, <2>2, <2>3
    <2>5. Numbers(queue)' = Numbers(queue)
      BY <1>1 DEF Numbers
    <2>6. \A i \in DOMAIN queue : queue[i].n <= Len(outcome') /\ queue[i].size <= MaxLine
      BY <1>5 DEF LogInv, QueueInv
    <2>7. /\ \A i \in DOMAIN queue : \A t \in settling' : t.n < queue[i].n
          /\ \A t, u \in settling' : t.n = u.n => t = u
      BY <1>1 DEF LogInv, QueueInv
    <2>8. /\ step # "idle" => queue # << >>
          /\ \A i, j \in DOMAIN queue : i < j => queue[i].n < queue[j].n
      BY DEF LogInv, QueueInv
    <2> QED BY <1>1, <1>8, <2>4, <2>5, <2>6, <2>7, <2>8 DEF QueueInv
  <1>11. FilesInv'
    BY <1>1, <1>5 DEF LogInv, FilesInv, InOrder, Files, Numbers
  <1>12. SinkInv'
    BY <1>1 DEF LogInv, SinkInv, FileSize
  <1>13. KeptInv'
    <2>1. Recorded' \subseteq Recorded
      <3> SUFFICES ASSUME NEW n \in Recorded' PROVE n \in Recorded
        OBVIOUS
      <3>1. CASE \E t \in settling' : t.how = "logged" /\ t.n = n
        BY <1>1, <3>1 DEF Recorded
      <3>2. CASE n \in 1..Len(outcome) /\ outcome'[n] = "logged"
        <4>1. CASE n = s.n
          BY <1>6, <3>2, <4>1 DEF Recorded
        <4>2. CASE n # s.n
          BY <1>3, <1>6, <3>2, <4>2 DEF Recorded
        <4> QED BY <4>1, <4>2
      <3> QED BY <1>5, <3>1, <3>2 DEF Recorded
    <2>2. Numbers(Files)' = Numbers(Files)
      BY <1>1 DEF Numbers, Files
    <2> QED BY <1>1, <2>1, <2>2 DEF LogInv, KeptInv
  <1> QED BY <1>9, <1>10, <1>11, <1>12, <1>13 DEF LogInv

\* The process stops.
LEMMA CrashKeepsInv ==
    ASSUME LogInv, Crash
    PROVE  LogInv'
  <1>1. /\ pending' = 0 /\ queue' = << >> /\ step' = "idle" /\ settling' = {}
        /\ outcome' = [n \in DOMAIN outcome |-> IF outcome[n] = "accepted" THEN "unknown"
                                                ELSE outcome[n]]
        /\ UNCHANGED <<current, previous, bytes>>
    BY DEF Crash
  <1>2. /\ LogTyped /\ DOMAIN outcome = 1..Len(outcome) /\ Len(outcome) \in Nat
        /\ \A n \in 1..Len(outcome) : outcome[n] \in Outcomes
    BY LogTypes DEF LogInv, LogTyped
  <1>3. outcome' \in [1..Len(outcome) -> Outcomes]
    BY <1>1, <1>2 DEF Outcomes
  <1>4. outcome' \in Seq(Outcomes) /\ Len(outcome') = Len(outcome)
        /\ DOMAIN outcome' = 1..Len(outcome)
    BY <1>2, <1>3, IsASeq
  <1>5. LogTyped'
    BY <1>1, <1>2, <1>4 DEF LogTyped
  <1>6. DOMAIN queue' = {} /\ Numbers(queue)' = {}
    BY <1>1 DEF Numbers
  <1>7. Unfinished' = {}
    BY <1>1, <1>2, <1>4 DEF Unfinished
  <1>8. QueueInv'
    <2>1. pending' = Cardinality(Unfinished') /\ pending' <= MaxPending
      BY <1>1, <1>7, FS_EmptySet, OperationalLogAssumption
    <2> QED BY <1>1, <1>6, <1>7, <2>1 DEF QueueInv
  <1>9. FilesInv'
    BY <1>1, <1>4, <1>6 DEF LogInv, FilesInv, InOrder, Files
  <1>10. SinkInv'
    BY <1>1 DEF LogInv, SinkInv, FileSize
  <1>11. KeptInv'
    <2>1. Recorded' \subseteq Recorded
      BY <1>1, <1>2, <1>4 DEF Recorded
    <2>2. Numbers(Files)' = Numbers(Files)
      BY <1>1 DEF Numbers, Files
    <2> QED BY <1>6, <2>1, <2>2 DEF LogInv, KeptInv
  <1> QED BY <1>5, <1>8, <1>9, <1>10, <1>11 DEF LogInv

\* An event is offered.
LEMMA EmitKeepsInv ==
    ASSUME LogInv, NEW size \in Sizes, Emit(size)
    PROVE  LogInv'
  <1> DEFINE n == Len(outcome) + 1
             e == [n |-> Len(outcome) + 1, size |-> size]
  <1>1. UNCHANGED <<step, settling, current, previous, bytes>>
    BY DEF Emit
  <1>2. PICK r \in {"invalid", "refused", "accepted"} :
           /\ outcome' = Append(outcome, r)
           /\ r # "accepted" => UNCHANGED <<pending, queue>>
           /\ r = "accepted" => /\ size <= MaxLine /\ pending < MaxPending
                                /\ pending' = pending + 1 /\ queue' = Append(queue, e)
    <2>1. pending \in Nat /\ MaxPending \in Nat /\ size \in Nat /\ MaxLine \in Nat
      BY OperationalLogAssumption DEF LogInv, LogTyped
    <2>2. CASE size > MaxLine \/ Full
      <3> DEFINE r == IF size > MaxLine THEN "invalid" ELSE "refused"
      <3>1. outcome' = Append(outcome, r) /\ UNCHANGED <<pending, queue>>
        BY <2>2 DEF Emit
      <3>2. r \in {"invalid", "refused"} /\ r # "accepted"
        OBVIOUS
      <3> QED BY <3>1, <3>2
    <2>3. CASE ~(size > MaxLine \/ Full)
      <3>1. outcome' = Append(outcome, "accepted") /\ pending' = pending + 1
            /\ queue' = Append(queue, e)
        BY <2>3 DEF Emit
      <3>2. size <= MaxLine /\ pending < MaxPending
        BY <2>1, <2>3 DEF Full
      <3> QED BY <3>1, <3>2
    <2> QED BY <2>2, <2>3
  <1>3. /\ LogTyped /\ DOMAIN outcome = 1..Len(outcome) /\ Len(outcome) \in Nat
        /\ outcome \in Seq(Outcomes) /\ queue \in Seq(Lines)
    BY LogTypes DEF LogInv, LogTyped
  <1>4. r \in Outcomes
    BY DEF Outcomes
  <1>5. /\ outcome' \in Seq(Outcomes) /\ Len(outcome') = n /\ DOMAIN outcome' = 1..n
        /\ outcome'[n] = r /\ \A k \in 1..Len(outcome) : outcome'[k] = outcome[k]
    BY <1>2, <1>3, <1>4
  <1>6. /\ n \in Nat \ {0} /\ n > Len(outcome) /\ n \notin 1..Len(outcome)
        /\ \A k \in 1..n : k = n \/ k \in 1..Len(outcome)
        /\ \A k \in 1..Len(outcome) : k \in 1..n
    BY <1>3
  <1>7. e \in Lines /\ e.n = n /\ e.size = size
    BY <1>6, OperationalLogAssumption DEF Lines
  <1> HIDE DEF n, e
  <1>8. Unfinished' = IF r = "accepted" THEN Unfinished \cup {n} ELSE Unfinished
    BY <1>3, <1>5, <1>6 DEF Unfinished
  <1>9. Recorded' = Recorded
    BY <1>1, <1>2, <1>3, <1>5, <1>6 DEF Recorded
  <1>10. Numbers(Files)' = Numbers(Files) /\ Files' = Files
    BY <1>1 DEF Numbers, Files
  <1>11. /\ \A m \in Unfinished : m \in 1..Len(outcome)
         /\ IsFiniteSet(Unfinished)
         /\ \A s \in settling : s.n \in 1..Len(outcome)
         /\ \A m \in Recorded : m \in 1..Len(outcome)
    BY Emitted
  <1>12. pending' = Cardinality(Unfinished') /\ pending' \in Nat /\ pending' <= MaxPending
    <2>1. pending \in Nat /\ MaxPending \in Nat /\ pending <= MaxPending
          /\ pending = Cardinality(Unfinished)
      BY OperationalLogAssumption DEF LogInv, LogTyped, QueueInv
    <2>2. CASE r = "accepted"
      <3>1. n \notin Unfinished
        BY <1>6, <1>11
      <3>2. Cardinality(Unfinished \cup {n}) = Cardinality(Unfinished) + 1
        BY <1>11, <3>1, FS_AddElement
      <3> QED BY <1>2, <1>8, <2>1, <2>2, <3>2
    <2>3. CASE r # "accepted"
      BY <1>2, <1>8, <2>1, <2>3
    <2> QED BY <2>2, <2>3
  <1>13. SinkInv'
    <2>1. step # "idle" => Head(queue') = Head(queue)
      <3>1. CASE r = "accepted"
        <4>1. queue # << >> => Head(Append(queue, e)) = Head(queue)
          BY <1>3, <1>7
        <4> QED BY <1>2, <3>1, <4>1 DEF LogInv, QueueInv
      <3> QED BY <1>2, <3>1
    <2> QED BY <1>1, <2>1 DEF LogInv, SinkInv, FileSize
  <1>14. CASE r # "accepted"
    <2>1. UNCHANGED <<pending, queue>> /\ Unfinished' = Unfinished
      BY <1>2, <1>8, <1>14
    <2>2. Numbers(queue)' = Numbers(queue)
      BY <2>1 DEF Numbers
    <2>3. LogTyped'
      BY <1>1, <1>3, <1>5, <2>1 DEF LogTyped
    <2>4. QueueInv'
      <3>1. \A i \in DOMAIN queue : queue[i].n <= n /\ queue[i].size <= MaxLine
        <4>1. \A i \in DOMAIN queue : queue[i].n \in Nat
          BY <1>3, LogTypes
        <4> QED BY <1>3, <1>6, <4>1 DEF LogInv, QueueInv
      <3> QED BY <1>1, <1>5, <1>12, <2>1, <2>2, <3>1 DEF LogInv, QueueInv
    <2>5. FilesInv'
      <3>1. \A k \in DOMAIN Files : Files[k].n <= n
        <4>1. Files \in Seq(Lines)
          BY <1>3 DEF LogTyped, Files
        <4>2. \A k \in DOMAIN Files : Files[k] \in Lines
          BY <4>1
        <4>3. \A k \in DOMAIN Files : Files[k].n \in Nat
          BY <4>2 DEF Lines
        <4> QED BY <1>3, <1>6, <4>3 DEF LogInv, FilesInv
      <3>2. Numbers(current)' = Numbers(current)
        BY <1>1 DEF Numbers
      <3> QED BY <1>1, <1>5, <1>10, <2>1, <3>1, <3>2 DEF LogInv, FilesInv, InOrder
    <2>6. KeptInv'
      BY <1>9, <1>10, <2>1 DEF LogInv, KeptInv
    <2> QED BY <1>13, <2>3, <2>4, <2>5, <2>6 DEF LogInv
  <1>15. CASE r = "accepted"
    <2>1. queue' = Append(queue, e) /\ Unfinished' = Unfinished \cup {n} /\ size <= MaxLine
      BY <1>2, <1>8, <1>15
    <2>2. /\ queue' \in Seq(Lines) /\ DOMAIN queue' = 1..Len(queue) + 1
          /\ DOMAIN queue = 1..Len(queue) /\ Len(queue) \in Nat
          /\ \A i \in DOMAIN queue : queue'[i] = queue[i]
          /\ queue'[Len(queue) + 1] = e
          /\ Numbers(queue') = Numbers(queue) \cup {n}
          /\ queue' # << >>
      BY <1>3, <1>7, <2>1, Extended
    <2>3. \A i \in DOMAIN queue' : i \in DOMAIN queue \/ i = Len(queue) + 1
      BY <2>2
    <2>4. LogTyped'
      BY <1>1, <1>3, <1>5, <1>12, <2>2 DEF LogTyped
    <2>5. \A i \in DOMAIN queue : /\ queue[i].n \in Nat /\ queue[i].n < n /\ queue[i].n <= n
                                  /\ queue[i].size <= MaxLine
      <3>1. \A i \in DOMAIN queue : queue[i].n \in Nat
        BY <1>3, LogTypes
      <3> QED BY <1>3, <1>6, <3>1 DEF LogInv, QueueInv
    <2>6. QueueInv'
      <3>1. \A i, j \in DOMAIN queue' : i < j => queue'[i].n < queue'[j].n
        <4> SUFFICES ASSUME NEW i \in DOMAIN queue', NEW j \in DOMAIN queue', i < j
                     PROVE  queue'[i].n < queue'[j].n
          OBVIOUS
        <4>1. i \in DOMAIN queue
          BY <2>2
        <4>2. CASE j \in DOMAIN queue
          BY <2>2, <4>1, <4>2 DEF LogInv, QueueInv
        <4>3. CASE j = Len(queue) + 1
          BY <1>7, <2>2, <2>5, <4>1, <4>3
        <4> QED BY <2>3, <4>2, <4>3
      <3>2. \A i \in DOMAIN queue' : queue'[i].n <= n /\ queue'[i].size <= MaxLine
        <4>1. n <= n
          BY <1>6
        <4> QED BY <1>7, <2>1, <2>2, <2>3, <2>5, <4>1
      <3>3. \A i \in DOMAIN queue' : \A s \in settling : s.n < queue'[i].n
        <4>1. \A s \in settling : s.n < n
          BY <1>3, <1>6, <1>11
        <4>2. \A i \in DOMAIN queue : \A s \in settling : s.n < queue[i].n
          BY DEF LogInv, QueueInv
        <4> QED BY <1>7, <2>2, <2>3, <4>1, <4>2
      <3>4. Unfinished' = Numbers(queue') \cup {s.n : s \in settling}
        BY <2>1, <2>2 DEF LogInv, QueueInv
      <3>5. Numbers(queue)' = Numbers(queue')
        BY DEF Numbers
      <3>6. \A s, t \in settling : s.n = t.n => s = t
        BY DEF LogInv, QueueInv
      <3> QED BY <1>1, <1>5, <1>12, <2>2, <3>1, <3>2, <3>3, <3>4, <3>5, <3>6 DEF QueueInv
    <2>7. FilesInv'
      <3>1. \A k \in DOMAIN Files : Files[k].n < n /\ Files[k].n <= n
        <4>1. Files \in Seq(Lines)
          BY <1>3 DEF LogTyped, Files
        <4>2. \A k \in DOMAIN Files : Files[k] \in Lines
          BY <4>1
        <4>3. \A k \in DOMAIN Files : Files[k].n \in Nat
          BY <4>2 DEF Lines
        <4> QED BY <1>3, <1>6, <4>3 DEF LogInv, FilesInv
      <3>2. Numbers(current)' = Numbers(current)
        BY <1>1 DEF Numbers
      <3>3. \A k \in DOMAIN Files, i \in DOMAIN queue' :
               Files[k].n < queue'[i].n \/ (step = "chmod" /\ Files[k].n = queue'[i].n)
        BY <1>7, <2>2, <2>3, <3>1 DEF LogInv, FilesInv
      <3>4. step = "chmod" => Head(queue').n \in Numbers(current)
        <4>1. queue # << >> => Head(queue') = Head(queue)
          BY <1>3, <1>7, <2>1
        <4> QED BY <4>1 DEF LogInv, FilesInv, QueueInv
      <3> QED BY <1>1, <1>5, <1>10, <3>1, <3>2, <3>3, <3>4 DEF LogInv, FilesInv, InOrder
    <2>8. KeptInv'
      <3>1. \A m \in Recorded : m < n
        BY <1>3, <1>6, <1>11
      <3>2. \A m \in Recorded : \A i \in DOMAIN queue' : m < queue'[i].n
        BY <1>7, <2>2, <2>3, <3>1 DEF LogInv, KeptInv
      <3> QED BY <1>9, <1>10, <3>2 DEF LogInv, KeptInv
    <2> QED BY <1>13, <2>4, <2>6, <2>7, <2>8 DEF LogInv
  <1> QED BY <1>14, <1>15

LEMMA LogInitInv == LogInit => LogInv
  <1> SUFFICES ASSUME LogInit PROVE LogInv
    OBVIOUS
  <1>1. /\ pending = 0 /\ queue = << >> /\ step = "idle" /\ settling = {}
        /\ current = << >> /\ previous = << >> /\ bytes = 0 /\ outcome = << >>
    BY DEF LogInit
  <1>2. LogTyped
    BY <1>1 DEF LogTyped
  <1>3. Files = << >> /\ DOMAIN Files = {} /\ DOMAIN queue = {} /\ DOMAIN outcome = {}
    <2>1. << >> \in Seq(Lines)
      OBVIOUS
    <2>2. Files = << >>
      BY <1>1, <2>1, Emptied DEF Files
    <2> QED BY <1>1, <2>2
  <1>4. Unfinished = {} /\ Recorded = {} /\ Numbers(queue) = {}
    BY <1>1, <1>3 DEF Unfinished, Recorded, Numbers
  <1>5. QueueInv
    BY <1>1, <1>3, <1>4, FS_EmptySet, OperationalLogAssumption DEF QueueInv
  <1>6. FilesInv
    BY <1>1, <1>3 DEF FilesInv, InOrder
  <1>7. SinkInv
    BY <1>1, OperationalLogAssumption DEF SinkInv, FileSize
  <1>8. KeptInv
    BY <1>4 DEF KeptInv
  <1> QED BY <1>2, <1>5, <1>6, <1>7, <1>8 DEF LogInv

LEMMA LogStepKeepsInv == LogInv /\ [LogNext]_logVars => LogInv'
  <1> SUFFICES ASSUME LogInv, [LogNext]_logVars PROVE LogInv'
    OBVIOUS
  <1>1. CASE UNCHANGED logVars
    <2>1. LogTyped'
      BY <1>1 DEF logVars, LogInv, LogTyped
    <2>2. QueueInv'
      BY <1>1 DEF logVars, LogInv, QueueInv, Unfinished, Numbers
    <2>3. FilesInv'
      BY <1>1 DEF logVars, LogInv, FilesInv, InOrder, Files, Numbers
    <2>4. SinkInv'
      BY <1>1 DEF logVars, LogInv, SinkInv, FileSize
    <2>5. KeptInv'
      BY <1>1 DEF logVars, LogInv, KeptInv, Recorded, Numbers, Files
    <2> QED BY <2>1, <2>2, <2>3, <2>4, <2>5 DEF LogInv
  <1>2. ASSUME NEW size \in Sizes, Emit(size) PROVE LogInv'
    BY <1>2, EmitKeepsInv
  <1>3. ASSUME NEW s \in settling, Settle(s) PROVE LogInv'
    BY <1>3, SettleKeepsInv
  <1>4. CASE Begin \/ Stat
    BY <1>4, BeginsKeepInv
  <1>5. CASE Unlink
    BY <1>5, UnlinkKeepsInv
  <1>6. CASE Rename
    BY <1>6, RenameKeepsInv
  <1>7. CASE WriteLine
    BY <1>7, WriteLineKeepsInv
  <1>8. CASE Chmod \/ Fails
    BY <1>8, FinishesKeepInv
  <1>9. CASE Crash
    BY <1>9, CrashKeepsInv
  <1> QED BY <1>1, <1>2, <1>3, <1>4, <1>5, <1>6, <1>7, <1>8, <1>9
          DEF LogNext, Sink, Settling

LEMMA LogInvIsSafe == LogInv => LogSafety
  <1> SUFFICES ASSUME LogInv PROVE LogSafety
    OBVIOUS
  <1>1. LogTypeOK
    BY DEF LogTypeOK, LogInv, LogTyped, QueueInv, Numbers, ToSet
  <1>2. Bounded /\ InOrder
    BY DEF Bounded, LogInv, QueueInv, SinkInv, FilesInv
  <1>3. OldestGoFirst
    <2>1. {e.n : e \in ToSet(Files)} = Numbers(Files)
      BY DEF ToSet, Numbers
    <2>2. {n \in DOMAIN outcome : outcome[n] = "logged"} \subseteq Recorded
      BY DEF Recorded
    <2> QED BY <2>1, <2>2 DEF OldestGoFirst, LogInv, KeptInv
  <1> QED BY <1>1, <1>2, <1>3 DEF LogSafety

\* The log is bounded and in order, and only its oldest lines are gone, whatever
\* failed or was interrupted (BoundedOperationalLogSink, OperationalLogger).
THEOREM LogSafetyHolds == LogSpec => []LogSafety
  <1>1. LogInit => LogInv
    BY LogInitInv
  <1>2. LogInv /\ [LogNext]_logVars => LogInv'
    BY LogStepKeepsInv
  <1>3. LogInv => LogSafety
    BY LogInvIsSafe
  <1> QED BY <1>1, <1>2, <1>3, PTL DEF LogSpec

-----------------------------------------------------------------------------
(***************************************************************************)
(* The three together, as they are checked: a step of one leaves the       *)
(* others alone.                                                           *)
(***************************************************************************)

LEMMA EachStepsItself ==
    [Next]_vars => /\ [HostNext]_hostVars
                   /\ [LogNext]_logVars
                   /\ [StreamNext]_streamVars
  BY DEF Next, vars, NotHost, NotLog, NotStream

ServerInv == HostInv /\ LogInv /\ StreamInv

\* The inductive invariants of host, log and streams hold in every state they reach
\* together.
THEOREM ServerInvariant == Spec => []ServerInv
  <1>1. Init => ServerInv
    BY HostInitInv, LogInitInv, StreamInitInv DEF Init, ServerInv
  <1>2. ServerInv /\ [Next]_vars => ServerInv'
    BY EachStepsItself, HostStepKeepsInv, LogStepKeepsInv, StreamStepKeepsInv DEF ServerInv
  <1> QED BY <1>1, <1>2, PTL DEF Spec

\* What the host and its log hold is sound, for any number of requests, lines and
\* failures (startLocalRuntimeHost, OperationalLogger).
THEOREM HostIsSafeHolds == Spec => []HostIsSafe
  <1>1. ServerInv => HostIsSafe
    BY HostInvIsSafe, LogInvIsSafe DEF ServerInv, HostIsSafe
  <1> QED BY <1>1, ServerInvariant, PTL

\* A stream never skips or repeats an event, for any number of streams and events
\* (PublicEventStream and its reader).
THEOREM ServerStreamsAreSafe == Spec => []StreamSafety
  <1>1. ServerInv => StreamSafety
    BY StreamInvIsSafe DEF ServerInv
  <1> QED BY <1>1, ServerInvariant, PTL

\* Once it stops the host begins nothing, no event is received twice and no stream
\* outlives its session (checkpoint and run of the host; PublicEventStream).
THEOREM StepsAreSoundHolds == Spec => StepsAreSound
  <1>1. ServerInv /\ [Next]_vars =>
            [/\ pass' = "running" /\ pass # "running" => ~host.stop /\ host.listening
             /\ service'.state = "starting" /\ service.state # "starting" =>
                   ~host.stop]_hostVars
    BY EachStepsItself, BeginningsUnstopped DEF ServerInv
  <1>2. ServerInv /\ [Next]_vars =>
            [Receive /\ Head(wire).event => Head(wire).id \notin browser.got]_streamVars
    BY EachStepsItself, ReceivedOnce DEF ServerInv
  <1>3. ServerInv /\ [Next]_vars =>
            [session # "Current" => Len(wire') <= Len(wire)]_streamVars
    BY EachStepsItself, QuietAfterSession DEF ServerInv
  <1>4. Spec => [][Next]_vars
    BY PTL DEF Spec
  <1>5. Spec => NothingBeginsStopped
    BY <1>1, <1>4, ServerInvariant, PTL DEF NothingBeginsStopped
  <1>6. Spec => DeliveredOnce
    BY <1>2, <1>4, ServerInvariant, PTL DEF DeliveredOnce
  <1>7. Spec => SilentAfterSession
    BY <1>3, <1>4, ServerInvariant, PTL DEF SilentAfterSession
  <1> QED BY <1>5, <1>6, <1>7 DEF StepsAreSound, StreamStepsAreSound

=============================================================================
