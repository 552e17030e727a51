---------------------------- MODULE OperationalLog ----------------------------
(***************************************************************************)
(* The operational log: OperationalLogger (packages/operational-logging)   *)
(* writes its events one after the other into the BoundedOperationalLogSink*)
(* of apps/server, which keeps a current file and one predecessor.         *)
(*                                                                         *)
(* An event is its number and the bytes of its line.  Every system call of *)
(* the sink is a step of its own and may fail; an append is atomic.  The   *)
(* process may stop between any two steps: files stay, the queue does not. *)
(***************************************************************************)
EXTENDS Integers, Sequences, SequencesExt, FiniteSets

CONSTANTS
    Sizes,          \* bytes of the lines offered
    MaxLine,        \* maximumEventBytes
    MaxBytes,       \* maximumBytes of the current file
    MaxPending,     \* maximumPendingWrites
    MaxLogEvents,      \* bound: events offered
    MaxLogFaults,      \* bound: failed system calls
    MaxCrashes      \* bound: stops of the process

ASSUME OperationalLogAssumption ==
    /\ MaxLine \in Nat \ {0} /\ MaxBytes \in Nat /\ MaxLine <= MaxBytes
    /\ MaxPending \in Nat \ {0}
    /\ Sizes \subseteq Nat \ {0}
    /\ {MaxLogEvents, MaxLogFaults, MaxCrashes} \subseteq Nat

VARIABLES
    pending,    \* #pendingWrites
    queue,      \* accepted and not yet written, in order: #writeTail
    step,       \* the sink's next system call for Head(queue)
    settling,   \* written or failed, pending not yet decremented
    current, previous,  \* the files, as sequences of events
    bytes,      \* the size of the current file, while there is one
    outcome,    \* what emit said of each event
    logUsed        \* what was used of each bound

logVars == <<pending, queue, step, settling, current, previous, bytes, outcome, logUsed>>

LogInit ==
    /\ pending = 0 /\ queue = << >> /\ step = "idle" /\ settling = {}
    /\ current = << >> /\ previous = << >> /\ bytes = 0
    /\ outcome = << >>
    /\ logUsed = [faults |-> 0, crashes |-> 0]

\* fileSize: a file that is missing counts as empty.
FileSize == IF current = << >> THEN 0 ELSE bytes

-----------------------------------------------------------------------------
(* The logger *)

\* Backpressure.
Full == pending >= MaxPending

\* emit, which fails at once for a line that is too long or a queue that is full.
Emit(size) ==
    LET e == [n |-> Len(outcome) + 1, size |-> size]
    IN  /\ Len(outcome) < MaxLogEvents
        /\ IF size > MaxLine \/ Full
           THEN /\ outcome' = Append(outcome, IF size > MaxLine THEN "invalid" ELSE "refused")
                /\ UNCHANGED <<pending, queue>>
           ELSE /\ outcome' = Append(outcome, "accepted")
                /\ pending' = pending + 1
                /\ queue' = Append(queue, e)
        /\ UNCHANGED <<step, settling, current, previous, bytes, logUsed>>

\* The head of the queue is written, or has failed; the tail of the chain goes on
\* in either case.
Finish(how) ==
    /\ step' = "idle"
    /\ queue' = Tail(queue)
    /\ settling' = settling \cup {[n |-> Head(queue).n, how |-> how]}

\* The promise emit returned settles.
Settle(s) ==
    /\ settling' = settling \ {s}
    /\ outcome' = [outcome EXCEPT ![s.n] = s.how]
    /\ pending' = pending - 1
    /\ UNCHANGED <<queue, step, current, previous, bytes, logUsed>>

-----------------------------------------------------------------------------
(* The sink *)

Begin ==
    /\ step = "idle" /\ queue # << >>
    /\ step' = "stat"
    /\ UNCHANGED <<pending, queue, settling, current, previous, bytes, outcome, logUsed>>

Overflows(size) == FileSize > 0 /\ FileSize + size > MaxBytes

Stat ==
    /\ step = "stat"
    /\ step' = IF Overflows(Head(queue).size) THEN "unlink" ELSE "append"
    /\ UNCHANGED <<pending, queue, settling, current, previous, bytes, outcome, logUsed>>

Unlink ==
    /\ step = "unlink"
    /\ step' = "rename" /\ previous' = << >>
    /\ UNCHANGED <<pending, queue, settling, current, bytes, outcome, logUsed>>

Rename ==
    /\ step = "rename"
    /\ step' = "append" /\ previous' = current /\ current' = << >>
    /\ UNCHANGED <<pending, queue, settling, bytes, outcome, logUsed>>

WriteLine ==
    /\ step = "append"
    /\ step' = "chmod" /\ current' = Append(current, Head(queue))
    /\ bytes' = FileSize + Head(queue).size
    /\ UNCHANGED <<pending, queue, settling, previous, outcome, logUsed>>

Chmod ==
    /\ step = "chmod"
    /\ Finish("logged")
    /\ UNCHANGED <<pending, current, previous, bytes, outcome, logUsed>>

\* The system call fails and takes no effect.
Fails ==
    /\ step # "idle" /\ logUsed.faults < MaxLogFaults
    /\ logUsed' = [logUsed EXCEPT !.faults = @ + 1]
    /\ Finish("failed")
    /\ UNCHANGED <<pending, current, previous, bytes, outcome>>

-----------------------------------------------------------------------------
\* The process stops; the next one begins with what is in the files.
Crash ==
    /\ logUsed.crashes < MaxCrashes
    /\ logUsed' = [logUsed EXCEPT !.crashes = @ + 1]
    /\ pending' = 0 /\ queue' = << >> /\ step' = "idle" /\ settling' = {}
    /\ outcome' = [n \in DOMAIN outcome |-> IF outcome[n] = "accepted" THEN "unknown"
                                            ELSE outcome[n]]
    /\ UNCHANGED <<current, previous, bytes>>

Sink == Begin \/ Stat \/ Unlink \/ Rename \/ WriteLine \/ Chmod \/ Fails

Settling == \E s \in settling : Settle(s)

LogNext ==
    \/ \E size \in Sizes : Emit(size)
    \/ Sink
    \/ Settling
    \/ Crash

\* System calls return and promises settle.
LogFairness == WF_logVars(Sink) /\ WF_logVars(Settling)

LogSpec == LogInit /\ [][LogNext]_logVars /\ LogFairness
-----------------------------------------------------------------------------
(* Properties *)

Unfinished == {n \in DOMAIN outcome : outcome[n] = "accepted"}
Files      == previous \o current

LogTypeOK ==
    /\ step \in {"idle", "stat", "unlink", "rename", "append", "chmod"}
    /\ step # "idle" => queue # << >>
    /\ pending = Cardinality(Unfinished)
    /\ Unfinished = {e.n : e \in ToSet(queue)} \cup {s.n : s \in settling}

\* Neither the queue nor the current file ever exceeds its limit, whatever failed
\* or was interrupted before.
Bounded == pending <= MaxPending /\ FileSize <= MaxBytes

\* What is in the files is in the order in which it was emitted, each line once.
InOrder == \A i, j \in DOMAIN Files : i < j => Files[i].n < Files[j].n

\* Rotation loses the oldest lines only: a line known to be logged is there unless
\* everything logged before it is gone too, and never without a later one.
OldestGoFirst ==
    LET logged == {n \in DOMAIN outcome : outcome[n] = "logged"}
        kept   == {e.n : e \in ToSet(Files)}
    IN  /\ \A m \in logged \cap kept : \A n \in logged : n > m => n \in kept
        /\ \A n \in logged : \E m \in kept : m >= n

\* Every accepted event is finally reported as logged or failed, unless the
\* process stops: a failed write does not block those behind it.
AcceptedIsSettled == []<>(Unfinished = {})

\* What the log holds: bounded, in order, and only its oldest lines gone.
LogSafety ==
    /\ LogTypeOK
    /\ Bounded
    /\ InOrder
    /\ OldestGoFirst

=============================================================================
