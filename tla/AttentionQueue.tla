--------------------------- MODULE AttentionQueue ---------------------------
(***************************************************************************)
(* The AttentionScheduler of packages/agent-runtime/src/runtime.ts: the    *)
(* Attentions of one discovery round, at most one per conflict domain      *)
(* (Agent and Thread), dispatched by a bounded number of workers, with     *)
(* room for a bounded number in all and per Project.  Its methods run to   *)
(* completion between awaits, so each is one step; a dispatch is awaited,  *)
(* so its end is an operator of its own.  A Domain lies in one Project.    *)
(* The ready sets of the code always hold what the ready lists hold, and   *)
(* are left out; its counters are kept, for they could disagree.           *)
(***************************************************************************)
EXTENDS Integers, Sequences, FiniteSets, SequencesExt

CONSTANTS
    Projects,
    ProjectOf,      \* [Domains -> Projects]
    DomainOf,       \* [Attentions -> Domains], Attentions numbered from 1
    Concurrency,    \* options.concurrency
    BufferLimit,    \* options.bufferLimit
    ProjectLimit    \* options.projectLimit

Domains == DOMAIN ProjectOf
Attentions == DOMAIN DomainOf

ASSUME SchedulerAssumption ==
    /\ ProjectOf \in [Domains -> Projects]
    /\ DomainOf \in [Attentions -> Domains]
    /\ Concurrency \in Nat \ {0}
    /\ BufferLimit \in Nat \ {0}
    /\ ProjectLimit \in Nat \ {0}

\* A new scheduler
Empty ==
    [queue |-> << >>,                        \* domain -> retained Attention
     active |-> {},                          \* domains being dispatched
     under |-> [d \in Domains |-> 0],        \* domainDeferred
     retained |-> [p \in Projects |-> 0],    \* projectRetained
     ready |-> [p \in Projects |-> << >>],   \* projectReadyDomains
     projects |-> << >>,                     \* readyProjects
     buffered |-> 0, dispatched |-> 0, deferred |-> 0, failed |-> FALSE]

-----------------------------------------------------------------------------
(* The methods, on the scheduler's fields s *)

Retain(s, p, delta) ==
    [s EXCEPT !.buffered = @ + delta, !.retained[p] = @ + delta]

MarkProjectReady(s, p) ==
    IF p \in ToSet(s.projects) \/ s.ready[p] = << >> THEN s
    ELSE [s EXCEPT !.projects = Append(@, p)]

MarkReady(s, d) ==
    LET p == ProjectOf[d]
    IN  IF d \in s.active THEN s
        ELSE MarkProjectReady(
               [s EXCEPT !.ready[p] = IF d \in ToSet(@) THEN @
                                      ELSE Append(@, d)], p)

\* Workers that are free take the first domain of each ready Project in turn.
RECURSIVE Pump(_)
Pump(s) ==
    IF Cardinality(s.active) >= Concurrency \/ s.projects = << >> THEN s
    ELSE LET p == Head(s.projects)
             t == [s EXCEPT !.projects = Tail(@)]
         IN  IF t.ready[p] = << >> THEN Pump(t)
             ELSE LET d == Head(t.ready[p])
                      u == MarkProjectReady([t EXCEPT !.ready[p] = Tail(@)], p)
                  IN  IF d \notin DOMAIN s.queue THEN Pump(u)
                      ELSE Pump([u EXCEPT !.active = @ \cup {d}])

Without(f, d) == [x \in DOMAIN f \ {d} |-> f[x]]

CanEvict(s, p) == s.ready[p] # << >>

\* Mutant: what gives way is still counted.
EvictUncounted(s, p) ==
    LET d == Head(s.ready[p])
    IN  [s EXCEPT !.ready[p] = Tail(@),
                  !.queue = Without(@, d),
                  !.under[d] = 0,
                  !.deferred = @ + 1]

\* evictQueuedCandidate: the ready domain that waited longest gives way.
Evict(s, p) ==
    LET d == Head(s.ready[p])
    IN  Retain([s EXCEPT !.ready[p] = Tail(@),
                         !.queue = Without(@, d),
                         !.under[d] = 0,
                         !.deferred = @ + 1], p, -1)

\* evictForNewProject: the Project that retains most, of those with more than
\* one, gives way.  Ties are broken by the order of a Map.
EvictForNew(s, p) ==
    LET able == {q \in Projects \ {p} : s.retained[q] > 1 /\ CanEvict(s, q)}
        most == {q \in able : \A r \in able : s.retained[r] <= s.retained[q]}
    IN  {Evict(s, q) : q \in most}

\* What room can be made for an Attention of Project p, in every way the code
\* may do it; {} if none.
Room(s, p) ==
    IF s.retained[p] >= ProjectLimit
    THEN IF CanEvict(s, p) THEN {Evict(s, p)} ELSE {}
    ELSE IF s.buffered < BufferLimit THEN {s}
    ELSE IF s.retained[p] = 0 THEN EvictForNew(s, p)
    ELSE IF CanEvict(s, p) THEN {Evict(s, p)} ELSE {}

Deferred(s) == [s EXCEPT !.deferred = @ + 1]

Admit(s, a) ==
    LET d == DomainOf[a]
        q == [x \in DOMAIN s.queue \cup {d} |->
                IF x = d THEN a ELSE s.queue[x]]
    IN  Pump(MarkReady(Retain([s EXCEPT !.queue = q], ProjectOf[d], 1), d))

\* enqueue: the possible results, with the admission
Enqueue(s, a) ==
    LET d == DomainOf[a]
        p == ProjectOf[d]
    IN  IF d \in DOMAIN s.queue
        THEN {[s |-> [Deferred(s) EXCEPT !.under[d] = @ + 1],
               admission |-> "deferred"]}
        ELSE IF Room(s, p) # {}
        THEN {[s |-> Admit(t, a), admission |-> "admitted"] : t \in Room(s, p)}
        ELSE {[s |-> Deferred(s),
               admission |-> IF s.retained[p] >= ProjectLimit THEN "deferred"
                             ELSE "global-full"]}

\* run, once the dispatch of domain d has ended with a result
Ran(s, d, result) ==
    Pump([Retain([s EXCEPT !.active = @ \ {d}, !.queue = Without(@, d),
                           !.under[d] = 0], ProjectOf[d], -1)
            EXCEPT !.dispatched = @ + (IF result = "dispatched" THEN 1 ELSE 0),
                   !.failed = @ \/ result = "error",
                   !.deferred = IF result = "blocked" THEN @ - s.under[d]
                                ELSE IF result = "retry" /\ s.under[d] = 0
                                THEN @ + 1
                                ELSE @])
=============================================================================
