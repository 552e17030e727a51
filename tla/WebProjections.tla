--------------------------- MODULE WebProjections ---------------------------
(***************************************************************************)
(* How the web client keeps what it shows in step with the server:         *)
(* apps/web/src/controller.ts.  Facts change on the server and are         *)
(* announced by events; an event invalidates the projections it touches,   *)
(* each of which is read again, one read in flight and one to follow;      *)
(* answers come back late, in any order, or not at all; and meanwhile the  *)
(* user selects another Thread, refreshes the Run composer or signs out.   *)
(*                                                                         *)
(* Two projections stand for all: the selected Thread and the Run that     *)
(* stays selected in the session.  A projection is its version.  A step is *)
(* a handler up to its next await; a promise that others wait for is the   *)
(* request that will resolve it.                                           *)
(***************************************************************************)
EXTENDS Integers, Sequences, FiniteSets

CONSTANTS
    Threads,        \* Threads the user may select
    Home,           \* the Thread of the selected Run
    Run, NoThread,      \* the Run's key; no Thread
    MaxEvents,      \* bound: events of the server
    MaxUser,        \* bound: selections, refreshes, reconnects, sessions
    MaxFailures     \* bound: reads that fail

ASSUME WebAssumption ==
    /\ Home \in Threads /\ Run \notin Threads /\ NoThread \notin Threads \cup {Run}
    /\ MaxEvents \in Nat /\ MaxUser \in Nat /\ MaxFailures \in Nat

VARIABLES
    facts,     \* the version of each projection on the server
    events,     \* the events it has published: the keys touched, the versions
    client,     \* the fields of WebController
    user,       \* actions of the user so far
    failures    \* failed reads so far

projectionVars == <<facts, events, client, user, failures>>

Keys == Threads \cup {Run}

\* Threads share one request generation.
Kind(key) == IF key = Run THEN "run" ELSE "thread"

\* No version: nothing is shown.
Nothing == -1

NoInvalidation == [id |-> 0, events |-> {}, timer |-> FALSE]

NoRefresh == [inFlight |-> 0, followUp |-> FALSE]

\* projectionInvalidations (inv), pendingInvalidations (pend), coalescedRefreshes
\* (coal), latestProjectionRequests (latest); waits: who awaits which request, 0
\* for the follow-up of its key that has not been started.
Fresh(session) ==
    [session |-> session, selected |-> NoThread,
     generation |-> [k \in {"run", "thread"} |-> 0],
     requests |-> << >>, latest |-> [k \in Keys |-> 0],
     inv |-> [k \in Keys |-> NoInvalidation], created |-> 0,
     pend |-> [e \in 1..MaxEvents |-> {}], seen |-> {},
     coal |-> [k \in Keys |-> NoRefresh], waits |-> {},
     shown |-> [k \in Keys |-> Nothing],
     loading |-> [k \in {"run", "thread"} |-> FALSE]]

\* A ready session that shows the Run and its Thread.
ProjectionInit ==
    /\ facts = [k \in Keys |-> 0]
    /\ events = << >>
    /\ client = [Fresh(1) EXCEPT !.selected = Home,
                   !.shown = [k \in Keys |-> IF k \in {Home, Run} THEN 0 ELSE Nothing]]
    /\ user = 0
    /\ failures = 0

-----------------------------------------------------------------------------
(* Requests *)

\* The selection a key belongs to is still the one on screen.
Selected(c, key) == key = Run \/ c.selected = key

InScope(c, i) ==
    LET r == c.requests[i]
    IN  /\ r.session = c.session
        /\ IF r.quiet THEN c.selected = r.away ELSE Selected(c, r.key)

Current(c, i) ==
    LET r == c.requests[i]
    IN  /\ InScope(c, i)
        /\ IF r.quiet THEN c.latest[r.key] = i
           ELSE c.generation[Kind(r.key)] = r.generation

ReadRequest(c, key) ==
    [key |-> key, session |-> c.session, quiet |-> FALSE, away |-> NoThread,
     generation |-> c.generation[Kind(key)] + 1, pair |-> 0,
     answer |-> "None", version |-> Nothing, state |-> "Sent", follow |-> 0,
     ok |-> FALSE]

Last(c) == Len(c.requests)

Issue(c, r) ==
    [c EXCEPT !.requests = Append(@, r),
              !.latest[r.key] = Len(c.requests) + 1,
              !.generation[Kind(r.key)] = IF r.quiet THEN @ ELSE r.generation,
              !.loading[Kind(r.key)] = @ \/ ~r.quiet]

\* A request that has resolved; nothing else of it is looked at again.
Resolved(ok) ==
    [key |-> Run, session |-> 0, quiet |-> FALSE, away |-> NoThread, generation |-> 0,
     pair |-> 0, answer |-> "None", version |-> Nothing, state |-> "Done",
     follow |-> 0, ok |-> ok]

\* A closure for a selection that has gone resolves at once.
Moot(c, key) == [c EXCEPT !.requests = Append(@, Resolved(TRUE))]

\* loadThread and loadRun of what is selected.
Load(c, key) ==
    IF Selected(c, key) THEN Issue(c, ReadRequest(c, key)) ELSE Moot(c, key)

-----------------------------------------------------------------------------
(* Invalidations *)

\* Mutant: the follow-up that is asked for is the read already under way.
CoalesceJoining(c, key, w) ==
    IF c.coal[key].inFlight # 0
    THEN [c EXCEPT !.waits = @ \cup {[w EXCEPT !.on = c.coal[key].inFlight]}]
    ELSE LET l == Load(c, key)
         IN  [l EXCEPT !.coal[key].inFlight = Last(l),
                       !.waits = @ \cup {[w EXCEPT !.on = Last(l)]}]

\* One read in flight per key; whoever comes meanwhile shares the next one.
Coalesce(c, key, w) ==
    IF c.coal[key].inFlight # 0
    THEN [c EXCEPT !.coal[key].followUp = TRUE,
                   !.waits = @ \cup {[w EXCEPT !.on = 0]}]
    ELSE LET l == Load(c, key)
         IN  [l EXCEPT !.coal[key].inFlight = Last(l),
                       !.waits = @ \cup {[w EXCEPT !.on = Last(l)]}]

Waiter(kind, key, es, inv) ==
    [kind |-> kind, key |-> key, events |-> es, inv |-> inv, on |-> 0]

Register(c, e, key) ==
    LET id == IF c.inv[key].id = 0 THEN c.created + 1 ELSE c.inv[key].id
    IN  [c EXCEPT !.pend[e] = @ \cup {key}, !.inv[key].events = @ \cup {e},
                  !.inv[key].id = id,
                  !.created = IF id > c.created THEN id ELSE c.created]

\* While a retry is due the invalidation only joins it.
Queue(c, e, key) ==
    LET r == Register(c, e, key)
    IN  IF r.inv[key].timer THEN r
        ELSE Coalesce(r, key, Waiter("event", key, {e}, r.inv[key].id))

ScheduleRetry(c, key) ==
    IF c.inv[key].events = {} THEN c ELSE [c EXCEPT !.inv[key].timer = TRUE]

\* #reconcileEventProjection of a set of events: one is remembered once every
\* projection it touched was read again.
ReconcileAll(c, es, key) ==
    LET mine == {e \in es : c.pend[e] # {}}
        left == c.inv[key].events \ mine
    IN  [c EXCEPT !.pend = [e \in DOMAIN @ |-> IF e \in mine THEN @[e] \ {key} ELSE @[e]],
                  !.seen = @ \cup {e \in mine : c.pend[e] = {key}},
                  !.inv[key] = IF left = {} THEN NoInvalidation
                               ELSE [@ EXCEPT !.events = left]]

\* The selection of key goes away: its events have nothing left to refresh, and
\* whoever waits for its follow-up is told that all is well.
Abandon(c, key) ==
    IF key = NoThread THEN c
    ELSE LET r == ReconcileAll(c, c.inv[key].events, key)
         IN  [r EXCEPT !.inv[key] = NoInvalidation,
                       !.coal[key].followUp = FALSE,
                       !.waits = {w \in @ : ~(w.key = key /\ w.on = 0)}]

-----------------------------------------------------------------------------
(* Server and stream *)

Publish(keys) ==
    /\ Len(events) < MaxEvents
    /\ facts' = [k \in Keys |-> IF k \in keys THEN facts[k] + 1 ELSE facts[k]]
    /\ events' = Append(events, [keys |-> keys, version |-> facts'])
    /\ UNCHANGED <<client, user, failures>>

\* processingEventIds
Processing(c) == UNION {w.events : w \in {x \in c.waits : x.kind = "event"}}

\* #applyEvent, from the stream or from another window, once or again.
ApplyEvent(e) ==
    /\ e \notin client.seen \cup Processing(client)
    /\ client.pend[e] = {}
    /\ LET keys == {k \in events[e].keys : Selected(client, k)}
           thread == keys \ {Run}
           c1 == IF thread = {} THEN client
                 ELSE Queue(client, e, client.selected)
           c2 == IF Run \in keys THEN Queue(c1, e, Run) ELSE c1
       IN  client' = IF keys = {} THEN [client EXCEPT !.seen = @ \cup {e}] ELSE c2
    /\ UNCHANGED <<facts, events, user, failures>>

Answer(i) ==
    /\ client.requests[i].state = "Sent" /\ client.requests[i].answer = "None"
    /\ client' = [client EXCEPT !.requests[i].answer = "Read",
                     !.requests[i].version = facts[client.requests[i].key]]
    /\ UNCHANGED <<facts, events, user, failures>>

ReadFails(i) ==
    /\ failures < MaxFailures
    /\ client.requests[i].state = "Sent" /\ client.requests[i].answer = "None"
    /\ client' = [client EXCEPT !.requests[i].answer = "Failed"]
    /\ failures' = failures + 1
    /\ UNCHANGED <<facts, events, user>>

\* projectionSucceeded and projectionFailed of a current request.
Applied(c, i, show) ==
    LET r == c.requests[i]
    IN  [c EXCEPT !.requests[i] = Resolved(show),
                  !.shown[r.key] = IF show /\ ~r.quiet THEN r.version ELSE @,
                  !.loading[Kind(r.key)] = @ /\ r.quiet]

\* #replacementResult: a request that was superseded ends as its successor does.
Superseded(c, i) ==
    LET r == c.requests[i]
    IN  IF InScope(c, i) /\ c.latest[r.key] \notin {0, i}
        THEN [c EXCEPT !.requests[i].state = "Following",
                       !.requests[i].follow = c.latest[r.key]]
        ELSE [c EXCEPT !.requests[i].state = "Done"]

Settled(c, i) ==
    IF Current(c, i) THEN Applied(c, i, c.requests[i].answer = "Read")
    ELSE Superseded(c, i)

Settle(i) ==
    /\ client.requests[i].state = "Sent" /\ client.requests[i].answer # "None"
    /\ client.requests[i].pair = 0
    /\ client' = Settled(client, i)
    /\ UNCHANGED <<facts, events, user, failures>>

\* The composer's reads settle together: both are shown, or, when both are still
\* wanted and one of them failed, neither; otherwise each for itself.
SettlePair(i) ==
    LET j == client.requests[i].pair
        answered(k) == client.requests[k].state = "Sent" /\ client.requests[k].answer # "None"
        both == Current(client, i) /\ Current(client, j)
        fine == \A k \in {i, j} : client.requests[k].answer = "Read"
    IN  /\ j > i /\ answered(i) /\ answered(j)
        /\ client' = IF both /\ ~fine
                     THEN Applied(Applied(client, i, FALSE), j, FALSE)
                     ELSE Settled(Settled(client, i), j)
        /\ UNCHANGED <<facts, events, user, failures>>

Follow(i) ==
    LET r == client.requests[i]
    IN  /\ r.state = "Following"
        /\ client.requests[r.follow].state = "Done"
        /\ client' = [client EXCEPT !.requests[i] =
                         Resolved(client.requests[r.follow].ok /\ InScope(client, i))]
        /\ UNCHANGED <<facts, events, user, failures>>

\* #startCoalescedRefresh once its request has resolved.
ComposerReadEnds(key) ==
    LET i == client.coal[key].inFlight
        ended == [client EXCEPT !.coal[key] = NoRefresh]
        next  == Load(ended, key)
    IN  /\ i # 0
        /\ client.requests[i].state = "Done"
        /\ client' = IF ~client.coal[key].followUp THEN ended
                     ELSE [next EXCEPT !.coal[key].inFlight = Last(next),
                              !.waits = {IF w.key = key /\ w.on = 0
                                         THEN [w EXCEPT !.on = Last(next)]
                                         ELSE w : w \in @}]
        /\ UNCHANGED <<facts, events, user, failures>>

\* Mutant: a refresh that failed is given up.
WaitEndsForgetful(w) ==
    /\ w.on # 0
    /\ client.requests[w.on].state = "Done"
    /\ LET c  == [client EXCEPT !.waits = @ \ {w}]
           ok == client.requests[w.on].ok
       IN  client' = IF ok /\ (w.kind = "event" \/ c.inv[w.key].id = w.inv)
                     THEN ReconcileAll(c, w.events, w.key)
                     ELSE c
    /\ UNCHANGED <<facts, events, user, failures>>

\* The end of #applyEvent's work for a key, and of #retryProjectionInvalidation.
WaitEnds(w) ==
    /\ w.on # 0
    /\ client.requests[w.on].state = "Done"
    /\ LET c  == [client EXCEPT !.waits = @ \ {w}]
           ok == client.requests[w.on].ok
       IN  client' = IF w.kind = "retry" /\ c.inv[w.key].id # w.inv THEN c
                     ELSE IF ok THEN ReconcileAll(c, w.events, w.key)
                     ELSE ScheduleRetry(c, w.key)
    /\ UNCHANGED <<facts, events, user, failures>>

Retried(c, key) ==
    IF c.inv[key].events = {} THEN c
    ELSE Coalesce([c EXCEPT !.inv[key].timer = FALSE], key,
                  Waiter("retry", key, c.inv[key].events, c.inv[key].id))

RetryDue(key) ==
    /\ client.inv[key].timer
    /\ client' = Retried(client, key)
    /\ UNCHANGED <<facts, events, user, failures>>

-----------------------------------------------------------------------------
(* The user *)

Acts == user < MaxUser /\ user' = user + 1 /\ UNCHANGED <<facts, events, failures>>

\* loadThread: another Thread clears the one on screen at once.
Select(t) ==
    /\ Acts
    /\ LET c == IF client.selected = t THEN client
                ELSE [Abandon(client, client.selected) EXCEPT
                         !.selected = t,
                         !.shown = [k \in Keys |-> IF k = Run THEN @[Run] ELSE Nothing]]
       IN  client' = Load(c, t)

ClearThread ==
    /\ Acts
    /\ client.selected # NoThread
    /\ client' = [Abandon(client, client.selected) EXCEPT
                     !.selected = NoThread, !.generation["thread"] = @ + 1,
                     !.shown = [k \in Keys |-> IF k = Run THEN @[Run] ELSE Nothing],
                     !.loading["thread"] = FALSE]

LoadRun == Acts /\ client' = Load(client, Run)

\* refreshRunComposer reads the Run and its Thread as a pair, the Thread quietly
\* when another one is selected.
RefreshComposer ==
    /\ Acts
    /\ client.shown[Run] # Nothing
    /\ LET i  == Last(client) + 1
           r1 == [ReadRequest(client, Run) EXCEPT !.pair = i + 1]
           r2 == [ReadRequest(client, Home) EXCEPT
                     !.pair = i, !.quiet = client.selected # Home,
                     !.away = client.selected]
       IN  client' = Issue(Issue(client, r1), r2)

\* The stream is open again.
Reconnect ==
    /\ Acts
    /\ LET t  == client.selected
           c1 == IF t = NoThread THEN client ELSE Retried(client, t)
           c2 == Retried(c1, Run)
       IN  client' = Coalesce(c2, Run, Waiter("none", Run, {}, 0))

\* #clearSession and the bootstrap of the next session: what was in flight still
\* answers, and nobody listens.
NewSession ==
    /\ Acts
    /\ client' = [Fresh(client.session + 1) EXCEPT
                     !.requests = client.requests,
                     !.generation = [k \in DOMAIN @ |-> client.generation[k] + 1],
                     !.created = client.created,
                     !.seen = DOMAIN events,
                     !.waits = {w \in client.waits : w.on # 0}]

Resolves(i) == i # 0 /\ client.requests[i].state = "Done"

\* Promise continuations run before the next event of the loop.
ClientIdle ==
    /\ \A i \in DOMAIN client.requests : ~Resolves(client.requests[i].follow)
    /\ \A k \in Keys : ~Resolves(client.coal[k].inFlight)
    /\ \A w \in client.waits : ~Resolves(w.on)

Continue ==
    \/ \E i \in DOMAIN client.requests : Follow(i)
    \/ \E k \in Keys : ComposerReadEnds(k)
    \/ \E w \in client.waits : WaitEnds(w)

Network ==
    \/ \E i \in DOMAIN client.requests : Answer(i)
    \/ \E i \in DOMAIN client.requests : Settle(i) \/ SettlePair(i)

UserActs ==
    \/ \E t \in Threads : Select(t)
    \/ ClearThread \/ LoadRun \/ RefreshComposer \/ Reconnect \/ NewSession

ProjectionNext ==
    \/ Continue
    \/ ClientIdle /\ Network
    \/ ClientIdle /\ \E i \in DOMAIN client.requests : ReadFails(i)
    \/ ClientIdle /\ \E k \in Keys : RetryDue(k)
    \/ ClientIdle /\ \E t \in Threads, r \in {{}, {Run}} : Publish({t} \cup r)
    \/ ClientIdle /\ \E e \in DOMAIN events : ApplyEvent(e)
    \/ ClientIdle /\ UserActs

\* Requests are answered or fail, timers fire, promises resolve; the user need
\* not act and the server need not publish.
ProjectionFairness ==
    /\ WF_projectionVars(Continue)
    /\ WF_projectionVars(ClientIdle /\ Network)
    /\ WF_projectionVars(ClientIdle /\ \E k \in Keys : RetryDue(k))

ProjectionSpec == ProjectionInit /\ [][ProjectionNext]_projectionVars /\ ProjectionFairness
-----------------------------------------------------------------------------
(* Properties *)

ProjectionTypeOK ==
    /\ facts \in [Keys -> 0..MaxEvents]
    /\ client.selected \in Threads \cup {NoThread}
    /\ client.shown \in [Keys -> Nothing..MaxEvents]
    /\ client.seen \subseteq DOMAIN events
    /\ \A k \in Keys :
          /\ client.inv[k].events \subseteq DOMAIN events
          /\ client.coal[k].inFlight \in 0..Len(client.requests)
          /\ client.coal[k].followUp => client.coal[k].inFlight # 0
    /\ \A w \in client.waits : w.on = 0 => client.coal[w.key].followUp

\* No answer, however late, shows a Thread that is not the selected one.
ShowsTheSelected ==
    \A t \in Threads : client.shown[t] # Nothing => client.selected = t

\* An event that counts as handled is on the screen: every projection it touched
\* that is shown is at least as new as the event, over late answers, follow-ups
\* that were shared, retries and selections that went away and came back.
HandledIsShown ==
    \A e \in client.seen : \A k \in events[e].keys :
        client.shown[k] # Nothing => client.shown[k] >= events[e].version[k]

\* What is on screen never goes back to an older version of itself.
NeverOlder ==
    [][\A k \in Keys :
          client.shown[k] # Nothing /\ client'.shown[k] # Nothing
              /\ client'.session = client.session
          => client'.shown[k] >= client.shown[k]]_projectionVars

\* A spinner stands for a request that is still to come.
LoadingIsLive ==
    \A kind \in {"run", "thread"} : client.loading[kind] =>
        \E i \in DOMAIN client.requests :
            /\ Kind(client.requests[i].key) = kind
            /\ client.requests[i].state = "Sent"
            /\ Current(client, i)

\* The books agree: an event waits for a projection exactly when the projection
\* counts it among its invalidations.
BooksAgree ==
    \A e \in 1..MaxEvents, k \in Keys :
        k \in client.pend[e] <=> e \in client.inv[k].events

\* Every invalidation is finally honoured: the projection is read again, or its
\* selection goes away.
InvalidationsEnd ==
    \A e \in 1..MaxEvents : client.pend[e] # {} ~> client.pend[e] = {}

\* What is on screen at any time, over late answers, shared requests, retries
\* and selections that come and go: it belongs to the selection, it is as new
\* as the events that count as handled, and its spinner is honest.
ProjectionSafety ==
    /\ ProjectionTypeOK
    /\ HandledIsShown
    /\ BooksAgree
    /\ ShowsTheSelected
    /\ LoadingIsLive

=============================================================================
