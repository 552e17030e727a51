----------------------------- MODULE EventStream -----------------------------
(***************************************************************************)
(* The stream of public events between the server (apps/server/src/        *)
(* server.ts, #handleEventStream) and the browser's EventSource            *)
(* (apps/web/src/controller.ts, #connectEvents): bootstrap, subscription,  *)
(* pages of events some of which the reader may not see, checkpoints,      *)
(* backpressure, lost connections that are resumed from Last-Event-ID, and *)
(* a session that is revoked or expires while its streams are open.        *)
(*                                                                         *)
(* An event is its position in the Project's log; log[e] says whether the  *)
(* reader may see it.  Kernel queries are synchronous: a step of a stream  *)
(* goes from one write or sleep to the next, with the query in between.    *)
(* Heartbeats carry nothing and are left out.                              *)
(***************************************************************************)
EXTENDS Integers, Sequences, FiniteSets, FiniteSetsExt

CONSTANTS
    Batch,          \* events a page scans
    Buffer,         \* chunks a connection takes before write returns false
    MaxEvents,      \* bound: events of the Project
    MaxStreams,     \* bound: connections made
    MaxFailures     \* bound: queries that fail

ASSUME StreamAssumption ==
    /\ Batch \in Nat \ {0} /\ Buffer \in Nat \ {0}
    /\ MaxEvents \in Nat /\ MaxStreams \in Nat /\ MaxFailures \in Nat

VARIABLES
    log,        \* the Project's events: may the reader see it
    session,    \* "Current", "Revoked" or "Expired"
    serving,    \* the HTTP service has not begun to shut down
    streams,    \* the handlers of event requests, in order of arrival
    browser,    \* what the page holds
    wire,       \* chunks written to the browser's connection and not read
    failures    \* failed queries so far

streamVars == <<log, session, serving, streams, browser, wire, failures>>

Published == 1..Len(log)

Visible(from, to) == {e \in from + 1..to : log[e]}

-----------------------------------------------------------------------------
(* Pages *)

\* Mutant: the page ends at the last event the reader may see among Batch
\* later ones, but claims to have scanned everything.
PageScanningAll(cursor) ==
    LET through == IF Len(log) < cursor + Batch THEN Len(log) ELSE cursor + Batch
    IN  [events |-> Visible(cursor, through), through |-> Len(log), hasMore |-> FALSE]

\* readAuthorizedPublicEvents: Batch events are scanned, hidden ones dropped.
Page(cursor) ==
    LET through == IF Len(log) < cursor + Batch THEN Len(log) ELSE cursor + Batch
    IN  [events |-> Visible(cursor, through), through |-> through,
         hasMore |-> Len(log) > through]

\* A handler at the head of its loop: prev is the cursor the page was read from.
Reading(cursor) ==
    LET page == Page(cursor)
    IN  [pc |-> "Page", prev |-> cursor, page |-> page, left |-> page.events,
         aborted |-> FALSE]

Ended ==
    [pc |-> "Ended", prev |-> 0,
     page |-> [events |-> {}, through |-> 0, hasMore |-> FALSE], left |-> {},
     aborted |-> FALSE]

StreamInit ==
    /\ log = << >>
    /\ session = "Current"
    /\ serving = TRUE
    /\ streams = << >>
    /\ browser = [phase |-> "Away", base |-> 0, lastId |-> 0, got |-> {}, conn |-> 0]
    /\ wire = << >>
    /\ failures = 0

-----------------------------------------------------------------------------
(* The Project and the session *)

Publish ==
    /\ Len(log) < MaxEvents
    /\ \E visible \in BOOLEAN : log' = Append(log, visible)
    /\ UNCHANGED <<session, serving, streams, browser, wire, failures>>

\* DELETE /session, or the time the session was issued for.
EndSession ==
    /\ session = "Current"
    /\ session' \in {"Revoked", "Expired"}
    /\ UNCHANGED <<log, serving, streams, browser, wire, failures>>

Open(s) == streams[s].pc # "Ended"

\* The timer that #handleEventStream sets for the end of the session.
ExpiryTimer(s) ==
    /\ session = "Expired" /\ Open(s) /\ ~streams[s].aborted
    /\ streams' = [streams EXCEPT ![s].aborted = TRUE]
    /\ UNCHANGED <<log, session, serving, browser, wire, failures>>

Lost(b) == [b EXCEPT !.phase = "Reconnecting", !.conn = 0]

\* #shutdown aborts the registered streams and closes all connections.
Shutdown ==
    /\ serving
    /\ serving' = FALSE
    /\ streams' = [s \in DOMAIN streams |-> [streams[s] EXCEPT !.aborted = Open(s)]]
    /\ browser' = IF browser.conn = 0 THEN browser ELSE Lost(browser)
    /\ wire' = << >>
    /\ UNCHANGED <<log, session, failures>>

-----------------------------------------------------------------------------
(* The browser *)

\* The bootstrap names the last event it includes.
Bootstrap ==
    /\ browser.phase = "Away" /\ session = "Current" /\ serving
    /\ browser' = [browser EXCEPT !.phase = "Ready", !.base = Len(log)]
    /\ UNCHANGED <<log, session, serving, streams, wire, failures>>

\* Mutant: the cursor in the URL, which an EventSource never changes, wins.
CursorOfUrl(b) == b.base

\* Last-Event-ID, once there is one, before the cursor in the URL.
Cursor(b) == IF b.lastId = 0 THEN b.base ELSE b.lastId

\* The request of an EventSource: its first, or the retry after an error.
Connect ==
    /\ browser.phase \in {"Ready", "Reconnecting"} /\ serving
    /\ Len(streams) < MaxStreams
    /\ IF session = "Current"
       THEN /\ streams' = Append(streams, Reading(Cursor(browser)))
            /\ browser' = [browser EXCEPT !.phase = "Live", !.conn = Len(streams) + 1]
       ELSE \* 401: an EventSource does not try again
            /\ browser' = [browser EXCEPT !.phase = "Refused"]
            /\ UNCHANGED streams
    /\ UNCHANGED <<log, session, serving, wire, failures>>

\* The next chunk: the id it carries is the EventSource's last event id.
Receive ==
    /\ wire # << >>
    /\ LET chunk == Head(wire)
       IN  browser' = [browser EXCEPT !.lastId = chunk.id,
                         !.got = IF chunk.event THEN @ \cup {chunk.id} ELSE @]
    /\ wire' = Tail(wire)
    /\ UNCHANGED <<log, session, serving, streams, failures>>

\* The connection breaks: what was on the wire is lost.  The last connection
\* that the bound allows stays.
Break ==
    /\ browser.conn # 0 /\ Len(streams) < MaxStreams
    /\ browser' = Lost(browser)
    /\ wire' = << >>
    /\ UNCHANGED <<log, session, serving, streams, failures>>

\* The server hears of it: 'aborted' or 'close'.
Disconnect(s) ==
    /\ Open(s) /\ s # browser.conn /\ ~streams[s].aborted
    /\ streams' = [streams EXCEPT ![s].aborted = TRUE]
    /\ UNCHANGED <<log, session, serving, browser, wire, failures>>

-----------------------------------------------------------------------------
(* The handler of a stream *)

\* #authenticationIsCurrent, and the abort signal.
MayContinue(s) == session = "Current" /\ ~streams[s].aborted

Chunk(id, event) == [id |-> id, event |-> event]

\* writeStreamChunk: a connection that is full makes the handler wait; nobody
\* knows how much a broken one takes.
Write(s, chunk, next) ==
    IF s = browser.conn
    THEN /\ wire' = Append(wire, chunk)
         /\ streams' = [streams EXCEPT ![s] =
                [next EXCEPT !.pc = IF Len(wire) + 1 >= Buffer THEN "Full" ELSE @]]
    ELSE /\ wire' = wire
         /\ \E pc \in {"Full", next.pc} :
                streams' = [streams EXCEPT ![s] = [next EXCEPT !.pc = pc]]

WriteEvent(s) ==
    /\ streams[s].pc = "Page" /\ streams[s].left # {} /\ MayContinue(s)
    /\ LET e == Min(streams[s].left)
       IN  Write(s, Chunk(e, TRUE), [streams[s] EXCEPT !.left = @ \ {e}])
    /\ UNCHANGED <<log, session, serving, browser, failures>>

\* Drain, close or abort.
Drained(s) ==
    /\ streams[s].pc = "Full"
    /\ streams[s].aborted \/ (s = browser.conn /\ wire = << >>)
    /\ streams' = [streams EXCEPT ![s].pc = "Page"]
    /\ UNCHANGED <<log, session, serving, browser, wire, failures>>

\* The page ends in events that the reader may not see.
TailHidden(r) == r.page.through # r.prev /\ r.page.through \notin r.page.events

\* What follows the checkpoint: the tail is done, the cursor is the page's.
Scanned(r) == [r EXCEPT !.prev = r.page.through]

WriteCheckpoint(s) ==
    /\ streams[s].pc = "Page" /\ streams[s].left = {} /\ MayContinue(s)
    /\ TailHidden(streams[s])
    /\ Write(s, Chunk(streams[s].page.through, FALSE), Scanned(streams[s]))
    /\ UNCHANGED <<log, session, serving, browser, failures>>

Idle(r) == r.page.events = {} /\ ~r.page.hasMore

\* The page has been written and the handler turns to the next one.
Written(s) ==
    /\ streams[s].pc = "Page" /\ streams[s].left = {}
    /\ ~TailHidden(streams[s])

\* Nothing new: the handler waits for the poll interval.
Sleep(s) ==
    /\ Written(s) /\ MayContinue(s) /\ Idle(streams[s])
    /\ streams' = [streams EXCEPT ![s].pc = "Asleep"]
    /\ UNCHANGED <<log, session, serving, browser, wire, failures>>

\* About to read the next page.
Reads(s) ==
    /\ MayContinue(s)
    /\ (Written(s) /\ ~Idle(streams[s])) \/ streams[s].pc = "Asleep"

ReadPage(s) ==
    /\ Reads(s)
    /\ streams' = [streams EXCEPT ![s] = Reading(streams[s].page.through)]
    /\ UNCHANGED <<log, session, serving, browser, wire, failures>>

\* The query throws: headers are sent, so the response is destroyed.
QueryFails(s) ==
    /\ Reads(s) /\ failures < MaxFailures
    /\ s = browser.conn => Len(streams) < MaxStreams
    /\ failures' = failures + 1
    /\ streams' = [streams EXCEPT ![s] = Ended]
    /\ browser' = IF s = browser.conn THEN Lost(browser) ELSE browser
    /\ wire' = IF s = browser.conn THEN << >> ELSE wire
    /\ UNCHANGED <<log, session, serving>>

\* Mutant: a full connection is given up only when it drains.
EndsDrained(s) ==
    /\ Open(s) /\ streams[s].pc \in {"Page", "Asleep"} /\ session # "Current"
    /\ streams' = [streams EXCEPT ![s] = Ended]
    /\ browser' = IF s = browser.conn THEN [browser EXCEPT !.conn = 0, !.phase = "Ending"]
                  ELSE browser
    /\ UNCHANGED <<log, session, serving, wire, failures>>

\* The loop is left; response.end lets the browser read what was written.
Ends(s) ==
    /\ Open(s) /\ streams[s].pc \in {"Page", "Asleep"} /\ ~MayContinue(s)
    /\ streams' = [streams EXCEPT ![s] = Ended]
    /\ browser' = IF s = browser.conn THEN [browser EXCEPT !.conn = 0, !.phase = "Ending"]
                  ELSE browser
    /\ UNCHANGED <<log, session, serving, wire, failures>>

\* The browser has read to the end of the response and asks again.
ReadsEnd ==
    /\ browser.phase = "Ending" /\ wire = << >>
    /\ browser' = Lost(browser)
    /\ UNCHANGED <<log, session, serving, streams, wire, failures>>

-----------------------------------------------------------------------------
(* The specification *)

Handler(s) ==
    \/ WriteEvent(s) \/ Drained(s) \/ WriteCheckpoint(s) \/ Sleep(s)
    \/ ReadPage(s) \/ Ends(s)

StreamNext ==
    \/ Publish \/ EndSession \/ Shutdown
    \/ Bootstrap \/ Connect \/ Receive \/ Break \/ ReadsEnd
    \/ \E s \in DOMAIN streams :
          ExpiryTimer(s) \/ Disconnect(s) \/ QueryFails(s) \/ Handler(s)

StreamSpec == StreamInit /\ [][StreamNext]_streamVars

HandlerOf(s) == s \in DOMAIN streams /\ Handler(s)

\* What aborts a handler from outside.
AbortOf(s) == s \in DOMAIN streams /\ (ExpiryTimer(s) \/ Disconnect(s))

\* Handlers run, timers fire, a broken connection is noticed, the browser reads
\* and reconnects.  Nobody has to publish, sign out or break anything.
StreamFairness ==
    /\ WF_streamVars(Bootstrap) /\ WF_streamVars(Connect) /\ WF_streamVars(Receive) /\ WF_streamVars(ReadsEnd)
    /\ \A s \in 1..MaxStreams : WF_streamVars(HandlerOf(s)) /\ WF_streamVars(AbortOf(s))

StreamFairSpec == StreamSpec /\ StreamFairness

-----------------------------------------------------------------------------
(* Properties *)

\* The fields stay in their ranges, and an open connection has its handler.
StreamTypeOK ==
    /\ log \in Seq(BOOLEAN) /\ Len(log) <= MaxEvents
    /\ session \in {"Current", "Revoked", "Expired"} /\ serving \in BOOLEAN
    /\ browser.phase \in
          {"Away", "Ready", "Live", "Ending", "Reconnecting", "Refused"}
    /\ browser.base \in 0..Len(log) /\ browser.lastId \in 0..Len(log)
    /\ browser.conn # 0 => browser.phase = "Live" /\ Open(browser.conn)
    /\ \A s \in DOMAIN streams :
          /\ streams[s].pc \in {"Page", "Full", "Asleep", "Ended"}
          /\ streams[s].left \subseteq streams[s].page.events
          /\ streams[s].page.through \in 0..Len(log)
    /\ Len(wire) <= Buffer

\* What the browser has applied is exactly what the reader may see between its
\* bootstrap and its last event id: no gap between snapshot and subscription,
\* between pages, around a checkpoint or across reconnections, and nothing hidden
\* (server.ts #handleEventStream, projections.ts readAuthorizedPublicEvents).
NothingMissed == browser.got = Visible(browser.base, Cursor(browser))

\* An event is delivered to an EventSource once, whatever connections break
\* (Last-Event-ID takes precedence over the cursor in the URL).
DeliveredOnce ==
    [][Receive /\ Head(wire).event => Head(wire).id \notin browser.got]_streamVars

\* Once the session has been revoked or has expired, no stream opened with it
\* writes anything more, whatever page it holds and whatever it waits for.
SilentAfterSession ==
    [][session # "Current" => Len(wire') <= Len(wire)]_streamVars

\* The browser's cursor reaches the end of the log, over events it may not see,
\* so that all it may see is delivered and nothing is scanned again -- unless the
\* session or the service ends.
CatchesUp == []<>(Cursor(browser) = Len(log) \/ session # "Current" \/ ~serving)

\* A stream whose session has ended, whose reader has gone or whose service
\* shuts down does not stay registered, even if it waits for a connection that
\* will never drain.
StreamsEnd ==
    []<>(\A s \in DOMAIN streams :
            session # "Current" \/ ~serving \/ s # browser.conn => ~Open(s))

\* Every state of a stream is well formed and the browser misses nothing.
StreamSafety ==
    /\ StreamTypeOK
    /\ NothingMissed

\* No step of a stream repeats an event or writes after the session.
StreamStepsAreSound ==
    /\ DeliveredOnce
    /\ SilentAfterSession

=============================================================================
