---------------------------- MODULE HumanCommands ----------------------------
(***************************************************************************)
(* How a browser window gives the commands of its Human to the server:     *)
(* #command of apps/web/src/controller.ts with the recovery of             *)
(* run-composer-model.ts and run-controls-model.ts on one side, sessions,  *)
(* CSRF tokens and the idempotent Kernel behind apps/server/src/server.ts  *)
(* on the other.  Requests and answers are lost, a request the window gave *)
(* up on may still arrive, sessions expire, other windows of the browser   *)
(* sign in and out, the entity moves on, and the window is reloaded.       *)
(*                                                                         *)
(* An intention is what the Human means by one draft or one click, until   *)
(* the window says how it ended.  A session id and its CSRF token are made *)
(* together and are one number here.  A window step is a handler up to its *)
(* next await.                                                             *)
(***************************************************************************)
EXTENDS Integers, Sequences, FiniteSets

CONSTANTS
    Composers,      \* Runs one may send to: RunComposerModel
    Controls,       \* Run controls: RunControlsModel, kept in session storage
    Operations,     \* collaboration commands, by fingerprint
    Posts,          \* new threads and replies, by fingerprint
    Principals, Nobody,
    MaxSessions,    \* bound: sessions created
    MaxSubmits,     \* bound: submissions by the user
    MaxFaults,      \* bound: losses, internal errors, failed saves
    MaxMoves,       \* bound: changes by someone else
    MaxReloads      \* bound: reloads of the window

ASSUME HumanCommandsAssumption ==
    /\ Nobody \notin Principals
    /\ (Composers \cup Controls) \cap (Operations \cup Posts) = {}
    /\ {MaxSessions, MaxSubmits, MaxFaults, MaxMoves, MaxReloads} \subseteq Nat

RunOps  == Composers \cup Controls      \* RunCommandModel
Pending == Operations \cup Posts        \* maps of pending requests
Ops     == RunOps \cup Pending

VARIABLES
    server,     \* sessions, the browser's cookie, entities, what was committed
    window,     \* the fields of WebController and its command models
    late,       \* requests nobody waits for that may still arrive
    used        \* what was used of each bound

commandVars == <<server, window, late, used>>

None == 0

\* A command entry; of a pending request only key, principal, expected,
\* uncertain and active matter.
EmptyEntry ==
    [status |-> "draft", key |-> None, principal |-> Nobody, expected |-> 0,
     uncertain |-> FALSE, rejected |-> 0, review |-> FALSE, acknowledged |-> None,
     active |-> 0, intent |-> 1]

\* calls: #command calls in progress; seen: the entity's revision on screen;
\* broken: recoveryError; saved: the window's session storage; told: how
\* intentions ended, as the user saw it.  csrfRevision and sessionGeneration are
\* only compared with what a call captured: a call knows which of them changed.
FreshWindow ==
    [token |-> None, principal |-> Nobody, calls |-> {},
     entry |-> [o \in Ops |-> EmptyEntry], seen |-> [o \in Ops |-> 1],
     broken |-> FALSE, saved |-> [o \in Controls |-> EmptyEntry],
     exchanging |-> {}, inbox |-> << >>, told |-> {}]

CommandInit ==
    /\ \E permits \in [Ops -> BOOLEAN] :
          server = [live |-> {}, owner |-> << >>, cookie |-> None,
                    revision |-> [o \in Ops |-> 1], permits |-> permits,
                    commits |-> {}]
    /\ window = FreshWindow
    /\ late = {}
    /\ used = [submits |-> 0, faults |-> 0, moves |-> 0, reloads |-> 0, keys |-> 0]

Uses(what, bound) == used[what] < bound /\ used' = [used EXCEPT ![what] = @ + 1]

-----------------------------------------------------------------------------
(* Sessions *)

\* POST /session: the browser's session is used again by its own principal.
Exchanged(p) ==
    LET sid == IF server.cookie \in server.live /\ server.owner[server.cookie] = p
               THEN server.cookie ELSE Len(server.owner) + 1
    IN  [server EXCEPT !.live = @ \cup {sid}, !.cookie = sid,
                       !.owner = IF sid > Len(@) THEN Append(@, p) ELSE @]

MayExchange(p) ==
    \/ Len(server.owner) < MaxSessions
    \/ server.cookie \in server.live /\ server.owner[server.cookie] = p

\* #setCsrfToken
SetToken(w, sid) ==
    [w EXCEPT !.token = sid, !.principal = server.owner[sid],
              !.calls = {[c EXCEPT !.sameToken = FALSE] : c \in @}]

\* #clearSession
Cleared(w) ==
    [w EXCEPT !.token = None, !.principal = Nobody,
              !.calls = {[c EXCEPT !.sameToken = FALSE, !.sameSession = FALSE] : c \in @}]

\* exchangeSession: its answer comes later, or not at all.
SignIn(p) ==
    /\ window.exchanging = {} /\ MayExchange(p)
    /\ server' = Exchanged(p)
    /\ window' = [window EXCEPT !.exchanging = {server'.cookie}]
    /\ UNCHANGED <<late, used>>

\* #bootstrap begins a session generation of its own.
SignedIn ==
    /\ window.exchanging # {}
    /\ \E sid \in window.exchanging :
          window' = [SetToken(window, sid) EXCEPT !.exchanging = {},
                        !.calls = {[c EXCEPT !.sameSession = FALSE] : c \in @}]
    /\ UNCHANGED <<server, late, used>>

SignInLost ==
    /\ window.exchanging # {} /\ Uses("faults", MaxFaults)
    /\ window' = [Cleared(window) EXCEPT !.exchanging = {}]
    /\ UNCHANGED <<server, late>>

Closed ==
    [server EXCEPT !.live = @ \ {server.cookie}, !.cookie = None]

SignOut ==
    /\ window.token # None
    /\ server' = Closed
    /\ window' = Cleared(window)
    /\ UNCHANGED <<late, used>>

\* Another window of the browser, which tells this one.
OtherSignsIn(p) ==
    /\ Len(window.inbox) < 1 /\ MayExchange(p)
    /\ server' = Exchanged(p)
    /\ window' = [window EXCEPT !.inbox = Append(@, server'.cookie)]
    /\ UNCHANGED <<late, used>>

OtherSignsOut ==
    /\ Len(window.inbox) < 1 /\ server.cookie # None
    /\ server' = Closed
    /\ window' = [window EXCEPT !.inbox = Append(@, None)]
    /\ UNCHANGED <<late, used>>

SessionExpires(sid) ==
    /\ sid \in server.live
    /\ server' = [server EXCEPT !.live = @ \ {sid}]
    /\ UNCHANGED <<window, late, used>>

\* The broadcast channel's handler.
Told ==
    /\ window.inbox # << >>
    /\ LET sid == Head(window.inbox)
           w   == [window EXCEPT !.inbox = Tail(@)]
       IN  window' = IF \/ sid = None
                        \/ w.principal \notin {Nobody, server.owner[sid]}
                     THEN Cleared(w) ELSE SetToken(w, sid)
    /\ UNCHANGED <<server, late, used>>

-----------------------------------------------------------------------------
(* Submission *)

\* The request of an entry, made once and kept until its outcome is known.
Request(e, op) ==
    IF e.key # None THEN [key |-> e.key, expected |-> e.expected]
    ELSE [key |-> used.keys + 1, expected |-> window.seen[op]]

\* What RunComposerModel.submit and RunControlsModel.submit ask before a request
\* is made.
Available(e, op) ==
    \/ e.key # None
    \/ /\ e.rejected # window.seen[op]
       /\ op \in Controls => e.acknowledged = None /\ ~e.review

\* The principal that may recover a request.
Recovers(e, op) ==
    op \notin Posts /\ e.key # None => e.principal = window.principal

\* #sendCommand: the browser adds its cookie.
Sent(c) ==
    [c EXCEPT !.sid = server.cookie, !.token = window.token,
              !.sameSession = TRUE, !.sameToken = TRUE,
              !.state = "Sent", !.answer = "None"]

Call(op, r, e) ==
    [n |-> used.submits, op |-> op, key |-> r.key, expected |-> r.expected,
     intent |-> e.intent, by |-> window.principal, sid |-> None, token |-> None,
     sameSession |-> TRUE, sameToken |-> TRUE, attempt |-> 1, state |-> "Sent",
     answer |-> "None"]

\* RunControlsModel.changed keeps requests and receipts, never drafts.
Kept(e) ==
    IF e.key # None
    THEN [EmptyEntry EXCEPT !.key = e.key, !.principal = e.principal,
             !.expected = e.expected, !.status = "unknown", !.uncertain = TRUE,
             !.intent = e.intent]
    ELSE [EmptyEntry EXCEPT !.acknowledged = e.acknowledged, !.intent = e.intent,
             !.status = IF e.acknowledged = None THEN "draft" ELSE "submitted"]

Put(w, op, e) ==
    [w EXCEPT !.entry[op] = e,
              !.saved = IF op \in Controls /\ ~w.broken
                        THEN [@ EXCEPT ![op] = Kept(e)] ELSE @]

Submit(op) ==
    LET e == window.entry[op]
        r == Request(e, op)
        c == Call(op, r, e)
    IN  /\ used.submits < MaxSubmits
        /\ window.principal # Nobody
        /\ op \in Controls => ~window.broken
        /\ op \in RunOps => e.status # "submitting" /\ Available(e, op)
        /\ Recovers(e, op)
        /\ used' = [used EXCEPT !.submits = @ + 1,
                       !.keys = IF r.key > @ THEN r.key ELSE @]
        /\ window' = Put([window EXCEPT !.calls = @ \cup {Sent(c)}], op,
                         [e EXCEPT !.status = "submitting", !.key = r.key,
                             !.principal = window.principal, !.expected = r.expected,
                             !.rejected = 0, !.active = @ + 1])
        /\ UNCHANGED <<server, late>>

\* The request cannot be saved: nothing is sent and controls stop working.
SaveFails(op) ==
    /\ op \in Controls /\ ~window.broken
    /\ window.principal # Nobody
    /\ Uses("faults", MaxFaults)
    /\ window' = [window EXCEPT !.broken = TRUE]
    /\ UNCHANGED <<server, late>>

\* refreshRunComposer and refreshRunControls, once they succeeded.
Refresh(op) ==
    /\ window.token # None
    /\ window' = Put([window EXCEPT !.seen[op] = server.revision[op]], op,
                     [window.entry[op] EXCEPT !.review = FALSE])
    /\ window' # window
    /\ UNCHANGED <<server, late, used>>

-----------------------------------------------------------------------------
(* The server *)

Refused(c) ==
    IF c.sid \notin server.live THEN "401"
    ELSE IF c.token # c.sid THEN "403"
    ELSE "None"

Committed(c) ==
    \E k \in server.commits : k.key = c.key /\ k.principal = server.owner[c.sid]

\* Session, CSRF token, the idempotency record of the principal, the domain.
Outcome(c) ==
    IF Refused(c) # "None" THEN Refused(c)
    ELSE IF Committed(c) THEN "Ok"
    ELSE IF ~server.permits[c.op] THEN "Forbidden"
    ELSE IF c.op \notin Posts /\ server.revision[c.op] # c.expected THEN "Stale"
    ELSE "Commit"

Handled(c) ==
    IF Outcome(c) # "Commit" THEN server
    ELSE [server EXCEPT !.revision[c.op] = @ + 1,
             !.commits = @ \cup {[op |-> c.op, key |-> c.key, intent |-> c.intent,
                                  by |-> c.by, principal |-> server.owner[c.sid]]}]

Waiting(c) == c.state = "Sent" /\ c.answer = "None"

Without(c) == [window EXCEPT !.calls = @ \ {c}]

Becomes(w, d) == window' = [w EXCEPT !.calls = @ \cup {d}]

Arrive(c) ==
    /\ Waiting(c)
    /\ server' = Handled(c)
    /\ Becomes(Without(c), [c EXCEPT !.answer = IF Outcome(c) = "Commit" THEN "Ok"
                                                ELSE Outcome(c)])
    /\ UNCHANGED <<late, used>>

\* The request fails for the window, before or after it took effect, or long
\* before it arrives.
Fails(c) ==
    /\ Waiting(c) /\ Uses("faults", MaxFaults)
    /\ Becomes(Without(c), [c EXCEPT !.answer = "Error"])
    /\ \/ server' = server /\ late' = late
       \/ server' = Handled(c) /\ late' = late
       \/ server' = server /\ late' = late \cup {c}

ArrivesLate(c) ==
    /\ server' = Handled(c)
    /\ late' = late \ {c}
    /\ UNCHANGED <<window, used>>

\* Someone else changes the entity.
Moves(op) ==
    /\ Uses("moves", MaxMoves)
    /\ server' = [server EXCEPT !.revision[op] = @ + 1]
    /\ UNCHANGED <<window, late>>

\* What a definite refusal other than a stale revision is about changes, so that
\* one command is refused and a later one is not, or the reverse.
Permits(op) ==
    /\ Uses("moves", MaxMoves)
    /\ server' = [server EXCEPT !.permits[op] = ~@]
    /\ UNCHANGED <<window, late>>

-----------------------------------------------------------------------------
(* The end of a call *)

\* The user is told how the intention ended; the next one is another.
Tells(w, c, how) ==
    [w EXCEPT !.told = @ \cup {[op |-> c.op, intent |-> c.intent, by |-> c.by, how |-> how]}]

Ends(e, w, c, how) == Put(Tells(w, c, how), c.op, [e EXCEPT !.intent = @ + 1])

RunSubmitted(w, c) ==
    Ends([EmptyEntry EXCEPT !.intent = w.entry[c.op].intent, !.status = "submitted",
             !.acknowledged = c.key], w, c, "done")

Authentication == {"401", "403"}

\* What the end of a call with a refusal says of the intention.  The user reads the
\* same in both cases, but "refused" is said while an earlier attempt
\* may still take effect, or while session storage keeps the request.
Refusal(w, c) ==
    IF \/ c.answer = "Stale"
       \/ ~w.entry[c.op].uncertain /\ ~(c.op \in Controls /\ w.broken)
    THEN "not done" ELSE "refused"

\* Mutant: a refusal is final even for a request that may have been committed.
RunFailedFinal(w, c) ==
    LET e == [w.entry[c.op] EXCEPT !.active = 0]
    IN  IF c.answer \in {"Stale", "Forbidden"} \cup Authentication
        THEN Ends([EmptyEntry EXCEPT !.intent = e.intent, !.status = "rejected",
                      !.rejected = c.expected, !.review = TRUE], w, c, "not done")
        ELSE Put(w, c.op, [e EXCEPT !.uncertain = TRUE, !.status = "unknown"])

\* The catch of submitRequest: a domain check that failed comes after the
\* idempotency record; any other refusal is final only if nothing is uncertain.
RunFailed(w, c) ==
    LET e == [w.entry[c.op] EXCEPT !.active = 0]
        uncertain == e.uncertain \/ c.answer \notin Authentication
    IN  IF c.answer = "Stale" \/ (c.answer = "Forbidden" /\ ~e.uncertain)
        THEN Ends([EmptyEntry EXCEPT !.intent = e.intent, !.status = "rejected",
                      !.rejected = c.expected, !.review = TRUE], w, c, Refusal(w, c))
        ELSE Put(w, c.op, [e EXCEPT !.uncertain = uncertain,
                              !.status = IF uncertain THEN "unknown" ELSE "auth-required"])

\* The pending request this call was made for is still in its map.
Mine(w, c) == w.entry[c.op].key = c.key

Forgotten(e) == [EmptyEntry EXCEPT !.intent = e.intent]

\* A refusal is final if nothing is uncertain, or if it is about the entity.
PendingFailed(w, c) ==
    LET e == [w.entry[c.op] EXCEPT !.active = @ - 1,
                                   !.uncertain = @ \/ c.answer = "Error"]
    IN  IF ~Mine(w, c) THEN w
        ELSE IF /\ e.active = 0 /\ c.answer # "Error"
                /\ ~(e.uncertain /\ c.answer \in Authentication)
        THEN Ends(Forgotten(e), w, c, Refusal(w, c))
        ELSE Put(w, c.op, e)

\* After the refresh that follows a success.
PendingDone(w, c) ==
    LET e == [w.entry[c.op] EXCEPT !.active = @ - 1]
    IN  IF ~Mine(w, c) THEN w
        ELSE IF e.active = 0 THEN Ends(Forgotten(e), w, c, "done")
        ELSE Put(Tells(w, c, "done"), c.op, e)

\* The error leaves #command.
Thrown(w, c) ==
    window' = IF c.op \in RunOps THEN RunFailed(w, c) ELSE PendingFailed(w, c)

Answered(c) == c.state = "Sent" /\ c.answer # "None"

Succeeds(c) ==
    /\ Answered(c) /\ c.answer = "Ok"
    /\ IF c.op \in RunOps
       THEN window' = RunSubmitted(Without(c), c)
       ELSE Becomes(Without(c), [c EXCEPT !.state = "Refreshing"])
    /\ UNCHANGED <<server, late, used>>

RefreshEnds(c) ==
    /\ c.state = "Refreshing"
    /\ window' = PendingDone([Without(c) EXCEPT !.seen[c.op] = server.revision[c.op]], c)
    /\ UNCHANGED <<server, late, used>>

Rejects(c) ==
    /\ Answered(c) /\ c.answer \in {"Stale", "Forbidden", "Error"}
    /\ Thrown(Without(c), c)
    /\ UNCHANGED <<server, late, used>>

\* #request: a 401 ends the session it was sent under, and only that.
Unauthorized(c) ==
    IF c.sameSession /\ c.sameToken THEN Cleared(Without(c)) ELSE Without(c)

\* A 401 that only means the token was replaced is tried once more, except for
\* posts.
Unauthenticated(c) ==
    /\ Answered(c) /\ c.answer = "401"
    /\ IF /\ c.op \notin Posts /\ c.attempt = 1
          /\ ~c.sameToken /\ window.token # None /\ window.principal = c.by
       THEN Becomes(Unauthorized(c), [Sent(c) EXCEPT !.attempt = 2])
       ELSE Thrown(Unauthorized(c), c)
    /\ UNCHANGED <<server, late, used>>

\* The first 403 waits for another window's token; the second ends the session
\* if it is about the token the window still has.
BadToken(c) ==
    /\ Answered(c) /\ c.answer = "403"
    /\ IF c.attempt = 1 THEN Becomes(Without(c), [c EXCEPT !.state = "Rotating"])
       ELSE Thrown(IF c.attempt = 3 /\ c.sameSession /\ c.sameToken
                   THEN Cleared(Without(c)) ELSE Without(c), c)
    /\ UNCHANGED <<server, late, used>>

Rotated(c) == c.state = "Rotating" /\ ~c.sameToken

\* Mutant: the wait has no end of its own.
RotationEndsEventually(c) ==
    /\ Rotated(c)
    /\ IF window.token # None /\ c.sameSession
       THEN Becomes(Without(c), [Sent(c) EXCEPT !.attempt = 3])
       ELSE Thrown(IF c.sameSession THEN Cleared(Without(c)) ELSE Without(c), c)
    /\ UNCHANGED <<server, late, used>>

\* #waitForCsrfRotation resolves: the token changed, or 750 ms have passed.
RotationEnds(c) ==
    /\ c.state = "Rotating"
    /\ IF Rotated(c) /\ window.token # None /\ c.sameSession
       THEN Becomes(Without(c), [Sent(c) EXCEPT !.attempt = 3])
       ELSE Thrown(IF c.sameSession THEN Cleared(Without(c)) ELSE Without(c), c)
    /\ UNCHANGED <<server, late, used>>

-----------------------------------------------------------------------------
(* Reload *)

\* What was in memory is gone, and with it the intentions it stood for; controls
\* come back from session storage, the token too.
Reload ==
    /\ Uses("reloads", MaxReloads)
    /\ window' = [FreshWindow EXCEPT
          !.token = window.token, !.principal = window.principal,
          !.saved = window.saved, !.told = window.told,
          !.seen = window.seen,
          !.entry = [o \in Ops |-> IF o \in Controls THEN window.saved[o]
                                   ELSE [EmptyEntry EXCEPT
                                           !.intent = window.entry[o].intent + 1]]]
    /\ late' = late \cup {c \in window.calls : Waiting(c)}
    /\ UNCHANGED server

Idle == \A c \in window.calls : ~Rotated(c)

Answering ==
    \E c \in window.calls : Succeeds(c) \/ Rejects(c) \/ Unauthenticated(c) \/ BadToken(c)
                        \/ RefreshEnds(c)

CommandNext ==
    \/ \E c \in window.calls : RotationEnds(c)
    \/ Idle /\ Answering
    \/ Idle /\ \E c \in window.calls : Arrive(c)
    \/ Idle /\ \E c \in window.calls : Fails(c)
    \/ Idle /\ \E op \in Ops : Submit(op) \/ SaveFails(op) \/ Refresh(op)
    \/ Idle /\ \E op \in Ops : Moves(op) \/ Permits(op)
    \/ Idle /\ \E c \in late : ArrivesLate(c)
    \/ Idle /\ \E p \in Principals : SignIn(p) \/ OtherSignsIn(p)
    \/ Idle /\ (SignedIn \/ SignInLost \/ SignOut \/ OtherSignsOut \/ Told)
    \/ Idle /\ \E sid \in server.live : SessionExpires(sid)
    \/ Idle /\ Reload

\* Requests are answered, answers are handled, the timer of a rotation fires.
CommandFairness ==
    /\ WF_commandVars(\E c \in window.calls : RotationEnds(c))
    /\ WF_commandVars(Idle /\ Answering)
    /\ WF_commandVars(Idle /\ \E c \in window.calls : Arrive(c))

CommandSpec == CommandInit /\ [][CommandNext]_commandVars /\ CommandFairness
-----------------------------------------------------------------------------
(* Properties *)

CommandTypeOK ==
    /\ server.live \subseteq DOMAIN server.owner
    /\ window.token \in {None} \cup DOMAIN server.owner
    /\ window.principal = IF window.token = None THEN Nobody ELSE server.owner[window.token]
    /\ \A o \in Ops : LET e == window.entry[o] IN
          /\ e.key \in 0..used.keys
          /\ e.status \in {"draft", "submitting", "unknown", "auth-required",
                           "rejected", "submitted"}
          /\ o \in RunOps => (e.status = "submitting" <=> \E c \in window.calls : c.op = o)
          /\ o \in Pending => e.active = Cardinality({c \in window.calls : c.op = o})
          /\ e.uncertain => e.key # None

\* One intention takes effect at most once, over lost answers, retries, changes of
\* session, late arrivals and, for controls, reloads of the window.
AtMostOnce ==
    \A k, l \in server.commits :
        k.op = l.op /\ k.intent = l.intent /\ k.by = l.by => k = l

\* A window that says an intention was not done, and not elsewhere that it was
\* done, is right, then and ever after, although what the server permits changes.
\* It does not say so ("refused" in told), and the intention may still take effect,
\* where a definite refusal answers the retry of a request of unknown outcome, which
\* #collaborationCommand then drops, and where session storage keeps the request of
\* a control because it cannot be written.  After a stale revision it is always right.
RefusedIsNotDone ==
    \A t \in window.told : t.how = "not done" /\ [t EXCEPT !.how = "done"] \notin window.told =>
        ~ \E k \in server.commits : k.op = t.op /\ k.intent = t.intent /\ k.by = t.by

\* A Run command that the window calls submitted took effect, as this intention.
SubmittedIsDone ==
    \A t \in window.told : t.how = "done" /\ t.op \in RunOps =>
        \E k \in server.commits : k.op = t.op /\ k.intent = t.intent

\* Whatever happens to sessions meanwhile, a command takes effect only in the
\* name of the Human who gave it in this window.
DoneInTheNameOfItsHuman == \A k \in server.commits : k.by = k.principal

\* How far the calls have come.
Progress(w) == {<<c.n, c.attempt, c.state>> : c \in w.calls}

\* A late or foreign refusal never signs out a session that works.
KeepsAGoodSession ==
    [][/\ Progress(window') # Progress(window) /\ UNCHANGED <<server, used>>
       /\ window.token # None /\ window'.token = None
       => ~(window.token = server.cookie /\ window.token \in server.live)]_commandVars

\* Every submission is finally given an outcome, be it unknown.
SubmissionsEnd == window.calls # {} ~> window.calls = {}

\* The commands of a window at any time, over lost answers, retries, other
\* windows, expired sessions, changes of what is permitted and reloads: they take
\* effect once, in the right name, and what the window says of them is true, but for
\* the refusals that RefusedIsNotDone sets aside.
CommandSafety ==
    /\ CommandTypeOK
    /\ AtMostOnce
    /\ RefusedIsNotDone
    /\ SubmittedIsDone
    /\ DoneInTheNameOfItsHuman

=============================================================================
