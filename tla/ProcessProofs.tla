--------------------------- MODULE ProcessProofs ---------------------------
(***************************************************************************)
(* Proofs about what a Runtime does with processes: the controlled process *)
(* of a Worktree (ControlledExecution) and a session of the Copilot        *)
(* adapter (CopilotSession), each for any values of its constants, and     *)
(* both as they are checked together (MCProcesses).                        *)
(***************************************************************************)
EXTENDS MCProcesses, FiniteSetTheorems, SequenceTheorems, TLAPS

-----------------------------------------------------------------------------
(***************************************************************************)
(* The controlled process.  That what the ledger calls stopped has stopped *)
(* rests on the handle: its close evidence is the end of its own tree, and *)
(* a stop found without a child means that none was spawned (EvidenceOf).  *)
(* That a settled stop is withdrawn rests on the order of #persistStop     *)
(* (SettlementOf); that a Run owns a stop only when its provider had not   *)
(* ended before, on the cause being told once (CauseOf).                   *)
(***************************************************************************)

Trees == {"None", "Alive", "Gone"}

Executions == [state : States, revoked : BOOLEAN, owner : Nat]

\* What a handle h knows of the process tree t.
EvidenceOf(h, t) ==
    /\ h.child => h.attempted
    /\ h.closed # "None" => h.child
    /\ h.live /\ ~h.attempted => t = "None"
    /\ Evidence(h) => t = "Gone"
    /\ h.found \in Stopped \/ h.final \in Stopped => t # "Alive"
    /\ h.stop = "Done" <=> h.found # "None"

\* How far the settlement of h has come, of the execution x.
SettlementOf(h, x) ==
    /\ h.pc # "Idle" => h.stop # "None"
    /\ h.pc \notin {"Idle", "Waiting"} => h.final # "None"
    /\ h.pc = "Requesting" => x.state \notin Stopped \cup {"Uncertain"}
    /\ h.settled => h.state \in Stopped \cup {"Uncertain"} /\ x.state = h.state
    /\ h.pc \in {"RevokingAgain", "Releasing"} => h.settled
    /\ h.pc = "Releasing" => h.reason /\ h.revoked /\ h.state \in Stopped
    /\ h.revoked => x.revoked

\* What was said of the cause c of the stop, the Run being cancelled or not.
CauseOf(h, c, cancelled) ==
    /\ h.recorded => h.stop # "None"
    /\ h.authority = "Logging" => h.stop # "None"
    /\ ~h.recorded => ~c.owned /\ ~c.preceded
    /\ h.exitFirst => h.exitSeen
    /\ ~(c.owned /\ c.preceded)
    /\ c.owned => cancelled /\ ~h.exitFirst

LaunchInv ==
    /\ ~handle.live => handle = NoHandle
    /\ handle.live => n >= 1 /\ execs[n].owner = host.id /\ host.recovered
    /\ launch \in {"Started", "Attached", "Up"} => handle.live
    /\ launch # "Idle" => host.recovered
    /\ launch = "Acquired" => n < MaxStarts /\ DirectoryIdle
    /\ launch = "Started" =>
          /\ ~handle.attempted /\ ~handle.child
          /\ ~handle.reason => /\ handle = [NoHandle EXCEPT !.live = TRUE]
                               /\ execs[n].state = "Starting"
    /\ signal = "Cancelled" => run

DirectoryInv ==
    /\ \A i \in Ids : i < n => execs[i].state \in Stopped
    /\ \A i \in Ids : i > n => trees[i] = "None" /\ execs[i].state = "Starting"
    /\ \A i \in Ids : i <= n /\ execs[i].state \in Stopped => trees[i] # "Alive"

HandleInv ==
    /\ EvidenceOf(handle, trees[n])
    /\ SettlementOf(handle, execs[n])
    /\ CauseOf(handle, cause, run)

ExecutionInv ==
    /\ ExecutionTypeOK
    /\ LaunchInv
    /\ DirectoryInv
    /\ HandleInv
    /\ SettledIsWithdrawn
    /\ RestartRevokes

-----------------------------------------------------------------------------
(* The handle's operations *)

LEMMA NoHandleIsHandle == NoHandle \in Handles
  BY DEF NoHandle, Handles, States, Stopped

\* stop: the caller's authority is withdrawn in memory.
LEMMA RevokeKeeps ==
    ASSUME NEW h \in Handles, NEW t, NEW x, NEW c, NEW cancelled,
           EvidenceOf(h, t), SettlementOf(h, x), CauseOf(h, c, cancelled)
    PROVE  /\ Revoke(h) \in Handles /\ Revoke(h).reason
           /\ Revoke(h).live = h.live /\ Revoke(h).attempted = h.attempted
           /\ Revoke(h).child = h.child /\ Revoke(h).recorded = h.recorded
           /\ Revoke(h).stop = h.stop /\ Revoke(h).authority = h.authority
           /\ Revoke(h).exitSeen = h.exitSeen /\ Revoke(h).pc = h.pc
           /\ Revoke(h).exitFirst = h.exitFirst
           /\ EvidenceOf(Revoke(h), t) /\ SettlementOf(Revoke(h), x)
           /\ CauseOf(Revoke(h), c, cancelled)
  <1>1. /\ Revoke(h) \in Handles
        /\ Revoke(h).reason = TRUE
        /\ \A f \in DOMAIN h \ {"reason", "watched"} : Revoke(h)[f] = h[f]
    BY DEF Revoke, Handles
  <1>2. DOMAIN h = DOMAIN NoHandle
    BY DEF Handles, NoHandle
  <1> DEFINE r == Revoke(h)
  <1>3. /\ r.live = h.live /\ r.child = h.child /\ r.attempted = h.attempted
        /\ r.exitSeen = h.exitSeen /\ r.closed = h.closed /\ r.stop = h.stop
        /\ r.found = h.found /\ r.final = h.final /\ r.state = h.state
        /\ r.revoked = h.revoked /\ r.settled = h.settled /\ r.pc = h.pc
        /\ r.recorded = h.recorded /\ r.authority = h.authority
        /\ r.exitFirst = h.exitFirst
    BY <1>1, <1>2 DEF NoHandle
  <1> HIDE DEF r
  <1>4. r \in Handles /\ r.reason = TRUE
    BY <1>1 DEF r
  <1>5. EvidenceOf(r, t)
    BY <1>3 DEF EvidenceOf, Evidence
  <1>6. SettlementOf(r, x)
    BY <1>3, <1>4 DEF SettlementOf
  <1>7. CauseOf(r, c, cancelled)
    BY <1>3 DEF CauseOf
  <1> QED BY <1>3, <1>4, <1>5, <1>6, <1>7 DEF r

\* #drain: one physical stop, and a settlement under way.
LEMMA DrainKeeps ==
    ASSUME NEW h \in Handles, NEW why, NEW t, NEW x, NEW cancelled,
           h.live, cause \in [owned : BOOLEAN, preceded : BOOLEAN],
           EvidenceOf(h, t), SettlementOf(h, x), CauseOf(h, cause, cancelled),
           why = "Cancelled" => cancelled
    PROVE  /\ Drain(h, why) \in Handles
           /\ Drain(h, why).pc # "Idle" /\ Drain(h, why).stop # "None"
           /\ Drain(h, why).live = h.live /\ Drain(h, why).attempted = h.attempted
           /\ Drain(h, why).child = h.child /\ Drain(h, why).reason = h.reason
           /\ EvidenceOf(Drain(h, why), t)
           /\ SettlementOf(Drain(h, why), x)
           /\ CauseOf(Drain(h, why), Cause(h, why), cancelled)
           /\ Cause(h, why) \in [owned : BOOLEAN, preceded : BOOLEAN]
  <1> DEFINE told == [h EXCEPT !.retry = FALSE, !.recorded = @ \/ TellsCause(h, why)]
             sp == StopProcess(told)
             st == IF h.stop = "None" THEN [sp EXCEPT !.exitFirst = h.exitSeen] ELSE told
             d == Drain(h, why)
  <1>1. h.recorded \in BOOLEAN /\ h.exitSeen \in BOOLEAN /\ h.attempted \in BOOLEAN
        /\ h.exitFirst \in BOOLEAN /\ h.child \in BOOLEAN /\ h.forced \in BOOLEAN
    BY DEF Handles
  <1>2. (h.recorded \/ TellsCause(h, why)) \in BOOLEAN
    BY DEF TellsCause
  <1>3. /\ told \in Handles
        /\ told.recorded = (h.recorded \/ TellsCause(h, why))
        /\ told.live = h.live /\ told.child = h.child /\ told.attempted = h.attempted
        /\ told.exitSeen = h.exitSeen /\ told.closed = h.closed /\ told.stop = h.stop
        /\ told.found = h.found /\ told.forced = h.forced /\ told.final = h.final
        /\ told.state = h.state /\ told.reason = h.reason
        /\ told.revoked = h.revoked /\ told.settled = h.settled /\ told.pc = h.pc
        /\ told.authority = h.authority /\ told.exitFirst = h.exitFirst
    <2> DEFINE rec == h.recorded \/ TellsCause(h, why)
    <2>1. told = [h EXCEPT !.retry = FALSE, !.recorded = rec]
      OBVIOUS
    <2>2. rec \in BOOLEAN
      BY <1>2
    <2> HIDE DEF rec
    <2>3. told = [h EXCEPT !.retry = FALSE, !.recorded = rec]
      BY <2>1
    <2> HIDE DEF told
    <2>4. told \in Handles
      BY <2>2, <2>3 DEF Handles
    <2>5. told.recorded = rec
      BY <2>3 DEF Handles
    <2>6. told.recorded = (h.recorded \/ TellsCause(h, why))
      BY <2>5 DEF rec
    <2>7. /\ told.live = h.live /\ told.child = h.child /\ told.attempted = h.attempted
          /\ told.exitSeen = h.exitSeen /\ told.closed = h.closed /\ told.stop = h.stop
          /\ told.found = h.found /\ told.forced = h.forced /\ told.final = h.final
      BY <2>3 DEF Handles
    <2>8. /\ told.state = h.state /\ told.reason = h.reason
          /\ told.revoked = h.revoked /\ told.settled = h.settled /\ told.pc = h.pc
          /\ told.authority = h.authority /\ told.exitFirst = h.exitFirst
      BY <2>3 DEF Handles
    <2> QED BY <2>4, <2>6, <2>7, <2>8
  <1> HIDE DEF told
  <1> HIDE DEF sp
  <1>4. DOMAIN told = DOMAIN NoHandle
    BY <1>3 DEF Handles, NoHandle
  <1>5. ASSUME NEW f \in {"Uncertain"} \cup Stopped
        PROVE  sp = [told EXCEPT !.stop = "Done", !.found = f] =>
                  /\ sp \in Handles /\ sp.stop = "Done" /\ sp.found = f
                  /\ \A g \in DOMAIN told \ {"stop", "found"} : sp[g] = told[g]
    <2> SUFFICES ASSUME sp = [told EXCEPT !.stop = "Done", !.found = f]
                 PROVE  /\ sp \in Handles /\ sp.stop = "Done" /\ sp.found = f
                        /\ \A g \in DOMAIN told \ {"stop", "found"} : sp[g] = told[g]
      OBVIOUS
    <2> QED BY <1>3, <1>5 DEF Handles
  <1>6. LET s == [told EXCEPT !.stop = "Asked"]
        IN  /\ s \in Handles /\ s.stop = "Asked"
            /\ \A g \in DOMAIN told \ {"stop"} : s[g] = told[g]
    BY <1>3 DEF Handles
  <1>7. /\ sp \in Handles /\ sp.stop \in {"Asked", "Done"}
        /\ sp.stop = "Asked" => sp.found = told.found
        /\ sp.stop = "Done" => sp.found \in {"Uncertain"} \cup Stopped
        /\ sp.found \in Stopped /\ sp.stop = "Done" => ~told.attempted \/ Evidence(told)
        /\ \A g \in DOMAIN NoHandle \ {"stop", "found"} : sp[g] = told[g]
    <2>1. ObservedStopState(told) \in Stopped
      BY DEF ObservedStopState, Stopped
    <2>2. CASE ~told.child /\ told.attempted
      <3>1. sp = [told EXCEPT !.stop = "Done", !.found = "Uncertain"]
        BY <2>2 DEF StopProcess, sp
      <3>2. "Uncertain" \notin Stopped
        BY DEF Stopped
      <3> QED BY <1>4, <1>5, <3>1, <3>2
    <2>3. CASE ~told.child /\ ~told.attempted
      <3>1. sp = [told EXCEPT !.stop = "Done", !.found = "StopConfirmed"]
        BY <2>3 DEF StopProcess, sp
      <3>2. "StopConfirmed" \in Stopped
        BY DEF Stopped
      <3> QED BY <1>4, <1>5, <2>3, <3>1, <3>2
    <2>4. CASE told.child /\ Evidence(told)
      <3>1. sp = [told EXCEPT !.stop = "Done", !.found = ObservedStopState(told)]
        BY <2>4 DEF StopProcess, sp
      <3> QED BY <1>4, <1>5, <2>1, <2>4, <3>1
    <2>5. CASE told.child /\ ~Evidence(told)
      <3>1. sp = [told EXCEPT !.stop = "Asked"]
        BY <2>5 DEF StopProcess, sp
      <3>2. "found" \in DOMAIN NoHandle \ {"stop"}
        BY DEF NoHandle
      <3> QED BY <1>4, <1>6, <3>1, <3>2
    <2> QED BY <1>1, <1>3, <2>2, <2>3, <2>4, <2>5
  <1>8. /\ st \in Handles
        /\ \A g \in DOMAIN NoHandle \ {"stop", "found", "exitFirst"} : st[g] = told[g]
        /\ h.stop = "None" => /\ st.stop = sp.stop /\ st.found = sp.found
                              /\ st.exitFirst = h.exitSeen
        /\ h.stop # "None" => /\ st.stop = h.stop /\ st.found = h.found
                              /\ st.exitFirst = h.exitFirst
    <2>1. CASE h.stop = "None"
      <3>1. st = [sp EXCEPT !.exitFirst = h.exitSeen]
        BY <2>1
      <3> HIDE DEF st
      <3>2. /\ st \in Handles /\ st.exitFirst = h.exitSeen
            /\ \A g \in DOMAIN NoHandle \ {"exitFirst"} : st[g] = sp[g]
        BY <1>1, <1>7, <3>1 DEF Handles, NoHandle
      <3>3. "stop" \in DOMAIN NoHandle \ {"exitFirst"} /\ "found" \in DOMAIN NoHandle \ {"exitFirst"}
        BY DEF NoHandle
      <3> QED BY <1>7, <2>1, <3>2, <3>3
    <2>2. CASE h.stop # "None"
      BY <1>3, <2>2
    <2> QED BY <2>1, <2>2
  <1>9. d = IF h.pc = "Idle" THEN [st EXCEPT !.pc = "Waiting"] ELSE st
    BY DEF Drain, st, sp, told
  <1> HIDE DEF st, d
  <1>10. /\ d \in Handles
         /\ \A g \in DOMAIN NoHandle \ {"pc"} : d[g] = st[g]
         /\ d.pc = IF h.pc = "Idle" THEN "Waiting" ELSE st.pc
    <2>1. CASE h.pc = "Idle"
      <3>1. d = [st EXCEPT !.pc = "Waiting"]
        BY <1>9, <2>1
      <3>2. /\ d \in Handles /\ d.pc = "Waiting"
            /\ \A g \in DOMAIN NoHandle \ {"pc"} : d[g] = st[g]
        BY <1>8, <3>1 DEF Handles, NoHandle
      <3> QED BY <2>1, <3>2
    <2>2. CASE h.pc # "Idle"
      BY <1>8, <1>9, <2>2
    <2> QED BY <2>1, <2>2
  <1>11. /\ d.live = h.live /\ d.child = h.child /\ d.attempted = h.attempted
         /\ d.exitSeen = h.exitSeen /\ d.closed = h.closed /\ d.final = h.final
         /\ d.state = h.state /\ d.reason = h.reason
         /\ d.revoked = h.revoked /\ d.settled = h.settled
         /\ d.authority = h.authority
         /\ d.recorded = (h.recorded \/ TellsCause(h, why))
         /\ d.pc = IF h.pc = "Idle" THEN "Waiting" ELSE h.pc
    <2>1. \A g \in DOMAIN NoHandle \ {"stop", "found", "exitFirst", "pc"} : d[g] = told[g]
      BY <1>8, <1>10
    <2>2. /\ d.live = told.live /\ d.child = told.child /\ d.attempted = told.attempted
          /\ d.exitSeen = told.exitSeen /\ d.closed = told.closed /\ d.final = told.final
          /\ d.state = told.state /\ d.reason = told.reason
          /\ d.revoked = told.revoked /\ d.settled = told.settled
          /\ d.authority = told.authority /\ d.recorded = told.recorded
      BY <2>1 DEF NoHandle
    <2>3. st.pc = told.pc
      BY <1>8 DEF NoHandle
    <2> QED BY <1>3, <1>10, <2>2, <2>3
  <1>12. /\ d.stop = st.stop /\ d.found = st.found /\ d.exitFirst = st.exitFirst
    BY <1>10 DEF NoHandle
  <1>13. EvidenceOf(d, t)
    <2>1. Evidence(d) <=> Evidence(h)
      BY <1>11 DEF Evidence
    <2>2. Evidence(told) <=> Evidence(h)
      BY <1>3 DEF Evidence
    <2>3. d.found \in Stopped => t # "Alive"
      <3>1. CASE h.stop = "None"
        <4>1. d.found = sp.found /\ ("None" \notin Stopped)
          BY <1>8, <1>12, <3>1 DEF Stopped
        <4>2. sp.stop = "Asked" => sp.found = "None"
          BY <1>3, <1>7, <3>1 DEF EvidenceOf
        <4> QED BY <1>3, <1>7, <2>2, <4>1, <4>2 DEF EvidenceOf
      <3>2. CASE h.stop # "None"
        BY <1>8, <1>12, <3>2 DEF EvidenceOf
      <3> QED BY <3>1, <3>2
    <2>4. d.stop = "Done" <=> d.found # "None"
      <3>1. CASE h.stop = "None"
        <4>1. d.found = sp.found /\ d.stop = sp.stop /\ ("None" \notin {"Uncertain"} \cup Stopped)
          BY <1>8, <1>12, <3>1 DEF Stopped
        <4>2. sp.stop = "Asked" => sp.found = "None"
          BY <1>3, <1>7, <3>1 DEF EvidenceOf
        <4> QED BY <1>7, <4>1, <4>2
      <3>2. CASE h.stop # "None"
        BY <1>8, <1>12, <3>2 DEF EvidenceOf
      <3> QED BY <3>1, <3>2
    <2> QED BY <1>11, <2>1, <2>3, <2>4 DEF EvidenceOf
  <1>14. d.stop # "None"
    BY <1>7, <1>8, <1>12
  <1>15. SettlementOf(d, x)
    BY <1>11, <1>14 DEF SettlementOf
  <1>16. /\ Cause(h, why) \in [owned : BOOLEAN, preceded : BOOLEAN]
         /\ ~TellsCause(h, why) => Cause(h, why) = cause
         /\ ~(Cause(h, why).owned /\ Cause(h, why).preceded)
         /\ Cause(h, why).owned => cause.owned \/ (/\ why = "Cancelled" /\ ~h.exitSeen
                                                  /\ h.stop = "None")
    BY DEF Cause, CauseOf, TellsCause
  <1>17. CauseOf(d, Cause(h, why), cancelled)
    <2>1. d.exitFirst => d.exitSeen
      BY <1>8, <1>11, <1>12 DEF CauseOf
    <2>2. ~d.recorded => ~Cause(h, why).owned /\ ~Cause(h, why).preceded
      BY <1>11, <1>16 DEF CauseOf
    <2>3. ASSUME Cause(h, why).owned PROVE cancelled /\ ~d.exitFirst
      <3>1. CASE cause.owned
        BY <1>8, <1>12, <3>1 DEF CauseOf
      <3>2. CASE why = "Cancelled" /\ ~h.exitSeen /\ h.stop = "None"
        BY <1>8, <1>12, <3>2
      <3> QED BY <1>16, <2>3, <3>1, <3>2
    <2> QED BY <1>14, <1>16, <2>1, <2>2, <2>3 DEF CauseOf
  <1>18. d.pc # "Idle"
    BY <1>11
  <1> QED BY <1>10, <1>11, <1>13, <1>14, <1>15, <1>16, <1>17, <1>18 DEF d

LEMMA StopKeeps ==
    ASSUME NEW h \in Handles, NEW why, NEW t, NEW x, NEW cancelled,
           h.live, cause \in [owned : BOOLEAN, preceded : BOOLEAN],
           EvidenceOf(h, t), SettlementOf(h, x), CauseOf(h, cause, cancelled),
           why = "Cancelled" => cancelled
    PROVE  /\ Stop(h, why) \in Handles
           /\ Stop(h, why).pc # "Idle" /\ Stop(h, why).stop # "None"
           /\ Stop(h, why).live /\ Stop(h, why).attempted = h.attempted
           /\ Stop(h, why).child = h.child /\ Stop(h, why).reason
           /\ EvidenceOf(Stop(h, why), t)
           /\ SettlementOf(Stop(h, why), x)
           /\ CauseOf(Stop(h, why), Cause(h, why), cancelled)
           /\ Cause(h, why) \in [owned : BOOLEAN, preceded : BOOLEAN]
  <1> DEFINE r == Revoke(h)
  <1>1. /\ r \in Handles /\ r.reason /\ r.live = h.live /\ r.attempted = h.attempted
        /\ r.child = h.child /\ r.recorded = h.recorded
        /\ r.stop = h.stop /\ r.authority = h.authority
        /\ r.exitSeen = h.exitSeen
        /\ EvidenceOf(r, t) /\ SettlementOf(r, x) /\ CauseOf(r, cause, cancelled)
    BY RevokeKeeps
  <1>2. Stop(h, why) = Drain(r, why)
    BY DEF Stop
  <1> HIDE DEF r
  <1>3. Cause(h, why) = Cause(r, why)
    BY <1>1 DEF Cause, TellsCause
  <1>4. /\ Drain(r, why) \in Handles
        /\ Drain(r, why).pc # "Idle" /\ Drain(r, why).stop # "None"
        /\ Drain(r, why).live = r.live /\ Drain(r, why).attempted = r.attempted
        /\ Drain(r, why).child = r.child /\ Drain(r, why).reason = r.reason
        /\ EvidenceOf(Drain(r, why), t)
        /\ SettlementOf(Drain(r, why), x)
        /\ CauseOf(Drain(r, why), Cause(r, why), cancelled)
        /\ Cause(r, why) \in [owned : BOOLEAN, preceded : BOOLEAN]
    BY <1>1, DrainKeeps
  <1> QED BY <1>1, <1>2, <1>3, <1>4

-----------------------------------------------------------------------------
(* Steps of the handle *)

LEMMA LiveFacts ==
    ASSUME ExecutionInv, handle.live
    PROVE  /\ n \in Ids /\ n \in Nat /\ n >= 1 /\ execs[n] \in Executions
           /\ trees[n] \in Trees /\ handle \in Handles
           /\ cause \in [owned : BOOLEAN, preceded : BOOLEAN]
           /\ EvidenceOf(handle, trees[n]) /\ SettlementOf(handle, execs[n])
           /\ CauseOf(handle, cause, run)
           /\ (signal = "Cancelled" => run)
  <1>1. n \in Nat /\ n >= 1 /\ n <= MaxStarts /\ n \in Ids
    BY ExecutionAssumption DEF ExecutionInv, ExecutionTypeOK, LaunchInv, Ids
  <1>2. execs[n] \in Executions /\ trees[n] \in Trees
    BY <1>1 DEF ExecutionInv, ExecutionTypeOK, Executions, Trees
  <1> QED BY <1>1, <1>2 DEF ExecutionInv, ExecutionTypeOK, HandleInv, LaunchInv

\* A step of the handle, or of its tree, that records nothing.
LEMMA TreeStepKeepsInv ==
    ASSUME ExecutionInv, handle.live, ExecutionTypeOK',
           UNCHANGED <<execs, n>>, DirectoryInv',
           host'.id = host.id, host'.recovered = host.recovered,
           handle'.live, launch' \in {launch, "Attached", "Up"},
           launch' = "Started" => ~handle'.attempted /\ ~handle'.child /\ handle'.reason,
           EvidenceOf(handle', trees'[n]), SettlementOf(handle', execs[n]),
           CauseOf(handle', cause', run'), signal' = "Cancelled" => run',
           SettledIsWithdrawn'
    PROVE  ExecutionInv'
  <1>1. LaunchInv'
    <2>1. host.recovered
      BY DEF ExecutionInv, LaunchInv
    <2>2. DirectoryIdle' <=> DirectoryIdle
      BY DEF DirectoryIdle
    <2> QED BY <2>1, <2>2 DEF ExecutionInv, LaunchInv
  <1>2. HandleInv'
    BY DEF HandleInv
  <1>3. RestartRevokes'
    BY DEF ExecutionInv, RestartRevokes
  <1> QED BY <1>1, <1>2, <1>3 DEF ExecutionInv

\* A step that changes what the handle knows, and neither executions nor trees.
LEMMA HandleStepKeepsInv ==
    ASSUME ExecutionInv, handle.live, ExecutionTypeOK',
           UNCHANGED <<execs, trees, n>>,
           host'.id = host.id, host'.recovered = host.recovered,
           handle'.live, launch' \in {launch, "Up"},
           launch' = "Started" => ~handle'.attempted /\ ~handle'.child /\ handle'.reason,
           EvidenceOf(handle', trees[n]), SettlementOf(handle', execs[n]),
           CauseOf(handle', cause', run'), signal' = "Cancelled" => run',
           SettledIsWithdrawn'
    PROVE  ExecutionInv'
  <1>1. DirectoryInv'
    BY DEF ExecutionInv, DirectoryInv
  <1> QED BY <1>1, TreeStepKeepsInv

\* The caller, the executor, the abort listener, the deadline or the monitor
\* stops it.
LEMMA StopStepKeepsInv ==
    ASSUME ExecutionInv, handle.live, NEW why,
           handle' = Stop(handle, why), cause' = Cause(handle, why),
           why = "Cancelled" => run, signal' = "Cancelled" => run,
           UNCHANGED <<dir, lease, execs, trees, n, run>>,
           host' \in [id : {host.id}, recovered : {host.recovered}, closed : BOOLEAN],
           launch' \in {launch, "Up"}, busy' \in 0..MaxBusy,
           signal' \in {"None", "Cancelled", "Other"}
    PROVE  ExecutionInv'
  <1>1. /\ handle' \in Handles /\ handle'.live /\ handle'.reason
        /\ handle'.attempted = handle.attempted /\ handle'.child = handle.child
        /\ handle'.pc # "Idle"
        /\ EvidenceOf(handle', trees[n]) /\ SettlementOf(handle', execs[n])
        /\ CauseOf(handle', cause', run)
        /\ cause' \in [owned : BOOLEAN, preceded : BOOLEAN]
    BY LiveFacts, StopKeeps
  <1>2. ExecutionTypeOK'
    BY <1>1 DEF ExecutionInv, ExecutionTypeOK
  <1>3. launch' = "Started" => ~handle'.attempted /\ ~handle'.child /\ handle'.reason
    BY <1>1 DEF ExecutionInv, LaunchInv
  <1>4. SettledIsWithdrawn'
    BY <1>1 DEF SettledIsWithdrawn
  <1>5. host'.id = host.id /\ host'.recovered = host.recovered
    OBVIOUS
  <1> QED BY <1>1, <1>2, <1>3, <1>4, <1>5, HandleStepKeepsInv

LEMMA NoHandleKnowsNothing ==
    ASSUME NEW t, NEW x, NEW c, NEW cancelled, ~c.owned, ~c.preceded
    PROVE  /\ EvidenceOf(NoHandle, t) /\ SettlementOf(NoHandle, x)
           /\ CauseOf(NoHandle, c, cancelled)
  <1>1. "None" \notin Stopped
    BY DEF Stopped
  <1>2. EvidenceOf(NoHandle, t)
    BY <1>1 DEF EvidenceOf, Evidence, NoHandle
  <1>3. SettlementOf(NoHandle, x)
    BY DEF SettlementOf, NoHandle
  <1>4. CauseOf(NoHandle, c, cancelled)
    BY DEF CauseOf, NoHandle
  <1> QED BY <1>2, <1>3, <1>4

\* Whatever a handle has or does, it is the handle of an execution.
LEMMA OnlyLiveActs ==
    ASSUME ExecutionInv,
           \/ handle.pc # "Idle" \/ handle.stop # "None" \/ handle.child
           \/ handle.watched \/ handle.retry \/ handle.authority = "Logging"
           \/ launch \in {"Started", "Attached", "Up"}
    PROVE  handle.live /\ host.recovered
  BY DEF ExecutionInv, LaunchInv, NoHandle

LEMMA CancelledAfterAll ==
    ASSUME NEW h, NEW c, CauseOf(h, c, run)
    PROVE  CauseOf(h, c, TRUE)
  BY DEF CauseOf

-----------------------------------------------------------------------------
(* Steps that leave handle, executions and trees alone *)

LEMMA QuietStepKeepsInv ==
    ASSUME ExecutionInv, ExecutionTypeOK',
           UNCHANGED <<execs, trees, n, handle, cause>>,
           host'.id = host.id, host'.recovered = host.recovered,
           run => run', signal' = "Cancelled" => run',
           launch' # "Idle" => host.recovered,
           launch' \in {"Started", "Attached", "Up"} => launch' = launch,
           launch' = "Acquired" => n < MaxStarts /\ DirectoryIdle,
           lease' = "Active" => \/ launch' = "Acquired"
                                \/ lease = "Active" /\ launch # "Acquired"
    PROVE  ExecutionInv'
  <1>1. LaunchInv'
    <2>1. DirectoryIdle' <=> DirectoryIdle
      BY DEF DirectoryIdle
    <2> QED BY <2>1 DEF ExecutionInv, LaunchInv
  <1>2. DirectoryInv'
    BY DEF ExecutionInv, DirectoryInv
  <1>3. HandleInv'
    <2>1. run \in BOOLEAN /\ run' \in BOOLEAN
      BY DEF ExecutionInv, ExecutionTypeOK
    <2>2. CauseOf(handle, cause, run')
      BY <2>1, CancelledAfterAll DEF ExecutionInv, HandleInv
    <2> QED BY <2>2 DEF ExecutionInv, HandleInv
  <1>4. SettledIsWithdrawn'
    BY DEF ExecutionInv, SettledIsWithdrawn
  <1>5. RestartRevokes'
    BY DEF ExecutionInv, RestartRevokes
  <1> QED BY <1>1, <1>2, <1>3, <1>4, <1>5 DEF ExecutionInv

LEMMA QuietStepsKeepInv ==
    ASSUME ExecutionInv,
           Provision \/ Register \/ Acquire \/ StartRefused \/ CancelRun \/ LeaseExpires
             \/ Forget
    PROVE  ExecutionInv'
  <1>1. CASE Provision
    <2>1. ExecutionTypeOK'
      BY <1>1 DEF Provision, ExecutionInv, ExecutionTypeOK
    <2> QED BY <1>1, <2>1, QuietStepKeepsInv DEF Provision, ExecutionInv, LaunchInv
  <1>2. CASE Register
    <2>1. ExecutionTypeOK'
      BY <1>2, ExecutionAssumption DEF Register, MayFail, ExecutionInv, ExecutionTypeOK
    <2> QED BY <1>2, <2>1, QuietStepKeepsInv DEF Register, ExecutionInv, LaunchInv
  <1>3. CASE Acquire
    <2>1. ExecutionTypeOK'
      BY <1>3 DEF Acquire, ExecutionInv, ExecutionTypeOK
    <2> QED BY <1>3, <2>1, QuietStepKeepsInv DEF Acquire, ExecutionInv, LaunchInv
  <1>4. CASE StartRefused
    <2>1. ExecutionTypeOK'
      BY <1>4, ExecutionAssumption DEF StartRefused, MayFail, ExecutionInv, ExecutionTypeOK
    <2> QED BY <1>4, <2>1, QuietStepKeepsInv DEF StartRefused, ExecutionInv, LaunchInv
  <1>5. CASE CancelRun
    <2>1. ExecutionTypeOK'
      BY <1>5 DEF CancelRun, ExecutionInv, ExecutionTypeOK
    <2> QED BY <1>5, <2>1, QuietStepKeepsInv
            DEF CancelRun, ExecutionInv, LaunchInv
  <1>6. CASE LeaseExpires
    <2>1. ExecutionTypeOK'
      BY <1>6 DEF LeaseExpires, ExecutionInv, ExecutionTypeOK
    <2> QED BY <1>6, <2>1, QuietStepKeepsInv DEF LeaseExpires, ExecutionInv, LaunchInv
  <1>7. CASE Forget
    <2>1. ExecutionTypeOK'
      BY <1>7 DEF Forget, ExecutionInv, ExecutionTypeOK
    <2> QED BY <1>7, <2>1, QuietStepKeepsInv DEF Forget, ExecutionInv, LaunchInv
  <1> QED BY <1>1, <1>2, <1>3, <1>4, <1>5, <1>6, <1>7

-----------------------------------------------------------------------------
(* Steps that stop it *)

LEMMA StopsKeepInv ==
    ASSUME ExecutionInv,
           \/ SpawnRefused \/ Deadline \/ (\E why \in {"Cancelled", "Other"} : Abort(why))
           \/ (\E closing \in BOOLEAN : StopCalled(closing))
    PROVE  ExecutionInv'
  <1>1. /\ busy \in 0..MaxBusy /\ signal \in {"None", "Cancelled", "Other"}
        /\ host \in [id : 1..MaxHosts, recovered : BOOLEAN, closed : BOOLEAN]
        /\ (signal = "Cancelled" => run)
    BY DEF ExecutionInv, ExecutionTypeOK, LaunchInv
  <1>2. host \in [id : {host.id}, recovered : {host.recovered}, closed : BOOLEAN]
    BY <1>1
  <1>3. CASE SpawnRefused
    <2>1. handle.live
      BY <1>3, OnlyLiveActs DEF SpawnRefused
    <2>2. busy' \in 0..MaxBusy
      BY <1>1, <1>3, ExecutionAssumption DEF SpawnRefused, MayFail
    <2> QED BY <1>1, <1>2, <1>3, <2>1, <2>2, StopStepKeepsInv DEF SpawnRefused, StopHandle
  <1>4. CASE Deadline
    <2>1. handle.live
      BY <1>4, OnlyLiveActs DEF Deadline
    <2> QED BY <1>1, <1>2, <1>4, <2>1, StopStepKeepsInv DEF Deadline, StopHandle
  <1>5. ASSUME NEW why \in {"Cancelled", "Other"}, Abort(why) PROVE ExecutionInv'
    <2>1. CASE handle.watched
      <3>1. handle.live
        BY <2>1, OnlyLiveActs
      <3> QED BY <1>1, <1>2, <1>5, <2>1, <3>1, StopStepKeepsInv DEF Abort
    <2>2. CASE ~handle.watched
      <3>1. ExecutionTypeOK'
        BY <1>5, <2>2 DEF Abort, ExecutionInv, ExecutionTypeOK
      <3> QED BY <1>5, <2>2, <3>1, QuietStepKeepsInv DEF Abort, ExecutionInv, LaunchInv
    <2> QED BY <2>1, <2>2
  <1>6. ASSUME NEW closing \in BOOLEAN, StopCalled(closing) PROVE ExecutionInv'
    <2>1. handle.live /\ host' = [host EXCEPT !.closed = @ \/ closing]
      BY <1>6 DEF StopCalled
    <2>2. host' \in [id : {host.id}, recovered : {host.recovered}, closed : BOOLEAN]
      BY <1>2, <2>1
    <2> QED BY <1>1, <1>6, <2>1, <2>2, StopStepKeepsInv DEF StopCalled, StopHandle
  <1> QED BY <1>3, <1>4, <1>5, <1>6

\* A started handle that is not stopped yet has done nothing.
LEMMA StartedIsFresh ==
    ASSUME ExecutionInv, launch = "Started", ~handle.reason
    PROVE  /\ handle.pc = "Idle" /\ handle.stop = "None" /\ ~handle.child
           /\ ~handle.watched /\ handle.authority = "None" /\ ~handle.retry
           /\ ~handle.attempted /\ handle.state = "Starting" /\ ~handle.exitSeen
           /\ ~handle.settled /\ handle.closed = "None"
           /\ execs[n].state = "Starting" /\ trees[n] = "None"
  <1>1. handle = [NoHandle EXCEPT !.live = TRUE] /\ execs[n].state = "Starting"
    BY DEF ExecutionInv, LaunchInv
  <1>2. handle.live /\ ~handle.attempted
    BY <1>1 DEF NoHandle
  <1>3. trees[n] = "None"
    BY <1>2, LiveFacts DEF EvidenceOf
  <1> QED BY <1>1, <1>3 DEF NoHandle

\* finish, and a retry of a settlement that failed: no authority is withdrawn yet.
LEMMA DrainsKeepInv ==
    ASSUME ExecutionInv, Finish \/ Retry
    PROVE  ExecutionInv'
  <1>1. /\ handle.live
        /\ handle' = Drain(handle, signal) /\ cause' = Cause(handle, signal)
        /\ UNCHANGED <<dir, lease, execs, trees, n, host, launch, signal, run, busy>>
        /\ launch = "Started" => handle.reason
    <2>1. CASE Finish
      BY <2>1, OnlyLiveActs DEF Finish
    <2>2. CASE Retry
      BY <2>2, OnlyLiveActs, StartedIsFresh DEF Retry
    <2> QED BY <2>1, <2>2
  <1>2. /\ handle' \in Handles /\ handle'.live /\ handle'.reason = handle.reason
        /\ handle'.attempted = handle.attempted /\ handle'.child = handle.child
        /\ handle'.pc # "Idle"
        /\ EvidenceOf(handle', trees[n]) /\ SettlementOf(handle', execs[n])
        /\ CauseOf(handle', cause', run)
        /\ cause' \in [owned : BOOLEAN, preceded : BOOLEAN]
    BY <1>1, LiveFacts, DrainKeeps
  <1>3. ExecutionTypeOK'
    BY <1>1, <1>2 DEF ExecutionInv, ExecutionTypeOK
  <1>4. launch' = "Started" => ~handle'.attempted /\ ~handle'.child /\ handle'.reason
    BY <1>1, <1>2 DEF ExecutionInv, LaunchInv
  <1>5. SettledIsWithdrawn'
    BY <1>2 DEF SettledIsWithdrawn
  <1>6. signal' = "Cancelled" => run'
    BY <1>1, LiveFacts
  <1> QED BY <1>1, <1>2, <1>3, <1>4, <1>5, <1>6, HandleStepKeepsInv

\* The loss of authority is being logged, or was.
LEMMA AuthorityKeeps ==
    ASSUME NEW h \in Handles, NEW g \in Handles,
           \A f \in DOMAIN NoHandle \ {"authority", "recorded"} : g[f] = h[f],
           NEW t, NEW x, EvidenceOf(h, t), SettlementOf(h, x)
    PROVE  /\ g.live = h.live /\ g.reason = h.reason
           /\ g.attempted = h.attempted /\ g.child = h.child /\ g.pc = h.pc
           /\ g.settled = h.settled /\ g.retry = h.retry /\ g.stop = h.stop
           /\ g.exitSeen = h.exitSeen /\ g.exitFirst = h.exitFirst
           /\ EvidenceOf(g, t) /\ SettlementOf(g, x)
  <1>1. /\ g.live = h.live /\ g.child = h.child /\ g.attempted = h.attempted
        /\ g.exitSeen = h.exitSeen /\ g.closed = h.closed /\ g.stop = h.stop
        /\ g.found = h.found /\ g.final = h.final /\ g.state = h.state
        /\ g.revoked = h.revoked /\ g.settled = h.settled /\ g.pc = h.pc
        /\ g.exitFirst = h.exitFirst /\ g.reason = h.reason /\ g.retry = h.retry
    BY DEF NoHandle
  <1>2. EvidenceOf(g, t)
    BY <1>1 DEF EvidenceOf, Evidence
  <1>3. SettlementOf(g, x)
    BY <1>1 DEF SettlementOf
  <1> QED BY <1>1, <1>2, <1>3

LEMMA MonitorKeepsInv ==
    ASSUME ExecutionInv, MonitorFails
    PROVE  ExecutionInv'
  <1> DEFINE s == Stop(handle, signal)
  <1>1. handle.live /\ busy \in 0..MaxBusy
    BY OnlyLiveActs DEF MonitorFails, ExecutionInv, ExecutionTypeOK
  <1>2. /\ handle' = [s EXCEPT !.authority = "Logging"] /\ cause' = Cause(handle, signal)
        /\ UNCHANGED <<dir, lease, execs, trees, n, host, launch, signal, run>>
        /\ busy' \in 0..MaxBusy
    BY <1>1, ExecutionAssumption DEF MonitorFails, MayFail
  <1>3. /\ s \in Handles /\ s.live /\ s.reason
        /\ s.attempted = handle.attempted /\ s.child = handle.child
        /\ s.pc # "Idle" /\ s.stop # "None"
        /\ EvidenceOf(s, trees[n]) /\ SettlementOf(s, execs[n])
        /\ CauseOf(s, cause', run)
        /\ cause' \in [owned : BOOLEAN, preceded : BOOLEAN]
    BY <1>1, <1>2, LiveFacts, StopKeeps
  <1> HIDE DEF s
  <1>4. /\ handle' \in Handles /\ handle'.recorded = s.recorded
        /\ \A f \in DOMAIN NoHandle \ {"authority", "recorded"} : handle'[f] = s[f]
    BY <1>2, <1>3 DEF Handles, NoHandle
  <1>5. /\ handle' \in Handles /\ handle'.live /\ handle'.reason
        /\ handle'.attempted = s.attempted /\ handle'.child = s.child
        /\ handle'.pc = s.pc
        /\ EvidenceOf(handle', trees[n]) /\ SettlementOf(handle', execs[n])
        /\ CauseOf(handle', cause', run)
    <2>1. /\ handle'.live = s.live /\ handle'.reason = s.reason
          /\ handle'.attempted = s.attempted /\ handle'.child = s.child
          /\ handle'.pc = s.pc /\ handle'.stop = s.stop
          /\ handle'.exitSeen = s.exitSeen /\ handle'.exitFirst = s.exitFirst
          /\ EvidenceOf(handle', trees[n]) /\ SettlementOf(handle', execs[n])
      BY <1>3, <1>4, AuthorityKeeps
    <2>2. CauseOf(handle', cause', run)
      BY <1>3, <1>4, <2>1 DEF CauseOf
    <2> QED BY <1>2, <1>3, <1>4, <2>1, <2>2
  <1>6. ExecutionTypeOK'
    BY <1>2, <1>3, <1>5 DEF ExecutionInv, ExecutionTypeOK
  <1>7. launch' = "Started" => ~handle'.attempted /\ ~handle'.child /\ handle'.reason
    BY <1>2, <1>3, <1>5 DEF ExecutionInv, LaunchInv
  <1>8. SettledIsWithdrawn'
    BY <1>3, <1>5 DEF SettledIsWithdrawn
  <1>9. signal' = "Cancelled" => run'
    BY <1>1, <1>2, LiveFacts
  <1> QED BY <1>1, <1>2, <1>5, <1>6, <1>7, <1>8, <1>9, HandleStepKeepsInv

LEMMA ClassifyKeepsInv ==
    ASSUME ExecutionInv, ClassifyLoss
    PROVE  ExecutionInv'
  <1>1. /\ handle.live /\ handle.authority = "Logging" /\ handle.recorded \in BOOLEAN
        /\ handle.stop # "None"
        /\ UNCHANGED <<dir, lease, execs, trees, n, host, launch, signal, run, busy>>
    BY OnlyLiveActs DEF ClassifyLoss, ExecutionInv, ExecutionTypeOK, Handles, HandleInv, CauseOf
  <1>2. PICK b \in BOOLEAN :
           /\ handle' = [handle EXCEPT !.authority = "Done", !.recorded = b]
           /\ handle.recorded => b
           /\ cause' = cause \/ (b /\ cause' = [cause EXCEPT !.owned = TRUE])
           /\ cause' # cause => ~handle.recorded /\ ~handle.exitSeen /\ run
    <2>1. CASE run /\ lease = "Active" /\ ~handle.exitSeen /\ ~handle.recorded
      BY <2>1 DEF ClassifyLoss
    <2>2. CASE ~(run /\ lease = "Active" /\ ~handle.exitSeen /\ ~handle.recorded)
      <3>1. handle' = [handle EXCEPT !.authority = "Done"] /\ cause' = cause
        BY <2>2 DEF ClassifyLoss
      <3>2. handle' = [handle EXCEPT !.authority = "Done", !.recorded = handle.recorded]
        BY <3>1, <1>1, LiveFacts DEF Handles
      <3> QED BY <1>1, <3>1, <3>2
    <2> QED BY <2>1, <2>2
  <1>3. /\ handle' \in Handles /\ handle'.live /\ handle'.reason = handle.reason
        /\ handle'.attempted = handle.attempted /\ handle'.child = handle.child
        /\ handle'.pc = handle.pc /\ handle'.settled = handle.settled
        /\ handle'.retry = handle.retry
        /\ EvidenceOf(handle', trees[n]) /\ SettlementOf(handle', execs[n])
        /\ CauseOf(handle', cause', run)
        /\ cause' \in [owned : BOOLEAN, preceded : BOOLEAN]
    <2>1. /\ handle' \in Handles /\ handle'.recorded = b
          /\ \A f \in DOMAIN NoHandle \ {"authority", "recorded"} : handle'[f] = handle[f]
      BY <1>1, <1>2, LiveFacts DEF Handles, NoHandle
    <2>2. /\ handle'.live = handle.live
          /\ handle'.reason = handle.reason
          /\ handle'.attempted = handle.attempted /\ handle'.child = handle.child
          /\ handle'.pc = handle.pc /\ handle'.settled = handle.settled
          /\ handle'.retry = handle.retry /\ handle'.stop = handle.stop
          /\ handle'.exitSeen = handle.exitSeen /\ handle'.exitFirst = handle.exitFirst
          /\ EvidenceOf(handle', trees[n]) /\ SettlementOf(handle', execs[n])
      BY ZenonT(60), <1>1, <2>1, LiveFacts, AuthorityKeeps
    <2>3. /\ cause' \in [owned : BOOLEAN, preceded : BOOLEAN]
          /\ cause'.preceded = cause.preceded
          /\ (cause'.owned => cause.owned \/ cause' # cause)
          /\ (cause.owned => cause'.owned)
          /\ (cause' # cause => b)
      BY <1>1, <1>2, LiveFacts
    <2>4. CauseOf(handle', cause', run)
      BY <1>1, <1>2, <2>1, <2>2, <2>3, LiveFacts DEF CauseOf
    <2> QED BY <1>1, <2>1, <2>2, <2>3, <2>4
  <1>4. ExecutionTypeOK'
    BY <1>1, <1>3 DEF ExecutionInv, ExecutionTypeOK
  <1>5. launch' = "Started" => ~handle'.attempted /\ ~handle'.child /\ handle'.reason
    BY <1>1, <1>3, StartedIsFresh DEF ExecutionInv, LaunchInv
  <1>6. SettledIsWithdrawn'
    BY <1>1, <1>3 DEF ExecutionInv, SettledIsWithdrawn
  <1>7. signal' = "Cancelled" => run'
    BY <1>1, LiveFacts
  <1> QED BY <1>1, <1>3, <1>4, <1>5, <1>6, <1>7, HandleStepKeepsInv

-----------------------------------------------------------------------------
(* Steps of the child and of the physical stop *)

\* The provider ends, or its owner is lost.
LEMMA ChildStepsKeepInv ==
    ASSUME ExecutionInv, ProviderExits \/ OwnerLost
    PROVE  ExecutionInv'
  <1>1. /\ handle.live /\ handle.child /\ launch # "Started"
        /\ UNCHANGED <<dir, lease, execs, trees, n, host, launch, signal, run, cause, busy>>
    BY OnlyLiveActs DEF ProviderExits, OwnerLost, ExecutionInv, LaunchInv
  <1>2. /\ handle' \in Handles /\ handle'.exitSeen
        /\ handle'.closed \in {handle.closed, "Lost"}
        /\ \A f \in DOMAIN NoHandle \ {"exitSeen", "closed"} : handle'[f] = handle[f]
    <2>1. CASE ProviderExits
      BY <1>1, <2>1, LiveFacts DEF ProviderExits, Handles, NoHandle
    <2>2. CASE OwnerLost
      BY <1>1, <2>2, LiveFacts DEF OwnerLost, Handles, NoHandle
    <2> QED BY <2>1, <2>2
  <1>3. /\ handle'.live = handle.live /\ handle'.child = handle.child
        /\ handle'.attempted = handle.attempted /\ handle'.stop = handle.stop
        /\ handle'.found = handle.found /\ handle'.final = handle.final
        /\ handle'.state = handle.state /\ handle'.revoked = handle.revoked
        /\ handle'.settled = handle.settled /\ handle'.pc = handle.pc
        /\ handle'.exitFirst = handle.exitFirst /\ handle'.reason = handle.reason
        /\ handle'.retry = handle.retry /\ handle'.recorded = handle.recorded
        /\ handle'.authority = handle.authority
    BY <1>2 DEF NoHandle
  <1>4. EvidenceOf(handle', trees[n])
    BY <1>1, <1>2, <1>3, LiveFacts DEF EvidenceOf, Evidence
  <1>5. SettlementOf(handle', execs[n])
    BY <1>1, <1>3, LiveFacts DEF SettlementOf
  <1>6. CauseOf(handle', cause', run')
    BY <1>1, <1>2, <1>3, LiveFacts DEF CauseOf
  <1>7. ExecutionTypeOK'
    BY <1>1, <1>2 DEF ExecutionInv, ExecutionTypeOK
  <1>8. SettledIsWithdrawn'
    BY <1>1, <1>3 DEF ExecutionInv, SettledIsWithdrawn
  <1>9. signal' = "Cancelled" => run'
    BY <1>1, LiveFacts
  <1> QED BY <1>1, <1>3, <1>4, <1>5, <1>6, <1>7, <1>8, <1>9, HandleStepKeepsInv

LEMMA StopWaitKeepsInv ==
    ASSUME ExecutionInv, StopWait
    PROVE  ExecutionInv'
  <1>1. /\ handle.live /\ handle.stop \in {"Asked", "Forced"}
        /\ UNCHANGED <<dir, lease, execs, trees, n, host, launch, signal, run, cause, busy>>
        /\ launch = "Started" => handle.reason
    BY OnlyLiveActs, StartedIsFresh DEF StopWait
  <1>2. ObservedStopState(handle) \in Stopped
    BY DEF ObservedStopState, Stopped
  <1>3. /\ handle' \in Handles /\ handle'.stop # "None"
        /\ handle'.stop = "Done" => \/ handle'.found = "Uncertain"
                                    \/ Evidence(handle) /\ handle'.found \in Stopped
        /\ handle'.stop # "Done" => handle'.found = handle.found
        /\ \A f \in DOMAIN NoHandle \ {"stop", "found", "forced"} : handle'[f] = handle[f]
    <2>1. CASE Evidence(handle)
      <3>1. handle' = [handle EXCEPT !.stop = "Done", !.found = ObservedStopState(handle)]
        BY <2>1 DEF StopWait
      <3> QED BY <1>2, <2>1, <3>1, <1>1, LiveFacts DEF Handles, NoHandle
    <2>2. CASE ~Evidence(handle) /\ handle.stop = "Asked"
      <3>1. PICK killed \in BOOLEAN :
               handle' = [handle EXCEPT !.stop = "Forced", !.forced = killed]
        BY <2>2 DEF StopWait
      <3> QED BY <3>1, <1>1, LiveFacts DEF Handles, NoHandle
    <2>3. CASE ~Evidence(handle) /\ handle.stop # "Asked"
      <3>1. handle' = [handle EXCEPT !.stop = "Done", !.found = "Uncertain"]
        BY <2>3 DEF StopWait
      <3> QED BY <3>1, <1>1, LiveFacts DEF Handles, NoHandle
    <2> QED BY <2>1, <2>2, <2>3
  <1>4. /\ handle'.live = handle.live /\ handle'.child = handle.child
        /\ handle'.attempted = handle.attempted /\ handle'.exitSeen = handle.exitSeen
        /\ handle'.closed = handle.closed /\ handle'.final = handle.final
        /\ handle'.state = handle.state /\ handle'.revoked = handle.revoked
        /\ handle'.settled = handle.settled /\ handle'.pc = handle.pc
        /\ handle'.exitFirst = handle.exitFirst /\ handle'.reason = handle.reason
        /\ handle'.retry = handle.retry /\ handle'.recorded = handle.recorded
        /\ handle'.authority = handle.authority
    BY <1>3 DEF NoHandle
  <1>5. EvidenceOf(handle', trees[n])
    <2>1. "Uncertain" \notin Stopped /\ "None" \notin Stopped
      BY DEF Stopped
    <2>2. handle.found = "None"
      BY <1>1, LiveFacts DEF EvidenceOf
    <2>3. Evidence(handle') <=> Evidence(handle)
      BY <1>4 DEF Evidence
    <2> QED BY <1>1, <1>3, <1>4, <2>1, <2>2, <2>3, LiveFacts DEF EvidenceOf
  <1>6. SettlementOf(handle', execs[n])
    BY <1>1, <1>3, <1>4, LiveFacts DEF SettlementOf
  <1>7. CauseOf(handle', cause', run')
    BY <1>1, <1>3, <1>4, LiveFacts DEF CauseOf
  <1>8. ExecutionTypeOK'
    BY <1>1, <1>3 DEF ExecutionInv, ExecutionTypeOK
  <1>9. launch' = "Started" => ~handle'.attempted /\ ~handle'.child /\ handle'.reason
    BY <1>1, <1>4 DEF ExecutionInv, LaunchInv
  <1>10. SettledIsWithdrawn'
    BY <1>1, <1>4 DEF ExecutionInv, SettledIsWithdrawn
  <1>11. signal' = "Cancelled" => run'
    BY <1>1, LiveFacts
  <1> QED BY <1>1, <1>4, <1>5, <1>6, <1>7, <1>8, <1>9, <1>10, <1>11, HandleStepKeepsInv

\* The end of a tree its owner observes is the close evidence of its handle.
LEMMA TreeClosesKeepsInv ==
    ASSUME ExecutionInv, NEW how \in {"Clean", "Failed", "Signal"}, TreeCloses(how)
    PROVE  ExecutionInv'
  <1>1. /\ handle.live /\ handle.child /\ launch # "Started"
        /\ trees' = [trees EXCEPT ![n] = "Gone"]
        /\ handle' = [handle EXCEPT !.closed = how, !.exitSeen = TRUE]
        /\ UNCHANGED <<dir, lease, execs, n, host, launch, signal, run, cause, busy>>
    BY OnlyLiveActs DEF TreeCloses, ExecutionInv, LaunchInv
  <1>2. /\ handle' \in Handles /\ handle'.exitSeen /\ handle'.closed = how
        /\ \A f \in DOMAIN NoHandle \ {"exitSeen", "closed"} : handle'[f] = handle[f]
    BY <1>1, LiveFacts DEF Handles, NoHandle
  <1>3. /\ handle'.live = handle.live /\ handle'.child = handle.child
        /\ handle'.attempted = handle.attempted /\ handle'.stop = handle.stop
        /\ handle'.found = handle.found /\ handle'.final = handle.final
        /\ handle'.state = handle.state /\ handle'.revoked = handle.revoked
        /\ handle'.settled = handle.settled /\ handle'.pc = handle.pc
        /\ handle'.exitFirst = handle.exitFirst /\ handle'.reason = handle.reason
        /\ handle'.retry = handle.retry /\ handle'.recorded = handle.recorded
        /\ handle'.authority = handle.authority
    BY <1>2 DEF NoHandle
  <1>4. /\ trees' \in [Ids -> {"None", "Alive", "Gone"}] /\ trees'[n] = "Gone"
        /\ \A i \in Ids : trees'[i] = IF i = n THEN "Gone" ELSE trees[i]
    BY <1>1, LiveFacts DEF ExecutionInv, ExecutionTypeOK
  <1>5. EvidenceOf(handle', trees'[n])
    BY <1>1, <1>2, <1>3, <1>4, LiveFacts DEF EvidenceOf, Evidence
  <1>6. SettlementOf(handle', execs[n])
    BY <1>1, <1>3, LiveFacts DEF SettlementOf
  <1>7. CauseOf(handle', cause', run')
    BY <1>1, <1>2, <1>3, LiveFacts DEF CauseOf
  <1>8. ExecutionTypeOK'
    BY <1>1, <1>2, <1>4 DEF ExecutionInv, ExecutionTypeOK
  <1>9. DirectoryInv'
    BY <1>1, <1>4, LiveFacts DEF ExecutionInv, DirectoryInv
  <1>10. SettledIsWithdrawn'
    BY <1>1, <1>3 DEF ExecutionInv, SettledIsWithdrawn
  <1>11. signal' = "Cancelled" => run'
    BY <1>1, LiveFacts
  <1> QED BY <1>1, <1>3, <1>5, <1>6, <1>7, <1>8, <1>9, <1>10, <1>11, TreeStepKeepsInv

LEMMA TreeEndsKeepsInv ==
    ASSUME ExecutionInv, NEW i \in Ids, TreeEnds(i)
    PROVE  ExecutionInv'
  <1>1. /\ trees[i] = "Alive" /\ (i # n \/ ~handle.child \/ handle.closed = "Lost")
        /\ trees' = [trees EXCEPT ![i] = "Gone"]
        /\ UNCHANGED <<dir, lease, execs, n, host, launch, signal, run, handle, cause, busy>>
    BY DEF TreeEnds
  <1>2. /\ trees' \in [Ids -> {"None", "Alive", "Gone"}]
        /\ \A j \in Ids : trees'[j] = IF j = i THEN "Gone" ELSE trees[j]
    BY <1>1 DEF ExecutionInv, ExecutionTypeOK
  <1>3. ExecutionTypeOK'
    BY <1>1, <1>2 DEF ExecutionInv, ExecutionTypeOK
  <1>4. DirectoryInv'
    BY <1>1, <1>2, ExecutionAssumption DEF ExecutionInv, DirectoryInv, ExecutionTypeOK, Ids
  <1>5. HandleInv'
    <2>1. CASE handle.live
      <3>1. EvidenceOf(handle, trees'[n])
        BY <1>1, <1>2, <2>1, LiveFacts DEF EvidenceOf
      <3> QED BY <1>1, <3>1 DEF ExecutionInv, HandleInv
    <2>2. CASE ~handle.live
      <3>1. handle = NoHandle /\ ~cause.owned /\ ~cause.preceded
        BY <2>2 DEF ExecutionInv, LaunchInv, HandleInv, CauseOf, NoHandle
      <3> QED BY <1>1, <3>1, NoHandleKnowsNothing DEF HandleInv
    <2> QED BY <2>1, <2>2
  <1>6. LaunchInv' /\ SettledIsWithdrawn' /\ RestartRevokes'
    <2>1. DirectoryIdle' <=> DirectoryIdle
      BY <1>1 DEF DirectoryIdle
    <2> QED BY <1>1, <2>1 DEF ExecutionInv, LaunchInv, SettledIsWithdrawn, RestartRevokes
  <1> QED BY <1>3, <1>4, <1>5, <1>6 DEF ExecutionInv

-----------------------------------------------------------------------------
(* #persistStop *)

\* What RecordState does to the ledger.
LEMMA RecordStateRecords ==
    ASSUME ExecutionInv, n \in Ids, NEW state \in States, RecordState(n, state)
    PROVE  /\ execs' \in [Ids -> [state : States, revoked : BOOLEAN, owner : Nat]]
           /\ \A i \in Ids \ {n} : execs'[i] = execs[i]
           /\ execs'[n].state = state /\ execs'[n].owner = execs[n].owner
           /\ execs[n].revoked => execs'[n].revoked
  <1> DEFINE r == [execs[n] EXCEPT !.state = state,
                       !.revoked = @ \/ state \in {"Uncertain", "ForceTerminated"}]
  <1>1. execs \in [Ids -> Executions]
    BY DEF ExecutionInv, ExecutionTypeOK, Executions
  <1>2. execs[n] \in Executions
    BY <1>1
  <1>3. /\ r \in Executions /\ r.state = state /\ r.owner = execs[n].owner
        /\ execs[n].revoked => r.revoked
    BY <1>2 DEF Executions
  <1>4. execs' = [execs EXCEPT ![n] = r]
    BY <1>1, <1>2 DEF RecordState, Executions
  <1> HIDE DEF r
  <1>5. execs' \in [Ids -> Executions] /\ execs'[n] = r /\ \A i \in Ids \ {n} : execs'[i] = execs[i]
    BY <1>1, <1>3, <1>4
  <1> QED BY <1>3, <1>5 DEF Executions

\* A step of a live handle that may record something of its execution.
LEMMA LedgerStepKeepsInv ==
    ASSUME ExecutionInv, handle.live, ExecutionTypeOK',
           UNCHANGED <<trees, n, host, signal, run>>,
           \A i \in Ids \ {n} : execs'[i] = execs[i],
           execs'[n].owner = execs[n].owner,
           execs[n].state \in Stopped => execs'[n].state = execs[n].state,
           execs'[n].state \in Stopped => trees[n] # "Alive",
           launch' \in {launch, "Up"},
           launch' = "Started" => handle'.reason,
           handle'.live, handle'.attempted = handle.attempted, handle'.child = handle.child,
           EvidenceOf(handle', trees[n]), SettlementOf(handle', execs'[n]),
           CauseOf(handle', cause', run), SettledIsWithdrawn'
    PROVE  ExecutionInv'
  <1>1. n \in Ids /\ n \in Nat /\ n >= 1 /\ n <= MaxStarts
    BY LiveFacts, ExecutionAssumption DEF ExecutionInv, ExecutionTypeOK
  <1>2. LaunchInv'
    <2>1. DirectoryIdle => DirectoryIdle'
      BY <1>1, ExecutionAssumption DEF DirectoryIdle, Ids
    <2> QED BY <1>1, <2>1 DEF ExecutionInv, LaunchInv
  <1>3. DirectoryInv'
    BY <1>1, ExecutionAssumption DEF ExecutionInv, DirectoryInv, Ids
  <1>4. HandleInv'
    BY DEF HandleInv
  <1>5. RestartRevokes'
    BY DEF ExecutionInv, LaunchInv, RestartRevokes
  <1> QED BY <1>2, <1>3, <1>4, <1>5 DEF ExecutionInv

LEMMA FinalIsAState ==
    ASSUME ExecutionInv, handle.pc = "Waiting", handle.stop = "Done"
    PROVE  /\ handle.live
           /\ Final(handle) \in {"Uncertain"} \cup Stopped
           /\ Final(handle) \in Stopped => trees[n] # "Alive"
  <1>1. handle.live
    BY OnlyLiveActs
  <1>2. ObservedStopState(handle) \in Stopped
    BY DEF ObservedStopState, Stopped
  <1>3. handle.found \in {"None", "Uncertain"} \cup Stopped /\ handle.found # "None"
    BY <1>1, LiveFacts DEF EvidenceOf, Handles
  <1> QED BY <1>1, <1>2, <1>3, LiveFacts DEF Final, EvidenceOf

LEMMA AwaitedKeepsInv ==
    ASSUME ExecutionInv, Awaited
    PROVE  ExecutionInv'
  <1>1. /\ handle.live /\ handle.pc = "Waiting" /\ handle.stop = "Done"
        /\ UNCHANGED <<dir, lease, execs, trees, n, host, launch, signal, run, cause, busy>>
        /\ launch = "Started" => handle.reason
    BY OnlyLiveActs, StartedIsFresh DEF Awaited, Quiet
  <1> DEFINE h == IF Final(handle) # "StopConfirmed" THEN Revoke(handle) ELSE handle
  <1>2. /\ h \in Handles /\ (handle.reason => h.reason) /\ h.live = handle.live
        /\ h.attempted = handle.attempted /\ h.child = handle.child
        /\ h.stop = handle.stop
        /\ EvidenceOf(h, trees[n]) /\ SettlementOf(h, execs[n])
        /\ CauseOf(h, cause, run)
    BY <1>1, LiveFacts, RevokeKeeps
  <1>3. handle' = [h EXCEPT !.pc = "Revoking", !.final = Final(handle)]
    BY DEF Awaited
  <1> HIDE DEF h
  <1>4. /\ handle' \in Handles /\ handle'.pc = "Revoking" /\ handle'.final = Final(handle)
        /\ \A f \in DOMAIN NoHandle \ {"pc", "final"} : handle'[f] = h[f]
    BY <1>1, <1>2, <1>3, FinalIsAState DEF Handles, NoHandle
  <1>5. /\ handle'.live = h.live /\ handle'.child = h.child
        /\ handle'.attempted = h.attempted /\ handle'.exitSeen = h.exitSeen
        /\ handle'.closed = h.closed /\ handle'.stop = h.stop
        /\ handle'.found = h.found
        /\ handle'.state = h.state /\ handle'.revoked = h.revoked
        /\ handle'.settled = h.settled
        /\ handle'.exitFirst = h.exitFirst /\ handle'.reason = h.reason
        /\ handle'.retry = h.retry /\ handle'.recorded = h.recorded
        /\ handle'.authority = h.authority
    BY <1>4 DEF NoHandle
  <1>6. EvidenceOf(handle', trees[n])
    BY <1>1, <1>2, <1>4, <1>5, FinalIsAState DEF EvidenceOf, Evidence
  <1>7. SettlementOf(handle', execs[n])
    BY <1>1, <1>2, <1>4, <1>5, FinalIsAState DEF SettlementOf, Stopped
  <1>8. CauseOf(handle', cause', run')
    BY <1>1, <1>2, <1>5 DEF CauseOf
  <1>9. ExecutionTypeOK'
    BY <1>1, <1>4 DEF ExecutionInv, ExecutionTypeOK
  <1>10. launch' = "Started" => ~handle'.attempted /\ ~handle'.child /\ handle'.reason
    BY <1>1, <1>2, <1>5 DEF ExecutionInv, LaunchInv
  <1>11. SettledIsWithdrawn'
    BY <1>4 DEF SettledIsWithdrawn
  <1>12. signal' = "Cancelled" => run'
    BY <1>1, LiveFacts
  <1> QED BY <1>1, <1>2, <1>5, <1>6, <1>7, <1>8, <1>9, <1>10, <1>11, <1>12, HandleStepKeepsInv

LEMMA SettlementFailsKeepsInv ==
    ASSUME ExecutionInv, SettlementFails
    PROVE  ExecutionInv'
  <1>1. /\ handle.live /\ handle.pc # "Idle"
        /\ UNCHANGED <<dir, lease, execs, trees, n, host, launch, signal, run, cause>>
        /\ busy' \in 0..MaxBusy
    BY OnlyLiveActs, ExecutionAssumption
    DEF SettlementFails, MayFail, ExecutionInv, ExecutionTypeOK
  <1> DEFINE h == Revoke(handle)
  <1>2. /\ h \in Handles /\ h.reason /\ h.live = handle.live
        /\ h.attempted = handle.attempted /\ h.child = handle.child
        /\ EvidenceOf(h, trees[n]) /\ SettlementOf(h, execs[n])
        /\ CauseOf(h, cause, run)
    BY <1>1, LiveFacts, RevokeKeeps
  <1>3. handle' = [h EXCEPT !.pc = "Idle", !.retry = TRUE]
    BY DEF SettlementFails
  <1> HIDE DEF h
  <1>4. /\ handle' \in Handles /\ handle'.pc = "Idle" /\ handle'.retry
        /\ \A f \in DOMAIN NoHandle \ {"pc", "retry"} : handle'[f] = h[f]
    BY <1>2, <1>3 DEF Handles, NoHandle
  <1>5. /\ handle'.live = h.live /\ handle'.child = h.child
        /\ handle'.attempted = h.attempted /\ handle'.exitSeen = h.exitSeen
        /\ handle'.closed = h.closed /\ handle'.stop = h.stop
        /\ handle'.found = h.found /\ handle'.final = h.final
        /\ handle'.state = h.state /\ handle'.revoked = h.revoked
        /\ handle'.settled = h.settled
        /\ handle'.exitFirst = h.exitFirst /\ handle'.reason = h.reason
        /\ handle'.recorded = h.recorded
        /\ handle'.authority = h.authority
    BY <1>4 DEF NoHandle
  <1>6. EvidenceOf(handle', trees[n])
    BY <1>2, <1>5 DEF EvidenceOf, Evidence
  <1>7. SettlementOf(handle', execs[n])
    BY <1>2, <1>4, <1>5 DEF SettlementOf
  <1>8. CauseOf(handle', cause', run')
    BY <1>1, <1>2, <1>5 DEF CauseOf
  <1>9. ExecutionTypeOK'
    BY <1>1, <1>4 DEF ExecutionInv, ExecutionTypeOK
  <1>10. launch' = "Started" => ~handle'.attempted /\ ~handle'.child /\ handle'.reason
    BY <1>1, <1>2, <1>5 DEF ExecutionInv, LaunchInv
  <1>11. SettledIsWithdrawn'
    BY <1>4 DEF SettledIsWithdrawn
  <1>12. signal' = "Cancelled" => run'
    BY <1>1, LiveFacts
  <1> QED BY <1>1, <1>2, <1>5, <1>6, <1>7, <1>8, <1>9, <1>10, <1>11, <1>12, HandleStepKeepsInv

\* What a call of the settlement changes of the handle besides where it stands.
Settling(h, g) ==
    /\ g \in Handles /\ g.live = h.live /\ g.attempted = h.attempted
    /\ g.child = h.child /\ g.reason = h.reason /\ g.retry = h.retry
    /\ g.exitSeen = h.exitSeen /\ g.closed = h.closed /\ g.stop = h.stop
    /\ g.found = h.found /\ g.final = h.final /\ g.recorded = h.recorded
    /\ g.authority = h.authority /\ g.exitFirst = h.exitFirst

LEMMA SettlingIsOfThePhases ==
    ASSUME NEW h \in Handles, NEW g \in Handles,
           \A f \in DOMAIN NoHandle \ {"pc", "state", "settled", "revoked"} : g[f] = h[f]
    PROVE  Settling(h, g)
  BY DEF Settling, NoHandle

LEMMA SettlingKeeps ==
    ASSUME NEW h, NEW g, NEW t, NEW c, NEW cancelled, Settling(h, g),
           EvidenceOf(h, t), CauseOf(h, c, cancelled)
    PROVE  EvidenceOf(g, t) /\ CauseOf(g, c, cancelled)
  <1>1. EvidenceOf(g, t)
    BY DEF Settling, EvidenceOf, Evidence
  <1>2. CauseOf(g, c, cancelled)
    BY DEF Settling, CauseOf
  <1> QED BY <1>1, <1>2

\* One call of the settlement: what is left to show of it.
LEMMA SettlingStepKeepsInv ==
    ASSUME ExecutionInv, handle.pc # "Idle", Settling(handle, handle'),
           UNCHANGED <<dir, trees, n, host, launch, signal, run, cause, busy>>,
           execs' \in [Ids -> [state : States, revoked : BOOLEAN, owner : Nat]],
           lease' \in {"Idle", "Active", "Expired"},
           \A i \in Ids \ {n} : execs'[i] = execs[i],
           execs'[n].owner = execs[n].owner,
           execs[n].state \in Stopped => execs'[n].state = execs[n].state,
           execs'[n].state \in Stopped => trees[n] # "Alive",
           SettlementOf(handle', execs'[n]), SettledIsWithdrawn'
    PROVE  ExecutionInv'
  <1>1. handle.live /\ (launch = "Started" => handle.reason)
    BY OnlyLiveActs, StartedIsFresh
  <1>2. ExecutionTypeOK'
    BY DEF ExecutionInv, ExecutionTypeOK, Settling
  <1>3. EvidenceOf(handle', trees[n]) /\ CauseOf(handle', cause', run)
    BY <1>1, LiveFacts, SettlingKeeps
  <1>4. handle'.live /\ (launch' = "Started" => handle'.reason)
        /\ handle'.attempted = handle.attempted /\ handle'.child = handle.child
    BY <1>1 DEF Settling
  <1> QED BY <1>1, <1>2, <1>3, <1>4, LedgerStepKeepsInv

LEMMA PersistRevocationKeepsInv ==
    ASSUME ExecutionInv, PersistRevocation
    PROVE  ExecutionInv'
  <1>1. /\ handle.live /\ handle.pc \in {"Revoking", "RevokingAgain"}
        /\ UNCHANGED <<dir, lease, trees, n, host, launch, signal, run, cause, busy>>
        /\ n \in Ids /\ execs[n] \in Executions /\ handle \in Handles
    BY OnlyLiveActs, LiveFacts
    DEF PersistRevocation, Quiet, ExecutionInv, ExecutionTypeOK, Executions
  <1> DEFINE next == AfterRevocation(handle)
             revoked == handle.revoked \/ handle.reason
  <1>2. /\ handle.pc = "Revoking" =>
              next = IF ~handle.settled \/ handle.state # handle.final THEN "Reading" ELSE "RevokingAgain"
        /\ handle.pc = "RevokingAgain" =>
              next = IF handle.reason /\ handle.state \in Stopped THEN "Releasing" ELSE "Idle"
    BY DEF AfterRevocation
  <1> HIDE DEF next
  <1>3. next \in {"Reading", "RevokingAgain", "Releasing", "Idle"}
    BY <1>1, <1>2
  <1>4. /\ handle' \in Handles /\ handle'.pc = next /\ handle'.revoked = revoked
        /\ \A f \in DOMAIN NoHandle \ {"pc", "revoked"} : handle'[f] = handle[f]
    <2>1. CASE handle.reason /\ ~handle.revoked
      <3>1. handle' = [handle EXCEPT !.revoked = TRUE, !.pc = next]
        BY <2>1 DEF PersistRevocation, next
      <3> QED BY <1>1, <1>3, <2>1, <3>1 DEF Handles, NoHandle
    <2>2. CASE ~(handle.reason /\ ~handle.revoked)
      <3>1. handle' = [handle EXCEPT !.pc = next]
        BY <2>2 DEF PersistRevocation, next
      <3> QED BY <1>1, <1>3, <2>2, <3>1 DEF Handles, NoHandle
    <2> QED BY <2>1, <2>2
  <1>5. Settling(handle, handle')
    BY <1>1, <1>4, SettlingIsOfThePhases
  <1>6. handle'.state = handle.state /\ handle'.settled = handle.settled
    BY <1>4 DEF NoHandle
  <1>7. /\ execs' \in [Ids -> Executions] /\ \A i \in Ids \ {n} : execs'[i] = execs[i]
        /\ execs'[n].owner = execs[n].owner /\ execs'[n].state = execs[n].state
        /\ execs[n].revoked => execs'[n].revoked
        /\ revoked => execs'[n].revoked
    <2>1. execs \in [Ids -> Executions] /\ (handle.revoked => execs[n].revoked)
      BY <1>1, LiveFacts DEF ExecutionInv, ExecutionTypeOK, Executions, SettlementOf
    <2>2. CASE handle.reason /\ ~handle.revoked
      <3>1. execs' = [execs EXCEPT ![n].revoked = TRUE]
        BY <2>2 DEF PersistRevocation
      <3> QED BY <1>1, <2>1, <3>1 DEF Executions
    <2>3. CASE ~(handle.reason /\ ~handle.revoked)
      <3>1. execs' = execs
        BY <2>3 DEF PersistRevocation
      <3> QED BY <2>1, <2>3, <3>1
    <2> QED BY <2>2, <2>3
  <1>8. SettlementOf(handle', execs'[n])
    BY <1>1, <1>2, <1>4, <1>5, <1>6, <1>7, LiveFacts DEF SettlementOf, Settling
  <1>9. SettledIsWithdrawn'
    BY <1>1, <1>2, <1>4, <1>5, <1>6, <1>7, LiveFacts
    DEF SettledIsWithdrawn, Settling, SettlementOf
  <1>10. execs[n].state \in Stopped => trees[n] # "Alive"
    BY <1>1, ExecutionAssumption DEF ExecutionInv, DirectoryInv, ExecutionTypeOK
  <1>11. lease' \in {"Idle", "Active", "Expired"}
    BY <1>1 DEF ExecutionInv, ExecutionTypeOK
  <1> QED BY <1>1, <1>5, <1>7, <1>8, <1>9, <1>10, <1>11, SettlingStepKeepsInv DEF Executions

LEMMA ReadLatestKeepsInv ==
    ASSUME ExecutionInv, ReadLatest
    PROVE  ExecutionInv'
  <1>1. /\ handle.live /\ handle.pc = "Reading"
        /\ UNCHANGED <<dir, lease, execs, trees, n, host, launch, signal, run, cause, busy>>
        /\ n \in Ids /\ execs[n] \in Executions /\ handle \in Handles
    BY OnlyLiveActs, LiveFacts DEF ReadLatest, Quiet
  <1> DEFINE h == [handle EXCEPT !.state = execs[n].state]
  <1>2. /\ h \in Handles /\ h.state = execs[n].state /\ h.final = handle.final
        /\ h.child = handle.child
        /\ \A f \in DOMAIN NoHandle \ {"state"} : h[f] = handle[f]
    BY <1>1 DEF Handles, NoHandle, Executions
  <1>3. \/ /\ execs[n].state \in Stopped \cup {handle.final}
           /\ handle' = [h EXCEPT !.settled = TRUE, !.pc = "RevokingAgain"]
        \/ /\ execs[n].state \notin Stopped \cup {"Uncertain"}
           /\ handle' = [h EXCEPT !.pc = "Requesting"]
        \/ handle' = [h EXCEPT !.pc = "Recording"]
    BY <1>2 DEF ReadLatest
  <1> HIDE DEF h
  <1>4. /\ handle' \in Handles
        /\ handle'.pc \in {"RevokingAgain", "Requesting", "Recording"}
        /\ handle'.state = execs[n].state
        /\ handle'.pc = "RevokingAgain" =>
              handle'.settled /\ execs[n].state \in Stopped \cup {handle.final}
        /\ handle'.pc = "Requesting" => execs[n].state \notin Stopped \cup {"Uncertain"}
        /\ handle'.pc # "RevokingAgain" => handle'.settled = h.settled
        /\ \A f \in DOMAIN NoHandle \ {"pc", "settled"} : handle'[f] = h[f]
    BY ZenonT(60), <1>2, <1>3 DEF Handles, NoHandle
  <1>5. Settling(handle, handle')
    BY <1>1, <1>2, <1>4, SettlingIsOfThePhases
  <1>6. handle'.revoked = handle.revoked /\ h.settled = handle.settled
    BY <1>2, <1>4 DEF NoHandle
  <1>7. handle.final \in {"Uncertain"} \cup Stopped
    BY <1>1, LiveFacts DEF SettlementOf, Handles
  <1>8. SettlementOf(handle', execs'[n])
    BY <1>1, <1>4, <1>5, <1>6, <1>7, LiveFacts DEF SettlementOf, Settling
  <1>9. SettledIsWithdrawn'
    BY <1>4 DEF SettledIsWithdrawn
  <1>10. execs[n].state \in Stopped => trees[n] # "Alive"
    BY <1>1, ExecutionAssumption DEF ExecutionInv, DirectoryInv, ExecutionTypeOK
  <1>11. lease' \in {"Idle", "Active", "Expired"}
         /\ execs' \in [Ids -> [state : States, revoked : BOOLEAN, owner : Nat]]
    BY <1>1 DEF ExecutionInv, ExecutionTypeOK
  <1> QED BY <1>1, <1>5, <1>8, <1>9, <1>10, <1>11, SettlingStepKeepsInv

\* StopRequested, or how it stopped.
LEMMA RecordsKeepInv ==
    ASSUME ExecutionInv, RecordRequested \/ RecordStop
    PROVE  ExecutionInv'
  <1>1. /\ handle.live /\ handle.pc \in {"Requesting", "Recording"}
        /\ UNCHANGED <<dir, lease, trees, n, host, launch, signal, run, cause, busy>>
        /\ n \in Ids /\ execs[n] \in Executions /\ handle \in Handles
    BY OnlyLiveActs, LiveFacts DEF RecordRequested, RecordStop, Quiet
  <1>2. PICK state \in States :
           /\ RecordState(n, state)
           /\ execs[n].state \notin Stopped
           /\ \/ /\ handle.pc = "Requesting" /\ state = "StopRequested"
                 /\ handle' = [handle EXCEPT !.state = state, !.pc = "Recording"]
              \/ /\ handle.pc = "Recording" /\ state = handle.final
                 /\ handle' = [handle EXCEPT !.state = state, !.settled = TRUE,
                                             !.pc = "RevokingAgain"]
    <2>1. CASE RecordRequested
      <3>1. execs[n].state \notin Stopped /\ "StopRequested" \in States
        BY <2>1, LiveFacts, <1>1 DEF RecordRequested, SettlementOf, States
      <3> QED BY <2>1, <3>1 DEF RecordRequested
    <2>2. CASE RecordStop
      <3>1. handle.final \in {"Uncertain"} \cup Stopped
        BY <1>1, <2>2, LiveFacts DEF RecordStop, SettlementOf, Handles
      <3>2. handle.final \in States
        BY <3>1 DEF States
      <3>3. execs[n].state \in Stopped => AllowedFrom(execs[n].state) = {}
        BY DEF AllowedFrom, Stopped
      <3> QED BY <2>2, <3>2, <3>3 DEF RecordStop
    <2> QED BY <1>1, <2>1, <2>2
  <1>3. /\ execs' \in [Ids -> [state : States, revoked : BOOLEAN, owner : Nat]]
        /\ \A i \in Ids \ {n} : execs'[i] = execs[i]
        /\ execs'[n].state = state /\ execs'[n].owner = execs[n].owner
        /\ execs[n].revoked => execs'[n].revoked
    BY <1>1, <1>2, RecordStateRecords
  <1>4. /\ handle' \in Handles /\ handle'.state = state
        /\ handle'.pc \in {"Recording", "RevokingAgain"}
        /\ handle'.pc = "RevokingAgain" =>
              handle'.settled /\ handle.pc = "Recording" /\ state = handle.final
        /\ handle'.pc = "Recording" =>
              /\ handle'.settled = handle.settled /\ handle.pc = "Requesting"
              /\ state = "StopRequested"
        /\ \A f \in DOMAIN NoHandle \ {"pc", "settled", "state"} : handle'[f] = handle[f]
    <2>1. CASE handle' = [handle EXCEPT !.state = state, !.pc = "Recording"]
               /\ handle.pc = "Requesting" /\ state = "StopRequested"
      BY <1>1, <2>1 DEF Handles, NoHandle
    <2>2. CASE handle' = [handle EXCEPT !.state = state, !.settled = TRUE,
                                        !.pc = "RevokingAgain"]
               /\ handle.pc = "Recording" /\ state = handle.final
      BY <1>1, <2>2 DEF Handles, NoHandle
    <2> QED BY <1>2, <2>1, <2>2
  <1>5. Settling(handle, handle') /\ handle'.revoked = handle.revoked
    <2>1. handle'.revoked = handle.revoked
      BY <1>4 DEF NoHandle
    <2> QED BY <1>1, <1>4, <2>1, SettlingIsOfThePhases
  <1>6. handle.final \in {"Uncertain"} \cup Stopped
    BY <1>1, LiveFacts DEF SettlementOf, Handles
  <1>7. handle.pc = "Requesting" => ~handle.settled
    BY <1>1, LiveFacts DEF SettlementOf
  <1>8. SettlementOf(handle', execs'[n])
    BY <1>1, <1>3, <1>4, <1>5, <1>6, <1>7, LiveFacts DEF SettlementOf, Settling
  <1>9. SettledIsWithdrawn'
    BY <1>4 DEF SettledIsWithdrawn
  <1>10. state \in Stopped => trees[n] # "Alive"
    BY <1>1, <1>2, LiveFacts DEF EvidenceOf, Stopped
  <1>11. lease' \in {"Idle", "Active", "Expired"}
    BY <1>1 DEF ExecutionInv, ExecutionTypeOK
  <1> QED BY <1>1, <1>2, <1>3, <1>5, <1>8, <1>9, <1>10, <1>11, SettlingStepKeepsInv

LEMMA ReleaseKeepsInv ==
    ASSUME ExecutionInv, Release
    PROVE  ExecutionInv'
  <1>1. /\ handle.live /\ handle.pc = "Releasing"
        /\ handle' = [handle EXCEPT !.pc = "Idle"]
        /\ lease' = IF lease = "Active" /\ launch # "Acquired" THEN "Idle" ELSE lease
        /\ UNCHANGED <<dir, execs, trees, n, host, launch, signal, run, cause, busy>>
        /\ n \in Ids /\ execs[n] \in Executions /\ handle \in Handles
    BY OnlyLiveActs, LiveFacts DEF Release, Goes, Quiet
  <1>2. /\ handle' \in Handles /\ handle'.pc = "Idle"
        /\ \A f \in DOMAIN NoHandle \ {"pc"} : handle'[f] = handle[f]
    BY <1>1 DEF Handles, NoHandle
  <1>3. Settling(handle, handle')
    BY <1>1, <1>2, SettlingIsOfThePhases
  <1>4. handle'.revoked = handle.revoked /\ handle'.settled = handle.settled
        /\ handle'.state = handle.state
    BY <1>2 DEF NoHandle
  <1>5. SettlementOf(handle', execs'[n])
    BY <1>1, <1>2, <1>3, <1>4, LiveFacts DEF SettlementOf, Settling
  <1>6. SettledIsWithdrawn'
    BY <1>1, LiveFacts DEF SettledIsWithdrawn, SettlementOf
  <1>7. execs[n].state \in Stopped => trees[n] # "Alive"
    BY <1>1, ExecutionAssumption DEF ExecutionInv, DirectoryInv, ExecutionTypeOK
  <1>8. lease' \in {"Idle", "Active", "Expired"}
         /\ execs' \in [Ids -> [state : States, revoked : BOOLEAN, owner : Nat]]
    BY <1>1 DEF ExecutionInv, ExecutionTypeOK
  <1> QED BY <1>1, <1>3, <1>5, <1>6, <1>7, <1>8, SettlingStepKeepsInv

-----------------------------------------------------------------------------
(* Starting, recovery and restart *)

LEMMA RecoverKeepsInv ==
    ASSUME ExecutionInv, Recover
    PROVE  ExecutionInv'
  <1>1. /\ handle = NoHandle /\ launch = "Idle" /\ ~handle.live
        /\ ~cause.owned /\ ~cause.preceded
    BY DEF Recover, ExecutionInv, LaunchInv, HandleInv, CauseOf, NoHandle
  <1>2. /\ host' = [host EXCEPT !.recovered = TRUE]
        /\ host' \in [id : 1..MaxHosts, recovered : BOOLEAN, closed : BOOLEAN]
        /\ host'.id = host.id
        /\ UNCHANGED <<dir, lease, trees, n, launch, signal, run, handle, cause, busy>>
    BY DEF Recover, ExecutionInv, ExecutionTypeOK
  <1>3. n \in Nat /\ n <= MaxStarts /\ (n > 0 => n \in Ids)
        /\ execs \in [Ids -> Executions]
    BY ExecutionAssumption DEF ExecutionInv, ExecutionTypeOK, Ids, Executions
  <1>4. /\ execs' \in [Ids -> Executions]
        /\ \A i \in Ids : /\ i # n => execs'[i] = execs[i]
                          /\ execs[i].state \in Stopped => execs'[i].state = execs[i].state
                          /\ execs'[i].state # execs[i].state => execs'[i].state = "Uncertain"
        /\ n > 0 /\ execs'[n].owner # host.id =>
              execs'[n].revoked /\ execs'[n].state \in Stopped \cup {"Uncertain"}
    <2> DEFINE doubted == /\ n > 0 /\ execs[n].owner # host.id
                          /\ (~execs[n].revoked \/ execs[n].state \notin Stopped)
               r == [execs[n] EXCEPT !.revoked = TRUE,
                        !.state = IF @ \in Stopped THEN @ ELSE "Uncertain"]
    <2>1. CASE doubted
      <3>1. execs[n] \in Executions /\ n \in Ids
        BY <1>3, <2>1
      <3>2. "Uncertain" \in States
        BY DEF States
      <3>3. /\ r \in Executions /\ r.revoked /\ r.owner = execs[n].owner
            /\ r.state \in Stopped \cup {"Uncertain"}
            /\ execs[n].state \in Stopped => r.state = execs[n].state
            /\ execs[n].state \notin Stopped => r.state = "Uncertain"
        BY <3>1, <3>2 DEF Executions
      <3>4. execs' = [execs EXCEPT ![n] = r]
        BY <1>3, <2>1, <3>1 DEF Recover, Executions
      <3> HIDE DEF r
      <3>5. execs' \in [Ids -> Executions] /\ execs'[n] = r
            /\ \A i \in Ids : i # n => execs'[i] = execs[i]
        BY <1>3, <3>1, <3>3, <3>4
      <3> QED BY <3>1, <3>3, <3>5
    <2>2. CASE ~doubted
      <3>1. execs' = execs
        BY <2>2 DEF Recover
      <3> QED BY <1>3, <2>2, <3>1
    <2> QED BY <2>1, <2>2
  <1>5. ExecutionTypeOK'
    BY <1>2, <1>4 DEF ExecutionInv, ExecutionTypeOK, Executions
  <1>6. LaunchInv'
    BY <1>1, <1>2 DEF ExecutionInv, LaunchInv
  <1>7. DirectoryInv'
    <2>1. "Uncertain" \notin Stopped
      BY DEF Stopped
    <2>2. \A i \in Ids : i < n \/ i > n => execs'[i] = execs[i]
      BY <1>3, <1>4 DEF Ids
    <2> QED BY <1>2, <1>4, <2>1, <2>2 DEF ExecutionInv, DirectoryInv
  <1>8. HandleInv'
    BY <1>1, <1>2, NoHandleKnowsNothing DEF HandleInv
  <1>9. SettledIsWithdrawn'
    BY <1>1, <1>2 DEF SettledIsWithdrawn, NoHandle
  <1>10. RestartRevokes'
    BY <1>2, <1>4 DEF RestartRevokes
  <1> QED BY <1>5, <1>6, <1>7, <1>8, <1>9, <1>10 DEF ExecutionInv

LEMMA FreshKnowsNothing ==
    ASSUME NEW h, h = [NoHandle EXCEPT !.live = TRUE], NEW x, NEW c, NEW cancelled,
           ~c.owned, ~c.preceded
    PROVE  /\ h \in Handles /\ h.live /\ ~h.attempted /\ ~h.child /\ ~h.settled
           /\ EvidenceOf(h, "None") /\ SettlementOf(h, x) /\ CauseOf(h, c, cancelled)
  <1>1. "None" \notin Stopped
    BY DEF Stopped
  <1>2. h \in Handles /\ h.live
    BY NoHandleIsHandle DEF Handles, NoHandle
  <1>3. /\ ~h.attempted /\ ~h.child /\ h.closed = "None" /\ h.found = "None"
        /\ h.final = "None" /\ h.stop = "None" /\ h.pc = "Idle" /\ ~h.settled
        /\ ~h.revoked /\ ~h.recorded /\ h.authority = "None" /\ ~h.exitFirst
    BY DEF NoHandle
  <1>4. EvidenceOf(h, "None")
    BY <1>1, <1>3 DEF EvidenceOf, Evidence
  <1>5. SettlementOf(h, x)
    BY <1>3 DEF SettlementOf
  <1>6. CauseOf(h, c, cancelled)
    BY <1>3 DEF CauseOf
  <1> QED BY <1>2, <1>3, <1>4, <1>5, <1>6

LEMMA StartExecutionKeepsInv ==
    ASSUME ExecutionInv, StartExecution
    PROVE  ExecutionInv'
  <1>1. /\ n < MaxStarts /\ DirectoryIdle /\ host.recovered /\ signal = "None"
        /\ launch' = "Started" /\ n' = n + 1
        /\ execs' = [execs EXCEPT ![n + 1].owner = host.id]
        /\ handle' = [NoHandle EXCEPT !.live = TRUE]
        /\ cause' = [owned |-> FALSE, preceded |-> FALSE]
        /\ UNCHANGED <<dir, lease, trees, host, signal, run, busy>>
    BY DEF StartExecution, ExecutionInv, LaunchInv
  <1>2. n \in Nat /\ n + 1 \in Ids /\ n + 1 \in 0..MaxStarts /\ host.id \in Nat
        /\ execs \in [Ids -> Executions]
    BY <1>1, ExecutionAssumption DEF ExecutionInv, ExecutionTypeOK, Ids, Executions
  <1>3. execs[n + 1].state = "Starting" /\ trees[n + 1] = "None"
    BY <1>2 DEF ExecutionInv, DirectoryInv
  <1>4. /\ execs' \in [Ids -> Executions] /\ execs'[n + 1].owner = host.id
        /\ \A i \in Ids : execs'[i].state = execs[i].state
    BY <1>1, <1>2 DEF Executions
  <1>5. /\ handle' \in Handles /\ handle'.live /\ ~handle'.attempted /\ ~handle'.child
        /\ ~handle'.settled
        /\ EvidenceOf(handle', trees'[n']) /\ SettlementOf(handle', execs'[n'])
        /\ CauseOf(handle', cause', run')
    <2>1. ~cause'.owned /\ ~cause'.preceded /\ trees'[n'] = "None"
      BY <1>1, <1>3
    <2>2. /\ handle' \in Handles /\ handle'.live /\ ~handle'.attempted /\ ~handle'.child
          /\ ~handle'.settled
          /\ EvidenceOf(handle', "None") /\ SettlementOf(handle', execs'[n'])
          /\ CauseOf(handle', cause', run')
      BY <1>1, <2>1, FreshKnowsNothing
    <2> QED BY <2>1, <2>2
  <1>6. ExecutionTypeOK'
    BY <1>1, <1>2, <1>4, <1>5 DEF ExecutionInv, ExecutionTypeOK, Executions
  <1>7. LaunchInv'
    BY <1>1, <1>2, <1>3, <1>4, <1>5 DEF LaunchInv
  <1>8. DirectoryInv'
    <2>1. \A i \in Ids : i < n + 1 => execs[i].state \in Stopped
      BY <1>1, <1>2 DEF DirectoryIdle, Ids
    <2>2. "Starting" \notin Stopped
      BY DEF Stopped
    <2>3. \A i \in Ids : i \in Nat /\ (i > n + 1 => i > n)
          /\ (i <= n + 1 => i <= n \/ i = n + 1)
      BY <1>2 DEF Ids
    <2> QED BY <1>1, <1>2, <1>3, <1>4, <2>1, <2>2, <2>3 DEF ExecutionInv, DirectoryInv
  <1>9. HandleInv'
    BY <1>5 DEF HandleInv
  <1>10. SettledIsWithdrawn'
    BY <1>5 DEF SettledIsWithdrawn
  <1>11. RestartRevokes'
    BY <1>1, <1>4 DEF RestartRevokes
  <1> QED BY <1>6, <1>7, <1>8, <1>9, <1>10, <1>11 DEF ExecutionInv

\* The start callback runs, and a process of this execution may be there.
LEMMA SpawnFacts ==
    ASSUME ExecutionInv, launch = "Started", MayMutate, NEW t \in Trees,
           UNCHANGED <<execs, n>>, trees' = [trees EXCEPT ![n] = t]
    PROVE  /\ handle = [NoHandle EXCEPT !.live = TRUE] /\ handle.live
           /\ ~cause.owned /\ ~cause.preceded
           /\ n \in Ids /\ trees' \in [Ids -> Trees] /\ trees'[n] = t
           /\ DirectoryInv'
  <1>1. handle = [NoHandle EXCEPT !.live = TRUE] /\ execs[n].state = "Starting"
    BY DEF MayMutate, Authorized, ExecutionInv, LaunchInv
  <1>2. handle.live /\ ~handle.recorded
    BY <1>1 DEF NoHandle
  <1>3. n \in Ids /\ trees \in [Ids -> Trees] /\ ~cause.owned /\ ~cause.preceded
    BY <1>2, LiveFacts DEF ExecutionInv, ExecutionTypeOK, Trees, CauseOf
  <1>4. /\ trees' \in [Ids -> Trees] /\ trees'[n] = t
        /\ \A i \in Ids : i # n => trees'[i] = trees[i]
    BY <1>3
  <1>5. DirectoryInv'
    <2>1. "Starting" \notin Stopped
      BY DEF Stopped
    <2>2. \A i \in Ids : i > n => i # n
      BY <1>3, ExecutionAssumption DEF Ids
    <2> QED BY <1>1, <1>3, <1>4, <2>1, <2>2 DEF ExecutionInv, DirectoryInv
  <1> QED BY <1>1, <1>2, <1>3, <1>4, <1>5

LEMMA SpawnKeepsInv ==
    ASSUME ExecutionInv, Spawn
    PROVE  ExecutionInv'
  <1>1. /\ handle = [NoHandle EXCEPT !.live = TRUE] /\ handle.live
        /\ ~cause.owned /\ ~cause.preceded
        /\ n \in Ids /\ trees' \in [Ids -> Trees] /\ trees'[n] = "Alive"
        /\ DirectoryInv'
    BY SpawnFacts DEF Spawn, Trees
  <1>2. /\ handle' = [handle EXCEPT !.attempted = TRUE, !.child = TRUE]
        /\ launch' = "Attached"
        /\ UNCHANGED <<dir, lease, execs, n, host, signal, run, cause, busy>>
    BY DEF Spawn
  <1>3. /\ handle' \in Handles /\ handle'.live /\ handle'.attempted /\ handle'.child
        /\ handle'.closed = "None" /\ handle'.found = "None" /\ handle'.final = "None"
        /\ handle'.stop = "None" /\ handle'.pc = "Idle" /\ ~handle'.settled
        /\ ~handle'.revoked /\ ~handle'.recorded /\ handle'.authority = "None"
        /\ ~handle'.exitFirst
    <2>1. handle \in Handles
      BY <1>1, LiveFacts
    <2>2. handle' \in Handles
      BY <1>2, <2>1 DEF Handles
    <2> QED BY <1>1, <1>2, <2>2 DEF NoHandle
  <1>4. EvidenceOf(handle', trees'[n])
    BY <1>3 DEF EvidenceOf, Evidence, Stopped
  <1>5. SettlementOf(handle', execs[n])
    BY <1>3 DEF SettlementOf
  <1>6. CauseOf(handle', cause', run')
    BY <1>1, <1>2, <1>3 DEF CauseOf
  <1>7. ExecutionTypeOK'
    BY <1>1, <1>2, <1>3 DEF ExecutionInv, ExecutionTypeOK, Trees
  <1>8. SettledIsWithdrawn'
    BY <1>3 DEF SettledIsWithdrawn
  <1>9. signal' = "Cancelled" => run'
    BY <1>1, <1>2, LiveFacts
  <1> QED BY <1>1, <1>2, <1>3, <1>4, <1>5, <1>6, <1>7, <1>8, <1>9, TreeStepKeepsInv

LEMMA SpawnThrowsKeepsInv ==
    ASSUME ExecutionInv, SpawnThrows
    PROVE  ExecutionInv'
  <1>1. PICK t \in {"Alive", "Gone"} : trees' = [trees EXCEPT ![n] = t]
    BY DEF SpawnThrows
  <1> DEFINE h == [handle EXCEPT !.attempted = TRUE]
  <1>2. /\ handle' = Stop(h, signal) /\ cause' = Cause(handle, signal)
        /\ launch' = "Up" /\ launch = "Started" /\ MayMutate
        /\ UNCHANGED <<dir, lease, execs, n, host, signal, run, busy>>
    BY DEF SpawnThrows
  <1>3. /\ handle = [NoHandle EXCEPT !.live = TRUE] /\ handle.live
        /\ ~cause.owned /\ ~cause.preceded
        /\ n \in Ids /\ trees' \in [Ids -> Trees] /\ trees'[n] = t
        /\ DirectoryInv'
    BY <1>1, <1>2, SpawnFacts DEF Trees
  <1>4. /\ h \in Handles /\ h.live /\ h.attempted /\ ~h.child
        /\ h.closed = "None" /\ h.found = "None" /\ h.final = "None"
        /\ h.stop = "None" /\ h.pc = "Idle" /\ ~h.settled /\ ~h.exitSeen
        /\ ~h.revoked /\ ~h.recorded /\ h.authority = "None"
        /\ ~h.exitFirst
    <2>1. handle \in Handles
      BY <1>3, LiveFacts
    <2>2. h \in Handles
      BY <2>1 DEF Handles
    <2> QED BY <1>3, <2>2 DEF NoHandle
  <1>5. ~handle.exitSeen /\ ~handle.recorded /\ handle.stop = "None" /\ handle.authority = "None"
    BY <1>3 DEF NoHandle
  <1> HIDE DEF h
  <1>6. Cause(h, signal) = cause'
    BY <1>2, <1>4, <1>5 DEF Cause, TellsCause
  <1>7. EvidenceOf(h, t)
    BY <1>4 DEF EvidenceOf, Evidence, Stopped
  <1>8. SettlementOf(h, execs[n])
    BY <1>4 DEF SettlementOf
  <1>9. CauseOf(h, cause, run) /\ cause \in [owned : BOOLEAN, preceded : BOOLEAN]
        /\ (signal = "Cancelled" => run)
    BY <1>3, <1>4, LiveFacts DEF CauseOf
  <1>10. /\ handle' \in Handles
         /\ handle'.pc # "Idle" /\ handle'.live
         /\ EvidenceOf(handle', trees'[n]) /\ SettlementOf(handle', execs[n])
         /\ CauseOf(handle', cause', run')
         /\ cause' \in [owned : BOOLEAN, preceded : BOOLEAN]
    <2>1. /\ Stop(h, signal) \in Handles
          /\ Stop(h, signal).pc # "Idle" /\ Stop(h, signal).live
          /\ EvidenceOf(Stop(h, signal), t) /\ SettlementOf(Stop(h, signal), execs[n])
          /\ CauseOf(Stop(h, signal), Cause(h, signal), run)
          /\ Cause(h, signal) \in [owned : BOOLEAN, preceded : BOOLEAN]
      BY <1>4, <1>7, <1>8, <1>9, StopKeeps
    <2> QED BY <1>2, <1>3, <1>6, <2>1
  <1>11. ExecutionTypeOK'
    BY <1>2, <1>3, <1>10 DEF ExecutionInv, ExecutionTypeOK, Trees
  <1>12. SettledIsWithdrawn'
    BY <1>10 DEF SettledIsWithdrawn
  <1> QED BY <1>2, <1>3, <1>9, <1>10, <1>11, <1>12, TreeStepKeepsInv

LEMMA RecordRunningKeepsInv ==
    ASSUME ExecutionInv, RecordRunning
    PROVE  ExecutionInv'
  <1>1. /\ handle.live /\ handle \in Handles /\ n \in Ids
        /\ EvidenceOf(handle, trees[n]) /\ SettlementOf(handle, execs[n])
        /\ CauseOf(handle, cause, run) /\ (signal = "Cancelled" => run)
        /\ cause \in [owned : BOOLEAN, preceded : BOOLEAN]
        /\ busy \in 0..MaxBusy /\ signal \in {"None", "Cancelled", "Other"}
        /\ host \in [id : {host.id}, recovered : {host.recovered}, closed : BOOLEAN]
    BY OnlyLiveActs, LiveFacts DEF RecordRunning, ExecutionInv, ExecutionTypeOK
  <1>2. launch' = "Up" /\ UNCHANGED <<dir, lease, trees, n, host, signal, run>>
    BY DEF RecordRunning
  <1>3. CASE UNCHANGED execs /\ StopHandle /\ (MayFail \/ UNCHANGED busy)
    <2>1. busy' \in 0..MaxBusy
      BY <1>1, <1>3, ExecutionAssumption DEF MayFail
    <2> QED BY <1>1, <1>2, <1>3, <2>1, StopStepKeepsInv DEF StopHandle
  <1>4. CASE /\ "Running" \in AllowedFrom(execs[n].state) /\ handle.state = "Starting"
             /\ RecordState(n, "Running") /\ UNCHANGED busy
             /\ LET up == [handle EXCEPT !.state = "Running"]
                IN  IF signal # "None"
                    THEN handle' = Stop(up, signal) /\ cause' = Cause(up, signal)
                    ELSE handle' = [up EXCEPT !.watched = TRUE] /\ UNCHANGED cause
    <2> DEFINE up == [handle EXCEPT !.state = "Running"]
    <2>1. "Running" \in States /\ "Running" \notin Stopped /\ "Starting" \notin Stopped
          /\ "Running" # "Uncertain" /\ "Starting" # "Uncertain"
      BY DEF States, Stopped
    <2>2. execs[n].state \notin Stopped
      BY <1>4 DEF AllowedFrom, Stopped
    <2>3. /\ execs' \in [Ids -> [state : States, revoked : BOOLEAN, owner : Nat]]
          /\ \A i \in Ids \ {n} : execs'[i] = execs[i]
          /\ execs'[n].state = "Running" /\ execs'[n].owner = execs[n].owner
          /\ execs[n].revoked => execs'[n].revoked
      BY <1>1, <1>4, <2>1, RecordStateRecords
    <2>4. /\ up \in Handles /\ up.state = "Running"
          /\ \A f \in DOMAIN NoHandle \ {"state"} : up[f] = handle[f]
      BY <1>1, <2>1 DEF Handles, NoHandle
    <2>5. \/ signal # "None" /\ handle' = Stop(up, signal) /\ cause' = Cause(up, signal)
          \/ handle' = [up EXCEPT !.watched = TRUE] /\ UNCHANGED cause
      BY <1>4
    <2> HIDE DEF up
    <2>6. /\ up.live = handle.live /\ up.child = handle.child /\ up.final = handle.final
          /\ up.attempted = handle.attempted /\ up.exitSeen = handle.exitSeen
          /\ up.closed = handle.closed /\ up.stop = handle.stop
          /\ up.found = handle.found /\ up.revoked = handle.revoked
          /\ up.settled = handle.settled /\ up.pc = handle.pc
          /\ up.exitFirst = handle.exitFirst /\ up.reason = handle.reason
          /\ up.retry = handle.retry /\ up.recorded = handle.recorded
          /\ up.authority = handle.authority
      BY <2>4 DEF NoHandle
    <2>7. ~handle.settled
      BY <1>1, <1>4, <2>1 DEF SettlementOf
    <2>8. EvidenceOf(up, trees[n])
      BY <1>1, <2>6 DEF EvidenceOf, Evidence
    <2>9. SettlementOf(up, execs'[n])
      BY <1>1, <2>1, <2>3, <2>4, <2>6, <2>7 DEF SettlementOf
    <2>10. CauseOf(up, cause, run)
      BY <1>1, <2>6 DEF CauseOf
    <2>11. /\ handle' \in Handles /\ handle'.live
           /\ handle'.attempted = handle.attempted /\ handle'.child = handle.child
           /\ handle'.pc # "Idle" \/ ~handle'.settled
           /\ EvidenceOf(handle', trees[n]) /\ SettlementOf(handle', execs'[n])
           /\ CauseOf(handle', cause', run)
           /\ cause' \in [owned : BOOLEAN, preceded : BOOLEAN]
      <3>1. CASE handle' = Stop(up, signal) /\ cause' = Cause(up, signal)
        BY ZenonT(60), <1>1, <2>4, <2>6, <2>8, <2>9, <2>10, <3>1, StopKeeps
      <3>2. CASE handle' = [up EXCEPT !.watched = TRUE] /\ UNCHANGED cause
        <4>1. /\ handle' \in Handles
              /\ \A f \in DOMAIN NoHandle \ {"watched"} : handle'[f] = up[f]
          BY <2>4, <3>2 DEF Handles, NoHandle
        <4>2. /\ handle'.live = up.live /\ handle'.child = up.child
              /\ handle'.final = up.final /\ handle'.state = up.state
              /\ handle'.attempted = up.attempted /\ handle'.exitSeen = up.exitSeen
              /\ handle'.closed = up.closed /\ handle'.stop = up.stop
              /\ handle'.found = up.found /\ handle'.revoked = up.revoked
              /\ handle'.settled = up.settled /\ handle'.pc = up.pc
              /\ handle'.exitFirst = up.exitFirst /\ handle'.reason = up.reason
              /\ handle'.recorded = up.recorded
              /\ handle'.authority = up.authority
          BY <4>1 DEF NoHandle
        <4>3. EvidenceOf(handle', trees[n])
          BY <2>8, <4>2 DEF EvidenceOf, Evidence
        <4>4. SettlementOf(handle', execs'[n])
          BY <2>9, <4>2 DEF SettlementOf
        <4>5. CauseOf(handle', cause', run)
          BY <2>10, <3>2, <4>2 DEF CauseOf
        <4> QED BY <1>1, <2>6, <2>7, <3>2, <4>1, <4>2, <4>3, <4>4, <4>5
      <3> QED BY <2>5, <3>1, <3>2
    <2>12. ExecutionTypeOK'
      BY <1>2, <1>4, <2>3, <2>11 DEF ExecutionInv, ExecutionTypeOK
    <2>13. SettledIsWithdrawn'
      BY <2>11 DEF SettledIsWithdrawn
    <2> QED BY <1>1, <1>2, <2>1, <2>2, <2>3, <2>11, <2>12, <2>13, LedgerStepKeepsInv
  <1> QED BY <1>3, <1>4 DEF RecordRunning

LEMMA CrashKeepsInv ==
    ASSUME ExecutionInv, Crash
    PROVE  ExecutionInv'
  <1>1. /\ handle' = NoHandle /\ launch' = "Idle" /\ signal' = "None"
        /\ cause' = [owned |-> FALSE, preceded |-> FALSE]
        /\ host' = [id |-> host.id + 1, recovered |-> FALSE, closed |-> FALSE]
        /\ UNCHANGED <<dir, lease, execs, trees, n, run, busy>>
    BY DEF Crash
  <1>2. host' \in [id : 1..MaxHosts, recovered : BOOLEAN, closed : BOOLEAN]
    <2>1. host.id \in 1..MaxHosts /\ host.id < MaxHosts
      BY DEF Crash, ExecutionInv, ExecutionTypeOK
    <2>2. host.id + 1 \in 1..MaxHosts
      BY <2>1, ExecutionAssumption
    <2> QED BY <1>1, <2>2
  <1>3. ExecutionTypeOK'
    BY <1>1, <1>2, NoHandleIsHandle DEF ExecutionInv, ExecutionTypeOK
  <1>4. LaunchInv'
    BY <1>1 DEF LaunchInv, NoHandle
  <1>5. DirectoryInv'
    BY <1>1 DEF ExecutionInv, DirectoryInv
  <1>6. HandleInv'
    BY <1>1, NoHandleKnowsNothing DEF HandleInv
  <1>7. SettledIsWithdrawn'
    BY <1>1 DEF SettledIsWithdrawn, NoHandle
  <1>8. RestartRevokes'
    BY <1>1 DEF RestartRevokes
  <1> QED BY <1>3, <1>4, <1>5, <1>6, <1>7, <1>8 DEF ExecutionInv

-----------------------------------------------------------------------------
(* The controlled process, whole *)

LEMMA ExecutionInitInv ==
    ASSUME ExecutionInit
    PROVE  ExecutionInv
  <1>1. ExecutionTypeOK
    <2>1. "Starting" \in States
      BY DEF States
    <2>2. 1 \in 1..MaxHosts /\ 0 \in 0..MaxBusy /\ 0 \in 0..MaxStarts
      BY ExecutionAssumption
    <2> QED BY <2>1, <2>2, NoHandleIsHandle DEF ExecutionInit, ExecutionTypeOK
  <1>2. LaunchInv
    BY DEF ExecutionInit, LaunchInv, NoHandle
  <1>3. DirectoryInv
    <2>1. \A i \in Ids : i > 0 /\ i \in Nat
      BY ExecutionAssumption DEF Ids
    <2> QED BY <2>1 DEF ExecutionInit, DirectoryInv
  <1>4. HandleInv
    <2>1. handle = NoHandle /\ ~cause.owned /\ ~cause.preceded
      BY DEF ExecutionInit
    <2> QED BY <2>1, NoHandleKnowsNothing DEF HandleInv
  <1>5. SettledIsWithdrawn
    BY DEF ExecutionInit, SettledIsWithdrawn, NoHandle
  <1>6. RestartRevokes
    BY DEF ExecutionInit, RestartRevokes
  <1> QED BY <1>1, <1>2, <1>3, <1>4, <1>5, <1>6 DEF ExecutionInv

LEMMA ExecutionStepKeepsInv ==
    ASSUME ExecutionInv, [ExecutionNext]_executionVars
    PROVE  ExecutionInv'
  <1>1. CASE UNCHANGED executionVars
    <2>1. DirectoryIdle' <=> DirectoryIdle
      BY <1>1 DEF executionVars, DirectoryIdle
    <2> QED BY <1>1, <2>1
        DEF executionVars, ExecutionInv, ExecutionTypeOK, LaunchInv, DirectoryInv,
            HandleInv, SettledIsWithdrawn, RestartRevokes
  <1>2. CASE ExecutionNext
    <2>1. CASE Recover \/ StartExecution \/ Spawn \/ SpawnThrows \/ RecordRunning \/ Crash
      BY <2>1, RecoverKeepsInv, StartExecutionKeepsInv, SpawnKeepsInv, SpawnThrowsKeepsInv,
         RecordRunningKeepsInv, CrashKeepsInv
    <2>2. CASE \/ Provision \/ Register \/ Acquire \/ StartRefused \/ CancelRun
               \/ LeaseExpires \/ Forget
      BY <2>2, QuietStepsKeepInv
    <2>3. CASE \/ SpawnRefused \/ Deadline \/ (\E why \in {"Cancelled", "Other"} : Abort(why))
               \/ (\E closing \in BOOLEAN : StopCalled(closing))
      BY <2>3, StopsKeepInv
    <2>4. CASE Finish \/ Retry \/ MonitorFails \/ ClassifyLoss
      BY <2>4, DrainsKeepInv, MonitorKeepsInv, ClassifyKeepsInv
    <2>5. CASE ProviderExits \/ OwnerLost \/ StopWait
      BY <2>5, ChildStepsKeepInv, StopWaitKeepsInv
    <2>6. CASE \/ \E how \in {"Clean", "Failed", "Signal"} : TreeCloses(how)
               \/ \E i \in Ids : TreeEnds(i)
      BY <2>6, TreeClosesKeepsInv, TreeEndsKeepsInv
    <2>7. CASE Settle \/ SettlementFails
      BY <2>7, AwaitedKeepsInv, PersistRevocationKeepsInv, ReadLatestKeepsInv,
         RecordsKeepInv, ReleaseKeepsInv, SettlementFailsKeepsInv DEF Settle
    <2> QED BY <1>2, <2>1, <2>2, <2>3, <2>4, <2>5, <2>6, <2>7 DEF ExecutionNext
  <1> QED BY <1>1, <1>2

\* What the invariant is for.
LEMMA ExecutionInvIsSafe ==
    ASSUME ExecutionInv
    PROVE  ExecutionSafety
  <1>1. n \in Nat /\ n <= MaxStarts /\ Ids = 1..MaxStarts /\ MaxStarts \in Nat
    BY ExecutionAssumption DEF ExecutionInv, ExecutionTypeOK, Ids
  <1>2. StopIsPhysical
    <2>1. \A i \in 1..n : i \in Ids /\ i <= n
      BY <1>1
    <2>2. \A i \in Ids : trees[i] = "Alive" => i = n
      BY <1>1 DEF ExecutionInv, DirectoryInv
    <2> QED BY <2>1, <2>2 DEF StopIsPhysical, ExecutionInv, DirectoryInv
  <1>3. OwnedStopIsOurs
    BY DEF OwnedStopIsOurs, ExecutionInv, HandleInv, CauseOf
  <1>4. SettledIsRecorded
    BY DEF SettledIsRecorded, ExecutionInv, HandleInv, SettlementOf
  <1> QED BY <1>2, <1>3, <1>4 DEF ExecutionSafety, ExecutionInv

\* worktree-executor.ts, by itself: the invariant of a controlled process, for
\* any number of executions, executor processes and busy Kernel calls.
THEOREM ExecutionInvariant == ExecutionSpec => []ExecutionInv
  <1>1. ExecutionInit => ExecutionInv
    BY ExecutionInitInv
  <1>2. ExecutionInv /\ [ExecutionNext]_executionVars => ExecutionInv'
    BY ExecutionStepKeepsInv
  <1>3. ExecutionSpec => ExecutionInit /\ [][ExecutionNext]_executionVars
    BY PTL DEF ExecutionSpec
  <1> QED BY <1>1, <1>2, <1>3, PTL

\* What the ledger calls stopped has stopped and no two process trees live in
\* the directory; a stop is the cancellation's only when it is; a settled stop
\* left no authority behind, and reports what is recorded.
THEOREM ExecutionSafetyHolds == ExecutionSpec => []ExecutionSafety
  <1>1. ExecutionInv => ExecutionSafety
    BY ExecutionInvIsSafe
  <1> QED BY <1>1, ExecutionInvariant, PTL

-----------------------------------------------------------------------------
(***************************************************************************)
(* The session of the Copilot adapter.  Actions come last because they are *)
(* taken from a session that is over: its process closed, its queue empty, *)
(* its tools ended (Drained).  A success is whole because the plan that is *)
(* applied is the one output, and it has one ending; and nothing follows   *)
(* an abort because no update is accepted after it.                        *)
(***************************************************************************)

OneEnding(p) ==
    Cardinality({i \in DOMAIN p : p[i] \in TerminalActions \cup AttentionActions}) = 1

Over == {"cleanup", "stopping", "returned"}

Drained == proc = "closed" /\ queue = [pending |-> 0, failed |-> FALSE] /\ ToolsComplete

SessionTyped ==
    /\ SessionTypeOK
    /\ policy \in Policies /\ sessionCause \in Causes
    /\ output \in Seq(Plans \cup {Noise})
    /\ plan \in Seq(STRING) /\ applied \in Seq(STRING)
    /\ accept \in BOOLEAN /\ aborted \in BOOLEAN

SessionPhases ==
    /\ ~Trusted => \A t \in Tools : tools[t] = "none"
    /\ pc \in {"draining", "applying"} => proc = "closed"
    /\ pc \notin Over => error = "none"
    /\ pc \notin Over \cup {"applying"} => begun = 0 /\ applied = <<>>
    /\ begun > 0 => Drained
    /\ pc \in {"stopping", "returned"} => queue.pending = 0
    /\ stage # "none" => pc \in {"finishing", "stopping"}

ActionsWhole ==
    /\ pc = "applying" =>
          /\ Drained /\ output = <<plan>> /\ OneEnding(plan)
          /\ begun <= Len(plan)
          /\ \A i \in 1..Len(applied) : applied[i] = plan[i]
    /\ pc \in Over /\ error = "none" =>
          Drained /\ output = <<applied>> /\ OneEnding(applied)

AbortHeard ==
    /\ pc \in Over => ~accept
    /\ aborted /\ pc # "starting" => ~accept

SessionInv == SessionTyped /\ SessionPhases /\ ActionsWhole /\ AbortHeard

LEMMA FailedIsAConnection ==
    ASSUME SessionTypeOK, NEW e \in Errors
    PROVE  Failed(e) \in [failed : Errors, allowExit : BOOLEAN, shutting : BOOLEAN,
                          ended : BOOLEAN, sealed : BOOLEAN, closed : BOOLEAN]
  BY DEF SessionTypeOK, Failed

\* enqueue: the queue stays within its limit.
LEMMA EnqueueKeepsType ==
    ASSUME SessionTypeOK, NEW k \in Nat, Enqueue(k)
    PROVE  /\ queue' \in [pending : 0..Limit, failed : BOOLEAN]
           /\ conn' \in [failed : Errors, allowExit : BOOLEAN, shutting : BOOLEAN,
                         ended : BOOLEAN, sealed : BOOLEAN, closed : BOOLEAN]
  <1> DEFINE taken == IF queue.failed THEN 0
                      ELSE IF queue.pending + k <= Limit THEN k ELSE Limit - queue.pending
  <1>1. queue.pending \in 0..Limit /\ Limit \in Nat
    BY SessionAssumption DEF SessionTypeOK
  <1>2. taken \in Nat /\ queue.pending + taken \in 0..Limit
    BY <1>1
  <1>3. queue' = [queue EXCEPT !.pending = @ + taken]
    BY DEF Enqueue
  <1> HIDE DEF taken
  <1>4. queue' \in [pending : 0..Limit, failed : BOOLEAN]
    BY <1>2, <1>3 DEF SessionTypeOK
  <1>5. \/ conn' = conn \/ conn' = Failed("persistence") \/ conn' = Failed("limit")
    BY DEF Enqueue
  <1>6. {"persistence", "limit"} \subseteq Errors
    BY DEF Errors
  <1>7. conn' \in [failed : Errors, allowExit : BOOLEAN, shutting : BOOLEAN,
                   ended : BOOLEAN, sealed : BOOLEAN, closed : BOOLEAN]
    BY <1>5, <1>6, FailedIsAConnection DEF SessionTypeOK
  <1> QED BY <1>4, <1>7

\* While output is received the process is not gone, and no action has begun.
LEMMA ReceivingIsEarly ==
    ASSUME SessionInv, proc # "closed"
    PROVE  /\ pc \notin {"draining", "applying"} /\ begun = 0
           /\ pc \in Over => error # "none"
  BY DEF SessionInv, SessionTyped, SessionPhases, ActionsWhole, Drained, SessionTypeOK

\* A frame is received, of which no action comes yet.
LEMMA FrameStepKeepsInv ==
    ASSUME SessionInv, SessionTyped', proc # "closed",
           UNCHANGED <<fixed, proc, stage, aborted, plan, begun, applied>>,
           accept' => accept,
           \/ UNCHANGED <<pc, error>>
           \/ pc \in Awaiting /\ pc' \in Awaiting \cup {"finishing"} /\ error' = "none"
           \/ pc \in Awaiting /\ pc' = "cleanup" /\ error' # "none" /\ ~accept',
           ~Trusted => UNCHANGED tools,
           accept \/ UNCHANGED queue
    PROVE  SessionInv'
  <1>1. SessionPhases'
    BY ReceivingIsEarly DEF SessionInv, SessionTyped, SessionTypeOK, SessionPhases, AbortHeard,
           Over, Trusted, fixed, Awaiting
  <1>2. ActionsWhole'
    BY ReceivingIsEarly DEF SessionInv, ActionsWhole, Over, Awaiting
  <1>3. AbortHeard'
    BY DEF SessionInv, AbortHeard, Over, SessionTyped, Awaiting
  <1> QED BY <1>1, <1>2, <1>3 DEF SessionInv

LEMMA NoiseIsOutput ==
    /\ <<>> \in Seq(Plans \cup {Noise})
    /\ \A x \in Plans \cup {Noise} : \A out \in Seq(Plans \cup {Noise}) :
          Append(out, x) \in Seq(Plans \cup {Noise})
  OBVIOUS

LEMMA ResponsesKeepInv ==
    ASSUME SessionInv, Response \/ BadResponse
    PROVE  SessionInv'
  <1>1. /\ proc # "closed" /\ pc \in Awaiting /\ error = "none"
        /\ conn \in [failed : Errors, allowExit : BOOLEAN, shutting : BOOLEAN,
                     ended : BOOLEAN, sealed : BOOLEAN, closed : BOOLEAN]
    BY DEF Response, BadResponse, Receiving, SessionInv, SessionPhases, SessionTyped,
           SessionTypeOK, Awaiting, Over
  <1>2. /\ UNCHANGED <<fixed, proc, stage, queue, tools, aborted, plan, begun, applied>>
    BY DEF Response, BadResponse
  <1>3. /\ conn' = conn \/ conn' = [conn EXCEPT !.allowExit = TRUE, !.shutting = TRUE]
        /\ output' = output \/ output' = <<>>
        /\ \/ accept' = accept /\ error' = error /\ pc' \in Awaiting \cup {"finishing"}
           \/ accept' = FALSE /\ error' = "protocol" /\ pc' = "cleanup"
    <2>1. CASE BadResponse
      BY <2>1 DEF BadResponse, Throw
    <2>2. CASE Response
      <3>1. CASE pc \in {"initialize", "new", "mode", "correct"}
        BY <2>2, <3>1 DEF Response, AdvanceTo, FinishSession, Awaiting
      <3>2. CASE pc = "prompt" /\ Trusted
        BY <2>2, <3>2 DEF Response, FinishSession
      <3>3. CASE pc = "prompt" /\ ~Trusted
        <4>1. EndRestricted
          BY <2>2, <3>3 DEF Response
        <4> QED BY <4>1 DEF EndRestricted, FinishSession, Throw, Awaiting
      <3> QED BY <2>2, <3>1, <3>2, <3>3 DEF Response, Awaiting
    <2> QED BY <2>1, <2>2
  <1>4. conn' \in [failed : Errors, allowExit : BOOLEAN, shutting : BOOLEAN,
                   ended : BOOLEAN, sealed : BOOLEAN, closed : BOOLEAN]
    BY <1>1, <1>3
  <1>5. SessionTypeOK'
    BY <1>2, <1>3, <1>4 DEF SessionInv, SessionTyped, SessionTypeOK, Errors, Awaiting
  <1>6. SessionTyped'
    BY <1>2, <1>3, <1>5, NoiseIsOutput DEF SessionInv, SessionTyped, fixed
  <1> QED BY <1>1, <1>2, <1>3, <1>6, FrameStepKeepsInv DEF Awaiting, Over, SessionInv, SessionTyped

LEMMA NotificationsKeepInv ==
    ASSUME SessionInv,
           \/ \E x \in Plans \cup {Noise} : MessageChunk(x)
           \/ \E t \in Tools, call \in BOOLEAN, s \in {"in_progress", "completed", "failed"} :
                 ToolUpdate(t, call, s)
    PROVE  SessionInv'
  <1>1. SessionTypeOK /\ {"protocol", "policy"} \subseteq Errors
    BY DEF SessionInv, SessionTyped, Errors
  <1>2. ASSUME NEW x \in Plans \cup {Noise}, MessageChunk(x) PROVE SessionInv'
    <2>1. /\ proc # "closed"
          /\ UNCHANGED <<fixed, pc, proc, stage, accept, aborted, error, plan, begun,
                         applied, tools>>
          /\ accept \/ UNCHANGED queue
          /\ output' = output \/ output' = Append(output, x)
          /\ \/ UNCHANGED <<conn, queue>>
             \/ conn' = Failed("protocol") /\ UNCHANGED queue
             \/ Enqueue(0) \/ Enqueue(1)
      BY <1>2 DEF MessageChunk, Receiving, Ignored
    <2>2. /\ queue' \in [pending : 0..Limit, failed : BOOLEAN]
          /\ conn' \in [failed : Errors, allowExit : BOOLEAN, shutting : BOOLEAN,
                        ended : BOOLEAN, sealed : BOOLEAN, closed : BOOLEAN]
      BY <1>1, <2>1, EnqueueKeepsType, FailedIsAConnection DEF SessionTypeOK
    <2>3. SessionTypeOK'
      BY <1>1, <2>1, <2>2 DEF SessionTypeOK
    <2>4. SessionTyped'
      BY <2>1, <2>3, NoiseIsOutput DEF SessionInv, SessionTyped, fixed
    <2> QED BY <2>1, <2>4, FrameStepKeepsInv
  <1>3. ASSUME NEW t \in Tools, NEW call \in BOOLEAN,
               NEW s \in {"in_progress", "completed", "failed"}, ToolUpdate(t, call, s)
        PROVE  SessionInv'
    <2>1. /\ proc # "closed"
          /\ UNCHANGED <<fixed, pc, proc, stage, accept, aborted, error, plan, begun, applied>>
          /\ accept \/ UNCHANGED queue
          /\ output' = output \/ output' = <<>>
          /\ tools' = tools \/ (Trusted /\ tools' = [tools EXCEPT ![t] = s])
          /\ \/ UNCHANGED <<conn, queue>>
             \/ conn' = Failed("protocol") /\ UNCHANGED queue
             \/ conn' = Failed("policy") /\ UNCHANGED queue
             \/ Enqueue(ToolEvents(t, s))
      BY <1>3 DEF ToolUpdate, Receiving, Ignored
    <2>2. ToolEvents(t, s) \in Nat
      BY DEF ToolEvents
    <2>3. /\ queue' \in [pending : 0..Limit, failed : BOOLEAN]
          /\ conn' \in [failed : Errors, allowExit : BOOLEAN, shutting : BOOLEAN,
                        ended : BOOLEAN, sealed : BOOLEAN, closed : BOOLEAN]
      BY <1>1, <2>1, <2>2, EnqueueKeepsType, FailedIsAConnection DEF SessionTypeOK
    <2>4. tools' \in [Tools -> {"none", "in_progress", "completed", "failed"}]
      BY <1>1, <2>1 DEF SessionTypeOK
    <2>5. SessionTypeOK'
      BY <1>1, <2>1, <2>3, <2>4 DEF SessionTypeOK
    <2>6. SessionTyped'
      BY <2>1, <2>5, NoiseIsOutput DEF SessionInv, SessionTyped, fixed
    <2> QED BY <2>1, <2>6, FrameStepKeepsInv
  <1> QED BY <1>2, <1>3

LEMMA OtherFramesKeepInv ==
    ASSUME SessionInv,
           \/ \E offered \in BOOLEAN : RequestPermission(offered)
           \/ \E e \in {"protocol", "io", "stderr"} : BadFrame(e)
    PROVE  SessionInv'
  <1>1. PICK e \in {"protocol", "io", "stderr"} :
           /\ proc # "closed"
           /\ UNCHANGED <<fixed, pc, proc, stage, accept, output, queue, tools, aborted,
                          error, plan, begun, applied>>
           /\ conn' = conn \/ conn' = Failed(e)
    <2>1. CASE \E offered \in BOOLEAN : RequestPermission(offered)
      BY <2>1 DEF RequestPermission, Receiving
    <2>2. CASE \E e \in {"protocol", "io", "stderr"} : BadFrame(e)
      BY <2>2 DEF BadFrame, Receiving
    <2> QED BY <2>1, <2>2
  <1>2. e \in Errors
    BY DEF Errors
  <1>3. SessionTypeOK'
    BY <1>1, <1>2, FailedIsAConnection DEF SessionInv, SessionTyped, SessionTypeOK
  <1>4. SessionTyped'
    BY <1>1, <1>3 DEF SessionInv, SessionTyped, fixed
  <1> QED BY <1>1, <1>4, FrameStepKeepsInv

LEMMA RequestsKeepInv ==
    ASSUME SessionInv, Started \/ Rejected
    PROVE  SessionInv'
  <1>1. /\ UNCHANGED <<fixed, conn, proc, stage, output, queue, tools, aborted, plan,
                       begun, applied>>
        /\ pc \in Awaiting \cup {"starting"}
        /\ \/ pc = "starting" /\ ~aborted /\ pc' = "initialize" /\ UNCHANGED <<error, accept>>
           \/ pc' = "cleanup" /\ accept' = FALSE /\ error' \in Errors \ {"none"}
    <2>1. CASE Started
      BY <2>1 DEF Started, Throw, Errors
    <2>2. CASE Rejected
      BY <2>2 DEF Rejected, Throw, SessionInv, SessionTyped, SessionTypeOK
    <2> QED BY <2>1, <2>2
  <1>2. SessionTypeOK'
    BY <1>1 DEF SessionInv, SessionTyped, SessionTypeOK, Awaiting
  <1>3. SessionTyped'
    BY <1>1, <1>2 DEF SessionInv, SessionTyped, fixed
  <1>4. SessionPhases'
    BY <1>1 DEF SessionInv, SessionPhases, Awaiting, Over, Trusted, fixed, Drained, ToolsComplete
  <1>5. ActionsWhole'
    BY <1>1 DEF SessionInv, ActionsWhole, Awaiting, Over
  <1>6. AbortHeard'
    BY <1>1 DEF SessionInv, AbortHeard, Awaiting, Over
  <1> QED BY <1>3, <1>4, <1>5, <1>6 DEF SessionInv

LEMMA EndOfProcessKeepsInv ==
    ASSUME SessionInv, ProcessExits \/ StreamsClose
    PROVE  SessionInv'
  <1>1. /\ proc # "closed" /\ proc' \in {"exited", "closed"}
        /\ UNCHANGED <<fixed, pc, stage, accept, output, queue, tools, aborted, error, plan,
                       begun, applied>>
        /\ conn' = conn \/ conn' = Failed("exited")
    BY DEF ProcessExits, StreamsClose
  <1>2. "exited" \in Errors
    BY DEF Errors
  <1>3. SessionTypeOK'
    BY <1>1, <1>2, FailedIsAConnection DEF SessionInv, SessionTyped, SessionTypeOK
  <1>4. SessionTyped'
    BY <1>1, <1>3 DEF SessionInv, SessionTyped, fixed
  <1>5. SessionPhases'
    BY <1>1, ReceivingIsEarly DEF SessionInv, SessionPhases, Trusted, fixed
  <1>6. ActionsWhole'
    BY <1>1, ReceivingIsEarly DEF SessionInv, ActionsWhole
  <1>7. AbortHeard'
    BY <1>1 DEF SessionInv, AbortHeard
  <1> QED BY <1>4, <1>5, <1>6, <1>7 DEF SessionInv

LEMMA PersistedKeepsInv ==
    ASSUME SessionInv, NEW ok \in BOOLEAN, Persisted(ok)
    PROVE  SessionInv'
  <1>1. /\ queue.pending > 0
        /\ queue' = [pending |-> queue.pending - 1, failed |-> queue.failed \/ ~ok]
        /\ UNCHANGED <<fixed, pc, proc, stage, output, tools, aborted, error, plan, begun,
                       applied>>
        /\ conn' = conn \/ conn' = Failed("persistence")
        /\ accept' = accept \/ accept' = FALSE
    BY DEF Persisted
  <1>2. "persistence" \in Errors
    BY DEF Errors
  <1>3. /\ queue.pending \in 0..Limit /\ queue.pending - 1 \in 0..Limit
        /\ queue' \in [pending : 0..Limit, failed : BOOLEAN]
    BY <1>1, SessionAssumption DEF SessionInv, SessionTyped, SessionTypeOK
  <1>4. SessionTypeOK'
    BY <1>1, <1>2, <1>3, FailedIsAConnection DEF SessionInv, SessionTyped, SessionTypeOK
  <1>5. SessionTyped'
    BY <1>1, <1>4 DEF SessionInv, SessionTyped, fixed
  <1>6. ~Drained
    BY <1>1 DEF Drained
  <1>7. SessionPhases'
    BY <1>1, <1>6, <1>3 DEF SessionInv, SessionPhases, Trusted, fixed
  <1>8. ActionsWhole'
    BY <1>1, <1>6 DEF SessionInv, ActionsWhole
  <1>9. AbortHeard'
    BY <1>1 DEF SessionInv, AbortHeard
  <1> QED BY <1>5, <1>7, <1>8, <1>9 DEF SessionInv

LEMMA AbortKeepsInv ==
    ASSUME SessionInv, AbortSession
    PROVE  SessionInv'
  <1>1. /\ UNCHANGED <<fixed, pc, proc, stage, output, queue, tools, error, plan, begun,
                       applied>>
        /\ aborted' = TRUE /\ pc # "returned"
        /\ conn' = conn \/ conn' = Failed("aborted")
        /\ IF Listening THEN accept' = FALSE ELSE accept' = accept
    BY DEF AbortSession
  <1>2. "aborted" \in Errors
    BY DEF Errors
  <1>3. SessionTypeOK'
    BY <1>1, <1>2, FailedIsAConnection DEF SessionInv, SessionTyped, SessionTypeOK
  <1>4. SessionTyped'
    BY <1>1, <1>3 DEF SessionInv, SessionTyped, fixed
  <1>5. SessionPhases'
    BY <1>1 DEF SessionInv, SessionPhases, Trusted, fixed, Drained, ToolsComplete
  <1>6. ActionsWhole'
    BY <1>1 DEF SessionInv, ActionsWhole, Drained, ToolsComplete
  <1>7. AbortHeard'
    BY <1>1 DEF SessionInv, AbortHeard, Listening, Over
  <1> QED BY <1>4, <1>5, <1>6, <1>7 DEF SessionInv

-----------------------------------------------------------------------------
(* Stopping the process *)

\* Succeeding, a stop leads from finishing to the drain, with the process
\* closed, and otherwise back to the caller.
LEMMA StoppedKeepsInv ==
    ASSUME SessionInv, SessionStopped, UNCHANGED unstopped,
           pc \in {"finishing", "stopping"}, pc = "finishing" => proc = "closed"
    PROVE  SessionInv'
  <1>1. /\ stage' = "none"
        /\ UNCHANGED <<fixed, proc, output, queue, tools, aborted, plan, begun, applied, error>>
        /\ \/ pc = "finishing" /\ pc' = "draining" /\ accept' = FALSE /\ UNCHANGED conn
           \/ /\ pc = "stopping" /\ pc' = "returned" /\ conn' = [conn EXCEPT !.closed = TRUE]
              /\ UNCHANGED accept
    BY DEF SessionStopped, unstopped
  <1>2. SessionTypeOK'
    BY <1>1 DEF SessionInv, SessionTyped, SessionTypeOK
  <1>3. SessionTyped'
    BY <1>1, <1>2 DEF SessionInv, SessionTyped, fixed
  <1>4. SessionPhases'
    BY <1>1 DEF SessionInv, SessionPhases, Trusted, fixed, Drained, ToolsComplete, Over
  <1>5. ActionsWhole'
    BY <1>1 DEF SessionInv, ActionsWhole, Drained, ToolsComplete, Over
  <1>6. AbortHeard'
    BY <1>1 DEF SessionInv, AbortHeard, Over
  <1> QED BY <1>3, <1>4, <1>5, <1>6 DEF SessionInv

LEMMA NotStoppedKeepsInv ==
    ASSUME SessionInv, NEW e \in Errors \ {"none"}, NotStopped(e), UNCHANGED unstopped,
           pc \in {"finishing", "stopping"}
    PROVE  SessionInv'
  <1>1. /\ stage' = "none"
        /\ UNCHANGED <<fixed, proc, output, queue, tools, aborted, plan, begun, applied>>
        /\ \/ /\ pc = "finishing" /\ pc' = "cleanup" /\ accept' = FALSE /\ UNCHANGED conn
              /\ error' = e
           \/ /\ pc = "stopping" /\ pc' = "returned" /\ conn' = [conn EXCEPT !.closed = TRUE]
              /\ UNCHANGED accept
              /\ error' = IF error = "none" THEN e ELSE error
    BY DEF NotStopped, Throw, unstopped
  <1>2. error' # "none" /\ error' \in Errors
    BY <1>1 DEF SessionInv, SessionTyped, SessionTypeOK
  <1>3. SessionTypeOK'
    BY <1>1, <1>2 DEF SessionInv, SessionTyped, SessionTypeOK
  <1>4. SessionTyped'
    BY <1>1, <1>3 DEF SessionInv, SessionTyped, fixed
  <1>5. SessionPhases'
    BY <1>1 DEF SessionInv, SessionPhases, Trusted, fixed, Drained, ToolsComplete, Over
  <1>6. ActionsWhole'
    BY <1>1, <1>2 DEF SessionInv, ActionsWhole, Over
  <1>7. AbortHeard'
    BY <1>1 DEF SessionInv, AbortHeard, Over
  <1> QED BY <1>4, <1>5, <1>6, <1>7 DEF SessionInv

\* A stop that goes on: only its stage moves.
LEMMA StageKeepsInv ==
    ASSUME SessionInv, UNCHANGED <<unstopped, pc, accept, error>>,
           conn' \in [failed : Errors, allowExit : BOOLEAN, shutting : BOOLEAN,
                      ended : BOOLEAN, sealed : BOOLEAN, closed : BOOLEAN],
           pc \in {"finishing", "stopping"},
           stage' \in {"none", "end", "grace", "term", "force"}
    PROVE  SessionInv'
  <1>1. SessionTypeOK'
    BY DEF SessionInv, SessionTyped, SessionTypeOK, unstopped
  <1>2. SessionTyped'
    BY <1>1 DEF SessionInv, SessionTyped, fixed, unstopped
  <1>3. SessionPhases'
    BY DEF SessionInv, SessionPhases, Trusted, fixed, Drained, ToolsComplete, unstopped
  <1>4. ActionsWhole'
    BY DEF SessionInv, ActionsWhole, Drained, ToolsComplete, unstopped
  <1>5. AbortHeard'
    BY DEF SessionInv, AbortHeard, unstopped
  <1> QED BY <1>2, <1>3, <1>4, <1>5 DEF SessionInv

LEMMA StoppingKeepsInv ==
    ASSUME SessionInv,
           \/ BeginStop \/ InputEnds \/ Closed \/ GraceEnds \/ OwnedStopped
           \/ \E ok \in BOOLEAN : OwnedStops(ok)
    PROVE  SessionInv'
  <1>1. stage # "none" => pc \in {"finishing", "stopping"}
    BY DEF SessionInv, SessionPhases
  <1>2. {"cleanup", "authority"} \subseteq Errors \ {"none"}
    BY DEF Errors
  <1> DEFINE connections ==
        [failed : Errors, allowExit : BOOLEAN, shutting : BOOLEAN,
         ended : BOOLEAN, sealed : BOOLEAN, closed : BOOLEAN]
  <1>0. /\ conn \in connections
        /\ [conn EXCEPT !.shutting = TRUE] \in connections
        /\ [conn EXCEPT !.ended = TRUE] \in connections
        /\ Failed("io") \in connections
        /\ [Failed("io") EXCEPT !.ended = TRUE] \in connections
    <2>1. conn \in connections
      BY DEF SessionInv, SessionTyped, SessionTypeOK
    <2>2. Failed("io") \in connections
      BY FailedIsAConnection DEF SessionInv, SessionTyped, Errors
    <2> QED BY <2>1, <2>2
  <1>3. CASE BeginStop
    <2>1. pc \in {"finishing", "stopping"} /\ UNCHANGED unstopped
      BY <1>3 DEF BeginStop, Stopping
    <2>2. CASE proc = "closed"
      BY <1>3, <2>1, <2>2, StoppedKeepsInv DEF BeginStop
    <2>3. CASE proc # "closed"
      BY <1>0, <1>3, <2>1, <2>3, StageKeepsInv DEF BeginStop
    <2> QED BY <2>2, <2>3
  <1>4. CASE InputEnds
    BY <1>0, <1>1, <1>4, StageKeepsInv DEF InputEnds
  <1>5. CASE Closed
    BY <1>1, <1>5, StoppedKeepsInv DEF Closed
  <1>6. CASE GraceEnds
    <2>1. CASE proc = "running" /\ stage # "force"
      BY <1>0, <1>1, <1>6, <2>1, StageKeepsInv DEF GraceEnds
    <2>2. CASE ~(proc = "running" /\ stage # "force")
      BY <1>1, <1>2, <1>6, <2>2, NotStoppedKeepsInv DEF GraceEnds
    <2> QED BY <2>1, <2>2
  <1>7. CASE OwnedStopped
    BY <1>7, StoppedKeepsInv DEF OwnedStopped
  <1>8. ASSUME NEW ok \in BOOLEAN, OwnedStops(ok) PROVE SessionInv'
    <2>1. CASE ok
      BY <1>8, <2>1, StoppedKeepsInv DEF OwnedStops
    <2>2. CASE ~ok
      BY <1>2, <1>8, <2>2, NotStoppedKeepsInv DEF OwnedStops
    <2> QED BY <2>1, <2>2
  <1> QED BY <1>3, <1>4, <1>5, <1>6, <1>7, <1>8

-----------------------------------------------------------------------------
(* The actions *)

\* A plan that is valid has one action that ends the work, or decides.
LEMMA ValidPlanHasOneEnding ==
    ASSUME NEW p \in Seq(STRING), ValidPlan(p)
    PROVE  OneEnding(p)
  <1> DEFINE E == {i \in DOMAIN p : p[i] \in TerminalActions \cup AttentionActions}
  <1>1. DOMAIN p = 1..Len(p) /\ Len(p) \in Nat
    OBVIOUS
  <1>2. \E k : E = {k}
    <2>1. CASE sessionCause = "attention"
      <3>1. Len(p) = 1 /\ p[1] \in AttentionActions
        BY <2>1 DEF ValidPlan
      <3>2. E = {1}
        BY <1>1, <3>1
      <3> QED BY <3>2
    <2>2. CASE sessionCause # "attention"
      <3>1. /\ Range(p) \cap AttentionActions = {}
            /\ {i \in DOMAIN p : p[i] \in TerminalActions} = {Len(p)}
        BY <2>2 DEF ValidPlan
      <3>2. \A i \in DOMAIN p : p[i] \notin AttentionActions
        BY <3>1 DEF Range
      <3>3. E = {i \in DOMAIN p : p[i] \in TerminalActions}
        BY <3>2
      <3> QED BY <3>1, <3>3
    <2> QED BY <2>1, <2>2
  <1>3. Cardinality(E) = 1
    BY <1>2, FS_Singleton
  <1> QED BY <1>3 DEF OneEnding

LEMMA SettleKeepsInv ==
    ASSUME SessionInv, SettleSession \/ SettleRefused
    PROVE  SessionInv'
  <1>1. /\ pc = "draining" /\ queue.pending = 0 /\ proc = "closed"
        /\ begun = 0 /\ applied = <<>> /\ error = "none" /\ stage = "none"
        /\ UNCHANGED <<fixed, proc, stage, output, queue, tools, aborted, begun, applied>>
    BY DEF SettleSession, SettleRefused, SessionInv, SessionPhases, Over
  <1>2. \/ /\ Accepts /\ pc' = "applying" /\ plan' = output[1]
           /\ conn' = [conn EXCEPT !.sealed = TRUE] /\ UNCHANGED <<error, accept>>
        \/ /\ pc' = "cleanup" /\ accept' = FALSE /\ UNCHANGED <<conn, plan>>
           /\ error' \in Errors \ {"none"}
    <2>1. conn.failed \in Errors /\ {"protocol", "persistence"} \subseteq Errors \ {"none"}
      BY DEF SessionInv, SessionTyped, SessionTypeOK, Errors
    <2>2. CASE SettleSession
      BY <2>1, <2>2 DEF SettleSession, Throw
    <2>3. CASE SettleRefused
      BY <2>1, <2>3 DEF SettleRefused, Throw
    <2> QED BY <2>2, <2>3
  <1>3. SessionTypeOK'
    BY <1>1, <1>2 DEF SessionInv, SessionTyped, SessionTypeOK, Errors
  <1>4. CASE /\ Accepts /\ pc' = "applying" /\ plan' = output[1]
             /\ conn' = [conn EXCEPT !.sealed = TRUE] /\ UNCHANGED <<error, accept>>
    <2>1. /\ output \in Seq(Plans \cup {Noise}) /\ Len(output) = 1 /\ output[1] # Noise
          /\ ValidPlan(output[1])
      BY <1>4 DEF Accepts, IsEnvelope, SessionInv, SessionTyped
    <2>2. output[1] \in Plans /\ output = <<output[1]>>
      BY <2>1
    <2>3. plan' \in Seq(STRING) /\ output = <<plan'>> /\ OneEnding(plan')
      BY <1>4, <2>1, <2>2, SessionAssumption, ValidPlanHasOneEnding
    <2>4. Drained
      <3>1. queue \in [pending : 0..Limit, failed : BOOLEAN] /\ ~queue.failed
        BY <1>4 DEF Accepts, SessionInv, SessionTyped, SessionTypeOK
      <3>2. queue = [pending |-> 0, failed |-> FALSE]
        BY <1>1, <3>1
      <3>3. ToolsComplete
        BY <1>4 DEF Accepts, ToolsComplete, SessionInv, SessionPhases
      <3> QED BY <1>1, <3>2, <3>3 DEF Drained
    <2>5. Drained'
      BY <1>1, <2>4 DEF Drained, ToolsComplete
    <2>6. SessionTyped'
      BY <1>1, <1>3, <1>4, <2>3 DEF SessionInv, SessionTyped, fixed
    <2>7. SessionPhases'
      BY <1>1, <1>4, <2>5 DEF SessionInv, SessionPhases, Trusted, fixed, Over
    <2>8. ActionsWhole'
      <3>1. OneEnding(plan)'
        BY <2>3 DEF OneEnding, TerminalActions, AttentionActions
      <3>2. Len(applied') = 0 /\ begun' = 0 /\ Len(plan') \in Nat
        BY <1>1, <2>3
      <3>3. output' = <<plan'>> /\ begun' <= Len(plan')
            /\ \A i \in 1..Len(applied') : applied'[i] = plan'[i]
        BY <1>1, <2>3, <3>2
      <3> QED BY <1>4, <2>5, <3>1, <3>3 DEF ActionsWhole, Over
    <2>9. AbortHeard'
      BY <1>1, <1>4 DEF SessionInv, AbortHeard, Over
    <2> QED BY <2>6, <2>7, <2>8, <2>9 DEF SessionInv
  <1>5. CASE /\ pc' = "cleanup" /\ accept' = FALSE /\ UNCHANGED <<conn, plan>>
             /\ error' \in Errors \ {"none"}
    <2>1. SessionTyped'
      BY <1>1, <1>3, <1>5 DEF SessionInv, SessionTyped, fixed
    <2>2. SessionPhases'
      BY <1>1, <1>5 DEF SessionInv, SessionPhases, Trusted, fixed, Over
    <2>3. ActionsWhole'
      BY <1>5 DEF ActionsWhole
    <2>4. AbortHeard'
      BY <1>5 DEF AbortHeard
    <2> QED BY <2>1, <2>2, <2>3, <2>4 DEF SessionInv
  <1> QED BY <1>2, <1>4, <1>5

LEMMA BeginActionKeepsInv ==
    ASSUME SessionInv, BeginAction
    PROVE  SessionInv'
  <1>1. /\ pc = "applying" /\ begun = Len(applied) /\ begun < Len(plan) /\ error = "none"
        /\ UNCHANGED <<fixed, conn, proc, stage, output, queue, tools, aborted, plan, applied>>
        /\ Drained /\ stage = "none" /\ Len(applied) \in Nat /\ Len(plan) \in Nat
    BY DEF BeginAction, SessionInv, SessionTyped, SessionPhases, ActionsWhole, Over
  <1>2. \/ pc' = "cleanup" /\ error' = "aborted" /\ accept' = FALSE /\ begun' = begun
        \/ begun' = begun + 1 /\ UNCHANGED <<pc, error, accept>>
    BY DEF BeginAction, Throw
  <1>3. Drained'
    BY <1>1 DEF Drained, ToolsComplete
  <1>4. SessionTypeOK'
    BY <1>1, <1>2 DEF SessionInv, SessionTyped, SessionTypeOK, Errors
  <1>5. SessionTyped'
    BY <1>1, <1>2, <1>4 DEF SessionInv, SessionTyped, fixed
  <1>6. SessionPhases'
    BY <1>1, <1>2, <1>3 DEF SessionInv, SessionPhases, Trusted, fixed, Over
  <1>7. ActionsWhole'
    <2>1. begun' <= Len(plan)
      BY <1>1, <1>2
    <2> QED BY <1>1, <1>2, <1>3, <2>1 DEF SessionInv, ActionsWhole, Over, OneEnding
  <1>8. AbortHeard'
    BY <1>1, <1>2 DEF SessionInv, AbortHeard, Over
  <1> QED BY <1>5, <1>6, <1>7, <1>8 DEF SessionInv

LEMMA EndActionKeepsInv ==
    ASSUME SessionInv, NEW ok \in BOOLEAN, EndAction(ok)
    PROVE  SessionInv'
  <1>1. /\ pc = "applying" /\ begun = Len(applied) + 1 /\ begun <= Len(plan) /\ error = "none"
        /\ UNCHANGED <<fixed, conn, proc, stage, output, queue, tools, aborted, plan, begun>>
        /\ Drained /\ stage = "none" /\ Len(applied) \in Nat /\ Len(plan) \in Nat
        /\ plan \in Seq(STRING) /\ applied \in Seq(STRING)
    BY DEF EndAction, SessionInv, SessionTyped, SessionPhases, ActionsWhole, Over
  <1>2. \/ pc' = "cleanup" /\ error' = "kernel" /\ accept' = FALSE /\ applied' = applied
        \/ applied' = Append(applied, plan[begun]) /\ UNCHANGED <<pc, error, accept>>
    BY DEF EndAction, Throw
  <1>3. plan[begun] \in STRING
    BY <1>1
  <1>4. /\ applied' \in Seq(STRING)
        /\ applied' # applied => Len(applied') = begun
        /\ begun \in {Len(applied'), Len(applied') + 1}
    BY <1>1, <1>2, <1>3
  <1>5. \A i \in 1..Len(applied) : applied[i] = plan[i]
    BY <1>1 DEF SessionInv, ActionsWhole
  <1>6. \A i \in 1..Len(applied') : applied'[i] = plan[i]
    <2>1. CASE applied' = Append(applied, plan[begun])
      <3>1. Len(applied') = Len(applied) + 1 /\ applied'[begun] = plan[begun]
            /\ \A i \in 1..Len(applied) : applied'[i] = applied[i]
        BY <1>1, <1>3, <2>1
      <3>2. \A i \in 1..Len(applied') : i \in 1..Len(applied) \/ i = begun
        BY <1>1, <3>1
      <3> QED BY <1>5, <3>1, <3>2
    <2>2. CASE applied' = applied
      BY <1>5, <2>2
    <2> QED BY <1>2, <2>1, <2>2
  <1>7. Drained'
    BY <1>1 DEF Drained, ToolsComplete
  <1>8. SessionTypeOK'
    BY <1>1, <1>2, <1>4 DEF SessionInv, SessionTyped, SessionTypeOK, Errors
  <1>9. SessionTyped'
    BY <1>1, <1>2, <1>4, <1>8 DEF SessionInv, SessionTyped, fixed
  <1>10. SessionPhases'
    BY <1>1, <1>2, <1>7 DEF SessionInv, SessionPhases, Trusted, fixed, Over
  <1>11. ActionsWhole'
    BY <1>1, <1>2, <1>6, <1>7 DEF SessionInv, ActionsWhole, Over, OneEnding
  <1>12. AbortHeard'
    BY <1>1, <1>2 DEF SessionInv, AbortHeard, Over
  <1> QED BY <1>9, <1>10, <1>11, <1>12 DEF SessionInv

LEMMA AllAppliedKeepsInv ==
    ASSUME SessionInv, AllApplied
    PROVE  SessionInv'
  <1>1. /\ pc = "applying" /\ Len(applied) = Len(plan) /\ error = "none"
        /\ pc' = "cleanup" /\ accept' = FALSE
        /\ UNCHANGED <<fixed, conn, proc, stage, output, queue, tools, aborted, error, plan,
                       begun, applied>>
        /\ Drained /\ stage = "none" /\ OneEnding(plan) /\ output = <<plan>>
        /\ \A i \in 1..Len(applied) : applied[i] = plan[i]
        /\ plan \in Seq(STRING) /\ applied \in Seq(STRING)
    BY DEF AllApplied, SessionInv, SessionTyped, SessionPhases, ActionsWhole, Over
  <1>2. applied = plan
    BY <1>1
  <1>3. Drained'
    BY <1>1 DEF Drained, ToolsComplete
  <1>4. SessionTypeOK'
    BY <1>1 DEF SessionInv, SessionTyped, SessionTypeOK
  <1>5. SessionTyped'
    BY <1>1, <1>4 DEF SessionInv, SessionTyped, fixed
  <1>6. SessionPhases'
    BY <1>1, <1>3 DEF SessionInv, SessionPhases, Trusted, fixed, Over
  <1>7. ActionsWhole'
    BY <1>1, <1>2, <1>3 DEF ActionsWhole, OneEnding
  <1>8. AbortHeard'
    BY <1>1 DEF AbortHeard
  <1> QED BY <1>5, <1>6, <1>7, <1>8 DEF SessionInv

LEMMA DrainLastKeepsInv ==
    ASSUME SessionInv, DrainLast
    PROVE  SessionInv'
  <1>1. /\ pc = "cleanup" /\ queue.pending = 0 /\ pc' = "stopping" /\ stage = "none"
        /\ error' \in {error, "persistence"} /\ (error' = "none" => error = "none")
        /\ UNCHANGED <<fixed, conn, proc, stage, accept, output, queue, tools, aborted, plan,
                       begun, applied>>
    BY DEF DrainLast, SessionInv, SessionPhases
  <1>2. SessionTypeOK'
    BY <1>1 DEF SessionInv, SessionTyped, SessionTypeOK, Errors
  <1>3. SessionTyped'
    BY <1>1, <1>2 DEF SessionInv, SessionTyped, fixed
  <1>4. SessionPhases'
    BY <1>1 DEF SessionInv, SessionPhases, Trusted, fixed, Over, Drained, ToolsComplete
  <1>5. ActionsWhole'
    BY <1>1 DEF SessionInv, ActionsWhole, Over, OneEnding, Drained, ToolsComplete
  <1>6. AbortHeard'
    BY <1>1 DEF SessionInv, AbortHeard, Over
  <1> QED BY <1>3, <1>4, <1>5, <1>6 DEF SessionInv

-----------------------------------------------------------------------------
(* The session, whole *)

LEMMA SessionInitInv ==
    ASSUME SessionInit
    PROVE  SessionInv
  <1>1. SessionTypeOK
    BY SessionAssumption DEF SessionInit, SessionTypeOK, Errors, Awaiting
  <1>2. SessionTyped
    <2>1. <<>> \in Seq(STRING)
      OBVIOUS
    <2> QED BY <1>1, <2>1, NoiseIsOutput DEF SessionInit, SessionTyped
  <1>3. SessionPhases
    BY DEF SessionInit, SessionPhases, Over
  <1>4. ActionsWhole
    BY DEF SessionInit, ActionsWhole, Over
  <1>5. AbortHeard
    BY DEF SessionInit, AbortHeard, Over
  <1> QED BY <1>2, <1>3, <1>4, <1>5 DEF SessionInv

LEMMA SessionStepKeepsInv ==
    ASSUME SessionInv, [SessionNext]_sessionVars
    PROVE  SessionInv'
  <1>1. CASE UNCHANGED sessionVars
    BY <1>1 DEF sessionVars, SessionInv, SessionTyped, SessionTypeOK, SessionPhases,
                ActionsWhole, AbortHeard, Drained, ToolsComplete, Trusted, OneEnding
  <1>2. CASE SessionNext
    <2>1. CASE Provider
      BY <2>1, ResponsesKeepInv, NotificationsKeepInv, OtherFramesKeepInv,
         EndOfProcessKeepsInv, StoppingKeepsInv DEF Provider, InputRead
    <2>2. CASE Adapter
      BY <2>2, RequestsKeepInv, StoppingKeepsInv, SettleKeepsInv, BeginActionKeepsInv,
         AllAppliedKeepsInv, DrainLastKeepsInv DEF Adapter, InputBroken
    <2>3. CASE Kernel
      BY <2>3, PersistedKeepsInv, EndActionKeepsInv DEF Kernel
    <2>4. CASE AbortSession \/ SettleRefused \/ \E ok \in BOOLEAN : OwnedStops(ok)
      BY <2>4, AbortKeepsInv, SettleKeepsInv, StoppingKeepsInv
    <2> QED BY <1>2, <2>1, <2>2, <2>3, <2>4 DEF SessionNext
  <1> QED BY <1>1, <1>2

LEMMA SessionInvIsSafe ==
    ASSUME SessionInv
    PROVE  SessionSafety
  <1>1. SessionTypeOK
    BY DEF SessionInv, SessionTyped
  <1>2. ActionsAfterStop
    BY DEF ActionsAfterStop, SessionInv, SessionPhases, Drained, ToolsComplete
  <1>3. SuccessIsWhole
    BY DEF SuccessIsWhole, SessionInv, ActionsWhole, Over, OneEnding
  <1>4. ReturnedIsQuiet
    BY DEF ReturnedIsQuiet, SessionInv, SessionPhases, ActionsWhole, Over, Drained
  <1> QED BY <1>1, <1>2, <1>3, <1>4 DEF SessionSafety

\* copilot-acp-adapter.ts, by itself: the invariant of a session, for any plans,
\* tools and limit, and any number of frames.
THEOREM SessionInvariant == SessionSpec => []SessionInv
  <1>1. SessionInit => SessionInv
    BY SessionInitInv
  <1>2. SessionInv /\ [SessionNext]_sessionVars => SessionInv'
    BY SessionStepKeepsInv
  <1> QED BY <1>1, <1>2, PTL DEF SessionSpec

\* Actions come after the process is gone and its activity persisted, a success
\* is one whole envelope, and what has returned is quiet.
THEOREM SessionSafetyHolds == SessionSpec => []SessionSafety
  <1>1. SessionInv => SessionSafety
    BY SessionInvIsSafe
  <1> QED BY <1>1, SessionInvariant, PTL

LEMMA AbortStops ==
    ASSUME SessionInv, [SessionNext]_sessionVars
    PROVE  aborted /\ Listening => saved' = saved /\ granted' = granted /\ begun' = begun
  <1> SUFFICES ASSUME aborted, Listening
               PROVE  saved' = saved /\ granted' = granted /\ begun' = begun
    OBVIOUS
  <1>1. ~accept
    BY DEF SessionInv, AbortHeard, Listening
  <1>2. CASE UNCHANGED sessionVars
    BY <1>2 DEF sessionVars
  <1>3. CASE Provider
    BY <1>1, <1>3 DEF Provider, Response, BadResponse, MessageChunk, ToolUpdate, Ignored,
       RequestPermission, BadFrame, ProcessExits, StreamsClose, InputRead, InputEnds, unstopped
  <1>4. CASE Adapter
    BY <1>4 DEF Adapter, Started, Rejected, BeginStop, InputBroken, InputEnds, Closed, GraceEnds,
       OwnedStopped, SettleSession, BeginAction, AllApplied, DrainLast, unstopped
  <1>5. CASE Kernel
    BY <1>5 DEF Kernel, Persisted, EndAction
  <1>6. CASE AbortSession \/ SettleRefused \/ \E ok \in BOOLEAN : OwnedStops(ok)
    BY <1>6 DEF AbortSession, SettleRefused, OwnedStops, unstopped
  <1> QED BY <1>2, <1>3, <1>4, <1>5, <1>6 DEF SessionNext

\* After the abort was heard nothing is persisted, granted or begun.
THEOREM NothingAfterAbortHolds == SessionSpec => NothingAfterAbort
  <1>1. SessionInv /\ [SessionNext]_sessionVars =>
          [aborted /\ Listening
             => saved' = saved /\ granted' = granted /\ begun' = begun]_sessionVars
    BY AbortStops
  <1> QED BY <1>1, SessionInvariant, PTL DEF SessionSpec, NothingAfterAbort

-----------------------------------------------------------------------------
(***************************************************************************)
(* Both, as they are checked together (MCProcesses): its steps are steps   *)
(* of the one or of the other, so what holds of each holds of the run.     *)
(***************************************************************************)

LEMMA StepsAreOfOne ==
    [Next]_vars => [ExecutionNext]_executionVars /\ [SessionNext]_sessionVars
  BY DEF Next, vars

LEMMA SpecSteps == Spec => Init /\ [][Next]_vars
  BY PTL DEF Spec

\* Whatever runs: what is recorded of a controlled process agrees with what
\* happened to it.
THEOREM ProcessesAreSafe == Spec => []ExecutionSafety
  <1>1. Init => ExecutionInv
    BY ExecutionInitInv DEF Init
  <1>2. ExecutionInv /\ [Next]_vars => ExecutionInv'
    BY StepsAreOfOne, ExecutionStepKeepsInv
  <1>3. ExecutionInv => ExecutionSafety
    BY ExecutionInvIsSafe
  <1> QED BY <1>1, <1>2, <1>3, SpecSteps, PTL

\* Whatever runs: the session's actions come last and whole.
THEOREM SessionsAreSafe == Spec => []SessionSafety
  <1>1. Init => SessionInv
    BY SessionInitInv DEF Init
  <1>2. SessionInv /\ [Next]_vars => SessionInv'
    BY StepsAreOfOne, SessionStepKeepsInv
  <1>3. SessionInv => SessionSafety
    BY SessionInvIsSafe
  <1> QED BY <1>1, <1>2, <1>3, SpecSteps, PTL

=============================================================================
