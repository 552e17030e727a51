------------------------- MODULE AttentionDiscovery -------------------------
(***************************************************************************)
(* How a Runtime finds the Attentions it dispatches: the rounds of         *)
(* dispatchOpenAttentions and enqueueOpenAttentions of                     *)
(* packages/agent-runtime/src/runtime.ts, page by page over its Projects,  *)
(* each page pinned to the snapshot its listing began with, and started    *)
(* again where a full scheduler made it stop.  Other Hosts claim and       *)
(* decide Attentions, leases lapse and the Runtime fails meanwhile.        *)
(* Attentions are numbered in the order they are made.  Another Host       *)
(* claims each at most once.                                               *)
(***************************************************************************)
EXTENDS AttentionQueue

CONSTANTS
    ProjectOrder,   \* the Projects as the Set of the Runtime lists them
    PageSize,       \* ATTENTION_PAGE_SIZE
    Reserve,        \* ATTENTION_PROJECT_QUEUE_RESERVE
    Contended,      \* the Attentions other Hosts claim as well
    MaxInterruptions       \* bound: failed executions and restarts

Smaller(m, n) == IF m < n THEN m ELSE n
Larger(m, n) == IF m < n THEN n ELSE m

\* The limits dispatchOpenAttentions gives the scheduler
ASSUME DiscoveryAssumption ==
    /\ ToSet(ProjectOrder) = Projects
    /\ Len(ProjectOrder) = Cardinality(Projects)
    /\ BufferLimit = Concurrency * PageSize
    /\ ProjectLimit = Larger(1, Smaller(Concurrency + Reserve,
                                        BufferLimit \div Len(ProjectOrder)))
    /\ Contended \subseteq Attentions
    /\ MaxInterruptions \in Nat

VARIABLES
    att,        \* status and revision of every Attention
    cont,       \* attentionProjectDiscoveryContinuations
    offset,     \* attentionProjectOffset
    round,      \* "idle", "discover" or "drain"
    todo,       \* the listings of the round still to be continued
    pages,      \* the pages of the batch being offered, << >> if none
    places,     \* where their items still to be offered are
    leased,     \* leasedDomains of the round
    seen,       \* the revision an admitted Attention was listed with
    sched,      \* the scheduler of the round
    due,        \* what could be dispatched when the round began, with
                \* revisions, in the Projects listed from their beginning
    interruptions

runtimeVars == <<cont, offset, round, todo, pages, places, leased, seen,
                 sched, due>>
discoveryVars == <<att, cont, offset, round, todo, pages, places, leased, seen, sched,
          due, interruptions>>

\* No listing of the Project is under way.
Fresh == [after |-> 0, snap |-> << >>]

DiscoveryTypeOK ==
    /\ att \in [Attentions ->
                  [status : {"Future", "Open", "Leased", "Lapsed", "Decided"},
                   rev : Nat]]
    /\ DOMAIN cont = Projects
    /\ \A p \in Projects : cont[p].after \in Attentions \cup {0}
    /\ offset \in 1..Len(ProjectOrder)
    /\ round \in {"idle", "discover", "drain"}
    /\ leased \subseteq Domains
    /\ sched.active \subseteq DOMAIN sched.queue
    /\ due \subseteq [a : Attentions, rev : Nat]
    /\ interruptions \in 0..MaxInterruptions

\* A Runtime starts, and finds the Attentions that were made before.
DiscoveryInit ==
    /\ \E n \in 0..Len(DomainOf) :
          att = [a \in Attentions |->
                   [status |-> IF a <= n THEN "Open" ELSE "Future", rev |-> 0]]
    /\ cont = [p \in Projects |-> Fresh]
    /\ offset = 1
    /\ round = "idle"
    /\ todo = << >>
    /\ pages = << >>
    /\ places = << >>
    /\ leased = {}
    /\ seen = [a \in Attentions |-> 0]
    /\ sched = Empty
    /\ due = {}
    /\ interruptions = 0

-----------------------------------------------------------------------------
(* The Kernel *)

\* Status Open, whatever became of its lease
IsOpen(v) == v.status \in {"Open", "Leased", "Lapsed"}

\* hasEarlierOpenAttention
HasEarlier(a) ==
    \E b \in Attentions :
        b < a /\ DomainOf[b] = DomainOf[a] /\ IsOpen(att[b])

\* ListOpenAttentions: the Attentions of Project p that were Open in a
\* snapshot, after a cursor
Listed(p, snap, after) ==
    SelectSeq([a \in Attentions |-> a],
              LAMBDA a : /\ ProjectOf[DomainOf[a]] = p
                         /\ a > after
                         /\ IsOpen(snap[a]))

Page(items) == SubSeq(items, 1, Smaller(PageSize, Len(items)))

\* Mutant: the clock is not asked about a lease that is shown.
LeaseShownForever(a, snap) == snap[a].status \in {"Leased", "Lapsed"}

\* The lease a listed Attention shows has not run out by now.
LeaseShown(a, snap) ==
    /\ snap[a].status = "Leased"
    /\ \/ att[a] = snap[a]
       \/ att[a] = [status |-> "Decided", rev |-> snap[a].rev + 1]

-----------------------------------------------------------------------------
(* Discovery *)

\* Where each Project's listing goes on, beginning with Project offset.
StartRound ==
    LET n == Len(ProjectOrder)
        index(i) == ((offset + i - 2) % n) + 1
    IN  /\ round = "idle"
        /\ round' = "discover"
        /\ todo' = [i \in 1..n |->
                      [project |-> ProjectOrder[index(i)], index |-> index(i),
                       from |-> cont[ProjectOrder[index(i)]]]]
        /\ leased' = {}
        /\ sched' = Empty
        /\ due' = {[a |-> a, rev |-> att[a].rev] :
                      a \in {b \in Attentions :
                               /\ att[b].status \in {"Open", "Lapsed"}
                               /\ ~HasEarlier(b)
                               /\ cont[ProjectOf[DomainOf[b]]] = Fresh}}
        /\ UNCHANGED <<att, cont, offset, pages, places, seen, interruptions>>

\* One page for each Project of a batch: the listings that are continued, with
\* the snapshot they are pinned to
Pages ==
    [i \in 1..Smaller(Concurrency, Len(todo)) |->
        LET t == todo[i]
            snap == IF t.from = Fresh THEN att ELSE t.from.snap
            items == Listed(t.project, snap, t.from.after)
        IN  [project |-> t.project, index |-> t.index, after |-> t.from.after,
             snap |-> snap, items |-> Page(items),
             more |-> Len(items) > PageSize]]

\* The items of all pages: the first of each, then the second of each...
Interleaved(listed) ==
    LET at(n) == [page |-> ((n - 1) % Len(listed)) + 1,
                  item |-> ((n - 1) \div Len(listed)) + 1]
        all == [n \in 1..(Len(listed) * PageSize) |-> at(n)]
    IN  SelectSeq(all, LAMBDA x : x.item <= Len(listed[x.page].items))

\* The pages of a batch arrive.  Until their items have been offered they are
\* what the next round would list again.
ListBatch ==
    /\ round = "discover"
    /\ pages = << >>
    /\ todo # << >>
    /\ pages' = Pages
    /\ places' = Interleaved(pages')
    /\ todo' = SubSeq(todo, Len(pages') + 1, Len(todo))
    /\ cont' = [p \in Projects |->
          IF \E i \in DOMAIN pages' : pages'[i].project = p
          THEN LET page == CHOOSE q \in ToSet(pages') : q.project = p
               IN  [after |-> page.after, snap |-> page.snap]
          ELSE cont[p]]
    /\ UNCHANGED <<att, offset, round, leased, seen, sched, due, interruptions>>

NextPage == pages[Head(places).page]
NextItem == NextPage.items[Head(places).item]
Crowded == Cardinality(leased) >= Concurrency * PageSize

\* The next item is not for this round: its own lease is live, or it comes
\* after one of the same domain with a live lease.  Once too many such domains
\* are known, the Kernel is asked.
PassOver ==
    LET d == DomainOf[NextItem]
    IN  /\ places # << >>
        /\ \/ /\ LeaseShown(NextItem, NextPage.snap)
              /\ leased' = IF Crowded THEN leased ELSE leased \cup {d}
           \/ /\ ~LeaseShown(NextItem, NextPage.snap)
              /\ d \in leased \/ (Crowded /\ HasEarlier(NextItem))
              /\ UNCHANGED leased
        /\ places' = Tail(places)
        /\ UNCHANGED <<att, cont, offset, round, todo, pages, seen, sched, due,
                       interruptions>>

\* The next item is offered to the scheduler.  If that has no room at all, the
\* round ends, and the next one begins with this Project.
OfferItem ==
    LET d == DomainOf[NextItem]
    IN  /\ places # << >>
        /\ ~LeaseShown(NextItem, NextPage.snap)
        /\ ~(d \in leased \/ (Crowded /\ HasEarlier(NextItem)))
        /\ seen' = [seen EXCEPT ![NextItem] = NextPage.snap[NextItem].rev]
        /\ \E r \in Enqueue(sched, NextItem) :
              /\ sched' = r.s
              /\ IF r.admission = "global-full"
                 THEN /\ offset' = NextPage.index
                      /\ round' = "drain"
                      /\ todo' = << >>
                      /\ pages' = << >>
                      /\ places' = << >>
                 ELSE /\ places' = Tail(places)
                      /\ UNCHANGED <<offset, round, todo, pages>>
        /\ UNCHANGED <<att, cont, leased, due, interruptions>>

\* Where the listing of a page goes on once all its items were offered
After(page) == IF page.more THEN [after |-> Last(page.items),
                                  snap |-> page.snap]
               ELSE Fresh

\* All items were offered, and listings with more pages go on.
EndBatch ==
    LET onward == SelectSeq(pages, LAMBDA page : page.more)
    IN  /\ pages # << >>
        /\ places = << >>
        /\ cont' = [p \in Projects |->
              IF \E i \in DOMAIN pages : pages[i].project = p
              THEN After(CHOOSE q \in ToSet(pages) : q.project = p)
              ELSE cont[p]]
        /\ todo' = todo \o [i \in DOMAIN onward |->
                                [project |-> onward[i].project,
                                 index |-> onward[i].index,
                                 from |-> After(onward[i])]]
        /\ pages' = << >>
        /\ UNCHANGED <<att, offset, round, places, leased, seen, sched, due,
                       interruptions>>

StopDiscovery ==
    /\ round = "discover"
    /\ todo = << >>
    /\ pages = << >>
    /\ round' = "drain"
    /\ UNCHANGED <<att, cont, offset, todo, pages, places, leased, seen, sched,
                   due, interruptions>>

-----------------------------------------------------------------------------
(* dispatchAttention of the Attention retained in domain d *)

ClaimAttention(a, status) ==
    att' = [att EXCEPT ![a] = [status |-> status, rev |-> @.rev + 1]]

\* Nothing else runs while the items of a batch are offered.
Finish(d, result) ==
    /\ places = << >>
    /\ sched' = Ran(sched, d, result)
    /\ seen' = [seen EXCEPT ![sched.queue[d]] = 0]
    /\ UNCHANGED <<cont, offset, round, todo, pages, places, leased, due>>

\* An earlier Attention is open, or another Host is at work on this one.
Blocked(d) ==
    LET a == sched.queue[d]
    IN  /\ d \in sched.active
        /\ HasEarlier(a) \/ att[a].status = "Leased"
        /\ Finish(d, "blocked")
        /\ UNCHANGED <<att, interruptions>>

Claimable(d) ==
    LET a == sched.queue[d]
    IN  /\ d \in sched.active
        /\ ~HasEarlier(a)
        /\ att[a].status \in {"Open", "Lapsed"}
        /\ att[a].rev = seen[a]

\* The Attention moved on since it was listed.
Retried(d) ==
    LET a == sched.queue[d]
    IN  /\ d \in sched.active
        /\ ~HasEarlier(a)
        /\ att[a].status # "Leased"
        /\ att[a].rev # seen[a]
        /\ Finish(d, "retry")
        /\ UNCHANGED <<att, interruptions>>

\* The Provider decided.
Dispatched(d) ==
    /\ Claimable(d)
    /\ ClaimAttention(sched.queue[d], "Decided")
    /\ Finish(d, "dispatched")
    /\ UNCHANGED interruptions

Interrupted == interruptions < MaxInterruptions /\ interruptions' = interruptions + 1

\* The lease was too short to ask the Provider, and nothing was decided.
NotStarted(d) ==
    /\ Claimable(d)
    /\ Interrupted
    /\ ClaimAttention(sched.queue[d], "Leased")
    /\ Finish(d, "blocked")

\* The Provider failed after the claim.
DispatchFails(d) ==
    /\ Claimable(d)
    /\ Interrupted
    /\ ClaimAttention(sched.queue[d], "Leased")
    /\ Finish(d, "error")

NewRuntime ==
    /\ cont' = [p \in Projects |-> Fresh]
    /\ offset' = 1
    /\ todo' = << >>
    /\ pages' = << >>
    /\ places' = << >>
    /\ leased' = {}
    /\ seen' = [a \in Attentions |-> 0]
    /\ sched' = Empty
    /\ round' = "idle"
    /\ due' = {}

\* drain, at the end of a round.  A failure rejects the pass, and the Host
\* starts over with a new Runtime.
EndRound ==
    /\ round = "drain"
    /\ sched.buffered = 0
    /\ IF sched.failed THEN NewRuntime
       ELSE /\ round' = "idle"
            /\ sched' = Empty
            /\ due' = {}
            /\ UNCHANGED <<cont, offset, todo, pages, places, leased, seen>>
    /\ UNCHANGED <<att, interruptions>>

RuntimeCrash ==
    /\ Interrupted
    /\ NewRuntime
    /\ UNCHANGED att

-----------------------------------------------------------------------------
(* People and other Hosts *)

Arrive ==
    /\ \E a \in Attentions :
          /\ att[a].status = "Future"
          /\ \A b \in Attentions : b < a => att[b].status # "Future"
          /\ att' = [att EXCEPT ![a].status = "Open"]
    /\ UNCHANGED <<runtimeVars, interruptions>>

OtherClaims(a) ==
    /\ a \in Contended
    /\ att[a] = [status |-> "Open", rev |-> 0]
    /\ ~HasEarlier(a)
    /\ ClaimAttention(a, "Leased")
    /\ UNCHANGED <<runtimeVars, interruptions>>

OtherDecides(a) ==
    /\ att[a].status = "Leased"
    /\ ClaimAttention(a, "Decided")
    /\ UNCHANGED <<runtimeVars, interruptions>>

HandlerLeaseLapses(a) ==
    /\ att[a].status = "Leased"
    /\ att' = [att EXCEPT ![a].status = "Lapsed"]
    /\ UNCHANGED <<runtimeVars, interruptions>>

DispatchEnds(d) ==
    \/ Blocked(d)
    \/ Retried(d)
    \/ Dispatched(d)
    \/ NotStarted(d)
    \/ DispatchFails(d)

RuntimeStep ==
    \/ StartRound \/ ListBatch \/ PassOver \/ OfferItem \/ EndBatch
    \/ StopDiscovery \/ EndRound

DiscoveryNext ==
    \/ RuntimeStep
    \/ \E d \in Domains : DispatchEnds(d)
    \/ RuntimeCrash
    \/ Arrive
    \/ \E a \in Attentions :
          OtherClaims(a) \/ OtherDecides(a) \/ HandlerLeaseLapses(a)

\* The Host runs passes over and over, executions end and leases lapse.
DiscoveryFairness ==
    /\ WF_discoveryVars(RuntimeStep)
    /\ \A d \in Domains : WF_discoveryVars(DispatchEnds(d))
    /\ \A a \in Attentions : WF_discoveryVars(HandlerLeaseLapses(a))

DiscoverySpec ==
    /\ DiscoveryInit
    /\ [][DiscoveryNext]_discoveryVars
    /\ DiscoveryFairness

-----------------------------------------------------------------------------
(* Properties *)

\* A round that tells its caller to stop (nothing dispatched, nothing
\* deferred) has overlooked nothing in the Projects it listed from their
\* beginning: whatever could be dispatched there when it began was claimed or
\* decided by somebody else.  Of a Project whose listing it only continued it
\* says nothing: a lease that lapsed before the cursor is left to a later pass.
QuietMeansDone ==
    /\ round = "drain"
    /\ sched.buffered = 0 /\ ~sched.failed
    /\ sched.dispatched = 0 /\ sched.deferred = 0
    => \A x \in due : att[x.a].rev > x.rev

\* Again and again no Attention is left open: each is decided in the end,
\* however the pages are cut, whatever is evicted, whichever Projects crowd the
\* scheduler and whatever leases lapse.
EveryAttentionDecided ==
    []<>(\A a \in Attentions : ~IsOpen(att[a]))

\* No worker of the scheduler idles while a domain waits: whatever is retained
\* and not being dispatched will be found by the next pump, and every worker is
\* busy.
NoLostWakeup ==
    \A d \in DOMAIN sched.queue \ sched.active :
        /\ d \in ToSet(sched.ready[ProjectOf[d]])
        /\ ProjectOf[d] \in ToSet(sched.projects)
        /\ Cardinality(sched.active) = Concurrency

\* The scheduler's counters agree with what it retains, over evictions and ends
\* in any order, and stay within the limits.
CountersAgree ==
    /\ sched.buffered = Cardinality(DOMAIN sched.queue)
    /\ sched.buffered <= BufferLimit
    /\ \A p \in Projects :
          /\ sched.retained[p] =
                Cardinality({d \in DOMAIN sched.queue : ProjectOf[d] = p})
          /\ sched.retained[p] <= ProjectLimit

\* Discovery at any time, whatever other Hosts claim and decide meanwhile: its
\* scheduler keeps its books and its workers busy, and a round that says there
\* is nothing to do is right.
DiscoverySafety ==
    /\ DiscoveryTypeOK
    /\ NoLostWakeup
    /\ CountersAgree
    /\ QuietMeansDone

=============================================================================
