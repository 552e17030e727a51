--------------------------- MODULE ProjectionPages ---------------------------
(***************************************************************************)
(* A reader who lists the Runs of a Project page by page (ListRun-         *)
(* Projections in kernel.ts and projections.ts, behind the list routes of  *)
(* the server) while commands go on: the first page fixes a snapshot, the  *)
(* later ones give its event back, and after each page the event that      *)
(* created its last Run.                                                   *)
(*                                                                         *)
(* Both events are turned into positions by resolvePublicSnapshot, which   *)
(* takes the last event of the same correlation for the end of the         *)
(* command.  ListThreadProjections pages alike, by the creation of Threads. *)
(***************************************************************************)
EXTENDS ProjectionHistory

CONSTANT Limit      \* items of a page

ASSUME LimitAssumption == Limit \in Nat \ {0}

VARIABLE listing    \* what the reader asked for and was given

pagesVars == <<rows, log, history, was, listing>>

\* resolvePublicSnapshot for an event; 0 is null.
Boundary(event) ==
    IF event = 0 THEN 0 ELSE Max(Correlated(log, log[event].corr))

\* listRunProjections: Runs created after one event and no later than another.
Items(after, snapshot) ==
    {r \in Runs(rows) : rows[Run(r)].mark \in after + 1..snapshot}

Created(r) == rows[Run(r)].mark

\* The first Limit items in the order of their creation.
PageOf(items) ==
    {r \in items : Cardinality({o \in items : Created(o) < Created(r)}) < Limit}

\* The Run's part of a projection.
RunAt(r, snapshot) ==
    LET then == ProjectionAt(snapshot)
    IN  [k \in {k \in DOMAIN then : k[2] = r /\ k[1] # "Attention"} |-> then[k]]

NoListing == [status |-> "None", first |-> 0, asked |-> 0, snapshot |-> 0, after |-> 0,
              got |-> <<>>, again |-> FALSE]

\* A page is given back: what it holds, and how to ask for the next.
Page(l, event, snapshot) ==
    LET items == Items(Boundary(l.after), snapshot)
        page == PageOf(items)
    IN  [l EXCEPT !.status = IF page = items THEN "Done" ELSE "More",
                  !.asked = event,
                  !.snapshot = snapshot,
                  !.after = IF page = items THEN 0 ELSE Max({Created(r) : r \in page}),
                  !.got = [r \in page |-> RunAt(r, snapshot)] @@ l.got,
                  !.again = l.again \/ page \cap DOMAIN l.got # {}]

\* The first page: the snapshot is the latest event.
List ==
    /\ listing.status = "None"
    /\ listing' = Page([NoListing EXCEPT !.first = Len(log)], Len(log), Len(log))
    /\ UNCHANGED historyVars

\* A later page: the reader returns snapshotEventId and nextAfterEventId.
ListMore ==
    LET snapshot == Boundary(listing.asked)
    IN  /\ listing.status = "More"
        /\ listing' = IF Boundary(listing.after) > snapshot
                      THEN [listing EXCEPT !.status = "Refused"]
                      ELSE Page(listing, snapshot, snapshot)
        /\ UNCHANGED historyVars

Executes == Command /\ UNCHANGED listing

PagesInit == HistoryInit /\ listing = NoListing

PagesNext == Executes \/ List \/ ListMore

PagesSpec == PagesInit /\ [][PagesNext]_pagesVars

-----------------------------------------------------------------------------
(* Properties                                                              *)

\* No Run comes twice in a listing, however events and pages interleave.
NeverTwice == ~listing.again

\* A finished listing is the Project's Runs as they were when it began: none
\* is missing, none came later and none has changed since (apps/server README:
\* "`snapshot` from the first page is reused with `after` on later pages,
\* excluding concurrent creates and reconstructing mutable state at the
\* advertised snapshot").
ListingIsSnapshot ==
    listing.status = "Done" =>
        listing.got = [r \in Items(0, listing.first) |-> RunAt(r, listing.first)]

\* No page refuses the cursors the page before it handed out, and no Run of
\* the snapshot is passed over.
NothingPassedOver ==
    /\ listing.status # "Refused"
    /\ listing.status = "Done" => Items(0, listing.first) \subseteq DOMAIN listing.got

\* Later pages show the snapshot the first page advertised (kernel README:103,
\* "Later pages reuse that snapshot, so concurrent creates are excluded").
PagesShareSnapshot == listing.status \in {"More", "Done"} => listing.snapshot = listing.first

=============================================================================
