------------------------------ MODULE MCPages ------------------------------
(***************************************************************************)
(* Model-checking instance of the Kernel's history (ProjectionHistory) and *)
(* of listings that are read page by page (ProjectionPages).  A behaviour  *)
(* is about one Run through all its commands, or about two Runs that are   *)
(* listed one by one while Agents work on them: by commands that each have *)
(* a correlation of their own, or that pass on the one that caused them.   *)
(***************************************************************************)
EXTENDS ProjectionPages

VARIABLE subject    \* what this behaviour is about

vars == <<pagesVars, subject>>

Alone == INSTANCE ProjectionHistory WITH
    Attentions <- {1}, Traced <- TRUE, MaxGeneration <- 2, MaxEvents <- 12

Tracing == INSTANCE ProjectionPages WITH Traced <- TRUE, MaxEvents <- 13

Init ==
    /\ listing = NoListing
    /\ \/ subject = "history" /\ Alone!HistoryInit
       \/ subject = "pages" /\ HistoryInit
       \/ subject = "traced pages" /\ Tracing!HistoryInit

Next ==
    /\ UNCHANGED subject
    /\ \/ subject = "history" /\ Alone!Command /\ UNCHANGED listing
       \/ subject = "pages" /\ PagesNext
       \/ subject = "traced pages" /\ Tracing!PagesNext

Spec == Init /\ [][Next]_vars

\* The past is told as it was, to whoever asks for it at once (SnapshotTellsThen),
\* and every listed Run comes once.
PastIsTold ==
    /\ HistoryTypeOK
    /\ SnapshotTellsThen
    /\ NeverTwice

\* Pages add up to the snapshot that the first one advertised, unless commands pass
\* their correlation on.
PagesAddUp ==
    subject = "pages" => ListingIsSnapshot /\ PagesShareSnapshot /\ NothingPassedOver
=============================================================================
