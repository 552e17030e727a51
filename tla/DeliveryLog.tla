---------------------------- MODULE DeliveryLog ----------------------------
(***************************************************************************)
(* What the outbox promises its consumers: facts are appended in commit    *)
(* order and delivered in that order, each at least once, and the consumed *)
(* facts are always an initial segment of the log.                         *)
(***************************************************************************)
EXTENDS Integers

VARIABLES
    appended,       \* how many facts the log holds
    consumed        \* the positions acknowledged, an initial segment of them

logVars == <<appended, consumed>>

LogInit == appended = 0 /\ consumed = {}

AppendFact == appended' = appended + 1 /\ UNCHANGED consumed

Consume ==
    /\ consumed' \in SUBSET (1..appended)
    /\ consumed \subseteq consumed'
    /\ \A i \in consumed' : 1..i \subseteq consumed'
    /\ UNCHANGED appended

LogNext == AppendFact \/ Consume

LogSpec == LogInit /\ [][LogNext]_logVars
=============================================================================
