--------------------------- MODULE DeliveryScenes ---------------------------
(***************************************************************************)
(* The delivery of a Run's inputs (RunDelivery) as it is looked at: with   *)
(* Hosts that may do their worst, and with one of which progress is        *)
(* expected; the latter also with an adapter that recognizes repeated      *)
(* requests and the only input withdrawn at any time.                      *)
(***************************************************************************)
EXTENDS RunDelivery

CONSTANT Host1      \* the Host that works alone

ASSUME Host1Assumption == Host1 \in Hosts

VARIABLE subject    \* what this behaviour is about

Alone == subject = "one host"

ScenesInit ==
    /\ DeliveryInit
    /\ scene.idempotent = scene.withdrawals
    /\ scene.idempotent => Alone

ScenesNext ==
    \/ /\ subject = "all hosts"
       /\ DeliveryNext
    \/ /\ Alone
       /\ DeliveryNext
       /\ \A h \in Hosts \ {Host1} : host'[h] = host[h]
       /\ scene.withdrawals => inputs'.count = 1

\* Behaviours about something else leave the delivery alone.
ScenesSpec ==
    ScenesInit /\ [][ScenesNext /\ UNCHANGED subject]_<<deliveryVars, subject>>

-----------------------------------------------------------------------------
(* Properties *)

\* DeliverySafety; and with one Host, an acknowledged event leaves no
\* ProviderAttempt open.  (With two it may: a Host that lost its lease can
\* finish the Activation of the other.)
DeliveryIsSafe == DeliverySafety /\ (Alone => AckedIsSettled)

\* EventsConsumed, of the Host that works alone: every announced input is
\* finally dealt with, over crashes and Provider failures.
EventsAreConsumed ==
    \A i \in 1..MaxInputs : Alone /\ inputs.count >= i ~> acked >= i

=============================================================================
