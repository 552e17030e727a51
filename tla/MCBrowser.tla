----------------------------- MODULE MCBrowser -----------------------------
(***************************************************************************)
(* Model-checking instance of the web client: what it shows                *)
(* (WebProjections) and the commands it gives (HumanCommands).  A          *)
(* behaviour moves one of them and leaves the other in an initial state.   *)
(* A behaviour of commands is about one entity, so that none of the four   *)
(* kinds multiplies the states of the others: two submissions with one     *)
(* disturbance by one Human, or one submission over the sessions of two.   *)
(***************************************************************************)
EXTENDS WebProjections, HumanCommands

CONSTANTS ann, bob

VARIABLE subject    \* what this behaviour is about

vars == <<projectionVars, commandVars, subject>>

Init ==
    /\ ProjectionInit
    /\ CommandInit
    /\ subject \in Ops \cup {"sessions", "projections"}
    /\ \A o \in Ops : o # subject => server.permits[o]

\* The step is about one entity.
About(o) ==
    /\ \A c \in window'.calls : c.op = o
    /\ server'.revision = [server.revision EXCEPT ![o] = server'.revision[o]]
    /\ server'.permits = [server.permits EXCEPT ![o] = server'.permits[o]]
    /\ window'.seen = [window.seen EXCEPT ![o] = window'.seen[o]]
    /\ window'.broken => o \in Controls
    /\ used'.reloads = 1 => o \in Controls

Disturbances == used'.faults + used'.moves + used'.reloads

Next ==
    \/ /\ subject \in Ops
       /\ CommandNext
       /\ About(subject)
       /\ Disturbances <= IF subject \in Pending THEN 2 ELSE 1
       /\ \A sid \in DOMAIN server'.owner : server'.owner[sid] = ann
       /\ Len(server'.owner) <= IF subject \in Pending THEN 1 ELSE 2
       /\ UNCHANGED <<projectionVars, subject>>
    \/ /\ subject = "sessions"
       /\ CommandNext
       /\ \E o \in Pending : About(o)
       /\ used'.submits <= 1
       /\ Disturbances = 0
       /\ UNCHANGED <<projectionVars, subject>>
    \/ /\ subject = "projections"
       /\ ProjectionNext
       /\ user' + failures' <= 2
       /\ UNCHANGED <<commandVars, subject>>

\* CommandFairness and ProjectionFairness, for what moves
Spec ==
    /\ Init
    /\ [][Next]_vars
    /\ WF_vars(subject = "sessions" /\ (\E c \in window.calls : RotationEnds(c))
               /\ UNCHANGED <<projectionVars, subject>>)
    /\ WF_vars(subject = "sessions" /\ Idle /\ Answering
               /\ UNCHANGED <<projectionVars, subject>>)
    /\ WF_vars(subject = "sessions" /\ Idle
               /\ (\E c \in window.calls : Arrive(c))
               /\ UNCHANGED <<projectionVars, subject>>)
    /\ WF_vars(subject = "projections" /\ Continue
               /\ UNCHANGED <<commandVars, subject>>)
    /\ WF_vars(subject = "projections" /\ ClientIdle /\ Network
               /\ UNCHANGED <<commandVars, subject>>)
    /\ WF_vars(subject = "projections" /\ ClientIdle
               /\ (\E k \in Keys : RetryDue(k))
               /\ UNCHANGED <<commandVars, subject>>)

\* A good session survives (KeepsAGoodSession), and every submission is
\* finally given an outcome (SubmissionsEnd).
CallsEnd ==
    /\ KeepsAGoodSession
    /\ subject = "sessions" /\ window.calls # {} ~> window.calls = {}
=============================================================================
