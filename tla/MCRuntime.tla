----------------------------- MODULE MCRuntime -----------------------------
(***************************************************************************)
(* Model-checking instance of the AgentRuntime: how it delivers the inputs *)
(* of a Run (DeliveryScenes), and how it finds the Attentions it           *)
(* dispatches.  The two are parts of one loop that share no state, so a    *)
(* behaviour moves one of them and leaves the other in its initial state.  *)
(***************************************************************************)
EXTENDS DeliveryScenes, AttentionDiscovery

\* So many Attentions are open when discovery begins.
MCWaiting == 4

vars == <<deliveryVars, discoveryVars, subject>>

Init ==
    /\ ScenesInit
    /\ DiscoveryInit
    /\ subject \in {"one host", "all hosts", "discovery"}
    /\ Cardinality({a \in Attentions : IsOpen(att[a])}) =
          IF subject = "discovery" THEN MCWaiting ELSE 0

Next ==
    \/ /\ ScenesNext
       /\ UNCHANGED <<discoveryVars, subject>>
    \/ /\ subject = "discovery"
       /\ DiscoveryNext
       /\ UNCHANGED <<deliveryVars, subject>>

\* DeliveryFairness and DiscoveryFairness, for what moves
Spec ==
    /\ Init
    /\ [][Next]_vars
    /\ WF_vars(Alone /\ HostStep(Host1)
               /\ UNCHANGED <<discoveryVars, scene, subject>>)
    /\ WF_vars(Alone /\ LeaseLapses
               /\ UNCHANGED <<discoveryVars, scene, subject>>)
    /\ WF_vars(subject = "discovery" /\ RuntimeStep
               /\ UNCHANGED <<deliveryVars, subject>>)
    /\ \A d \in Domains :
          WF_vars(subject = "discovery" /\ DispatchEnds(d)
                  /\ UNCHANGED <<deliveryVars, subject>>)
    /\ \A a \in Attentions :
          WF_vars(subject = "discovery" /\ HandlerLeaseLapses(a)
                  /\ UNCHANGED <<deliveryVars, subject>>)

\* Three Projects for a scheduler with room for two domains, one of which it
\* dispatches.  The third Project has two domains, of which one gives way to
\* the other, and more Attentions than a page.
MCProjects == {"p", "q", "r"}
MCProjectOrder == <<"p", "q", "r">>
MCProjectOf == [d \in {"d1", "e1", "f1", "f2"} |->
    IF d = "d1" THEN "p" ELSE IF d = "e1" THEN "q" ELSE "r"]
MCDomainOf == <<"d1", "e1", "f1", "f2", "f1">>

=============================================================================
