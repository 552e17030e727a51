---------------------------- MODULE MCPrototype ----------------------------
(***************************************************************************)
(* Model-checking instance of the chat prototype: durable work in one of   *)
(* the demo's workstreams (PrototypeRuns) and the conversations of the     *)
(* page (PrototypeChat).  A behaviour moves one of them and leaves the     *)
(* other in an initial state.  Conversations are looked at three times:    *)
(* with everything that can be done to a message, with several messages    *)
(* to answer, and with a workstream that is created.                       *)
(***************************************************************************)
EXTENDS PrototypeRuns, PrototypeChat

MCSeeds == Range(DemoProduct)

\* The onboarding workstream alone: a smaller page for longer conversations.
Onboarding == <<DemoProduct[2]>>

\* A human message of the demo, and an Agent's message with a reaction.
MCFocus == {Seed("followup"), Seed("resume")}

\* A message the human promotes between sends.
Replied == {Seed("empty-state")}

\* The first message sent in the onboarding workstream.
FirstSent == {<<"human", 4>>}

Sends == INSTANCE PrototypeChat WITH
    MaxMessages <- 7, MaxReplies <- 0, MaxTasks <- 0, Focus <- Replied

Creates == INSTANCE PrototypeChat WITH
    Demo <- Onboarding, MaxReplies <- 0, MaxTasks <- 0, Focus <- FirstSent

VARIABLE subject    \* what this behaviour is about

vars == <<workflowVars, chatVars, subject>>

Init ==
    /\ WorkflowInit
    /\ \/ subject \in {"messages", "sends"} /\ ChatInit /\ seed = DemoProduct[1]
       \/ subject = "creates" /\ Creates!ChatInit /\ seed = DemoProduct[1]
       \/ subject = "work" /\ ChatInit

Chats == UNCHANGED <<workflowVars, subject>>

Next ==
    \/ subject = "work" /\ WorkflowNext /\ Cardinality(locks') <= 1 /\ UNCHANGED <<chatVars, subject>>
    \/ subject = "messages" /\ ChatNext /\ Chats
    \/ subject = "sends" /\ Sends!ChatNext /\ Chats
    \/ subject = "creates" /\ Creates!ChatNext /\ Chats

\* ChatFairness, where several messages are to be answered
Spec ==
    /\ Init
    /\ [][Next]_vars
    /\ \A i \in 1..MaxStreams :
          WF_vars(subject = "sends" /\ i \in Streams /\ CompleteResponse(i) /\ Chats)
    /\ WF_vars(subject = "sends" /\ Render /\ Chats)

\* WorkflowSafety and ChatSafety; and unless a workstream is created, from what was
\* last rendered, every message is answered once, its responder restored and the
\* thread pane local (AnsweredOnce, ResponderRestored, ThreadIsLocal).
PrototypeIsSound ==
    /\ subject = "work" => WorkflowSafety
    /\ subject # "work" => ChatSafety
    /\ subject \in {"messages", "sends"} =>
          AnsweredOnce /\ ResponderRestored /\ ThreadIsLocal

\* No step rewrites what is done (HistoryKept, ResponseIsConversation) or, unless a
\* workstream is created, from what was last rendered, loses what is posted
\* (KeepsWhatIsPosted); and responses end (TypingEnds).
WorkGoesOn ==
    /\ [][/\ subject = "work" => KeepsHistory /\ OnlyConverses
          /\ subject \in {"messages", "sends"} => KeepsWhatIsPosted]_vars
    /\ []<>(subject = "sends" => NothingTyped)
=============================================================================
