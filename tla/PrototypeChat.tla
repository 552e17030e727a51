--------------------------- MODULE PrototypeChat ---------------------------
(***************************************************************************)
(* The conversation of the chat prototype: App in prototype/src/App.tsx    *)
(* over the workstreams of PrototypeDomain.                                *)
(*                                                                         *)
(* React renders a click before the next event, so a click, the updates it *)
(* queues and the render that follows are one step.  The timer that ends a *)
(* delayed response only queues its updates: until the next render a click *)
(* runs the handlers of the screen as last rendered, "shown".  A domain    *)
(* function that throws inside an update takes the whole page down.        *)
(*                                                                         *)
(* Menus and dialogs are left out: what they offer is guarded like the     *)
(* buttons, from the same render.  Runs and reviews are PrototypeRuns.     *)
(***************************************************************************)
EXTENDS PrototypeDomain

CONSTANTS Demo,         \* the workstreams the page opens with
          MaxStreams,   \* bound: workstreams
          MaxMessages,  \* bound: messages of a workstream the human sends into
          MaxReplies,   \* bound: replies to a message
          MaxTasks,     \* bound: tasks of a workstream created by hand
          Focus         \* bound: messages the human opens, edits or promotes

VARIABLES product,   \* the workstreams, with every queued update applied
          current,   \* the selected one
          pendings,  \* per workstream: the response shown as being typed
          shown,     \* workstreams and responses as last rendered
          ref,       \* productRef: the workstreams a timer starts from
          timers,    \* per workstream: the response a timer will complete
          ui,        \* conversation, composer and thread pane
          crashed    \* a domain function threw during an update

chatVars == <<product, current, pendings, shown, ref, timers, ui, crashed>>

Streams == DOMAIN product

Here == product[current]

ShownHere == shown.product[current]

Typing == shown.pendings[current] # NoPending

ChatInit ==
  /\ product = Demo
  /\ current = 1
  /\ pendings = [i \in DOMAIN Demo |-> NoPending]
  /\ shown = [product |-> Demo, pendings |-> pendings]
  /\ ref = Demo
  /\ timers = pendings
  /\ ui = [agent |-> None, target |-> AllAgents, text |-> FALSE,
           editing |-> NoId, thread |-> NoId, reply |-> FALSE, opened |-> 0,
           reveal |-> NoId]
  /\ crashed = FALSE

(***************************************************************************)
(* A click ends in a render of everything queued so far.                   *)
(***************************************************************************)

Rendered ==
  /\ shown' = [product |-> product', pendings |-> pendings']
  /\ ref' = product'

Click(newUi) ==
  /\ ~crashed
  /\ ui' = newUi
  /\ Rendered

\* A click that changes the screen only.
Look(newUi) ==
  /\ UNCHANGED <<product, current, pendings, timers, crashed>>
  /\ Click(newUi)

\* A click that updates the selected workstream, if the update does not throw.
Update(allowed, new, newUi) ==
  /\ product' = IF allowed THEN [product EXCEPT ![current] = new] ELSE product
  /\ crashed' = ~allowed
  /\ UNCHANGED <<current, pendings, timers>>
  /\ Click(newUi)

OnScreen == {m \in Range(ShownHere.messages) : VisibleTo(m, ui.agent)}

Within(m) == m.id \in Focus

(***************************************************************************)
(* Moving between conversations.                                           *)
(***************************************************************************)

\* getComposerStateAfterConversationChange.
ComposerAfter(i, a) ==
  IF i = current /\ a = ui.agent THEN ui
  ELSE [ui EXCEPT !.text = FALSE, !.editing = NoId,
                  !.target = IF a = None THEN AllAgents ELSE a]

NoThread(u) == [u EXCEPT !.thread = NoId, !.reply = FALSE, !.opened = 0]

\* The message to reveal is found by the effect that follows the render.
Reveal(i, a, id, u) ==
  LET found == \E m \in Range(product[i].messages) : m.id = id /\ VisibleTo(m, a)
  IN  [u EXCEPT !.agent = a, !.reveal = IF found THEN NoId ELSE id]

Go(i, a, id) ==
  /\ current' = i
  /\ UNCHANGED <<product, pendings, timers, crashed>>
  /\ Click(Reveal(i, a, id, NoThread(ComposerAfter(i, a))))

\* Choosing a workstream, and navigating to a task, result, run or effect of
\* one: both open its shared conversation.
ChooseWorkstream(i) == Go(i, None, NoId)

ChooseAgent(a) == Go(current, a, NoId)

SetTarget(a) ==
  /\ a \in {None} \cup {b \in Names(ShownHere) : CanMessage(ShownHere, b)}
  /\ Go(current, a, NoId)

\* A search result or an activity item names a message of any workstream.
Navigate(i, m) ==
  /\ Within(m)
  /\ Go(i, MessageSelectedAgent(shown.product[i], m), m.id)

\* Creating a workstream leaves the thread pane as it is.
CreateWorkstream ==
  /\ Len(product) < MaxStreams
  /\ product' = Append(shown.product, Local)
  /\ current' = Len(shown.product) + 1
  /\ pendings' = Append(pendings, NoPending)
  /\ timers' = Append(timers, NoPending)
  /\ UNCHANGED crashed
  /\ Click([ComposerAfter(Len(shown.product) + 1, None) EXCEPT
              !.agent = None, !.reveal = NoId])

(***************************************************************************)
(* The composer.                                                           *)
(***************************************************************************)

\* The text area is disabled while the target cannot receive messages.
Type ==
  /\ ~ui.text
  /\ ui.editing # NoId \/ TargetAvailable(ShownHere, ui.target)
  /\ Look([ui EXCEPT !.text = TRUE])

BeginEdit(m) ==
  /\ m \in OnScreen /\ Within(m)
  /\ Editable(ShownHere, m.id)
  /\ Look([NoThread(ui) EXCEPT !.text = TRUE, !.editing = m.id])

\* The Cancel button, and Escape, which closes the thread too.
CancelEdit ==
  /\ ui.editing # NoId
  /\ Look([ui EXCEPT !.text = FALSE, !.editing = NoId])

Escape ==
  /\ ui.editing # NoId \/ ui.thread # NoId
  /\ Look(IF ui.editing = NoId THEN NoThread(ui)
          ELSE [NoThread(ui) EXCEPT !.text = FALSE, !.editing = NoId])

SaveEdit ==
  /\ ui.text /\ ui.editing # NoId
  /\ Update(Editable(Here, ui.editing), UpdateHumanMessage(Here, ui.editing),
            [ui EXCEPT !.text = FALSE, !.editing = NoId])

\* startAgentResponse works on the workstream as rendered and replaces it.
SendMessage ==
  /\ ui.text /\ ui.editing = NoId
  /\ TargetAvailable(ShownHere, ui.target)
  /\ ~Typing
  /\ Len(ShownHere.messages) < MaxMessages
  /\ product' = [product EXCEPT ![current] = StartAgentResponse(ShownHere, ui.target)]
  /\ pendings' = [pendings EXCEPT ![current] = PendingResponse(ShownHere, ui.target)]
  /\ timers' = [timers EXCEPT ![current] = PendingResponse(ShownHere, ui.target)]
  /\ UNCHANGED <<current, crashed>>
  /\ Click([ui EXCEPT !.text = FALSE])

\* Mutant: the timer works on the workstreams as last rendered.
CompleteResponseStale(i) ==
  LET next == [shown.product EXCEPT
                ![i] = CompleteAgentResponse(shown.product[i], timers[i])]
  IN  /\ ~crashed
      /\ timers[i] # NoPending
      /\ ref' = next
      /\ product' = next
      /\ pendings' = [pendings EXCEPT ![i] = NoPending]
      /\ timers' = [timers EXCEPT ![i] = NoPending]
      /\ UNCHANGED <<current, shown, ui, crashed>>

\* The timer reads and writes productRef, queues the new product and leaves
\* the render to a later turn.
CompleteResponse(i) ==
  LET next == [ref EXCEPT ![i] = CompleteAgentResponse(ref[i], timers[i])]
  IN  /\ ~crashed
      /\ timers[i] # NoPending
      /\ ref' = next
      /\ product' = next
      /\ pendings' = [pendings EXCEPT ![i] = NoPending]
      /\ timers' = [timers EXCEPT ![i] = NoPending]
      /\ UNCHANGED <<current, shown, ui, crashed>>

Render ==
  /\ shown # [product |-> product, pendings |-> pendings]
  /\ Look(ui)

(***************************************************************************)
(* Promotion, reactions and replies.                                       *)
(***************************************************************************)

\* A message being edited cannot be promoted.
Blocked(m) == ui.editing = m.id

PromoteToTask(m) ==
  /\ m \in OnScreen /\ Within(m) /\ ~Blocked(m)
  /\ m.author = "human"
  /\ CanCreateTask(ShownHere, m.id)
  /\ Update(CanCreateTask(Here, m.id), CreateTaskFromMessage(Here, m.id), ui)

PromoteToDecision(m) ==
  /\ m \in OnScreen /\ Within(m) /\ ~Blocked(m)
  /\ CanRecordDecision(ShownHere, m.id)
  /\ Update(CanRecordDecision(Here, m.id), RecordDecision(Here, m.id), ui)

CreateTask ==
  /\ Cardinality(DOMAIN Here.tasks) < MaxTasks
  /\ Update(TRUE, CreateLocalTask(Here), ui)

\* Only a reaction the message already has can be toggled.
React(m) ==
  /\ m \in OnScreen /\ Within(m)
  /\ m.reaction.count > 0
  /\ Update(TRUE, ToggleMessageReaction(Here, m.id), ui)

OpenThread(m) ==
  /\ m \in OnScreen /\ Within(m)
  /\ Look([ui EXCEPT !.thread = m.id, !.reply = FALSE, !.opened = current])

\* The pane is on screen when the workstream has a message of that id.
PaneOpen == ui.thread \in MessageIds(ShownHere)

CloseThread ==
  /\ PaneOpen
  /\ Look(NoThread(ui))

TypeReply ==
  /\ PaneOpen /\ ~ui.reply
  /\ Look([ui EXCEPT !.reply = TRUE])

SubmitReply ==
  /\ PaneOpen /\ ui.reply
  /\ MessageOf(ShownHere, ui.thread).replies < MaxReplies
  /\ Update(ui.thread \in MessageIds(Here), AppendThreadReply(Here, ui.thread),
            [ui EXCEPT !.reply = FALSE])

OnMessage(m) ==
  \/ BeginEdit(m)
  \/ PromoteToTask(m)
  \/ PromoteToDecision(m)
  \/ React(m)
  \/ OpenThread(m)

ChatNext ==
  \/ \E i \in DOMAIN shown.product : ChooseWorkstream(i)
  \/ \E a \in Names(ShownHere) \cup {None} : ChooseAgent(a) \/ SetTarget(a)
  \/ \E i \in DOMAIN shown.product :
        \E m \in Range(shown.product[i].messages) : Navigate(i, m)
  \/ \E m \in Range(ShownHere.messages) : OnMessage(m)
  \/ CreateWorkstream \/ CreateTask
  \/ Type \/ CancelEdit \/ Escape \/ SaveEdit \/ SendMessage
  \/ \E i \in Streams : CompleteResponse(i)
  \/ Render
  \/ CloseThread \/ TypeReply \/ SubmitReply

\* Timers fire and React renders what is queued.
ChatFairness ==
  /\ \A i \in 1..MaxStreams : WF_chatVars(i \in Streams /\ CompleteResponse(i))
  /\ WF_chatVars(Render)

ChatSpec == ChatInit /\ [][ChatNext]_chatVars

ChatFairSpec == ChatSpec /\ ChatFairness

(***************************************************************************)
(* Properties                                                              *)
(***************************************************************************)

ChatTypeOK ==
  /\ current \in Streams
  /\ DOMAIN pendings = Streams /\ DOMAIN timers = Streams
  /\ \A i \in Streams : timers[i] # NoPending => timers[i].responder \in Names(product[i])
  /\ ui.agent \in Names(Here) \cup {None}
  /\ ui.target \in Names(Here) \cup {AllAgents}

\* No click takes the page down: the guards of the screen, even one rendered
\* before a response came in, imply what the domain functions require.
NeverCrashes == ~crashed

\* The composer belongs to the conversation on screen: it addresses the Agent
\* of that conversation, and an open edit is of a human message that is
\* visible there, so saving it cannot fail (prepareConversationChange).
ComposerFits ==
  /\ ui.target = IF ui.agent = None THEN AllAgents ELSE ui.agent
  /\ ui.editing # NoId =>
        /\ Editable(Here, ui.editing)
        /\ VisibleTo(MessageOf(Here, ui.editing), ui.agent)

\* Navigation opens a conversation in which the message is visible.
RevealFound == ui.reveal = NoId

LocalBy(i, author) ==
  {k \in DOMAIN product[i].messages :
     /\ product[i].messages[k].author = author
     /\ product[i].messages[k].id[2] > 0}

\* Every message sent gets one response: it is either posted or a timer still
\* owes it, in the workstream it was sent from, whatever is selected.
AnsweredOnce ==
  \A i \in Streams :
     Cardinality(LocalBy(i, "human")) =
        Cardinality(LocalBy(i, "agent")) + (IF timers[i] # NoPending THEN 1 ELSE 0)

SeedAgents(i) == IF i \in DOMAIN Demo THEN Demo[i].agents ELSE Local.agents

\* With no response owed every Agent has the status it had before, and the
\* screen stops showing it as typing with the next render.
ResponderRestored ==
  \A i \in Streams :
     /\ timers[i] = NoPending => product[i].agents = SeedAgents(i)
     /\ pendings[i] = timers[i]

\* An open thread pane, with the reply being typed, is of the workstream it
\* was opened in.  prototype/README.md:47 has composer state conversation-local.
ThreadIsLocal == PaneOpen => ui.opened = current

\* Whatever timers and clicks interleave, no posted message, reply, task or
\* decision of any workstream is lost: a response that completes between two
\* renders neither overwrites nor is overwritten.  This is so as long as no workstream
\* is created: that sets the product of the last render, over what a timer added
\* since (App.tsx:3080 to 3083).
KeepsWhatIsPosted ==
  \A i \in Streams :
    /\ i \in DOMAIN product'
    /\ \A k \in DOMAIN product[i].messages :
          /\ k \in DOMAIN product'[i].messages
          /\ product'[i].messages[k].id = product[i].messages[k].id
          /\ product'[i].messages[k].replies >= product[i].messages[k].replies
    /\ DOMAIN product[i].tasks \subseteq DOMAIN product'[i].tasks
    /\ product[i].decisions \subseteq product'[i].decisions

\* A response shown as being typed ends.
NothingTyped ==
  \A i \in DOMAIN shown.pendings : crashed \/ shown.pendings[i] = NoPending

TypingEnds == []<>NothingTyped

\* Screen and conversations fit each other, whatever was clicked when.
ChatSafety ==
  /\ ChatTypeOK
  /\ NeverCrashes
  /\ ComposerFits
  /\ RevealFound

=============================================================================
