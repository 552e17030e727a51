------------------------------ MODULE MCKernel ------------------------------
(***************************************************************************)
(* Model-checking instance of the Kernel's commands: Messages, Attentions  *)
(* and Runs of a Channel (Collaboration) and the reports of Agents         *)
(* (ArtifactPublication).  A behaviour moves one of them and leaves the    *)
(* other in its initial state.  Collaboration is looked at in three        *)
(* circumstances, with the commands that one question is about: those that *)
(* make and end Runs, those that change a Thread, and those that are sent  *)
(* twice.                                                                  *)
(***************************************************************************)
EXTENDS Collaboration, ArtifactPublication, TLC

CONSTANTS h1, a1, a2, a3, idem, r1, k1, k2, d1, d2, c1, c2, x1

Symmetry ==
    Permutations({a1, a2}) \cup Permutations(ReportKeys) \cup Permutations(Contents)
    \cup Permutations(Calls)

\* What makes and ends Runs; and somebody opens the database with room for more.
Causes ==
    [targets |-> {{a1}, {a2}}, keys |-> {}, conditional |-> FALSE, worktrees |-> FALSE,
     sent |-> {"StartThread", "EditMessage", "CancelRun", "PublishRunReply", "CompleteRun",
               "ResolveAttentionWithRun"},
     wishes |-> {[depth |-> MaxDepth + 1, nonTerminal |-> MaxNonTerminal + 1]},
     messages |-> 3, edited |-> 1, revisions |-> 2, runs |-> 3]

\* What changes a Thread.
ThreadChanges ==
    [targets |-> {{}, {a3}}, keys |-> {}, conditional |-> FALSE, worktrees |-> FALSE,
     sent |-> {"StartThread", "ReplyToThread", "SendToRun", "EditMessage", "DeleteMessage",
               "CancelRun", "ResolveAttentionWithRun", "ResolveAttentionWithExistingRun",
               "IgnoreAttention"},
     wishes |-> {}, messages |-> 2, edited |-> 2, revisions |-> 3, runs |-> 1]

\* What callers send twice.
Retries ==
    [targets |-> {{a3}}, keys |-> {idem}, conditional |-> TRUE, worktrees |-> TRUE,
     sent |-> {"StartThread", "ReplyToThread", "PublishRunReply", "CompleteRun",
               "ResolveAttentionWithRun"},
     wishes |-> {}, messages |-> 3, edited |-> 0, revisions |-> 2, runs |-> 1]

KernelCircumstances == {Causes, ThreadChanges, Retries}

VARIABLE subject    \* what this behaviour is about

vars == <<collaborationVars, reportVars, subject>>

Init ==
    /\ CollaborationInit
    /\ ReportInit
    /\ subject \in {"commands", "reports", "reads"}
    /\ subject # "commands" => scene = Causes

\* Calls under way.
Busy == {c \in Calls : calls'[c].pc # "idle"}

Next ==
    \/ /\ subject = "commands"
       /\ CollaborationNext
       /\ UNCHANGED <<reportVars, subject>>
    \/ /\ \/ /\ subject = "reports"
             /\ ReportNext
             /\ reads' = reads
          \/ /\ subject = "reads"
             /\ ReportNext
             /\ Cardinality(Busy) <= 1 /\ Cardinality(artifacts') <= 1
       /\ UNCHANGED <<collaborationVars, subject>>

Spec == Init /\ [][Next]_vars

\* No command hides a change from a Thread's cursor, and no caller, report or read
\* is answered without authority.
StepsKeepAuthority ==
    /\ CollaborationSteps
    /\ ReportSteps
=============================================================================
