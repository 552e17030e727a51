--------------------------- MODULE ReportRegister ---------------------------
(***************************************************************************)
(* What report publication promises: a register that only grows.  A report *)
(* enters it once for its Run and key, and once for its Run and bytes,     *)
(* while the Run is at work and after the bytes are kept for good.         *)
(***************************************************************************)
VARIABLES
    reports,        \* records [run, key, content]
    kept,           \* contents that outlive a crash
    working         \* the Runs at work

registerVars == <<reports, kept, working>>

RegisterInit == reports = {} /\ kept = {}

Keep == kept \subseteq kept' /\ UNCHANGED <<reports, working>>

MoveOn == UNCHANGED <<reports, kept>>

Enter ==
    /\ reports \subseteq reports'
    /\ \E p \in reports' \ reports :
        /\ reports' = reports \cup {p}
        /\ p.run \in working
        /\ p.content \in kept
        /\ \A q \in reports :
              q.run = p.run => q.key # p.key /\ q.content # p.content
    /\ UNCHANGED <<kept, working>>

RegisterNext == Keep \/ MoveOn \/ Enter

RegisterSpec == RegisterInit /\ [][RegisterNext]_registerVars
=============================================================================
