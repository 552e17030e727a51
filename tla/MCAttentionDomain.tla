------------------------- MODULE MCAttentionDomain -------------------------
(* Model-checking instance of AttentionDomain: two Attentions compete. *)
EXTENDS AttentionDomain, TLC

AttentionSymmetry == Permutations(Attentions)
=============================================================================
