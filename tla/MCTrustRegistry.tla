-------------------------- MODULE MCTrustRegistry --------------------------
(* Two writers on two names; nothing orders the writers or the names.       *)
EXTENDS TrustRegistry, TLC

MCSymmetry == Permutations(Writers) \cup Permutations(Names)
=============================================================================
