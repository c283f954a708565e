---------------------------- MODULE MCTwoFactor ----------------------------
(* Instances of TwoFactor for TLC. *)
EXTENDS TwoFactor, TLC

Symmetry == Permutations(Reqs) \cup Permutations(Secrets) \cup Permutations(Recovery)
=============================================================================
