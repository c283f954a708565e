------------------------- MODULE MCProofValidation -------------------------
(* Instances of ProofValidation for TLC: one access token, bound to the      *)
(* first of two keys, or none.                                               *)
EXTENDS ProofValidation, TLC

CONSTANTS k1, k2, a1

MCKeys == {k1, k2}
MCAccessTokens == {a1}
MCTokenKey == [a \in {a1} |-> k1]
MCTokenExp == [a \in {a1} |-> 2]

Symmetry == Permutations(Reqs) \cup Permutations(Jtis) \cup Permutations(Nonces)
=============================================================================
