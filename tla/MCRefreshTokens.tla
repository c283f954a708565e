-------------------------- MODULE MCRefreshTokens --------------------------
(* Instances of RefreshTokens for TLC. *)
EXTENDS RefreshTokens, TLC

(* Values of each set are interchangeable: none of them is named by an       *)
(* action or a property.                                                     *)
Symmetry == Permutations(Reqs) \cup Permutations(Nodes)
            \cup Permutations(Jkts) \cup Permutations(Families)
            \cup Permutations(Tokens)

(* The same for a run with fairness, where TLC cannot use Symmetry.  The     *)
(* first token ever used is that of a session opened by OpenSession; of the  *)
(* behaviours that differ only in the names of that token, of its family and *)
(* of its key, one is explored.  No other action leads out of InOrder, and   *)
(* none that a fairness condition is about.                                  *)
First(S) == CHOOSE x \in S : TRUE
InOrder ==
  used # {} => /\ First(Tokens) \in used
               /\ row[First(Tokens)].fam = First(Families)
               /\ row[First(Tokens)].jkt = First(Jkts)
=============================================================================
