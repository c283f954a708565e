-------------------------- MODULE SessionFamilies --------------------------
(***************************************************************************)
(* What refresh-token rotation promises, without transactions, locks,      *)
(* caches, nodes or clients.  A session is a token family.  It has at most *)
(* one live token, its head.  A rotation replaces the head by a token that *)
(* was never a head of any family before, a revocation removes it, and a   *)
(* family without a head never gets one again.                             *)
(***************************************************************************)
CONSTANTS Families, Tokens, None

VARIABLES
  head,      \* head[f]: the live token of family f, or None
  opened,    \* the families that were ever opened
  past       \* the tokens that are or were the head of a family

absVars == <<head, opened, past>>

AbsInit ==
  /\ head = [f \in Families |-> None]
  /\ opened = {}
  /\ past = {}

(* A login or a registration opens a family. *)
Open(f, t) ==
  /\ f \notin opened
  /\ t \notin past
  /\ head' = [head EXCEPT ![f] = t]
  /\ opened' = opened \cup {f}
  /\ past' = past \cup {t}

(* The live token is exchanged for a token never seen before. *)
Rotate(f, t) ==
  /\ head[f] # None
  /\ t \notin past
  /\ head' = [head EXCEPT ![f] = t]
  /\ past' = past \cup {t}
  /\ UNCHANGED opened

(* A logout, a detected reuse or a bulk revocation ends some sessions. *)
Kill(F) ==
  /\ head' = [f \in Families |-> IF f \in F THEN None ELSE head[f]]
  /\ UNCHANGED <<opened, past>>

AbsNext ==
  \/ \E f \in Families, t \in Tokens : Open(f, t) \/ Rotate(f, t)
  \/ \E F \in SUBSET Families : Kill(F)

AbsSpec == AbsInit /\ [][AbsNext]_absVars
=============================================================================
