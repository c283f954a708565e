------------------------------ MODULE MCWebApp ------------------------------
(* Tabs of one browser against the server, for TLC.  Tabs, call slots, keys  *)
(* and e-mail addresses are interchangeable, and the run checks no liveness. *)
EXTENDS WebApp, TLC

Symmetric ==
  Permutations(Tabs) \cup Permutations(Calls) \cup Permutations(Keys)
    \cup Permutations(Emails)
=============================================================================
