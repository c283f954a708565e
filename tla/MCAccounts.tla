----------------------------- MODULE MCAccounts -----------------------------
(* Instances of Accounts for TLC. *)
EXTENDS Accounts

(* Two spellings of one identifier. *)
MCValues == {"Ann", "ann"}
MCLower == [v \in MCValues |-> "ann"]
=============================================================================
