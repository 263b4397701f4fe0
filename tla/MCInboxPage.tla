----------------------------- MODULE MCInboxPage -----------------------------
(* A small instance of InboxPage for TLC. *)
EXTENDS InboxPage, TLC

MCSymmetry == Permutations(Customers) \cup Permutations(Messages) \cup Permutations(Loads)
==============================================================================
