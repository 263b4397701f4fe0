--------------------------- MODULE MCConsentManager ---------------------------
(* Small instances of ConsentManager for TLC. *)
EXTENDS ConsentManager, TLC

CONSTANTS b1

\* One business owns every record; nothing the service does depends on it.
MCBusinessOf == [c \in Customers |-> b1]

MCSymmetry == Permutations(Callers) \cup Permutations(Customers)
==============================================================================
