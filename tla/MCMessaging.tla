------------------------------ MODULE MCMessaging ------------------------------
(* Small instances of Messaging for TLC. *)
EXTENDS Messaging, TLC

CONSTANTS b1, b2, c2

\* Every customer belongs to one business ...
MCOneBusiness == [c \in Customers |-> b1]

\* ... or c2 belongs to another one than the rest.
MCTwoBusinesses == [c \in Customers |-> IF c = c2 THEN b2 ELSE b1]

MCSymmetry == Permutations(Jobs)
MCSymmetryRequests == Permutations(Jobs) \cup Permutations(Requests)
==============================================================================
