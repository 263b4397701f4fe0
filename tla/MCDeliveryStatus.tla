--------------------------- MODULE MCDeliveryStatus ---------------------------
(* Small instances of DeliveryStatus for TLC. *)
EXTENDS DeliveryStatus, TLC

MCSymmetry == Permutations(Texts) \cup Permutations(Handlers)
==============================================================================
