-------------------------- MODULE MCPageControllers --------------------------
(* A small instance of PageControllers for TLC. *)
EXTENDS PageControllers

CONSTANTS messages, settings

\* The messages page has an inbox, the settings page two modals.
MCModalsOn == [p \in Paths |-> IF p = settings THEN 2 ELSE 0]
MCInboxesOn == [p \in Paths |-> IF p = messages THEN 1 ELSE 0]
==============================================================================
