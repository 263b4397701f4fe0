---------------------------- MODULE DirtyTracking ----------------------------
(***************************************************************************)
(* What an update of a loaded record writes.  Rails keeps the values a     *)
(* record was loaded with and puts into the UPDATE only the attributes     *)
(* that differ from them; the row may hold other values by then.           *)
(***************************************************************************)

\* Mutant: every attribute is written, changed or not.
AssignedAlways(current, seen, new) == new

\* The row's value after an attribute loaded as `seen' was assigned `new'.
Assigned(current, seen, new) == IF seen = new THEN current ELSE new
==============================================================================
