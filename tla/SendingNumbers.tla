---------------------------- MODULE SendingNumbers ----------------------------
(* The phone numbers a business requested beside its own, one per record. *)
EXTENDS Naturals

CONSTANTS Numbers, Locations, NoLocation, DefaultNumber

ASSUME NumbersAssumption == DefaultNumber \notin Numbers

VARIABLES number,   \* the rows of twilio_phone_numbers
          granted   \* history: the numbers an admin activated since they were requested

numberVars == <<number, granted>>

NumberStatus == {"pending", "approved", "active"}

PhoneNumber == [status : NumberStatus \cup {"none"}, location : Locations \cup {NoLocation}]

NumbersTypeOK ==
    /\ number \in [Numbers -> PhoneNumber]
    /\ granted \subseteq Numbers

NumbersInit ==
    /\ number = [x \in Numbers |-> [status |-> "none", location |-> NoLocation]]
    /\ granted = {}

\* Mutant: the status is what the form says.
RequestNumberAs(x, loc) ==
    /\ number[x].status = "none"
    /\ \E status \in NumberStatus :
            number' = [number EXCEPT ![x] = [status |-> status, location |-> loc]]
    /\ UNCHANGED granted

\* Settings: whatever the form says, the request is pending.
RequestNumber(x, loc) ==
    /\ number[x].status = "none"
    /\ number' = [number EXCEPT ![x] = [status |-> "pending", location |-> loc]]
    /\ UNCHANGED granted

\* The admin's helpers take a number in any state.
Approve(x) ==
    /\ number[x].status # "none"
    /\ number' = [number EXCEPT ![x].status = "approved"]
    /\ UNCHANGED granted

Activate(x) ==
    /\ number[x].status # "none"
    /\ number' = [number EXCEPT ![x].status = "active"]
    /\ granted' = granted \cup {x}

Reject(x) ==
    /\ number[x].status # "none"
    /\ number' = [number EXCEPT ![x] = [status |-> "none", location |-> NoLocation]]
    /\ granted' = granted \ {x}

\* Mutant: the record's location is taken for its number.
FromLocations(loc) ==
    LET local == {x \in Numbers : /\ number[x].status = "active"
                                  /\ loc # NoLocation /\ number[x].location = loc}
    IN  IF local = {} THEN {DefaultNumber} ELSE {loc}

\* determine_from_number: any active number of the location, if there is
\* one, and the business's own or the application's otherwise.
FromNumbers(loc) ==
    LET local == {x \in Numbers : /\ number[x].status = "active"
                                  /\ loc # NoLocation /\ number[x].location = loc}
    IN  IF local = {} THEN {DefaultNumber} ELSE local

NumbersNext ==
    \E x \in Numbers :
        \/ Approve(x) \/ Activate(x) \/ Reject(x)
        \/ \E loc \in Locations : RequestNumber(x, loc)
==============================================================================
