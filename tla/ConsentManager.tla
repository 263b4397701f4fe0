---------------------------- MODULE ConsentManager ----------------------------
(***************************************************************************)
(* ConsentManager as its callers use it: several of them at once, each     *)
(* with a copy of a customer's row that it loaded some time before it      *)
(* calls opt_in or opt_out.  A caller is one request, job or console call. *)
(*                                                                         *)
(* app/ calls opt_out only (the STOP webhook); opt_in is the other half of *)
(* the service's public interface, exercised by its spec.                  *)
(***************************************************************************)
EXTENDS Consent, FiniteSets

CONSTANTS Callers,          \* calls of the service
          InitialStatuses   \* sms_consent_status of the records at the start

ASSUME ConsentManagerAssumption ==
    /\ IsFiniteSet(Callers)
    /\ InitialStatuses \subseteq SmsConsentStatus

VARIABLE call   \* per caller: its state, its customer and the copy it holds

vars == <<consent, phone, optedOutAt, consentLogs, call>>

Operations == {"opt_in", "opt_out"}
CallState == {"idle", "loaded", "returned_true", "returned_false", "raised"}

\* A copy's "seen" fields are those of the row when it was loaded.
Call == [state : CallState,
         operation : Operations,
         customer : Customers,
         seen : SmsConsentStatus,
         seenAt : BOOLEAN]

Idle == [state |-> "idle"]

TypeOK ==
    /\ ConsentTypeOK
    /\ call \in [Callers -> Call \cup {Idle}]

\* A record that starts as opted out carries the log and the timestamp of
\* an earlier opt_out; every record carries the log of its creation.
Init ==
    /\ consent \in [Customers -> InitialStatuses]
    /\ phone = [c \in Customers |-> NoPhone]
    /\ optedOutAt = [c \in Customers |-> consent[c] = "opted_out"]
    /\ consentLogs = [c \in Customers |->
            IF consent[c] = "opted_out" THEN <<"opted_in", "opted_out">>
                                        ELSE <<"opted_in">>]
    /\ call = [k \in Callers |-> Idle]

------------------------------------------------------------------------------
Load(k, c, op) ==
    /\ call[k] = Idle
    /\ Exists(c)
    /\ call' = [call EXCEPT ![k] = [state |-> "loaded",
                                    operation |-> op,
                                    customer |-> c,
                                    seen |-> consent[c],
                                    seenAt |-> optedOutAt[c]]]
    /\ UNCHANGED consentVars

Calling(k, op) == call[k].state = "loaded" /\ call[k].operation = op

Return(k, outcome) == call' = [call EXCEPT ![k].state = outcome]

CallOptOut(k) ==
    /\ Calling(k, "opt_out")
    /\ \/ OptOut(call[k].customer, call[k].seen) /\ Return(k, "returned_true")
       \/ OptOutRefused(call[k].seen) /\ Return(k, "returned_false")
       \/ /\ CanReceiveSms(call[k].seen)
          /\ ConsentRejected
          /\ Return(k, "returned_false")
       \/ /\ CanReceiveSms(call[k].seen)
          /\ ConsentWriteFails(call[k].customer)
          /\ Return(k, "raised")

CallOptIn(k) ==
    /\ Calling(k, "opt_in")
    /\ \/ /\ OptIn(call[k].customer, call[k].seen, call[k].seenAt)
          /\ Return(k, "returned_true")
       \/ OptInRefused(call[k].seen) /\ Return(k, "returned_false")
       \/ /\ call[k].seen # "opted_out"
          /\ ConsentRejected
          /\ Return(k, "returned_false")
       \/ /\ call[k].seen # "opted_out"
          /\ ConsentWriteFails(call[k].customer)
          /\ Return(k, "raised")

Destroy(c) == DeleteCustomer(c) /\ UNCHANGED call

Next ==
    \/ \E k \in Callers, c \in Customers, op \in Operations : Load(k, c, op)
    \/ \E k \in Callers : CallOptOut(k) \/ CallOptIn(k)
    \/ \E c \in Customers : Destroy(c)

Spec == Init /\ [][Next]_vars

------------------------------------------------------------------------------
Entries(c, event) ==
    Cardinality({i \in DOMAIN consentLogs[c] : consentLogs[c][i] = event})

Succeeded(c, op) ==
    {k \in Callers : /\ call[k].state = "returned_true"
                     /\ call[k].operation = op
                     /\ call[k].customer = c}

\* Once a customer is opted out, no call of the service makes the record
\* textable again: opt_in refuses a customer it knows to be opted out.  Of a
\* caller with an older copy this needs that nothing it writes differs from
\* that copy, which is so only where every record starts as active.
OptOutIsFinal ==
    [][\A c \in Customers :
          consent[c] = "opted_out" => consent'[c] \in {"opted_out", "gone"}]_vars

\* opted_out_at is set exactly on the opted-out records, however old the copies
\* that the callers hold.  A copy of a pending record breaks it: opt_in then
\* writes active over an opt-out and leaves the timestamp, which is as it was.
TimestampMatchesStatus ==
    \A c \in Customers : Exists(c) => (optedOutAt[c] <=> consent[c] = "opted_out")

\* Every call that returned true left one entry of its kind in the customer's
\* log, and a call that returned false or raised left none: the log and the
\* status are written in one transaction.
EveryGrantedCallLogged ==
    \A c \in Customers : Exists(c) =>
        /\ Entries(c, "opted_out") = Cardinality(Succeeded(c, "opt_out"))
        /\ Entries(c, "opted_in") = Cardinality(Succeeded(c, "opt_in")) + 1
==============================================================================
