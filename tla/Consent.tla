------------------------------- MODULE Consent -------------------------------
(***************************************************************************)
(* The customers table and its consent log: what a business may text.      *)
(*                                                                         *)
(* Every record of a customer has its own id (a UUID that is never used    *)
(* twice), so a customer that was destroyed stays "gone" and a new record  *)
(* for the same person is another member of Customers.                     *)
(*                                                                         *)
(* The operators are the database effects of the model callbacks, of the   *)
(* three actions of CustomersController that write, and of ConsentManager. *)
(* A caller of ConsentManager holds a copy of the row it loaded earlier:   *)
(* the copy's values are the parameters `seen' and `seenAt', the row's are *)
(* the variables.                                                          *)
(***************************************************************************)
EXTENDS Naturals, Sequences, DirtyTracking

CONSTANTS Customers,    \* ids of customer records
          Businesses,   \* the tenants
          Phones,       \* phone numbers
          BusinessOf    \* the tenant that owns each customer record

ASSUME ConsentAssumption == BusinessOf \in [Customers -> Businesses]

VARIABLES consent,      \* sms_consent_status of the row, "none" or "gone" without one
          phone,        \* the row's phone
          optedOutAt,   \* whether opted_out_at is set
          consentLogs   \* the customer's consent_logs, oldest first

consentVars == <<consent, phone, optedOutAt, consentLogs>>

SmsConsentStatus == {"pending", "active", "opted_out"}
NoPhone == "no phone"

ConsentTypeOK ==
    /\ consent \in [Customers -> SmsConsentStatus \cup {"none", "gone"}]
    /\ phone \in [Customers -> Phones \cup {NoPhone}]
    /\ optedOutAt \in [Customers -> BOOLEAN]
    /\ consentLogs \in [Customers -> Seq({"opted_in", "opted_out"})]

Exists(c) == consent[c] \in SmsConsentStatus

\* The unique index on (business_id, phone) and the validation in front of it.
PhoneTaken(b, p) ==
    \E c \in Customers : Exists(c) /\ BusinessOf[c] = b /\ phone[c] = p

ConsentInit ==
    /\ consent = [c \in Customers |-> "none"]
    /\ phone = [c \in Customers |-> NoPhone]
    /\ optedOutAt = [c \in Customers |-> FALSE]
    /\ consentLogs = [c \in Customers |-> <<>>]

\* Mutant: an entry equal to the one before it is dropped as a duplicate.
LogConsentOnce(c, event) ==
    consentLogs' = [consentLogs EXCEPT ![c] =
        IF @ # <<>> /\ @[Len(@)] = event THEN @ ELSE Append(@, event)]

\* Mutant: the entry is the status the record gets.
LogStatus(c, event) ==
    consentLogs' = [consentLogs EXCEPT ![c] = Append(@, consent'[c])]

LogConsent(c, event) ==
    consentLogs' = [consentLogs EXCEPT ![c] = Append(@, event)]

------------------------------------------------------------------------------
(* CustomersController *)

InsertCustomer(c, p) ==
    /\ consent[c] = "none"
    /\ ~PhoneTaken(BusinessOf[c], p)
    /\ consent' = [consent EXCEPT ![c] = "active"]
    /\ phone' = [phone EXCEPT ![c] = p]
    /\ LogConsent(c, "opted_in")
    /\ UNCHANGED optedOutAt

\* Mutant: saving the form makes the customer consenting.
EditAndReconsent(c, p) ==
    /\ Exists(c)
    /\ ~PhoneTaken(BusinessOf[c], p)
    /\ phone' = [phone EXCEPT ![c] = p]
    /\ consent' = [consent EXCEPT ![c] = "active"]
    /\ UNCHANGED <<optedOutAt, consentLogs>>

\* Rails writes the changed columns only, so an edit never carries a stale
\* consent status back into the row.
EditCustomer(c, p) ==
    /\ Exists(c)
    /\ ~PhoneTaken(BusinessOf[c], p)
    /\ phone' = [phone EXCEPT ![c] = p]
    /\ UNCHANGED <<consent, optedOutAt, consentLogs>>

\* dependent: :destroy takes the log with the row.
DeleteCustomer(c) ==
    /\ Exists(c)
    /\ consent' = [consent EXCEPT ![c] = "gone"]
    /\ phone' = [phone EXCEPT ![c] = NoPhone]
    /\ optedOutAt' = [optedOutAt EXCEPT ![c] = FALSE]
    /\ consentLogs' = [consentLogs EXCEPT ![c] = <<>>]

------------------------------------------------------------------------------
(* ConsentManager *)

\* Mutant: whoever has answered may be texted.
CanReceiveUnlessPending(seen) == seen # "pending"

\* consented? && !opted_out?, asked of a loaded copy.
CanReceiveSms(seen) == seen = "active"

\* Mutant: opted_out_at is not written.
OptOutUntimed(c, seen) ==
    /\ Exists(c)
    /\ CanReceiveSms(seen)
    /\ consent' = [consent EXCEPT ![c] = "opted_out"]
    /\ LogConsent(c, "opted_out")
    /\ UNCHANGED <<phone, optedOutAt>>

\* update! and consent_logs.create! in one transaction.  A copy that may
\* receive SMS is active, so the status always differs and is written.
OptOut(c, seen) ==
    /\ Exists(c)
    /\ CanReceiveSms(seen)
    /\ consent' = [consent EXCEPT ![c] = "opted_out"]
    /\ optedOutAt' = [optedOutAt EXCEPT ![c] = TRUE]
    /\ LogConsent(c, "opted_out")
    /\ UNCHANGED phone

\* Mutant: opt_out fails without anybody noticing.
OptOutLost(seen) == UNCHANGED consentVars

OptOutRefused(seen) ==
    /\ ~CanReceiveSms(seen)
    /\ UNCHANGED consentVars

\* The row of the copy is gone: the UPDATE matches nothing, the INSERT into
\* consent_logs breaks its foreign key, the transaction rolls back and the
\* error, which is no RecordInvalid, goes to the caller.
ConsentWriteFails(c) ==
    /\ ~Exists(c)
    /\ UNCHANGED consentVars

\* The text of the log entry is blank: RecordInvalid rolls back the update
\* before it and is rescued.
ConsentRejected == UNCHANGED consentVars

OptIn(c, seen, seenAt) ==
    /\ Exists(c)
    /\ seen # "opted_out"
    /\ consent' = [consent EXCEPT ![c] = Assigned(@, seen, "active")]
    /\ optedOutAt' = [optedOutAt EXCEPT ![c] = Assigned(@, seenAt, FALSE)]
    /\ LogConsent(c, "opted_in")
    /\ UNCHANGED phone

OptInRefused(seen) ==
    /\ seen = "opted_out"
    /\ UNCHANGED consentVars
==============================================================================
