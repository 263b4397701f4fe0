----------------------------- MODULE MessageStore -----------------------------
(***************************************************************************)
(* The messages table and the broadcasts of its rows to the inbox page.    *)
(*                                                                         *)
(* A row's origin is what it was written for: the webhook request, or the  *)
(* attempt of the job, which is also the identity Twilio's sid gives the   *)
(* SMS.  The body of a message is abstracted to whether it is blank, the   *)
(* one thing the model's validation looks at.                              *)
(***************************************************************************)
EXTENDS Consent, FiniteSets

VARIABLES messages,     \* rows of the table
          broadcasts    \* origins of the rows appended to an inbox stream

messageVars == <<messages, broadcasts>>

MessageStatus == {"received", "sent", "failed"}
Direction == {"inbound", "outbound"}

\* The rows that can exist for a set of origins.
MessageRows(origins) ==
    [customer : Customers,
     direction : Direction,
     status : MessageStatus,
     origin : origins]

Blank(body) == body = "blank"

\* Mutant: a message needs a customer that consents.
StorableWithConsent(c, body) == consent[c] = "active" /\ ~Blank(body)

\* Message.create!: raises RecordInvalid on a blank body, and breaks a foreign
\* key when the customer's row is gone.
Storable(c, body) == Exists(c) /\ ~Blank(body)

StoreMessage(c, direction, status, origin) ==
    messages' = messages \cup {[customer |-> c, direction |-> direction,
                                status |-> status, origin |-> origin]}

\* Mutant: has_many :messages without dependent: :destroy.
KeepMessagesOf(c) == UNCHANGED messages

\* has_many :messages, dependent: :destroy
DeleteMessagesOf(c) == messages' = {m \in messages : m.customer # c}

\* broadcast_append_to "business_<id>_messages"
BroadcastAppend(origin) == broadcasts' = broadcasts \cup {origin}

MessageInit ==
    /\ messages = {}
    /\ broadcasts = {}
==============================================================================
