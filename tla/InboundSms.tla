------------------------------ MODULE InboundSms ------------------------------
(***************************************************************************)
(* Inbound texts: TwilioWebhooksController#inbound with MessageParser.     *)
(*                                                                         *)
(* A request runs in a thread of the web server, beside other requests,    *)
(* the pages of the staff and the job workers, and commits each of its     *)
(* writes on its own:                                                      *)
(*                                                                         *)
(*   idle -> received -> found -> saved -> answered -> done                *)
(*              |                   |________________->                    *)
(*           unknown          error: the action raised, from any of these  *)
(***************************************************************************)
EXTENDS OutboundSms

CONSTANTS Requests,   \* inbound webhook requests
          InBodies,   \* kinds of body Twilio delivers
          NoCustomer

ASSUME InboundAssumption ==
    /\ InBodies \subseteq {"stop", "help", "text", "blank"}
    /\ NoCustomer \notin Customers

VARIABLE req   \* per request: its parameters and how far the action has come

RequestState == {"received", "unknown", "found", "saved", "answered", "done", "error"}

\* addressee: the record of the sender at the business whose number was
\* texted (params To, which the code does not read), if there is one.
\* customer and seen: the row the action found, and the status in that copy.
Request == [state : RequestState,
            from : Phones,
            addressee : Customers \cup {NoCustomer},
            body : InBodies,
            customer : Customers \cup {NoCustomer},
            seen : SmsConsentStatus \cup {"none"}]

IdleRequest == [state |-> "idle"]

InboundTypeOK == req \in [Requests -> Request \cup {IdleRequest}]

InboundInit == req = [r \in Requests |-> IdleRequest]

In(r, state) == req[r].state = state

Step(r, state) == req' = [req EXCEPT ![r].state = state]

HasPhone(c, p) == Exists(c) /\ phone[c] = p

\* MessageParser
IsStop(body) == body = "stop"
IsHelp(body) == body = "help"

------------------------------------------------------------------------------
\* Twilio posts a text sent from p, to the business of `addressee'.
Receive(r, p, addressee, body) ==
    /\ req[r] = IdleRequest
    /\ addressee # NoCustomer => HasPhone(addressee, p)
    /\ req' = [req EXCEPT ![r] = [state |-> "received", from |-> p,
                                  addressee |-> addressee, body |-> body,
                                  customer |-> NoCustomer, seen |-> "none"]]
    /\ UNCHANGED <<consentVars, messageVars, outboundVars>>

\* Customer.find_by(phone: from): any row with that phone, in any business.
\* A text from a number nobody has is answered and dropped.
FindCustomer(r) ==
    /\ In(r, "received")
    /\ \/ \E c \in Customers :
            /\ HasPhone(c, req[r].from)
            /\ req' = [req EXCEPT ![r].state = "found", ![r].customer = c,
                                  ![r].seen = consent[c]]
       \/ /\ \A c \in Customers : ~HasPhone(c, req[r].from)
          /\ Step(r, "unknown")
    /\ UNCHANGED <<consentVars, messageVars, outboundVars>>

SaveInbound(r) ==
    LET c == req[r].customer IN
    /\ In(r, "found")
    /\ \/ /\ Storable(c, req[r].body)
          /\ StoreMessage(c, "inbound", "received", r)
          /\ Step(r, "saved")
       \/ ~Storable(c, req[r].body) /\ UNCHANGED messages /\ Step(r, "error")
    /\ UNCHANGED <<consentVars, broadcasts, outboundVars>>

\* ConsentManager#opt_out with the row as find_by loaded it.  Its result is
\* not looked at, and the action answers without a broadcast.
ProcessStop(r) ==
    LET c == req[r].customer
        seen == req[r].seen IN
    /\ In(r, "saved") /\ IsStop(req[r].body)
    /\ \/ OptOut(c, seen) /\ Step(r, "done")
       \/ OptOutRefused(seen) /\ Step(r, "done")
       \/ CanReceiveSms(seen) /\ ConsentWriteFails(c) /\ Step(r, "error")
    /\ UNCHANGED <<messageVars, outboundVars>>

\* The reply goes through the queue like any other text.
ProcessHelp(r, j) ==
    /\ In(r, "saved") /\ IsHelp(req[r].body)
    /\ Enqueue(j, req[r].customer, "help", "text")
    /\ Step(r, "answered")
    /\ UNCHANGED <<consentVars, messageVars, sms>>

BroadcastInbound(r) ==
    /\ \/ In(r, "answered")
       \/ In(r, "saved") /\ ~IsStop(req[r].body) /\ ~IsHelp(req[r].body)
    /\ BroadcastAppend(r)
    /\ Step(r, "done")
    /\ UNCHANGED <<consentVars, messages, outboundVars>>

\* The web process dies, or a statement raises.
CrashRequest(r) ==
    /\ "crash" \in Faults
    /\ req[r].state \in {"received", "found", "saved", "answered"}
    /\ Step(r, "error")
    /\ UNCHANGED <<consentVars, messageVars, outboundVars>>

Handle(r) ==
    \/ FindCustomer(r) \/ SaveInbound(r) \/ ProcessStop(r) \/ BroadcastInbound(r)
==============================================================================
