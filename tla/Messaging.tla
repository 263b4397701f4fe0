------------------------------ MODULE Messaging ------------------------------
(***************************************************************************)
(* The messaging system: the staff's pages, the Twilio webhook and the     *)
(* SendMessageJob workers on one database.                                 *)
(***************************************************************************)
EXTENDS InboundSms

vars == <<consent, phone, optedOutAt, consentLogs, messages, broadcasts,
          job, sms, req>>

\* What a row of the messages table can be written for.
Origins == Requests \cup (Jobs \X Attempts)

\* A row's origin tells which of the two wrote it.
ASSUME OriginAssumption == Requests \cap (Jobs \X Attempts) = {}

TypeOK ==
    /\ ConsentTypeOK
    /\ OutboundTypeOK
    /\ InboundTypeOK
    /\ messages \subseteq MessageRows(Origins)
    /\ broadcasts \subseteq Origins

Init == ConsentInit /\ MessageInit /\ OutboundInit /\ InboundInit

------------------------------------------------------------------------------
(* CustomersController *)

CreateCustomer(c, p) ==
    InsertCustomer(c, p) /\ UNCHANGED <<messageVars, outboundVars, req>>

UpdateCustomer(c, p) ==
    EditCustomer(c, p) /\ UNCHANGED <<messageVars, outboundVars, req>>

DestroyCustomer(c) ==
    /\ DeleteCustomer(c)
    /\ DeleteMessagesOf(c)
    /\ UNCHANGED <<broadcasts, outboundVars, req>>

Staff ==
    \/ \E c \in Customers, p \in Phones : CreateCustomer(c, p) \/ UpdateCustomer(c, p)
    \/ \E c \in Customers : DestroyCustomer(c)
    \/ \E j \in Jobs, c \in Customers, body \in OutBodies :
            MessagesCreate(j, c, body) /\ UNCHANGED req

Scheduler ==
    \E j \in Jobs, c \in Customers : EnqueueReminder(j, c) /\ UNCHANGED req

Work(j) == (Claim(j) \/ Perform(j)) /\ UNCHANGED req

Worker(j) == Work(j) \/ ((Release(j) \/ Crash(j)) /\ UNCHANGED req)

Serve(r) == Handle(r) \/ \E j \in Jobs : ProcessHelp(r, j)

Webhook(r) ==
    \/ \E p \in Phones, a \in Customers \cup {NoCustomer}, body \in InBodies :
            Receive(r, p, a, body)
    \/ Serve(r)
    \/ CrashRequest(r)

Next ==
    \/ Staff
    \/ Scheduler
    \/ \E j \in Jobs : Worker(j)
    \/ \E r \in Requests : Webhook(r)

Spec == Init /\ [][Next]_vars

\* A worker that is up keeps working on the queue, and the web server on a
\* request it accepted.  Nobody has to create, edit or send anything, and
\* no fault has to happen.
Fairness ==
    /\ \A j \in Jobs : WF_vars(Work(j))
    /\ \A r \in Requests : WF_vars(Serve(r))

FairSpec == Spec /\ Fairness
------------------------------------------------------------------------------
(* Consent *)

LateTexts(c) == {s \in sms : s.customer = c /\ s.consent # "active"}

\* Jobs that have passed the consent check and not yet called Twilio.
Armed(c) ==
    {j \in Jobs : job[j].state \in {"checked", "addressed"} /\ job[j].customer = c}

\* SendMessageJob checks the consent in one step and sends in a later one, so
\* an opt-out or a deletion can come in between.  What gets out is bounded:
\* once a customer's consent has ended, the texts Twilio accepts for it from
\* then on are at most as many as the queue has threads, however many jobs
\* are queued, released and run again.
LeakBounded ==
    \A c \in Customers : consent[c] # "active" =>
        Cardinality(LateTexts(c)) + Cardinality(Armed(c)) <= WorkerThreads

\* A STOP that found its customer and was answered has ended the consent for
\* good: the record is opted out, or gone, in every later state, whatever
\* other requests, edits and jobs do meanwhile.
StopHonoured ==
    \A r \in Requests :
        In(r, "done") /\ IsStop(req[r].body)
            => consent[req[r].customer] \in {"opted_out", "gone"}

\* No page, request or job makes an opted-out record textable again.
OptOutIsFinal ==
    [][\A c \in Customers :
          consent[c] = "opted_out" => consent'[c] \in {"opted_out", "gone"}]_vars

\* The consent log agrees with the row: the last entry of the log is the
\* status the record has, and the timestamp is there for opt-outs only.
AuditTrailAgrees ==
    \A c \in Customers : Exists(c) =>
        /\ consentLogs[c] # <<>>
        /\ consentLogs[c][1] = "opted_in"
        /\ consent[c] = "opted_out" <=> consentLogs[c][Len(consentLogs[c])] = "opted_out"
        /\ consent[c] = "opted_out" <=> optedOutAt[c]

\* A job drops its text for want of consent only if the customer really has
\* none, and never will have: no reply is lost to a check that came too early.
SkippedForGood ==
    \A j \in Jobs : At(j, "skipped") => consent[job[j].customer] # "active"

------------------------------------------------------------------------------
(* Messages *)

RowsOf(origin) == {m \in messages : m.origin = origin}
TextsOf(j) == {s \in sms : s.job = j}

\* What the inbox says happened did happen: a row with status sent stands for
\* a text Twilio accepted for that customer, a row with status failed for an
\* attempt that sent nothing, a received row for a webhook that found that
\* customer; and every row's customer exists.
RowsAreTrue ==
    \A m \in messages :
        /\ Exists(m.customer)
        /\ m.status = "received" =>
              m.origin \in Requests /\ req[m.origin].customer = m.customer
        /\ m.status = "sent" =>
              \E s \in sms : <<s.job, s.attempt>> = m.origin /\ s.customer = m.customer
        /\ m.status = "failed" =>
              /\ m.origin \notin Requests
              /\ \A s \in sms : <<s.job, s.attempt>> # m.origin

\* A job that finished has left exactly one row for its last attempt, unless
\* the customer was deleted since, and the inbox was told of it.
FinishedOnRecord ==
    \A j \in Jobs : At(j, "finished") =>
        /\ Attempt(j) \in broadcasts
        /\ Exists(job[j].customer) => Cardinality(RowsOf(Attempt(j))) = 1

\* A job texts its customer at most once.
SingleDelivery ==
    \A j \in Jobs : Cardinality(TextsOf(j)) <= 1

\* A text that Twilio accepted is in the messages table when its job is
\* through, unless the customer was deleted.
TextsOnRecord ==
    \A s \in sms :
        job[s.job].state \in Settled /\ Exists(s.customer)
            => \E m \in messages : m.origin = <<s.job, s.attempt>> /\ m.status = "sent"

------------------------------------------------------------------------------
(* Liveness *)

\* A STOP whose sender was found takes effect, also beside other requests
\* for the same customer and with the workers busy.
StopTakesEffect ==
    \A r \in Requests, c \in Customers :
        (In(r, "found") /\ IsStop(req[r].body) /\ req[r].customer = c)
            ~> consent[c] \in {"opted_out", "gone"}

\* Every queued text comes to an end somebody can see: it is shown in the
\* inbox as sent or failed, dropped for want of consent, or its customer is
\* gone.
OutcomeShown ==
    \A j \in Jobs :
        At(j, "ready") ~>
            \/ At(j, "finished") /\ Attempt(j) \in broadcasts
            \/ At(j, "skipped")
            \/ job[j] # Unused /\ consent[job[j].customer] = "gone"

------------------------------------------------------------------------------
(* What the messaging system promises about consent: see ConsentGate. *)

Stage(status) ==
    CASE status = "none" -> "new"
      [] status \in {"active", "pending"} -> "given"
      [] status \in {"opted_out", "gone"} -> "ended"

Gate == INSTANCE ConsentGate WITH
    Permits <- Jobs,
    MaxPermits <- WorkerThreads,
    stage <- [c \in Customers |-> Stage(consent[c])],
    granted <- [c \in Customers |-> Armed(c)],
    late <- [c \in Customers |-> Cardinality(LateTexts(c))]

\* The messaging system is a consent gate whose permits are the jobs between
\* the consent check and the call to Twilio.
GateSpec == Gate!GateSpec

------------------------------------------------------------------------------
(* What the requirements say and the code does not do *)

\* "Opted-out customers must not receive any future messages."
OptedOutNeverTexted == \A s \in sms : s.consent # "opted_out"

\* "The system must process STOP keyword replies and immediately opt-out the
\* customer": the sender's record at the business that was texted.
StopReachesSender ==
    \A r \in Requests :
        /\ In(r, "done") /\ IsStop(req[r].body)
        /\ req[r].addressee # NoCustomer
        => consent[req[r].addressee] # "active"
==============================================================================
