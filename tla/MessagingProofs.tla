--------------------------- MODULE MessagingProofs ---------------------------
(***************************************************************************)
(* What holds of Messaging for every number of customers, businesses,      *)
(* phones, jobs, requests and worker threads, and for all faults: its      *)
(* types, what one step of it can do to whom, and consent.                 *)
(***************************************************************************)
EXTENDS Messaging, FiniteSetTheorems, TLAPS

------------------------------------------------------------------------------
(* Type correctness *)

\* TypeOK needs to know that a running job has been claimed, and that a
\* request past find_by has a customer.
TypeInv ==
    /\ TypeOK
    /\ \A j \in Jobs : job[j].state \in Running => job[j].attempts \in Attempts
    /\ \A r \in Requests :
          req[r].state \in {"found", "saved", "answered", "done"}
              => req[r].customer \in Customers

LEMMA LogTyped ==
    ASSUME ConsentTypeOK, NEW c \in Customers,
           NEW event \in {"opted_in", "opted_out"},
           LogConsent(c, event)
    PROVE  /\ consentLogs' \in [Customers -> Seq({"opted_in", "opted_out"})]
           /\ consentLogs'[c] = Append(consentLogs[c], event)
           /\ \A d \in Customers \ {c} : consentLogs'[d] = consentLogs[d]
<1>1. Append(consentLogs[c], event) \in Seq({"opted_in", "opted_out"})
  BY DEF ConsentTypeOK
<1> QED
  BY <1>1 DEF ConsentTypeOK, LogConsent

LEMMA JobInUse ==
    ASSUME TypeOK, NEW j \in Jobs, job[j].state # "unused"
    PROVE  job[j] \in Job
BY DEF TypeOK, OutboundTypeOK, Unused

LEMMA GotoTyped ==
    ASSUME TypeOK, NEW j \in Jobs, job[j].state # "unused",
           NEW state \in {"ready"} \cup Running \cup Settled,
           Goto(j, state)
    PROVE  /\ job' \in [Jobs -> Job \cup {Unused}]
           /\ job'[j] \in Job
           /\ job'[j].state = state
           /\ job'[j].attempts = job[j].attempts
           /\ job'[j].customer = job[j].customer
           /\ job'[j].body = job[j].body
           /\ \A i \in Jobs \ {j} : job'[i] = job[i]
BY JobInUse DEF TypeOK, OutboundTypeOK, Goto, Job

LEMMA StepTyped ==
    ASSUME TypeOK, NEW r \in Requests, req[r].state # "idle",
           NEW state \in RequestState,
           Step(r, state)
    PROVE  /\ req' \in [Requests -> Request \cup {IdleRequest}]
           /\ req'[r] \in Request
           /\ req'[r].state = state
           /\ req'[r].customer = req[r].customer
           /\ req'[r].body = req[r].body
           /\ req'[r].seen = req[r].seen
           /\ \A q \in Requests \ {r} : req'[q] = req[q]
<1>1. req[r] \in Request
  BY DEF TypeOK, InboundTypeOK, IdleRequest
<1> QED
  BY <1>1 DEF TypeOK, InboundTypeOK, Step, Request

LEMMA EnqueueTyped ==
    ASSUME TypeOK, NEW j \in Jobs, NEW c \in Customers, NEW source \in Sources,
           NEW body \in OutBodies \cup {"text"},
           Enqueue(j, c, source, body)
    PROVE  /\ job' \in [Jobs -> Job \cup {Unused}]
           /\ job[j].state = "unused"
           /\ job'[j].state = "ready"
           /\ job'[j].customer = c
           /\ job'[j].attempts = 0
           /\ \A i \in Jobs \ {j} : job'[i] = job[i]
BY OutboundAssumption DEF TypeOK, OutboundTypeOK, Enqueue, Job, Unused

LEMMA TypeInitial == Init => TypeInv
BY DEF Init, TypeInv, TypeOK, ConsentTypeOK, OutboundTypeOK, InboundTypeOK,
       ConsentInit, MessageInit, OutboundInit, InboundInit, Unused, IdleRequest,
       Running

\* CustomersController
LEMMA TypeStaff == TypeInv /\ Staff => TypeInv'
<1> SUFFICES ASSUME TypeInv, Staff PROVE TypeInv'
  OBVIOUS
<1> USE DEF TypeInv
<1>1. ASSUME NEW c \in Customers, NEW p \in Phones,
             CreateCustomer(c, p) \/ UpdateCustomer(c, p)
      PROVE  TypeInv'
  <2>1. ConsentTypeOK'
    <3>1. CASE InsertCustomer(c, p)
      <4>1. consentLogs' \in [Customers -> Seq({"opted_in", "opted_out"})]
        BY <3>1, LogTyped DEF InsertCustomer, TypeOK
      <4> QED
        BY <3>1, <4>1 DEF InsertCustomer, TypeOK, ConsentTypeOK, SmsConsentStatus
    <3>2. CASE EditCustomer(c, p)
      BY <3>2 DEF EditCustomer, TypeOK, ConsentTypeOK
    <3> QED
      BY <1>1, <3>1, <3>2 DEF CreateCustomer, UpdateCustomer
  <2>2. UNCHANGED <<messageVars, outboundVars, req>>
    BY <1>1 DEF CreateCustomer, UpdateCustomer
  <2> QED
    BY <2>1, <2>2 DEF TypeOK, OutboundTypeOK, InboundTypeOK, messageVars, outboundVars
<1>2. ASSUME NEW c \in Customers, DestroyCustomer(c) PROVE TypeInv'
  <2>1. ConsentTypeOK'
    BY <1>2 DEF DestroyCustomer, DeleteCustomer, TypeOK, ConsentTypeOK
  <2>2. messages' \subseteq messages /\ UNCHANGED <<broadcasts, outboundVars, req>>
    BY <1>2 DEF DestroyCustomer, DeleteMessagesOf
  <2> QED
    BY <2>1, <2>2 DEF TypeOK, OutboundTypeOK, InboundTypeOK, outboundVars
<1>3. ASSUME NEW j \in Jobs, NEW c \in Customers, NEW body \in OutBodies,
             MessagesCreate(j, c, body), UNCHANGED req
      PROVE  TypeInv'
  <2>1. Enqueue(j, c, "inbox", body) /\ UNCHANGED <<consentVars, messageVars, sms>>
    BY <1>3 DEF MessagesCreate
  <2>2. job' \in [Jobs -> Job \cup {Unused}] /\ job'[j].state = "ready"
        /\ \A i \in Jobs \ {j} : job'[i] = job[i]
    BY <2>1, EnqueueTyped DEF Sources
  <2> QED
    BY <1>3, <2>1, <2>2 DEF TypeOK, ConsentTypeOK, OutboundTypeOK, InboundTypeOK,
         consentVars, messageVars, Running
<1> QED
  BY <1>1, <1>2, <1>3 DEF Staff

LEMMA TypeScheduler == TypeInv /\ Scheduler => TypeInv'
<1> SUFFICES ASSUME TypeInv, NEW j \in Jobs, NEW c \in Customers,
                    EnqueueReminder(j, c), UNCHANGED req
             PROVE  TypeInv'
  BY DEF Scheduler
<1> USE DEF TypeInv
<1>1. Enqueue(j, c, "reminder", "text") /\ UNCHANGED <<consentVars, messageVars, sms>>
  BY DEF EnqueueReminder
<1>2. job' \in [Jobs -> Job \cup {Unused}] /\ job'[j].state = "ready"
      /\ \A i \in Jobs \ {j} : job'[i] = job[i]
  BY <1>1, EnqueueTyped DEF Sources
<1> QED
  BY <1>1, <1>2 DEF TypeOK, ConsentTypeOK, OutboundTypeOK, InboundTypeOK,
       consentVars, messageVars, Running

\* A job that moves on without touching anything but itself.
LEMMA TypeMove ==
    ASSUME TypeInv, NEW j \in Jobs,
           NEW state \in {"ready"} \cup Running \cup Settled,
           job[j].state \in Running,
           Goto(j, state),
           UNCHANGED <<consentVars, req>>
    PROVE  /\ ConsentTypeOK' /\ InboundTypeOK'
           /\ job' \in [Jobs -> Job \cup {Unused}]
           /\ \A i \in Jobs : job'[i].state \in Running => job'[i].attempts \in Attempts
           /\ \A r \in Requests :
                 req'[r].state \in {"found", "saved", "answered", "done"}
                    => req'[r].customer \in Customers
<1>1. job[j].state # "unused"
  BY DEF Running
<1>2. /\ job' \in [Jobs -> Job \cup {Unused}]
      /\ job'[j].attempts = job[j].attempts
      /\ \A i \in Jobs \ {j} : job'[i] = job[i]
  BY <1>1, GotoTyped DEF TypeInv
<1> QED
  BY <1>2 DEF TypeInv, TypeOK, ConsentTypeOK, InboundTypeOK, consentVars

LEMMA TypeWorker ==
    ASSUME TypeInv, NEW j \in Jobs, Worker(j)
    PROVE  TypeInv'
<1> USE DEF TypeInv
<1>1. CASE Claim(j) /\ UNCHANGED req
  <2>1. job[j] \in Job
    BY <1>1, JobInUse DEF Claim, At
  <2>2. job[j].attempts + 1 \in Attempts
    BY <1>1, <2>1, OutboundAssumption DEF Claim, Attempts, Job
  <2>3. /\ job' \in [Jobs -> Job \cup {Unused}]
        /\ job'[j].attempts = job[j].attempts + 1
        /\ \A i \in Jobs \ {j} : job'[i] = job[i]
    BY <1>1, <2>1, <2>2, OutboundAssumption
       DEF Claim, TypeOK, OutboundTypeOK, Job, Running, Attempts
  <2> QED
    BY <1>1, <2>2, <2>3 DEF Claim, TypeOK, ConsentTypeOK, OutboundTypeOK,
         InboundTypeOK, consentVars, messageVars
<1>2. CASE (Release(j) \/ Crash(j)) /\ UNCHANGED req
  <2>1. PICK state \in {"ready", "failed"} : Goto(j, state)
    BY <1>2 DEF Release, Crash
  <2>2. /\ job[j].state \in Running
        /\ UNCHANGED <<consentVars, messageVars, sms, req>>
    BY <1>2 DEF Release, Crash
  <2> QED
    BY <2>1, <2>2, TypeMove DEF TypeOK, OutboundTypeOK, messageVars, Settled
<1>3. CASE (LoadCustomer(j) \/ DetermineFromNumber(j)) /\ UNCHANGED req
  <2>1. PICK state \in {"checked", "skipped", "failed", "addressed"} : Goto(j, state)
    BY <1>3 DEF LoadCustomer, DetermineFromNumber
  <2>2. /\ job[j].state \in Running
        /\ UNCHANGED <<consentVars, messageVars, sms, req>>
    BY <1>3 DEF LoadCustomer, DetermineFromNumber, At, Running
  <2> QED
    BY <2>1, <2>2, TypeMove DEF TypeOK, OutboundTypeOK, messageVars, Settled, Running
<1>4. CASE SendSms(j) /\ UNCHANGED req
  <2>1. PICK state \in {"accepted", "rejected", "failed"} : Goto(j, state)
    BY <1>4 DEF SendSms
  <2>2. /\ job[j].state \in Running
        /\ UNCHANGED <<consentVars, messageVars, req>>
    BY <1>4 DEF SendSms, At, Running
  <2>3. job[j] \in Job /\ job[j].attempts \in Attempts
    BY <2>2, JobInUse DEF Running
  <2>4. sms' \subseteq Sms
    BY <1>4, <2>3 DEF SendSms, Accept, TextOf, Sms, Job, TypeOK, OutboundTypeOK, ConsentTypeOK
  <2> QED
    BY <2>1, <2>2, <2>4, TypeMove
       DEF TypeOK, OutboundTypeOK, messageVars, Settled, Running
<1>5. CASE (RecordSent(j) \/ RecordFailure(j)) /\ UNCHANGED req
  <2>1. PICK state \in {"recorded", "failed"} : Goto(j, state)
    BY <1>5 DEF RecordSent, RecordFailure
  <2>2. /\ job[j].state \in Running
        /\ UNCHANGED <<consentVars, broadcasts, sms, req>>
    BY <1>5 DEF RecordSent, RecordFailure, At, Running
  <2>3. job[j] \in Job /\ Attempt(j) \in Origins
    BY <2>2, JobInUse DEF Running, Attempt, Origins
  <2>4. messages' \subseteq MessageRows(Origins)
    BY <1>5, <2>3 DEF RecordSent, RecordFailure, StoreMessage, MessageRows, Job,
         Direction, MessageStatus, TypeOK
  <2> QED
    BY <2>1, <2>2, <2>4, TypeMove DEF TypeOK, OutboundTypeOK, Settled, Running
<1>6. CASE BroadcastOutbound(j) /\ UNCHANGED req
  <2>1. /\ job[j].state \in Running
        /\ Goto(j, "finished")
        /\ UNCHANGED <<consentVars, messages, sms, req>>
    BY <1>6 DEF BroadcastOutbound, At, Running
  <2>2. broadcasts' \subseteq Origins
    BY <1>6, <2>1 DEF BroadcastOutbound, BroadcastAppend, Attempt, Origins, TypeOK
  <2> QED
    BY <2>1, <2>2, TypeMove DEF TypeOK, OutboundTypeOK, Settled
<1> QED
  BY <1>1, <1>2, <1>3, <1>4, <1>5, <1>6 DEF Worker, Work, Perform

LEMMA TypeWebhook ==
    ASSUME TypeInv, NEW r \in Requests, Webhook(r)
    PROVE  TypeInv'
<1> USE DEF TypeInv
<1>1. ASSUME NEW p \in Phones, NEW a \in Customers \cup {NoCustomer},
             NEW body \in InBodies, Receive(r, p, a, body)
      PROVE  TypeInv'
  <2>1. /\ req' \in [Requests -> Request \cup {IdleRequest}]
        /\ req'[r].state = "received"
        /\ \A q \in Requests \ {r} : req'[q] = req[q]
    BY <1>1 DEF Receive, TypeOK, InboundTypeOK, Request, RequestState
  <2> QED
    BY <1>1, <2>1 DEF Receive, TypeOK, ConsentTypeOK, OutboundTypeOK, InboundTypeOK,
         consentVars, messageVars, outboundVars
<1>2. CASE FindCustomer(r)
  <2>1. req[r] \in Request
    <3>1. req[r].state = "received"
      BY <1>2 DEF FindCustomer, In
    <3> QED
      BY <3>1 DEF TypeOK, InboundTypeOK, IdleRequest
  <2>2. /\ req' \in [Requests -> Request \cup {IdleRequest}]
        /\ req'[r].state = "unknown" \/ req'[r].customer \in Customers
        /\ \A q \in Requests \ {r} : req'[q] = req[q]
    <3>1. ASSUME NEW c \in Customers, HasPhone(c, req[r].from),
                 req' = [req EXCEPT ![r].state = "found", ![r].customer = c,
                                    ![r].seen = consent[c]]
          PROVE  <2>2!1 /\ <2>2!2 /\ <2>2!3
      BY <2>1, <3>1 DEF HasPhone, Exists, TypeOK, InboundTypeOK, Request, RequestState
    <3>2. CASE Step(r, "unknown")
      BY <2>1, <3>2 DEF Step, TypeOK, InboundTypeOK, Request, RequestState
    <3> QED
      BY <1>2, <3>1, <3>2 DEF FindCustomer
  <2> QED
    BY <1>2, <2>2 DEF FindCustomer, TypeOK, ConsentTypeOK, OutboundTypeOK, InboundTypeOK,
         consentVars, messageVars, outboundVars
<1>3. CASE SaveInbound(r)
  <2>1. req[r].state = "found" /\ req[r].state # "idle"
    BY <1>3 DEF SaveInbound, In
  <2>2. PICK state \in {"saved", "error"} : Step(r, state)
    BY <1>3 DEF SaveInbound
  <2>3. messages' \subseteq MessageRows(Origins)
    BY <1>3, <2>1 DEF SaveInbound, StoreMessage, MessageRows, Origins, Direction,
         MessageStatus, TypeOK
  <2>4. UNCHANGED <<consentVars, broadcasts, outboundVars>>
    BY <1>3 DEF SaveInbound
  <2> QED
    BY <2>1, <2>2, <2>3, <2>4, StepTyped
       DEF RequestState, TypeOK, ConsentTypeOK, OutboundTypeOK, InboundTypeOK,
           consentVars, outboundVars
<1>4. CASE ProcessStop(r)
  <2>1. req[r].state = "saved" /\ req[r].state # "idle" /\ req[r].customer \in Customers
    BY <1>4 DEF ProcessStop, In
  <2>2. PICK state \in {"done", "error"} : Step(r, state)
    BY <1>4 DEF ProcessStop
  <2>3. ConsentTypeOK'
    <3>1. CASE OptOut(req[r].customer, req[r].seen)
      <4>1. consentLogs' \in [Customers -> Seq({"opted_in", "opted_out"})]
        BY <2>1, <3>1, LogTyped DEF OptOut, TypeOK
      <4> QED
        BY <3>1, <4>1 DEF OptOut, TypeOK, ConsentTypeOK, SmsConsentStatus
    <3>2. CASE UNCHANGED consentVars
      BY <3>2 DEF consentVars, TypeOK, ConsentTypeOK
    <3> QED
      BY <1>4, <3>1, <3>2 DEF ProcessStop, OptOutRefused, ConsentWriteFails
  <2>4. UNCHANGED <<messageVars, outboundVars>>
    BY <1>4 DEF ProcessStop
  <2> QED
    BY <2>1, <2>2, <2>3, <2>4, StepTyped
       DEF RequestState, TypeOK, OutboundTypeOK, InboundTypeOK, messageVars, outboundVars
<1>5. ASSUME NEW j \in Jobs, ProcessHelp(r, j) PROVE TypeInv'
  <2>1. req[r].state = "saved" /\ req[r].state # "idle" /\ req[r].customer \in Customers
    BY <1>5 DEF ProcessHelp, In
  <2>2. /\ Step(r, "answered")
        /\ Enqueue(j, req[r].customer, "help", "text")
        /\ UNCHANGED <<consentVars, messageVars, sms>>
    BY <1>5 DEF ProcessHelp
  <2>3. /\ job' \in [Jobs -> Job \cup {Unused}]
        /\ job'[j].state = "ready"
        /\ \A i \in Jobs \ {j} : job'[i] = job[i]
    BY <2>1, <2>2, EnqueueTyped DEF Sources
  <2>4. /\ req' \in [Requests -> Request \cup {IdleRequest}]
        /\ req'[r].customer = req[r].customer
        /\ \A q \in Requests \ {r} : req'[q] = req[q]
    BY <2>1, <2>2, StepTyped DEF RequestState
  <2> QED
    BY <2>1, <2>2, <2>3, <2>4 DEF TypeOK, ConsentTypeOK, OutboundTypeOK, InboundTypeOK,
         consentVars, messageVars, Running
<1>6. CASE BroadcastInbound(r)
  <2>1. req[r].state \in {"saved", "answered"} /\ req[r].state # "idle"
    BY <1>6 DEF BroadcastInbound, In
  <2>2. Step(r, "done") /\ UNCHANGED <<consentVars, messages, outboundVars>>
    BY <1>6 DEF BroadcastInbound
  <2>3. broadcasts' \subseteq Origins
    BY <1>6 DEF BroadcastInbound, BroadcastAppend, Origins, TypeOK
  <2> QED
    BY <2>1, <2>2, <2>3, StepTyped
       DEF RequestState, TypeOK, ConsentTypeOK, OutboundTypeOK, InboundTypeOK,
           consentVars, outboundVars
<1>7. CASE CrashRequest(r)
  <2>1. req[r].state # "idle"
    BY <1>7 DEF CrashRequest
  <2>2. Step(r, "error") /\ UNCHANGED <<consentVars, messageVars, outboundVars>>
    BY <1>7 DEF CrashRequest
  <2> QED
    BY <2>1, <2>2, StepTyped
       DEF RequestState, TypeOK, ConsentTypeOK, OutboundTypeOK, InboundTypeOK,
           consentVars, messageVars, outboundVars
<1> QED
  BY <1>1, <1>2, <1>3, <1>4, <1>5, <1>6, <1>7 DEF Webhook, Serve, Handle

LEMMA TypeStep == TypeInv /\ [Next]_vars => TypeInv'
<1> SUFFICES ASSUME TypeInv, [Next]_vars PROVE TypeInv'
  OBVIOUS
<1>1. CASE UNCHANGED vars
  BY <1>1 DEF vars, TypeInv, TypeOK, ConsentTypeOK, OutboundTypeOK, InboundTypeOK
<1> QED
  BY <1>1, TypeStaff, TypeScheduler, TypeWorker, TypeWebhook DEF Next

\* Every variable keeps its type: every row and every broadcast belongs to a
\* request or to a numbered attempt of a job.
THEOREM TypeCorrect == Spec => []TypeOK
<1>1. TypeInv => TypeOK
  BY DEF TypeInv
<1> QED
  BY TypeInitial, TypeStep, <1>1, PTL DEF Spec

------------------------------------------------------------------------------
(* What one step does to a job, to the texts and to the rows *)

\* States of a job whose current attempt has not called Twilio, has no text,
\* has no row.
Unsent == {"claimed", "checked", "addressed"}
Untexted == Unsent \cup {"rejected"}
Unrecorded == Untexted \cup {"accepted"}

\* The order of perform, for the steps that do not end it early.
Follows ==
    {<<"claimed", "checked">>, <<"claimed", "skipped">>, <<"checked", "addressed">>,
     <<"addressed", "accepted">>, <<"addressed", "rejected">>,
     <<"accepted", "recorded">>, <<"rejected", "recorded">>,
     <<"recorded", "finished">>}

JobStep(j) ==
    \/ job'[j] = job[j]
    \/ /\ job[j].state = "unused"
       /\ job'[j].state = "ready"
       /\ job'[j].attempts = 0
    \/ /\ job'[j].customer = job[j].customer
       /\ job'[j].body = job[j].body
       /\ job[j].state = "ready"
       /\ job'[j].state = "claimed"
       /\ job'[j].attempts = job[j].attempts + 1
    \/ /\ job'[j].customer = job[j].customer
       /\ job'[j].body = job[j].body
       /\ job[j].state \in Running
       /\ job'[j].attempts = job[j].attempts
       /\ \/ job'[j].state = "ready" /\ "shutdown" \in Faults
          \/ job'[j].state = "failed"
          \/ <<job[j].state, job'[j].state>> \in Follows

\* A job is enqueued once, and from then on moved by its own worker only.
LEMMA JobOwner ==
    ASSUME TypeInv, [Next]_vars, NEW j \in Jobs, job'[j] # job[j]
    PROVE  \/ \E c \in Customers, source \in Sources, body \in OutBodies \cup {"text"} :
                  Enqueue(j, c, source, body)
           \/ Worker(j)
<1> DEFINE Queued(i) ==
        \E c \in Customers, source \in Sources, body \in OutBodies \cup {"text"} :
            Enqueue(i, c, source, body)
<1>0. job \in [Jobs -> Job \cup {Unused}]
  BY DEF TypeInv, TypeOK, OutboundTypeOK
<1>1. ASSUME NEW i \in Jobs, Queued(i) PROVE i = j
  BY <1>0, <1>1 DEF Enqueue
<1>2. ASSUME NEW i \in Jobs, Worker(i) PROVE i = j
  BY <1>0, <1>2 DEF Worker, Work, Perform, Claim, Release, Crash, LoadCustomer,
       DetermineFromNumber, SendSms, RecordSent, RecordFailure, BroadcastOutbound, Goto
<1>3. CASE Staff \/ Scheduler
  <2>1. PICK i \in Jobs : Queued(i)
    BY <1>3 DEF Staff, Scheduler, CreateCustomer, UpdateCustomer, DestroyCustomer,
         MessagesCreate, EnqueueReminder, Sources, outboundVars
  <2> QED
    BY <1>1, <2>1
<1>4. ASSUME NEW r \in Requests, Webhook(r) PROVE Queued(j)
  <2>1. PICK i \in Jobs : ProcessHelp(r, i)
    BY <1>4 DEF Webhook, Serve, Handle, Receive, FindCustomer, SaveInbound,
         ProcessStop, BroadcastInbound, CrashRequest, outboundVars
  <2>2. Queued(i)
    BY <2>1 DEF ProcessHelp, In, TypeInv, Sources
  <2> QED
    BY <1>1, <2>2
<1> QED
  BY <1>2, <1>3, <1>4 DEF Next, vars

LEMMA JobSteps ==
    ASSUME TypeInv, [Next]_vars, NEW j \in Jobs
    PROVE  JobStep(j)
<1>0. TypeOK
  BY DEF TypeInv
<1>1. ASSUME NEW c \in Customers, NEW source \in Sources,
             NEW body \in OutBodies \cup {"text"}, Enqueue(j, c, source, body)
      PROVE  JobStep(j)
  BY <1>0, <1>1, EnqueueTyped DEF JobStep
<1>2. ASSUME NEW state \in {"ready"} \cup Running \cup Settled, Goto(j, state),
             job[j].state \in Running,
             \/ state = "ready" /\ "shutdown" \in Faults
             \/ state = "failed"
             \/ <<job[j].state, state>> \in Follows
      PROVE  JobStep(j)
  <2>1. job[j].state # "unused"
    BY <1>2 DEF Running
  <2> QED
    BY <1>0, <1>2, <2>1, GotoTyped DEF JobStep
<1>3. CASE Claim(j)
  <2>1. job[j] \in Job
    BY <1>0, <1>3, JobInUse DEF Claim, At
  <2> QED
    BY <1>0, <1>3, <2>1 DEF Claim, At, JobStep, Job, TypeOK, OutboundTypeOK
<1>4. CASE Release(j) \/ Crash(j)
  BY <1>2, <1>4 DEF Release, Crash, Settled
<1>5. CASE LoadCustomer(j)
  BY <1>2, <1>5 DEF LoadCustomer, At, Running, Settled, Follows
<1>6. CASE DetermineFromNumber(j)
  BY <1>2, <1>6 DEF DetermineFromNumber, At, Running, Settled, Follows
<1>7. CASE SendSms(j)
  BY <1>2, <1>7 DEF SendSms, At, Running, Settled, Follows
<1>8. CASE RecordSent(j) \/ RecordFailure(j)
  BY <1>2, <1>8 DEF RecordSent, RecordFailure, At, Running, Settled, Follows
<1>9. CASE BroadcastOutbound(j)
  BY <1>2, <1>9 DEF BroadcastOutbound, At, Running, Settled, Follows
<1>10. CASE job'[j] = job[j]
  BY <1>10 DEF JobStep
<1> QED
  BY <1>1, <1>3, <1>4, <1>5, <1>6, <1>7, <1>8, <1>9, <1>10, JobOwner
     DEF Worker, Work, Perform

\* What a job has written when it is where perform writes something.
LEMMA JobWrites ==
    ASSUME TypeInv, [Next]_vars, NEW j \in Jobs, job'[j].state # job[j].state
    PROVE  /\ job'[j].state = "accepted" =>
                 ~Unsendable(j) /\ sms' = sms \cup {TextOf(j)}
           /\ job'[j].state = "recorded" =>
                 \E m \in messages' : m.origin = Attempt(j)
           /\ job'[j].state = "finished" =>
                 broadcasts' = broadcasts \cup {Attempt(j)} /\ messages' = messages
<1>0. TypeOK
  BY DEF TypeInv
<1>1. ASSUME NEW c \in Customers, NEW source \in Sources,
             NEW body \in OutBodies \cup {"text"}, Enqueue(j, c, source, body)
      PROVE  job'[j].state = "ready"
  BY <1>0, <1>1, EnqueueTyped
<1>2. CASE Claim(j)
  <2>1. job[j] \in Job
    BY <1>0, <1>2, JobInUse DEF Claim, At
  <2>2. job'[j].state = "claimed"
    BY <1>0, <1>2, <2>1 DEF Claim, Job, TypeOK, OutboundTypeOK
  <2> QED
    BY <2>2
<1>3. ASSUME NEW state \in {"ready"} \cup Running \cup Settled, Goto(j, state),
             job[j].state # "unused"
      PROVE  job'[j].state = state
  BY <1>0, <1>3, GotoTyped
<1>4. CASE Release(j) \/ Crash(j) \/ LoadCustomer(j) \/ DetermineFromNumber(j)
  <2>1. PICK state \in {"ready", "failed", "checked", "skipped", "addressed"} :
            Goto(j, state)
    BY <1>4 DEF Release, Crash, LoadCustomer, DetermineFromNumber
  <2>2. job[j].state # "unused" /\ state \in {"ready"} \cup Running \cup Settled
    BY <1>4 DEF Release, Crash, LoadCustomer, DetermineFromNumber, At, Running, Settled
  <2>3. job'[j].state = state
    BY <1>3, <2>1, <2>2
  <2> QED
    BY <2>3
<1>5. CASE SendSms(j)
  <2>1. job[j].state # "unused"
    BY <1>5 DEF SendSms, At
  <2>2. \/ ~Unsendable(j) /\ Accept(j) /\ job'[j].state = "accepted"
        \/ job'[j].state \in {"rejected", "failed"}
    BY <1>3, <1>5, <2>1 DEF SendSms, Running, Settled
  <2> QED
    BY <2>2 DEF Accept
<1>6. CASE RecordSent(j) \/ RecordFailure(j)
  <2>1. job[j].state # "unused"
    BY <1>6 DEF RecordSent, RecordFailure, At
  <2>2. ASSUME NEW status, StoreMessage(job[j].customer, "outbound", status, Attempt(j))
        PROVE  \E m \in messages' : m.origin = Attempt(j)
    <3> DEFINE row == [customer |-> job[j].customer, direction |-> "outbound",
                       status |-> status, origin |-> Attempt(j)]
    <3>1. row \in messages' /\ row.origin = Attempt(j)
      BY <2>2 DEF StoreMessage
    <3> QED
      BY <3>1
  <2>3. \/ /\ job'[j].state = "recorded"
           /\ \E m \in messages' : m.origin = Attempt(j)
        \/ job'[j].state = "failed"
    BY <1>3, <1>6, <2>1, <2>2 DEF RecordSent, RecordFailure, Running, Settled
  <2> QED
    BY <2>3
<1>7. CASE BroadcastOutbound(j)
  <2>1. job[j].state # "unused"
    BY <1>7 DEF BroadcastOutbound, At
  <2>2. /\ job'[j].state = "finished"
        /\ broadcasts' = broadcasts \cup {Attempt(j)}
        /\ messages' = messages
    BY <1>3, <1>7, <2>1 DEF BroadcastOutbound, BroadcastAppend, Settled
  <2> QED
    BY <2>2
<1> QED
  BY <1>1, <1>2, <1>4, <1>5, <1>6, <1>7, JobOwner DEF Worker, Work, Perform

InboundRow(r) == [customer |-> req[r].customer, direction |-> "inbound",
                  status |-> "received", origin |-> r]

OutboundRow(j, status) == [customer |-> job[j].customer, direction |-> "outbound",
                           status |-> status, origin |-> Attempt(j)]

\* The four ways a step touches the messages table.
RowsDeleted(c) ==
    /\ Exists(c)
    /\ consent' = [consent EXCEPT ![c] = "gone"]
    /\ DeleteMessagesOf(c)

RowsKept ==
    /\ messages' = messages
    /\ \A c \in Customers : Exists(c) => Exists(c)'

InboundStored(r) ==
    /\ In(r, "found") /\ Exists(req[r].customer)
    /\ req'[r].state = "saved"
    /\ req'[r].customer = req[r].customer
    /\ messages' = messages \cup {InboundRow(r)}
    /\ UNCHANGED <<consent, job, sms>>

OutboundStored(j, status) ==
    /\ At(j, IF status = "sent" THEN "accepted" ELSE "rejected")
    /\ Exists(job[j].customer)
    /\ job'[j].state = "recorded"
    /\ messages' = messages \cup {OutboundRow(j, status)}
    /\ UNCHANGED <<consent, sms, req>>

LEMMA RowWrites ==
    ASSUME TypeInv, [Next]_vars
    PROVE  \/ \E c \in Customers : RowsDeleted(c)
           \/ RowsKept
           \/ \E r \in Requests : InboundStored(r)
           \/ \E j \in Jobs, status \in {"sent", "failed"} : OutboundStored(j, status)
<1>0. TypeOK /\ consent \in [Customers -> SmsConsentStatus \cup {"none", "gone"}]
  BY DEF TypeInv, TypeOK, ConsentTypeOK
<1>1. ASSUME UNCHANGED <<consentVars, messages>> PROVE RowsKept
  BY <1>1 DEF RowsKept, consentVars, Exists
<1>2. ASSUME NEW c \in Customers, NEW p \in Phones,
             CreateCustomer(c, p) \/ UpdateCustomer(c, p)
      PROVE  RowsKept
  <2>1. consent' = consent \/ consent' = [consent EXCEPT ![c] = "active"]
    BY <1>2 DEF CreateCustomer, UpdateCustomer, InsertCustomer, EditCustomer
  <2>2. \A d \in Customers : Exists(d) => Exists(d)'
    BY <1>0, <2>1 DEF Exists, SmsConsentStatus
  <2> QED
    BY <1>2, <2>2 DEF CreateCustomer, UpdateCustomer, RowsKept, messageVars
<1>3. ASSUME NEW c \in Customers, DestroyCustomer(c) PROVE RowsDeleted(c)
  BY <1>3 DEF DestroyCustomer, DeleteCustomer, RowsDeleted
<1>4. CASE Staff
  <2>1. CASE \E j \in Jobs, c \in Customers, body \in OutBodies :
                MessagesCreate(j, c, body)
    BY <1>1, <2>1 DEF MessagesCreate, messageVars
  <2> QED
    BY <1>2, <1>3, <1>4, <2>1 DEF Staff
<1>5. CASE Scheduler
  BY <1>1, <1>5 DEF Scheduler, EnqueueReminder, messageVars
<1>6. ASSUME NEW j \in Jobs, Worker(j)
      PROVE  RowsKept \/ \E status \in {"sent", "failed"} : OutboundStored(j, status)
  <2>1. CASE RecordSent(j) \/ RecordFailure(j)
    <3>1. CASE UNCHANGED messages
      BY <1>1, <2>1, <3>1 DEF RecordSent, RecordFailure
    <3>2. CASE ~UNCHANGED messages
      <4>1. PICK status \in {"sent", "failed"} :
               /\ At(j, IF status = "sent" THEN "accepted" ELSE "rejected")
               /\ Exists(job[j].customer)
               /\ StoreMessage(job[j].customer, "outbound", status, Attempt(j))
               /\ Goto(j, "recorded")
               /\ UNCHANGED <<consentVars, sms>>
        BY <2>1, <3>2 DEF RecordSent, RecordFailure, Storable
      <4>2. job[j].state # "unused"
        BY <2>1 DEF RecordSent, RecordFailure, At
      <4>3. job'[j].state = "recorded"
        BY <1>0, <4>1, <4>2, GotoTyped DEF Running
      <4>4. req' = req
        BY <1>6, <2>1 DEF Worker, Work
      <4> QED
        BY <4>1, <4>3, <4>4 DEF OutboundStored, StoreMessage, OutboundRow, consentVars
    <3> QED
      BY <3>1, <3>2
  <2>2. CASE ~(RecordSent(j) \/ RecordFailure(j))
    <3>1. UNCHANGED <<consentVars, messages>>
      BY <1>6, <2>2 DEF Worker, Work, Perform, Claim, Release, Crash, LoadCustomer,
           DetermineFromNumber, SendSms, BroadcastOutbound, messageVars
    <3> QED
      BY <1>1, <3>1
  <2> QED
    BY <2>1, <2>2
<1>7. ASSUME NEW r \in Requests, Webhook(r) PROVE RowsKept \/ InboundStored(r)
  <2>1. CASE SaveInbound(r)
    <3>1. CASE UNCHANGED messages
      BY <1>1, <2>1, <3>1 DEF SaveInbound
    <3>2. CASE ~UNCHANGED messages
      <4>1. /\ In(r, "found") /\ Exists(req[r].customer)
            /\ StoreMessage(req[r].customer, "inbound", "received", r)
            /\ Step(r, "saved")
            /\ UNCHANGED <<consentVars, outboundVars>>
        BY <2>1, <3>2 DEF SaveInbound, Storable
      <4>2. req'[r].state = "saved" /\ req'[r].customer = req[r].customer
        BY <1>0, <4>1, StepTyped DEF In, RequestState
      <4> QED
        BY <4>1, <4>2 DEF InboundStored, StoreMessage, InboundRow, consentVars, outboundVars
    <3> QED
      BY <3>1, <3>2
  <2>2. CASE ProcessStop(r)
    <3>1. consent' = consent \/ consent' = [consent EXCEPT ![req[r].customer] = "opted_out"]
      BY <2>2 DEF ProcessStop, OptOut, OptOutRefused, ConsentWriteFails, consentVars
    <3>2. \A d \in Customers : Exists(d) => Exists(d)'
      BY <1>0, <3>1 DEF Exists, SmsConsentStatus
    <3> QED
      BY <2>2, <3>2 DEF ProcessStop, RowsKept, messageVars
  <2>3. CASE ~SaveInbound(r) /\ ~ProcessStop(r)
    <3>1. UNCHANGED <<consentVars, messages>>
      BY <1>7, <2>3 DEF Webhook, Serve, Handle, Receive, FindCustomer, ProcessHelp,
           BroadcastInbound, CrashRequest, messageVars
    <3> QED
      BY <1>1, <3>1
  <2> QED
    BY <2>1, <2>2, <2>3
<1>8. CASE UNCHANGED vars
  BY <1>1, <1>8 DEF vars, consentVars
<1> QED
  BY <1>4, <1>5, <1>6, <1>7, <1>8 DEF Next

\* Twilio is called by a job that has its number.
LEMMA TextWrites ==
    ASSUME TypeInv, [Next]_vars
    PROVE  \/ sms' = sms
           \/ \E j \in Jobs :
                 /\ At(j, "addressed")
                 /\ job'[j].state = "accepted" \/ (job'[j].state = "failed" /\ "no_answer" \in Faults)
                 /\ job'[j].attempts = job[j].attempts
                 /\ job'[j].customer = job[j].customer
                 /\ sms' = sms \cup {TextOf(j)}
<1>0. TypeOK
  BY DEF TypeInv
<1>1. ASSUME NEW j \in Jobs, SendSms(j), sms' # sms
      PROVE  /\ At(j, "addressed")
             /\ job'[j].state = "accepted" \/ (job'[j].state = "failed" /\ "no_answer" \in Faults)
             /\ job'[j].attempts = job[j].attempts
             /\ job'[j].customer = job[j].customer
             /\ sms' = sms \cup {TextOf(j)}
  <2>1. job[j].state # "unused"
    BY <1>1 DEF SendSms, At
  <2>2. \/ Accept(j) /\ Goto(j, "accepted")
        \/ Accept(j) /\ Goto(j, "failed") /\ "no_answer" \in Faults
    BY <1>1 DEF SendSms
  <2> QED
    BY <1>0, <1>1, <2>1, <2>2, GotoTyped DEF SendSms, Accept, Running, Settled
<1>2. ASSUME NEW j \in Jobs, Worker(j), ~SendSms(j) PROVE sms' = sms
  BY <1>2 DEF Worker, Work, Perform, Claim, Release, Crash, LoadCustomer,
       DetermineFromNumber, RecordSent, RecordFailure, BroadcastOutbound
<1>3. CASE Staff \/ Scheduler
  BY <1>3 DEF Staff, Scheduler, CreateCustomer, UpdateCustomer, DestroyCustomer,
       MessagesCreate, EnqueueReminder, outboundVars
<1>4. ASSUME NEW r \in Requests, Webhook(r) PROVE sms' = sms
  BY <1>4 DEF Webhook, Serve, Handle, Receive, FindCustomer, SaveInbound, ProcessStop,
       ProcessHelp, BroadcastInbound, CrashRequest, outboundVars
<1>5. CASE UNCHANGED vars
  BY <1>5 DEF vars
<1> QED
  BY <1>1, <1>2, <1>3, <1>4, <1>5 DEF Next

\* States of a request whose text is in the table, or was.
Stored == {"saved", "answered", "done", "error"}

LEMMA RequestKept ==
    ASSUME TypeInv, [Next]_vars, NEW r \in Requests, req[r].state \in Stored
    PROVE  req'[r].state \in Stored /\ req'[r].customer = req[r].customer
<1>0. TypeOK /\ req \in [Requests -> Request \cup {IdleRequest}]
  BY DEF TypeInv, TypeOK, InboundTypeOK
<1>1. CASE req'[r] = req[r]
  BY <1>1
<1>2. CASE Staff \/ Scheduler \/ \E j \in Jobs : Worker(j)
  BY <1>2 DEF Staff, Scheduler, CreateCustomer, UpdateCustomer, DestroyCustomer, Worker, Work
<1>3. ASSUME NEW q \in Requests, q # r, Webhook(q) PROVE req'[r] = req[r]
  BY <1>0, <1>3 DEF Webhook, Serve, Handle, Receive, FindCustomer, SaveInbound, ProcessStop,
       ProcessHelp, BroadcastInbound, CrashRequest, Step
<1>4. CASE Webhook(r)
  <2>1. req[r].state # "idle" /\ req[r] # IdleRequest
    BY DEF Stored, IdleRequest
  <2>2. \/ ProcessStop(r) \/ BroadcastInbound(r) \/ CrashRequest(r)
        \/ \E j \in Jobs : ProcessHelp(r, j)
    BY <1>4, <2>1 DEF Stored, Webhook, Serve, Handle, Receive, FindCustomer, SaveInbound, In
  <2>3. PICK state \in {"answered", "done", "error"} : Step(r, state)
    BY <2>2 DEF ProcessStop, ProcessHelp, BroadcastInbound, CrashRequest
  <2> QED
    BY <1>0, <2>1, <2>3, StepTyped DEF Stored, RequestState
<1> QED
  BY <1>1, <1>2, <1>3, <1>4 DEF Next, vars

------------------------------------------------------------------------------
(* Consent: opt-outs are final, an answered STOP is honoured, and the log    *)
(* agrees with the row.                                                      *)

\* Requests whose find_by returned a customer.
Known(r) == req[r].state \in {"found", "saved", "answered", "done"}

\* The inductive invariant.  An answered STOP was either performed with a copy
\* that was active, or skipped because the copy was opted out: for the second
\* case the invariant keeps, from find_by on, that the row then is opted out
\* too.  No record is ever pending, nobody refers to one not yet created, and
\* such a one has no log.
ConsentInv ==
    /\ TypeInv
    /\ \A c \in Customers : consent[c] # "pending"
    /\ \A j \in Jobs : job[j].state # "unused" => consent[job[j].customer] # "none"
    /\ \A r \in Requests : Known(r) =>
          /\ consent[req[r].customer] # "none"
          /\ req[r].seen \in {"active", "opted_out"}
          /\ req[r].seen = "opted_out" => consent[req[r].customer] \in {"opted_out", "gone"}
          /\ req[r].state = "answered" => ~IsStop(req[r].body)
    /\ \A c \in Customers : consent[c] = "none" => consentLogs[c] = <<>> /\ ~optedOutAt[c]
    /\ SkippedForGood
    /\ StopHonoured
    /\ AuditTrailAgrees

\* How the consent of a record can change in one step.
ConsentMove(from, to) ==
    \/ to = from
    \/ from = "none" /\ to = "active"
    \/ from = "active" /\ to = "opted_out"
    \/ from \in {"active", "opted_out"} /\ to = "gone"

------------------------------------------------------------------------------
(* What a step does to the customers, the jobs and the requests *)

\* The four statements that write to customers and consent_logs.
LEMMA ConsentWrites ==
    ASSUME [Next]_vars
    PROVE  \/ \E c \in Customers, p \in Phones : InsertCustomer(c, p)
           \/ \E c \in Customers, p \in Phones : EditCustomer(c, p)
           \/ \E c \in Customers : DeleteCustomer(c)
           \/ \E r \in Requests : In(r, "saved") /\ OptOut(req[r].customer, req[r].seen)
           \/ UNCHANGED consentVars
<1>1. CASE UNCHANGED vars
  BY <1>1 DEF vars, consentVars
<1>2. CASE Staff
  BY <1>2 DEF Staff, CreateCustomer, UpdateCustomer, DestroyCustomer, MessagesCreate
<1>3. CASE Scheduler
  BY <1>3 DEF Scheduler, EnqueueReminder
<1>4. ASSUME NEW j \in Jobs, Worker(j) PROVE UNCHANGED consentVars
  BY <1>4 DEF Worker, Work, Perform, Claim, Release, Crash, LoadCustomer,
       DetermineFromNumber, SendSms, RecordSent, RecordFailure, BroadcastOutbound
<1>5. ASSUME NEW r \in Requests, Webhook(r)
      PROVE  \/ In(r, "saved") /\ OptOut(req[r].customer, req[r].seen)
             \/ UNCHANGED consentVars
  <2>1. CASE ProcessStop(r)
    BY <2>1 DEF ProcessStop, OptOutRefused, ConsentWriteFails
  <2>2. CASE ~ProcessStop(r)
    BY <1>5, <2>2 DEF Webhook, Serve, Handle, Receive, FindCustomer, SaveInbound,
         ProcessHelp, BroadcastInbound, CrashRequest
  <2> QED
    BY <2>1, <2>2
<1> QED
  BY <1>1, <1>2, <1>3, <1>4, <1>5 DEF Next

LEMMA ConsentMoves ==
    ASSUME ConsentInv, [Next]_vars
    PROVE  \A c \in Customers : ConsentMove(consent[c], consent'[c])
<1> USE DEF ConsentInv, TypeInv, TypeOK, ConsentTypeOK, ConsentMove
<1>1. ASSUME NEW c \in Customers, NEW p \in Phones, InsertCustomer(c, p)
      PROVE  \A d \in Customers : ConsentMove(consent[d], consent'[d])
  BY <1>1 DEF InsertCustomer
<1>2. ASSUME NEW c \in Customers, NEW p \in Phones, EditCustomer(c, p)
      PROVE  \A d \in Customers : ConsentMove(consent[d], consent'[d])
  BY <1>2 DEF EditCustomer
<1>3. ASSUME NEW c \in Customers, DeleteCustomer(c)
      PROVE  \A d \in Customers : ConsentMove(consent[d], consent'[d])
  BY <1>3 DEF DeleteCustomer, Exists, SmsConsentStatus
<1>4. ASSUME NEW r \in Requests, In(r, "saved"), OptOut(req[r].customer, req[r].seen)
      PROVE  \A d \in Customers : ConsentMove(consent[d], consent'[d])
  <2>1. req[r].customer \in Customers
    BY <1>4 DEF In
  <2> QED
    BY <1>4, <2>1 DEF OptOut, Exists, SmsConsentStatus
<1>5. CASE UNCHANGED consentVars
  BY <1>5 DEF consentVars
<1> QED
  BY <1>1, <1>2, <1>3, <1>4, <1>5, ConsentWrites

LEMMA JobMoves ==
    ASSUME ConsentInv, [Next]_vars, NEW j \in Jobs
    PROVE  \/ job'[j] = job[j]
           \/ /\ job[j].state = "unused"
              /\ job'[j].state = "ready"
              /\ job'[j].customer \in Customers
              /\ consent[job'[j].customer] # "none"
           \/ /\ job[j].state # "unused"
              /\ job'[j].customer = job[j].customer
              /\ job'[j].state = "skipped" =>
                    consent' = consent /\ consent[job[j].customer] # "active"
<1> DEFINE Moves(i) ==
           \/ job'[i] = job[i]
           \/ /\ job[i].state = "unused"
              /\ job'[i].state = "ready"
              /\ job'[i].customer \in Customers
              /\ consent[job'[i].customer] # "none"
           \/ /\ job[i].state # "unused"
              /\ job'[i].customer = job[i].customer
              /\ job'[i].state = "skipped" =>
                    consent' = consent /\ consent[job[i].customer] # "active"
<1> SUFFICES \A i \in Jobs : Moves(i)
  OBVIOUS
<1>1. ASSUME NEW i \in Jobs, NEW c \in Customers, NEW source \in Sources,
             NEW body \in OutBodies \cup {"text"},
             Enqueue(i, c, source, body), consent[c] # "none"
      PROVE  \A k \in Jobs : Moves(k)
  BY <1>1, EnqueueTyped DEF ConsentInv, TypeInv
<1>2. ASSUME NEW i \in Jobs, NEW state \in {"ready"} \cup Running \cup Settled,
             job[i].state # "unused", Goto(i, state),
             state = "skipped" => consent' = consent /\ consent[job[i].customer] # "active"
      PROVE  \A k \in Jobs : Moves(k)
  BY <1>2, GotoTyped DEF ConsentInv, TypeInv
<1>3. CASE job' = job
  BY <1>3
<1>4. CASE Staff
  <2>1. ASSUME NEW i \in Jobs, NEW c \in Customers, NEW body \in OutBodies,
               MessagesCreate(i, c, body)
        PROVE  \A k \in Jobs : Moves(k)
    <3>1. Enqueue(i, c, "inbox", body) /\ consent[c] # "none"
      BY <2>1 DEF MessagesCreate, Exists, SmsConsentStatus
    <3> QED
      BY <1>1, <3>1 DEF Sources
  <2> QED
    BY <1>3, <1>4, <2>1 DEF Staff, CreateCustomer, UpdateCustomer, DestroyCustomer, outboundVars
<1>5. CASE Scheduler
  <2>1. PICK i \in Jobs, c \in Customers : EnqueueReminder(i, c)
    BY <1>5 DEF Scheduler
  <2>2. Enqueue(i, c, "reminder", "text") /\ consent[c] # "none"
    BY <2>1 DEF EnqueueReminder, Exists, SmsConsentStatus
  <2> QED
    BY <1>1, <2>2 DEF Sources
<1>6. ASSUME NEW i \in Jobs, Worker(i) PROVE \A k \in Jobs : Moves(k)
  <2>1. CASE Claim(i)
    <3>1. job[i] \in Job
      BY <2>1, JobInUse DEF Claim, At, ConsentInv, TypeInv
    <3>2. /\ job[i].state # "unused"
          /\ job'[i].customer = job[i].customer
          /\ job'[i].state = "claimed"
          /\ \A k \in Jobs \ {i} : job'[k] = job[k]
      BY <2>1, <3>1 DEF Claim, At, ConsentInv, TypeInv, TypeOK, OutboundTypeOK, Job
    <3> QED
      BY <3>2
  <2>2. CASE LoadCustomer(i)
    <3>1. /\ job[i].state # "unused"
          /\ consent' = consent
          /\ \/ \E state \in {"checked", "failed"} : Goto(i, state)
             \/ Goto(i, "skipped") /\ consent[job[i].customer] # "active"
      BY <2>2 DEF LoadCustomer, At, consentVars, CanReceiveSms
    <3> QED
      BY <1>2, <3>1 DEF Running, Settled
  <2>3. CASE Release(i) \/ Crash(i) \/ (Perform(i) /\ ~LoadCustomer(i))
    <3>1. /\ job[i].state # "unused"
          /\ \E state \in {"ready", "failed", "addressed", "accepted", "rejected",
                           "recorded", "finished"} : Goto(i, state)
      BY <2>3 DEF Release, Crash, Perform, At, Running, DetermineFromNumber, SendSms,
           RecordSent, RecordFailure, BroadcastOutbound
    <3> QED
      BY <1>2, <3>1 DEF Running, Settled
  <2> QED
    BY <1>6, <2>1, <2>2, <2>3 DEF Worker, Work
<1>7. ASSUME NEW r \in Requests, Webhook(r) PROVE \A k \in Jobs : Moves(k)
  <2>1. ASSUME NEW i \in Jobs, ProcessHelp(r, i) PROVE \A k \in Jobs : Moves(k)
    <3>1. /\ req[r].customer \in Customers
          /\ consent[req[r].customer] # "none"
          /\ Enqueue(i, req[r].customer, "help", "text")
      BY <2>1 DEF ProcessHelp, In, Known, ConsentInv, TypeInv
    <3> QED
      BY <1>1, <3>1 DEF Sources
  <2> QED
    BY <1>3, <1>7, <2>1 DEF Webhook, Serve, Handle, Receive, FindCustomer, SaveInbound,
         ProcessStop, BroadcastInbound, CrashRequest, outboundVars
<1>8. CASE UNCHANGED vars
  BY <1>3, <1>8 DEF vars
<1> QED
  BY <1>4, <1>5, <1>6, <1>7, <1>8 DEF Next

LEMMA RequestMoves ==
    ASSUME ConsentInv, [Next]_vars, NEW r \in Requests
    PROVE  \/ req'[r] = req[r]
           \/ ~Known(r)'
           \/ /\ req'[r].state = "found"
              /\ req'[r].customer \in Customers
              /\ Exists(req'[r].customer)
              /\ req'[r].seen = consent[req'[r].customer]
              /\ consent' = consent
           \/ /\ Known(r)
              /\ req'[r].customer = req[r].customer
              /\ req'[r].seen = req[r].seen
              /\ req'[r].state = "answered" => ~IsStop(req'[r].body)
              /\ req'[r].state = "done" /\ IsStop(req'[r].body) =>
                    \/ consent'[req[r].customer] = "opted_out"
                    \/ req[r].seen # "active" /\ consent' = consent
<1> DEFINE Found(q) ==
              /\ req'[q].state = "found"
              /\ req'[q].customer \in Customers
              /\ Exists(req'[q].customer)
              /\ req'[q].seen = consent[req'[q].customer]
              /\ consent' = consent
           Advanced(q) ==
              /\ Known(q)
              /\ req'[q].customer = req[q].customer
              /\ req'[q].seen = req[q].seen
              /\ req'[q].state = "answered" => ~IsStop(req'[q].body)
              /\ req'[q].state = "done" /\ IsStop(req'[q].body) =>
                    \/ consent'[req[q].customer] = "opted_out"
                    \/ req[q].seen # "active" /\ consent' = consent
           Moves(q) == req'[q] = req[q] \/ ~Known(q)' \/ Found(q) \/ Advanced(q)
<1> SUFFICES \A q \in Requests : Moves(q)
  BY DEF Known
<1>1. CASE req' = req
  BY <1>1
<1>2. ASSUME NEW q \in Requests, NEW state \in {"unknown", "error"},
             req[q].state # "idle", Step(q, state)
      PROVE  \A k \in Requests : Moves(k)
  BY <1>2, StepTyped DEF ConsentInv, TypeInv, RequestState, Known
<1>3. ASSUME NEW q \in Requests, Known(q), NEW state \in {"saved", "answered", "done"},
             Step(q, state),
             state = "answered" => ~IsStop(req[q].body),
             state = "done" /\ IsStop(req[q].body) =>
                    \/ consent'[req[q].customer] = "opted_out"
                    \/ req[q].seen # "active" /\ consent' = consent
      PROVE  \A k \in Requests : Moves(k)
  <2>1. req[q].state # "idle"
    BY <1>3 DEF Known
  <2>2. /\ req'[q].state = state
        /\ req'[q].customer = req[q].customer
        /\ req'[q].body = req[q].body
        /\ req'[q].seen = req[q].seen
        /\ \A k \in Requests \ {q} : req'[k] = req[k]
    BY <1>3, <2>1, StepTyped DEF ConsentInv, TypeInv, RequestState
  <2>3. Advanced(q)
    BY <1>3, <2>2
  <2> QED
    BY <2>2, <2>3
<1>4. CASE Staff \/ Scheduler
  BY <1>1, <1>4 DEF Staff, Scheduler, CreateCustomer, UpdateCustomer, DestroyCustomer
<1>5. ASSUME NEW j \in Jobs, Worker(j) PROVE req' = req
  BY <1>5 DEF Worker, Work
<1>6. ASSUME NEW q \in Requests, Webhook(q) PROVE \A k \in Requests : Moves(k)
  <2>1. CASE \E p \in Phones, a \in Customers \cup {NoCustomer}, body \in InBodies :
                Receive(q, p, a, body)
    <3>1. /\ req'[q].state = "received"
          /\ \A k \in Requests \ {q} : req'[k] = req[k]
      BY <2>1 DEF Receive, ConsentInv, TypeInv, TypeOK, InboundTypeOK
    <3> QED
      BY <3>1 DEF Known
  <2>2. CASE FindCustomer(q)
    <3>1. req[q].state = "received"
      BY <2>2 DEF FindCustomer, In
    <3>2. req[q] \in Request
      BY <3>1 DEF ConsentInv, TypeInv, TypeOK, InboundTypeOK, IdleRequest
    <3>3. ASSUME NEW c \in Customers, HasPhone(c, req[q].from),
                 req' = [req EXCEPT ![q].state = "found", ![q].customer = c,
                                    ![q].seen = consent[c]]
          PROVE  \A k \in Requests : Moves(k)
      <4>1. /\ req'[q].state = "found" /\ req'[q].customer = c /\ req'[q].seen = consent[c]
            /\ \A k \in Requests \ {q} : req'[k] = req[k]
        BY <3>2, <3>3 DEF Request, ConsentInv, TypeInv, TypeOK, InboundTypeOK
      <4>2. Found(q)
        BY <2>2, <3>3, <4>1 DEF FindCustomer, consentVars, HasPhone
      <4> QED
        BY <4>1, <4>2
    <3> QED
      BY <1>2, <2>2, <3>1, <3>3 DEF FindCustomer
  <2>3. CASE SaveInbound(q)
    <3>1. Known(q) /\ req[q].state # "idle" /\ \E state \in {"saved", "error"} : Step(q, state)
      BY <2>3 DEF SaveInbound, In, Known
    <3> QED
      BY <1>2, <1>3, <3>1
  <2>4. CASE ProcessStop(q)
    <3>1. Known(q) /\ req[q].state # "idle" /\ req[q].customer \in Customers
      BY <2>4 DEF ProcessStop, In, Known, ConsentInv, TypeInv
    <3>2. CASE OptOut(req[q].customer, req[q].seen) /\ Step(q, "done")
      <4>1. consent'[req[q].customer] = "opted_out"
        BY <3>1, <3>2 DEF OptOut, ConsentInv, TypeInv, TypeOK, ConsentTypeOK
      <4> QED
        BY <1>3, <3>1, <3>2, <4>1
    <3>3. CASE OptOutRefused(req[q].seen) /\ Step(q, "done")
      <4>1. req[q].seen # "active" /\ consent' = consent
        BY <3>3 DEF OptOutRefused, CanReceiveSms, consentVars
      <4> QED
        BY <1>3, <3>1, <3>3, <4>1
    <3> QED
      BY <1>2, <2>4, <3>1, <3>2, <3>3 DEF ProcessStop
  <2>5. ASSUME NEW j \in Jobs, ProcessHelp(q, j) PROVE \A k \in Requests : Moves(k)
    <3>1. Known(q) /\ Step(q, "answered") /\ ~IsStop(req[q].body)
      BY <2>5 DEF ProcessHelp, In, Known, IsHelp, IsStop
    <3> QED
      BY <1>3, <3>1
  <2>6. CASE BroadcastInbound(q)
    <3>1. Known(q) /\ Step(q, "done")
      BY <2>6 DEF BroadcastInbound, In, Known
    <3>2. CASE In(q, "saved")
      <4>1. ~IsStop(req[q].body)
        BY <2>6, <3>2 DEF BroadcastInbound, In
      <4> QED
        BY <1>3, <3>1, <4>1
    <3>3. CASE In(q, "answered")
      <4>1. ~IsStop(req[q].body)
        BY <3>1, <3>3 DEF In, ConsentInv
      <4> QED
        BY <1>3, <3>1, <4>1
    <3> QED
      BY <2>6, <3>2, <3>3 DEF BroadcastInbound
  <2>7. CASE CrashRequest(q)
    BY <1>2, <2>7 DEF CrashRequest
  <2> QED
    BY <1>6, <2>1, <2>2, <2>3, <2>4, <2>5, <2>6, <2>7 DEF Webhook, Serve, Handle
<1>7. CASE UNCHANGED vars
  BY <1>1, <1>7 DEF vars
<1> QED
  BY <1>1, <1>4, <1>5, <1>6, <1>7 DEF Next

------------------------------------------------------------------------------
(* The consent log *)

\* The part of AuditTrailAgrees about one record.
Agrees(c) == Exists(c) =>
    /\ consentLogs[c] # <<>>
    /\ consentLogs[c][1] = "opted_in"
    /\ consent[c] = "opted_out" <=> consentLogs[c][Len(consentLogs[c])] = "opted_out"
    /\ consent[c] = "opted_out" <=> optedOutAt[c]

Unlogged(c) == consent[c] = "none" => consentLogs[c] = <<>> /\ ~optedOutAt[c]

LEMMA Appended ==
    ASSUME NEW S, NEW s \in Seq(S), NEW e \in S
    PROVE  /\ Append(s, e) # <<>>
           /\ Append(s, e)[Len(Append(s, e))] = e
           /\ s = <<>> => Append(s, e)[1] = e
           /\ s # <<>> => Append(s, e)[1] = s[1]
OBVIOUS

LEMMA AuditStep ==
    ASSUME ConsentInv, [Next]_vars, NEW d \in Customers
    PROVE  Agrees(d)' /\ Unlogged(d)'
<1> DEFINE Ok(c) == Agrees(c)' /\ Unlogged(c)'
<1> USE DEF ConsentInv, TypeInv, TypeOK
<1>1. \A c \in Customers : Agrees(c) /\ Unlogged(c)
  BY DEF AuditTrailAgrees, Agrees, Unlogged
<1>2. ASSUME NEW c \in Customers, consent'[c] = consent[c],
             optedOutAt'[c] = optedOutAt[c], consentLogs'[c] = consentLogs[c]
      PROVE  Ok(c)
  BY <1>1, <1>2 DEF Agrees, Unlogged, Exists
<1>3. ASSUME NEW c \in Customers, NEW p \in Phones, InsertCustomer(c, p) PROVE Ok(d)
  <2>1. /\ consent'[c] = "active"
        /\ optedOutAt'[c] = FALSE
        /\ consentLogs'[c] = Append(<<>>, "opted_in")
    BY <1>1, <1>3, LogTyped DEF InsertCustomer, Unlogged, ConsentTypeOK
  <2>2. consentLogs'[c] # <<>> /\ consentLogs'[c][1] = "opted_in"
        /\ consentLogs'[c][Len(consentLogs'[c])] = "opted_in"
    BY <2>1, Appended
  <2>3. Ok(c)
    BY <2>1, <2>2 DEF Agrees, Unlogged
  <2>4. CASE d # c
    BY <1>2, <1>3, <2>4, LogTyped DEF InsertCustomer, ConsentTypeOK
  <2> QED
    BY <2>3, <2>4
<1>4. ASSUME NEW c \in Customers, NEW p \in Phones, EditCustomer(c, p) PROVE Ok(d)
  BY <1>2, <1>4 DEF EditCustomer
<1>5. ASSUME NEW c \in Customers, DeleteCustomer(c) PROVE Ok(d)
  <2>1. CASE d = c
    BY <1>5, <2>1 DEF DeleteCustomer, ConsentTypeOK, Agrees, Unlogged, Exists, SmsConsentStatus
  <2>2. CASE d # c
    BY <1>2, <1>5, <2>2 DEF DeleteCustomer, ConsentTypeOK
  <2> QED
    BY <2>1, <2>2
<1>6. ASSUME NEW r \in Requests, In(r, "saved"), OptOut(req[r].customer, req[r].seen)
      PROVE  Ok(d)
  <2>1. PICK c \in Customers : c = req[r].customer
    BY <1>6 DEF In
  <2>2. OptOut(c, req[r].seen)
    BY <1>6, <2>1
  <2>3. /\ consent'[c] = "opted_out"
        /\ optedOutAt'[c] = TRUE
        /\ consentLogs'[c] = Append(consentLogs[c], "opted_out")
    BY <2>1, <2>2, LogTyped DEF OptOut, ConsentTypeOK
  <2>4. consentLogs[c] \in Seq({"opted_in", "opted_out"})
        /\ consentLogs[c] # <<>> /\ consentLogs[c][1] = "opted_in"
    BY <1>1, <2>1, <2>2 DEF OptOut, Agrees, ConsentTypeOK
  <2>5. consentLogs'[c] # <<>> /\ consentLogs'[c][1] = "opted_in"
        /\ consentLogs'[c][Len(consentLogs'[c])] = "opted_out"
    BY <2>3, <2>4, Appended
  <2>6. Ok(c)
    BY <2>3, <2>5 DEF Agrees, Unlogged
  <2>7. CASE d # c
    BY <1>2, <2>1, <2>2, <2>7, LogTyped DEF OptOut, ConsentTypeOK
  <2> QED
    BY <2>6, <2>7
<1>7. CASE UNCHANGED consentVars
  BY <1>2, <1>7 DEF consentVars
<1> QED
  BY <1>3, <1>4, <1>5, <1>6, <1>7, ConsentWrites

------------------------------------------------------------------------------
(* The invariant *)

LEMMA ConsentInitial == Init => ConsentInv
BY TypeInitial
   DEF Init, ConsentInv, ConsentInit, OutboundInit, InboundInit, Unused, IdleRequest,
       Known, SkippedForGood, StopHonoured, AuditTrailAgrees, At, In, Exists, SmsConsentStatus

LEMMA ConsentStep == ConsentInv /\ [Next]_vars => ConsentInv'
<1> SUFFICES ASSUME ConsentInv, [Next]_vars PROVE ConsentInv'
  OBVIOUS
<1>1. TypeInv'
  BY TypeStep DEF ConsentInv
<1>2. \A c \in Customers : ConsentMove(consent[c], consent'[c])
  BY ConsentMoves
<1>3. ASSUME NEW c \in Customers PROVE consent'[c] # "pending"
  BY <1>2 DEF ConsentInv, ConsentMove
<1>4. ASSUME NEW j \in Jobs
      PROVE  /\ job'[j].state # "unused" => consent'[job'[j].customer] # "none"
             /\ job'[j].state = "skipped" => consent'[job'[j].customer] # "active"
  <2>1. job[j].state # "unused" =>
           /\ job[j].customer \in Customers
           /\ consent[job[j].customer] # "none"
           /\ job[j].state = "skipped" => consent[job[j].customer] # "active"
    BY JobInUse DEF ConsentInv, TypeInv, Job, SkippedForGood, At
  <2> QED
    BY <1>2, <2>1, JobMoves DEF ConsentMove
<1>5. ASSUME NEW r \in Requests, Known(r)'
      PROVE  /\ consent'[req'[r].customer] # "none"
             /\ req'[r].seen \in {"active", "opted_out"}
             /\ req'[r].seen = "opted_out" =>
                    consent'[req'[r].customer] \in {"opted_out", "gone"}
             /\ req'[r].state = "answered" => ~IsStop(req'[r].body)
             /\ req'[r].state = "done" /\ IsStop(req'[r].body) =>
                    consent'[req'[r].customer] \in {"opted_out", "gone"}
  <2>1. Known(r) =>
           /\ req[r].customer \in Customers
           /\ consent[req[r].customer] # "none"
           /\ req[r].seen \in {"active", "opted_out"}
           /\ req[r].seen = "opted_out" => consent[req[r].customer] \in {"opted_out", "gone"}
           /\ req[r].state = "answered" => ~IsStop(req[r].body)
           /\ req[r].state = "done" /\ IsStop(req[r].body) =>
                    consent[req[r].customer] \in {"opted_out", "gone"}
    BY DEF ConsentInv, TypeInv, Known, StopHonoured, In
  <2>2. CASE req'[r] = req[r]
    BY <1>2, <1>5, <2>1, <2>2 DEF ConsentMove, Known
  <2>3. CASE /\ req'[r].state = "found"
             /\ req'[r].customer \in Customers
             /\ Exists(req'[r].customer)
             /\ req'[r].seen = consent[req'[r].customer]
             /\ consent' = consent
    BY <2>3 DEF Exists, SmsConsentStatus, ConsentInv
  <2>4. CASE /\ Known(r)
             /\ req'[r].customer = req[r].customer
             /\ req'[r].seen = req[r].seen
             /\ req'[r].state = "answered" => ~IsStop(req'[r].body)
             /\ req'[r].state = "done" /\ IsStop(req'[r].body) =>
                    \/ consent'[req[r].customer] = "opted_out"
                    \/ req[r].seen # "active" /\ consent' = consent
    BY <1>2, <2>1, <2>4 DEF ConsentMove
  <2> QED
    BY <1>5, <2>2, <2>3, <2>4, RequestMoves
<1>6. AuditTrailAgrees'
      /\ \A c \in Customers : consent'[c] = "none" => consentLogs'[c] = <<>> /\ ~optedOutAt'[c]
  BY AuditStep DEF AuditTrailAgrees, Agrees, Unlogged
<1>7. SkippedForGood'
  BY <1>4 DEF SkippedForGood, At
<1>8. StopHonoured'
  BY <1>5 DEF StopHonoured, In, Known
<1> QED
  BY <1>1, <1>3, <1>4, <1>5, <1>6, <1>7, <1>8 DEF ConsentInv

LEMMA ConsentInvariant == Spec => []ConsentInv
BY ConsentInitial, ConsentStep, PTL DEF Spec

\* A STOP that was answered keeps its sender's record out of reach of texts.
THEOREM StopIsHonoured == Spec => []StopHonoured
<1>1. ConsentInv => StopHonoured
  BY DEF ConsentInv
<1> QED
  BY ConsentInvariant, <1>1, PTL

\* The consent log and the status never disagree.
THEOREM AuditTrailCorrect == Spec => []AuditTrailAgrees
<1>1. ConsentInv => AuditTrailAgrees
  BY DEF ConsentInv
<1> QED
  BY ConsentInvariant, <1>1, PTL

\* A text is dropped only for a customer who has no consent, now or later.
THEOREM SkippedCorrect == Spec => []SkippedForGood
<1>1. ConsentInv => SkippedForGood
  BY DEF ConsentInv
<1> QED
  BY ConsentInvariant, <1>1, PTL

\* No step makes an opted-out record textable.
THEOREM OptOutsAreFinal == Spec => OptOutIsFinal
<1>1. ConsentInv /\ [Next]_vars =>
        [\A c \in Customers :
            consent[c] = "opted_out" => consent'[c] \in {"opted_out", "gone"}]_vars
  BY ConsentMoves DEF ConsentMove
<1> QED
  BY ConsentInvariant, <1>1, PTL DEF Spec, OptOutIsFinal
==============================================================================
