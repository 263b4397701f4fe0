----------------------------- MODULE OutboundSms -----------------------------
(***************************************************************************)
(* Outbound texts: jobs in the queue and SendMessageJob, the only code     *)
(* that calls Twilio.                                                      *)
(*                                                                         *)
(* A job in the queue carries ids; the worker loads the customer's row     *)
(* once, decides with that copy, and calls Twilio and the database after.  *)
(* Each action is one such access: between two of them any other worker,   *)
(* web request or page of the staff may run.                               *)
(*                                                                         *)
(*   unused -> ready -> claimed -> checked -> addressed -> accepted        *)
(*                        |                        |          |            *)
(*                     skipped                 rejected -> recorded        *)
(*                                                            |            *)
(*   failed: perform raised, from any of these             finished        *)
(*                                                                         *)
(* Solid Queue and Twilio are external: of the queue, that it bounds the   *)
(* number of running jobs, returns the jobs of a worker that is shut down  *)
(* to the queue and fails those of one that died; of Twilio, that it       *)
(* accepts or refuses a text, or leaves the caller without an answer.      *)
(***************************************************************************)
EXTENDS MessageStore

CONSTANTS Jobs,             \* SendMessageJobs that can be enqueued
          WorkerThreads,    \* threads of the queue's workers
          MaxAttempts,      \* bound: how often one job is claimed
          OutBodies,        \* bodies that are sent, of {"text", "blank"}
          Numbered,         \* businesses with a number to send from
          Faults            \* which of AllFaults may happen

AllFaults == {"shutdown", "crash", "no_answer", "appointment_deleted"}

ASSUME OutboundAssumption ==
    /\ IsFiniteSet(Jobs)
    /\ WorkerThreads \in Nat
    /\ MaxAttempts \in Nat
    /\ Numbered \subseteq Businesses
    /\ Faults \subseteq AllFaults

VARIABLES job,   \* per job: its arguments and how far perform has come
          sms    \* the texts Twilio accepted

outboundVars == <<job, sms>>

Sources == {"inbox", "help", "reminder"}
Running == {"claimed", "checked", "addressed", "accepted", "rejected", "recorded"}
Settled == {"skipped", "finished", "failed"}
Attempts == 1..MaxAttempts

Job == [state : {"ready"} \cup Running \cup Settled,
        customer : Customers,
        source : Sources,
        body : OutBodies \cup {"text"},
        attempts : 0..MaxAttempts]

Unused == [state |-> "unused"]

\* A text carries the consent status its customer's row had when Twilio
\* accepted it: the program does not look, the properties do.
Sms == [job : Jobs,
        attempt : Attempts,
        customer : Customers,
        consent : SmsConsentStatus \cup {"none", "gone"}]

OutboundTypeOK ==
    /\ job \in [Jobs -> Job \cup {Unused}]
    /\ sms \subseteq Sms

OutboundInit ==
    /\ job = [j \in Jobs |-> Unused]
    /\ sms = {}

RunningJobs == {j \in Jobs : job[j].state \in Running}

Attempt(j) == <<j, job[j].attempts>>

At(j, state) == job[j].state = state

Goto(j, state) == job' = [job EXCEPT ![j].state = state]

------------------------------------------------------------------------------
(* The queue *)

\* SendMessageJob.perform_later
Enqueue(j, c, source, body) ==
    /\ job[j] = Unused
    /\ job' = [job EXCEPT ![j] = [state |-> "ready", customer |-> c,
                                  source |-> source, body |-> body,
                                  attempts |-> 0]]

\* A thread of the worker takes a job.
Claim(j) ==
    /\ At(j, "ready")
    /\ job[j].attempts < MaxAttempts
    /\ Cardinality(RunningJobs) < WorkerThreads
    /\ job' = [job EXCEPT ![j].state = "claimed", ![j].attempts = @ + 1]
    /\ UNCHANGED <<consentVars, messageVars, sms>>

\* The worker shuts down (a deploy): what it was running goes back to the
\* queue, wherever perform had got to.
Release(j) ==
    /\ "shutdown" \in Faults
    /\ job[j].state \in Running
    /\ job[j].attempts < MaxAttempts
    /\ Goto(j, "ready")
    /\ UNCHANGED <<consentVars, messageVars, sms>>

\* The worker dies, or a call in perform raises something that is no
\* TwilioError: the execution is failed, and without retry_on it stays so.
Crash(j) ==
    /\ "crash" \in Faults
    /\ job[j].state \in Running
    /\ Goto(j, "failed")
    /\ UNCHANGED <<consentVars, messageVars, sms>>

------------------------------------------------------------------------------
(* SendMessageJob#perform *)

\* Mutant: the consent is left to whoever enqueued the job.
LoadAnyCustomer(j) ==
    /\ At(j, "claimed")
    /\ IF Exists(job[j].customer) THEN Goto(j, "checked") ELSE Goto(j, "failed")
    /\ UNCHANGED <<consentVars, messageVars, sms>>

\* Customer.find, Business.find and the consent check on the loaded copy.
LoadCustomer(j) ==
    LET c == job[j].customer IN
    /\ At(j, "claimed")
    /\ \/ Exists(c) /\ CanReceiveSms(consent[c]) /\ Goto(j, "checked")
       \/ Exists(c) /\ ~CanReceiveSms(consent[c]) /\ Goto(j, "skipped")
       \/ ~Exists(c) /\ Goto(j, "failed")
    /\ UNCHANGED <<consentVars, messageVars, sms>>

\* Appointment.find of a reminder raises when the appointment was deleted
\* since, by itself or with its customer.
DetermineFromNumber(j) ==
    LET reminder == job[j].source = "reminder" IN
    /\ At(j, "checked")
    /\ \/ /\ reminder => Exists(job[j].customer)
          /\ Goto(j, "addressed")
       \/ /\ reminder
          /\ Exists(job[j].customer) => "appointment_deleted" \in Faults
          /\ Goto(j, "failed")
    /\ UNCHANGED <<consentVars, messageVars, sms>>

\* send_sms raises TwilioError itself, before it calls Twilio.
Unsendable(j) ==
    Blank(job[j].body) \/ BusinessOf[job[j].customer] \notin Numbered

TextOf(j) == [job |-> j, attempt |-> job[j].attempts,
              customer |-> job[j].customer, consent |-> consent[job[j].customer]]

Accept(j) == sms' = sms \cup {TextOf(j)}

\* TwilioService#send_sms: accepted; refused by the service or by Twilio
\* (RestError); or no answer, which nothing rescues, with or without the text
\* being on its way.
SendSms(j) ==
    /\ At(j, "addressed")
    /\ \/ ~Unsendable(j) /\ Accept(j) /\ Goto(j, "accepted")
       \/ UNCHANGED sms /\ Goto(j, "rejected")
       \/ /\ "no_answer" \in Faults
          /\ ~Unsendable(j)
          /\ Accept(j) \/ UNCHANGED sms
          /\ Goto(j, "failed")
    /\ UNCHANGED <<consentVars, messageVars>>

\* Message.create! with status sent and the sid.
RecordSent(j) ==
    LET c == job[j].customer IN
    /\ At(j, "accepted")
    /\ \/ /\ Storable(c, job[j].body)
          /\ StoreMessage(c, "outbound", "sent", Attempt(j))
          /\ Goto(j, "recorded")
       \/ ~Storable(c, job[j].body) /\ UNCHANGED messages /\ Goto(j, "failed")
    /\ UNCHANGED <<consentVars, broadcasts, sms>>

\* Mutant: the failure is logged, and no row written.
LogFailure(j) ==
    /\ At(j, "rejected")
    /\ Goto(j, "recorded")
    /\ UNCHANGED <<consentVars, messageVars, sms>>

\* rescue TwilioError: Message.create! with status failed.  An error raised
\* here leaves the rescue clause, and the job fails.
RecordFailure(j) ==
    LET c == job[j].customer IN
    /\ At(j, "rejected")
    /\ \/ /\ Storable(c, job[j].body)
          /\ StoreMessage(c, "outbound", "failed", Attempt(j))
          /\ Goto(j, "recorded")
       \/ ~Storable(c, job[j].body) /\ UNCHANGED messages /\ Goto(j, "failed")
    /\ UNCHANGED <<consentVars, broadcasts, sms>>

\* Mutant: retry_on StandardError, for a broadcast that fails.
BroadcastOrRetry(j) ==
    /\ At(j, "recorded")
    /\ \/ BroadcastAppend(Attempt(j)) /\ Goto(j, "finished")
       \/ UNCHANGED broadcasts /\ Goto(j, "ready")
    /\ UNCHANGED <<consentVars, messages, sms>>

BroadcastOutbound(j) ==
    /\ At(j, "recorded")
    /\ BroadcastAppend(Attempt(j))
    /\ Goto(j, "finished")
    /\ UNCHANGED <<consentVars, messages, sms>>

------------------------------------------------------------------------------
(* What enqueues a SendMessageJob, apart from the HELP reply *)

\* MessagesController#create: the staff send a reply from the inbox.
MessagesCreate(j, c, body) ==
    /\ Exists(c)
    /\ Enqueue(j, c, "inbox", body)
    /\ UNCHANGED <<consentVars, messageVars, sms>>

\* SendAppointmentReminderJob: the text is made here, and the consent left to
\* SendMessageJob.
EnqueueReminder(j, c) ==
    /\ Exists(c)
    /\ Enqueue(j, c, "reminder", "text")
    /\ UNCHANGED <<consentVars, messageVars, sms>>

Perform(j) ==
    \/ LoadCustomer(j) \/ DetermineFromNumber(j) \/ SendSms(j)
    \/ RecordSent(j) \/ RecordFailure(j) \/ BroadcastOutbound(j)
==============================================================================
