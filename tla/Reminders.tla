------------------------------ MODULE Reminders ------------------------------
(***************************************************************************)
(* The reminders: the hourly scan, the job it queues for an appointment    *)
(* and the text that job queues, up to the call to Twilio, beside staff    *)
(* who edit appointments, an admin who approves numbers, customers who opt *)
(* out, and workers that are stopped or die.                               *)
(*                                                                         *)
(*   free -> queued -> formatted -> checked -> addressed -> sent           *)
(*              |          |           |           |                       *)
(*           raised     skipped     raised      refused                    *)
(*                      raised                  unanswered                 *)
(*   died: the worker died, before the call                                *)
(*                                                                         *)
(* What SendMessageJob does after the call is in OutboundSms; here, a      *)
(* worker that is stopped before the end of it runs it once more.          *)
(***************************************************************************)
EXTENDS Appointments, SendingNumbers, Integers

CONSTANTS
    Hour,      \* the hour the scan looks ahead, in ticks of the clock
    MaxTime,   \* when the clock stops
    Jobs,      \* reminders that may be queued, each with its text
    Followed,  \* those whose text is followed: a bound, as texts do not meet
    MaxRuns,   \* how often a text may be given back to the queue
    NoAppt

ASSUME ReminderAssumption ==
    /\ Hour \in Nat /\ MaxTime \in Nat \ {0} /\ MaxRuns \in Nat
    /\ NoAppt \notin Appts
    /\ Followed \subseteq Jobs
    /\ NoLocation \in Places

VARIABLES
    now,       \* the clock, from 1 on
    copies,    \* the rows the scan has loaded and not examined yet
    job,       \* reminder jobs, from the queue to the text
    silent,    \* the appointments whose customer has opted out
    revoked,   \* history: texts addressed from a number that was rejected since
    examined,  \* history: when the scan last examined a row as it is, or 0
    slipped    \* history: rows examined too late, or too long after the last time

scanVars == <<copies, examined, slipped>>
textVars == <<job, silent, revoked>>
vars == <<apptVars, numberVars, now, textVars, scanVars>>

NoCopy == [loaded |-> FALSE, status |-> "scheduled", due |-> 0, version |-> 0]
NoJob == [state |-> "free", appt |-> NoAppt, asOf |-> 0, at |-> 0,
          status |-> "scheduled", told |-> 0, from |-> DefaultNumber, runs |-> 0]

Copy == [loaded : BOOLEAN, status : ApptStatus, due : Int, version : 0..MaxEdits]

\* The text is in the queue, or perform has come so far with it.
Texting == {"formatted", "checked", "addressed", "sent", "refused"}

\* Without a text, or without an answer to it, and never run again.
Ended == {"skipped", "raised", "unanswered", "died"}

Job == [state : {"free", "queued"} \cup Texting \cup Ended,
        appt : Appts \cup {NoAppt}, asOf : 0..MaxEdits, at : 0..MaxTime,
        status : ApptStatus, told : 0..MaxEdits, from : Numbers \cup {DefaultNumber},
        runs : 0..MaxRuns]

TypeOK ==
    /\ ApptTypeOK /\ NumbersTypeOK
    /\ now \in 1..MaxTime
    /\ copies \in [Appts -> Copy]
    /\ job \in [Jobs -> Job]
    /\ silent \subseteq Appts
    /\ revoked \subseteq Jobs
    /\ examined \in [Appts -> 0..now]
    /\ slipped \subseteq Appts

Init ==
    /\ ApptInit(NoLocation)
    /\ NumbersInit
    /\ now = 1
    /\ copies = [a \in Appts |-> NoCopy]
    /\ job = [j \in Jobs |-> NoJob]
    /\ silent = {}
    /\ revoked = {}
    /\ examined = [a \in Appts |-> 0]
    /\ slipped = {}

------------------------------------------------------------------------------
(* Time, staff, admin and customers *)

Tick ==
    /\ now < MaxTime
    /\ now' = now + 1
    /\ UNCHANGED <<apptVars, numberVars, textVars, scanVars>>

\* What the scan knew of a row that changes counts for nothing.
Staff ==
    /\ ApptNext
    /\ LET same == {a \in Appts : appt'[a] = appt[a]}
       IN  /\ examined' = [a \in Appts |-> IF a \in same THEN examined[a] ELSE 0]
           /\ slipped' = slipped \cap same
    /\ UNCHANGED <<numberVars, now, textVars, copies>>

\* A number that is rejected stays in the texts it was chosen for.
Admin ==
    /\ NumbersNext
    /\ revoked' = revoked \cup {j \in Jobs : /\ job[j].state = "addressed"
                                            /\ job[j].from \in granted \ granted'}
    /\ UNCHANGED <<apptVars, now, job, silent, scanVars>>

\* STOP of one customer, who has some of the appointments.  Nothing grants
\* the consent again.
Stop(S) ==
    /\ silent' = silent \cup S
    /\ UNCHANGED <<apptVars, numberVars, now, job, revoked, scanVars>>

------------------------------------------------------------------------------
(* ScheduleAppointmentRemindersJob *)

ReminderTime(row) == row.start - HoursBefore(hours)

\* find_each loads a batch; the table fits in one.
LoadBatch ==
    /\ \A a \in Appts : ~copies[a].loaded
    /\ \E a \in Appts : appt[a].there
    /\ copies' = [a \in Appts |->
                     IF appt[a].there
                     THEN [loaded |-> TRUE, status |-> appt[a].status,
                           due |-> ReminderTime(appt[a]), version |-> appt[a].version]
                     ELSE NoCopy]
    /\ UNCHANGED <<apptVars, numberVars, now, textVars, examined, slipped>>

\* Mutants: the window leaves out what is due now, or looks an hour back as well.
WindowOpen(time) == now < time /\ time <= now + Hour
WindowEarly(time) == now - Hour <= time /\ time <= now + Hour

\* The hour from the clock's time on, both ends included.
InNextHour(time) == now <= time /\ time <= now + Hour

Needs(copy) == copy.status = "scheduled" /\ InNextHour(copy.due)

Enqueue(a, copy) ==
    \E j \in Jobs :
        /\ job[j].state = "free"
        /\ job' = [job EXCEPT ![j] = [NoJob EXCEPT !.state = "queued", !.appt = a,
                      !.asOf = copy.version, !.at = now]]

\* One turn of the loop, with a clock read of its own.
Examine(a) ==
    LET copy == copies[a]
        current == appt[a].there /\ appt[a].version = copy.version
        late == IF examined[a] = 0 THEN copy.due < now ELSE now - examined[a] > Hour
    IN  /\ copy.loaded
        /\ IF Needs(copy) THEN Enqueue(a, copy) ELSE UNCHANGED job
        /\ copies' = [copies EXCEPT ![a] = NoCopy]
        /\ examined' = IF current THEN [examined EXCEPT ![a] = now] ELSE examined
        /\ slipped' = IF current /\ late THEN slipped \cup {a} ELSE slipped
        /\ UNCHANGED <<apptVars, numberVars, now, silent, revoked>>

\* The worker stops in the middle: the job is run again, or the next hour's.
StopScan ==
    /\ \E a \in Appts : copies[a].loaded
    /\ copies' = [a \in Appts |-> NoCopy]
    /\ UNCHANGED <<apptVars, numberVars, now, textVars, examined, slipped>>

------------------------------------------------------------------------------
(* SendAppointmentReminderJob *)

\* The text is queued with what the row says, its status not looked at.
Formatted(record, row) ==
    [record EXCEPT !.state = "formatted", !.status = row.status, !.told = row.version]


SendReminder(j) ==
    LET row == appt[job[j].appt]
    IN  /\ job[j].state = "queued"
        /\ job' = [job EXCEPT ![j] = IF row.there THEN Formatted(@, row)
                                     ELSE [@ EXCEPT !.state = "raised"]]
        /\ UNCHANGED <<apptVars, numberVars, now, silent, revoked, scanVars>>

\* The worker is stopped when the text is queued and the job not finished: the
\* job is given back, and k is the text.
SendReminderAgain(j, k) ==
    LET row == appt[job[j].appt]
    IN  /\ job[j].state = "queued" /\ job[k].state = "free"
        /\ row.there
        /\ job' = [job EXCEPT ![k] = Formatted(job[j], row)]
        /\ UNCHANGED <<apptVars, numberVars, now, silent, revoked, scanVars>>

------------------------------------------------------------------------------
(* SendMessageJob *)

\* The number is a variable of perform, there from its choice to the call.
Goto(j, state) ==
    /\ job' = [job EXCEPT ![j].state = state, ![j].from = DefaultNumber]
    /\ revoked' = revoked \ {j}
    /\ UNCHANGED <<apptVars, numberVars, now, silent, scanVars>>

\* Customer.find and the consent.  A customer who is deleted takes the
\* appointments along.
CheckConsent(j) ==
    /\ j \in Followed
    /\ job[j].state = "formatted"
    /\ \/ job[j].appt \in silent /\ Goto(j, "skipped")
       \/ job[j].appt \notin silent /\ Goto(j, "checked")
       \/ ~appt[job[j].appt].there /\ Goto(j, "raised")

\* Appointment.find, and determine_from_number.
ChooseNumber(j) ==
    LET row == appt[job[j].appt]
    IN  /\ job[j].state = "checked"
        /\ \/ /\ row.there
              /\ \E from \in FromNumbers(row.place) :
                    job' = [job EXCEPT ![j].state = "addressed", ![j].from = from]
              /\ UNCHANGED <<apptVars, numberVars, now, silent, revoked, scanVars>>
           \/ ~row.there /\ Goto(j, "raised")

\* Accepted, refused (TwilioError), or no answer, which nothing rescues, with
\* or without the text being on its way.
CallTwilio(j) ==
    /\ job[j].state = "addressed"
    /\ \E answer \in {"sent", "refused", "unanswered"} : Goto(j, answer)

Work(j) == SendReminder(j) \/ CheckConsent(j) \/ ChooseNumber(j) \/ CallTwilio(j)

\* The worker is shut down: perform begins again, wherever it had got to.
Release(j) ==
    /\ job[j].state \in Texting \ {"formatted"}
    /\ job[j].runs < MaxRuns
    /\ job' = [job EXCEPT ![j].state = "formatted", ![j].from = DefaultNumber,
                          ![j].runs = @ + 1]
    /\ revoked' = revoked \ {j}
    /\ UNCHANGED <<apptVars, numberVars, now, silent, scanVars>>

\* The worker dies: nothing retries the job.
Die(j) ==
    /\ job[j].state \in {"queued", "formatted", "checked", "addressed"}
    /\ Goto(j, "died")

------------------------------------------------------------------------------
Next ==
    \/ Tick \/ Staff \/ Admin
    \/ \E S \in SUBSET Appts : Stop(S)
    \/ LoadBatch \/ StopScan \/ \E a \in Appts : Examine(a)
    \/ \E j \in Jobs : Work(j) \/ Release(j) \/ Die(j)
    \/ \E j, k \in Jobs : SendReminderAgain(j, k)

Spec == Init /\ [][Next]_vars

\* The workers get on with the queue; nobody has to look at the clock.
FairSpec == Spec /\ \A j \in Jobs : WF_vars(Work(j))

------------------------------------------------------------------------------
Queued(a) == {j \in Jobs : job[j].appt = a}

\* A scheduled appointment whose reminder time has gone by at an examination
\* has been queued, unless that examination was the first since the row was
\* written or changed, or came more than an hour after the one before.
MissedOnlyByGap ==
    \A a \in Appts :
        (appt[a].there /\ appt[a].status = "scheduled"
            /\ examined[a] # 0 /\ a \notin slipped
            /\ ReminderTime(appt[a]) < examined[a])
        => \E j \in Queued(a) : job[j].asOf = appt[a].version

\* Nothing remembers what was queued.  Two reminders of an appointment that
\* nobody changed in between were queued within an hour all the same, however
\* often the scan ran or a job was given back, and one that nobody changed up to
\* the reminder's text is scheduled: only a change in between lets a cancelled
\* one be reminded of.
RemindedInHour ==
    /\ \A a \in Appts : \A j, k \in Queued(a) :
          job[j].asOf = job[k].asOf => job[j].at - job[k].at <= Hour
    /\ \A j \in Jobs :
          job[j].state \in Texting /\ job[j].told = job[j].asOf
              => job[j].status = "scheduled"

\* When Twilio is called with one of the requested numbers, an admin has
\* activated it since it was requested: only a number rejected between its
\* choice and the call is used without, in that one run of the job.
SentFromGranted ==
    [][\A j \in Jobs :
          /\ job[j].state = "addressed" /\ job[j].from \in Numbers
          /\ job'[j].state \in {"sent", "unanswered"}
          => job[j].from \in granted \/ j \in revoked]_vars

==============================================================================
