---------------------------- MODULE RemindersProofs ----------------------------
(***************************************************************************)
(* The reminders for any number of appointments, numbers and jobs, any     *)
(* start times and hours, and scans that run or stop at any time.          *)
(***************************************************************************)
EXTENDS Reminders, TLAPS

------------------------------------------------------------------------------
(* Type correctness *)

LEMMA StatusTyped == StatusChoices \subseteq ApptStatus /\ "scheduled" \in ApptStatus
BY ApptAssumption DEF ApptStatus

LEMMA ApptTyped == ApptTypeOK /\ ApptNext => ApptTypeOK'
<1> SUFFICES ASSUME ApptTypeOK, ApptNext PROVE ApptTypeOK'
  OBVIOUS
<1>1. ASSUME NEW a \in Appts, NEW start \in Starts, NEW status \in StatusChoices,
             Book(a, start, status)
      PROVE  ApptTypeOK'
  BY <1>1, StatusTyped DEF Book, ApptTypeOK, Row
<1>2. ASSUME NEW a \in Appts, NEW row \in Row, row.version = appt[a].version, Change(a, row)
      PROVE  ApptTypeOK'
  BY <1>2, ApptAssumption DEF Change, ApptTypeOK, Row
<1>3. ASSUME NEW a \in Appts, NEW start \in Starts, NEW status \in StatusChoices,
             Edit(a, start, status)
      PROVE  ApptTypeOK'
  <2>1. [appt[a] EXCEPT !.start = start, !.status = status] \in Row
    BY StatusTyped DEF ApptTypeOK, Row
  <2>2. [appt[a] EXCEPT !.start = start, !.status = status].version = appt[a].version
    BY DEF ApptTypeOK, Row
  <2> QED
    BY <1>2, <1>3, <2>1, <2>2 DEF Edit
<1>4. ASSUME NEW a \in Appts, NEW place \in Places, Locate(a, place) PROVE ApptTypeOK'
  <2>1. /\ [appt[a] EXCEPT !.place = place] \in Row
        /\ [appt[a] EXCEPT !.place = place].version = appt[a].version
    BY DEF ApptTypeOK, Row
  <2> QED
    BY <1>2, <1>4, <2>1 DEF Locate
<1>5. ASSUME NEW a \in Appts, Cancel(a) PROVE ApptTypeOK'
  <2>1. /\ [appt[a] EXCEPT !.there = FALSE] \in Row
        /\ [appt[a] EXCEPT !.there = FALSE].version = appt[a].version
    BY DEF ApptTypeOK, Row
  <2> QED
    BY <1>2, <1>5, <2>1 DEF Cancel
<1>6. ASSUME NEW h \in HoursChoices, SetHours(h) PROVE ApptTypeOK'
  BY <1>6, ApptAssumption DEF SetHours, ApptTypeOK, Row
<1> QED
  BY <1>1, <1>3, <1>4, <1>5, <1>6 DEF ApptNext

LEMMA NumbersTyped == NumbersTypeOK /\ NumbersNext => NumbersTypeOK'
<1> SUFFICES ASSUME NumbersTypeOK, NEW x \in Numbers,
                    \/ Approve(x) \/ Activate(x) \/ Reject(x)
                    \/ \E loc \in Locations : RequestNumber(x, loc)
             PROVE  NumbersTypeOK'
  BY DEF NumbersNext
<1> QED
  BY DEF Approve, Activate, Reject, RequestNumber, NumbersTypeOK, PhoneNumber, NumberStatus

LEMMA TimeTyped == ASSUME TypeOK, NEW a \in Appts PROVE ReminderTime(appt[a]) \in Int
<1>1. appt[a].start \in Nat
  <2>1. appt[a].start \in Starts \cup {0}
    BY DEF TypeOK, ApptTypeOK, Row
  <2>2. Starts \cup {0} \subseteq Nat
    BY ApptAssumption
  <2> QED
    BY <2>1, <2>2
<1>2. HoursBefore(hours) \in Nat
  BY ApptAssumption DEF TypeOK, ApptTypeOK, HoursBefore
<1> QED
  BY <1>1, <1>2 DEF ReminderTime

LEMMA FirstTyped == NoCopy \in Copy /\ NoJob \in Job
BY ApptAssumption, ReminderAssumption DEF NoCopy, NoJob, Copy, Job, ApptStatus

LEMMA TypeInitial == Init => TypeOK
<1> SUFFICES ASSUME Init PROVE TypeOK
  OBVIOUS
<1>1. ApptTypeOK
  BY ApptAssumption, ReminderAssumption, StatusTyped DEF Init, ApptInit, ApptTypeOK, Row
<1>2. NumbersTypeOK
  BY DEF Init, NumbersInit, NumbersTypeOK, PhoneNumber
<1> QED
  BY <1>1, <1>2, FirstTyped, ReminderAssumption DEF Init, TypeOK

\* A job that is not free is for an appointment.
ForAppt == \A j \in Jobs : job[j].state = "free" <=> job[j].appt = NoAppt

TypeInv == TypeOK /\ ForAppt

\* What a turn of the loop does to the jobs.
LEMMA ExamineJobs ==
    ASSUME TypeInv, NEW a \in Appts, Examine(a)
    PROVE  \/ ~Needs(copies[a]) /\ job' = job
           \/ /\ Needs(copies[a])
              /\ \E j \in Jobs :
                    /\ job[j].state = "free"
                    /\ job'[j] = [NoJob EXCEPT !.state = "queued", !.appt = a,
                                     !.asOf = copies[a].version, !.at = now]
                    /\ job'[j] \in Job
                    /\ \A k \in Jobs \ {j} : job'[k] = job[k]
                    /\ job' = [job EXCEPT ![j] = job'[j]]
<1>1. CASE ~Needs(copies[a])
  BY <1>1 DEF Examine
<1>2. CASE Needs(copies[a])
  <2>1. PICK j \in Jobs :
            /\ job[j].state = "free"
            /\ job' = [job EXCEPT ![j] = [NoJob EXCEPT !.state = "queued", !.appt = a,
                                             !.asOf = copies[a].version, !.at = now]]
    BY <1>2 DEF Examine, Enqueue
  <2>2. copies[a].version \in 0..MaxEdits /\ now \in 0..MaxTime
    BY ReminderAssumption DEF TypeInv, TypeOK, Copy
  <2>3. [NoJob EXCEPT !.state = "queued", !.appt = a, !.asOf = copies[a].version,
                      !.at = now] \in Job
    BY <2>2, FirstTyped DEF Job
  <2> QED
    BY <1>2, <2>1, <2>3 DEF TypeInv, TypeOK
<1> QED
  BY <1>1, <1>2

\* A worker's step moves its job on, and leaves what it is for.
Moves(j) ==
    /\ job' \in [Jobs -> Job]
    /\ \A k \in Jobs \ {j} : job'[k] = job[k]
    /\ job[j].appt \in Appts
    /\ job'[j].appt = job[j].appt /\ job'[j].asOf = job[j].asOf
    /\ job'[j].at = job[j].at
    /\ job[j].state # "free" /\ job'[j].state # "free"
    /\ revoked' \subseteq Jobs
    /\ UNCHANGED <<apptVars, numberVars, now, silent, scanVars>>

LEMMA BusyAppt ==
    ASSUME TypeInv, NEW j \in Jobs, job[j].state # "free"
    PROVE  job[j].appt \in Appts /\ appt[job[j].appt] \in Row
BY DEF TypeInv, TypeOK, ApptTypeOK, ForAppt, Job

LEMMA FormattedTyped ==
    ASSUME TypeInv, NEW j \in Jobs, job[j].state = "queued"
    PROVE  /\ Formatted(job[j], appt[job[j].appt]) \in Job
           /\ Formatted(job[j], appt[job[j].appt]).state = "formatted"
           /\ Formatted(job[j], appt[job[j].appt]).appt = job[j].appt
           /\ Formatted(job[j], appt[job[j].appt]).asOf = job[j].asOf
           /\ Formatted(job[j], appt[job[j].appt]).at = job[j].at
           /\ Formatted(job[j], appt[job[j].appt]).status = appt[job[j].appt].status
           /\ Formatted(job[j], appt[job[j].appt]).told = appt[job[j].appt].version
<1>1. /\ appt[job[j].appt].status \in ApptStatus
      /\ appt[job[j].appt].version \in 0..MaxEdits
  BY BusyAppt DEF Row
<1>2. job[j] \in Job
  BY DEF TypeInv, TypeOK
<1>3. Formatted(job[j], appt[job[j].appt]) \in Job
  BY <1>1, <1>2 DEF Formatted, Job, Texting
<1> QED
  BY <1>2, <1>3 DEF Formatted, Job

LEMMA GotoMoves ==
    ASSUME TypeInv, NEW j \in Jobs, NEW state \in {"queued"} \cup Texting \cup Ended,
           job[j].state # "free", Goto(j, state)
    PROVE  /\ Moves(j)
           /\ job'[j].state = state /\ job'[j].told = job[j].told
           /\ job'[j].status = job[j].status
<1>1. job[j] \in Job /\ job[j].appt \in Appts
  BY BusyAppt DEF TypeInv, TypeOK
<1>2. job'[j] = [job[j] EXCEPT !.state = state, !.from = DefaultNumber]
  BY DEF Goto, TypeInv, TypeOK
<1>3. job'[j] \in Job
  BY <1>1, <1>2 DEF Job
<1>4. job' \in [Jobs -> Job] /\ \A k \in Jobs \ {j} : job'[k] = job[k]
  BY <1>2, <1>3 DEF Goto, TypeInv, TypeOK
<1>5. state # "free"
  BY DEF Texting, Ended
<1>6. revoked' \subseteq Jobs
  BY DEF Goto, TypeInv, TypeOK
<1>7. UNCHANGED <<apptVars, numberVars, now, silent, scanVars>>
  BY DEF Goto
<1> QED
  BY <1>1, <1>2, <1>4, <1>5, <1>6, <1>7 DEF Moves, Job

\* The steps that move a job on are three of their own kind, and Goto.
LEMMA WorkerGoes ==
    ASSUME TypeInv, NEW j \in Jobs, Work(j) \/ Release(j) \/ Die(j)
    PROVE  \/ SendReminder(j)
           \/ ChooseNumber(j) /\ appt[job[j].appt].there
           \/ Release(j)
           \/ \E state \in {"checked", "sent", "refused"} :
                 job[j].state \in Texting /\ Goto(j, state)
           \/ \E state \in Ended : job[j].state # "free" /\ Goto(j, state)
BY DEF Work, CheckConsent, ChooseNumber, CallTwilio, Die, Texting, Ended

LEMMA ChooseMoves ==
    ASSUME TypeInv, NEW j \in Jobs, ChooseNumber(j), appt[job[j].appt].there
    PROVE  /\ Moves(j)
           /\ job[j].state = "checked" /\ job'[j].state = "addressed"
           /\ job'[j].from \in FromNumbers(appt[job[j].appt].place)
           /\ job'[j].told = job[j].told /\ job'[j].status = job[j].status
           /\ revoked' = revoked
<1>1. PICK from \in FromNumbers(appt[job[j].appt].place) :
         job' = [job EXCEPT ![j].state = "addressed", ![j].from = from]
  BY DEF ChooseNumber
<1>2. /\ job[j].state = "checked" /\ revoked' = revoked
      /\ UNCHANGED <<apptVars, numberVars, now, silent, scanVars>>
  BY DEF ChooseNumber
<1>3. job[j] \in Job /\ job[j].appt \in Appts
  BY <1>2, BusyAppt DEF TypeInv, TypeOK
<1>4. job'[j] = [job[j] EXCEPT !.state = "addressed", !.from = from]
  BY <1>1 DEF TypeInv, TypeOK
<1>5. from \in Numbers \cup {DefaultNumber}
  BY DEF FromNumbers
<1>6. job'[j] \in Job
  BY <1>3, <1>4, <1>5 DEF Job, Texting
<1>7. job' \in [Jobs -> Job] /\ \A k \in Jobs \ {j} : job'[k] = job[k]
  BY <1>1, <1>4, <1>6 DEF TypeInv, TypeOK
<1>8. revoked' \subseteq Jobs
  BY <1>2 DEF TypeInv, TypeOK
<1> QED
  BY <1>2, <1>3, <1>4, <1>7, <1>8 DEF Moves, Job

LEMMA ReleaseMoves ==
    ASSUME TypeInv, NEW j \in Jobs, Release(j)
    PROVE  /\ Moves(j)
           /\ job[j].state \in Texting /\ job'[j].state = "formatted"
           /\ job'[j].told = job[j].told /\ job'[j].status = job[j].status
<1>1. /\ job[j].state \in Texting /\ job[j].state # "free"
      /\ job' = [job EXCEPT ![j].state = "formatted", ![j].from = DefaultNumber,
                            ![j].runs = @ + 1]
      /\ UNCHANGED <<apptVars, numberVars, now, silent, scanVars>>
  BY DEF Release, Texting
<1>2. job[j] \in Job /\ job[j].appt \in Appts
  BY <1>1, BusyAppt DEF TypeInv, TypeOK
<1>3. job[j].runs + 1 \in 0..MaxRuns
  BY <1>2, ReminderAssumption DEF Release, Job
<1>4. job'[j] = [job[j] EXCEPT !.state = "formatted", !.from = DefaultNumber,
                               !.runs = job[j].runs + 1]
  BY <1>1 DEF TypeInv, TypeOK
<1>5. job'[j] \in Job
  BY <1>2, <1>3, <1>4 DEF Job, Texting
<1>6. job' \in [Jobs -> Job] /\ \A k \in Jobs \ {j} : job'[k] = job[k]
  BY <1>1, <1>4, <1>5 DEF TypeInv, TypeOK
<1>7. revoked' \subseteq Jobs
  BY DEF Release, TypeInv, TypeOK
<1> QED
  BY <1>1, <1>2, <1>4, <1>6, <1>7 DEF Moves, Job

LEMMA RemindMoves ==
    ASSUME TypeInv, NEW j \in Jobs, SendReminder(j)
    PROVE  /\ Moves(j)
           /\ \/ /\ appt[job[j].appt].there
                 /\ job'[j] = Formatted(job[j], appt[job[j].appt])
              \/ job'[j].state = "raised"
           /\ revoked' = revoked
<1>1. /\ job[j].state = "queued" /\ job[j].state # "free" /\ revoked' = revoked
      /\ UNCHANGED <<apptVars, numberVars, now, silent, scanVars>>
  BY DEF SendReminder
<1>2. revoked' \subseteq Jobs
  BY <1>1 DEF TypeInv, TypeOK
<1>3. CASE appt[job[j].appt].there
  <2>1. job' = [job EXCEPT ![j] = Formatted(job[j], appt[job[j].appt])]
    BY <1>3 DEF SendReminder
  <2>2. job'[j] = Formatted(job[j], appt[job[j].appt])
    BY <2>1 DEF TypeInv, TypeOK
  <2>3. job' \in [Jobs -> Job] /\ \A k \in Jobs \ {j} : job'[k] = job[k]
    BY <1>1, <2>1, FormattedTyped DEF TypeInv, TypeOK
  <2> QED
    BY <1>1, <1>2, <1>3, <2>2, <2>3, BusyAppt, FormattedTyped DEF Moves
<1>4. CASE ~appt[job[j].appt].there
  <2>1. job' = [job EXCEPT ![j] = [job[j] EXCEPT !.state = "raised"]]
    BY <1>4 DEF SendReminder
  <2>2. job[j] \in Job
    BY DEF TypeInv, TypeOK
  <2>3. /\ job'[j] = [job[j] EXCEPT !.state = "raised"]
        /\ \A k \in Jobs \ {j} : job'[k] = job[k]
    BY <2>1 DEF TypeInv, TypeOK
  <2>4. job' \in [Jobs -> Job]
    BY <2>1, <2>2 DEF TypeInv, TypeOK, Job, Ended
  <2> QED
    BY <1>1, <1>2, <2>2, <2>3, <2>4, BusyAppt DEF Moves, Job
<1> QED
  BY <1>3, <1>4

LEMMA WorkerMoves ==
    ASSUME TypeInv, NEW j \in Jobs, Work(j) \/ Release(j) \/ Die(j)
    PROVE  Moves(j)
<1>1. {"checked", "sent", "refused"} \subseteq Texting
  BY DEF Texting
<1>2. \A state \in Texting : state # "free"
  BY DEF Texting
<1> QED
  BY <1>1, <1>2, WorkerGoes, GotoMoves, ChooseMoves, ReleaseMoves, RemindMoves

\* A reminder job that is run again puts a second text beside the first.
LEMMA AgainJobs ==
    ASSUME TypeInv, NEW j \in Jobs, NEW k \in Jobs, SendReminderAgain(j, k)
    PROVE  /\ job' \in [Jobs -> Job]
           /\ \A l \in Jobs \ {k} : job'[l] = job[l]
           /\ j # k /\ job[k].state = "free" /\ job[j].state = "queued"
           /\ job[j].appt \in Appts /\ job'[k].appt = job[j].appt
           /\ job'[k].asOf = job[j].asOf /\ job'[k].at = job[j].at
           /\ job'[k].state = "formatted"
           /\ job'[k].status = appt[job[j].appt].status
           /\ job'[k].told = appt[job[j].appt].version
           /\ UNCHANGED <<apptVars, numberVars, now, silent, revoked, scanVars>>
<1>1. /\ job' = [job EXCEPT ![k] = Formatted(job[j], appt[job[j].appt])]
      /\ job[k].state = "free" /\ job[j].state = "queued"
      /\ UNCHANGED <<apptVars, numberVars, now, silent, revoked, scanVars>>
  BY DEF SendReminderAgain
<1>2. /\ job'[k] = Formatted(job[j], appt[job[j].appt])
      /\ \A l \in Jobs \ {k} : job'[l] = job[l]
  BY <1>1 DEF TypeInv, TypeOK
<1>3. job' \in [Jobs -> Job]
  BY <1>1, FormattedTyped DEF TypeInv, TypeOK
<1> QED
  BY <1>1, <1>2, <1>3, FormattedTyped, BusyAppt

LEMMA TypeStep == TypeInv /\ [Next]_vars => TypeInv'
<1> SUFFICES ASSUME TypeInv, [Next]_vars PROVE TypeInv'
  OBVIOUS
<1> USE DEF TypeInv, vars, apptVars, numberVars, textVars, scanVars
<1>1. ASSUME Tick PROVE TypeInv'
  BY <1>1, ReminderAssumption DEF Tick, TypeOK, ApptTypeOK, NumbersTypeOK, ForAppt
<1>2. ASSUME Staff PROVE TypeInv'
  <2>1. ApptTypeOK'
    BY <1>2, ApptTyped DEF Staff, TypeOK
  <2>2. examined' \in [Appts -> 0..now'] /\ slipped' \subseteq Appts
    BY <1>2, ReminderAssumption DEF Staff, TypeOK
  <2> QED
    BY <1>2, <2>1, <2>2 DEF Staff, TypeOK, NumbersTypeOK, ForAppt
<1>3. ASSUME Admin PROVE TypeInv'
  <2>1. revoked' \subseteq Jobs
    BY <1>3 DEF Admin, TypeOK
  <2> QED
    BY <1>3, <2>1, NumbersTyped DEF Admin, TypeOK, ApptTypeOK, ForAppt
<1>4. ASSUME LoadBatch PROVE TypeInv'
  <2>1. ASSUME NEW a \in Appts
        PROVE  [loaded |-> TRUE, status |-> appt[a].status, due |-> ReminderTime(appt[a]),
                version |-> appt[a].version] \in Copy
    BY TimeTyped DEF TypeOK, ApptTypeOK, Row, Copy
  <2>2. copies' \in [Appts -> Copy]
    BY <1>4, <2>1, FirstTyped DEF LoadBatch
  <2> QED
    BY <1>4, <2>2 DEF LoadBatch, TypeOK, ApptTypeOK, NumbersTypeOK, ForAppt
<1>5. ASSUME StopScan PROVE TypeInv'
  BY <1>5, FirstTyped DEF StopScan, TypeOK, ApptTypeOK, NumbersTypeOK, ForAppt
<1>6. ASSUME NEW a \in Appts, Examine(a) PROVE TypeInv'
  <2>1. job' \in [Jobs -> Job]
    BY <1>6, ExamineJobs DEF TypeOK
  <2>4. ForAppt'
    <3>1. CASE job' = job
      BY <3>1 DEF ForAppt
    <3>2. ASSUME NEW j \in Jobs, job'[j].state = "queued", job'[j].appt = a,
                 \A k \in Jobs \ {j} : job'[k] = job[k]
          PROVE  ForAppt'
      BY <3>2, ReminderAssumption DEF ForAppt
    <3> QED
      BY <1>6, <3>1, <3>2, ExamineJobs DEF NoJob
  <2>2. copies' \in [Appts -> Copy]
    BY <1>6, FirstTyped DEF Examine, TypeOK
  <2>3. examined' \in [Appts -> 0..now'] /\ slipped' \subseteq Appts
    BY <1>6, ReminderAssumption DEF Examine, TypeOK
  <2> QED
    BY <1>6, <2>1, <2>2, <2>3, <2>4 DEF Examine, TypeOK, ApptTypeOK, NumbersTypeOK
<1>7. ASSUME NEW j \in Jobs, Work(j) \/ Release(j) \/ Die(j) PROVE TypeInv'
  <2>1. Moves(j)
    BY <1>7, WorkerMoves
  <2>2. ForAppt'
    BY <2>1, ReminderAssumption DEF Moves, ForAppt
  <2> QED
    BY <2>1, <2>2 DEF Moves, TypeOK, ApptTypeOK, NumbersTypeOK
<1>8. ASSUME NEW j \in Jobs, NEW k \in Jobs, SendReminderAgain(j, k) PROVE TypeInv'
  <2>1. ForAppt'
    BY <1>8, AgainJobs, ReminderAssumption DEF ForAppt
  <2> QED
    BY <1>8, <2>1, AgainJobs DEF TypeOK, ApptTypeOK, NumbersTypeOK
<1>9. ASSUME NEW S \in SUBSET Appts, Stop(S) PROVE TypeInv'
  BY <1>9 DEF Stop, TypeOK, ApptTypeOK, NumbersTypeOK, ForAppt
<1>10. CASE UNCHANGED vars
  BY <1>10 DEF TypeOK, ApptTypeOK, NumbersTypeOK, ForAppt
<1> QED
  BY <1>1, <1>2, <1>3, <1>4, <1>5, <1>6, <1>7, <1>8, <1>9, <1>10 DEF Next

LEMMA TypeInvInitial == Init => TypeInv
BY TypeInitial DEF Init, TypeInv, ForAppt, NoJob

\* The variables of the reminders keep their types.
THEOREM TypeCorrect == Spec => []TypeOK
<1>1. TypeInv => TypeOK
  BY DEF TypeInv
<1> QED
  BY <1>1, TypeInvInitial, TypeStep, PTL DEF Spec

------------------------------------------------------------------------------
(* What the staff and the admin change *)

\* Every change of a row raises its version, but for the first: a row that was
\* never there is made.  Without a change the reminder time stays.
LEMMA RowMoves ==
    ASSUME TypeOK, Staff, NEW a \in Appts
    PROVE  \/ appt'[a] = appt[a] /\ ReminderTime(appt[a])' = ReminderTime(appt[a])
           \/ appt'[a].version > appt[a].version
           \/ /\ ~appt[a].there /\ appt[a].version = 0
              /\ appt'[a].there /\ appt'[a].version = 0
<1>1. appt[a] \in Row /\ appt'[a] \in Row /\ \A b \in Appts : appt[b] \in Row
  BY ApptTyped DEF Staff, TypeOK, ApptTypeOK
<1>2. ASSUME NEW b \in Appts, NEW row, row.version = appt[b].version, row \in Row, Change(b, row)
      PROVE  \/ appt'[a] = appt[a] /\ hours' = hours
             \/ appt'[a].version > appt[a].version
  BY <1>1, <1>2, ApptAssumption DEF Change, TypeOK, ApptTypeOK, Row
<1>3. ASSUME NEW h \in HoursChoices, SetHours(h)
      PROVE  appt'[a].version > appt[a].version
  BY <1>1, <1>3, ApptAssumption DEF SetHours, Row
<1>4. ASSUME NEW b \in Appts, NEW start \in Starts, NEW status \in StatusChoices,
             Book(b, start, status)
      PROVE  \/ appt'[a] = appt[a] /\ hours' = hours
             \/ /\ ~appt[a].there /\ appt[a].version = 0
                /\ appt'[a].there /\ appt'[a].version = 0
  BY <1>1, <1>4 DEF Book, TypeOK, ApptTypeOK, Row
<1>5. ASSUME NEW b \in Appts, Cancel(b) \/ \E place \in Places : Locate(b, place)
      PROVE  \E row \in Row : row.version = appt[b].version /\ Change(b, row)
  <2>1. /\ [appt[b] EXCEPT !.there = FALSE] \in Row
        /\ [appt[b] EXCEPT !.there = FALSE].version = appt[b].version
    BY <1>1 DEF Row
  <2>2. ASSUME NEW place \in Places
        PROVE  /\ [appt[b] EXCEPT !.place = place] \in Row
               /\ [appt[b] EXCEPT !.place = place].version = appt[b].version
    BY <1>1 DEF Row
  <2> QED
    BY <1>5, <2>1, <2>2 DEF Cancel, Locate
<1>6. ASSUME NEW b \in Appts, NEW start \in Starts, NEW status \in StatusChoices,
             Edit(b, start, status)
      PROVE  \E row \in Row : row.version = appt[b].version /\ Change(b, row)
  <2>1. /\ [appt[b] EXCEPT !.start = start, !.status = status] \in Row
        /\ [appt[b] EXCEPT !.start = start, !.status = status].version = appt[b].version
    BY <1>1, StatusTyped DEF Row
  <2> QED
    BY <1>6, <2>1 DEF Edit
<1>7. \/ appt'[a] = appt[a] /\ hours' = hours
      \/ appt'[a].version > appt[a].version
      \/ /\ ~appt[a].there /\ appt[a].version = 0
         /\ appt'[a].there /\ appt'[a].version = 0
  BY <1>2, <1>3, <1>4, <1>5, <1>6 DEF Staff, ApptNext
<1> QED
  BY <1>7 DEF ReminderTime, HoursBefore

\* A number is active only if an admin activated it since it was requested.
ActiveGranted == \A x \in Numbers : number[x].status = "active" => x \in granted

LEMMA GrantedStep == TypeInv /\ ActiveGranted /\ [Next]_vars => ActiveGranted'
<1> SUFFICES ASSUME TypeInv, ActiveGranted, [Next]_vars PROVE ActiveGranted'
  OBVIOUS
<1>1. ASSUME NEW x \in Numbers,
             \/ Approve(x) \/ Activate(x) \/ Reject(x)
             \/ \E loc \in Locations : RequestNumber(x, loc)
      PROVE  ActiveGranted'
  BY <1>1 DEF Approve, Activate, Reject, RequestNumber, ActiveGranted, TypeInv, TypeOK,
              NumbersTypeOK, PhoneNumber
<1>2. CASE UNCHANGED numberVars
  BY <1>2 DEF ActiveGranted, numberVars
<1>3. ASSUME NEW j \in Jobs, Work(j) \/ Release(j) \/ Die(j) PROVE UNCHANGED numberVars
  BY <1>3, WorkerMoves DEF Moves
<1> QED
  BY <1>1, <1>2, <1>3 DEF Next, vars, Tick, Staff, Admin, Stop, NumbersNext, LoadBatch,
     StopScan, Examine, SendReminderAgain

\* The number of a text that is addressed is granted, or was rejected since.
AddressedGranted ==
    \A j \in Jobs :
        job[j].state = "addressed" /\ job[j].from \in Numbers
            => job[j].from \in granted \/ j \in revoked

LEMMA AddressedStep ==
    TypeInv /\ ActiveGranted /\ AddressedGranted /\ [Next]_vars => AddressedGranted'
<1> SUFFICES ASSUME TypeInv, ActiveGranted, AddressedGranted, [Next]_vars
             PROVE  AddressedGranted'
  OBVIOUS
<1>1. CASE UNCHANGED <<job, granted, revoked>>
  BY <1>1 DEF AddressedGranted
<1>2. ASSUME Admin PROVE AddressedGranted'
  BY <1>2 DEF Admin, AddressedGranted
<1>3. ASSUME NEW a \in Appts, Examine(a) PROVE AddressedGranted'
  <2>1. UNCHANGED <<granted, revoked>>
    BY <1>3 DEF Examine, numberVars
  <2>2. ASSUME NEW j \in Jobs, job'[j].state = "addressed" PROVE job'[j] = job[j]
    BY <1>3, <2>2, ExamineJobs DEF NoJob
  <2> QED
    BY <2>1, <2>2 DEF AddressedGranted
<1>4. ASSUME NEW j \in Jobs, Work(j) \/ Release(j) \/ Die(j) PROVE AddressedGranted'
  <2>1. granted' = granted /\ \A k \in Jobs \ {j} : job'[k] = job[k]
    BY <1>4, WorkerMoves DEF Moves, numberVars
  <2>2. \A k \in Jobs \ {j} : k \in revoked => k \in revoked'
    BY <1>4, WorkerGoes, RemindMoves, ChooseMoves DEF Goto, Release
  <2>3. ASSUME job'[j].state = "addressed", job'[j].from \in Numbers
        PROVE  job'[j].from \in granted
    <3>1. ~ SendReminder(j)
      BY <2>3, RemindMoves, FormattedTyped DEF SendReminder
    <3>2. ~ Release(j)
      BY <2>3, ReleaseMoves
    <3>3. ASSUME NEW state \in {"checked", "sent", "refused"} \cup Ended,
                 job[j].state # "free", Goto(j, state)
          PROVE  FALSE
      BY <2>3, <3>3, GotoMoves DEF Texting, Ended
    <3>4. ChooseNumber(j) /\ appt[job[j].appt].there
      BY <1>4, <3>1, <3>2, <3>3, WorkerGoes DEF Texting
    <3>5. job'[j].from \in FromNumbers(appt[job[j].appt].place)
      BY <3>4, ChooseMoves
    <3> QED
      BY <2>3, <3>5, NumbersAssumption DEF FromNumbers, ActiveGranted
  <2> QED
    BY <2>1, <2>2, <2>3 DEF AddressedGranted
<1>5. ASSUME NEW j \in Jobs, NEW k \in Jobs, SendReminderAgain(j, k)
      PROVE  AddressedGranted'
  BY <1>5, AgainJobs DEF AddressedGranted, numberVars
<1> QED
  BY <1>1, <1>2, <1>3, <1>4, <1>5
     DEF Next, vars, numberVars, textVars, Tick, Staff, Stop, LoadBatch, StopScan

\* Twilio is called with a number that an admin has activated since it was
\* requested, unless it was rejected between its choice and the call.
THEOREM SendersGranted == Spec => SentFromGranted
<1>1. Init => ActiveGranted /\ AddressedGranted
  BY DEF Init, NumbersInit, NoJob, ActiveGranted, AddressedGranted
<1>2. AddressedGranted /\ [Next]_vars =>
         [\A j \in Jobs :
            /\ job[j].state = "addressed" /\ job[j].from \in Numbers
            /\ job'[j].state \in {"sent", "unanswered"}
            => job[j].from \in granted \/ j \in revoked]_vars
  BY DEF AddressedGranted
<1> QED
  BY <1>1, <1>2, TypeInvInitial, TypeStep, GrantedStep, AddressedStep, PTL
     DEF Spec, SentFromGranted

------------------------------------------------------------------------------
(* Two reminders of one appointment *)

\* The hour in which a reminder that is due is queued.
InHourAt(due, at) == at <= due /\ due <= at + Hour

\* What was queued for the row as it is was queued in its hour, for a row that
\* was scheduled; nothing was queued for a row that was never there.
QueuedAsIs(a) ==
    /\ ~appt[a].there /\ appt[a].version = 0 => Queued(a) = {} /\ ~copies[a].loaded
    /\ \A j \in Queued(a) :
          /\ job[j].asOf <= appt[a].version
          /\ job[j].asOf = appt[a].version =>
                appt[a].status = "scheduled" /\ InHourAt(ReminderTime(appt[a]), job[j].at)

\* A copy is the row as it is or as it was, with the jobs of that time.
CopyTrue(a) ==
    copies[a].loaded =>
        /\ copies[a].version <= appt[a].version
        /\ copies[a].version = appt[a].version =>
              copies[a].status = appt[a].status /\ copies[a].due = ReminderTime(appt[a])
        /\ \A j \in Queued(a) :
              job[j].asOf = copies[a].version => InHourAt(copies[a].due, job[j].at)

Paired(a) ==
    \A j, k \in Queued(a) : job[j].asOf = job[k].asOf => job[j].at - job[k].at <= Hour

Told ==
    \A j \in Jobs :
        job[j].state \in Texting /\ job[j].told = job[j].asOf
            => job[j].status = "scheduled"

QueueInv == Told /\ \A a \in Appts : QueuedAsIs(a) /\ CopyTrue(a) /\ Paired(a)

LEMMA QueueInitial == Init => QueueInv
<1> SUFFICES ASSUME Init PROVE QueueInv
  OBVIOUS
<1>1. \A a \in Appts : Queued(a) = {} /\ ~copies[a].loaded
  BY ReminderAssumption DEF Init, Queued, NoJob, NoCopy
<1>2. Told
  BY DEF Init, Told, NoJob, Texting
<1> QED
  BY <1>1, <1>2 DEF QueueInv, QueuedAsIs, CopyTrue, Paired

LEMMA QueueStaff == TypeInv /\ QueueInv /\ Staff => QueueInv'
<1> SUFFICES ASSUME TypeInv, QueueInv, Staff PROVE QueueInv'
  OBVIOUS
<1>1. job' = job /\ copies' = copies /\ \A a \in Appts : Queued(a)' = Queued(a)
  BY DEF Staff, textVars, Queued
<1>2. Told'
  BY <1>1 DEF QueueInv, Told
<1>3. ASSUME NEW a \in Appts PROVE QueuedAsIs(a)' /\ CopyTrue(a)' /\ Paired(a)'
  <2>1. /\ appt[a].version \in Nat /\ appt'[a].version \in Nat
        /\ copies[a].version \in Nat
        /\ \A j \in Queued(a) : job[j].asOf \in Nat
    BY ApptTyped, ApptAssumption
       DEF Staff, TypeInv, TypeOK, ApptTypeOK, Row, Copy, Job, Queued
  <2>2. QueuedAsIs(a) /\ CopyTrue(a) /\ Paired(a)
    BY DEF QueueInv
  <2>3. Paired(a)'
    BY <1>1, <2>2 DEF Paired
  <2>4. CASE /\ appt'[a] = appt[a]
             /\ ReminderTime(appt[a])' = ReminderTime(appt[a])
    BY <1>1, <2>2, <2>3, <2>4 DEF QueuedAsIs, CopyTrue
  <2>5. CASE appt'[a].version > appt[a].version
    <3>1. /\ \A j \in Queued(a) : job[j].asOf < appt'[a].version
          /\ copies[a].loaded => copies[a].version < appt'[a].version
          /\ appt'[a].version # 0
      BY <2>1, <2>2, <2>5 DEF QueuedAsIs, CopyTrue
    <3> QED
      BY <1>1, <2>1, <2>2, <2>3, <3>1 DEF QueuedAsIs, CopyTrue
  <2>6. CASE /\ ~appt[a].there /\ appt[a].version = 0
             /\ appt'[a].there /\ appt'[a].version = 0
    BY <1>1, <2>2, <2>3, <2>6 DEF QueuedAsIs, CopyTrue
  <2> QED
    BY <2>4, <2>5, <2>6, RowMoves DEF TypeInv
<1> QED
  BY <1>2, <1>3 DEF QueueInv

LEMMA QueueExamine ==
    ASSUME TypeInv, QueueInv, NEW b \in Appts, Examine(b)
    PROVE  QueueInv'
<1>1. /\ copies[b].loaded /\ UNCHANGED <<appt, hours, now>>
      /\ ~copies'[b].loaded
      /\ \A a \in Appts \ {b} : copies'[a] = copies[a]
  BY DEF Examine, apptVars, TypeInv, TypeOK, NoCopy
<1>2. \A a \in Appts : ReminderTime(appt[a])' = ReminderTime(appt[a])
  BY <1>1 DEF ReminderTime, HoursBefore
<1>3. CASE job' = job
  <2>1. \A a \in Appts : Queued(a)' = Queued(a)
    BY <1>3 DEF Queued
  <2> QED
    BY <1>1, <1>2, <1>3, <2>1 DEF QueueInv, QueuedAsIs, CopyTrue, Paired, Told
<1>4. ASSUME NEW j \in Jobs,
             Needs(copies[b]), job[j].state = "free", job'[j] \in Job,
             job'[j].state = "queued", job'[j].appt = b,
             job'[j].asOf = copies[b].version, job'[j].at = now,
             \A k \in Jobs \ {j} : job'[k] = job[k]
      PROVE  QueueInv'
  <2>1. /\ \A a \in Appts : j \notin Queued(a)
        /\ Queued(b)' = Queued(b) \cup {j}
        /\ \A a \in Appts \ {b} : Queued(a)' = Queued(a)
        /\ \A a \in Appts : \A k \in Queued(a) : job'[k] = job[k]
    BY <1>4, ReminderAssumption DEF Queued, TypeInv, ForAppt
  <2>2. Told'
    BY <1>4 DEF QueueInv, Told, Texting
  <2>3. ASSUME NEW a \in Appts \ {b}
        PROVE  QueuedAsIs(a)' /\ CopyTrue(a)' /\ Paired(a)'
    BY <1>1, <1>2, <2>1 DEF QueueInv, QueuedAsIs, CopyTrue, Paired
  <2>4. /\ copies[b].status = "scheduled" /\ InHourAt(copies[b].due, now)
        /\ copies[b].due \in Int /\ now \in Int
    BY <1>4 DEF Needs, InNextHour, InHourAt, TypeInv, TypeOK, Copy
  <2>5. QueuedAsIs(b) /\ CopyTrue(b) /\ Paired(b)
    BY DEF QueueInv
  <2>6. QueuedAsIs(b)'
    BY <1>1, <1>2, <1>4, <2>1, <2>4, <2>5 DEF QueuedAsIs, CopyTrue
  <2>7. ASSUME NEW k \in Queued(b), job[k].asOf = copies[b].version
        PROVE  job[k].at - now <= Hour /\ now - job[k].at <= Hour
    <3>1. InHourAt(copies[b].due, job[k].at) /\ job[k].at \in Int
      BY <1>1, <2>5, <2>7 DEF CopyTrue, TypeInv, TypeOK, Job, Queued
    <3> QED
      BY <2>4, <3>1, ReminderAssumption DEF InHourAt
  <2>8. Paired(b)'
    <3>1. now - now <= Hour
      BY <2>4, ReminderAssumption
    <3> QED
      BY <1>4, <2>1, <2>5, <2>7, <3>1 DEF Paired
  <2> QED
    BY <1>1, <2>2, <2>3, <2>6, <2>8 DEF QueueInv, CopyTrue
<1>5. CASE Needs(copies[b])
  <2>1. PICK j \in Jobs :
            /\ job[j].state = "free"
            /\ job'[j] = [NoJob EXCEPT !.state = "queued", !.appt = b,
                             !.asOf = copies[b].version, !.at = now]
            /\ job'[j] \in Job
            /\ \A k \in Jobs \ {j} : job'[k] = job[k]
    BY <1>5, ExamineJobs
  <2> QED
    BY <1>4, <1>5, <2>1 DEF NoJob
<1> QED
  BY <1>3, <1>5, ExamineJobs

LEMMA QueueWork ==
    ASSUME TypeInv, QueueInv, NEW j \in Jobs, Work(j) \/ Release(j) \/ Die(j)
    PROVE  QueueInv'
<1>1. Moves(j)
  BY WorkerMoves
<1>2. /\ UNCHANGED <<appt, hours, copies>>
      /\ \A k \in Jobs : /\ job'[k].appt = job[k].appt /\ job'[k].asOf = job[k].asOf
                         /\ job'[k].at = job[k].at
  BY <1>1 DEF Moves, apptVars, scanVars
<1>3. \A a \in Appts : /\ Queued(a)' = Queued(a) /\ Queued(a) \subseteq Jobs
                       /\ ReminderTime(appt[a])' = ReminderTime(appt[a])
  BY <1>2 DEF Queued, ReminderTime, HoursBefore
<1>4. \A a \in Appts : QueuedAsIs(a)' /\ CopyTrue(a)' /\ Paired(a)'
  BY <1>2, <1>3 DEF QueueInv, QueuedAsIs, CopyTrue, Paired
<1>5. ASSUME job'[j].state \in Texting, job'[j].told = job'[j].asOf
      PROVE  job'[j].status = "scheduled"
  <2>1. ASSUME job[j].state \in Texting, job'[j].told = job[j].told,
               job'[j].status = job[j].status
        PROVE  job'[j].status = "scheduled"
    BY <1>2, <1>5, <2>1 DEF QueueInv, Told
  <2>2. CASE SendReminder(j)
    <3>1. /\ appt[job[j].appt].there
          /\ job'[j].status = appt[job[j].appt].status
          /\ job'[j].told = appt[job[j].appt].version
      BY <1>5, <2>2, RemindMoves, FormattedTyped DEF SendReminder, Texting
    <3>2. job[j].appt \in Appts /\ j \in Queued(job[j].appt)
      BY <1>1 DEF Moves, Queued
    <3> QED
      BY <1>2, <1>5, <3>1, <3>2 DEF QueueInv, QueuedAsIs
  <2>3. CASE ChooseNumber(j) /\ appt[job[j].appt].there
    BY <2>1, <2>3, ChooseMoves DEF Texting
  <2>4. CASE Release(j)
    BY <2>1, <2>4, ReleaseMoves
  <2>5. ASSUME NEW state \in {"checked", "sent", "refused"}, job[j].state \in Texting,
               Goto(j, state)
        PROVE  job'[j].status = "scheduled"
    BY <2>1, <2>5, GotoMoves DEF Texting
  <2>6. ASSUME NEW state \in Ended, job[j].state # "free", Goto(j, state)
        PROVE  FALSE
    BY <1>5, <2>6, GotoMoves DEF Texting, Ended
  <2> QED
    BY <2>2, <2>3, <2>4, <2>5, <2>6, WorkerGoes
<1>6. Told'
  BY <1>1, <1>5 DEF Moves, QueueInv, Told
<1> QED
  BY <1>4, <1>6 DEF QueueInv

\* The second text is for the same row, from the same moment on.
LEMMA QueueAgain ==
    ASSUME TypeInv, QueueInv, NEW j \in Jobs, NEW k \in Jobs, SendReminderAgain(j, k)
    PROVE  QueueInv'
<1>0. PICK b \in Appts : b = job[j].appt
  BY AgainJobs
<1>1. UNCHANGED <<appt, hours, copies>>
  BY AgainJobs DEF apptVars, scanVars
<1>2. \A a \in Appts : ReminderTime(appt[a])' = ReminderTime(appt[a])
  BY <1>1 DEF ReminderTime, HoursBefore
<1>3. /\ j \in Queued(b)
      /\ Queued(b)' = Queued(b) \cup {k}
      /\ \A a \in Appts \ {b} : Queued(a)' = Queued(a)
      /\ \A a \in Appts : \A l \in Queued(a) : l # k /\ job'[l] = job[l]
  BY <1>0, AgainJobs, ReminderAssumption DEF Queued, TypeInv, ForAppt
<1>4. /\ job'[k].asOf = job[j].asOf /\ job'[k].at = job[j].at
      /\ \A l \in Jobs \ {k} : job'[l] = job[l]
  BY AgainJobs
<1>5. ASSUME NEW a \in Appts \ {b} PROVE QueuedAsIs(a)' /\ CopyTrue(a)' /\ Paired(a)'
  BY <1>1, <1>2, <1>3 DEF QueueInv, QueuedAsIs, CopyTrue, Paired
<1>6. QueuedAsIs(b) /\ CopyTrue(b) /\ Paired(b)
  BY <1>3 DEF QueueInv
<1>7. QueuedAsIs(b)'
  BY <1>1, <1>2, <1>3, <1>4, <1>6 DEF QueuedAsIs
<1>8. CopyTrue(b)'
  BY <1>1, <1>2, <1>3, <1>4, <1>6 DEF CopyTrue
<1>9. Paired(b)'
  <2>1. job[j].at \in Int /\ job[j].at - job[j].at <= Hour
    BY ReminderAssumption DEF TypeInv, TypeOK, Job
  <2> QED
    BY <1>3, <1>4, <1>6, <2>1 DEF Paired
<1>10. Told'
  <2>1. job'[k].told = job'[k].asOf => job'[k].status = "scheduled"
    BY <1>0, <1>3, <1>4, <1>6, AgainJobs DEF QueuedAsIs
  <2> QED
    BY <1>4, <2>1 DEF QueueInv, Told
<1> QED
  BY <1>5, <1>7, <1>8, <1>9, <1>10 DEF QueueInv

LEMMA QueueStep == TypeInv /\ QueueInv /\ [Next]_vars => QueueInv'
<1> SUFFICES ASSUME TypeInv, QueueInv, [Next]_vars PROVE QueueInv'
  OBVIOUS
<1>1. CASE UNCHANGED <<apptVars, copies, job>>
  BY <1>1 DEF QueueInv, QueuedAsIs, CopyTrue, Paired, Told, Queued, ReminderTime, HoursBefore,
              apptVars
<1>2. ASSUME LoadBatch PROVE QueueInv'
  <2>1. /\ UNCHANGED <<appt, hours, job>>
        /\ \A a \in Appts : /\ Queued(a)' = Queued(a)
                            /\ ReminderTime(appt[a])' = ReminderTime(appt[a])
    BY <1>2 DEF LoadBatch, apptVars, textVars, Queued, ReminderTime, HoursBefore
  <2>2. ASSUME NEW a \in Appts
        PROVE  /\ copies'[a].loaded => appt[a].there
               /\ copies'[a].loaded =>
                     /\ copies'[a].version = appt[a].version
                     /\ copies'[a].status = appt[a].status
                     /\ copies'[a].due = ReminderTime(appt[a])
    BY <1>2 DEF LoadBatch, NoCopy
  <2>3. \A a \in Appts : appt[a].version \in Nat
    BY ApptAssumption DEF TypeInv, TypeOK, ApptTypeOK, Row
  <2> QED
    BY <2>1, <2>2, <2>3 DEF QueueInv, QueuedAsIs, CopyTrue, Paired, Told
<1>3. ASSUME StopScan PROVE QueueInv'
  <2>1. /\ UNCHANGED <<appt, hours, job>>
        /\ \A a \in Appts : /\ Queued(a)' = Queued(a) /\ ~copies'[a].loaded
                            /\ ReminderTime(appt[a])' = ReminderTime(appt[a])
    BY <1>3 DEF StopScan, apptVars, textVars, Queued, ReminderTime, HoursBefore, NoCopy
  <2> QED
    BY <2>1 DEF QueueInv, QueuedAsIs, CopyTrue, Paired, Told
<1> QED
  BY <1>1, <1>2, <1>3, QueueStaff, QueueExamine, QueueWork, QueueAgain
     DEF Next, vars, Tick, Admin, Stop, textVars, scanVars

\* Two reminders of an appointment as it is were queued within an hour, and one
\* that nobody changed up to the text is scheduled: both are due in the hour
\* after they are queued, and what changes the due time raises the version.
THEOREM RemindedWithinHour == Spec => []RemindedInHour
<1>1. QueueInv => RemindedInHour
  BY DEF QueueInv, Paired, Told, RemindedInHour
<1> QED
  BY <1>1, TypeInvInitial, TypeStep, QueueInitial, QueueStep, PTL DEF Spec

------------------------------------------------------------------------------
(* Appointments nobody is reminded of *)

\* A scheduled appointment for which the last examination queued nothing, and
\* none before, was more than an hour ahead at that examination.
ExaminedInv ==
    \A a \in Appts :
        (/\ appt[a].there /\ appt[a].status = "scheduled"
         /\ examined[a] # 0 /\ a \notin slipped
         /\ \A j \in Queued(a) : job[j].asOf # appt[a].version)
        => ReminderTime(appt[a]) > examined[a] + Hour

LEMMA ExaminedExamine ==
    ASSUME TypeInv, QueueInv, ExaminedInv, NEW b \in Appts, Examine(b)
    PROVE  ExaminedInv'
<1>1. /\ copies[b].loaded /\ UNCHANGED <<appt, hours, now>>
  BY DEF Examine, apptVars
<1>2. \A a \in Appts : ReminderTime(appt[a])' = ReminderTime(appt[a])
  BY <1>1 DEF ReminderTime, HoursBefore
<1>3. \A a \in Appts : \A j \in Queued(a) : j \in Queued(a)' /\ job'[j].asOf = job[j].asOf
  BY ExamineJobs, ReminderAssumption DEF Queued, TypeInv, ForAppt
<1>4. ASSUME NEW a \in Appts, examined'[a] = examined[a], a \notin slipped' => a \notin slipped,
             appt[a].there, appt[a].status = "scheduled",
             examined'[a] # 0, a \notin slipped',
             \A j \in Queued(a)' : job'[j].asOf # appt[a].version
      PROVE  ReminderTime(appt[a]) > examined'[a] + Hour
  BY <1>3, <1>4 DEF ExaminedInv
<1>5. \A a \in Appts : /\ a \notin slipped' => a \notin slipped
                       /\ a # b => examined'[a] = examined[a]
  BY DEF Examine, TypeInv, TypeOK
<1>6. ASSUME appt[b].there, appt[b].status = "scheduled",
             b \notin slipped', examined'[b] # examined[b],
             \A j \in Queued(b)' : job'[j].asOf # appt[b].version
      PROVE  ReminderTime(appt[b]) > examined'[b] + Hour
  <2>1. /\ copies[b].version = appt[b].version /\ examined'[b] = now
        /\ IF examined[b] = 0 THEN copies[b].due >= now ELSE now - examined[b] <= Hour
    BY <1>6, ReminderAssumption DEF Examine, TypeInv, TypeOK, Copy
  <2>2. copies[b].status = "scheduled" /\ copies[b].due = ReminderTime(appt[b])
    BY <1>1, <1>6, <2>1 DEF QueueInv, CopyTrue
  <2>3. ~Needs(copies[b])
    <3>1. ASSUME NEW j \in Jobs,
                 job'[j] = [NoJob EXCEPT !.state = "queued", !.appt = b,
                               !.asOf = copies[b].version, !.at = now]
          PROVE  FALSE
      <4>1. j \in Queued(b)' /\ job'[j].asOf = appt[b].version
        BY <2>1, <3>1 DEF Queued, NoJob
      <4> QED
        BY <1>6, <4>1
    <3> QED
      BY <3>1, ExamineJobs
  <2>4. /\ copies[b].due \in Int /\ now \in Int /\ Hour \in Int /\ examined[b] \in Int
    BY ReminderAssumption DEF TypeInv, TypeOK, Copy
  <2>5. copies[b].due < now \/ copies[b].due > now + Hour
    BY <2>2, <2>3, <2>4 DEF Needs, InNextHour
  <2>6. examined[b] # 0 => ReminderTime(appt[b]) > examined[b] + Hour
    BY <1>3, <1>5, <1>6 DEF ExaminedInv
  <2> QED
    BY <2>1, <2>2, <2>4, <2>5, <2>6
<1> QED
  BY <1>1, <1>2, <1>4, <1>5, <1>6 DEF ExaminedInv

LEMMA ExaminedStep == TypeInv /\ QueueInv /\ ExaminedInv /\ [Next]_vars => ExaminedInv'
<1> SUFFICES ASSUME TypeInv, QueueInv, ExaminedInv, [Next]_vars PROVE ExaminedInv'
  OBVIOUS
<1>1. CASE UNCHANGED <<apptVars, job, examined, slipped>>
  BY <1>1 DEF ExaminedInv, Queued, ReminderTime, HoursBefore, apptVars
<1>2. ASSUME Staff PROVE ExaminedInv'
  <2>1. /\ job' = job
        /\ \A a \in Appts : appt'[a] # appt[a] => examined'[a] = 0
        /\ \A a \in Appts : appt'[a] = appt[a] =>
              examined'[a] = examined[a] /\ (a \notin slipped' => a \notin slipped)
    BY <1>2 DEF Staff, textVars, TypeInv, TypeOK
  <2>2. \A a \in Appts : appt[a].version \in Nat
    BY ApptAssumption DEF TypeInv, TypeOK, ApptTypeOK, Row
  <2>3. \A a \in Appts : appt'[a] = appt[a] =>
            ReminderTime(appt[a])' = ReminderTime(appt[a])
    BY <1>2, <2>2, RowMoves DEF TypeInv
  <2>4. \A a \in Appts : Queued(a)' = Queued(a)
    BY <2>1 DEF Queued
  <2> QED
    BY <2>1, <2>3, <2>4 DEF ExaminedInv
<1>3. ASSUME NEW j \in Jobs, Work(j) \/ Release(j) \/ Die(j) PROVE ExaminedInv'
  <2>1. /\ UNCHANGED <<appt, hours, examined, slipped>>
        /\ \A k \in Jobs : job'[k].appt = job[k].appt /\ job'[k].asOf = job[k].asOf
    BY <1>3, WorkerMoves DEF Moves, apptVars, scanVars
  <2>2. \A a \in Appts : /\ Queued(a)' = Queued(a) /\ Queued(a) \subseteq Jobs
                         /\ ReminderTime(appt[a])' = ReminderTime(appt[a])
    BY <2>1 DEF Queued, ReminderTime, HoursBefore
  <2> QED
    BY <2>1, <2>2 DEF ExaminedInv
<1>4. ASSUME NEW j \in Jobs, NEW k \in Jobs, SendReminderAgain(j, k) PROVE ExaminedInv'
  <2>1. UNCHANGED <<appt, hours, examined, slipped>>
    BY <1>4, AgainJobs DEF apptVars, scanVars
  <2>2. \A a \in Appts : ReminderTime(appt[a])' = ReminderTime(appt[a])
    BY <2>1 DEF ReminderTime, HoursBefore
  <2>3. \A a \in Appts : \A l \in Queued(a) : l \in Queued(a)' /\ job'[l].asOf = job[l].asOf
    BY <1>4, AgainJobs, ReminderAssumption DEF Queued, TypeInv, ForAppt
  <2> QED
    BY <2>1, <2>2, <2>3 DEF ExaminedInv
<1> QED
  BY <1>1, <1>2, <1>3, <1>4, ExaminedExamine
     DEF Next, vars, Tick, Admin, Stop, LoadBatch, StopScan, textVars, scanVars

\* An appointment whose reminder time went by without a reminder was examined
\* too late after it was written, or after the examination before.
THEOREM MissedByGapOnly == Spec => []MissedOnlyByGap
<1>1. Init => ExaminedInv
  BY DEF Init, ExaminedInv
<1>2. TypeInv /\ ExaminedInv => MissedOnlyByGap
  <2> SUFFICES ASSUME TypeInv, ExaminedInv, NEW a \in Appts,
                      appt[a].there, appt[a].status = "scheduled",
                      examined[a] # 0, a \notin slipped,
                      ReminderTime(appt[a]) < examined[a]
               PROVE  \E j \in Queued(a) : job[j].asOf = appt[a].version
    BY DEF MissedOnlyByGap
  <2>1. examined[a] \in Int /\ Hour \in Nat /\ ReminderTime(appt[a]) \in Int
    BY TimeTyped, ReminderAssumption DEF TypeInv, TypeOK
  <2>2. ~ (ReminderTime(appt[a]) > examined[a] + Hour)
    BY <2>1
  <2> QED
    BY <2>2 DEF ExaminedInv
<1> QED
  BY <1>1, <1>2, TypeInvInitial, TypeStep, QueueInitial, QueueStep, ExaminedStep, PTL
     DEF Spec
==============================================================================
