----------------------------- MODULE Appointments -----------------------------
(* The appointments of a business, as the staff's pages edit them. *)
EXTENDS Naturals

CONSTANTS
    Appts,         \* appointments that may be made
    Starts,        \* start times, counted like the clock
    StatusChoices, \* statuses the form is given
    HoursChoices,  \* what the settings page may be given; NoHours for none
    NoHours,
    DefaultHours,  \* 24 hours
    Places,        \* locations, and none
    MaxEdits       \* how often one appointment is changed

ASSUME ApptAssumption ==
    /\ Starts \subseteq Nat
    /\ StatusChoices \subseteq {"scheduled", "confirmed", "completed", "cancelled"}
    /\ HoursChoices \subseteq Nat \cup {NoHours}
    /\ DefaultHours \in Nat
    /\ MaxEdits \in Nat

VARIABLES appt,    \* the rows of appointments
          hours    \* the business's reminder_hours_before

apptVars == <<appt, hours>>

ApptStatus == {"scheduled", "confirmed", "completed", "cancelled"}

\* version counts the changes that matter to a reminder, the business's
\* setting included.
Row == [there : BOOLEAN, status : ApptStatus, start : Starts \cup {0}, place : Places,
        version : 0..MaxEdits]

ApptTypeOK ==
    /\ appt \in [Appts -> Row]
    /\ hours \in HoursChoices

ApptInit(nowhere) ==
    /\ appt = [a \in Appts |-> [there |-> FALSE, status |-> "scheduled", start |-> 0,
                                place |-> nowhere, version |-> 0]]
    /\ hours \in HoursChoices

\* AppointmentsController#create: any start, past ones too, and any status.
Book(a, start, status) ==
    /\ ~appt[a].there /\ appt[a].version = 0
    /\ appt' = [appt EXCEPT ![a].there = TRUE, ![a].start = start, ![a].status = status]
    /\ UNCHANGED hours

Change(a, row) ==
    /\ appt[a].there
    /\ row # appt[a]
    /\ appt[a].version < MaxEdits
    /\ appt' = [appt EXCEPT ![a] = [row EXCEPT !.version = @ + 1]]
    /\ UNCHANGED hours

Edit(a, start, status) ==
    Change(a, [appt[a] EXCEPT !.start = start, !.status = status])

\* No page sets the location, the console does.
Locate(a, place) == Change(a, [appt[a] EXCEPT !.place = place])

Cancel(a) == Change(a, [appt[a] EXCEPT !.there = FALSE])

\* Settings: the business's hours change for all its appointments.
SetHours(h) ==
    /\ h # hours
    /\ hours' = h
    /\ \A a \in Appts : appt[a].version < MaxEdits
    /\ appt' = [a \in Appts |-> [appt[a] EXCEPT !.version = @ + 1]]

HoursBefore(h) == IF h = NoHours THEN DefaultHours ELSE h

ApptNext ==
    \/ \E a \in Appts, start \in Starts, status \in StatusChoices :
            Book(a, start, status) \/ Edit(a, start, status)
    \/ \E a \in Appts : Cancel(a) \/ \E place \in Places : Locate(a, place)
    \/ \E h \in HoursChoices : SetHours(h)
==============================================================================
