---------------------------- MODULE DeliveryStatus ----------------------------
(***************************************************************************)
(* How the status of a sent text follows Twilio's reports:                 *)
(* TwilioWebhooksController#status_callback beside SendMessageJob, which   *)
(* writes the row that the callbacks look for.                             *)
(*                                                                         *)
(* Twilio posts one callback for each status a text gets and does not wait *)
(* for the answers.  Each callback is a request of its own, served by any  *)
(* thread of the web server at any later time; one that finds no row is    *)
(* answered like the others, and Twilio does not send it again.  The       *)
(* handler loads the row in one step and writes it in another.             *)
(***************************************************************************)
EXTENDS Naturals, Sequences, DirtyTracking

CONSTANTS Texts,      \* texts Twilio accepted, one sid each
          Handlers,   \* threads of the web server
          Losses      \* which of {"network", "crash"} lose callbacks

VARIABLES reported,   \* per text: the statuses Twilio posted, in order
          pending,    \* per text: the callbacks no thread has taken yet
          row,        \* per text: the message with its sid
          handler,    \* per thread: the callback it serves and its copy of the row
          orderly     \* history: whether a text's callbacks were served in order

vars == <<reported, pending, row, handler, orderly>>

TwilioStatus == {"queued", "sending", "sent", "delivered", "failed", "undelivered"}
FinalStatus == {"delivered", "failed", "undelivered"}

\* What can follow each status at Twilio.
Successors ==
    [accepted |-> {"queued"},
     queued |-> {"sending", "failed"},
     sending |-> {"sent", "failed"},
     sent |-> {"delivered", "undelivered"},
     delivered |-> {}, failed |-> {}, undelivered |-> {}]

MessageStatus == TwilioStatus \ {"sending"}

Message == [status : MessageStatus, deliveredAt : BOOLEAN, errorMessage : BOOLEAN]

Unwritten == [status |-> "unwritten"]
Deleted == [status |-> "deleted"]

Serving == [text : Texts, callback : Nat \ {0}, seen : MessageStatus]
Free == [text |-> "none"]

TypeOK ==
    /\ reported \in [Texts -> Seq(TwilioStatus)]
    /\ pending \in [Texts -> SUBSET (Nat \ {0})]
    /\ \A t \in Texts : pending[t] \subseteq DOMAIN reported[t]
    /\ row \in [Texts -> Message \cup {Unwritten, Deleted}]
    /\ handler \in [Handlers -> Serving \cup {Free}]
    /\ \A h \in Handlers :
          handler[h] # Free => handler[h].callback \in DOMAIN reported[handler[h].text]
    /\ orderly \in [Texts -> BOOLEAN]

Init ==
    /\ reported = [t \in Texts |-> <<>>]
    /\ pending = [t \in Texts |-> {}]
    /\ row = [t \in Texts |-> Unwritten]
    /\ handler = [h \in Handlers |-> Free]
    /\ orderly = [t \in Texts |-> TRUE]

Written(t) == row[t] \notin {Unwritten, Deleted}

Latest(t) ==
    IF reported[t] = <<>> THEN "accepted" ELSE reported[t][Len(reported[t])]

------------------------------------------------------------------------------
(* Twilio and the rest of the program *)

\* The text gets another status, and its callback is on the way.
Report(t, status) ==
    /\ status \in Successors[Latest(t)]
    /\ reported' = [reported EXCEPT ![t] = Append(@, status)]
    /\ pending' = [pending EXCEPT ![t] = @ \cup {Len(reported[t]) + 1}]
    /\ UNCHANGED <<row, handler, orderly>>

\* SendMessageJob: Message.create! after Twilio has accepted the text.
RecordSent(t) ==
    /\ row[t] = Unwritten
    /\ row' = [row EXCEPT ![t] = [status |-> "sent", deliveredAt |-> FALSE,
                                  errorMessage |-> FALSE]]
    /\ UNCHANGED <<reported, pending, handler, orderly>>

\* The customer is deleted, and its messages with it.
DeleteRow(t) ==
    /\ Written(t)
    /\ row' = [row EXCEPT ![t] = Deleted]
    /\ UNCHANGED <<reported, pending, handler, orderly>>

\* The network, or a server that is down, loses a callback.
Lose(t, k) ==
    /\ "network" \in Losses
    /\ k \in pending[t]
    /\ pending' = [pending EXCEPT ![t] = @ \ {k}]
    /\ orderly' = [orderly EXCEPT ![t] = FALSE]
    /\ UNCHANGED <<reported, row, handler>>

------------------------------------------------------------------------------
(* status_callback *)

Serves(h, t) == handler[h] # Free /\ handler[h].text = t

\* Nothing of the text's earlier callbacks is still to come or being served.
InTurn(t, k) ==
    /\ \A i \in pending[t] : k <= i
    /\ \A h \in Handlers : ~Serves(h, t)

\* Message.find_by(twilio_sid: ...).
FindMessage(h, t, k) ==
    /\ handler[h] = Free
    /\ k \in pending[t]
    /\ pending' = [pending EXCEPT ![t] = @ \ {k}]
    /\ \/ /\ Written(t)
          /\ handler' = [handler EXCEPT ![h] = [text |-> t, callback |-> k,
                                                seen |-> row[t].status]]
          /\ orderly' = [orderly EXCEPT ![t] = @ /\ InTurn(t, k)]
       \/ /\ ~Written(t)
          /\ orderly' = [orderly EXCEPT ![t] = FALSE]
          /\ UNCHANGED handler
    /\ UNCHANGED <<reported, row>>

\* Mutants: any status is written; undelivered is taken for failed; delivered_at
\* is forgotten; only a row that is still "sent" is updated.
StatusUnfiltered(message, seen, status) ==
    [message EXCEPT
        !.status = Assigned(@, seen, status),
        !.deliveredAt = @ \/ status = "delivered",
        !.errorMessage = @ \/ status \in {"failed", "undelivered"}]

StatusAsFailed(message, seen, status) ==
    StatusUnfiltered(message, seen, IF status = "undelivered" THEN "failed" ELSE status)

StatusUntimed(message, seen, status) ==
    [StatusUnfiltered(message, seen, status) EXCEPT !.deliveredAt = FALSE]

StatusFromSent(message, seen, status) ==
    IF message.status = "sent" THEN StatusUnfiltered(message, seen, status) ELSE message

\* The row after the callback.  A status outside the five is answered only;
\* delivered_at and error_message are never cleared.
StatusUpdate(message, seen, status) ==
    [message EXCEPT
        !.status = IF status \in MessageStatus THEN Assigned(@, seen, status) ELSE @,
        !.deliveredAt = @ \/ status = "delivered",
        !.errorMessage = @ \/ status \in {"failed", "undelivered"}]

\* The update of a row that was deleted meanwhile touches nothing.
UpdateStatus(h) ==
    LET t == handler[h].text
        status == reported[t][handler[h].callback] IN
    /\ handler[h] # Free
    /\ IF Written(t)
       THEN row' = [row EXCEPT ![t] = StatusUpdate(@, handler[h].seen, status)]
       ELSE UNCHANGED row
    /\ handler' = [handler EXCEPT ![h] = Free]
    /\ UNCHANGED <<reported, pending, orderly>>

\* The web process dies between the two statements.
CrashHandler(h) ==
    /\ "crash" \in Losses
    /\ handler[h] # Free
    /\ orderly' = [orderly EXCEPT ![handler[h].text] = FALSE]
    /\ handler' = [handler EXCEPT ![h] = Free]
    /\ UNCHANGED <<reported, pending, row>>

------------------------------------------------------------------------------
Next ==
    \/ \E t \in Texts :
          \/ \E status \in TwilioStatus : Report(t, status)
          \/ RecordSent(t) \/ DeleteRow(t)
          \/ \E k \in pending[t] :
                Lose(t, k) \/ \E h \in Handlers : FindMessage(h, t, k)
    \/ \E h \in Handlers : UpdateStatus(h) \/ CrashHandler(h)

Spec == Init /\ [][Next]_vars

------------------------------------------------------------------------------
Reports(t) == {reported[t][k] : k \in DOMAIN reported[t]}

\* The inbox never shows an outcome that did not happen: whatever the order of
\* the callbacks and of the writes, a status other than the one the row was
\* created with is one that Twilio reported for this text.
ShownWasReported ==
    \A t \in Texts :
        Written(t) /\ row[t].status # "sent" => row[t].status \in Reports(t)

\* The details belong to the outcome: a delivered text has its delivery time
\* and no error, a failed or undelivered one its error and no delivery time,
\* and a row whose status was set back by a late callback never has both.
DetailsMatchOutcome ==
    \A t \in Texts : Written(t) =>
        /\ row[t].status = "delivered" => row[t].deliveredAt
        /\ row[t].status \in {"failed", "undelivered"} => row[t].errorMessage
        /\ ~(row[t].deliveredAt /\ row[t].errorMessage)

\* Every callback has been served.
Served(t) == pending[t] = {} /\ \A h \in Handlers : ~Serves(h, t)

\* A text whose callbacks were served one after the other, the first after the
\* job had written the row, shows the last status Twilio reported.
TracksInOrder ==
    \A t \in Texts :
        /\ orderly[t] /\ Served(t) /\ Written(t)
        /\ Latest(t) \in MessageStatus
        => row[t].status = Latest(t)
==============================================================================
