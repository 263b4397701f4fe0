------------------------- MODULE DeliveryStatusProofs -------------------------
(***************************************************************************)
(* The properties of DeliveryStatus for any number of texts and of web     *)
(* server threads, whatever is lost.                                       *)
(***************************************************************************)
EXTENDS DeliveryStatus, TLAPS

\* What a row's details were written for, and that a text has one end.
OutcomeInv ==
    \A t \in Texts :
        /\ \A k \in DOMAIN reported[t] :
              reported[t][k] \in FinalStatus => k = Len(reported[t])
        /\ Written(t) =>
              /\ row[t].status # "sent" => row[t].status \in Reports(t)
              /\ row[t].status = "delivered" => row[t].deliveredAt
              /\ row[t].status \in {"failed", "undelivered"} => row[t].errorMessage
              /\ row[t].deliveredAt => "delivered" \in Reports(t)
              /\ row[t].errorMessage => Reports(t) \cap {"failed", "undelivered"} # {}

\* The callbacks after the m-th are still to come.
Upcoming(t, m) == {i \in 1..Len(reported[t]) : i > m}

\* While the callbacks of t are served in order, m of them have been taken: the
\* last of these is the only one being served, with a copy that is up to date,
\* or it is the one the row shows.
Progress(t, m) ==
    /\ pending[t] = Upcoming(t, m)
    /\ row[t] = Unwritten => m = 0
    /\ \A h \in Handlers : Serves(h, t) =>
          /\ handler[h].callback = m
          /\ m > 0
          /\ handler[h].seen = row[t].status
          /\ \A g \in Handlers : Serves(g, t) => g = h
    /\ (\A h \in Handlers : ~Serves(h, t)) =>
          (m > 0 /\ reported[t][m] \in MessageStatus => row[t].status = reported[t][m])

OrderInv ==
    \A t \in Texts :
        orderly[t] /\ row[t] # Deleted => \E m \in 0..Len(reported[t]) : Progress(t, m)

------------------------------------------------------------------------------
LEMMA Types ==
    /\ \A s \in MessageStatus : s \notin {"unwritten", "deleted", "none"}
    /\ \A m \in Message : m # Unwritten /\ m # Deleted
    /\ MessageStatus \subseteq TwilioStatus
    /\ "sent" \in MessageStatus
BY DEF MessageStatus, TwilioStatus, Message, Unwritten, Deleted

LEMMA TypeInitial == Init => TypeOK
BY DEF Init, TypeOK

\* A callback that was reported is still among the reports after one more.
LEMMA ReportAppends ==
    ASSUME TypeOK, NEW t \in Texts, NEW status \in TwilioStatus, Report(t, status)
    PROVE  /\ reported' \in [Texts -> Seq(TwilioStatus)]
           /\ Len(reported'[t]) = Len(reported[t]) + 1
           /\ Len(reported[t]) \in Nat
           /\ DOMAIN reported[t] = 1..Len(reported[t])
           /\ DOMAIN reported'[t] = 1..(Len(reported[t]) + 1)
           /\ \A k \in DOMAIN reported[t] : reported'[t][k] = reported[t][k]
           /\ reported'[t][Len(reported[t]) + 1] = status
           /\ \A u \in Texts \ {t} : reported'[u] = reported[u]
           /\ \A u \in Texts : DOMAIN reported[u] \subseteq DOMAIN reported'[u]
<1>1. reported[t] \in Seq(TwilioStatus)
  BY DEF TypeOK
<1>2. reported'[t] = Append(reported[t], status)
  BY DEF TypeOK, Report
<1>3. \A u \in Texts \ {t} : reported'[u] = reported[u]
  BY DEF TypeOK, Report
<1>4. reported' \in [Texts -> Seq(TwilioStatus)]
  BY <1>1 DEF TypeOK, Report
<1> QED
  BY <1>1, <1>2, <1>3, <1>4

LEMMA ServedTyped ==
    ASSUME TypeOK, NEW h \in Handlers, handler[h] # Free
    PROVE  /\ handler[h].text \in Texts
           /\ handler[h].callback \in DOMAIN reported[handler[h].text]
           /\ handler[h].seen \in MessageStatus
           /\ reported[handler[h].text][handler[h].callback] \in TwilioStatus
<1>1. handler[h] \in Serving
  BY DEF TypeOK
<1>2. handler[h].callback \in DOMAIN reported[handler[h].text]
  BY DEF TypeOK
<1> QED
  BY <1>1, <1>2 DEF TypeOK, Serving

LEMMA UpdateTyped ==
    ASSUME NEW m \in Message, NEW seen \in MessageStatus, NEW status \in TwilioStatus
    PROVE  /\ StatusUpdate(m, seen, status) \in Message
           /\ StatusUpdate(m, seen, status).status \in {m.status, status}
           /\ StatusUpdate(m, seen, status).deliveredAt = (m.deliveredAt \/ status = "delivered")
           /\ StatusUpdate(m, seen, status).errorMessage =
                 (m.errorMessage \/ status \in {"failed", "undelivered"})
           /\ status \in MessageStatus /\ seen = m.status
                 => StatusUpdate(m, seen, status).status = status
           /\ status \notin MessageStatus
                 => StatusUpdate(m, seen, status).status = m.status
BY DEF StatusUpdate, Assigned, Message

\* What a thread that takes a callback, and one that finishes it, leave behind.
LEMMA Found ==
    ASSUME TypeOK, NEW t \in Texts, NEW k \in pending[t], NEW h \in Handlers,
           FindMessage(h, t, k), Written(t)
    PROVE  LET copy == [text |-> t, callback |-> k, seen |-> row[t].status] IN
           /\ copy \in Serving
           /\ k \in DOMAIN reported[t]
           /\ handler' = [handler EXCEPT ![h] = copy]
           /\ orderly' = [orderly EXCEPT ![t] = @ /\ InTurn(t, k)]
<1>1. k \in Nat \ {0} /\ k \in DOMAIN reported[t]
  BY DEF TypeOK
<1>2. row[t] \in Message
  BY DEF TypeOK, Written
<1>3. row[t].status \in MessageStatus
  BY <1>2 DEF Message
<1> QED
  BY <1>1, <1>3 DEF FindMessage, Serving

LEMMA Updated ==
    ASSUME TypeOK, NEW h \in Handlers, UpdateStatus(h)
    PROVE  LET t == handler[h].text
               status == reported[t][handler[h].callback]
               new == StatusUpdate(row[t], handler[h].seen, status) IN
           /\ t \in Texts
           /\ Written(t) =>
                 /\ row[t] \in Message
                 /\ new \in Message
                 /\ row' = [row EXCEPT ![t] = new]
           /\ ~Written(t) => UNCHANGED row
<1> DEFINE t == handler[h].text
           status == reported[t][handler[h].callback]
<1>1. handler[h] # Free
  BY DEF UpdateStatus
<1>2. t \in Texts /\ handler[h].seen \in MessageStatus /\ status \in TwilioStatus
  BY <1>1, ServedTyped
<1>3. ASSUME Written(t)
      PROVE  /\ row[t] \in Message
             /\ row' = [row EXCEPT ![t] = StatusUpdate(@, handler[h].seen, status)]
  BY <1>2, <1>3 DEF TypeOK, Written, UpdateStatus
<1>4. ~Written(t) => UNCHANGED row
  BY DEF UpdateStatus
<1> QED
  BY <1>2, <1>3, <1>4, UpdateTyped

LEMMA TypeStep == TypeOK /\ [Next]_vars => TypeOK'
<1> SUFFICES ASSUME TypeOK, [Next]_vars PROVE TypeOK'
  OBVIOUS
<1>1. CASE UNCHANGED vars
  BY <1>1 DEF vars, TypeOK
<1>2. ASSUME NEW t \in Texts, NEW status \in TwilioStatus, Report(t, status)
      PROVE  TypeOK'
  <2>1. pending' \in [Texts -> SUBSET (Nat \ {0})]
    BY <1>2, ReportAppends DEF Report, TypeOK
  <2>2. \A u \in Texts : pending'[u] \subseteq DOMAIN reported'[u]
    BY <1>2, ReportAppends DEF Report, TypeOK
  <2>3. \A h \in Handlers : handler[h] # Free => handler[h].text \in Texts
    BY ServedTyped
  <2> QED
    BY <1>2, <2>1, <2>2, <2>3, ReportAppends DEF Report, TypeOK
<1>3. ASSUME NEW t \in Texts, RecordSent(t) PROVE TypeOK'
  BY <1>3, Types DEF RecordSent, TypeOK, Message
<1>4. ASSUME NEW t \in Texts, DeleteRow(t) PROVE TypeOK'
  BY <1>4 DEF DeleteRow, TypeOK
<1>5. ASSUME NEW t \in Texts, NEW k \in pending[t], Lose(t, k) PROVE TypeOK'
  BY <1>5 DEF Lose, TypeOK
<1>6. ASSUME NEW t \in Texts, NEW k \in pending[t], NEW h \in Handlers, FindMessage(h, t, k)
      PROVE  TypeOK'
  <2>1. k \in Nat \ {0} /\ k \in DOMAIN reported[t]
    BY DEF TypeOK
  <2>2. orderly' \in [Texts -> BOOLEAN]
    BY <1>6 DEF FindMessage, TypeOK
  <2>3. CASE Written(t)
    <3> DEFINE copy == [text |-> t, callback |-> k, seen |-> row[t].status]
    <3>1. copy \in Serving /\ handler' = [handler EXCEPT ![h] = copy]
      BY <1>6, <2>3, Found
    <3>2. handler' \in [Handlers -> Serving \cup {Free}]
      BY <3>1 DEF TypeOK
    <3>3. handler'[h] = copy /\ \A g \in Handlers \ {h} : handler'[g] = handler[g]
      BY <3>1 DEF TypeOK
    <3>4. \A g \in Handlers : handler'[g] # Free =>
              handler'[g].callback \in DOMAIN reported[handler'[g].text]
      <4>1. handler'[h].text = t /\ handler'[h].callback = k
        BY <3>3
      <4>2. ASSUME NEW g \in Handlers \ {h}, handler'[g] # Free
            PROVE  handler'[g].callback \in DOMAIN reported[handler'[g].text]
        BY <3>3, <4>2 DEF TypeOK
      <4> QED
        BY <2>1, <4>1, <4>2
    <3> QED
      BY <1>6, <2>2, <3>2, <3>4 DEF FindMessage, TypeOK
  <2>4. CASE ~Written(t)
    BY <1>6, <2>2, <2>4 DEF FindMessage, TypeOK
  <2> QED
    BY <2>3, <2>4
<1>7. ASSUME NEW h \in Handlers, UpdateStatus(h) PROVE TypeOK'
  <2>1. row' \in [Texts -> Message \cup {Unwritten, Deleted}]
    BY <1>7, Updated DEF TypeOK
  <2> QED
    BY <1>7, <2>1 DEF UpdateStatus, TypeOK
<1>8. ASSUME NEW h \in Handlers, CrashHandler(h) PROVE TypeOK'
  BY <1>8 DEF CrashHandler, TypeOK
<1> QED
  BY <1>1, <1>2, <1>3, <1>4, <1>5, <1>6, <1>7, <1>8 DEF Next

\* The variables of the status callbacks keep their types.
THEOREM TypeCorrect == Spec => []TypeOK
BY TypeInitial, TypeStep, PTL DEF Spec

------------------------------------------------------------------------------
(* What the inbox shows *)

LEMMA OutcomeInitial == Init => OutcomeInv
BY DEF Init, OutcomeInv, Written

LEMMA OutcomeStep == TypeOK /\ OutcomeInv /\ [Next]_vars => OutcomeInv'
<1> SUFFICES ASSUME TypeOK, OutcomeInv, [Next]_vars PROVE OutcomeInv'
  OBVIOUS
<1>1. CASE UNCHANGED vars
  BY <1>1 DEF vars, OutcomeInv, Written, Reports
<1>2. ASSUME NEW t \in Texts, NEW status \in TwilioStatus, Report(t, status)
      PROVE  OutcomeInv'
  <2>1. \A k \in DOMAIN reported'[t] :
           reported'[t][k] \in FinalStatus => k = Len(reported'[t])
    <3>1. SUFFICES ASSUME NEW k \in DOMAIN reported[t], reported[t][k] \in FinalStatus
                   PROVE  FALSE
      BY <1>2, ReportAppends
    <3>2. k = Len(reported[t]) /\ reported[t] # <<>>
      BY <1>2, <3>1, ReportAppends DEF OutcomeInv
    <3>3. Latest(t) \in FinalStatus
      BY <3>1, <3>2 DEF Latest
    <3> QED
      BY <1>2, <3>3 DEF Report, FinalStatus, Successors
  <2>2. \A u \in Texts : Reports(u) \subseteq Reports(u)'
    BY <1>2, ReportAppends DEF Reports
  <2>3. \A u \in Texts \ {t} : reported'[u] = reported[u]
    BY <1>2, ReportAppends
  <2>4. row' = row
    BY <1>2 DEF Report
  <2> QED
    BY <2>1, <2>2, <2>3, <2>4 DEF OutcomeInv, Written
<1>3. ASSUME NEW t \in Texts, RecordSent(t) PROVE OutcomeInv'
  <2>1. reported' = reported /\ row' = [row EXCEPT ![t] =
            [status |-> "sent", deliveredAt |-> FALSE, errorMessage |-> FALSE]]
    BY <1>3 DEF RecordSent
  <2>2. row'[t].status = "sent" /\ ~row'[t].deliveredAt /\ ~row'[t].errorMessage
    BY <2>1 DEF TypeOK
  <2>3. \A u \in Texts \ {t} : row'[u] = row[u]
    BY <2>1 DEF TypeOK
  <2> QED
    BY <2>1, <2>2, <2>3 DEF OutcomeInv, Written, Reports
<1>4. ASSUME NEW t \in Texts, DeleteRow(t) PROVE OutcomeInv'
  <2>1. reported' = reported /\ row' = [row EXCEPT ![t] = Deleted]
    BY <1>4 DEF DeleteRow
  <2>2. row'[t] = Deleted /\ \A u \in Texts \ {t} : row'[u] = row[u]
    BY <2>1 DEF TypeOK
  <2> QED
    BY <2>1, <2>2 DEF OutcomeInv, Written, Reports
<1>5. ASSUME reported' = reported, row' = row PROVE OutcomeInv'
  BY <1>5 DEF OutcomeInv, Written, Reports
<1>6. ASSUME NEW h \in Handlers, UpdateStatus(h) PROVE OutcomeInv'
  <2> DEFINE t == handler[h].text
             status == reported[t][handler[h].callback]
             new == StatusUpdate(row[t], handler[h].seen, status)
  <2>1. reported' = reported /\ handler[h] # Free
    BY <1>6 DEF UpdateStatus
  <2>2. CASE ~Written(t)
    BY <1>5, <1>6, <2>1, <2>2, Updated
  <2>3. CASE Written(t)
    <3>1. /\ t \in Texts
          /\ handler[h].seen \in MessageStatus
          /\ status \in TwilioStatus
          /\ status \in Reports(t)
      BY <2>1, ServedTyped DEF Reports
    <3>2. row[t] \in Message /\ new \in Message /\ row' = [row EXCEPT ![t] = new]
      BY <1>6, <2>3, Updated
    <3>3. row'[t] = new /\ \A u \in Texts \ {t} : row'[u] = row[u]
      BY <3>1, <3>2 DEF TypeOK
    <3>4. /\ new.status \in {row[t].status, status}
          /\ new.deliveredAt = (row[t].deliveredAt \/ status = "delivered")
          /\ new.errorMessage =
                (row[t].errorMessage \/ status \in {"failed", "undelivered"})
      BY <3>1, <3>2, UpdateTyped
    <3>5. /\ new.status # "sent" => new.status \in Reports(t)
          /\ new.status = "delivered" => new.deliveredAt
          /\ new.status \in {"failed", "undelivered"} => new.errorMessage
          /\ new.deliveredAt => "delivered" \in Reports(t)
          /\ new.errorMessage => Reports(t) \cap {"failed", "undelivered"} # {}
      BY <2>3, <3>1, <3>4 DEF OutcomeInv
    <3> QED
      BY <2>1, <3>3, <3>5 DEF OutcomeInv, Written, Reports
  <2> QED
    BY <2>2, <2>3
<1> QED
  BY <1>1, <1>2, <1>3, <1>4, <1>5, <1>6 DEF Next, Lose, FindMessage, CrashHandler

LEMMA OutcomeInvariant == Spec => [](TypeOK /\ OutcomeInv)
BY TypeInitial, TypeStep, OutcomeInitial, OutcomeStep, PTL DEF Spec

\* A status in the inbox other than the first is one that Twilio reported.
THEOREM ShownIsTrue == Spec => []ShownWasReported
<1>1. OutcomeInv => ShownWasReported
  BY DEF OutcomeInv, ShownWasReported
<1> QED
  BY OutcomeInvariant, <1>1, PTL

\* The delivery time and the error of a row belong to the text's one outcome.
THEOREM DetailsAreTrue == Spec => []DetailsMatchOutcome
<1>1. TypeOK /\ OutcomeInv => DetailsMatchOutcome
  <2> SUFFICES ASSUME TypeOK, OutcomeInv, NEW t \in Texts, Written(t),
                      row[t].deliveredAt, row[t].errorMessage
               PROVE  FALSE
    BY DEF OutcomeInv, DetailsMatchOutcome
  <2>1. PICK i \in DOMAIN reported[t] : reported[t][i] = "delivered"
    BY DEF OutcomeInv, Reports
  <2>2. PICK k \in DOMAIN reported[t] : reported[t][k] \in {"failed", "undelivered"}
    BY DEF OutcomeInv, Reports
  <2>3. i = Len(reported[t]) /\ k = Len(reported[t])
    BY <2>1, <2>2 DEF OutcomeInv, FinalStatus
  <2> QED
    BY <2>1, <2>2, <2>3
<1> QED
  BY OutcomeInvariant, <1>1, PTL

------------------------------------------------------------------------------
(* The order of the callbacks *)

\* A text that a step does not touch keeps its progress.
LEMMA OtherText ==
    ASSUME NEW t \in Texts, NEW m \in Nat, Progress(t, m),
           reported'[t] = reported[t], pending'[t] = pending[t], row'[t] = row[t],
           \A h \in Handlers : handler'[h] = handler[h] \/ (~Serves(h, t) /\ ~Serves(h, t)')
    PROVE  Progress(t, m)'
<1>1. \A h \in Handlers : Serves(h, t)' <=> Serves(h, t)
  BY DEF Serves
<1>2. \A h \in Handlers : Serves(h, t) => handler'[h] = handler[h]
  OBVIOUS
<1>3. Upcoming(t, m)' = Upcoming(t, m)
  BY DEF Upcoming
<1> QED
  BY <1>1, <1>2, <1>3 DEF Progress

LEMMA OrderInitial == Init => OrderInv
<1> SUFFICES ASSUME Init, NEW t \in Texts PROVE Progress(t, 0)
  BY DEF Init, OrderInv
<1>1. Upcoming(t, 0) = {} /\ \A h \in Handlers : ~Serves(h, t)
  BY DEF Init, Upcoming, Serves
<1> QED
  BY <1>1 DEF Init, Progress

\* One more report is one more callback to come.
LEMMA OrderReport ==
    ASSUME TypeOK, OrderInv, NEW t \in Texts, NEW status \in TwilioStatus, Report(t, status)
    PROVE  OrderInv'
<1>1. SUFFICES ASSUME NEW u \in Texts, orderly[u], row[u] # Deleted
               PROVE  \E m \in 0..Len(reported'[u]) : Progress(u, m)'
  BY DEF Report, OrderInv
<1>2. PICK m \in 0..Len(reported[u]) : Progress(u, m)
  BY <1>1 DEF OrderInv
<1>3. UNCHANGED <<row, handler, orderly>>
  BY DEF Report
<1>4. Len(reported[u]) \in Nat /\ m \in Nat
  BY <1>2 DEF TypeOK
<1>5. CASE u # t
  <2>1. reported'[u] = reported[u] /\ pending'[u] = pending[u]
    BY <1>5, ReportAppends DEF Report, TypeOK
  <2>2. Progress(u, m)'
    BY <1>2, <1>3, <1>4, <2>1, OtherText
  <2> QED
    BY <1>2, <2>1, <2>2
<1>6. CASE u = t
  <2> DEFINE n == Len(reported[t])
  <2>1. pending'[t] = pending[t] \cup {n + 1} /\ Len(reported'[t]) = n + 1
    BY ReportAppends DEF Report, TypeOK
  <2>2. pending'[t] = Upcoming(t, m)'
    BY <1>2, <1>4, <1>6, <2>1 DEF Progress, Upcoming
  <2>3. m > 0 => reported'[t][m] = reported[t][m]
    BY <1>2, <1>4, <1>6, ReportAppends
  <2>4. \A h \in Handlers : Serves(h, t)' <=> Serves(h, t)
    BY <1>3 DEF Serves
  <2>5. Progress(t, m)'
    BY <1>2, <1>3, <1>6, <2>2, <2>3, <2>4 DEF Progress
  <2> QED
    BY <1>2, <1>4, <1>6, <2>1, <2>5
<1> QED
  BY <1>5, <1>6

\* The job writes the row before the first callback is taken.
LEMMA OrderRecordSent ==
    ASSUME TypeOK, OrderInv, NEW t \in Texts, RecordSent(t)
    PROVE  OrderInv'
<1>1. SUFFICES ASSUME NEW u \in Texts, orderly[u], row'[u] # Deleted
               PROVE  \E m \in 0..Len(reported[u]) : Progress(u, m)'
  BY DEF RecordSent, OrderInv
<1>2. row[u] # Deleted
  BY <1>1 DEF RecordSent, TypeOK, Unwritten, Deleted
<1>3. PICK m \in 0..Len(reported[u]) : Progress(u, m)
  BY <1>1, <1>2 DEF OrderInv
<1>4. UNCHANGED <<reported, pending, handler, orderly>>
  BY DEF RecordSent
<1>5. m \in Nat
  BY <1>3 DEF TypeOK
<1>6. CASE u # t
  BY <1>3, <1>4, <1>5, <1>6, OtherText DEF RecordSent, TypeOK
<1>7. CASE u = t
  <2>1. m = 0 /\ \A h \in Handlers : ~Serves(h, t)
    BY <1>3, <1>7 DEF Progress, RecordSent
  <2>2. \A h \in Handlers : ~Serves(h, t)'
    BY <1>4, <2>1 DEF Serves
  <2>3. pending'[t] = Upcoming(t, m)'
    BY <1>3, <1>4, <1>7 DEF Progress, Upcoming
  <2>4. Progress(t, m)'
    BY <2>1, <2>2, <2>3 DEF Progress
  <2> QED
    BY <1>3, <1>7, <2>4
<1> QED
  BY <1>6, <1>7

\* The callback taken in turn is the first of those to come.
LEMMA OrderFound ==
    ASSUME TypeOK, OrderInv, NEW t \in Texts, NEW k \in pending[t], NEW h \in Handlers,
           FindMessage(h, t, k)
    PROVE  OrderInv'
<1>1. SUFFICES ASSUME NEW u \in Texts, orderly'[u], row[u] # Deleted
               PROVE  \E m \in 0..Len(reported[u]) : Progress(u, m)'
  BY DEF FindMessage, OrderInv
<1>2. /\ UNCHANGED <<reported, row>>
      /\ handler[h] = Free
      /\ pending' = [pending EXCEPT ![t] = @ \ {k}]
  BY DEF FindMessage
<1>3. orderly[u] /\ (u = t => Written(t) /\ InTurn(t, k))
  BY <1>1 DEF FindMessage, TypeOK
<1>4. PICK m \in 0..Len(reported[u]) : Progress(u, m)
  BY <1>1, <1>3 DEF OrderInv
<1>5. Len(reported[u]) \in Nat /\ m \in Nat
  BY <1>4 DEF TypeOK
<1>6. CASE u # t
  <2>1. \A g \in Handlers : handler'[g] = handler[g] \/ (~Serves(g, u) /\ ~Serves(g, u)')
    <3>1. CASE Written(t)
      <4> DEFINE copy == [text |-> t, callback |-> k, seen |-> row[t].status]
      <4>1. handler' = [handler EXCEPT ![h] = copy]
        BY <3>1, Found
      <4>2. handler'[h].text = t /\ \A g \in Handlers \ {h} : handler'[g] = handler[g]
        BY <4>1 DEF TypeOK
      <4> QED
        BY <1>2, <1>6, <4>2 DEF Serves
    <3>2. CASE ~Written(t)
      BY <3>2 DEF FindMessage
    <3> QED
      BY <3>1, <3>2
  <2>2. pending'[u] = pending[u]
    BY <1>2, <1>6 DEF TypeOK
  <2>3. Progress(u, m)'
    BY <1>2, <1>4, <1>5, <2>1, <2>2, OtherText
  <2> QED
    BY <1>4, <2>3
<1>7. CASE u = t
  <2> DEFINE copy == [text |-> t, callback |-> k, seen |-> row[t].status]
  <2>1. copy \in Serving /\ handler' = [handler EXCEPT ![h] = copy]
    BY <1>3, <1>7, Found
  <2>2. handler'[h] = copy /\ \A g \in Handlers \ {h} : handler'[g] = handler[g]
    BY <2>1 DEF TypeOK
  <2>3. \A g \in Handlers : ~Serves(g, t)
    BY <1>3, <1>7 DEF InTurn
  <2>4. \A g \in Handlers : Serves(g, t)' <=> g = h
    <3>1. copy # Free /\ copy.text = t
      BY DEF Free
    <3> QED
      BY <2>2, <2>3, <3>1 DEF Serves
  <2>5. pending[t] = Upcoming(t, m)
    BY <1>4, <1>7 DEF Progress
  <2>6. k = m + 1 /\ k \in 0..Len(reported[t])
    <3>1. k \in 1..Len(reported[t]) /\ k > m
      BY <2>5 DEF Upcoming
    <3>2. m + 1 \in pending[t]
      BY <1>5, <1>7, <2>5, <3>1 DEF Upcoming
    <3>3. k <= m + 1
      BY <1>3, <1>7, <3>2 DEF InTurn
    <3> QED
      BY <1>5, <1>7, <3>1, <3>3
  <2>7. pending'[t] = Upcoming(t, k)'
    BY <1>2, <1>5, <1>7, <2>5, <2>6 DEF Upcoming, TypeOK
  <2>8. row[t] # Unwritten
    BY <1>3, <1>7 DEF Written
  <2>9. Progress(t, k)'
    BY <1>2, <1>5, <2>2, <2>4, <2>6, <2>7, <2>8 DEF Progress
  <2> QED
    BY <1>7, <2>6, <2>9
<1> QED
  BY <1>6, <1>7

\* The only thread that serves the text leaves the status it was called with.
LEMMA OrderUpdated ==
    ASSUME TypeOK, OrderInv, NEW h \in Handlers, UpdateStatus(h)
    PROVE  OrderInv'
<1> DEFINE t == handler[h].text
           status == reported[t][handler[h].callback]
           new == StatusUpdate(row[t], handler[h].seen, status)
<1>1. /\ UNCHANGED <<reported, pending, orderly>>
      /\ handler[h] # Free
      /\ handler' = [handler EXCEPT ![h] = Free]
  BY DEF UpdateStatus
<1>2. /\ t \in Texts
      /\ handler[h].seen \in MessageStatus
      /\ status \in TwilioStatus
  BY <1>1, ServedTyped
<1>3. /\ Written(t) =>
            row[t] \in Message /\ new \in Message /\ row' = [row EXCEPT ![t] = new]
      /\ ~Written(t) => row' = row
  BY Updated
<1>4. handler'[h] = Free /\ \A g \in Handlers \ {h} : handler'[g] = handler[g]
  BY <1>1 DEF TypeOK
<1>5. SUFFICES ASSUME NEW u \in Texts, orderly[u], row'[u] # Deleted
               PROVE  \E m \in 0..Len(reported[u]) : Progress(u, m)'
  BY <1>1 DEF OrderInv
<1>6. row[u] # Deleted /\ (u # t => row'[u] = row[u])
  BY <1>2, <1>3, <1>5 DEF TypeOK, Written
<1>7. PICK m \in 0..Len(reported[u]) : Progress(u, m)
  BY <1>5, <1>6 DEF OrderInv
<1>8. m \in Nat
  BY <1>7 DEF TypeOK
<1>9. CASE u # t
  <2>1. \A g \in Handlers : handler'[g] = handler[g] \/ (~Serves(g, u) /\ ~Serves(g, u)')
    BY <1>4, <1>9 DEF Serves
  <2>2. Progress(u, m)'
    BY <1>1, <1>6, <1>7, <1>8, <1>9, <2>1, OtherText
  <2> QED
    BY <1>7, <2>2
<1>10. CASE u = t
  <2>1. Serves(h, u)
    BY <1>1, <1>10 DEF Serves
  <2>2. /\ pending[u] = Upcoming(u, m)
        /\ handler[h].callback = m /\ m > 0
        /\ handler[h].seen = row[u].status
        /\ row[u] # Unwritten
        /\ \A g \in Handlers : Serves(g, u) => g = h
    BY <1>7, <1>8, <2>1 DEF Progress
  <2>3. \A g \in Handlers : ~Serves(g, u)'
    BY <1>4, <2>2 DEF Serves
  <2>4. Written(t)
    BY <1>6, <1>10, <2>2 DEF Written
  <2>5. row[t] \in Message /\ new \in Message /\ row'[u] = new
    BY <1>2, <1>3, <1>10, <2>4 DEF TypeOK
  <2>6. reported[u][m] \in MessageStatus => row'[u].status = reported[u][m]
    <3>1. status = reported[u][m] /\ handler[h].seen = row[t].status
      BY <1>10, <2>2
    <3>2. status \in MessageStatus => new.status = status
      BY <1>2, <2>5, <3>1, UpdateTyped
    <3> QED
      BY <2>5, <3>1, <3>2
  <2>7. row'[u] # Unwritten
    BY <2>5, Types
  <2>8. pending'[u] = Upcoming(u, m)'
    BY <1>1, <2>2 DEF Upcoming
  <2>9. Progress(u, m)'
    BY <1>1, <2>3, <2>6, <2>7, <2>8 DEF Progress
  <2> QED
    BY <1>7, <2>9
<1> QED
  BY <1>9, <1>10

LEMMA OrderStep == TypeOK /\ OrderInv /\ [Next]_vars => OrderInv'
<1> SUFFICES ASSUME TypeOK, OrderInv, [Next]_vars PROVE OrderInv'
  OBVIOUS
<1>1. ASSUME UNCHANGED <<reported, pending, row, handler>>, NEW u \in Texts,
             NEW m \in Nat, Progress(u, m)
      PROVE  Progress(u, m)'
  BY <1>1, OtherText
<1>2. CASE UNCHANGED vars
  BY <1>1, <1>2 DEF vars, OrderInv, TypeOK
<1>3. ASSUME NEW t \in Texts, DeleteRow(t) PROVE OrderInv'
  <2>1. SUFFICES ASSUME NEW u \in Texts, orderly[u], row'[u] # Deleted
                 PROVE  \E m \in 0..Len(reported[u]) : Progress(u, m)'
    BY <1>3 DEF DeleteRow, OrderInv
  <2>2. u # t /\ row'[u] = row[u]
    BY <1>3, <2>1 DEF DeleteRow, TypeOK
  <2>3. PICK m \in 0..Len(reported[u]) : Progress(u, m)
    BY <2>1, <2>2 DEF OrderInv
  <2>4. m \in Nat /\ UNCHANGED <<reported, pending, handler>>
    BY <1>3, <2>3 DEF DeleteRow, TypeOK
  <2>5. Progress(u, m)'
    BY <2>2, <2>3, <2>4, OtherText
  <2> QED
    BY <2>3, <2>5
<1>4. ASSUME NEW t \in Texts, NEW k \in pending[t], Lose(t, k) PROVE OrderInv'
  <2>1. SUFFICES ASSUME NEW u \in Texts, orderly'[u], row[u] # Deleted
                 PROVE  \E m \in 0..Len(reported[u]) : Progress(u, m)'
    BY <1>4 DEF Lose, OrderInv
  <2>2. u # t /\ orderly[u] /\ pending'[u] = pending[u]
    BY <1>4, <2>1 DEF Lose, TypeOK
  <2>3. PICK m \in 0..Len(reported[u]) : Progress(u, m)
    BY <2>1, <2>2 DEF OrderInv
  <2>4. m \in Nat /\ UNCHANGED <<reported, row, handler>>
    BY <1>4, <2>3 DEF Lose, TypeOK
  <2>5. Progress(u, m)'
    BY <2>2, <2>3, <2>4, OtherText
  <2> QED
    BY <2>3, <2>5
<1>5. ASSUME NEW h \in Handlers, CrashHandler(h) PROVE OrderInv'
  <2> DEFINE t == handler[h].text
  <2>1. handler[h] # Free /\ t \in Texts /\ UNCHANGED <<reported, pending, row>>
    BY <1>5, ServedTyped DEF CrashHandler
  <2>2. SUFFICES ASSUME NEW u \in Texts, orderly'[u], row[u] # Deleted
                 PROVE  \E m \in 0..Len(reported[u]) : Progress(u, m)'
    BY <1>5 DEF CrashHandler, OrderInv
  <2>3. u # t /\ orderly[u]
    BY <1>5, <2>1, <2>2 DEF CrashHandler, TypeOK
  <2>4. PICK m \in 0..Len(reported[u]) : Progress(u, m)
    BY <2>2, <2>3 DEF OrderInv
  <2>5. \A g \in Handlers : handler'[g] = handler[g] \/ (~Serves(g, u) /\ ~Serves(g, u)')
    BY <1>5, <2>3 DEF CrashHandler, TypeOK, Serves
  <2>6. m \in Nat
    BY <2>4 DEF TypeOK
  <2>7. Progress(u, m)'
    BY <2>1, <2>4, <2>5, <2>6, OtherText
  <2> QED
    BY <2>4, <2>7
<1> QED
  BY <1>2, <1>3, <1>4, <1>5, OrderReport, OrderRecordSent, OrderFound, OrderUpdated DEF Next

\* A text whose callbacks were served in order shows its last status.
THEOREM OrderedIsTracked == Spec => []TracksInOrder
<1>1. TypeOK /\ OrderInv => TracksInOrder
  <2> SUFFICES ASSUME TypeOK, OrderInv, NEW t \in Texts, orderly[t], Served(t), Written(t),
                      Latest(t) \in MessageStatus
               PROVE  row[t].status = Latest(t)
    BY DEF TracksInOrder
  <2>1. PICK m \in 0..Len(reported[t]) : Progress(t, m)
    BY DEF OrderInv, Written
  <2>2. Len(reported[t]) \in Nat /\ m \in Nat
    BY <2>1 DEF TypeOK
  <2>3. Upcoming(t, m) = {}
    BY <2>1 DEF Served, Progress
  <2>4. m = Len(reported[t])
    <3>1. m < Len(reported[t]) => m + 1 \in Upcoming(t, m)
      BY <2>2 DEF Upcoming
    <3> QED
      BY <2>1, <2>2, <2>3, <3>1
  <2>5. reported[t] # <<>> /\ Latest(t) = reported[t][m]
    BY <2>4 DEF Latest, MessageStatus, TwilioStatus
  <2>6. m > 0
    BY <2>2, <2>4, <2>5 DEF TypeOK
  <2> QED
    BY <2>1, <2>5, <2>6 DEF Served, Progress
<1>2. Spec => [](TypeOK /\ OrderInv)
  BY TypeInitial, TypeStep, OrderInitial, OrderStep, PTL DEF Spec
<1> QED
  BY <1>1, <1>2, PTL
==============================================================================
