------------------------- MODULE MessagingTextProofs -------------------------
(***************************************************************************)
(* The texts and the rows of Messaging: the table tells the truth about    *)
(* the texts, under the faults that can spare it; and Messaging implements *)
(* ConsentGate, whose bound on the texts that go out after a customer's    *)
(* consent has ended it inherits.                                          *)
(***************************************************************************)
EXTENDS MessagingProofs

------------------------------------------------------------------------------
(* Rows and texts *)

\* A text belongs to its job, and if it is of the current attempt the job has
\* called Twilio and was not refused.
TextTrue(s) ==
    /\ job[s.job].state # "unused"
    /\ s.customer = job[s.job].customer
    /\ s.attempt <= job[s.job].attempts
    /\ s.attempt = job[s.job].attempts => job[s.job].state \notin Untexted

\* A row of an attempt belongs to its job, and if it is of the current attempt
\* the job has come to writing it.
AttemptTrue(m) ==
    /\ m.origin \in Jobs \X Attempts
    /\ job[m.origin[1]].state # "unused"
    /\ m.customer = job[m.origin[1]].customer
    /\ m.origin[2] <= job[m.origin[1]].attempts
    /\ m.origin[2] = job[m.origin[1]].attempts
          => job[m.origin[1]].state \notin Unrecorded

RowTrue(m) ==
    /\ Exists(m.customer)
    /\ m.status = "received" =>
          /\ m.origin \in Requests
          /\ req[m.origin].state \in Stored
          /\ req[m.origin].customer = m.customer
    /\ m.status # "received" => AttemptTrue(m)
    /\ m.status = "sent" => \E s \in sms : <<s.job, s.attempt>> = m.origin
    /\ m.status = "failed" => \A s \in sms : <<s.job, s.attempt>> # m.origin

\* What a job needs to have left behind it where it is.
OnRecord(j) ==
    /\ At(j, "accepted") => \E s \in sms : <<s.job, s.attempt>> = Attempt(j)
    /\ job[j].state \in {"recorded", "finished"} /\ Exists(job[j].customer)
          => \E m \in messages : m.origin = Attempt(j)
    /\ At(j, "finished") => job[j].attempts \in Attempts /\ Attempt(j) \in broadcasts

OneText == \A s, t \in sms : s.job = t.job /\ s.attempt = t.attempt => s = t
OneRow == \A m, n \in messages : m.origin = n.origin => m = n

RecordInv ==
    /\ ConsentInv
    /\ \A s \in sms : TextTrue(s)
    /\ \A m \in messages : RowTrue(m)
    /\ \A j \in Jobs : OnRecord(j)
    /\ OneText
    /\ OneRow

LEMMA RecordInitially == Init => RecordInv
BY ConsentInitial
   DEF Init, OutboundInit, MessageInit, RecordInv, OnRecord, At, Unused, OneText, OneRow

\* Jobs keep what the texts and rows of their attempts say of them.
LEMMA AttemptKept ==
    ASSUME TypeInv, [Next]_vars, NEW j \in Jobs, job[j].state # "unused",
           NEW a \in Attempts, a <= job[j].attempts
    PROVE  /\ job'[j].state # "unused"
           /\ job'[j].customer = job[j].customer
           /\ a <= job'[j].attempts
           /\ (a = job[j].attempts => job[j].state \notin Untexted)
                 => (a = job'[j].attempts => job'[j].state \notin Untexted)
           /\ (a = job[j].attempts => job[j].state \notin Unrecorded)
                 => (a = job'[j].attempts => job'[j].state \notin Unrecorded)
<1>1. a \in Nat /\ job[j].attempts \in Nat
  BY JobInUse, OutboundAssumption DEF TypeInv, Job, Attempts
<1>2. CASE job'[j] = job[j]
  BY <1>2
<1>3. CASE /\ job'[j].customer = job[j].customer
           /\ job'[j].state = "claimed"
           /\ job'[j].attempts = job[j].attempts + 1
  BY <1>1, <1>3
<1>4. CASE /\ job'[j].customer = job[j].customer
           /\ job'[j].attempts = job[j].attempts
           /\ \/ job'[j].state \in {"ready", "failed"}
              \/ <<job[j].state, job'[j].state>> \in Follows
  BY <1>4 DEF Follows, Untexted, Unrecorded, Unsent
<1> QED
  BY <1>2, <1>3, <1>4, JobSteps DEF JobStep

LEMMA TextStep ==
    ASSUME RecordInv, [Next]_vars, NEW s \in sms'
    PROVE  TextTrue(s)'
<1>1. TypeInv /\ sms \subseteq Sms
  BY DEF RecordInv, ConsentInv, TypeInv, TypeOK, OutboundTypeOK
<1>2. CASE s \in sms
  <2>1. TextTrue(s) /\ s.job \in Jobs /\ s.attempt \in Attempts
    BY <1>1, <1>2 DEF RecordInv, Sms
  <2> QED
    BY <1>1, <2>1, AttemptKept DEF TextTrue
<1>3. CASE s \notin sms
  <2>1. PICK j \in Jobs :
             /\ job'[j].state \in {"accepted", "failed"}
             /\ job'[j].attempts = job[j].attempts
             /\ job'[j].customer = job[j].customer
             /\ At(j, "addressed")
             /\ sms' = sms \cup {TextOf(j)}
    BY <1>1, <1>3, TextWrites
  <2>2. s.job = j /\ s.attempt = job[j].attempts /\ s.customer = job[j].customer
    BY <1>3, <2>1 DEF TextOf
  <2>3. job[j].attempts \in Nat
    BY <1>1, <2>1, JobInUse, OutboundAssumption DEF TypeInv, Job, At
  <2> QED
    BY <2>1, <2>2, <2>3 DEF TextTrue, Untexted, Unsent
<1> QED
  BY <1>2, <1>3

LEMMA OneTextStep ==
    ASSUME RecordInv, [Next]_vars
    PROVE  OneText'
<1>1. TypeInv
  BY DEF RecordInv, ConsentInv
<1>2. CASE sms' = sms
  BY <1>2 DEF RecordInv, OneText
<1>3. ASSUME NEW j \in Jobs, At(j, "addressed"), sms' = sms \cup {TextOf(j)}
      PROVE  OneText'
  <2>1. TextOf(j).job = j /\ TextOf(j).attempt = job[j].attempts
    BY DEF TextOf
  <2>2. \A s \in sms : ~(s.job = j /\ s.attempt = job[j].attempts)
    BY <1>3 DEF RecordInv, TextTrue, At, Untexted, Unsent
  <2> QED
    BY <1>3, <2>1, <2>2 DEF RecordInv, OneText
<1> QED
  BY <1>1, <1>2, <1>3, TextWrites

\* A row's customer stays, its request and its job keep what they say of it, and
\* no text is sent for an attempt that has a row.
LEMMA RowKept ==
    ASSUME RecordInv, [Next]_vars, NEW m \in messages, Exists(m.customer)'
    PROVE  RowTrue(m)'
<1>1. /\ TypeInv /\ RowTrue(m)
      /\ m \in MessageRows(Origins)
      /\ sms \subseteq Sms
  BY DEF RecordInv, ConsentInv, TypeInv, TypeOK, OutboundTypeOK
<1>2. m.status = "received" =>
          /\ m.origin \in Requests
          /\ req'[m.origin].state \in Stored
          /\ req'[m.origin].customer = m.customer
  BY <1>1, RequestKept DEF RowTrue
<1>3. m.status # "received" => AttemptTrue(m)'
  <2>1. SUFFICES ASSUME AttemptTrue(m) PROVE AttemptTrue(m)'
    BY <1>1 DEF RowTrue
  <2>2. m.origin[1] \in Jobs /\ m.origin[2] \in Attempts
    BY <2>1 DEF AttemptTrue
  <2> QED
    BY <1>1, <2>1, <2>2, AttemptKept DEF AttemptTrue
<1>4. m.status = "sent" => \E s \in sms' : <<s.job, s.attempt>> = m.origin
  BY <1>1, TextWrites DEF RowTrue
<1>5. m.status = "failed" => \A s \in sms' : <<s.job, s.attempt>> # m.origin
  <2>1. SUFFICES ASSUME m.status = "failed", NEW s \in sms', s \notin sms
                 PROVE  <<s.job, s.attempt>> # m.origin
    BY <1>1 DEF RowTrue
  <2>2. PICK j \in Jobs : At(j, "addressed") /\ sms' = sms \cup {TextOf(j)}
    BY <1>1, <2>1, TextWrites
  <2>3. s.job = j /\ s.attempt = job[j].attempts
    BY <2>1, <2>2 DEF TextOf
  <2>4. AttemptTrue(m)
    BY <1>1, <2>1 DEF RowTrue
  <2>5. <<j, job[j].attempts>> # m.origin
    BY <2>2, <2>4 DEF AttemptTrue, At, Unrecorded, Untexted, Unsent
  <2> QED
    BY <2>3, <2>5
<1> QED
  BY <1>2, <1>3, <1>4, <1>5 DEF RowTrue

\* What the row of an attempt needs when it is written.
LEMMA OutboundRowTrue ==
    ASSUME RecordInv, [Next]_vars, NEW j \in Jobs, NEW status \in {"sent", "failed"},
           OutboundStored(j, status), NEW m, m = OutboundRow(j, status)
    PROVE  RowTrue(m)'
<1>1. /\ TypeInv
      /\ m.customer = job[j].customer /\ m.status = status /\ m.origin = Attempt(j)
  BY DEF RecordInv, ConsentInv, OutboundRow
<1>2. job[j].state \in {"accepted", "rejected"} /\ Exists(m.customer)'
  BY <1>1 DEF OutboundStored, At, Exists
<1>3. job[j] \in Job /\ job[j].attempts \in Attempts
  BY <1>1, <1>2, JobInUse DEF TypeInv, Running
<1>4. /\ job'[j].state = "recorded"
      /\ job'[j].customer = job[j].customer
      /\ job'[j].attempts = job[j].attempts
  BY <1>1, <1>2, JobSteps DEF JobStep, OutboundStored
<1>5. m.origin = <<j, job[j].attempts>> /\ job[j].attempts <= job[j].attempts
  BY <1>1, <1>3, OutboundAssumption DEF Attempt, Attempts
<1>6. AttemptTrue(m)'
  BY <1>1, <1>3, <1>4, <1>5 DEF AttemptTrue, Unrecorded, Untexted, Unsent
<1>7. status = "sent" => \E s \in sms' : <<s.job, s.attempt>> = m.origin
  BY <1>1 DEF OutboundStored, RecordInv, OnRecord
<1>8. status = "failed" => \A s \in sms' : <<s.job, s.attempt>> # m.origin
  BY <1>5 DEF OutboundStored, RecordInv, TextTrue, Untexted, At
<1> QED
  BY <1>1, <1>2, <1>6, <1>7, <1>8 DEF RowTrue

LEMMA InboundRowTrue ==
    ASSUME RecordInv, [Next]_vars, NEW r \in Requests, InboundStored(r),
           NEW m, m = InboundRow(r)
    PROVE  RowTrue(m)'
BY DEF InboundStored, InboundRow, RowTrue, Stored, Exists

LEMMA RowStep ==
    ASSUME RecordInv, [Next]_vars, NEW m \in messages'
    PROVE  RowTrue(m)'
<1>1. TypeInv
  BY DEF RecordInv, ConsentInv
<1>2. ASSUME NEW n \in messages
      PROVE  Exists(n.customer) /\ n.customer \in Customers
  BY <1>1 DEF RecordInv, RowTrue, TypeInv, TypeOK, MessageRows
<1>3. ASSUME NEW c \in Customers, RowsDeleted(c) PROVE RowTrue(m)'
  <2>1. m \in messages /\ m.customer # c
    BY <1>3 DEF RowsDeleted, DeleteMessagesOf
  <2>2. Exists(m.customer)'
    BY <1>1, <1>2, <1>3, <2>1
       DEF RowsDeleted, Exists, TypeInv, TypeOK, ConsentTypeOK
  <2> QED
    BY <2>1, <2>2, RowKept
<1>4. CASE RowsKept
  BY <1>2, <1>4, RowKept DEF RowsKept
<1>5. ASSUME NEW r \in Requests, InboundStored(r) PROVE RowTrue(m)'
  <2>1. CASE m \in messages
    BY <1>2, <1>5, <2>1, RowKept DEF InboundStored, Exists
  <2>2. CASE m = InboundRow(r)
    BY <1>5, <2>2, InboundRowTrue
  <2> QED
    BY <1>5, <2>1, <2>2 DEF InboundStored
<1>6. ASSUME NEW j \in Jobs, NEW status \in {"sent", "failed"}, OutboundStored(j, status)
      PROVE  RowTrue(m)'
  <2>1. CASE m \in messages
    BY <1>2, <1>6, <2>1, RowKept DEF OutboundStored, Exists
  <2>2. CASE m = OutboundRow(j, status)
    BY <1>6, <2>2, OutboundRowTrue
  <2> QED
    BY <1>6, <2>1, <2>2 DEF OutboundStored
<1> QED
  BY <1>1, <1>3, <1>4, <1>5, <1>6, RowWrites

LEMMA OneRowStep ==
    ASSUME RecordInv, [Next]_vars
    PROVE  OneRow'
<1>1. TypeInv
  BY DEF RecordInv, ConsentInv
<1>2. CASE messages' \subseteq messages
  BY <1>2 DEF RecordInv, OneRow
<1>3. ASSUME NEW r, messages' = messages \cup {r}, \A m \in messages : m.origin # r.origin
      PROVE  OneRow'
  BY <1>3 DEF RecordInv, OneRow
<1>4. ASSUME NEW r \in Requests, InboundStored(r) PROVE OneRow'
  <2>1. InboundRow(r).origin = r
    BY DEF InboundRow
  <2>2. ASSUME NEW m \in messages PROVE m.origin # r
    BY <1>4, OriginAssumption DEF RecordInv, RowTrue, AttemptTrue, InboundStored, In, Stored
  <2> QED
    BY <1>3, <1>4, <2>1, <2>2 DEF InboundStored
<1>5. ASSUME NEW j \in Jobs, NEW status \in {"sent", "failed"}, OutboundStored(j, status)
      PROVE  OneRow'
  <2>1. OutboundRow(j, status).origin = <<j, job[j].attempts>>
    BY DEF OutboundRow, Attempt
  <2>2. job[j].state \in {"accepted", "rejected"} /\ <<j, job[j].attempts>> \in Jobs \X Attempts
    BY <1>1, <1>5 DEF OutboundStored, At, TypeInv, Running
  <2>3. ASSUME NEW m \in messages PROVE m.origin # <<j, job[j].attempts>>
    BY <2>2, OriginAssumption
       DEF RecordInv, RowTrue, AttemptTrue, Unrecorded, Untexted
  <2> QED
    BY <1>3, <1>5, <2>1, <2>3 DEF OutboundStored
<1> QED
  BY <1>1, <1>2, <1>4, <1>5, RowWrites DEF RowsDeleted, RowsKept, DeleteMessagesOf

LEMMA BroadcastsKept == [Next]_vars => broadcasts \subseteq broadcasts'
<1> SUFFICES ASSUME [Next]_vars PROVE broadcasts \subseteq broadcasts'
  OBVIOUS
<1>1. ASSUME NEW j \in Jobs, Worker(j) PROVE broadcasts \subseteq broadcasts'
  BY <1>1 DEF Worker, Work, Perform, Claim, Release, Crash, LoadCustomer, SendSms,
       DetermineFromNumber, RecordSent, RecordFailure, BroadcastOutbound, BroadcastAppend,
       messageVars
<1>2. CASE Staff \/ Scheduler
  BY <1>2 DEF Staff, Scheduler, CreateCustomer, UpdateCustomer, DestroyCustomer,
       MessagesCreate, EnqueueReminder, messageVars
<1>3. ASSUME NEW r \in Requests, Webhook(r) PROVE broadcasts \subseteq broadcasts'
  BY <1>3 DEF Webhook, Serve, Handle, Receive, FindCustomer, SaveInbound, ProcessStop,
       ProcessHelp, BroadcastInbound, BroadcastAppend, CrashRequest, messageVars
<1>4. CASE UNCHANGED vars
  BY <1>4 DEF vars
<1> QED
  BY <1>1, <1>2, <1>3, <1>4 DEF Next

\* The row of an attempt goes with its customer only.
LEMMA AttemptRowStays ==
    ASSUME RecordInv, [Next]_vars, NEW j \in Jobs, job[j].attempts \in Attempts,
           NEW m \in messages, m.origin = Attempt(j),
           consent'[job[j].customer] \in SmsConsentStatus
    PROVE  m \in messages'
<1>1. TypeInv
  BY DEF RecordInv, ConsentInv
<1>2. m.origin = <<j, job[j].attempts>> /\ m.origin \in Jobs \X Attempts
  BY DEF Attempt
<1>3. m.customer = job[j].customer
  BY <1>2, OriginAssumption DEF RecordInv, RowTrue, AttemptTrue
<1>4. ASSUME NEW c \in Customers, RowsDeleted(c) PROVE m \in messages'
  <2>1. consent'[c] = "gone"
    BY <1>1, <1>4 DEF RowsDeleted, TypeInv, TypeOK, ConsentTypeOK
  <2> QED
    BY <1>3, <1>4, <2>1 DEF RowsDeleted, DeleteMessagesOf, Exists, SmsConsentStatus
<1> QED
  BY <1>1, <1>4, RowWrites DEF RowsKept, InboundStored, OutboundStored

LEMMA OnRecordStep ==
    ASSUME RecordInv, [Next]_vars, NEW j \in Jobs
    PROVE  OnRecord(j)'
<1>1. ConsentInv /\ TypeInv
  BY DEF RecordInv, ConsentInv
<1>2. sms \subseteq sms'
  BY <1>1, TextWrites
<1>3. OnRecord(j)
  BY DEF RecordInv
<1>4. job[j].state \in Running => job[j].attempts \in Attempts
  BY <1>1 DEF TypeInv
<1>5. job[j].state # "unused" =>
         /\ job[j].customer \in Customers
         /\ consent'[job[j].customer] \in SmsConsentStatus => Exists(job[j].customer)
  <2>1. SUFFICES ASSUME job[j].state # "unused"
                 PROVE  /\ job[j].customer \in Customers
                        /\ consent'[job[j].customer] \in SmsConsentStatus => Exists(job[j].customer)
    OBVIOUS
  <2>2. job[j].customer \in Customers /\ consent[job[j].customer] # "none"
    BY <1>1, <2>1, JobInUse DEF ConsentInv, TypeInv, Job
  <2> QED
    BY <1>1, <2>2, ConsentMoves DEF ConsentMove, Exists, SmsConsentStatus
<1>6. CASE job'[j] = job[j]
  <2>1. Attempt(j)' = Attempt(j)
    BY <1>6 DEF Attempt
  <2>2. At(j, "accepted")' => \E s \in sms' : <<s.job, s.attempt>> = Attempt(j)'
    BY <1>2, <1>3, <1>6, <2>1 DEF OnRecord, At
  <2>3. ASSUME job'[j].state \in {"recorded", "finished"},
               consent'[job'[j].customer] \in SmsConsentStatus
        PROVE  \E m \in messages' : m.origin = Attempt(j)'
    <3>1. /\ job[j].state \in {"recorded", "finished"}
          /\ consent'[job[j].customer] \in SmsConsentStatus
      BY <1>6, <2>3
    <3>2. job[j].attempts \in Attempts
      BY <1>3, <1>4, <3>1 DEF OnRecord, At, Running
    <3>3. PICK m \in messages : m.origin = Attempt(j)
      BY <1>3, <1>5, <3>1 DEF OnRecord
    <3> QED
      BY <2>1, <3>1, <3>2, <3>3, AttemptRowStays
  <2>4. At(j, "finished")' => job'[j].attempts \in Attempts /\ Attempt(j)' \in broadcasts'
    BY <1>3, <1>6, <2>1, BroadcastsKept DEF OnRecord, At
  <2> QED
    BY <2>2, <2>3, <2>4 DEF OnRecord, Exists
<1>7. CASE /\ job[j].state \in Running
           /\ job'[j].attempts = job[j].attempts
           /\ job'[j].customer = job[j].customer
           /\ <<job[j].state, job'[j].state>> \in Follows
  <2>1. Attempt(j)' = Attempt(j) /\ job'[j].state # job[j].state
    BY <1>7 DEF Attempt, Follows
  <2>2. CASE job'[j].state = "accepted"
    <3>1. <<TextOf(j).job, TextOf(j).attempt>> = Attempt(j)
      BY DEF TextOf, Attempt
    <3>2. TextOf(j) \in sms'
      BY <1>1, <2>1, <2>2, JobWrites
    <3> QED
      BY <2>1, <2>2, <3>1, <3>2 DEF OnRecord, At
  <2>3. CASE job'[j].state = "recorded"
    BY <1>1, <2>1, <2>3, JobWrites DEF OnRecord, At
  <2>4. CASE job'[j].state = "finished"
    <3>1. job[j].state = "recorded" /\ job[j].state # "unused"
      BY <1>7, <2>4 DEF Follows
    <3>2. messages' = messages /\ Attempt(j) \in broadcasts'
      BY <1>1, <2>1, <2>4, JobWrites
    <3>3. consent'[job[j].customer] \in SmsConsentStatus => \E m \in messages : m.origin = Attempt(j)
      BY <1>3, <1>5, <3>1 DEF OnRecord
    <3> QED
      BY <1>4, <1>7, <2>1, <2>4, <3>1, <3>2, <3>3 DEF OnRecord, At, Exists
  <2>5. CASE job'[j].state \notin {"accepted", "recorded", "finished"}
    BY <2>5 DEF OnRecord, At
  <2> QED
    BY <2>2, <2>3, <2>4, <2>5
<1>8. CASE job'[j].state \in {"ready", "claimed", "failed"}
  BY <1>8 DEF OnRecord, At
<1> QED
  BY <1>1, <1>6, <1>7, <1>8, JobSteps DEF JobStep

LEMMA RecordStep == RecordInv /\ [Next]_vars => RecordInv'
<1> SUFFICES ASSUME RecordInv, [Next]_vars PROVE RecordInv'
  OBVIOUS
<1>1. ConsentInv'
  BY ConsentStep DEF RecordInv
<1> QED
  BY <1>1, TextStep, RowStep, OnRecordStep, OneTextStep, OneRowStep DEF RecordInv

LEMMA RecordInvariant == Spec => []RecordInv
BY RecordInitially, RecordStep, PTL DEF Spec

\* The inbox shows what happened: for any number of workers and requests, and
\* all faults, a sent row is a text Twilio accepted for that customer, a failed
\* row an attempt that sent nothing, a received row a message of that customer.
THEOREM RowsTellTheTruth == Spec => []RowsAreTrue
<1>1. RecordInv => RowsAreTrue
  <2> SUFFICES ASSUME RecordInv, NEW m \in messages
               PROVE  /\ Exists(m.customer)
                      /\ m.status = "received" =>
                            m.origin \in Requests /\ req[m.origin].customer = m.customer
                      /\ m.status = "sent" =>
                            \E s \in sms : <<s.job, s.attempt>> = m.origin
                                           /\ s.customer = m.customer
                      /\ m.status = "failed" =>
                            /\ m.origin \notin Requests
                            /\ \A s \in sms : <<s.job, s.attempt>> # m.origin
    BY DEF RowsAreTrue
  <2>1. RowTrue(m)
    BY DEF RecordInv
  <2>2. m.status # "received" =>
           m.origin \notin Requests /\ m.customer = job[m.origin[1]].customer
    BY <2>1, OriginAssumption DEF RowTrue, AttemptTrue
  <2>3. ASSUME NEW s \in sms, <<s.job, s.attempt>> = m.origin
        PROVE  s.customer = job[m.origin[1]].customer
    BY <2>3 DEF RecordInv, TextTrue
  <2> QED
    BY <2>1, <2>2, <2>3 DEF RowTrue
<1> QED
  BY RecordInvariant, <1>1, PTL

\* A job that finished is on record, by one row, unless its customer is gone.
THEOREM FinishedJobsOnRecord == Spec => []FinishedOnRecord
<1>1. RecordInv => FinishedOnRecord
  <2> SUFFICES ASSUME RecordInv, NEW j \in Jobs, At(j, "finished")
               PROVE  /\ Attempt(j) \in broadcasts
                      /\ Exists(job[j].customer) => Cardinality(RowsOf(Attempt(j))) = 1
    BY DEF FinishedOnRecord
  <2>1. OnRecord(j)
    BY DEF RecordInv
  <2>2. ASSUME Exists(job[j].customer)
        PROVE  Cardinality(RowsOf(Attempt(j))) = 1
    <3>1. PICK m \in messages : m.origin = Attempt(j)
      BY <2>1, <2>2 DEF OnRecord, At
    <3>2. RowsOf(Attempt(j)) = {m}
      BY <3>1 DEF RowsOf, RecordInv, OneRow
    <3> QED
      BY <3>2, FS_Singleton
  <2> QED
    BY <2>1, <2>2 DEF OnRecord
<1> QED
  BY RecordInvariant, <1>1, PTL

------------------------------------------------------------------------------
(* Without shutdowns a job is claimed once *)

ClaimedOnce(j) ==
    /\ job[j].state # "unused" => job[j].attempts <= 1
    /\ At(j, "ready") => job[j].attempts = 0

OnceInv == RecordInv /\ \A j \in Jobs : ClaimedOnce(j)

LEMMA OnceInitially == Init => OnceInv
BY RecordInitially DEF Init, OutboundInit, OnceInv, ClaimedOnce, At, Unused

LEMMA OnceStep ==
    ASSUME "shutdown" \notin Faults, OnceInv, [Next]_vars
    PROVE  OnceInv'
<1>1. RecordInv'
  BY RecordStep DEF OnceInv
<1>2. ASSUME NEW j \in Jobs PROVE ClaimedOnce(j)'
  <2>1. TypeInv /\ ClaimedOnce(j)
    BY DEF OnceInv, RecordInv, ConsentInv
  <2> QED
    BY <2>1, JobSteps DEF JobStep, ClaimedOnce, At, Running, Follows
<1> QED
  BY <1>1, <1>2 DEF OnceInv

\* A text is of its job's one attempt.
LEMMA TextOfOnlyAttempt ==
    ASSUME OnceInv, NEW s \in sms
    PROVE  /\ s.job \in Jobs /\ job[s.job].state # "unused"
           /\ s.attempt = 1 /\ job[s.job].attempts = 1
<1>1. TypeInv /\ TextTrue(s)
  BY DEF OnceInv, RecordInv, ConsentInv
<1>2. s.job \in Jobs /\ s.attempt \in Nat /\ s.attempt >= 1
  BY <1>1, OutboundAssumption DEF TypeInv, TypeOK, OutboundTypeOK, Sms, Attempts
<1>3. job[s.job].attempts \in Nat /\ job[s.job].attempts <= 1
  BY <1>1, <1>2, JobInUse, OutboundAssumption
     DEF TypeInv, Job, TextTrue, OnceInv, ClaimedOnce
<1> QED
  BY <1>1, <1>2, <1>3 DEF TextTrue

\* If no worker is shut down, no job texts its customer twice, whatever else
\* fails.
THEOREM DeliveredOnce ==
    ASSUME "shutdown" \notin Faults
    PROVE  Spec => []SingleDelivery
<1>1. OnceInv /\ [Next]_vars => OnceInv'
  BY OnceStep
<1>2. OnceInv => SingleDelivery
  <2> SUFFICES ASSUME OnceInv, NEW j \in Jobs PROVE Cardinality(TextsOf(j)) <= 1
    BY DEF SingleDelivery
  <2>1. CASE TextsOf(j) = {}
    BY <2>1, FS_EmptySet
  <2>2. CASE TextsOf(j) # {}
    <3>1. PICK s \in sms : s.job = j
      BY <2>2 DEF TextsOf
    <3>2. \A t \in sms : t.job = j => t = s
      BY <3>1, TextOfOnlyAttempt DEF OnceInv, RecordInv, OneText
    <3>3. TextsOf(j) = {s}
      BY <3>1, <3>2 DEF TextsOf
    <3> QED
      BY <3>3, FS_Singleton
  <2> QED
    BY <2>1, <2>2
<1> QED
  BY OnceInitially, <1>1, <1>2, PTL DEF Spec

------------------------------------------------------------------------------
(* Without crashes and lost answers either, every text comes on record *)

Recorded == {"accepted", "recorded", "finished"}

\* A text that has no row yet will get one, or its customer is gone.
KeptInv ==
    /\ OnceInv
    /\ \A j \in Jobs : At(j, "accepted") => ~Blank(job[j].body)
    /\ \A s \in sms :
          \/ job[s.job].state \in Recorded
          \/ At(s.job, "failed") /\ ~Exists(s.customer)

LEMMA KeptInitially == Init => KeptInv
BY OnceInitially DEF Init, OutboundInit, KeptInv, At, Unused

\* Only a missing customer or a blank body keep perform from the end.
LEMMA RecordingFails ==
    ASSUME Faults \subseteq {"appointment_deleted"}, TypeInv, [Next]_vars, NEW j \in Jobs,
           job[j].state \in Recorded, job'[j] # job[j]
    PROVE  \/ job'[j].state \in Recorded
           \/ /\ job[j].state = "accepted" /\ job'[j].state = "failed"
              /\ consent' = consent
              /\ ~Storable(job[j].customer, job[j].body)
<1>1. Worker(j) /\ job[j].state # "unused" /\ job[j] # Unused
  BY JobOwner DEF Recorded, Enqueue, Unused
<1>2. RecordSent(j) \/ BroadcastOutbound(j)
  BY <1>1 DEF Worker, Work, Perform, Claim, Release, Crash, LoadCustomer, SendSms,
       DetermineFromNumber, RecordFailure, At, Recorded
<1>3. PICK state \in {"recorded", "finished", "failed"} : Goto(j, state)
  BY <1>2 DEF RecordSent, BroadcastOutbound
<1>4. job'[j].state = state
  BY <1>1, <1>3, GotoTyped DEF TypeInv, Running, Settled
<1>5. CASE BroadcastOutbound(j)
  <2>1. job'[j].state = "finished"
    BY <1>1, <1>5, GotoTyped DEF TypeInv, Settled, BroadcastOutbound
  <2> QED
    BY <2>1 DEF Recorded
<1>6. CASE RecordSent(j)
  <2>1. \/ Goto(j, "recorded")
        \/ Goto(j, "failed") /\ ~Storable(job[j].customer, job[j].body)
    BY <1>6 DEF RecordSent
  <2>2. \/ job'[j].state = "recorded"
        \/ job'[j].state = "failed" /\ ~Storable(job[j].customer, job[j].body)
    BY <1>1, <2>1, GotoTyped DEF TypeInv, Running, Settled
  <2>3. job[j].state = "accepted" /\ consent' = consent
    BY <1>6 DEF RecordSent, At, consentVars
  <2> QED
    BY <2>2, <2>3 DEF Recorded
<1> QED
  BY <1>2, <1>5, <1>6

LEMMA KeptStep ==
    ASSUME Faults \subseteq {"appointment_deleted"}, KeptInv, [Next]_vars
    PROVE  KeptInv'
<1>1. OnceInv /\ ConsentInv /\ TypeInv /\ OnceInv'
  BY OnceStep DEF KeptInv, OnceInv, RecordInv, ConsentInv
<1>2. ASSUME NEW j \in Jobs, At(j, "accepted")' PROVE ~Blank(job'[j].body)
  <2>1. job'[j].state = "accepted"
    BY <1>2 DEF At
  <2>2. CASE job'[j] = job[j]
    BY <2>1, <2>2 DEF KeptInv, At
  <2>3. CASE job'[j] # job[j]
    <3>1. job'[j].body = job[j].body /\ job[j].state # "accepted"
      BY <1>1, <2>1, <2>3, JobSteps DEF JobStep, Follows
    <3>2. ~Unsendable(j)
      BY <1>1, <2>1, <3>1, JobWrites
    <3> QED
      BY <3>1, <3>2 DEF Unsendable
  <2> QED
    BY <2>2, <2>3
<1>3. ASSUME NEW s \in sms'
      PROVE  \/ job'[s.job].state \in Recorded
             \/ job'[s.job].state = "failed" /\ consent'[s.customer] \notin SmsConsentStatus
  <2>1. CASE s \in sms
    <3>1. s.job \in Jobs /\ job[s.job].state # "unused"
      BY <1>1, <2>1, TextOfOnlyAttempt
    <3>2. s.customer = job[s.job].customer /\ s.customer \in Customers
      BY <1>1, <2>1
         DEF OnceInv, RecordInv, TextTrue, TypeInv, TypeOK, OutboundTypeOK, Sms
    <3>3. consent'[s.customer] \in SmsConsentStatus => Exists(s.customer)
      <4>1. consent[s.customer] # "none"
        BY <1>1, <3>1, <3>2 DEF ConsentInv
      <4> QED
        BY <1>1, <3>2, <4>1, ConsentMoves DEF ConsentMove, Exists, SmsConsentStatus
    <3>4. CASE job[s.job].state \in Recorded
      <4>1. CASE job'[s.job] = job[s.job]
        BY <3>4, <4>1
      <4>2. CASE /\ job[s.job].state = "accepted" /\ job'[s.job].state = "failed"
                 /\ consent' = consent
                 /\ ~Storable(job[s.job].customer, job[s.job].body)
        <5>1. ~Blank(job[s.job].body)
          BY <3>1, <4>2 DEF KeptInv, At
        <5> QED
          BY <3>2, <4>2, <5>1 DEF Storable, Exists
      <4> QED
        BY <1>1, <3>1, <3>4, <4>1, <4>2, RecordingFails
    <3>5. CASE At(s.job, "failed") /\ ~Exists(s.customer)
      <4>1. job'[s.job] = job[s.job]
        BY <1>1, <3>1, <3>5, JobSteps DEF JobStep, At, Running
      <4> QED
        BY <3>3, <3>5, <4>1 DEF At
    <3> QED
      BY <2>1, <3>4, <3>5 DEF KeptInv
  <2>2. CASE s \notin sms
    <3>1. PICK j \in Jobs : job'[j].state = "accepted" /\ sms' = sms \cup {TextOf(j)}
      BY <1>1, <2>2, TextWrites
    <3> QED
      BY <2>2, <3>1 DEF TextOf, Recorded
  <2> QED
    BY <2>1, <2>2
<1> QED
  BY <1>1, <1>2, <1>3 DEF KeptInv, At, Exists

\* If no worker is shut down or dies and Twilio always answers, every text is
\* in the inbox when its job is through; deleted appointments do no harm.
THEOREM TextsComeOnRecord ==
    ASSUME Faults \subseteq {"appointment_deleted"}
    PROVE  Spec => []TextsOnRecord
<1>1. KeptInv /\ [Next]_vars => KeptInv'
  BY KeptStep
<1>2. KeptInv => TextsOnRecord
  <2> SUFFICES ASSUME KeptInv, NEW s \in sms,
                      job[s.job].state \in Settled, Exists(s.customer)
               PROVE  \E m \in messages : /\ m.origin = <<s.job, s.attempt>>
                                          /\ m.status = "sent"
    BY DEF TextsOnRecord
  <2>1. /\ s.job \in Jobs
        /\ Attempt(s.job) = <<s.job, s.attempt>>
        /\ job[s.job].attempts \in Attempts
    <3>1. s.job \in Jobs /\ s.attempt = 1 /\ job[s.job].attempts = 1
      BY TextOfOnlyAttempt DEF KeptInv
    <3>2. s.attempt \in Attempts
      BY DEF KeptInv, OnceInv, RecordInv, ConsentInv, TypeInv, TypeOK, OutboundTypeOK, Sms
    <3> QED
      BY <3>1, <3>2 DEF Attempt
  <2>2. At(s.job, "finished") /\ s.customer = job[s.job].customer
    BY DEF KeptInv, OnceInv, RecordInv, TextTrue, Settled, Recorded, At
  <2>3. PICK m \in messages : m.origin = <<s.job, s.attempt>>
    BY <2>1, <2>2 DEF KeptInv, OnceInv, RecordInv, OnRecord, At
  <2>4. m.status # "failed" /\ m.status # "received"
    <3>1. RowTrue(m)
      BY DEF KeptInv, OnceInv, RecordInv
    <3>2. m.origin \in Jobs \X Attempts
      BY <2>1, <2>3 DEF Attempt
    <3> QED
      BY <2>3, <3>1, <3>2, OriginAssumption DEF RowTrue
  <2>5. m.status \in MessageStatus
    BY DEF KeptInv, OnceInv, RecordInv, ConsentInv, TypeInv, TypeOK, MessageRows
  <2> QED
    BY <2>3, <2>4, <2>5 DEF MessageStatus
<1> QED
  BY KeptInitially, <1>1, <1>2, PTL DEF Spec

------------------------------------------------------------------------------
(* The consent gate *)

ArmedState == {"checked", "addressed"}

\* What the refinement needs beyond RecordInv: the queue's bound.
GateInv ==
    /\ RecordInv
    /\ Cardinality(RunningJobs) <= WorkerThreads
    /\ IsFiniteSet(sms)

------------------------------------------------------------------------------
\* A job moves on without calling Twilio and without a fresh consent check.
Moved(j, state) ==
    /\ job[j].state \in Running
    /\ state \in Unsent => state = "addressed" /\ job[j].state = "checked"
    /\ Goto(j, state)
    /\ UNCHANGED <<consentVars, sms>>

LEMMA OutboundWrites ==
    ASSUME [Next]_vars
    PROVE  \/ UNCHANGED outboundVars
           \/ /\ \E j \in Jobs, c \in Customers, source \in Sources,
                    body \in OutBodies \cup {"text"} : Enqueue(j, c, source, body)
              /\ UNCHANGED <<consentVars, sms>>
           \/ \E r \in Requests, j \in Jobs : ProcessHelp(r, j)
           \/ \E j \in Jobs : Claim(j) \/ LoadCustomer(j) \/ SendSms(j)
           \/ \E j \in Jobs, state \in {"ready"} \cup Running \cup Settled : Moved(j, state)
<1>1. CASE UNCHANGED vars
  BY <1>1 DEF vars, outboundVars
<1>2. CASE Staff
  BY <1>2 DEF Staff, CreateCustomer, UpdateCustomer, DestroyCustomer, MessagesCreate,
       Sources
<1>3. CASE Scheduler
  BY <1>3 DEF Scheduler, EnqueueReminder, Sources
<1>4. ASSUME NEW j \in Jobs, Worker(j)
      PROVE  \/ Claim(j) \/ LoadCustomer(j) \/ SendSms(j)
             \/ \E state \in {"ready"} \cup Running \cup Settled : Moved(j, state)
  <2>1. CASE Release(j)
    BY <2>1 DEF Release, Moved, Unsent
  <2>2. CASE Crash(j)
    BY <2>2 DEF Crash, Moved, Unsent, Settled
  <2>3. CASE DetermineFromNumber(j)
    BY <2>3 DEF DetermineFromNumber, Moved, Unsent, Settled, Running, At
  <2>4. CASE RecordSent(j)
    BY <2>4 DEF RecordSent, Moved, Unsent, Settled, Running, At
  <2>5. CASE RecordFailure(j)
    BY <2>5 DEF RecordFailure, Moved, Unsent, Settled, Running, At
  <2>6. CASE BroadcastOutbound(j)
    BY <2>6 DEF BroadcastOutbound, Moved, Unsent, Settled, Running, At
  <2> QED
    BY <1>4, <2>1, <2>2, <2>3, <2>4, <2>5, <2>6 DEF Worker, Work, Perform
<1>5. ASSUME NEW r \in Requests, Webhook(r)
      PROVE  UNCHANGED outboundVars \/ \E j \in Jobs : ProcessHelp(r, j)
  BY <1>5 DEF Webhook, Serve, Handle, Receive, FindCustomer, SaveInbound,
       ProcessStop, BroadcastInbound, CrashRequest
<1> QED
  BY <1>1, <1>2, <1>3, <1>4, <1>5 DEF Next

\* The HELP reply is enqueued like any other job.
LEMMA HelpEnqueues ==
    ASSUME ConsentInv, NEW r \in Requests, NEW j \in Jobs, ProcessHelp(r, j)
    PROVE  /\ \E c \in Customers, source \in Sources, body \in OutBodies \cup {"text"} :
                  Enqueue(j, c, source, body)
           /\ UNCHANGED <<consentVars, sms>>
BY DEF ProcessHelp, In, ConsentInv, TypeInv, Sources

------------------------------------------------------------------------------
(* The invariant *)

LEMMA RunningFinite ==
    ASSUME NEW S \in SUBSET Jobs
    PROVE  IsFiniteSet(S) /\ Cardinality(S) \in Nat
BY OutboundAssumption, FS_Subset, FS_CardinalityType

LEMMA FewerRunning ==
    ASSUME Cardinality(RunningJobs) <= WorkerThreads, RunningJobs' \subseteq RunningJobs
    PROVE  Cardinality(RunningJobs') <= WorkerThreads
<1>1. RunningJobs \in SUBSET Jobs /\ RunningJobs' \in SUBSET Jobs
  BY DEF RunningJobs
<1>2. Cardinality(RunningJobs') <= Cardinality(RunningJobs)
  BY <1>1, RunningFinite, FS_Subset
<1> QED
  BY <1>1, <1>2, RunningFinite, OutboundAssumption

LEMMA GateInitially == Init => GateInv
<1> SUFFICES ASSUME Init PROVE GateInv
  OBVIOUS
<1>1. RunningJobs = {} /\ sms = {}
  BY DEF Init, OutboundInit, RunningJobs, Unused, Running
<1> QED
  BY <1>1, RecordInitially, FS_EmptySet, OutboundAssumption DEF GateInv

LEMMA GateInvStep == GateInv /\ [Next]_vars => GateInv'
<1> SUFFICES ASSUME GateInv, [Next]_vars PROVE GateInv'
  OBVIOUS
<1>1. RecordInv' /\ TypeInv
  BY RecordStep DEF GateInv, RecordInv, ConsentInv
<1>2. IsFiniteSet(sms')
  BY <1>1, TextWrites, FS_AddElement DEF GateInv
<1>3. Cardinality(RunningJobs') <= WorkerThreads
  <2>1. CASE \E j \in Jobs : Claim(j)
    <3>1. PICK j \in Jobs : Claim(j)
      BY <2>1
    <3>2. job[j].state = "ready" /\ \A i \in Jobs \ {j} : job'[i] = job[i]
      BY <1>1, <3>1 DEF Claim, At, TypeInv, TypeOK, OutboundTypeOK
    <3>3. j \notin RunningJobs /\ RunningJobs' \subseteq RunningJobs \cup {j}
      BY <3>2 DEF RunningJobs, Running
    <3>4. RunningJobs \in SUBSET Jobs /\ RunningJobs \cup {j} \in SUBSET Jobs
      BY DEF RunningJobs
    <3>5. Cardinality(RunningJobs \cup {j}) = Cardinality(RunningJobs) + 1
      BY <3>3, <3>4, RunningFinite, FS_AddElement
    <3>6. Cardinality(RunningJobs') <= Cardinality(RunningJobs \cup {j})
      BY <3>3, <3>4, RunningFinite, FS_Subset
    <3>7. Cardinality(RunningJobs) \in Nat /\ Cardinality(RunningJobs') \in Nat
      BY <3>3, <3>4, RunningFinite
    <3> QED
      BY <3>1, <3>5, <3>6, <3>7, OutboundAssumption DEF Claim
  <2>2. CASE ~\E j \in Jobs : Claim(j)
    <3>1. ASSUME NEW j \in Jobs, job'[j].state \in Running PROVE job[j].state \in Running
      <4>1. CASE job[j].state = "ready" /\ job'[j].state = "claimed"
        <5>1. job[j] # Unused /\ job'[j] # job[j]
          BY <4>1 DEF Unused
        <5>2. Worker(j)
          BY <1>1, <5>1, JobOwner DEF Enqueue
        <5> QED
          BY <2>2, <4>1, <5>2
             DEF Worker, Work, Perform, Release, Crash, LoadCustomer, DetermineFromNumber,
                 SendSms, RecordSent, RecordFailure, BroadcastOutbound, At, Running
      <4> QED
        BY <1>1, <3>1, <4>1, JobSteps DEF JobStep, Running
    <3>2. RunningJobs' \subseteq RunningJobs
      BY <3>1 DEF RunningJobs
    <3> QED
      BY <3>2, FewerRunning DEF GateInv
  <2> QED
    BY <2>1, <2>2
<1> QED
  BY <1>1, <1>2, <1>3 DEF GateInv

------------------------------------------------------------------------------
(* The refinement *)

LEMMA Stages ==
    /\ Stage("none") = "new"
    /\ Stage("active") = "given"
    /\ Stage("opted_out") = "ended"
    /\ Stage("gone") = "ended"
BY DEF Stage

LEMMA SameCardinality == \A S : Gate!Cardinality(S) = Cardinality(S)
BY DEF Gate!Cardinality, Cardinality

\* Steps the gate does not see.
LEMMA Unseen ==
    ASSUME \A c \in Customers : Stage(consent'[c]) = Stage(consent[c]),
           \A c \in Customers : Armed(c)' = Armed(c),
           sms' = sms
    PROVE  UNCHANGED Gate!gateVars
<1>1. \A c \in Customers : Cardinality(LateTexts(c))' = Cardinality(LateTexts(c))
  BY DEF LateTexts
<1> QED
  BY <1>1 DEF Gate!gateVars

LEMMA ArmedMove ==
    ASSUME TypeInv, NEW j \in Jobs, job[j].state # "unused",
           NEW state \in {"ready"} \cup Running \cup Settled,
           Goto(j, state),
           NEW d \in Customers
    PROVE  /\ d = job[j].customer /\ state \in ArmedState =>
                 Armed(d)' = IF j \in Armed(d) THEN Armed(d) ELSE Armed(d) \cup {j}
           /\ ~(d = job[j].customer /\ state \in ArmedState) =>
                 Armed(d)' = IF j \in Armed(d) THEN Armed(d) \ {j} ELSE Armed(d)
<1>1. /\ job'[j].state = state
      /\ job'[j].customer = job[j].customer
      /\ \A i \in Jobs \ {j} : job'[i] = job[i]
  BY GotoTyped DEF TypeInv
<1>2. CASE d = job[j].customer /\ state \in ArmedState
  BY <1>1, <1>2 DEF Armed, ArmedState
<1>3. CASE ~(d = job[j].customer /\ state \in ArmedState)
  BY <1>1, <1>3 DEF Armed, ArmedState
<1> QED
  BY <1>2, <1>3

LEMMA OutstandingRunning ==
    /\ Gate!Outstanding \subseteq RunningJobs
    /\ \A j \in Gate!Outstanding : job[j].state \in ArmedState
BY DEF Gate!Outstanding, Armed, RunningJobs, Running, ArmedState

LEMMA GateInitMap == Init => Gate!GateInit
<1> SUFFICES ASSUME Init PROVE Gate!GateInit
  OBVIOUS
<1>1. \A c \in Customers : Stage(consent[c]) = "new"
  BY Stages DEF Init, ConsentInit
<1>2. \A c \in Customers : Armed(c) = {} /\ LateTexts(c) = {}
  BY DEF Init, OutboundInit, Armed, LateTexts, Unused
<1> QED
  BY <1>1, <1>2, FS_EmptySet DEF Gate!GateInit

\* Writes to the customers while the jobs stand still: Give, End or nothing.
LEMMA GateConsent ==
    ASSUME ConsentInv, [Next]_vars, UNCHANGED outboundVars
    PROVE  Gate!GateNext \/ UNCHANGED Gate!gateVars
<1>1. /\ \A d \in Customers : Armed(d)' = Armed(d)
      /\ \A d \in Customers : Cardinality(LateTexts(d))' = Cardinality(LateTexts(d))
      /\ sms' = sms
  BY DEF outboundVars, Armed, LateTexts
<1>2. TypeInv /\ consent \in [Customers -> SmsConsentStatus \cup {"none", "gone"}]
  BY DEF ConsentInv, TypeInv, TypeOK, ConsentTypeOK
<1>3. CASE \A d \in Customers : consent'[d] = consent[d]
  BY <1>1, <1>3, Unseen
<1>4. ASSUME NEW c \in Customers, NEW to \in {"active", "opted_out", "gone"},
             consent' = [consent EXCEPT ![c] = to],
             \/ consent[c] = "none" /\ to = "active"
             \/ consent[c] = "active" /\ to # "active"
             \/ consent[c] = "opted_out" /\ to # "active"
      PROVE  Gate!GateNext \/ UNCHANGED Gate!gateVars
  <2>1. consent'[c] = to /\ \A d \in Customers \ {c} : consent'[d] = consent[d]
    BY <1>2, <1>4
  <2>2. CASE consent[c] = "none"
    <3>2. Stage(consent[c]) = "new"
      BY <2>2, Stages
    <3>3. \A d \in Customers :
             Stage(consent'[d]) = IF d = c THEN "given" ELSE Stage(consent[d])
      BY <1>4, <2>1, <2>2, Stages
    <3>1. Gate!Give(c)
      BY <1>1, <3>2, <3>3 DEF Gate!Give
    <3> QED
      BY <3>1 DEF Gate!GateNext
  <2>3. CASE consent[c] = "active"
    <3>2. Stage(consent[c]) = "given"
      BY <2>3, Stages
    <3>3. \A d \in Customers :
             Stage(consent'[d]) = IF d = c THEN "ended" ELSE Stage(consent[d])
      BY <1>4, <2>1, <2>3, Stages
    <3>1. Gate!End(c)
      BY <1>1, <3>2, <3>3 DEF Gate!End
    <3> QED
      BY <3>1 DEF Gate!GateNext
  <2>4. CASE consent[c] = "opted_out"
    BY <1>1, <1>4, <2>1, <2>4, Stages, Unseen
  <2> QED
    BY <1>4, <2>2, <2>3, <2>4
<1>5. ASSUME NEW c \in Customers, NEW p \in Phones, InsertCustomer(c, p)
      PROVE  Gate!GateNext \/ UNCHANGED Gate!gateVars
  BY <1>4, <1>5 DEF InsertCustomer
<1>6. ASSUME NEW c \in Customers, NEW p \in Phones, EditCustomer(c, p)
      PROVE  Gate!GateNext \/ UNCHANGED Gate!gateVars
  BY <1>3, <1>6 DEF EditCustomer
<1>7. ASSUME NEW c \in Customers, DeleteCustomer(c)
      PROVE  Gate!GateNext \/ UNCHANGED Gate!gateVars
  BY <1>4, <1>7 DEF DeleteCustomer, Exists, SmsConsentStatus, ConsentInv
<1>8. ASSUME NEW r \in Requests, In(r, "saved"), OptOut(req[r].customer, req[r].seen)
      PROVE  Gate!GateNext \/ UNCHANGED Gate!gateVars
  <2>1. PICK c \in Customers : c = req[r].customer
    BY <1>2, <1>8 DEF In, TypeInv
  <2>2. Exists(c) /\ consent' = [consent EXCEPT ![c] = "opted_out"]
    BY <1>8, <2>1 DEF OptOut
  <2> QED
    BY <1>4, <2>2 DEF Exists, SmsConsentStatus, ConsentInv
<1>9. CASE UNCHANGED consentVars
  BY <1>3, <1>9 DEF consentVars
<1> QED
  BY <1>5, <1>6, <1>7, <1>8, <1>9, ConsentWrites

\* A consent check that lets the job pass grants it a permit.
LEMMA GateLoad ==
    ASSUME GateInv, NEW j \in Jobs, LoadCustomer(j)
    PROVE  Gate!GateNext \/ UNCHANGED Gate!gateVars
<1> DEFINE c == job[j].customer
<1>1. TypeInv /\ job[j].state = "claimed" /\ job[j].state # "unused"
      /\ consent' = consent /\ sms' = sms
  BY DEF GateInv, RecordInv, ConsentInv, LoadCustomer, At, consentVars
<1>2. c \in Customers
  BY <1>1, JobInUse DEF TypeInv, Job
<1>3. \A d \in Customers : j \notin Armed(d)
  BY <1>1 DEF Armed
<1>4. CASE Exists(c) /\ CanReceiveSms(consent[c]) /\ Goto(j, "checked")
  <2>1. \A d \in Customers : Armed(d)' = IF d = c THEN Armed(d) \cup {j} ELSE Armed(d)
    BY <1>1, <1>3, <1>4, ArmedMove DEF Running, ArmedState
  <2>2. Stage(consent[c]) = "given"
    BY <1>4, Stages DEF CanReceiveSms
  <2>3. j \notin Gate!Outstanding
    BY <1>1, OutstandingRunning DEF ArmedState
  <2>4. Cardinality(Gate!Outstanding \cup {j}) <= WorkerThreads
    <3>1. j \in RunningJobs /\ RunningJobs \in SUBSET Jobs
      BY <1>1 DEF RunningJobs, Running
    <3>2. Gate!Outstanding \cup {j} \subseteq RunningJobs
      BY <3>1, OutstandingRunning
    <3>3. /\ Gate!Outstanding \cup {j} \in SUBSET Jobs
          /\ Cardinality(Gate!Outstanding \cup {j}) <= Cardinality(RunningJobs)
      BY <3>1, <3>2, RunningFinite, FS_Subset
    <3> QED
      BY <3>1, <3>3, RunningFinite, OutboundAssumption DEF GateInv
  <2>5. \A d \in Customers : Cardinality(LateTexts(d))' = Cardinality(LateTexts(d))
    BY <1>1 DEF LateTexts
  <2>6. Gate!Grant(c, j)
    BY <1>1, <1>2, <2>1, <2>2, <2>3, <2>4, <2>5, SameCardinality DEF Gate!Grant
  <2> QED
    BY <1>2, <2>6 DEF Gate!GateNext
<1>5. ASSUME NEW state \in {"skipped", "failed"}, Goto(j, state)
      PROVE  UNCHANGED Gate!gateVars
  <2>1. \A d \in Customers : Armed(d)' = Armed(d)
    BY <1>1, <1>3, <1>5, ArmedMove DEF Settled, ArmedState
  <2> QED
    BY <1>1, <2>1, Unseen
<1> QED
  BY <1>4, <1>5 DEF LoadCustomer

\* A job that leaves the armed states without calling Twilio gives its permit
\* back; every other move is none of the gate's business.
LEMMA GateMoved ==
    ASSUME GateInv, NEW j \in Jobs, NEW state \in {"ready"} \cup Running \cup Settled,
           Moved(j, state)
    PROVE  Gate!GateNext \/ UNCHANGED Gate!gateVars
<1> DEFINE c == job[j].customer
<1>1. /\ TypeInv /\ job[j].state # "unused" /\ Goto(j, state)
      /\ consent' = consent /\ sms' = sms
  BY DEF GateInv, RecordInv, ConsentInv, Moved, consentVars, Running
<1>2. c \in Customers
  BY <1>1, JobInUse DEF TypeInv, Job
<1>3. state \in ArmedState => job[j].state \in ArmedState
  BY DEF Moved, ArmedState, Unsent
<1>4. \A d \in Customers : j \in Armed(d) <=> d = c /\ job[j].state \in ArmedState
  BY DEF Armed, ArmedState
<1>5. CASE state \in ArmedState \/ job[j].state \notin ArmedState
  <2>1. \A d \in Customers : Armed(d)' = Armed(d)
    BY <1>1, <1>3, <1>4, <1>5, ArmedMove
  <2> QED
    BY <1>1, <2>1, Unseen
<1>6. CASE state \notin ArmedState /\ job[j].state \in ArmedState
  <2>1. \A d \in Customers : Armed(d)' = IF d = c THEN Armed(d) \ {j} ELSE Armed(d)
    BY <1>1, <1>4, <1>6, ArmedMove
  <2>2. \A d \in Customers : Cardinality(LateTexts(d))' = Cardinality(LateTexts(d))
    BY <1>1 DEF LateTexts
  <2>3. Gate!Lapse(c, j)
    BY <1>1, <1>2, <1>4, <1>6, <2>1, <2>2 DEF Gate!Lapse
  <2> QED
    BY <1>2, <2>3 DEF Gate!GateNext
<1> QED
  BY <1>5, <1>6

\* The call to Twilio spends the permit, or gives it back.
LEMMA GateSend ==
    ASSUME GateInv, NEW j \in Jobs, SendSms(j)
    PROVE  Gate!GateNext
<1> DEFINE c == job[j].customer
           t == TextOf(j)
<1>1. /\ TypeInv /\ job[j].state = "addressed" /\ job[j].state # "unused"
      /\ consent' = consent
  BY DEF GateInv, RecordInv, ConsentInv, SendSms, At, consentVars
<1>2. c \in Customers
  BY <1>1, JobInUse DEF TypeInv, Job
<1>3. PICK state \in {"accepted", "rejected", "failed"} : Goto(j, state)
  BY DEF SendSms
<1>4. \A d \in Customers : j \in Armed(d) <=> d = c
  BY <1>1 DEF Armed
<1>5. \A d \in Customers : Armed(d)' = IF d = c THEN Armed(d) \ {j} ELSE Armed(d)
  <2>1. state \in Running \cup Settled /\ state \notin ArmedState
    BY <1>3 DEF Running, Settled, ArmedState
  <2> QED
    BY <1>1, <1>3, <1>4, <2>1, ArmedMove
<1>6. CASE sms' = sms
  <2>1. \A d \in Customers : Cardinality(LateTexts(d))' = Cardinality(LateTexts(d))
    BY <1>6 DEF LateTexts
  <2>2. Gate!Lapse(c, j)
    BY <1>1, <1>2, <1>4, <1>5, <2>1 DEF Gate!Lapse
  <2> QED
    BY <1>2, <2>2 DEF Gate!GateNext
<1>7. CASE sms' = sms \cup {t}
  <2>1. t.job = j /\ t.attempt = job[j].attempts /\ t.customer = c /\ t.consent = consent[c]
    BY DEF TextOf
  <2>2. t \notin sms
    BY <1>1, <2>1 DEF GateInv, RecordInv, TextTrue, Untexted, Unsent
  <2>3. \A d \in Customers :
           LateTexts(d)' = IF d = c /\ consent[c] # "active"
                           THEN LateTexts(d) \cup {t} ELSE LateTexts(d)
    BY <1>7, <2>1 DEF LateTexts
  <2>4. consent[c] \in {"active", "opted_out", "gone"}
    BY <1>1, <1>2 DEF GateInv, RecordInv, ConsentInv, TypeInv, TypeOK, ConsentTypeOK, SmsConsentStatus
  <2>5. Stage(consent[c]) = "ended" <=> consent[c] # "active"
    BY <2>4, Stages
  <2>6. IsFiniteSet(LateTexts(c)) /\ t \notin LateTexts(c)
    BY <2>2, FS_Subset DEF GateInv, LateTexts
  <2>7. Cardinality(LateTexts(c) \cup {t}) = Cardinality(LateTexts(c)) + 1
    BY <2>6, FS_AddElement
  <2>8. \A d \in Customers :
           Cardinality(LateTexts(d))' = IF d = c /\ Stage(consent[c]) = "ended"
                                        THEN Cardinality(LateTexts(d)) + 1
                                        ELSE Cardinality(LateTexts(d))
    BY <2>3, <2>5, <2>7
  <2>9. Gate!Spend(c, j)
    BY <1>1, <1>2, <1>4, <1>5, <2>8 DEF Gate!Spend
  <2> QED
    BY <1>2, <2>9 DEF Gate!GateNext
<1> QED
  BY <1>6, <1>7 DEF SendSms, Accept

LEMMA GateStep == GateInv /\ [Next]_vars => [Gate!GateNext]_(Gate!gateVars)
<1> SUFFICES ASSUME GateInv, [Next]_vars
             PROVE  Gate!GateNext \/ UNCHANGED Gate!gateVars
  OBVIOUS
<1>0. ConsentInv /\ TypeInv /\ TypeOK
  BY DEF GateInv, RecordInv, ConsentInv, TypeInv
<1>1. CASE UNCHANGED outboundVars
  BY <1>0, <1>1, GateConsent
<1>2. ASSUME NEW j \in Jobs, NEW c \in Customers, NEW source \in Sources,
             NEW body \in OutBodies \cup {"text"},
             Enqueue(j, c, source, body), UNCHANGED <<consentVars, sms>>
      PROVE  UNCHANGED Gate!gateVars
  <2>1. /\ job[j].state = "unused" /\ job'[j].state = "ready"
        /\ \A i \in Jobs \ {j} : job'[i] = job[i]
    BY <1>0, <1>2, EnqueueTyped
  <2>2. \A d \in Customers : Armed(d)' = Armed(d)
    BY <2>1 DEF Armed
  <2> QED
    BY <1>2, <2>2, Unseen DEF consentVars
<1>3. ASSUME NEW j \in Jobs, Claim(j) PROVE UNCHANGED Gate!gateVars
  <2>1. /\ job[j].state = "ready" /\ job'[j].state = "claimed"
        /\ \A i \in Jobs \ {j} : job'[i] = job[i]
    <3>1. job[j] \in Job
      BY <1>0, <1>3, JobInUse DEF Claim, At
    <3> QED
      BY <1>0, <1>3, <3>1 DEF Claim, At, Job, TypeOK, OutboundTypeOK
  <2>2. \A d \in Customers : Armed(d)' = Armed(d)
    BY <2>1 DEF Armed
  <2> QED
    BY <1>3, <2>2, Unseen DEF Claim, consentVars
<1> QED
  BY <1>0, <1>1, <1>2, <1>3, GateLoad, GateMoved, GateSend, OutboundWrites, HelpEnqueues

LEMMA GateInvariant == Spec => []GateInv
BY GateInitially, GateInvStep, PTL DEF Spec

\* The messaging system implements the consent gate: a text needs a consent
\* check that passed while the customer consented, by one of at most
\* WorkerThreads jobs, and is sent once for it.
THEOREM MessagingImplementsGate == Spec => GateSpec
BY GateInitMap, GateStep, GateInvariant, PTL DEF Spec, GateSpec, Gate!GateSpec

------------------------------------------------------------------------------
(* What the implementation is good for: the bound on the texts that escape  *)

\* LeakBounded becomes inductive with one more fact: no text is late while
\* the consent has not ended.
BoundedFor(c) ==
    /\ consent[c] \in {"none", "active"} => Cardinality(LateTexts(c)) = 0
    /\ consent[c] # "active" =>
          Cardinality(LateTexts(c)) + Cardinality(Armed(c)) <= WorkerThreads

LeakInv == GateInv /\ \A c \in Customers : BoundedFor(c)

\* What the sets of late texts and of armed jobs count to.
Counts(c) ==
    /\ consent[c] \in {"none", "active", "opted_out", "gone"}
    /\ Stage(consent[c]) = "new" <=> consent[c] = "none"
    /\ Stage(consent[c]) = "given" <=> consent[c] = "active"
    /\ Stage(consent[c]) = "ended" <=> consent[c] \in {"opted_out", "gone"}
    /\ Cardinality(LateTexts(c)) \in Nat
    /\ Cardinality(Armed(c)) \in Nat
    /\ Cardinality(Armed(c)) <= WorkerThreads

LEMMA Counted == GateInv => \A c \in Customers : Counts(c)
<1> SUFFICES ASSUME GateInv, NEW c \in Customers PROVE Counts(c)
  OBVIOUS
<1>1. consent[c] \in {"none", "active", "opted_out", "gone"}
  BY DEF GateInv, RecordInv, ConsentInv, TypeInv, TypeOK, ConsentTypeOK, SmsConsentStatus
<1>2. Cardinality(LateTexts(c)) \in Nat
  BY FS_Subset, FS_CardinalityType DEF GateInv, LateTexts
<1>3. Armed(c) \subseteq RunningJobs /\ RunningJobs \in SUBSET Jobs
  BY DEF Armed, RunningJobs, Running
<1>4. /\ Cardinality(Armed(c)) \in Nat
      /\ Cardinality(RunningJobs) \in Nat
      /\ Cardinality(Armed(c)) <= Cardinality(RunningJobs)
  BY <1>3, RunningFinite, FS_Subset
<1> QED
  BY <1>1, <1>2, <1>4, Stages, OutboundAssumption DEF GateInv, Counts

LEMMA LeakInitially == Init => LeakInv
<1> SUFFICES ASSUME Init, NEW c \in Customers PROVE BoundedFor(c)
  BY GateInitially DEF LeakInv
<1>1. LateTexts(c) = {} /\ Armed(c) = {}
  BY DEF Init, OutboundInit, LateTexts, Armed, Unused
<1> QED
  BY <1>1, FS_EmptySet, OutboundAssumption DEF BoundedFor

\* A permit that is spent or lapses is one armed job less.
LEMMA ArmedLess ==
    ASSUME NEW c \in Customers, NEW p \in Armed(c), Armed(c)' = Armed(c) \ {p}
    PROVE  Cardinality(Armed(c)') = Cardinality(Armed(c)) - 1
<1>1. IsFiniteSet(Armed(c))
  BY RunningFinite DEF Armed
<1> QED
  BY <1>1, FS_RemoveElement

\* Each step of the gate, seen from one customer.
LEMMA LeakStep == LeakInv /\ [Next]_vars => LeakInv'
<1> SUFFICES ASSUME LeakInv, [Next]_vars, NEW d \in Customers PROVE BoundedFor(d)'
  BY GateInvStep DEF LeakInv
<1>1. Counts(d)
  BY Counted DEF LeakInv
<1>2. Counts(d)'
  <2>1. GateInv'
    BY GateInvStep DEF LeakInv
  <2>2. GateInv' => (\A c \in Customers : Counts(c))'
    BY Counted, PTL
  <2> QED
    BY <2>1, <2>2
<1>3. BoundedFor(d)
  BY DEF LeakInv
<1>4. CASE /\ Stage(consent'[d]) = Stage(consent[d])
           /\ Cardinality(LateTexts(d)') = Cardinality(LateTexts(d))
           /\ Armed(d)' = Armed(d)
  BY <1>1, <1>2, <1>3, <1>4 DEF Counts, BoundedFor
<1>5. CASE UNCHANGED Gate!gateVars
  BY <1>4, <1>5 DEF Gate!gateVars
<1>6. ASSUME NEW c \in Customers, Gate!Give(c) PROVE BoundedFor(d)'
  <2>1. CASE c = d
    BY <1>1, <1>2, <1>3, <1>6, <2>1 DEF Gate!Give, Counts, BoundedFor
  <2> QED
    BY <1>4, <1>6, <2>1 DEF Gate!Give
<1>7. ASSUME NEW c \in Customers, Gate!End(c) PROVE BoundedFor(d)'
  <2>1. CASE c = d
    BY <1>1, <1>2, <1>3, <1>7, <2>1 DEF Gate!End, Counts, BoundedFor
  <2> QED
    BY <1>4, <1>7, <2>1 DEF Gate!End
<1>8. ASSUME NEW c \in Customers, NEW p \in Jobs, Gate!Grant(c, p)
      PROVE  BoundedFor(d)'
  <2>1. CASE c = d
    BY <1>1, <1>2, <1>3, <1>8, <2>1 DEF Gate!Grant, Counts, BoundedFor
  <2> QED
    BY <1>4, <1>8, <2>1 DEF Gate!Grant
<1>9. ASSUME NEW c \in Customers, NEW p \in Jobs, Gate!Spend(c, p)
      PROVE  BoundedFor(d)'
  <2>1. CASE c = d
    <3>1. p \in Armed(d) /\ Armed(d)' = Armed(d) \ {p}
      BY <1>9, <2>1 DEF Gate!Spend
    <3>2. Stage(consent'[d]) = Stage(consent[d])
      BY <1>9, <2>1 DEF Gate!Spend
    <3>3. Cardinality(LateTexts(d)') = IF Stage(consent[d]) = "ended"
                                       THEN Cardinality(LateTexts(d)) + 1
                                       ELSE Cardinality(LateTexts(d))
      BY <1>9, <2>1 DEF Gate!Spend
    <3>4. Cardinality(Armed(d)') = Cardinality(Armed(d)) - 1
      BY <3>1, ArmedLess
    <3>5. Cardinality(LateTexts(d)) \in Nat /\ Cardinality(Armed(d)) \in Nat
      BY <1>1 DEF Counts
    <3>6. CASE consent[d] \in {"opted_out", "gone"}
      <4>1. Cardinality(LateTexts(d)') = Cardinality(LateTexts(d)) + 1
        BY <1>1, <3>3, <3>6 DEF Counts
      <4>2. consent'[d] \in {"opted_out", "gone"}
        BY <1>1, <1>2, <3>2, <3>6 DEF Counts
      <4>3. Cardinality(LateTexts(d)) + Cardinality(Armed(d)) <= WorkerThreads
        BY <1>3, <3>6 DEF BoundedFor
      <4> QED
        BY <3>4, <3>5, <4>1, <4>2, <4>3, OutboundAssumption DEF BoundedFor
    <3>7. CASE consent[d] = "active"
      <4>1. Cardinality(LateTexts(d)') = 0
        BY <1>1, <1>3, <3>3, <3>7 DEF Counts, BoundedFor
      <4>2. consent'[d] = "active"
        BY <1>1, <1>2, <3>2, <3>7 DEF Counts
      <4> QED
        BY <4>1, <4>2 DEF BoundedFor
    <3>8. CASE consent[d] = "none"
      <4>1. Cardinality(Armed(d)) <= WorkerThreads /\ WorkerThreads \in Nat
        BY <1>1, OutboundAssumption DEF Counts
      <4>2. Cardinality(LateTexts(d)') = 0
        BY <1>1, <1>3, <3>3, <3>8 DEF Counts, BoundedFor
      <4> QED
        BY <3>4, <3>5, <4>1, <4>2 DEF BoundedFor
    <3> QED
      BY <1>1, <3>6, <3>7, <3>8 DEF Counts
  <2> QED
    BY <1>4, <1>9, <2>1 DEF Gate!Spend
<1>10. ASSUME NEW c \in Customers, NEW p \in Jobs, Gate!Lapse(c, p)
       PROVE  BoundedFor(d)'
  <2>1. CASE c = d
    <3>1. p \in Armed(d) /\ Armed(d)' = Armed(d) \ {p}
      BY <1>10, <2>1 DEF Gate!Lapse
    <3>2. Stage(consent'[d]) = Stage(consent[d])
      BY <1>10, <2>1 DEF Gate!Lapse
    <3>3. Cardinality(LateTexts(d)') = Cardinality(LateTexts(d))
      BY <1>10, <2>1 DEF Gate!Lapse
    <3>4. Cardinality(Armed(d)') = Cardinality(Armed(d)) - 1
      BY <3>1, ArmedLess
    <3>5. consent'[d] = "active" <=> consent[d] = "active"
      BY <1>1, <1>2, <3>2 DEF Counts
    <3>6. consent'[d] = "none" <=> consent[d] = "none"
      BY <1>1, <1>2, <3>2 DEF Counts
    <3>7. /\ Cardinality(LateTexts(d)) \in Nat
          /\ Cardinality(Armed(d)) \in Nat
          /\ WorkerThreads \in Nat
      BY <1>1, OutboundAssumption DEF Counts
    <3> QED
      BY <1>3, <3>3, <3>4, <3>5, <3>6, <3>7 DEF BoundedFor
  <2> QED
    BY <1>4, <1>10, <2>1 DEF Gate!Lapse
<1> QED
  BY <1>5, <1>6, <1>7, <1>8, <1>9, <1>10, GateStep DEF LeakInv, Gate!GateNext

\* The texts that still reach a customer after its consent ended, and those
\* that could, are at most as many as the queue has threads.
THEOREM LeakIsBounded == Spec => []LeakBounded
<1>1. LeakInv => LeakBounded
  BY DEF LeakInv, BoundedFor, LeakBounded
<1> QED
  BY LeakInitially, LeakStep, <1>1, PTL DEF Spec
==============================================================================
