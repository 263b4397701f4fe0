------------------------- MODULE ConsentManagerProofs -------------------------
(***************************************************************************)
(* ConsentManager called any number of times at once, for any records and  *)
(* with copies of any age.                                                 *)
(***************************************************************************)
EXTENDS ConsentManager, FiniteSetTheorems, TLAPS

------------------------------------------------------------------------------
(* Types *)

LEMMA TypeInitial == Init => TypeOK
<1> SUFFICES ASSUME Init PROVE TypeOK
  OBVIOUS
<1>1. consent \in [Customers -> SmsConsentStatus \cup {"none", "gone"}]
  BY ConsentManagerAssumption DEF Init
<1>2. phone \in [Customers -> Phones \cup {NoPhone}]
  BY DEF Init
<1>3. optedOutAt \in [Customers -> BOOLEAN]
  BY DEF Init
<1>4. consentLogs \in [Customers -> Seq({"opted_in", "opted_out"})]
  <2>1. /\ <<"opted_in">> \in Seq({"opted_in", "opted_out"})
        /\ <<"opted_in", "opted_out">> \in Seq({"opted_in", "opted_out"})
    OBVIOUS
  <2> QED
    BY <2>1 DEF Init
<1>5. call \in [Callers -> Call \cup {Idle}]
  <2> HIDE DEF Idle, Call
  <2> QED
    BY DEF Init
<1> QED
  BY <1>1, <1>2, <1>3, <1>4, <1>5 DEF TypeOK, ConsentTypeOK

LEMMA LogTyped ==
    ASSUME ConsentTypeOK, NEW c \in Customers,
           NEW event \in {"opted_in", "opted_out"},
           LogConsent(c, event)
    PROVE  /\ consentLogs' \in [Customers -> Seq({"opted_in", "opted_out"})]
           /\ consentLogs'[c] = Append(consentLogs[c], event)
           /\ \A d \in Customers \ {c} : consentLogs'[d] = consentLogs[d]
<1>1. Append(consentLogs[c], event) \in Seq({"opted_in", "opted_out"})
  BY DEF ConsentTypeOK
<1> QED
  BY <1>1 DEF ConsentTypeOK, LogConsent

\* A call that ends keeps what it was called with.
LEMMA Returned ==
    ASSUME TypeOK, NEW k \in Callers, call[k].state = "loaded",
           NEW outcome \in CallState, Return(k, outcome)
    PROVE  /\ call[k] \in Call
           /\ call' \in [Callers -> Call \cup {Idle}]
           /\ call'[k] = [call[k] EXCEPT !.state = outcome]
           /\ call'[k].state = outcome
           /\ call'[k].operation = call[k].operation
           /\ call'[k].customer = call[k].customer
           /\ call'[k].seen = call[k].seen
           /\ call'[k].seenAt = call[k].seenAt
           /\ \A i \in Callers \ {k} : call'[i] = call[i]
<1>1. call[k] \in Call /\ call \in [Callers -> Call \cup {Idle}]
  BY DEF TypeOK, Idle
<1> QED
  BY <1>1 DEF Return, Call

\* What a step does to the calls and, of the record, what it writes.
Granted(k, op) == Return(k, "returned_true") /\ call[k].operation = op

LEMMA Steps ==
    ASSUME [Next]_vars
    PROVE  \/ \E k \in Callers, c \in Customers, op \in Operations : Load(k, c, op)
           \/ \E k \in Callers :
                 /\ call[k].state = "loaded"
                 /\ OptOut(call[k].customer, call[k].seen)
                 /\ Granted(k, "opt_out")
           \/ \E k \in Callers :
                 /\ call[k].state = "loaded"
                 /\ OptIn(call[k].customer, call[k].seen, call[k].seenAt)
                 /\ Granted(k, "opt_in")
           \/ \E k \in Callers, outcome \in {"returned_false", "raised"} :
                 /\ call[k].state = "loaded"
                 /\ Return(k, outcome)
                 /\ UNCHANGED consentVars
           \/ \E c \in Customers : DeleteCustomer(c) /\ UNCHANGED call
           \/ UNCHANGED <<consentVars, call>>
<1>1. ASSUME NEW k \in Callers, CallOptOut(k)
      PROVE  /\ call[k].state = "loaded"
             /\ \/ OptOut(call[k].customer, call[k].seen) /\ Granted(k, "opt_out")
                \/ \E outcome \in {"returned_false", "raised"} :
                      Return(k, outcome) /\ UNCHANGED consentVars
  BY <1>1 DEF CallOptOut, Calling, Granted, OptOutRefused, ConsentRejected,
              ConsentWriteFails
<1>2. ASSUME NEW k \in Callers, CallOptIn(k)
      PROVE  /\ call[k].state = "loaded"
             /\ \/ /\ OptIn(call[k].customer, call[k].seen, call[k].seenAt)
                   /\ Granted(k, "opt_in")
                \/ \E outcome \in {"returned_false", "raised"} :
                      Return(k, outcome) /\ UNCHANGED consentVars
  BY <1>2 DEF CallOptIn, Calling, Granted, OptInRefused, ConsentRejected,
              ConsentWriteFails
<1>3. CASE UNCHANGED vars
  BY <1>3 DEF vars, consentVars
<1> QED
  BY <1>1, <1>2, <1>3 DEF Next, Destroy

LEMMA TypeStep == TypeOK /\ [Next]_vars => TypeOK'
<1> SUFFICES ASSUME TypeOK, [Next]_vars PROVE TypeOK'
  OBVIOUS
<1>1. ASSUME NEW k \in Callers, NEW c \in Customers, NEW op \in Operations, Load(k, c, op)
      PROVE  TypeOK'
  <2>1. call' \in [Callers -> Call \cup {Idle}]
    BY <1>1 DEF Load, TypeOK, ConsentTypeOK, Call, CallState, Exists
  <2> QED
    BY <1>1, <2>1 DEF Load, TypeOK, ConsentTypeOK, consentVars
<1>2. ASSUME NEW k \in Callers, call[k].state = "loaded",
             NEW outcome \in {"returned_true", "returned_false", "raised"},
             Return(k, outcome),
             \/ OptOut(call[k].customer, call[k].seen)
             \/ OptIn(call[k].customer, call[k].seen, call[k].seenAt)
             \/ UNCHANGED consentVars
      PROVE  TypeOK'
  <2>1. call[k] \in Call /\ call' \in [Callers -> Call \cup {Idle}]
    BY <1>2, Returned DEF CallState
  <2>2. call[k].customer \in Customers
    BY <2>1 DEF Call
  <2>3. CASE OptOut(call[k].customer, call[k].seen)
    <3>1. consentLogs' \in [Customers -> Seq({"opted_in", "opted_out"})]
      BY <2>2, <2>3, LogTyped DEF TypeOK, OptOut
    <3> QED
      BY <2>1, <2>3, <3>1 DEF OptOut, TypeOK, ConsentTypeOK, SmsConsentStatus
  <2>4. CASE OptIn(call[k].customer, call[k].seen, call[k].seenAt)
    <3>1. consentLogs' \in [Customers -> Seq({"opted_in", "opted_out"})]
      BY <2>2, <2>4, LogTyped DEF TypeOK, OptIn
    <3>2. consent' \in [Customers -> SmsConsentStatus \cup {"none", "gone"}]
      BY <2>2, <2>4 DEF OptIn, Assigned, TypeOK, ConsentTypeOK, SmsConsentStatus
    <3>3. optedOutAt' \in [Customers -> BOOLEAN]
      BY <2>2, <2>4 DEF OptIn, Assigned, TypeOK, ConsentTypeOK
    <3> QED
      BY <2>1, <2>4, <3>1, <3>2, <3>3 DEF OptIn, TypeOK, ConsentTypeOK
  <2>5. CASE UNCHANGED consentVars
    BY <2>1, <2>5 DEF TypeOK, ConsentTypeOK, consentVars
  <2> QED
    BY <1>2, <2>3, <2>4, <2>5
<1>3. ASSUME NEW c \in Customers, DeleteCustomer(c), UNCHANGED call PROVE TypeOK'
  BY <1>3 DEF DeleteCustomer, TypeOK, ConsentTypeOK
<1>4. CASE UNCHANGED <<consentVars, call>>
  BY <1>4 DEF TypeOK, ConsentTypeOK, consentVars
<1> QED
  BY <1>1, <1>2, <1>3, <1>4, Steps DEF Granted

\* Every record, log and copy keeps its type, with a copy of any age.
THEOREM TypeCorrect == Spec => []TypeOK
BY TypeInitial, TypeStep, PTL DEF Spec

------------------------------------------------------------------------------
(* What the copies know *)

\* Without pending records every copy that finds its customer opted out finds
\* it so for good, and one that does not has nothing to write: opt_in assigns
\* active to a status loaded as active and no timestamp to none.
CopyKnows(c, seen, seenAt) ==
    /\ seen \in {"active", "opted_out"}
    /\ seenAt <=> seen = "opted_out"
    /\ seen = "opted_out" => consent[c] \in {"opted_out", "gone"}

CopyInv ==
    /\ TypeOK
    /\ \A c \in Customers : consent[c] # "pending"
    /\ TimestampMatchesStatus
    /\ \A k \in Callers :
          call[k] # Idle => CopyKnows(call[k].customer, call[k].seen, call[k].seenAt)

LEMMA CopyInitial == "pending" \notin InitialStatuses /\ Init => CopyInv
<1> SUFFICES ASSUME "pending" \notin InitialStatuses, Init PROVE CopyInv
  OBVIOUS
<1>1. TypeOK
  BY TypeInitial
<1>2. \A c \in Customers : consent[c] \in InitialStatuses
  BY DEF Init
<1>3. TimestampMatchesStatus
  BY DEF Init, TimestampMatchesStatus
<1>4. \A k \in Callers : call[k] = Idle
  BY DEF Init
<1> QED
  BY <1>1, <1>2, <1>3, <1>4 DEF CopyInv

\* Opt_in of a textable copy writes nothing but the log.
LEMMA OptInWritesNothing ==
    ASSUME CopyInv, NEW k \in Callers, call[k].state = "loaded",
           OptIn(call[k].customer, call[k].seen, call[k].seenAt)
    PROVE  UNCHANGED <<consent, optedOutAt>>
<1>1. call[k] \in Call /\ call[k] # Idle
  BY DEF CopyInv, TypeOK, Idle
<1>2. call[k].seen = "active" /\ call[k].seenAt = FALSE
  BY <1>1 DEF CopyInv, CopyKnows, OptIn, Call
<1>3. call[k].customer \in Customers
  BY <1>1 DEF Call
<1> QED
  BY <1>2, <1>3 DEF OptIn, Assigned, CopyInv, TypeOK, ConsentTypeOK

\* What a step does to the status and the timestamp: an opt-out sets both, a
\* deletion ends both, and nothing else touches either.
LEMMA CopyWrites ==
    ASSUME CopyInv, [Next]_vars
    PROVE  \/ \E c \in Customers :
                 /\ consent' = [consent EXCEPT ![c] = "opted_out"]
                 /\ optedOutAt' = [optedOutAt EXCEPT ![c] = TRUE]
           \/ \E c \in Customers :
                 /\ consent' = [consent EXCEPT ![c] = "gone"]
                 /\ optedOutAt' = [optedOutAt EXCEPT ![c] = FALSE]
           \/ UNCHANGED <<consent, optedOutAt>>
<1>1. ASSUME NEW k \in Callers, call[k].state = "loaded"
      PROVE  call[k].customer \in Customers
  BY <1>1 DEF CopyInv, TypeOK, Idle, Call
<1>2. ASSUME NEW k \in Callers, call[k].state = "loaded",
             OptIn(call[k].customer, call[k].seen, call[k].seenAt)
      PROVE  UNCHANGED <<consent, optedOutAt>>
  BY <1>2, OptInWritesNothing
<1> QED
  BY <1>1, <1>2, Steps DEF Load, OptOut, DeleteCustomer, consentVars

LEMMA CopyStep == CopyInv /\ [Next]_vars => CopyInv'
<1> SUFFICES ASSUME CopyInv, [Next]_vars PROVE CopyInv'
  OBVIOUS
<1>1. TypeOK'
  BY TypeStep DEF CopyInv
<1> USE DEF CopyInv, TypeOK, ConsentTypeOK
<1>2. \A c \in Customers : consent'[c] # "pending"
  BY CopyWrites
<1>3. TimestampMatchesStatus'
  BY CopyWrites DEF TimestampMatchesStatus, Exists, SmsConsentStatus
<1>4. \A c \in Customers :
         consent[c] \in {"opted_out", "gone"} => consent'[c] \in {"opted_out", "gone"}
  BY CopyWrites
<1>5. ASSUME NEW k \in Callers, call'[k] # Idle
      PROVE  CopyKnows(call[k].customer, call[k].seen, call[k].seenAt)'
  <2>1. CASE call'[k] = call[k]
    <3>1. call[k] \in Call
      BY <1>5, <2>1
    <3>2. call[k].customer \in Customers
      BY <3>1 DEF Call
    <3> QED
      BY <1>4, <1>5, <2>1, <3>2 DEF CopyKnows
  <2>2. ASSUME NEW outcome \in CallState, call[k].state = "loaded", Return(k, outcome)
        PROVE  CopyKnows(call[k].customer, call[k].seen, call[k].seenAt)'
    <3>1. /\ call[k] \in Call
          /\ call'[k].customer = call[k].customer
          /\ call'[k].seen = call[k].seen
          /\ call'[k].seenAt = call[k].seenAt
      BY <2>2, Returned
    <3>2. call[k].customer \in Customers /\ call[k] # Idle
      BY <2>2, <3>1 DEF Call, Idle
    <3> QED
      BY <1>4, <3>1, <3>2 DEF CopyKnows
  <2>3. ASSUME NEW c \in Customers, NEW op \in Operations, Load(k, c, op)
        PROVE  CopyKnows(call[k].customer, call[k].seen, call[k].seenAt)'
    <3>1. /\ call'[k].customer = c
          /\ call'[k].seen = consent[c]
          /\ call'[k].seenAt = optedOutAt[c]
      BY <2>3 DEF Load
    <3>2. UNCHANGED <<consent, optedOutAt>> /\ Exists(c)
      BY <2>3 DEF Load, consentVars
    <3> QED
      BY <3>1, <3>2 DEF CopyKnows, TimestampMatchesStatus, Exists, SmsConsentStatus
  <2>4. \/ call'[k] = call[k]
        \/ \E outcome \in CallState : call[k].state = "loaded" /\ Return(k, outcome)
        \/ \E c \in Customers, op \in Operations : Load(k, c, op)
    BY Steps DEF Granted, Return, Load, CallState, consentVars
  <2> QED
    BY <2>1, <2>2, <2>3, <2>4
<1> QED
  BY <1>1, <1>2, <1>3, <1>5 DEF CopyInv

\* However old the copies that the callers hold, opted_out_at is set exactly on
\* the opted-out records, as long as no record was ever pending.
THEOREM TimestampCorrect ==
    ASSUME "pending" \notin InitialStatuses
    PROVE  Spec => []TimestampMatchesStatus
<1>1. CopyInv => TimestampMatchesStatus
  BY DEF CopyInv
<1> QED
  BY <1>1, CopyInitial, CopyStep, PTL DEF Spec

\* No call makes an opted-out record textable, whatever its caller has loaded
\* and when: opt_in with a copy from before the opt-out changes no attribute
\* of the row, as long as no record was ever pending.
THEOREM OptOutsAreFinal ==
    ASSUME "pending" \notin InitialStatuses
    PROVE  Spec => OptOutIsFinal
<1>1. ASSUME CopyInv, [Next]_vars
      PROVE  [\A c \in Customers :
                 consent[c] = "opted_out" => consent'[c] \in {"opted_out", "gone"}]_vars
  BY <1>1, CopyWrites DEF CopyInv, TypeOK, ConsentTypeOK
<1> QED
  BY <1>1, CopyInitial, CopyStep, PTL DEF Spec, OptOutIsFinal

------------------------------------------------------------------------------
(* The log *)

\* The places of an event in a log.
Of(log, event) == {i \in DOMAIN log : log[i] = event}

\* An entry appended to a customer's log counts once, for its own event.
LEMMA EntryAppended ==
    ASSUME NEW log \in Seq({"opted_in", "opted_out"}), NEW added, NEW event
    PROVE  /\ Cardinality(Of(log, event)) \in Nat
           /\ Cardinality(Of(Append(log, added), event))
                 = Cardinality(Of(log, event)) + IF added = event THEN 1 ELSE 0
<1> DEFINE n == Len(log)
<1>1. n \in Nat /\ DOMAIN log = 1..n
  OBVIOUS
<1>2. IsFiniteSet(Of(log, event)) /\ Cardinality(Of(log, event)) \in Nat
  <2>1. IsFiniteSet(1..n)
    BY <1>1, FS_Interval
  <2>2. Of(log, event) \in SUBSET (1..n)
    BY <1>1 DEF Of
  <2> QED
    BY <2>1, <2>2, FS_Subset, FS_CardinalityType
<1>3. CASE added = event
  <2>1. Of(Append(log, added), event) = Of(log, event) \cup {n + 1}
    BY <1>3 DEF Of
  <2>2. n + 1 \notin Of(log, event)
    BY <1>1 DEF Of
  <2> QED
    BY <1>2, <1>3, <2>1, <2>2, FS_AddElement
<1>4. CASE added # event
  <2>1. Of(Append(log, added), event) = Of(log, event)
    BY <1>4 DEF Of
  <2> QED
    BY <1>2, <1>4, <2>1
<1> QED
  BY <1>2, <1>3, <1>4

\* The calls that were granted are finitely many and known from what each
\* caller's call has become.
LEMMA SucceededFinite ==
    ASSUME NEW c, NEW op
    PROVE  IsFiniteSet(Succeeded(c, op)) /\ Cardinality(Succeeded(c, op)) \in Nat
<1>1. Succeeded(c, op) \in SUBSET Callers
  BY DEF Succeeded
<1> QED
  BY <1>1, ConsentManagerAssumption, FS_Subset, FS_CardinalityType

LogInv == TypeOK /\ EveryGrantedCallLogged

LEMMA LogInitial == "opted_out" \notin InitialStatuses /\ Init => LogInv
<1> SUFFICES ASSUME "opted_out" \notin InitialStatuses, Init,
                    NEW c \in Customers, Exists(c)
             PROVE  /\ Entries(c, "opted_out") = Cardinality(Succeeded(c, "opt_out"))
                    /\ Entries(c, "opted_in") = Cardinality(Succeeded(c, "opt_in")) + 1
  BY TypeInitial DEF LogInv, EveryGrantedCallLogged
<1>1. consentLogs[c] = <<"opted_in">>
  BY DEF Init
<1>2. Of(consentLogs[c], "opted_out") = {} /\ Of(consentLogs[c], "opted_in") = {1}
  BY <1>1 DEF Of
<1>3. Succeeded(c, "opt_out") = {} /\ Succeeded(c, "opt_in") = {}
  BY DEF Init, Succeeded, Idle
<1>4. Entries(c, "opted_out") = 0 /\ Entries(c, "opted_in") = 1
  BY <1>2, FS_EmptySet, FS_Singleton DEF Entries, Of
<1>5. Cardinality(Succeeded(c, "opt_out")) = 0 /\ Cardinality(Succeeded(c, "opt_in")) = 0
  BY <1>3, FS_EmptySet
<1> QED
  BY <1>4, <1>5

\* What becomes of the calls counted for a customer: a granted call joins those
\* of its operation and its customer, and no other call joins or leaves any.
LEMMA NotGranted ==
    ASSUME TypeOK, NEW k \in Callers, call[k].state = "loaded" \/ call[k] = Idle,
           NEW c, NEW op,
           call'[k].state # "returned_true",
           \A i \in Callers \ {k} : call'[i] = call[i]
    PROVE  Succeeded(c, op)' = Succeeded(c, op)
BY DEF Succeeded, Idle

LEMMA GrantedCounts ==
    ASSUME TypeOK, NEW k \in Callers, call[k].state = "loaded",
           NEW done \in Operations, Granted(k, done), NEW c \in Customers, NEW op
    PROVE  Cardinality(Succeeded(c, op))'
              = Cardinality(Succeeded(c, op))
                   + IF c = call[k].customer /\ op = done THEN 1 ELSE 0
<1>1. /\ call'[k].state = "returned_true"
      /\ call'[k].operation = done
      /\ call'[k].customer = call[k].customer
      /\ \A i \in Callers \ {k} : call'[i] = call[i]
  BY Returned DEF Granted, CallState
<1>2. k \notin Succeeded(c, op)
  BY DEF Succeeded
<1>3. CASE c = call[k].customer /\ op = done
  <2>1. Succeeded(c, op)' = Succeeded(c, op) \cup {k}
    BY <1>1, <1>3 DEF Succeeded
  <2> QED
    BY <1>2, <1>3, <2>1, SucceededFinite, FS_AddElement
<1>4. CASE ~(c = call[k].customer /\ op = done)
  <2>1. Succeeded(c, op)' = Succeeded(c, op)
    BY <1>1, <1>4 DEF Succeeded
  <2> QED
    BY <1>4, <2>1, SucceededFinite
<1> QED
  BY <1>3, <1>4

\* A granted call's entry is in the log of its customer, and only there.
LEMMA EntryCounts ==
    ASSUME TypeOK, NEW d \in Customers, NEW added \in {"opted_in", "opted_out"},
           LogConsent(d, added), NEW c \in Customers, NEW event
    PROVE  Entries(c, event)'
              = Entries(c, event) + IF c = d /\ event = added THEN 1 ELSE 0
<1>1. /\ consentLogs'[d] = Append(consentLogs[d], added)
      /\ \A e \in Customers \ {d} : consentLogs'[e] = consentLogs[e]
  BY LogTyped DEF TypeOK
<1>2. consentLogs[c] \in Seq({"opted_in", "opted_out"})
  BY DEF TypeOK, ConsentTypeOK
<1>3. /\ Entries(c, event) = Cardinality(Of(consentLogs[c], event))
      /\ Entries(c, event)' = Cardinality(Of(consentLogs'[c], event))
  BY DEF Entries, Of
<1>4. CASE c = d
  <2>1. consentLogs'[c] = Append(consentLogs[c], added)
    BY <1>1, <1>4
  <2> QED
    BY <1>2, <1>3, <1>4, <2>1, EntryAppended
<1>5. CASE c # d
  <2>1. consentLogs'[c] = consentLogs[c]
    BY <1>1, <1>5
  <2>2. Cardinality(Of(consentLogs[c], event)) \in Nat
    BY <1>2, EntryAppended
  <2> QED
    BY <1>3, <1>5, <2>1, <2>2
<1> QED
  BY <1>4, <1>5

LEMMA LogStep == LogInv /\ [Next]_vars => LogInv'
<1> SUFFICES ASSUME LogInv, [Next]_vars PROVE EveryGrantedCallLogged'
  BY TypeStep DEF LogInv
<1> USE DEF LogInv
<1> DEFINE Counted(c) ==
             /\ Entries(c, "opted_out") = Cardinality(Succeeded(c, "opt_out"))
             /\ Entries(c, "opted_in") = Cardinality(Succeeded(c, "opt_in")) + 1
<1>1. ASSUME NEW k \in Callers, NEW c \in Customers, NEW op \in Operations, Load(k, c, op)
      PROVE  EveryGrantedCallLogged'
  <2>1. /\ call[k] = Idle
        /\ call'[k].state = "loaded"
        /\ \A i \in Callers \ {k} : call'[i] = call[i]
    BY <1>1 DEF Load, TypeOK
  <2>2. \A d \in Customers, o \in Operations : Succeeded(d, o)' = Succeeded(d, o)
    BY <2>1, NotGranted
  <2> QED
    BY <1>1, <2>2 DEF Load, consentVars, EveryGrantedCallLogged, Entries, Exists, Operations
<1>2. ASSUME NEW k \in Callers, call[k].state = "loaded",
             OptOut(call[k].customer, call[k].seen), Granted(k, "opt_out")
      PROVE  EveryGrantedCallLogged'
  <2>1. call[k].customer \in Customers
    BY <1>2 DEF TypeOK, Idle, Call
  <2>2. ASSUME NEW c \in Customers, Exists(c)' PROVE Counted(c)'
    <3>1. Counted(c)
      BY <1>2, <2>1, <2>2 DEF OptOut, Exists, EveryGrantedCallLogged, TypeOK, ConsentTypeOK
    <3>2. /\ Entries(c, "opted_out")'
                 = Entries(c, "opted_out") + IF c = call[k].customer THEN 1 ELSE 0
          /\ Entries(c, "opted_in")' = Entries(c, "opted_in") + 0
      BY <1>2, <2>1, EntryCounts DEF OptOut
    <3>3. /\ Cardinality(Succeeded(c, "opt_out"))'
                 = Cardinality(Succeeded(c, "opt_out"))
                      + IF c = call[k].customer THEN 1 ELSE 0
          /\ Cardinality(Succeeded(c, "opt_in"))'
                 = Cardinality(Succeeded(c, "opt_in")) + 0
      BY <1>2, GrantedCounts DEF Operations
    <3> QED
      BY <3>1, <3>2, <3>3, SucceededFinite
  <2> QED
    BY <2>2 DEF EveryGrantedCallLogged
<1>3. ASSUME NEW k \in Callers, call[k].state = "loaded",
             OptIn(call[k].customer, call[k].seen, call[k].seenAt), Granted(k, "opt_in")
      PROVE  EveryGrantedCallLogged'
  <2>1. call[k].customer \in Customers
    BY <1>3 DEF TypeOK, Idle, Call
  <2>2. ASSUME NEW c \in Customers, Exists(c)' PROVE Counted(c)'
    <3>1. Counted(c)
      BY <1>3, <2>1, <2>2 DEF OptIn, Exists, EveryGrantedCallLogged, TypeOK, ConsentTypeOK
    <3>2. /\ Entries(c, "opted_in")'
                 = Entries(c, "opted_in") + IF c = call[k].customer THEN 1 ELSE 0
          /\ Entries(c, "opted_out")' = Entries(c, "opted_out") + 0
      BY <1>3, <2>1, EntryCounts DEF OptIn
    <3>3. /\ Cardinality(Succeeded(c, "opt_in"))'
                 = Cardinality(Succeeded(c, "opt_in"))
                      + IF c = call[k].customer THEN 1 ELSE 0
          /\ Cardinality(Succeeded(c, "opt_out"))'
                 = Cardinality(Succeeded(c, "opt_out")) + 0
      BY <1>3, GrantedCounts DEF Operations
    <3> QED
      BY <3>1, <3>2, <3>3, SucceededFinite
  <2> QED
    BY <2>2 DEF EveryGrantedCallLogged
<1>4. ASSUME NEW k \in Callers, NEW outcome \in {"returned_false", "raised"},
             call[k].state = "loaded", Return(k, outcome), UNCHANGED consentVars
      PROVE  EveryGrantedCallLogged'
  <2>1. /\ call'[k].state # "returned_true"
        /\ \A i \in Callers \ {k} : call'[i] = call[i]
    BY <1>4, Returned DEF CallState
  <2>2. \A d \in Customers, o \in Operations : Succeeded(d, o)' = Succeeded(d, o)
    BY <1>4, <2>1, NotGranted
  <2> QED
    BY <1>4, <2>2 DEF consentVars, EveryGrantedCallLogged, Entries, Exists, Operations
<1>5. ASSUME NEW c \in Customers, DeleteCustomer(c), UNCHANGED call
      PROVE  EveryGrantedCallLogged'
  <2>1. ASSUME NEW d \in Customers, Exists(d)' PROVE d # c /\ Exists(d)
    BY <1>5, <2>1 DEF DeleteCustomer, Exists, SmsConsentStatus, TypeOK, ConsentTypeOK
  <2>2. \A d \in Customers \ {c} : consentLogs'[d] = consentLogs[d]
    BY <1>5 DEF DeleteCustomer, TypeOK, ConsentTypeOK
  <2>3. ASSUME NEW d \in Customers, Exists(d)', NEW event, NEW op
        PROVE  /\ Entries(d, event)' = Entries(d, event)
               /\ Succeeded(d, op)' = Succeeded(d, op)
    BY <1>5, <2>1, <2>2, <2>3 DEF Entries, Succeeded
  <2> QED
    BY <2>1, <2>3 DEF EveryGrantedCallLogged
<1>6. CASE UNCHANGED <<consentVars, call>>
  BY <1>6 DEF consentVars, EveryGrantedCallLogged, Entries, Succeeded, Exists
<1> QED
  BY <1>1, <1>2, <1>3, <1>4, <1>5, <1>6, Steps

\* Every call that returned true has its one entry in the log of a customer
\* that still exists and every other call none, for any number of callers and
\* copies of any age, where no record starts with an opt-out already logged.
THEOREM GrantedCallsLogged ==
    ASSUME "opted_out" \notin InitialStatuses
    PROVE  Spec => []EveryGrantedCallLogged
<1>1. LogInv => EveryGrantedCallLogged
  BY DEF LogInv
<1> QED
  BY <1>1, LogInitial, LogStep, PTL DEF Spec
==============================================================================
