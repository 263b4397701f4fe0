------------------------- MODULE PageControllersProofs -------------------------
(***************************************************************************)
(* The page controllers for any number of pages, elements and streams, and *)
(* however many of them a page brings along.                               *)
(***************************************************************************)
EXTENDS PageControllers, FiniteSetTheorems, TLAPS

------------------------------------------------------------------------------
(* Type correctness *)

LEMMA InboxCount ==
    ASSUME NEW S \in SUBSET Inboxes
    PROVE  /\ Cardinality(S) \in 0..Cardinality(Inboxes)
           /\ Cardinality(S) = 0 <=> S = {}
<1>1. IsFiniteSet(S) /\ Cardinality(S) <= Cardinality(Inboxes)
  BY PageAssumption, FS_Subset
<1> QED
  BY <1>1, PageAssumption, FS_CardinalityType, FS_EmptySet

LEMMA TypeInitial == Init => TypeOK
<1> SUFFICES ASSUME Init PROVE TypeOK
  OBVIOUS
<1>1. 0 \in 0..Cardinality(Inboxes)
  BY InboxCount
<1>2. heard \in [Streams -> Hearing]
  BY <1>1 DEF Init, Hearing
<1> QED
  BY <1>1, <1>2 DEF Init, TypeOK, Fresh, Connected, Elements

\* What a replacement of elements leaves.
LEMMA SwapTyped ==
    ASSUME TypeOK, NEW old \in SUBSET Elements, NEW new \in SUBSET Fresh, Swap(old, new)
    PROVE  /\ status' \in [Elements -> {"new", "connected", "gone"}]
           /\ listeners' \subseteq Elements \ Fresh'
           /\ open' \subseteq Modals \cap Connected'
           /\ open' \cap old = {}
<1>1. status' \in [Elements -> {"new", "connected", "gone"}]
  BY DEF Swap, TypeOK
<1>2. listeners' \subseteq Elements \ Fresh'
  BY <1>1 DEF Swap, TypeOK, Fresh, TakenBack
<1>3. open' \subseteq Modals \cap Connected' /\ open' \cap old = {}
  BY <1>1 DEF Swap, TypeOK, Connected
<1> QED
  BY <1>1, <1>2, <1>3

LEMMA ContentFresh ==
    ASSUME NEW p \in Paths, NEW W, ContentOf(p, W)
    PROVE  W \subseteq Fresh /\ W \subseteq Modals \cup Inboxes
BY DEF ContentOf

LEMMA TypeStep == TypeOK /\ [Next]_pageVars => TypeOK'
<1> SUFFICES ASSUME TypeOK, [Next]_pageVars PROVE TypeOK'
  OBVIOUS
<1> USE DEF pageVars, modalVars, inboxVars
<1>1. ASSUME NEW p \in Paths, NEW n \in Navs, NEW W, Visit(p, n, W) PROVE TypeOK'
  <2>1. Connected \subseteq Elements /\ {n} \cup W \subseteq Fresh
    BY <1>1, ContentFresh DEF Visit, Connected
  <2>2. /\ status' \in [Elements -> {"new", "connected", "gone"}]
        /\ listeners' \subseteq Elements \ Fresh'
        /\ open' \subseteq Modals \cap Connected'
    BY <1>1, <2>1, SwapTyped DEF Visit
  <2>3. stream' \in BOOLEAN
    BY <1>1 DEF Visit
  <2> QED
    BY <1>1, <2>2, <2>3 DEF Visit, TypeOK
<1>2. ASSUME NEW p \in Paths, NEW W, FrameVisit(p, W) PROVE TypeOK'
  <2>1. Connected \ Navs \subseteq Elements /\ W \subseteq Fresh
    BY <1>2, ContentFresh DEF FrameVisit, Connected
  <2>2. /\ status' \in [Elements -> {"new", "connected", "gone"}]
        /\ listeners' \subseteq Elements \ Fresh'
        /\ open' \subseteq Modals \cap Connected'
    BY <1>2, <2>1, SwapTyped DEF FrameVisit
  <2>3. orphaned' \in BOOLEAN
    BY <1>2 DEF FrameVisit, TypeOK
  <2> QED
    BY <1>2, <2>2, <2>3 DEF FrameVisit, TypeOK
<1>3. ASSUME NEW w \in Modals, Open(w) \/ Close(w) PROVE TypeOK'
  <2>1. Fresh' = Fresh /\ Connected' = Connected
    BY <1>3 DEF Open, Close, Fresh, Connected
  <2>2. open' \subseteq Modals \cap Connected /\ stacked' \in BOOLEAN
    BY <1>3 DEF Open, Close, TypeOK
  <2> QED
    BY <1>3, <2>1, <2>2 DEF Open, Close, TypeOK
<1>4. ASSUME Escape PROVE TypeOK'
  BY <1>4 DEF Escape, TypeOK, Fresh, Connected
<1>5. ASSUME NEW answer \in {"granted", "denied"}, AnswerPrompt(answer) PROVE TypeOK'
  BY <1>5 DEF AnswerPrompt, TypeOK, Fresh, Connected
<1>6. ASSUME NEW s \in Streams, NEW kind \in {"inbound", "outbound", "empty"},
             RenderStream(s, kind)
      PROVE  TypeOK'
  <2>1. /\ 0 \in 0..Cardinality(Inboxes)
        /\ Cardinality(listeners \cap Inboxes) \in 0..Cardinality(Inboxes)
        /\ Cardinality(Inboxes \ Fresh) \in 0..Cardinality(Inboxes)
    BY InboxCount
  <2>2. notified' \in [Streams -> 0..Cardinality(Inboxes)]
    BY <1>6, <2>1 DEF RenderStream, TypeOK
  <2>3. heard' \in [Streams -> Hearing]
    BY <1>6, <2>1 DEF RenderStream, Hears, MayNotify, TypeOK, Hearing
  <2> QED
    BY <1>6, <2>2, <2>3 DEF RenderStream, TypeOK, Fresh, Connected
<1>7. CASE UNCHANGED pageVars
  BY <1>7 DEF TypeOK, Fresh, Connected
<1> QED
  BY <1>1, <1>2, <1>3, <1>4, <1>5, <1>6, <1>7 DEF Next

\* The variables of the page keep their types, and an element that listens has
\* been on the page.
THEOREM TypeCorrect == Spec => []TypeOK
BY TypeInitial, TypeStep, PTL DEF Spec

------------------------------------------------------------------------------
(* The lock of the body *)

\* An element on the page listens, so Escape reaches every open modal.
Listening == Connected \subseteq listeners

LEMMA ListeningStep == Listening /\ [Next]_pageVars => Listening'
<1> SUFFICES ASSUME Listening, [Next]_pageVars PROVE Listening'
  OBVIOUS
<1> USE DEF pageVars, modalVars, inboxVars
<1>1. ASSUME NEW old, NEW new, Swap(old, new) PROVE Listening'
  BY <1>1 DEF Swap, TakenBack, Listening, Connected
<1>2. CASE UNCHANGED <<status, listeners>>
  BY <1>2 DEF Listening, Connected
<1> QED
  BY <1>1, <1>2 DEF Next, Visit, FrameVisit, Open, Close, Escape, AnswerPrompt,
     RenderStream

LEMMA LockStep ==
    TypeOK /\ Listening /\ LockFollowsModals /\ [Next]_pageVars => LockFollowsModals'
<1> SUFFICES ASSUME TypeOK, Listening, LockFollowsModals, [Next]_pageVars
             PROVE  LockFollowsModals'
  OBVIOUS
<1> USE DEF pageVars, modalVars, inboxVars
<1>1. ASSUME NEW p \in Paths, NEW n \in Navs, NEW W, Visit(p, n, W)
      PROVE  LockFollowsModals'
  <2>1. open' = {}
    BY <1>1 DEF Visit, Swap, TypeOK
  <2> QED
    BY <1>1, <2>1 DEF Visit, LockFollowsModals
<1>2. ASSUME NEW p \in Paths, NEW W, FrameVisit(p, W) PROVE LockFollowsModals'
  <2>1. open' = {}
    BY <1>2, PageAssumption DEF FrameVisit, Swap, TypeOK
  <2> QED
    BY <1>2, <2>1 DEF FrameVisit, LockFollowsModals
<1>3. ASSUME Escape PROVE LockFollowsModals'
  <2>1. open' = {}
    BY <1>3 DEF Escape, Listening, TypeOK
  <2> QED
    BY <1>3, <2>1 DEF Escape, LockFollowsModals
<1>4. ASSUME NEW w \in Modals, Open(w) \/ Close(w) PROVE LockFollowsModals'
  BY <1>4 DEF Open, Close, LockFollowsModals
<1>5. CASE UNCHANGED modalVars
  BY <1>5 DEF LockFollowsModals
<1> QED
  BY <1>1, <1>2, <1>3, <1>4, <1>5 DEF Next, AnswerPrompt, RenderStream

\* The body is locked with a modal open and only then, but for the two cases
\* that LockFollowsModals names.
THEOREM LockIsModals == Spec => []LockFollowsModals
<1>1. Init => Listening /\ LockFollowsModals
  BY DEF Init, Listening, LockFollowsModals, Connected
<1> QED
  BY <1>1, TypeInitial, TypeStep, ListeningStep, LockStep, PTL DEF Spec

------------------------------------------------------------------------------
(* Notifications *)

\* Who hears the stream has an inbox on the page.
NotifyInv ==
    /\ stream => Connected \cap Inboxes # {}
    /\ NotifiedPerInbox

LEMMA NotifyStep == TypeOK /\ Listening /\ NotifyInv /\ [Next]_pageVars => NotifyInv'
<1> SUFFICES ASSUME TypeOK, Listening, NotifyInv, [Next]_pageVars PROVE NotifyInv'
  OBVIOUS
<1> USE DEF pageVars, modalVars, inboxVars
<1>1. ASSUME NEW p \in Paths, NEW n \in Navs, NEW W, Visit(p, n, W) PROVE NotifyInv'
  <2>1. stream' => W \cap Inboxes # {}
    <3>1. Cardinality(W \cap Inboxes) = InboxesOn[p]
      BY <1>1 DEF Visit, ContentOf
    <3>2. stream' => Cardinality(W \cap Inboxes) > 0
      BY <1>1, <3>1 DEF Visit
    <3> QED
      BY <3>2, FS_EmptySet
  <2>2. W \subseteq Connected'
    <3>1. W \subseteq Elements
      BY <1>1, ContentFresh DEF Visit, Fresh
    <3>2. \A e \in W : status[e] = "new"
      BY <1>1, ContentFresh DEF Visit, Fresh
    <3> QED
      BY <1>1, <3>1, <3>2 DEF Visit, Swap, Connected
  <2> QED
    BY <1>1, <2>1, <2>2 DEF Visit, NotifyInv, NotifiedPerInbox
<1>2. ASSUME NEW p \in Paths, NEW W, FrameVisit(p, W) PROVE NotifyInv'
  BY <1>2 DEF FrameVisit, NotifyInv, NotifiedPerInbox
<1>3. ASSUME NEW s \in Streams, NEW kind \in {"inbound", "outbound", "empty"},
             RenderStream(s, kind)
      PROVE  NotifyInv'
  <2> DEFINE told == listeners \cap Inboxes
             been == Inboxes \ Fresh
  <2>1. told \subseteq been /\ told # {}
    BY <1>3 DEF RenderStream, Listening, NotifyInv, TypeOK
  <2>2. Cardinality(told) \in 1..Cardinality(been)
    <3>1. IsFiniteSet(been)
      BY PageAssumption, FS_Subset
    <3>2. Cardinality(told) <= Cardinality(been)
      BY <2>1, <3>1, FS_Subset
    <3> QED
      BY <2>1, <3>2, InboxCount
  <2>3. Connected' = Connected /\ stream' = stream
    BY <1>3 DEF RenderStream, Connected
  <2>4. /\ notified'[s] = IF kind = "inbound" /\ MayNotify THEN Cardinality(told) ELSE 0
        /\ heard'[s].kind = kind /\ heard'[s].granted = MayNotify
        /\ heard'[s].inboxes = Cardinality(been)
    BY <1>3 DEF RenderStream, Hears, TypeOK
  <2>5. \A t \in Streams \ {s} : notified'[t] = notified[t] /\ heard'[t] = heard[t]
    BY <1>3 DEF RenderStream, Hears, TypeOK
  <2> QED
    BY <2>2, <2>3, <2>4, <2>5 DEF NotifyInv, NotifiedPerInbox
<1>4. CASE UNCHANGED <<stream, status, notified, heard>>
  BY <1>4 DEF NotifyInv, NotifiedPerInbox, Connected
<1> QED
  BY <1>1, <1>2, <1>3, <1>4 DEF Next, Open, Close, Escape, AnswerPrompt

\* An inbound message is notified of once per inbox that listens: at least once,
\* at most as often as the document has had inboxes; other messages never.
THEOREM NotificationsCounted == Spec => []NotifiedPerInbox
<1>1. Init => Listening /\ NotifyInv
  BY DEF Init, Listening, NotifyInv, NotifiedPerInbox, Connected
<1>2. NotifyInv => NotifiedPerInbox
  BY DEF NotifyInv
<1> QED
  BY <1>1, <1>2, TypeInitial, TypeStep, ListeningStep, NotifyStep, PTL DEF Spec
==============================================================================
