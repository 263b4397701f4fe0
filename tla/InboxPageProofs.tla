--------------------------- MODULE InboxPageProofs ---------------------------
(***************************************************************************)
(* The messages page for any number of customers, rows, clicks and drafts, *)
(* and for all losses.                                                     *)
(***************************************************************************)
EXTENDS InboxPage, TLAPS

------------------------------------------------------------------------------
(* Type correctness *)

\* The counters of a draft stay in range because every job answers a try of
\* its own, and every lost answer a job of its own.
Counted ==
    \A d \in Drafts :
        /\ post[d].unsure <= post[d].jobs
        /\ post[d].jobs <= post[d].tries
        /\ post[d].state = "sent" => post[d].jobs < post[d].tries
        /\ post[d].state = "handled" => post[d].unsure < post[d].jobs

TypeInv == TypeOK /\ Counted

LEMMA NothingOpen == NoThread \in Thread /\ NoForm \in Form
BY DEF NoThread, NoForm, Thread, Form

LEMMA TypeInitial == Init => TypeInv
<1> SUFFICES ASSUME Init PROVE TypeInv
  OBVIOUS
<1>1. load \in [Loads -> Load]
  BY DEF Init, Load
<1>2. post \in [Drafts -> Post] /\ Counted
  BY InboxAssumption DEF Init, Post, Counted
<1> QED
  BY <1>1, <1>2, NothingOpen DEF Init, TypeInv, TypeOK, Pages

LEMMA RowsTyped == TypeInv /\ Rows => TypeInv'
<1> SUFFICES ASSUME TypeInv, NEW m \in Messages,
                    Deliver(m) \/ LoseBroadcast(m) \/ \E c \in Customers : Commit(m, c)
             PROVE  TypeInv'
  BY DEF Rows
<1>1. CASE Deliver(m)
  <2>1. thread' \in Thread
    BY <1>1 DEF Deliver, TypeInv, TypeOK, Thread
  <2>2. load' \in [Loads -> Load]
    BY <1>1 DEF Deliver, PassBy, TypeInv, TypeOK, Load
  <2> QED
    BY <1>1, <2>1, <2>2 DEF Deliver, TypeInv, TypeOK, Counted
<1>2. CASE LoseBroadcast(m)
  BY <1>2 DEF LoseBroadcast, TypeInv, TypeOK, Counted
<1>3. CASE \E c \in Customers : Commit(m, c)
  BY <1>3 DEF Commit, TypeInv, TypeOK, Counted
<1> QED
  BY <1>1, <1>2, <1>3

LEMMA ClosedOrNot ==
    ASSUME TypeOK, NEW target, OutsideClick(target)
    PROVE  thread' \in Thread /\ form' \in Form
BY NothingOpen DEF OutsideClick, CloseThread, TypeOK

LEMMA StaffTyped == TypeInv /\ Staff => TypeInv'
<1> SUFFICES ASSUME TypeInv, Staff PROVE TypeInv'
  OBVIOUS
<1> USE DEF TypeInv, serverVars
<1>1. ASSUME Leave PROVE TypeInv'
  BY <1>1, NothingOpen DEF Leave, CloseThread, TypeOK, Counted, Pages
<1>2. ASSUME OpenByNav PROVE TypeInv'
  BY <1>2, NothingOpen DEF OpenByNav, CloseThread, TypeOK, Counted, Pages
<1>3. ASSUME OpenByVisit PROVE TypeInv'
  <2>1. load' \in [Loads -> Load]
    BY <1>3 DEF OpenByVisit, TypeOK, Load
  <2> QED
    BY <1>3, <2>1, NothingOpen DEF OpenByVisit, CloseThread, TypeOK, Counted, Pages
<1>4. ASSUME NEW target, Click(target) PROVE TypeInv'
  BY <1>4, ClosedOrNot DEF Click, TypeOK, Counted
<1>5. ASSUME NEW l \in Loads, NEW c \in Customers, ClickConversation(l, c) PROVE TypeInv'
  <2>1. load' \in [Loads -> Load]
    BY <1>5 DEF ClickConversation, TypeOK, Load
  <2> QED
    BY <1>5, <2>1, ClosedOrNot DEF ClickConversation, TypeOK, Counted
<1>6. ASSUME NEW d \in Drafts, Type(d) PROVE TypeInv'
  <2>1. form' \in Form /\ thread.customer \in Customers \cup {NoCustomer}
    BY <1>6 DEF Type, TypeOK, Form, Thread
  <2> QED
    BY <1>6, <2>1 DEF Type, TypeOK, Counted
<1>7. ASSUME NEW d \in Drafts, NEW by, Submit(d, by) PROVE TypeInv'
  <2>1. form' \in Form
    BY <1>7 DEF Submit, TypeOK, Form
  <2>2. post' \in [Drafts -> Post] /\ Counted'
    BY <1>7, InboxAssumption DEF Submit, TypeOK, Form, Post, Counted
  <2> QED
    BY <1>7, <2>1, <2>2 DEF Submit, TypeOK
<1> QED
  BY <1>1, <1>2, <1>3, <1>4, <1>5, <1>6, <1>7 DEF Staff

LEMMA FetchingTyped == ASSUME TypeInv, NEW l \in Loads, Fetching(l) PROVE TypeInv'
<1> USE DEF TypeInv, serverVars
<1>1. CASE Answer(l)
  <2> DEFINE own == {m \in Messages : row[m] = load[l].customer}
             overlap == {m \in own : cable[m] = "due"}
  <2>1. own \in SUBSET Messages /\ overlap \in SUBSET Messages
    OBVIOUS
  <2>2. load' = [load EXCEPT ![l].state = "answered", ![l].rows = own,
                             ![l].overlap = overlap]
    BY <1>1 DEF Answer
  <2>3. load' \in [Loads -> Load]
    <3> HIDE DEF own, overlap
    <3>1. load' = [load EXCEPT ![l] = [load[l] EXCEPT !.state = "answered", !.rows = own,
                                                      !.overlap = overlap]]
      BY <2>2 DEF TypeOK
    <3>2. [load[l] EXCEPT !.state = "answered", !.rows = own, !.overlap = overlap] \in Load
      BY <2>1 DEF TypeOK, Load
    <3> QED
      BY <3>1, <3>2 DEF TypeOK
  <2> QED
    BY <1>1, <2>3 DEF Answer, TypeOK, Counted
<1>2. CASE Show(l)
  <2>1. load[l] \in Load /\ load' \in [Loads -> Load]
    BY <1>2 DEF Show, TypeOK, Load
  <2>2. thread' \in Thread
    BY <1>2, <2>1 DEF Show, TypeOK, Load, Thread
  <2>3. form' \in Form
    BY <1>2, <2>1 DEF Show, TypeOK, Load, Form, NewForm
  <2> QED
    BY <1>2, <2>1, <2>2, <2>3 DEF Show, TypeOK, Counted
<1>3. CASE FailLoad(l)
  <2>1. load' \in [Loads -> Load]
    BY <1>3 DEF FailLoad, TypeOK, Load
  <2> QED
    BY <1>3, <2>1 DEF FailLoad, TypeOK, Counted
<1> QED
  BY <1>1, <1>2, <1>3 DEF Fetching

LEMMA PostingTyped == ASSUME TypeInv, NEW d \in Drafts, Posting(d) PROVE TypeInv'
<1>1. form' \in Form
  BY DEF Posting, Enqueue, SubmitEnd, SubmitFails, TypeInv, TypeOK, Form
<1>2. post' \in [Drafts -> Post] /\ Counted'
  BY InboxAssumption
     DEF Posting, Enqueue, SubmitEnd, SubmitFails, TypeInv, TypeOK, Post, Counted
<1> QED
  BY <1>1, <1>2 DEF Posting, Enqueue, SubmitEnd, SubmitFails, TypeInv, TypeOK, serverVars

LEMMA TypeStep == TypeInv /\ [Next]_inboxVars => TypeInv'
<1>1. TypeInv /\ UNCHANGED inboxVars => TypeInv'
  BY DEF TypeInv, TypeOK, Counted, inboxVars
<1> QED
  BY <1>1, RowsTyped, StaffTyped, FetchingTyped, PostingTyped DEF Next

\* The variables of the messages page keep their types, its counters included.
THEOREM TypeCorrect == Spec => []TypeOK
<1>1. TypeInv => TypeOK
  BY DEF TypeInv
<1> QED
  BY <1>1, TypeInitial, TypeStep, PTL DEF Spec

------------------------------------------------------------------------------
(* Thread and form *)

\* Thread and form are of one load, and that load was rendered; on another
\* page there is neither.
OpenInv ==
    /\ \A l \in Loads : load[l].state # "idle" => load[l].customer \in Customers
    /\ form.load = thread.load /\ form.customer = thread.customer
    /\ IF thread.load = NoLoad THEN thread.snapshot = {} /\ form.draft = NoDraft
       ELSE /\ load[thread.load].state = "shown"
            /\ thread.customer = load[thread.load].customer
            /\ thread.snapshot = load[thread.load].rows
    /\ page = "away" => thread.load = NoLoad

LEMMA OpenInitial == Init => OpenInv
BY DEF Init, OpenInv, NoThread, NoForm

\* A thread that is shown is that of a customer.
LEMMA ShownTyped ==
    ASSUME TypeOK, OpenInv, thread.load # NoLoad
    PROVE  /\ thread.load \in Loads /\ load[thread.load].state = "shown"
           /\ thread.customer \in Customers
BY DEF TypeOK, OpenInv, Thread

LEMMA OpenStep == TypeInv /\ OpenInv /\ [Next]_inboxVars => OpenInv'
<1> SUFFICES ASSUME TypeOK, OpenInv, [Next]_inboxVars PROVE OpenInv'
  BY DEF TypeInv
<1> USE DEF serverVars
<1>1. ASSUME NEW m \in Messages, Deliver(m) PROVE OpenInv'
  <2>1. /\ thread'.load = thread.load /\ thread'.customer = thread.customer
        /\ thread'.snapshot = thread.snapshot
    BY <1>1 DEF Deliver, TypeOK, Thread
  <2>2. \A l \in Loads : /\ load'[l].state = load[l].state
                         /\ load'[l].customer = load[l].customer
                         /\ load'[l].rows = load[l].rows
    BY <1>1 DEF Deliver, PassBy, TypeOK, Load
  <2> QED
    BY <1>1, <2>1, <2>2 DEF Deliver, OpenInv, TypeOK, Thread
<1>2. ASSUME NEW m \in Messages,
             LoseBroadcast(m) \/ \E c \in Customers : Commit(m, c)
      PROVE  OpenInv'
  BY <1>2 DEF LoseBroadcast, Commit, OpenInv
<1>3. ASSUME Leave \/ OpenByNav PROVE OpenInv'
  BY <1>3 DEF Leave, OpenByNav, CloseThread, OpenInv, NoThread, NoForm
<1>4. ASSUME OpenByVisit PROVE OpenInv'
  <2>1. \A l \in Loads : /\ load'[l].customer = load[l].customer
                         /\ load[l].state = "idle" => load'[l].state = "idle"
    BY <1>4 DEF OpenByVisit, InFlight, TypeOK, Load
  <2> QED
    BY <1>4, <2>1 DEF OpenByVisit, CloseThread, OpenInv, NoThread, NoForm
<1>5. ASSUME NEW target, Click(target) PROVE OpenInv'
  BY <1>5 DEF Click, OutsideClick, CloseThread, OpenInv, NoThread, NoForm
<1>6. ASSUME NEW l \in Loads, NEW c \in Customers, ClickConversation(l, c) PROVE OpenInv'
  <2>1. /\ load[l].state = "idle"
        /\ load'[l].customer = c
        /\ \A k \in Loads \ {l} : load'[k] = load[k]
    BY <1>6 DEF ClickConversation, TypeOK, Load
  <2>2. thread.load # l
    BY <2>1, InboxAssumption DEF OpenInv
  <2>3. \/ thread' = NoThread /\ form' = NoForm
        \/ thread' = thread /\ form' = form
    BY <1>6 DEF ClickConversation, OutsideClick, CloseThread
  <2>4. page' = page /\ page # "away"
    BY <1>6 DEF ClickConversation
  <2>5. CASE thread' = NoThread /\ form' = NoForm
    BY <2>1, <2>4, <2>5 DEF OpenInv, NoThread, NoForm
  <2>6. CASE thread' = thread /\ form' = form
    BY <2>1, <2>2, <2>4, <2>6, ShownTyped DEF OpenInv
  <2> QED
    BY <2>3, <2>5, <2>6
<1>7. ASSUME NEW d \in Drafts, Type(d) PROVE OpenInv'
  BY <1>7, InboxAssumption DEF Type, OpenInv, TypeOK, Form, FormOpen
<1>8. ASSUME NEW d \in Drafts, NEW by, Submit(d, by) PROVE OpenInv'
  BY <1>8, InboxAssumption DEF Submit, OpenInv, TypeOK, Form, NoForm
<1>9. ASSUME NEW l \in Loads, Answer(l) \/ FailLoad(l) PROVE OpenInv'
  <2>1. /\ load[l].state \in {"asked", "answered"}
        /\ load'[l].customer = load[l].customer
        /\ \A k \in Loads \ {l} : load'[k] = load[k]
    BY <1>9 DEF Answer, FailLoad, TypeOK, Load
  <2>2. thread.load # l
    BY <2>1, InboxAssumption DEF OpenInv
  <2> QED
    BY <1>9, <2>1, <2>2, ShownTyped DEF Answer, FailLoad, OpenInv
<1>10. ASSUME NEW l \in Loads, Show(l) PROVE OpenInv'
  <2>1. /\ load[l].state = "answered" /\ load'[l].state = "shown"
        /\ load'[l].customer = load[l].customer /\ load'[l].rows = load[l].rows
        /\ \A k \in Loads \ {l} : load'[k] = load[k]
    BY <1>10 DEF Show, TypeOK, Load
  <2> QED
    BY <1>10, <2>1, InboxAssumption DEF Show, OpenInv, NewForm
<1>11. ASSUME NEW d \in Drafts, Posting(d) PROVE OpenInv'
  <2>1. form'.load = form.load /\ form'.customer = form.customer
    BY <1>11 DEF Posting, Enqueue, SubmitEnd, SubmitFails, TypeOK, Form
  <2>2. form.draft = NoDraft => form'.draft = NoDraft
    BY <1>11 DEF Posting, Enqueue, SubmitEnd, SubmitFails, TypeOK, Form
  <2> QED
    BY <1>11, <2>1, <2>2 DEF Posting, Enqueue, SubmitEnd, SubmitFails, OpenInv
<1>12. ASSUME UNCHANGED inboxVars PROVE OpenInv'
  BY <1>12 DEF inboxVars, OpenInv
<1> QED
  BY <1>1, <1>2, <1>3, <1>4, <1>5, <1>6, <1>7, <1>8, <1>9, <1>10, <1>11, <1>12
     DEF Next, Rows, Staff, Fetching

------------------------------------------------------------------------------
(* A reply goes to the customer it was typed under *)

\* A draft is typed once, under the name of the form it stands in, and is
\* posted with it.
AddressInv ==
    /\ form.draft # NoDraft => under[form.draft] = form.customer
    /\ \A d \in Drafts :
          IF post[d].state = "idle" THEN post[d].jobs = 0
          ELSE post[d].to = under[d] /\ under[d] \in Customers

LEMMA AddressInitial == Init => AddressInv
BY DEF Init, AddressInv, NoForm

\* The form in which a draft stands is that of a customer.
LEMMA DraftInForm ==
    ASSUME TypeOK, OpenInv, form.draft # NoDraft
    PROVE  /\ form.load \in Loads /\ load[form.load].state = "shown"
           /\ form.draft \in Drafts /\ form.customer \in Customers
BY ShownTyped DEF OpenInv, TypeOK, Form

\* Whatever is not the staff's typing and submitting leaves the drafts alone.
LEMMA DraftsLeft ==
    ASSUME TypeOK, [Next]_inboxVars,
           \A d \in Drafts : ~Type(d) /\ ~Posting(d) /\ \A by : ~Submit(d, by)
    PROVE  /\ post' = post /\ under' = under
           /\ \/ form' = form
              \/ form'.load = NoLoad /\ form'.draft = NoDraft
              \/ \E l \in Loads : Show(l) /\ form'.load = l /\ form'.draft = NoDraft
<1> USE DEF serverVars
<1>1. CASE Rows
  BY <1>1 DEF Rows, Deliver, LoseBroadcast, Commit
<1>2. CASE Leave \/ OpenByNav \/ OpenByVisit
  BY <1>2 DEF Leave, OpenByNav, OpenByVisit, CloseThread, NoForm
<1>3. CASE \E target : Click(target)
  BY <1>3 DEF Click, OutsideClick, CloseThread, NoForm
<1>4. CASE \E l \in Loads, c \in Customers : ClickConversation(l, c)
  BY <1>4 DEF ClickConversation, OutsideClick, CloseThread, NoForm
<1>5. CASE \E l \in Loads : Answer(l) \/ FailLoad(l)
  BY <1>5 DEF Answer, FailLoad
<1>6. CASE \E l \in Loads : Show(l)
  <2>1. PICK l \in Loads : Show(l)
    BY <1>6
  <2>2. form' = form \/ (form'.load = l /\ form'.draft = NoDraft)
    BY <2>1 DEF Show, NewForm
  <2> QED
    BY <2>1, <2>2 DEF Show
<1>7. CASE UNCHANGED inboxVars
  BY <1>7 DEF inboxVars
<1> QED
  BY <1>1, <1>2, <1>3, <1>4, <1>5, <1>6, <1>7 DEF Next, Staff, Fetching

LEMMA AddressStep ==
    TypeInv /\ OpenInv /\ AddressInv /\ [Next]_inboxVars => AddressInv'
<1> SUFFICES ASSUME TypeOK, OpenInv, AddressInv, [Next]_inboxVars PROVE AddressInv'
  BY DEF TypeInv
<1>1. ASSUME NEW d \in Drafts, Type(d) PROVE AddressInv'
  <2>1. /\ form'.draft = d /\ form'.customer = form.customer
        /\ post' = post
        /\ under'[d] = form.customer
        /\ \A e \in Drafts \ {d} : under'[e] = under[e]
    BY <1>1 DEF Type, TypeOK, OpenInv, Form
  <2>2. post[d].state = "idle"
    BY <1>1, InboxAssumption DEF Type, AddressInv
  <2> QED
    BY <2>1, <2>2 DEF AddressInv
<1>2. ASSUME NEW d \in Drafts, NEW by, Submit(d, by) PROVE AddressInv'
  <2>1. /\ form'.draft = form.draft /\ form'.customer = form.customer
        /\ under' = under
        /\ post'[d].to = form.customer /\ post'[d].state = "sent"
        /\ \A e \in Drafts \ {d} : post'[e] = post[e]
    BY <1>2 DEF Submit, TypeOK, Form, Post
  <2>2. form.draft = d /\ under[d] = form.customer /\ form.customer \in Customers
    BY <1>2, DraftInForm, InboxAssumption DEF Submit, AddressInv
  <2> QED
    BY <2>1, <2>2 DEF AddressInv
<1>3. ASSUME NEW d \in Drafts, Posting(d) PROVE AddressInv'
  <2>1. /\ form'.draft \in {form.draft, NoDraft} /\ form'.customer = form.customer
        /\ under' = under
        /\ post[d].state # "idle" /\ post'[d].state # "idle"
        /\ post'[d].to = post[d].to
        /\ \A e \in Drafts \ {d} : post'[e] = post[e]
    <3>1. CASE Enqueue(d)
      BY <3>1 DEF Enqueue, TypeOK, Form, Post
    <3>2. CASE SubmitEnd(d)
      BY <3>2 DEF SubmitEnd, TypeOK, Form, Post
    <3>3. CASE SubmitFails(d)
      BY <3>3 DEF SubmitFails, TypeOK, Form, Post
    <3> QED
      BY <1>3, <3>1, <3>2, <3>3 DEF Posting
  <2> QED
    BY <2>1 DEF AddressInv
<1>4. ASSUME \A d \in Drafts : ~Type(d) /\ ~Posting(d) /\ \A by : ~Submit(d, by)
      PROVE  AddressInv'
  BY <1>4, DraftsLeft DEF AddressInv
<1> QED
  BY <1>1, <1>2, <1>3, <1>4

\* A draft stands under the name it was typed under, and its reply goes there,
\* however the answers and broadcasts overtake the staff.
THEOREM RepliesAddressed == Spec => []ReplyAsAddressed
<1>1. TypeInv /\ OpenInv /\ AddressInv => ReplyAsAddressed
  <2> SUFFICES ASSUME TypeOK, OpenInv, AddressInv PROVE ReplyAsAddressed
    BY DEF TypeInv
  <2>1. form.draft # NoDraft => thread.customer = under[form.draft]
    BY DEF OpenInv, AddressInv
  <2>2. \A d \in Drafts : post[d].jobs > 0 => post[d].to = under[d]
    BY DEF AddressInv
  <2> QED
    BY <2>1, <2>2 DEF ReplyAsAddressed
<1>2. Spec => [](TypeInv /\ OpenInv /\ AddressInv)
  BY TypeInitial, TypeStep, OpenInitial, OpenStep, AddressInitial, AddressStep,
     PTL DEF Spec
<1> QED
  BY <1>1, <1>2, PTL

------------------------------------------------------------------------------
(* A reply is queued once, and its draft kept until then *)

\* The form that a draft was posted from has it on its way until the answer is
\* handled, if that form is still there, and then the draft is gone.
PostInv ==
    \A d \in Drafts :
        /\ post[d].jobs = post[d].unsure
              + (IF post[d].state \in {"handled", "done"} THEN 1 ELSE 0)
        /\ post[d].state # "idle" =>
              post[d].form \in Loads /\ load[post[d].form].state = "shown"
        /\ post[d].state \in {"sent", "handled"} =>
              /\ post[d].form = form.load => form.posting = d
              /\ form.draft = d => post[d].form = form.load
        /\ post[d].state = "done" => form.draft # d

LEMMA PostInitial == Init => PostInv
BY InboxAssumption DEF Init, PostInv, NoForm

\* A load that was shown remains so.
LEMMA ShownStays ==
    ASSUME TypeOK, [Next]_inboxVars, NEW l \in Loads, load[l].state = "shown"
    PROVE  load'[l].state = "shown"
<1> USE DEF serverVars, TypeOK, Load
<1>1. CASE Rows
  BY <1>1 DEF Rows, Deliver, PassBy, LoseBroadcast, Commit
<1>2. CASE Staff
  BY <1>2 DEF Staff, Leave, OpenByNav, OpenByVisit, InFlight, Click, ClickConversation,
              Type, Submit
<1>3. CASE \E k \in Loads : Fetching(k)
  BY <1>3 DEF Fetching, Answer, Show, FailLoad
<1>4. CASE (\E d \in Drafts : Posting(d)) \/ UNCHANGED inboxVars
  BY <1>4 DEF Posting, Enqueue, SubmitEnd, SubmitFails, inboxVars
<1> QED
  BY <1>1, <1>2, <1>3, <1>4 DEF Next

LEMMA PostStep ==
    TypeInv /\ OpenInv /\ AddressInv /\ PostInv /\ [Next]_inboxVars => PostInv'
<1> SUFFICES ASSUME TypeOK, OpenInv, AddressInv, PostInv, [Next]_inboxVars PROVE PostInv'
  BY DEF TypeInv
<1>1. ASSUME NEW d \in Drafts, Type(d) PROVE PostInv'
  <2>1. /\ form'.draft = d /\ form'.load = form.load /\ form'.posting = form.posting
        /\ post' = post /\ load' = load
    BY <1>1 DEF Type, TypeOK, Form
  <2>2. post[d].state = "idle"
    BY <1>1, InboxAssumption DEF Type, AddressInv
  <2> QED
    BY <2>1, <2>2 DEF PostInv
<1>2. ASSUME NEW d \in Drafts, NEW by, Submit(d, by) PROVE PostInv'
  <2>1. /\ form'.draft = d /\ form'.load = form.load /\ form'.posting = d
        /\ form.draft = d /\ form.posting = NoDraft
        /\ load' = load
        /\ post'[d].state = "sent" /\ post'[d].form = form.load
        /\ post'[d].jobs = post[d].jobs /\ post'[d].unsure = post[d].unsure
        /\ \A e \in Drafts \ {d} : post'[e] = post[e]
    BY <1>2 DEF Submit, TypeOK, Form, Post
  <2>2. form.load \in Loads /\ load[form.load].state = "shown"
    BY <2>1, DraftInForm, InboxAssumption
  <2>3. post[d].state \notin {"handled", "done"}
    BY <2>1, InboxAssumption DEF PostInv
  <2>4. \A e \in Drafts \ {d} :
           post[e].state \in {"sent", "handled"} => post[e].form # form.load
    BY <2>1, InboxAssumption DEF PostInv
  <2> QED
    BY <2>1, <2>2, <2>3, <2>4 DEF PostInv
<1>3. ASSUME NEW d \in Drafts, Posting(d) PROVE PostInv'
  <2>1. /\ form'.load = form.load /\ load' = load
        /\ post'[d].form = post[d].form
        /\ post[d].state \in {"sent", "handled"}
        /\ post'[d].state \in {"handled", "done", "failed"}
        /\ \A e \in Drafts \ {d} : post'[e] = post[e]
    <3>1. CASE Enqueue(d)
      BY <3>1 DEF Enqueue, serverVars, TypeOK, Post
    <3>2. CASE SubmitEnd(d)
      BY <3>2 DEF SubmitEnd, serverVars, TypeOK, Form, Post
    <3>3. CASE SubmitFails(d)
      BY <3>3 DEF SubmitFails, serverVars, TypeOK, Form, Post
    <3> QED
      BY <1>3, <3>1, <3>2, <3>3 DEF Posting
  <2>2. CASE Enqueue(d)
    <3>1. /\ form' = form /\ post[d].state = "sent" /\ post'[d].state = "handled"
          /\ post'[d].jobs = post[d].jobs + 1 /\ post'[d].unsure = post[d].unsure
      BY <2>2 DEF Enqueue, serverVars, TypeOK, Post
    <3> QED
      BY <2>1, <3>1 DEF PostInv, TypeOK, Post
  <2>3. CASE SubmitEnd(d)
    <3>1. /\ post[d].state = "handled" /\ post'[d].state = "done"
          /\ post'[d].jobs = post[d].jobs /\ post'[d].unsure = post[d].unsure
          /\ IF form.load = post[d].form
             THEN form'.posting = NoDraft /\ form'.draft = NoDraft ELSE form' = form
      BY <2>3 DEF SubmitEnd, SameForm, serverVars, TypeOK, Form, Post
    <3> QED
      BY <2>1, <3>1, InboxAssumption DEF PostInv
  <2>4. CASE SubmitFails(d)
    <3>1. /\ post'[d].state = "failed" /\ post'[d].jobs = post[d].jobs
          /\ post'[d].unsure = post[d].unsure
                + (IF post[d].state = "handled" THEN 1 ELSE 0)
          /\ IF form.load = post[d].form
             THEN form'.posting = NoDraft /\ form'.draft = form.draft ELSE form' = form
      BY <2>4 DEF SubmitFails, SameForm, serverVars, TypeOK, Form, Post
    <3> QED
      BY <2>1, <3>1, InboxAssumption DEF PostInv, TypeOK, Post
  <2> QED
    BY <1>3, <2>2, <2>3, <2>4 DEF Posting
<1>4. ASSUME \A d \in Drafts : ~Type(d) /\ ~Posting(d) /\ \A by : ~Submit(d, by)
      PROVE  PostInv'
  <2>1. post' = post
    BY <1>4, DraftsLeft
  <2>2. \A d \in Drafts : post[d].state # "idle" =>
           post[d].form \in Loads /\ load[post[d].form].state = "shown"
                                 /\ load'[post[d].form].state = "shown"
    BY ShownStays DEF PostInv
  <2>3. CASE form' = form
    BY <2>1, <2>2, <2>3 DEF PostInv
  <2>4. CASE form'.load = NoLoad /\ form'.draft = NoDraft
    BY <2>1, <2>2, <2>4, InboxAssumption DEF PostInv
  <2>5. ASSUME NEW l \in Loads, Show(l), form'.load = l, form'.draft = NoDraft
        PROVE  PostInv'
    <3>1. load[l].state = "answered"
      BY <2>5 DEF Show
    <3> QED
      BY <2>1, <2>2, <2>5, <3>1, InboxAssumption DEF PostInv
  <2> QED
    BY <1>4, DraftsLeft, <2>3, <2>4, <2>5
<1> QED
  BY <1>1, <1>2, <1>3, <1>4

LEMMA PageInvariants == Spec => [](TypeInv /\ OpenInv /\ AddressInv /\ PostInv)
BY TypeInitial, TypeStep, OpenInitial, OpenStep, AddressInitial, AddressStep,
   PostInitial, PostStep, PTL DEF Spec

\* A draft is queued for sending once more than answers to it were lost.
THEOREM RepliesNotDoubled == Spec => []NoDoubleReply
<1>1. TypeInv /\ PostInv => NoDoubleReply
  BY DEF TypeInv, TypeOK, Post, PostInv, NoDoubleReply
<1> QED
  BY <1>1, PageInvariants, PTL

\* A draft is not lost from a form that stays, but for one typed while the
\* draft before it was on its way.
THEOREM DraftsKept == Spec => DraftKept
<1>1. ASSUME TypeOK, OpenInv, PostInv, [Next]_inboxVars, NEW d \in Drafts,
             form.draft = d, form'.load = form.load, form'.draft = NoDraft
      PROVE  post'[d].jobs > 0 \/ form.posting \notin {NoDraft, d}
  <2>1. form.load \in Loads /\ load[form.load].state = "shown"
    BY <1>1, DraftInForm, InboxAssumption
  <2>2. PICK e \in Drafts : Type(e) \/ Posting(e) \/ \E by : Submit(e, by)
    BY <1>1, <2>1, DraftsLeft, InboxAssumption DEF Show
  <2>3. ~Type(e) /\ ~\E by : Submit(e, by)
    BY <1>1, InboxAssumption DEF Type, Submit, TypeOK, Form
  <2>4. SubmitEnd(e)
    BY <1>1, <2>2, <2>3, InboxAssumption
       DEF Posting, Enqueue, SubmitFails, serverVars, TypeOK, Form
  <2>5. post[e].form = form.load /\ post[e].state = "handled" /\ post'[e].jobs = post[e].jobs
    BY <1>1, <2>4, InboxAssumption DEF SubmitEnd, SameForm, TypeOK, Form, Post
  <2>6. form.posting = e /\ post[e].jobs > 0
    BY <1>1, <2>5 DEF PostInv, TypeOK, Post
  <2> QED
    BY <2>5, <2>6, InboxAssumption
<1>2. TypeInv /\ OpenInv /\ PostInv /\ [Next]_inboxVars =>
        [\A d \in Drafts :
           form.draft = d /\ form'.load = form.load /\ form'.draft = NoDraft
             => post'[d].jobs > 0 \/ form.posting \notin {NoDraft, d}]_inboxVars
  BY <1>1 DEF TypeInv
<1> QED
  BY <1>2, PageInvariants, PTL DEF Spec, DraftKept

------------------------------------------------------------------------------
(* The rows of the open thread are shown once *)

\* A row of the thread that is no exception is in one of its two parts, once
\* its broadcast has passed.
Once(m) ==
    (page = "live" /\ OwnThread(m) /\ cable[m] # "lost"
        /\ m \notin load[thread.load].overlap)
    => IF cable[m] = "due" THEN ~InThread(m)
       ELSE m \in thread.snapshot <=> m \notin thread.news

\* The same for an answer that has not been rendered.
Fits(l, m) ==
    load[l].state = "answered" /\ row[m] = load[l].customer /\ cable[m] # "lost"
        /\ m \notin load[l].overlap
    => (m \in load[l].rows <=> cable[m] = "sent")

RowInv ==
    /\ \A m \in Messages : cable[m] = "none" <=> row[m] = NoCustomer
    /\ \A l \in Loads : load[l].state \in {"answered", "shown"} =>
          \A m \in load[l].rows : row[m] = load[l].customer
    /\ \A l \in Loads, m \in Messages : Fits(l, m)
    /\ \A m \in thread.news : cable[m] = "sent"
    /\ \A m \in Messages : Once(m)

LEMMA RowInitial == Init => RowInv
BY InboxAssumption DEF Init, RowInv, Fits, Once, OwnThread, NoThread

LEMMA RowDeliver ==
    ASSUME TypeOK, OpenInv, RowInv, NEW m \in Messages, Deliver(m)
    PROVE  RowInv'
<1>1. /\ cable[m] = "due" /\ cable'[m] = "sent" /\ row' = row /\ page' = page
      /\ \A n \in Messages \ {m} : cable'[n] = cable[n]
  BY DEF Deliver, TypeOK
<1>2. /\ thread'.load = thread.load /\ thread'.customer = thread.customer
      /\ thread'.snapshot = thread.snapshot
      /\ thread'.news = IF page = "live" /\ thread.load # NoLoad
                        THEN thread.news \cup {m} ELSE thread.news
  BY DEF Deliver, TypeOK, Thread
<1>3. \A l \in Loads : /\ load'[l].state = load[l].state
                       /\ load'[l].customer = load[l].customer
                       /\ load'[l].rows = load[l].rows
                       /\ load'[l].overlap = IF load[l].state = "answered"
                            THEN load[l].overlap \cup {m} ELSE load[l].overlap
  BY DEF Deliver, PassBy, TypeOK, Load
<1>4. ASSUME NEW l \in Loads, NEW n \in Messages PROVE Fits(l, n)'
  <2>1. CASE n = m
    BY <1>3, <2>1 DEF Fits
  <2>2. CASE n # m
    <3>1. Fits(l, n)
      BY DEF RowInv
    <3>2. /\ load'[l].state = load[l].state /\ load'[l].customer = load[l].customer
          /\ load'[l].rows = load[l].rows
          /\ n \in load[l].overlap => n \in load'[l].overlap
          /\ cable'[n] = cable[n] /\ row'[n] = row[n]
      BY <1>1, <1>3, <2>2
    <3> QED
      BY <3>1, <3>2 DEF Fits
  <2> QED
    BY <2>1, <2>2
<1>5. ASSUME NEW n \in Messages PROVE Once(n)'
  <2> SUFFICES ASSUME page = "live", OwnThread(n)', cable'[n] # "lost",
                      n \notin load'[thread.load].overlap
               PROVE  IF cable'[n] = "due" THEN ~InThread(n)'
                      ELSE n \in thread'.snapshot <=> n \notin thread'.news
    BY <1>1, <1>2 DEF Once
  <2>1. OwnThread(n) /\ thread.load # NoLoad
    BY <1>1, <1>2 DEF OwnThread
  <2>2. load'[thread.load].overlap = load[thread.load].overlap
    BY <1>3, <2>1, ShownTyped
  <2>3. cable[n] # "lost"
    BY <1>1
  <2>4. IF cable[n] = "due" THEN ~InThread(n)
        ELSE n \in thread.snapshot <=> n \notin thread.news
    BY <2>1, <2>2, <2>3 DEF RowInv, Once
  <2>5. CASE n = m
    BY <1>1, <1>2, <2>1, <2>4, <2>5 DEF InThread
  <2>6. CASE n # m
    BY <1>1, <1>2, <2>1, <2>4, <2>6 DEF InThread
  <2> QED
    BY <2>5, <2>6
<1>6. \A n \in thread'.news : cable'[n] = "sent"
  BY <1>1, <1>2 DEF RowInv, TypeOK, Thread
<1>7. /\ \A n \in Messages : cable'[n] = "none" <=> row'[n] = NoCustomer
      /\ \A l \in Loads : load'[l].state \in {"answered", "shown"} =>
            \A n \in load'[l].rows : row'[n] = load'[l].customer
  BY <1>1, <1>3 DEF RowInv
<1> QED
  BY <1>4, <1>5, <1>6, <1>7 DEF RowInv

LEMMA RowCommit ==
    ASSUME TypeOK, OpenInv, RowInv, NEW m \in Messages, NEW c \in Customers, Commit(m, c)
    PROVE  RowInv'
<1>1. /\ row[m] = NoCustomer /\ row'[m] = c /\ cable'[m] = "due" /\ cable[m] = "none"
      /\ \A n \in Messages \ {m} : row'[n] = row[n] /\ cable'[n] = cable[n]
      /\ thread' = thread /\ load' = load /\ page' = page
  BY DEF Commit, TypeOK, RowInv
<1>2. \A l \in Loads : load[l].state \in {"answered", "shown"} => m \notin load[l].rows
  BY <1>1, InboxAssumption DEF RowInv, OpenInv
<1>3. m \notin thread.news
  BY <1>1 DEF RowInv
<1>4. thread.load # NoLoad => m \notin thread.snapshot
  BY <1>2, ShownTyped DEF OpenInv
<1>5. \A l \in Loads, n \in Messages : Fits(l, n)'
  BY <1>1, <1>2 DEF RowInv, Fits
<1>6. \A n \in Messages : Once(n)'
  BY <1>1, <1>3, <1>4 DEF RowInv, Once, OwnThread, InThread
<1>7. \A n \in Messages : cable'[n] = "none" <=> row'[n] = NoCustomer
  BY <1>1, InboxAssumption DEF RowInv
<1>8. \A l \in Loads : load'[l].state \in {"answered", "shown"} =>
         \A n \in load'[l].rows : row'[n] = load'[l].customer
  BY <1>1, <1>2 DEF RowInv, TypeOK, Load
<1>9. \A n \in thread'.news : cable'[n] = "sent"
  BY <1>1, <1>3 DEF RowInv, TypeOK, Thread
<1> QED
  BY <1>5, <1>6, <1>7, <1>8, <1>9 DEF RowInv

LEMMA RowAnswer ==
    ASSUME TypeOK, OpenInv, RowInv, NEW l \in Loads, Answer(l)
    PROVE  RowInv'
<1> DEFINE own == {m \in Messages : row[m] = load[l].customer}
           overlap == {m \in own : cable[m] = "due"}
<1>1. /\ load[l].state = "asked" /\ load'[l].state = "answered"
      /\ load'[l].customer = load[l].customer
      /\ load'[l].rows = own /\ load'[l].overlap = overlap
      /\ \A k \in Loads \ {l} : load'[k] = load[k]
  <2>1. load' = [load EXCEPT ![l].state = "answered", ![l].rows = own,
                             ![l].overlap = overlap]
    BY DEF Answer
  <2>2. load[l].state = "asked"
    BY DEF Answer
  <2> HIDE DEF own, overlap
  <2> QED
    BY <2>1, <2>2 DEF TypeOK, Load
<1>2. row' = row /\ cable' = cable /\ thread' = thread /\ page' = page
  BY DEF Answer, serverVars
<1>3. thread.load # l
  BY <1>1, InboxAssumption DEF OpenInv
<1>4. \A m \in Messages : Fits(l, m)'
  <2> SUFFICES ASSUME NEW m \in Messages, row[m] = load[l].customer, cable[m] # "lost",
                      m \notin overlap
               PROVE  m \in own <=> cable[m] = "sent"
    BY <1>1, <1>2 DEF Fits
  <2>1. m \in own /\ cable[m] # "due"
    OBVIOUS
  <2>2. cable[m] # "none"
    BY <1>1, InboxAssumption DEF RowInv, OpenInv
  <2> QED
    BY <2>1, <2>2 DEF TypeOK
<1>5. \A k \in Loads \ {l}, m \in Messages : Fits(k, m)'
  BY <1>1, <1>2 DEF RowInv, Fits
<1>6. \A m \in Messages : Once(m)'
  BY <1>1, <1>2, <1>3, ShownTyped DEF RowInv, Once, OwnThread, InThread
<1>7. \A k \in Loads : load'[k].state \in {"answered", "shown"} =>
         \A m \in load'[k].rows : row'[m] = load'[k].customer
  BY <1>1, <1>2 DEF RowInv
<1> QED
  BY <1>2, <1>4, <1>5, <1>6, <1>7 DEF RowInv

LEMMA RowShow ==
    ASSUME TypeOK, OpenInv, RowInv, NEW l \in Loads, Show(l)
    PROVE  RowInv'
<1>1. /\ load[l].state = "answered" /\ load'[l].state = "shown"
      /\ load'[l].customer = load[l].customer
      /\ load'[l].rows = load[l].rows /\ load'[l].overlap = load[l].overlap
      /\ \A k \in Loads \ {l} : load'[k] = load[k]
      /\ row' = row /\ cable' = cable /\ page' = page
  BY DEF Show, serverVars, TypeOK, Load
<1>2. CASE page = "away"
  <2>1. thread' = thread /\ thread.load = NoLoad
    BY <1>2 DEF Show, OpenInv
  <2> QED
    BY <1>1, <2>1 DEF RowInv, Fits, Once, OwnThread
<1>3. CASE page # "away"
  <2>1. /\ thread'.load = l /\ thread'.customer = load[l].customer
        /\ thread'.snapshot = load[l].rows /\ thread'.news = {}
    BY <1>3 DEF Show
  <2>2. \A m \in Messages : Once(m)'
    <3> SUFFICES ASSUME NEW m \in Messages, row[m] = load[l].customer,
                        cable[m] # "lost", m \notin load[l].overlap
                 PROVE  IF cable[m] = "due" THEN m \notin load[l].rows
                        ELSE m \in load[l].rows
      BY <1>1, <2>1 DEF Once, OwnThread, InThread
    <3>1. m \in load[l].rows <=> cable[m] = "sent"
      BY <1>1 DEF RowInv, Fits
    <3>2. cable[m] # "none"
      BY <1>1, InboxAssumption DEF RowInv, OpenInv
    <3> QED
      BY <3>1, <3>2 DEF TypeOK
  <2> QED
    BY <1>1, <2>1, <2>2 DEF RowInv, Fits
<1> QED
  BY <1>2, <1>3

\* What the staff does closes the thread or leaves it, and answers no load.
LEMMA RowStaff ==
    ASSUME TypeOK, OpenInv, RowInv,
           row' = row, cable' = cable,
           thread' = NoThread \/ (thread' = thread /\ page' = page),
           \A l \in Loads : \/ load'[l] = load[l]
                            \/ load'[l].state \notin {"answered", "shown"},
           [Next]_inboxVars
    PROVE  RowInv'
<1>1. \A l \in Loads, m \in Messages : Fits(l, m)'
  BY DEF RowInv, Fits
<1>2. \A l \in Loads : load'[l].state \in {"answered", "shown"} =>
         \A m \in load'[l].rows : row'[m] = load'[l].customer
  BY DEF RowInv
<1>3. CASE thread' = NoThread
  BY <1>1, <1>2, <1>3 DEF RowInv, Once, OwnThread, NoThread
<1>4. CASE thread' = thread /\ page' = page
  <2>1. thread.load # NoLoad => load'[thread.load] = load[thread.load]
    BY ShownTyped, ShownStays
  <2>2. \A m \in Messages : Once(m)'
    BY <1>4, <2>1 DEF RowInv, Once, OwnThread, InThread
  <2> QED
    BY <1>1, <1>2, <1>4, <2>2 DEF RowInv
<1> QED
  BY <1>3, <1>4

LEMMA RowStep == TypeInv /\ OpenInv /\ RowInv /\ [Next]_inboxVars => RowInv'
<1> SUFFICES ASSUME TypeOK, OpenInv, RowInv, [Next]_inboxVars PROVE RowInv'
  BY DEF TypeInv
<1> USE DEF serverVars
<1>1. ASSUME NEW m \in Messages, LoseBroadcast(m) PROVE RowInv'
  <2>1. /\ cable[m] = "due" /\ cable'[m] = "lost"
        /\ \A n \in Messages \ {m} : cable'[n] = cable[n]
        /\ row' = row /\ thread' = thread /\ load' = load /\ page' = page
    BY <1>1 DEF LoseBroadcast, TypeOK
  <2>2. \A l \in Loads, n \in Messages : Fits(l, n)'
    BY <2>1 DEF RowInv, Fits
  <2>3. \A n \in Messages : Once(n)'
    BY <2>1 DEF RowInv, Once, OwnThread, InThread
  <2>4. \A n \in thread'.news : cable'[n] = "sent"
    BY <2>1 DEF RowInv, TypeOK, Thread
  <2>5. \A n \in Messages : cable'[n] = "none" <=> row'[n] = NoCustomer
    BY <2>1 DEF RowInv
  <2> QED
    BY <2>1, <2>2, <2>3, <2>4, <2>5 DEF RowInv
<1>2. ASSUME Leave \/ OpenByNav \/ OpenByVisit PROVE RowInv'
  <2>1. \A l \in Loads : load'[l] = load[l] \/ load'[l].state = "failed"
    BY <1>2 DEF Leave, OpenByNav, OpenByVisit, TypeOK, Load
  <2> QED
    BY <1>2, <2>1, RowStaff DEF Leave, OpenByNav, OpenByVisit, CloseThread
<1>3. ASSUME NEW target, Click(target) PROVE RowInv'
  BY <1>3, RowStaff DEF Click, OutsideClick, CloseThread
<1>4. ASSUME NEW l \in Loads, NEW c \in Customers, ClickConversation(l, c) PROVE RowInv'
  <2>1. \A k \in Loads : load'[k] = load[k] \/ load'[k].state = "asked"
    BY <1>4 DEF ClickConversation, TypeOK, Load
  <2> QED
    BY <1>4, <2>1, RowStaff DEF ClickConversation, OutsideClick, CloseThread
<1>5. ASSUME NEW l \in Loads, FailLoad(l) PROVE RowInv'
  <2>1. \A k \in Loads : load'[k] = load[k] \/ load'[k].state = "failed"
    BY <1>5 DEF FailLoad, TypeOK, Load
  <2> QED
    BY <1>5, <2>1, RowStaff DEF FailLoad
<1>6. ASSUME NEW d \in Drafts, Type(d) \/ Posting(d) \/ \E by : Submit(d, by)
      PROVE  RowInv'
  BY <1>6, RowStaff DEF Type, Submit, Posting, Enqueue, SubmitEnd, SubmitFails
<1>7. CASE UNCHANGED inboxVars
  BY <1>7, RowStaff DEF inboxVars
<1> QED
  BY <1>1, <1>2, <1>3, <1>4, <1>5, <1>6, <1>7, RowDeliver, RowCommit, RowAnswer, RowShow
     DEF Next, Rows, Staff, Fetching

\* A row of the open thread is shown once after its broadcast, if it was not
\* written around the reading of the thread.
THEOREM RowsShownOnce == Spec => []ShownOnce
<1>1. TypeInv /\ OpenInv /\ RowInv => ShownOnce
  <2> SUFFICES ASSUME TypeOK, OpenInv, RowInv, NEW m \in Messages
               PROVE  (m \in thread.snapshot => OwnThread(m)) /\ Once(m)
    BY DEF TypeInv, ShownOnce, Once
  <2>1. m \in thread.snapshot => OwnThread(m)
    BY ShownTyped DEF OpenInv, RowInv, OwnThread
  <2> QED
    BY <2>1 DEF RowInv
<1>2. Spec => [](TypeInv /\ OpenInv /\ RowInv)
  BY TypeInitial, TypeStep, OpenInitial, OpenStep, RowInitial, RowStep, PTL DEF Spec
<1> QED
  BY <1>1, <1>2, PTL

------------------------------------------------------------------------------
(* Staff who wait see what they asked for *)

\* Who waits has one load under way at most, that of the last click.
WantedInv ==
    /\ ~hurried => InFlight \subseteq {wanted}
    /\ page = "away" => wanted = NoLoad
    /\ WantedShown

LEMMA WantedInitial == Init => WantedInv
BY DEF Init, WantedInv, WantedShown, InFlight

LEMMA WantedStep == TypeInv /\ OpenInv /\ WantedInv /\ [Next]_inboxVars => WantedInv'
<1> SUFFICES ASSUME TypeOK, OpenInv, WantedInv, [Next]_inboxVars PROVE WantedInv'
  BY DEF TypeInv
<1> USE DEF serverVars
<1>1. ASSUME Rows PROVE WantedInv'
  <2>1. /\ thread'.load = thread.load /\ page' = page
        /\ wanted' = wanted /\ hurried' = hurried
    BY <1>1 DEF Rows, Deliver, LoseBroadcast, Commit, TypeOK, Thread
  <2>2. \A l \in Loads : load'[l].state = load[l].state
    BY <1>1 DEF Rows, Deliver, PassBy, LoseBroadcast, Commit, TypeOK, Load
  <2> QED
    BY <2>1, <2>2 DEF WantedInv, WantedShown, InFlight, TypeOK
<1>2. ASSUME Leave \/ OpenByNav \/ OpenByVisit PROVE WantedInv'
  <2>1. thread'.load = NoLoad /\ wanted' = NoLoad
    BY <1>2 DEF Leave, OpenByNav, OpenByVisit, CloseThread, NoThread
  <2>2. ~hurried' => InFlight' = {}
    <3>1. CASE Leave \/ OpenByNav
      BY <3>1 DEF Leave, OpenByNav, InFlight
    <3>2. CASE OpenByVisit
      <4>1. \A l \in Loads : load'[l].state \notin {"asked", "answered"}
        BY <3>2 DEF OpenByVisit, InFlight, TypeOK, Load
      <4> QED
        BY <4>1 DEF InFlight
    <3> QED
      BY <1>2, <3>1, <3>2
  <2> QED
    BY <2>1, <2>2 DEF WantedInv, WantedShown
<1>3. ASSUME NEW target, Click(target) PROVE WantedInv'
  <2>1. CASE target \in {"form", "header"}
    BY <1>3, <2>1 DEF Click, OutsideClick, WantedInv, WantedShown, InFlight
  <2>2. CASE target \notin {"form", "header"}
    <3>1. /\ wanted' = NoLoad /\ load' = load /\ page' = page
          /\ ~hurried' => InFlight = {}
      BY <1>3, <2>2 DEF Click
    <3>3. thread' = NoThread
      BY <1>3, <2>2 DEF Click, OutsideClick, CloseThread
    <3>4. thread'.load = NoLoad
      BY <3>3 DEF NoThread
    <3>2. InFlight' = InFlight
      BY <3>1 DEF InFlight
    <3> QED
      BY <3>1, <3>2, <3>4 DEF WantedInv, WantedShown
  <2> QED
    BY <2>1, <2>2
<1>4. ASSUME NEW l \in Loads, NEW c \in Customers, ClickConversation(l, c)
      PROVE  WantedInv'
  <2>1. /\ load'[l].state = "asked"
        /\ \A k \in Loads \ {l} : load'[k] = load[k]
        /\ wanted' = l /\ page' = page /\ page # "away"
        /\ ~hurried' => InFlight = {}
    BY <1>4 DEF ClickConversation, TypeOK, Load
  <2> QED
    BY <2>1, InboxAssumption DEF WantedInv, WantedShown, InFlight
<1>5. ASSUME NEW l \in Loads, Answer(l) PROVE WantedInv'
  <2>1. /\ load[l].state = "asked" /\ load'[l].state = "answered"
        /\ \A k \in Loads \ {l} : load'[k] = load[k]
    BY <1>5 DEF Answer, TypeOK, Load
  <2> QED
    BY <1>5, <2>1 DEF Answer, WantedInv, WantedShown, InFlight, TypeOK
<1>6. ASSUME NEW l \in Loads, FailLoad(l) PROVE WantedInv'
  <2>1. /\ load[l].state # "shown" /\ load'[l].state = "failed"
        /\ \A k \in Loads \ {l} : load'[k] = load[k]
    BY <1>6 DEF FailLoad, TypeOK, Load
  <2> QED
    BY <1>6, <2>1 DEF FailLoad, WantedInv, WantedShown, InFlight, TypeOK
<1>7. ASSUME NEW l \in Loads, Show(l) PROVE WantedInv'
  <2>1. /\ load[l].state = "answered" /\ load'[l].state = "shown"
        /\ \A k \in Loads \ {l} : load'[k] = load[k]
        /\ wanted' = wanted /\ hurried' = hurried /\ page' = page
        /\ page # "away" => thread'.load = l
    BY <1>7 DEF Show, TypeOK, Load
  <2>2. ~hurried => wanted = l
    BY <2>1 DEF WantedInv, InFlight
  <2> QED
    BY <2>1, <2>2 DEF WantedInv, WantedShown, InFlight
<1>8. ASSUME NEW d \in Drafts, Type(d) \/ Posting(d) \/ \E by : Submit(d, by)
      PROVE  WantedInv'
  BY <1>8 DEF Type, Submit, Posting, Enqueue, SubmitEnd, SubmitFails, WantedInv,
              WantedShown, InFlight
<1>9. CASE UNCHANGED inboxVars
  BY <1>9 DEF inboxVars, WantedInv, WantedShown, InFlight
<1> QED
  BY <1>1, <1>2, <1>3, <1>4, <1>5, <1>6, <1>7, <1>8, <1>9 DEF Next, Staff, Fetching

\* Staff who wait for an answer before they click on see the conversation they
\* clicked last, or none if they closed it.
THEOREM WantedIsShown == Spec => []WantedShown
<1>1. WantedInv => WantedShown
  BY DEF WantedInv
<1>2. Spec => [](TypeInv /\ OpenInv /\ WantedInv)
  BY TypeInitial, TypeStep, OpenInitial, OpenStep, WantedInitial, WantedStep, PTL DEF Spec
<1> QED
  BY <1>1, <1>2, PTL
==============================================================================
