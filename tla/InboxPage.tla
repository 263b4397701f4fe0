------------------------------ MODULE InboxPage ------------------------------
(***************************************************************************)
(* The messages page of one staff member's browser tab: the conversation   *)
(* and message-form controllers, the two server actions behind them and    *)
(* the broadcasts that reach the page while its requests are under way.    *)
(***************************************************************************)
EXTENDS Naturals, FiniteSets

CONSTANTS
    Customers, NoCustomer,
    Messages,       \* rows the business's jobs and webhooks may write
    Loads, NoLoad,  \* clicks on a conversation; each renders a form of its own
    Drafts, NoDraft,\* texts the staff types
    BlankDrafts,    \* those made of white space only
    MaxTries,       \* how often one draft may be submitted
    Faults          \* "cut": requests and broadcasts may be lost

ASSUME InboxAssumption ==
    /\ NoCustomer \notin Customers
    /\ NoLoad \notin Loads
    /\ NoDraft \notin Drafts
    /\ MaxTries \in Nat

VARIABLES
    row,     \* the customer of each row of the messages table
    cable,   \* the broadcast of each row
    page,    \* "away", or on the messages page with or without its stream
    listed,  \* customers of the conversation list, as it was rendered
    thread,  \* what #message-thread shows
    form,    \* what #message-form-container shows
    load,    \* the fetches of conversation#load
    post,    \* the submissions of the form, by draft
    under,   \* history: the customer in the header when a draft was typed
    wanted,  \* history: the load of the conversation the staff last asked for
    hurried  \* history: the staff did not wait for an answer

inboxVars == <<row, cable, page, listed, thread, form, load, post, under, wanted, hurried>>
serverVars == <<row, cable>>

Pages == {"away", "live", "deaf"}

Thread == [load : Loads \cup {NoLoad}, customer : Customers \cup {NoCustomer},
           snapshot : SUBSET Messages, news : SUBSET Messages]
Form == [load : Loads \cup {NoLoad}, customer : Customers \cup {NoCustomer},
         draft : Drafts \cup {NoDraft}, posting : Drafts \cup {NoDraft}]
Load == [state : {"idle", "asked", "answered", "shown", "failed"},
         customer : Customers \cup {NoCustomer},
         rows : SUBSET Messages, overlap : SUBSET Messages]
Post == [state : {"idle", "sent", "handled", "done", "failed"},
         form : Loads \cup {NoLoad}, to : Customers \cup {NoCustomer},
         tries : 0..MaxTries, jobs : 0..MaxTries, unsure : 0..MaxTries]

TypeOK ==
    /\ row \in [Messages -> Customers \cup {NoCustomer}]
    /\ cable \in [Messages -> {"none", "due", "sent", "lost"}]
    /\ page \in Pages
    /\ listed \subseteq Customers
    /\ thread \in Thread
    /\ form \in Form
    /\ load \in [Loads -> Load]
    /\ post \in [Drafts -> Post]
    /\ under \in [Drafts -> Customers \cup {NoCustomer}]
    /\ wanted \in Loads \cup {NoLoad}
    /\ hurried \in BOOLEAN

\* "Select a conversation to view messages": there is no #messages element.
NoThread == [load |-> NoLoad, customer |-> NoCustomer, snapshot |-> {}, news |-> {}]
NoForm == [load |-> NoLoad, customer |-> NoCustomer, draft |-> NoDraft, posting |-> NoDraft]

Init ==
    /\ row = [m \in Messages |-> NoCustomer]
    /\ cable = [m \in Messages |-> "none"]
    /\ page = "away"
    /\ listed = {}
    /\ thread = NoThread
    /\ form = NoForm
    /\ load = [l \in Loads |-> [state |-> "idle", customer |-> NoCustomer,
                                rows |-> {}, overlap |-> {}]]
    /\ post = [d \in Drafts |-> [state |-> "idle", form |-> NoLoad, to |-> NoCustomer,
                                 tries |-> 0, jobs |-> 0, unsure |-> 0]]
    /\ under = [d \in Drafts |-> NoCustomer]
    /\ wanted = NoLoad
    /\ hurried = FALSE

InFlight == {l \in Loads : load[l].state \in {"asked", "answered"}}
FormOpen == form.load # NoLoad

------------------------------------------------------------------------------
(* The rows and their broadcasts *)

\* Mutant: the row is saved and the broadcast forgotten.
CommitSilently(m, c) ==
    /\ row[m] = NoCustomer
    /\ row' = [row EXCEPT ![m] = c]
    /\ UNCHANGED <<cable, page, listed, thread, form, load, post, under, wanted, hurried>>

\* A job or a webhook request saves a message and broadcasts it after that.
Commit(m, c) ==
    /\ row[m] = NoCustomer
    /\ row' = [row EXCEPT ![m] = c]
    /\ cable' = [cable EXCEPT ![m] = "due"]
    /\ UNCHANGED <<page, listed, thread, form, load, post, under, wanted, hurried>>

\* The broadcast passes while these answers were already rendered.
PassBy(m) ==
    load' = [l \in Loads |->
                IF load[l].state = "answered"
                THEN [load[l] EXCEPT !.overlap = @ \cup {m}]
                ELSE load[l]]

\* One stream and one target for the whole business: a page with the stream
\* appends the row to the thread that is open, whoever's it is.
Deliver(m) ==
    /\ cable[m] = "due"
    /\ cable' = [cable EXCEPT ![m] = "sent"]
    /\ thread' = IF page = "live" /\ thread.load # NoLoad
                 THEN [thread EXCEPT !.news = @ \cup {m}]
                 ELSE thread
    /\ PassBy(m)
    /\ UNCHANGED <<row, page, listed, form, post, under, wanted, hurried>>

\* The process ends before it broadcasts, or the socket is down.
LoseBroadcast(m) ==
    /\ "cut" \in Faults
    /\ cable[m] = "due"
    /\ cable' = [cable EXCEPT ![m] = "lost"]
    /\ UNCHANGED <<row, page, listed, thread, form, load, post, under, wanted, hurried>>

------------------------------------------------------------------------------
(* conversation_controller.js *)

CloseThread == thread' = NoThread /\ form' = NoForm

\* Mutant: the click on the header is not spared.
CloseFromHeader(target) ==
    IF FormOpen /\ target # "form"
    THEN CloseThread
    ELSE UNCHANGED <<thread, form>>

\* A click anywhere in the window while a form is there.  The third condition
\* of the code never spares a click: no conversation element contains a link.
OutsideClick(target) ==
    IF FormOpen /\ target \notin {"form", "header"}
    THEN CloseThread
    ELSE UNCHANGED <<thread, form>>

Click(target) ==
    /\ page # "away"
    /\ FormOpen
    /\ OutsideClick(target)
    /\ IF target \in {"form", "header"}
       THEN UNCHANGED <<wanted, hurried>>
       ELSE wanted' = NoLoad /\ hurried' = (hurried \/ InFlight # {})
    /\ UNCHANGED <<serverVars, page, listed, load, post, under>>

\* The click is the link's own first, then the window's.
ClickConversation(l, c) ==
    /\ page # "away"
    /\ c \in listed
    /\ load[l].state = "idle"
    /\ load' = [load EXCEPT ![l].state = "asked", ![l].customer = c]
    /\ OutsideClick("link")
    /\ wanted' = l
    /\ hurried' = (hurried \/ InFlight # {})
    /\ UNCHANGED <<serverVars, page, listed, post, under>>

\* MessagesController#thread reads the rows.
Answer(l) ==
    /\ load[l].state = "asked"
    /\ LET own == {m \in Messages : row[m] = load[l].customer}
       IN  load' = [load EXCEPT ![l].state = "answered", ![l].rows = own,
                                ![l].overlap = {m \in own : cable[m] = "due"}]
    /\ UNCHANGED <<serverVars, page, listed, thread, form, post, under, wanted, hurried>>

\* thread.turbo_stream renders another form each time.
NewForm(l) == [load |-> l, customer |-> load[l].customer,
               draft |-> NoDraft, posting |-> NoDraft]

\* Mutants: the new thread is added to what is shown; a form in which the
\* staff has typed is kept; the answer is rendered on the messages page only.
ShowAdds(l) ==
    /\ load[l].state = "answered"
    /\ load' = [load EXCEPT ![l].state = "shown"]
    /\ IF page = "away"
       THEN UNCHANGED <<thread, form>>
       ELSE /\ thread' = [thread EXCEPT !.load = l, !.customer = load[l].customer,
                                        !.snapshot = @ \cup load[l].rows]
            /\ form' = NewForm(l)
    /\ UNCHANGED <<serverVars, page, listed, post, under, wanted, hurried>>

ShowKeepsDraft(l) ==
    /\ load[l].state = "answered"
    /\ load' = [load EXCEPT ![l].state = "shown"]
    /\ IF page = "away"
       THEN UNCHANGED <<thread, form>>
       ELSE /\ thread' = [load |-> l, customer |-> load[l].customer,
                          snapshot |-> load[l].rows, news |-> {}]
            /\ form' = IF form.draft # NoDraft THEN form
                       ELSE NewForm(l)
    /\ UNCHANGED <<serverVars, page, listed, post, under, wanted, hurried>>

ShowHere(l) ==
    /\ load[l].state = "answered"
    /\ page # "away"
    /\ load' = [load EXCEPT ![l].state = "shown"]
    /\ thread' = [load |-> l, customer |-> load[l].customer,
                  snapshot |-> load[l].rows, news |-> {}]
    /\ form' = NewForm(l)
    /\ UNCHANGED <<serverVars, page, listed, post, under, wanted, hurried>>

\* The stream message replaces thread and form in one repaint, if the page
\* has the two elements by then.
Show(l) ==
    /\ load[l].state = "answered"
    /\ load' = [load EXCEPT ![l].state = "shown"]
    /\ IF page = "away"
       THEN UNCHANGED <<thread, form>>
       ELSE /\ thread' = [load |-> l, customer |-> load[l].customer,
                          snapshot |-> load[l].rows, news |-> {}]
            /\ form' = NewForm(l)
    /\ UNCHANGED <<serverVars, page, listed, post, under, wanted, hurried>>

\* The fetch fails, or answers with something that holds no stream element.
FailLoad(l) ==
    /\ "cut" \in Faults
    /\ load[l].state \in {"asked", "answered"}
    /\ load' = [load EXCEPT ![l].state = "failed"]
    /\ UNCHANGED <<serverVars, page, listed, thread, form, post, under, wanted, hurried>>

------------------------------------------------------------------------------
(* Coming and going *)

Leave ==
    /\ page # "away"
    /\ page' = "away"
    /\ CloseThread
    /\ wanted' = NoLoad
    /\ hurried' = (hurried \/ InFlight # {})
    /\ UNCHANGED <<serverVars, listed, load, post, under>>

\* A link of the navigation loads the page into the frame.  The stream's
\* element stands outside the frame, so it does not come with it.
OpenByNav ==
    /\ page' = "deaf"
    /\ listed' = {row[m] : m \in Messages} \ {NoCustomer}
    /\ CloseThread
    /\ wanted' = NoLoad
    /\ hurried' = (hurried \/ InFlight # {})
    /\ UNCHANGED <<serverVars, load, post, under>>

\* The browser loads the whole page: a new document, in which the fetches of
\* the old one end.
OpenByVisit ==
    /\ page' = "live"
    /\ listed' = {row[m] : m \in Messages} \ {NoCustomer}
    /\ CloseThread
    /\ wanted' = NoLoad
    /\ load' = [l \in Loads |-> IF l \in InFlight
                                THEN [load[l] EXCEPT !.state = "failed"] ELSE load[l]]
    /\ UNCHANGED <<serverVars, post, under, hurried>>

------------------------------------------------------------------------------
(* message_form_controller.js *)

\* The staff types, also on while an earlier draft is being posted.
Type(d) ==
    /\ FormOpen
    /\ form.draft = NoDraft \/ form.draft = form.posting
    /\ under[d] = NoCustomer
    /\ form' = [form EXCEPT !.draft = d]
    /\ under' = [under EXCEPT ![d] = thread.customer]
    /\ UNCHANGED <<serverVars, page, listed, thread, load, post, wanted, hurried>>

\* Enter asks for more than white space, the button only for some text.
\* Turbo disables the button while a submission is under way.
Submit(d, by) ==
    /\ form.draft = d
    /\ by = "enter" => d \notin BlankDrafts
    /\ form.posting = NoDraft
    /\ post[d].tries < MaxTries
    /\ form' = [form EXCEPT !.posting = d]
    /\ post' = [post EXCEPT ![d].state = "sent", ![d].form = form.load,
                            ![d].to = form.customer, ![d].tries = @ + 1]
    /\ UNCHANGED <<serverVars, page, listed, thread, load, under, wanted, hurried>>

\* Mutant: the request is handled once more.
EnqueueAgain(d) ==
    /\ post[d].state \in {"sent", "handled"}
    /\ post' = [post EXCEPT ![d].state = "handled", ![d].jobs = @ + 1]
    /\ UNCHANGED <<serverVars, page, listed, thread, form, load, under, wanted, hurried>>

\* MessagesController#create queues the job for the form's customer.
Enqueue(d) ==
    /\ post[d].state = "sent"
    /\ post' = [post EXCEPT ![d].state = "handled", ![d].jobs = @ + 1]
    /\ UNCHANGED <<serverVars, page, listed, thread, form, load, under, wanted, hurried>>

SameForm(d) == form.load = post[d].form

\* Mutant: the form is not reset.
SubmitEndKeeps(d) ==
    /\ post[d].state = "handled"
    /\ post' = [post EXCEPT ![d].state = "done"]
    /\ form' = IF SameForm(d) THEN [form EXCEPT !.posting = NoDraft] ELSE form
    /\ UNCHANGED <<serverVars, page, listed, thread, load, under, wanted, hurried>>

\* Turbo enables the button and the form is reset, if it is still there.
SubmitEnd(d) ==
    /\ post[d].state = "handled"
    /\ post' = [post EXCEPT ![d].state = "done"]
    /\ form' = IF SameForm(d)
               THEN [form EXCEPT !.posting = NoDraft, !.draft = NoDraft]
               ELSE form
    /\ UNCHANGED <<serverVars, page, listed, thread, load, under, wanted, hurried>>

\* Mutants: the form is reset after every submission; the button stays
\* disabled after one that failed.
SubmitFailsResets(d) ==
    /\ "cut" \in Faults
    /\ post[d].state \in {"sent", "handled"}
    /\ post' = [post EXCEPT ![d].state = "failed",
                   ![d].unsure = IF post[d].state = "handled" THEN @ + 1 ELSE @]
    /\ form' = IF SameForm(d) THEN [form EXCEPT !.posting = NoDraft, !.draft = NoDraft]
               ELSE form
    /\ UNCHANGED <<serverVars, page, listed, thread, load, under, wanted, hurried>>

SubmitFailsSilently(d) ==
    /\ "cut" \in Faults
    /\ post[d].state \in {"sent", "handled"}
    /\ post' = [post EXCEPT ![d].state = "failed",
                   ![d].unsure = IF post[d].state = "handled" THEN @ + 1 ELSE @]
    /\ UNCHANGED <<serverVars, page, listed, thread, form, load, under, wanted, hurried>>

\* The request or its answer is lost: no success, no reset.
SubmitFails(d) ==
    /\ "cut" \in Faults
    /\ post[d].state \in {"sent", "handled"}
    /\ post' = [post EXCEPT ![d].state = "failed",
                   ![d].unsure = IF post[d].state = "handled" THEN @ + 1 ELSE @]
    /\ form' = IF SameForm(d) THEN [form EXCEPT !.posting = NoDraft] ELSE form
    /\ UNCHANGED <<serverVars, page, listed, thread, load, under, wanted, hurried>>

------------------------------------------------------------------------------
Rows == \E m \in Messages :
            Deliver(m) \/ LoseBroadcast(m) \/ \E c \in Customers : Commit(m, c)
Staff ==
    \/ Leave \/ OpenByNav \/ OpenByVisit
    \/ \E target \in {"form", "header", "messages", "elsewhere"} : Click(target)
    \/ \E l \in Loads, c \in Customers : ClickConversation(l, c)
    \/ \E d \in Drafts : Type(d) \/ \E by \in {"enter", "button"} : Submit(d, by)

\* What the browser and the server do with a request that is under way.
Fetching(l) == Answer(l) \/ Show(l) \/ FailLoad(l)
Posting(d) == Enqueue(d) \/ SubmitEnd(d) \/ SubmitFails(d)

Next ==
    \/ Rows \/ Staff
    \/ \E l \in Loads : Fetching(l)
    \/ \E d \in Drafts : Posting(d)

Spec == Init /\ [][Next]_inboxVars

\* The browser and the server get on with a request that is under way, and a
\* broadcast that is due is sent.  The staff need not do anything, and no
\* fault has to happen.
Fairness ==
    /\ \A l \in Loads : WF_inboxVars(Answer(l)) /\ WF_inboxVars(Show(l))
    /\ \A d \in Drafts : WF_inboxVars(Enqueue(d)) /\ WF_inboxVars(SubmitEnd(d))
    /\ \A m \in Messages : WF_inboxVars(Deliver(m))

FairSpec == Spec /\ Fairness

------------------------------------------------------------------------------
(* The thread *)

InThread(m) == m \in thread.snapshot \cup thread.news
OwnThread(m) == thread.load # NoLoad /\ row[m] = thread.customer

\* On a page with its stream, reading the thread and being told of new rows
\* fit together: a row of the open thread's customer is shown once its
\* broadcast has passed, and shown once.  What is left out are the rows whose
\* broadcast was due when MessagesController#thread read the table, or passed
\* before the answer was rendered, and the broadcasts that were lost.  Rows
\* of other customers are there as news only.
ShownOnce ==
    \A m \in Messages :
        /\ m \in thread.snapshot => OwnThread(m)
        /\ (page = "live" /\ OwnThread(m) /\ cable[m] # "lost"
              /\ m \notin load[thread.load].overlap)
           => IF cable[m] = "due" THEN ~InThread(m)
              ELSE m \in thread.snapshot <=> m \notin thread.news

\* A row of the customer whose thread stays open on such a page gets there,
\* unless it fell between the reading and the rendering or was lost.
NewsArrive ==
    \A m \in Messages :
        (page = "live" /\ OwnThread(m)) ~>
            \/ InThread(m) \/ cable[m] = "lost" \/ ~OwnThread(m) \/ page # "live"
            \/ m \in load[thread.load].overlap

\* Staff who wait for the answer before they click on see the conversation
\* they clicked last, or none if they closed it.
WantedShown ==
    ~hurried /\ page # "away" =>
        thread.load = wanted \/ (wanted # NoLoad /\ load[wanted].state # "shown")

\* Every click on a conversation is over at some time, wherever the staff is.
ClickAnswered == \A l \in Loads : load[l].state = "asked" ~> l \notin InFlight

------------------------------------------------------------------------------
(* The form *)

\* A draft stands under the name it was typed under for as long as it is
\* there, and its reply goes to that customer, whatever was rendered in the
\* meantime.
ReplyAsAddressed ==
    /\ form.draft # NoDraft => thread.customer = under[form.draft]
    /\ \A d \in Drafts : post[d].jobs > 0 => post[d].to = under[d]

\* A draft is queued for sending once, and again only after an answer to it
\* was lost.
NoDoubleReply == \A d \in Drafts : post[d].jobs <= 1 + post[d].unsure

\* A draft goes from a form that stays only when it is queued, or when it was
\* typed while the one before it was on its way.
DraftKept ==
    [][\A d \in Drafts :
          form.draft = d /\ form'.load = form.load /\ form'.draft = NoDraft
              => post'[d].jobs > 0 \/ form.posting \notin {NoDraft, d}]_inboxVars

\* The button is enabled again after every submission.
FormFreed == \A d \in Drafts : form.posting = d ~> form.posting # d
==============================================================================
