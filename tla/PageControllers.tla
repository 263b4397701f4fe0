--------------------------- MODULE PageControllers ---------------------------
(***************************************************************************)
(* The controllers that listen on the document: nav in the sidebar, modal  *)
(* and inbox in the content.  Turbo keeps the document while it replaces   *)
(* the body or the frame, so what disconnect does not take back stays.     *)
(***************************************************************************)
EXTENDS Naturals, FiniteSets

CONSTANTS
    Paths,               \* the pages
    Navs, Modals, Inboxes,  \* the elements that may get a controller, numbered
    ModalsOn, InboxesOn, \* how many of them the page of a path has
    Streams              \* stream elements that are rendered

ASSUME PageAssumption ==
    /\ Navs \cap (Modals \cup Inboxes) = {}
    /\ IsFiniteSet(Inboxes)

Elements == Navs \cup Modals \cup Inboxes

VARIABLES
    stream,     \* is the page subscribed to the business's messages?
    status,     \* of the controller of each element
    listeners,  \* the controllers that listen on the document
    open,       \* the modals that are not hidden
    locked,     \* does the body have overflow-hidden?
    permission, \* Notification.permission
    notified,   \* how many notifications each stream element caused
    heard,      \* history: what each stream element was, and who was told
    orphaned,   \* history: the modal that locked the body is gone
    stacked     \* history: one modal was closed while another stayed open

modalVars == <<open, locked, orphaned, stacked>>
inboxVars == <<permission, notified, heard>>
pageVars == <<stream, modalVars, inboxVars, status, listeners>>

Connected == {e \in Elements : status[e] = "connected"}
Fresh == {e \in Elements : status[e] = "new"}

Hearing == [kind : {"none", "inbound", "outbound", "empty"}, granted : BOOLEAN,
            inboxes : 0..Cardinality(Inboxes)]

TypeOK ==
    /\ stream \in BOOLEAN
    /\ status \in [Elements -> {"new", "connected", "gone"}]
    /\ listeners \subseteq Elements \ Fresh
    /\ open \subseteq Modals \cap Connected
    /\ locked \in BOOLEAN
    /\ permission \in {"default", "granted", "denied"}
    /\ notified \in [Streams -> 0..Cardinality(Inboxes)]
    /\ heard \in [Streams -> Hearing]
    /\ {orphaned, stacked} \subseteq BOOLEAN

\* Elements appear in the order of their numbers.
InOrder(W, S) == \A w \in W \cap S, e \in (Fresh \cap S) \ W : w < e

\* The elements a page of this path brings along.
ContentOf(p, W) ==
    /\ W \subseteq Fresh \cap (Modals \cup Inboxes)
    /\ Cardinality(W \cap Modals) = ModalsOn[p]
    /\ Cardinality(W \cap Inboxes) = InboxesOn[p]
    /\ InOrder(W, Modals) /\ InOrder(W, Inboxes)

\* The document before its first page.
Init ==
    /\ stream = FALSE
    /\ status = [e \in Elements |-> "new"]
    /\ listeners = {}
    /\ open = {}
    /\ locked = FALSE
    /\ permission = "default"
    /\ notified = [s \in Streams |-> 0]
    /\ heard = [s \in Streams |-> [kind |-> "none", granted |-> FALSE, inboxes |-> 0]]
    /\ orphaned = FALSE /\ stacked = FALSE

------------------------------------------------------------------------------
(* Connecting and disconnecting *)

\* Only modal removes the function it added: the others remove a new one.
TakenBack(old) == old \cap Modals

\* Mutant: a modal that is replaced still counts as open.
SwapKeepsOpen(old, new) ==
    /\ status' = [e \in Elements |-> IF e \in old THEN "gone"
                                     ELSE IF e \in new THEN "connected" ELSE status[e]]
    /\ listeners' = (listeners \ TakenBack(old)) \cup new
    /\ open' = open

Swap(old, new) ==
    /\ status' = [e \in Elements |-> IF e \in old THEN "gone"
                                     ELSE IF e \in new THEN "connected" ELSE status[e]]
    /\ listeners' = (listeners \ TakenBack(old)) \cup new
    /\ open' = open \ old

\* A visit replaces the body.
Visit(p, n, W) ==
    /\ n \in Fresh \cap Navs /\ InOrder({n}, Navs)
    /\ ContentOf(p, W)
    /\ stream' = (InboxesOn[p] > 0)
    /\ Swap(Connected, {n} \cup W)
    /\ locked' = FALSE
    /\ orphaned' = FALSE /\ stacked' = FALSE
    /\ UNCHANGED inboxVars

\* A nav link replaces the content of the frame.
FrameVisit(p, W) ==
    /\ Connected \cap Navs # {}
    /\ ContentOf(p, W)
    /\ stream' = FALSE
    /\ Swap(Connected \ Navs, W)
    /\ orphaned' = (orphaned \/ (locked /\ open # {}))
    /\ UNCHANGED <<locked, stacked, inboxVars>>

------------------------------------------------------------------------------
(* modal_controller.js *)

Open(w) ==
    /\ w \in Connected \cap Modals
    /\ open' = open \cup {w}
    /\ locked' = TRUE
    /\ stacked' = FALSE
    /\ UNCHANGED <<stream, inboxVars, status, listeners, orphaned>>

\* Mutant: the body stays as it is.
CloseOnly(w) ==
    /\ w \in open
    /\ open' = open \ {w}
    /\ stacked' = (open' # {})
    /\ orphaned' = FALSE
    /\ UNCHANGED <<stream, inboxVars, status, listeners, locked>>

\* By its button, or by a click on the backdrop itself.
Close(w) ==
    /\ w \in open
    /\ open' = open \ {w}
    /\ locked' = FALSE
    /\ stacked' = (open' # {})
    /\ orphaned' = FALSE
    /\ UNCHANGED <<stream, inboxVars, status, listeners>>

\* Every modal that listens closes if it is open.
Escape ==
    /\ listeners \cap open # {}
    /\ open' = open \ listeners
    /\ locked' = FALSE
    /\ stacked' = FALSE /\ orphaned' = FALSE
    /\ UNCHANGED <<stream, inboxVars, status, listeners>>

------------------------------------------------------------------------------
(* inbox_controller.js *)

\* connect asked for the permission; the user answers the browser.
AnswerPrompt(answer) ==
    /\ permission = "default"
    /\ listeners \cap Inboxes # {}
    /\ permission' = answer
    /\ UNCHANGED <<stream, modalVars, status, listeners, notified, heard>>

\* showNotification looks at the permission each time.
MayNotify == permission = "granted"

Hears(s, kind) ==
    heard' = [heard EXCEPT ![s] = [kind |-> kind, granted |-> MayNotify,
                                   inboxes |-> Cardinality(Inboxes \ Fresh)]]

\* Mutant: outbound messages are notified of too.
RenderAny(s, kind) ==
    /\ stream
    /\ heard[s].kind = "none"
    /\ notified' = [notified EXCEPT ![s] =
                       IF kind # "empty" /\ MayNotify
                       THEN Cardinality(listeners \cap Inboxes) ELSE 0]
    /\ Hears(s, kind)
    /\ UNCHANGED <<stream, modalVars, status, listeners, permission>>

\* handleNewMessage, in every inbox that listens.
RenderStream(s, kind) ==
    /\ stream
    /\ heard[s].kind = "none"
    /\ notified' = [notified EXCEPT ![s] =
                       IF kind = "inbound" /\ MayNotify
                       THEN Cardinality(listeners \cap Inboxes) ELSE 0]
    /\ Hears(s, kind)
    /\ UNCHANGED <<stream, modalVars, status, listeners, permission>>

------------------------------------------------------------------------------
Next ==
    \/ \E p \in Paths, W \in SUBSET (Modals \cup Inboxes) :
            FrameVisit(p, W) \/ \E n \in Navs : Visit(p, n, W)
    \/ \E w \in Modals : Open(w) \/ Close(w)
    \/ Escape
    \/ \E answer \in {"granted", "denied"} : AnswerPrompt(answer)
    \/ \E s \in Streams, kind \in {"inbound", "outbound", "empty"} : RenderStream(s, kind)

Spec == Init /\ [][Next]_pageVars

------------------------------------------------------------------------------
\* The body is locked while a modal is open and only then, but for two cases:
\* the open modal was replaced by another content of the frame, or one modal
\* was closed over another.
LockFollowsModals ==
    /\ locked => open # {} \/ orphaned
    /\ open # {} => locked \/ stacked

\* An inbound message is notified of if the browser may, and nothing else is.
\* Inboxes that were replaced go on listening: there are up to as many
\* notifications as inboxes the document has had, so one on the first visit.
NotifiedPerInbox ==
    \A s \in Streams :
        IF heard[s].kind = "inbound" /\ heard[s].granted
        THEN notified[s] \in 1..heard[s].inboxes
        ELSE notified[s] = 0
==============================================================================
