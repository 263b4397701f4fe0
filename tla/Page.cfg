SPECIFICATION Spec
CONSTANTS
    messages = messages
    settings = settings
    Paths = {messages, settings}
    Navs = {1, 2, 3}
    Modals = {11, 12, 13, 14}
    Inboxes = {21, 22, 23}
    ModalsOn <- MCModalsOn
    InboxesOn <- MCInboxesOn
    Streams = {s1, s2}
INVARIANTS
    TypeOK
    LockFollowsModals
    NotifiedPerInbox
\* The elements that may connect are finitely many and run out.
CHECK_DEADLOCK FALSE
