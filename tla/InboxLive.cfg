SPECIFICATION FairSpec
CONSTANTS
    Customers = {c1}
    NoCustomer = NoCustomer
    Messages = {m1, m2}
    Loads = {l1, l2}
    NoLoad = NoLoad
    Drafts = {d1}
    NoDraft = NoDraft
    BlankDrafts = {}
    MaxTries = 2
    Faults = {"cut"}
INVARIANTS
    NoDoubleReply
PROPERTIES
    FormFreed
    ClickAnswered
    NewsArrive
\* The messages, clicks and drafts are finitely many and run out.
CHECK_DEADLOCK FALSE
