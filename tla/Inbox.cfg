SPECIFICATION Spec
CONSTANTS
    Customers = {c1, c2}
    NoCustomer = NoCustomer
    Messages = {m1, m2}
    Loads = {l1, l2}
    NoLoad = NoLoad
    Drafts = {d1, d2}
    NoDraft = NoDraft
    BlankDrafts = {d2}
    MaxTries = 1
    Faults = {"cut"}
SYMMETRY MCSymmetry
INVARIANTS
    TypeOK
    ShownOnce
    WantedShown
    ReplyAsAddressed
PROPERTIES
    DraftKept
\* The messages, clicks and drafts are finitely many and run out.
CHECK_DEADLOCK FALSE
