SPECIFICATION FairSpec
CONSTANTS
    b1 = b1
    b2 = b2
    c2 = c2
    Customers = {c1}
    Businesses = {b1}
    Phones = {p1}
    BusinessOf <- MCOneBusiness
    Jobs = {j1, j2}
    Requests = {r1, r2}
    NoCustomer = NoCustomer
    WorkerThreads = 1
    MaxAttempts = 2
    OutBodies = {"text"}
    InBodies = {"stop"}
    Numbered = {b1}
    Faults = {}
INVARIANTS
    SingleDelivery
    TextsOnRecord
PROPERTIES
    StopTakesEffect
    OutcomeShown
\* The customers, jobs and requests are finitely many and run out.
CHECK_DEADLOCK FALSE
