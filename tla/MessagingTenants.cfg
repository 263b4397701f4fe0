SPECIFICATION Spec
CONSTANTS
    b1 = b1
    b2 = b2
    c2 = c2
    Customers = {c1, c2}
    Businesses = {b1, b2}
    Phones = {p1, p2}
    BusinessOf <- MCTwoBusinesses
    Jobs = {j1}
    Requests = {r1, r2}
    NoCustomer = NoCustomer
    WorkerThreads = 1
    MaxAttempts = 1
    OutBodies = {"text"}
    InBodies = {"stop"}
    Numbered = {b1}
    Faults = {}
SYMMETRY MCSymmetryRequests
INVARIANTS
    StopHonoured
    AuditTrailAgrees
PROPERTIES
    OptOutIsFinal
\* The customers, jobs and requests are finitely many and run out.
CHECK_DEADLOCK FALSE
