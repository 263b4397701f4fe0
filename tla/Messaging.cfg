SPECIFICATION Spec
CONSTANTS
    b1 = b1
    b2 = b2
    c2 = c2
    Customers = {c1}
    Businesses = {b1}
    Phones = {p1, p2}
    BusinessOf <- MCOneBusiness
    Jobs = {j1, j2}
    Requests = {r1}
    NoCustomer = NoCustomer
    WorkerThreads = 1
    MaxAttempts = 2
    OutBodies = {"text", "blank"}
    InBodies = {"stop", "help", "text", "blank"}
    Numbered = {b1}
    Faults = {"shutdown", "crash", "no_answer", "appointment_deleted"}
SYMMETRY MCSymmetry
INVARIANTS
    TypeOK
    SkippedForGood
    RowsAreTrue
    FinishedOnRecord
\* The customers, jobs and requests are finitely many and run out.
CHECK_DEADLOCK FALSE
