SPECIFICATION Spec
CONSTANTS
    b1 = b1
    b2 = b2
    c2 = c2
    Customers = {c1}
    Businesses = {b1}
    Phones = {p1}
    BusinessOf <- MCOneBusiness
    Jobs = {j1, j2, j3}
    Requests = {r1}
    NoCustomer = NoCustomer
    WorkerThreads = 2
    MaxAttempts = 2
    OutBodies = {"text"}
    InBodies = {"stop"}
    Numbered = {b1}
    Faults = {"shutdown"}
SYMMETRY MCSymmetry
INVARIANTS
    LeakBounded
PROPERTIES
    GateSpec
\* The customers, jobs and requests are finitely many and run out.
CHECK_DEADLOCK FALSE
