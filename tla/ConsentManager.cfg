SPECIFICATION Spec
CONSTANTS
    b1 = b1
    Customers = {c1, c2}
    Businesses = {b1}
    Phones = {p1}
    BusinessOf <- MCBusinessOf
    Callers = {k1, k2, k3, k4}
    InitialStatuses = {"active"}
INVARIANTS
    TypeOK
    TimestampMatchesStatus
    EveryGrantedCallLogged
PROPERTY OptOutIsFinal
\* Every call has returned and nobody starts another.
CHECK_DEADLOCK FALSE
