SPECIFICATION Spec
CONSTANTS
    Texts = {t1, t2}
    Handlers = {h1, h2}
    Losses = {"network", "crash"}
SYMMETRY MCSymmetry
INVARIANTS
    TypeOK
    ShownWasReported
    DetailsMatchOutcome
    TracksInOrder
\* Every text has its final status and every callback was served.
CHECK_DEADLOCK FALSE
