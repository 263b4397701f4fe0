SPECIFICATION FairSpec
CONSTANTS
    Appts = {a1}
    NoAppt = NoAppt
    Starts = {4}
    StatusChoices = {"scheduled", "cancelled"}
    HoursChoices = {1, NoHours}
    NoHours = NoHours
    DefaultHours = 2
    Places = {hall, NoLocation}
    MaxEdits = 1
    Numbers = {x1}
    Locations = {hall}
    NoLocation = NoLocation
    DefaultNumber = DefaultNumber
    Hour = 1
    MaxTime = 4
    Jobs = {j1, j2}
    Followed = {j1}
    MaxRuns = 1
INVARIANTS
    TypeOK
    MissedOnlyByGap
    RemindedInHour
PROPERTIES
    SentFromGranted
    
\* The clock, the changes and the jobs run out.
CHECK_DEADLOCK FALSE
