\* Two cohorts, two files, two seats, two overlapping requests, two days.
SPECIFICATION Spec
CONSTANTS
    Participants = {ann, ben}
    LastDay = 2
    Deadlines = {1}
    Sessions = {s1, s2}
    MaxCohorts = 2
    MaxFiles = 2
    MaxEnrolments = 2
    MaxRows = 4
    MaxRewritten = 1
SYMMETRY Interchangeable
INVARIANTS
    TypeOK
    AgreesWithMinistry
PROPERTY FinishedStays
CHECK_DEADLOCK FALSE
