\* Two overlapping requests, two year-and-types of two years with the centre's of each, one counter prepared before its transaction and one created in it, two semesters, requests begun while there are fewer than two audit rows.
SPECIFICATION FairSpec
CONSTANTS
    Sessions = {s1, s2}
    k1 = k1
    k2 = k2
    c1 = c1
    c2 = c2
    Keys = {k1, k2}
    Centres = {c1, c2}
    CentreOf <- TwoYears
    Books = {b1}
    Inline = {d1}
    Chain = chainrow
    MaxValue = 3
    MaxAttempts = 2
    MaxEvents = 2
    MaxSemesters = 2
    MaxUnused = 0
INVARIANTS
    TypeOK
    RegistersUnbroken
PROPERTIES
    TermsStand
    EveryRequestEnds
CHECK_DEADLOCK FALSE
