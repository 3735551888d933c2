\* One programme, three agreements of one partner, a cohort, two overlapping requests, three days.
SPECIFICATION Spec
CONSTANTS
    Programs = {dip}
    Partners = {firm}
    LastDay = 3
    Sessions = {s1, s2}
    MaxAgreements = 3
    MaxCohorts = 1
    MaxRows = 3
    MaxDoubled = 1
SYMMETRY Interchangeable
INVARIANTS
    TypeOK
    OffersStand
PROPERTY StaysPartnered
CHECK_DEADLOCK FALSE
