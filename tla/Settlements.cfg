\* One partner with one agreement, two requests in flight.
CONSTANTS
    Agreements = {a1}
    Amounts = {2}
    Scopes = {a1}
    Absences = {x1}
    Sessions = {s1, s2}
    Months = 2
    Cycle = 2
    Shares = {1}
    MaxClaims = 2
    MaxObligations = 2
    MaxSettlements = 1
    MaxRaces = 1
    a1 = a1
    x1 = x1
    s1 = s1
    s2 = s2
SPECIFICATION Spec
SYMMETRY Symmetry
INVARIANTS
    TypeOK
    ChargedOnce
PROPERTY SignaturesStand
CHECK_DEADLOCK FALSE
