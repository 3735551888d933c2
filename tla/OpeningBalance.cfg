\* Two overlapping requests on one old balance.
SPECIFICATION BalanceSpec
CONSTANTS
    Balances = {b1}
    SourceRows = {h1}
    Enrollments = {e1, e2}
    LaterEnrollments = {e2}
    u1 = u1
    u2 = u2
    u3 = u3
    Officers <- MCOfficers
    Managers <- MCManagers
    Callers = {s1, s2}
    MaxPayouts = 2
    None = None
SYMMETRY Interchangeable
INVARIANTS
    BalanceTypeOK
    SeparationOfDuties
    BilledIsPosted
    PostedOnceUnlessRaced
    CashMatchesStatus
PROPERTIES
    GivesEffectOnce
