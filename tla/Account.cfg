\* One enrolment, two overlapping requests.
SPECIFICATION Spec
CONSTANTS
    Quote <- MCQuote
    FirstMinimum = 2
    Payments = {1, 5}
    Fees <- MCFees
    Discounts = {1}
    OldCredit = 1
    Refunds = {2}
    Deductions = {1}
    Years = {y1, y2}
    Sessions = {s1, s2}
    MaxMovements = 3
SYMMETRY Interchangeable
INVARIANTS
    TypeOK
    LedgerAddsUp
    SettlementsStand
PROPERTIES
    MovementsStand
CHECK_DEADLOCK FALSE
