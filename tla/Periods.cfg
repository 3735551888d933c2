\* Two periods, an expense, a receipt, at most three rows, two overlapping requests, three days.
SPECIFICATION PeriodsSpec
CONSTANTS
    Staff = {u1, u2}
    LastDay = 3
    Workers = {s1, s2}
    MaxPeriods = 2
    MaxExpenses = 2
    MaxReceipts = 2
    MaxRows = 3
SYMMETRY Interchangeable
INVARIANTS
    PeriodsTypeOK
PROPERTIES
    MonthStaysSigned
    SignaturesStand
CHECK_DEADLOCK FALSE
