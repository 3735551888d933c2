\* One participant, two courses, two overlapping forms.
SPECIFICATION TransferSpec
CONSTANTS
    short = short
    dear = dear
    Cohorts = {short, dear}
    Price <- MCPrice
    Category <- MCCategory
    Registration = 1
    Payments = {3}
    Desks = {d1, d2}
    MaxSeats = 3
    MaxTransfers = 2
    MaxReceipts = 1
    MaxRefunds = 1
    MaxClaims = 1
    MaxRaces = 1
SYMMETRY Interchangeable
INVARIANTS
    TransferTypeOK
    MovedWhole
PROPERTY DecisionStands
CHECK_DEADLOCK FALSE
