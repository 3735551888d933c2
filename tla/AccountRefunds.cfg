\* One request at a time.
SPECIFICATION Spec
CONSTANTS
    Quote <- MCQuoteRegistered
    FirstMinimum = 0
    Payments = {3}
    Fees = {}
    Discounts = {1}
    OldCredit = 0
    Refunds = {1, 2}
    Deductions = {0}
    Years = {y1}
    Sessions = {s1}
    MaxMovements = 5
INVARIANTS
    RefundMirrorsAllocation
CHECK_DEADLOCK FALSE
