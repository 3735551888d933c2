\* Two overlapping requests at one till on one day.
SPECIFICATION Spec
CONSTANTS
    r1 = r1
    r2 = r2
    Receipts = {r1, r2}
    Amount <- MCAmount
    Refs = {x1, x2}
    Cashier = c
    Clerks = {c, f}
    Deciders = {f}
    Signers = {c, f}
    Gaps = {0, 1}
    VouchersRequired = TRUE
    Sessions = {s1, s2}
    None = None
SYMMETRY Interchangeable
INVARIANTS
    TypeOK
    VoidsAreDecided
    ClosingStands
PROPERTIES
    WrittenForGood
