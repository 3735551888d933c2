\* One programme, two lists in two semesters, two days, an enrolment, two overlapping requests.
SPECIFICATION CatalogueSpec
CONSTANTS
    Levels = {dip}
    Semesters = {sem1, sem2}
    Fees = {1}
    LastPriceDay = 2
    Workers = {s1, s2}
    MaxLists = 2
    MaxQuotes = 1
    MaxOverwritten = 1
SYMMETRY Interchangeable
INVARIANTS
    CatalogueTypeOK
    QuotesStand
PROPERTY PricesStayInForce
CHECK_DEADLOCK FALSE
