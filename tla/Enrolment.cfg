\* One enrolment whose course costs one unit, two requests in flight.
CONSTANTS
    Tuition = 1
    Sessions = {s1, s2}
    MaxReceipts = 2
    MaxLines = 2
    MaxClearances = 1
    MaxCertificates = 2
    MaxRaces = 1
    s1 = s1
    s2 = s2
SPECIFICATION Spec
SYMMETRY Symmetry
INVARIANTS
    TypeOK
    StandsOnMoney
    PapersTellTruth
PROPERTY FinalStaysFinal
CHECK_DEADLOCK FALSE
