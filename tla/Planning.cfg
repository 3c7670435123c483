SPECIFICATION FairSpec
CONSTANTS
    r1 = r1
    r2 = r2
    r3 = r3
    Request <- MCRequest
    Duties <- MCDuties
    Nobody = Nobody
CONSTRAINT NamesInOrder
INVARIANTS
    Consistent
    FreshReport
PROPERTIES
    EverythingEnds
CHECK_DEADLOCK FALSE
