\* A page opened at most twice, two scans of its code by three people, restarts.
SPECIFICATION LoginSpec
CONSTANTS
    Person = {owner, pupil, stranger}
    Owners = {owner}
    Pupils = {pupil}
    m1 = m1
    m2 = m2
    Phone = {m1, m2}
    s1 = s1
    s2 = s2
    Scan = {s1, s2}
    Nobody = Nobody
    MaxInits = 2
CONSTRAINT NamesInOrder
INVARIANTS
    LoginConsistent
PROPERTIES
    LiveEntryKept
    BothAnswered
CHECK_DEADLOCK FALSE
