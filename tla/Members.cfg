\* Three newcomers and the founder, two accounts to open, two requests at a time.
SPECIFICATION Spec
CONSTANTS
    User = {founder, u1, u2, u3}
    Founder = founder
    Account = {hq, a1, a2}
    HQ = hq
    Request = {r1, r2}
    None = None
    MaxUserCount = 2
SYMMETRY Alike
INVARIANTS
    Consistent
    OneHome
    LinkedRight
CHECK_DEADLOCK FALSE
