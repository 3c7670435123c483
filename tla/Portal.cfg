\* Two newcomers and the founder, two accounts to open, one request at a time.
SPECIFICATION PortalSpec
CONSTANTS
    User = {founder, u1, u2}
    Founder = founder
    Account = {hq, a1, a2}
    HQ = hq
    Request = {r1}
    Order = {o1}
    Privilege = {"HQ", "AGENT", "STUDENT", "settings", "orders"}
    Allowed <- MCAllowed
    Denied <- MCDenied
    None = None
    MaxUserCount = 2
SYMMETRY Alike
CONSTRAINT Apart
INVARIANTS
    PortalConsistent
    ActsAsMember
    OrdersAttributed
CHECK_DEADLOCK FALSE
