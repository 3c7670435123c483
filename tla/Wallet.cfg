SPECIFICATION Spec
CONSTANTS
    Withdraw = {w1, w2}
    InventoryOrder = {o1, o2}
    Method = {m1}
    Card = {c1, c2}
    DELETED = DELETED
    Session = {s1, s2}
    Opening <- MCOpening
    UnitPrice = 3
    Amounts = {1}
    Quantities = {1, 2}
    Moves <- MCMoves
    MaxMoves = 1
    MaxCalls = 3
    NULL = NULL
SYMMETRY Symmetry
CONSTRAINT CardsApart
INVARIANTS
    WalletConsistent
    LedgerMatches
    WithdrawalsSound
PROPERTIES
    OnlyMovesUncover
