SPECIFICATION Spec
CONSTANTS
    a1 = a1
    n1 = n1
    n2 = n2
    Account = {a1, n1, n2}
    HeadQuarter = HeadQuarter
    Opening <- MCOpening
    Earlier <- MCEarlier
    Session = {s1, s2}
    Invited = {"LV2_AGENT", "HQ_AGENT"}
    Offered = {"HQ_AGENT"}
    MaxOrders = 2
    MaxEdits = 1
    DirectAward <- MCDirectAward
    AwardX <- MCAwardX
    AwardMod <- MCAwardMod
    Extension <- MCExtension
    ExtensionLevel = 1
    NULL = NULL
SYMMETRY Symmetry
CONSTRAINT OneBesideEditor
INVARIANTS
    FranchiseConsistent
    AwardsSound
PROPERTIES
    AwardsTelescope
CHECK_DEADLOCK FALSE
