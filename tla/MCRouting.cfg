SPECIFICATION Spec
CONSTANTS
    a = a
    b = b
    Calls = {a, b}
    Channels = {c1, c2}
    Scripts <- MCScripts
    MaxOffers <- MCMaxOffers
    MaxNet = 5
    None = None
SYMMETRY Symmetry
INVARIANTS
    RingsForItsInvite
    NoCallTwice
    OfferedAgainOnlyIfAccepted
PROPERTIES
    NoCrossTalk
CHECK_DEADLOCK FALSE
