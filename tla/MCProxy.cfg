SPECIFICATION Spec
CONSTANTS
    Legs = {c1, c2, c3}
    Sessions = {s1, s2, s3, s4, s5, s6}
    None = None
SYMMETRY Symmetry
INVARIANTS
    LegsEndTogether
    OrphansRing
PROPERTIES
    ActsOnItsOwnCall
