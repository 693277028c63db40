CONSTANTS
    Seed = seed
    Imported = {imp}
    Submission = {s1, s2}
    Persist = {p1, p2}
    Nothing = nothing
    Origin = {o1}
    Call = {k1, k2}
    Message = {}
    MaxSigning = 1
    Chain = {c1}
    Loading = loading
    NoCall = noCall
    Lookup = {}
    MaxSwitch = 0
SPECIFICATION Spec
INVARIANTS
    SeedIsKept
    LockedHasNoSeed
    WaitersAreReleased
PROPERTIES
    UnexpectedIsExplained
SYMMETRY Interchangeable
