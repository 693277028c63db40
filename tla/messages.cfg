CONSTANTS
    Seed = seed
    Imported = {}
    Submission = {s1}
    Persist = {p1}
    Nothing = nothing
    Origin = {o1}
    Call = {k1}
    Message = {m1}
    MaxSigning = 2
    Chain = {c1, c2}
    Loading = loading
    NoCall = noCall
    Lookup = {l1, l2, l3}
    MaxSwitch = 1
SPECIFICATION Spec
INVARIANTS
    TypeOK
    WaitingHasReason
    VersionIsSelected
SYMMETRY Interchangeable
