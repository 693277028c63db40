CONSTANTS
    Listener = {pending, once, accounts}
    Pending = pending
    Once = once
    Loop = {p1, p2}
    MaxHeight = 2
    NoBlock = noBlock
    Tx = {t1, t2}
    Chain = {c1, c2}
    Nothing = nothing
    Handler = {h1, h2}
    MaxRetries = 2
    MaxSwitch = 1
SPECIFICATION Spec
INVARIANTS
    PendingIsPolled
PROPERTIES
    OncePerBlock
    SignedOnce
SYMMETRY Interchangeable
