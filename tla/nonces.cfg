CONSTANTS
    MaxNonce = 3
    NoNonce = noNonce
SPECIFICATION Spec
INVARIANTS
    NextNonceIsFree
    NextNonceLeavesNoGap
    ContinuousIsTheLoop
