CONSTANTS
    NumTx = 2
    Account = {a1}
    Chain = {c1}
    Window = {w1}
    Original = original
    NoTx = noTx
    NoNonce = noNonce
    NoAccount = noAccount
    HistoryLimit = 1
    Handler = {h1}
    CustomNonces = {0}
    MaxNonce = 1
    MaxReplace = 1
    MaxSwitch = 0
    MaxCrash = 0
    Global = global
SPECIFICATION Spec
INVARIANTS
    
    DroppedHasConfirmedTwin
