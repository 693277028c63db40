CONSTANTS
    NumTx = 1
    Account = {a1}
    Chain = {c1, c2}
    Window = {w1, w2}
    Original = original
    NoTx = noTx
    NoNonce = noNonce
    NoAccount = noAccount
    HistoryLimit = 1
    Handler = {h1}
    CustomNonces = {}
    MaxNonce = 1
    MaxReplace = 0
    MaxSwitch = 1
    MaxCrash = 1
    Global = global
SPECIFICATION Spec
INVARIANTS
    NonceLockDiscipline
    
    SentAsAnswered
CONSTRAINT MiningOrSaving
SYMMETRY Interchangeable
