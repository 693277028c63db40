CONSTANTS
    NumTx = 1
    Account = {a1}
    Chain = {c1, c2}
    Window = {w1}
    Original = original
    NoTx = noTx
    NoNonce = noNonce
    NoAccount = noAccount
    HistoryLimit = 2
    Handler = {h1}
    CustomNonces = {}
    MaxNonce = 0
    MaxReplace = 0
    MaxSwitch = 1
    MaxCrash = 0
    Global = global
SPECIFICATION Spec
PROPERTIES
    FailedIsNotSubmitted
