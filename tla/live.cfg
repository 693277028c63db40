CONSTANTS
    NumTx = 2
    Account = {a1}
    Chain = {c1}
    Window = {w1}
    Original = original
    NoTx = noTx
    NoNonce = noNonce
    NoAccount = noAccount
    HistoryLimit = 2
    Handler = {h1}
    CustomNonces = {}
    MaxNonce = 0
    MaxReplace = 0
    MaxSwitch = 0
    MaxCrash = 0
    Global = global
SPECIFICATION FairSpec
PROPERTIES
    ApprovalEnds
    CheckEnds
    ApprovedIsAnswered
