CONSTANTS
    Params = {p1, p2}
    Call = {c1, c2, c3}
    Estimate = {e1}
    Nothing = nothing
SPECIFICATION FairSpec
INVARIANTS
    OneTimer
    PollsAreLimited
    QuotesMatchParams
    BailIsSafe
    RefetchNeverFires
    PageGetsQuotes
PROPERTIES
    PollingEnds
    LoadingEnds
