CONSTANTS
    Calls = {c1, c2}
    Closers = {c2}
    Length = 1
SPECIFICATION FairSpec
INVARIANTS
    ProviderUsesLiveMemory
    ResultIsOutcome
PROPERTIES
    TimedCallsReturn
    CompletedCallsReturn
