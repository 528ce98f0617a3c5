SPECIFICATION FairSpec
CONSTANTS
    c1 = c1
    c2 = c2
    c3 = c3
    c4 = c4
    a1 = a1
    a2 = a2
    None = None
    Error = Error
    Calls <- FourCalls
    Answers <- TwoAnswers
INVARIANTS
    OneLookup
    ErrorIsOwn
PROPERTIES
    EveryCallReturns
    KeepsPromise
