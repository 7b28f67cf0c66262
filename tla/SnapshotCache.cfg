SPECIFICATION FairSpec
CONSTANTS
    r1 = r1
    Requests <- MCRequests
    MaxGen = 3
    OperatorMidPass = FALSE
INVARIANTS UnchangedMeansLoaded 
PROPERTIES ImplementsServedFeed EventuallyFresh
