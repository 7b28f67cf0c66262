SPECIFICATION Spec
CONSTANTS
    r1 = r1
    Requests = {}
    MaxGen = 3
    OperatorMidPass = TRUE
INVARIANT UnchangedMeansLoaded
