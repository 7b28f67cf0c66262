SPECIFICATION FairSpec
CONSTANTS
    Daemon = daemon
    Polls = {p1}
    NoProc = noproc
    Lease = 2
INVARIANTS
    DemandStands
    WedgesReported
PROPERTIES
    ExitZeroIsEarned
    VerdictsTrue
    ShutdownEnds
