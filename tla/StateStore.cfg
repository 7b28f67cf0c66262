SPECIFICATION FairSpec
CONSTANTS
    daemon = daemon
    poll = poll
    NoProc = NoProc
    Procs <- MCProcs
PROPERTIES SavesKeepLineage NewerFileSurvives EvidencePreserved SaveBlockClears
