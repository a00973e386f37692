SPECIFICATION FairSpec
CONSTANTS
    External = {e1}
    Internal = {i1}
    Proposal = {p1}
    NoCall = NoCall
    MaxFaults = 2
    MaxCrashes = 1
INVARIANTS ClientsAgree RecordedFirst NothingUntold
PROPERTIES WorkerReleased
CHECK_DEADLOCK FALSE
