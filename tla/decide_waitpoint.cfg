SPECIFICATION FairSpec
CONSTANTS
    Proposals = {p1, p2}
    TickTick = {p1}
    Tasks = {t1, t2}
    Keys = {k1}
    NoKey = NoKey
    NoProposal = NoProposal
    Boot = Boot
    MaxParks = 1
    MaxCrashes = 1
    MaxFaults = 1
INVARIANTS TypeOK ExactlyOnce HonestOutcome CallCarriesDecision
PROPERTIES DecisionStands InFlightWriteNotStopped ResumedWithDecision ImplementsLifecycle WriteReachesModel
