SPECIFICATION Spec
CONSTANTS
    Proposals = {p1, p2}
    TickTick = {p1,p2}
    Tasks = {t1, t2}
    Keys = {k1}
    NoKey = NoKey
    NoProposal = NoProposal
    Boot = Boot
    MaxParks = 2
    MaxCrashes = 0
    MaxFaults = 0
PROPERTIES ResumedWithDecision
SYMMETRY TaskSymmetry
