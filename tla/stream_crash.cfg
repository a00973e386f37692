SPECIFICATION FairSpec
CONSTANTS
    Subs = {s1}
    Activators = {a1, a2}
    Canceller = Canceller
    Free = Free
    MaxGen = 2
    MaxText = 1
    Buffer = 1
    MaxFaults = 3
    MaxCrashes = 1
INVARIANTS RunningIsReachable
PROPERTIES SubscribersAreTold SlotFrees
CHECK_DEADLOCK FALSE
