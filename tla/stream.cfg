SPECIFICATION Spec
CONSTANTS
    Subs = {s1}
    Activators = {a1}
    Canceller = Canceller
    Free = Free
    MaxGen = 3
    MaxText = 2
    Buffer = 1
    MaxFaults = 1
    MaxCrashes = 0
 
PROPERTIES  CancelSilences
