SPECIFICATION SpecConversation
CONSTANTS
    Threads = {1}
    Runs = {1, 2}
    Media = {m1}
    Prompt = p
    Word = w
    MaxNow = 1
    MaxSteps = 3
    Verdicts = {"accepted"}
    Results = {"completed"}
    MaxText = 1
    MaxRedrives = 1
    MaxCrashes = 1
INVARIANTS ManifestIsFaithful ShownIsTrue
PROPERTIES EndedTextStands
CHECK_DEADLOCK FALSE
