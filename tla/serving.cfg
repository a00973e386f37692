SPECIFICATION FairSpec
CONSTANTS
    Conns = {"c1", "c2"}
    Threads = {"t1"}
    Handshakes <- MCHandshakes
    PublicOrigin = "public"
    Launches <- MCLaunches
    Scripts <- MCScripts
    Deltas <- MCDeltas
    Failures = {"not_pending"}
    TitleMax = 3
    PlaceholderMax = 2
    MaxDeltas = 1
    MaxBoots = 1
INVARIANTS AnswersAreTrue 
 
CHECK_DEADLOCK FALSE
