SPECIFICATION SpecLibrary
CONSTANTS
    Writers = {w1, w2}
    NameSets <- MCNames
    Days = {1, 2}
    FirstRuns <- MCRuns
    Start <- MCStart
    Hints = {2}
    Batches <- MCBatches
    Corrections <- MCCorrections
    MaxRuns = 3
    MaxWrites = 2
    MaxTime = 1
    SearchLimit = 1
    MaxNear = 1
SYMMETRY WriterSymmetry
INVARIANTS ReadsAreFaithful RowsAreReadable
PROPERTIES OriginStays
CHECK_DEADLOCK FALSE
