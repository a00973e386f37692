SPECIFICATION SpecPayloads
CONSTANTS
    Epochs <- MCEpochs
    Span = 70
    RequestDay = 20084
    Composable <- MCComposable
    BackwardsNode = FALSE
INVARIANTS EditableAsStored  DatesAreRight
CHECK_DEADLOCK FALSE
