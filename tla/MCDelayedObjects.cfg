SPECIFICATION FairSpec
CONSTANTS
    Info <- MCInfo
    Ancestors <- MCAncestors
    Columns = {1, 2, 3}
    NumberOfColumns = 4
    SyncWithoutReconstruction = FALSE
    Scenarios <- MCScenarios
    SlotsPerEpoch = 2
    MaxFutureSlots = 1
    MaxPerSlot = 1
    MaxUntilParent = 1
    MaxPrunes = 1
    MaxFailures = 1
INVARIANTS
    NothingWaitsInVain
    ImportedHasDataOrPromise
    RejectedAreInvalid
PROPERTIES
    RetriesEnd
    CompleteIsDecided
CHECK_DEADLOCK FALSE
