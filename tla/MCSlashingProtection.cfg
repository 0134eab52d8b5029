SPECIFICATION Spec
CONSTANTS
    Keys = {k}
    Epochs <- MCEpochs
    Slots <- MCSlots
    Roots = {a, b}
    NoRoot = NoRoot
    SlotsPerEpoch = 2
    HistoryLimit = 1
    MaxRecords = 3
SYMMETRY MCSymmetry
INVARIANTS
    NeverSlashable
PROPERTY RespectsHistory
