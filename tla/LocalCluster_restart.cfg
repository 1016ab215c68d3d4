SPECIFICATION FairSpec
CONSTANTS
    Calls = {c1}
    Allocs = {a1, a2}
    MaxVMs = 2
    NoVM = NoVM
INVARIANTS
    SizeIsAllocation
PROPERTIES
    StoppedVMRestarts
