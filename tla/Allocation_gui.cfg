SPECIFICATION Spec
CONSTANTS
    Cpus = {4, 20}
    Memories = {14, 20}
    Storages = {22, 90, 110}
    Calls = {c1, c2}
INVARIANTS
    TypeOK
    DefaultIsHalf
    AllocationFits
    SliderShowsSaved
    CloudKnowsSaved
