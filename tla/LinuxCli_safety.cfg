SPECIFICATION Spec
CONSTANTS
    Procs = {p1, p2}
    Grants = {g1, g2}
    Devices = {d1, d2}
    Allocs = {a1, a2}
    DefaultAlloc = a1
    None = None
    Torn = Torn
SYMMETRY Symmetry
INVARIANTS
    TypeOK
    StateNamesCredential
    SecretIsStored
    AllocationIsKept
