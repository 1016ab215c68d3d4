SPECIFICATION Spec
CONSTANTS
    Calls = {c1, c2}
    Allocs = {a1}
    MaxVMs = 2
    NoVM = NoVM
SYMMETRY Symmetry
INVARIANTS
    TypeOK
    EntryIsCurrent
    GVisorActive
