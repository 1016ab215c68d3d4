SPECIFICATION Spec
CONSTANTS
    Grants = {g1, g2}
    Devices = {d1, d2}
    Allocs = {small}
    DefaultAlloc = small
    Calls = {c1, c2}
    Operations <- UnlikeCalls
    None = None
    Torn = Torn
    Garbled = Garbled
SYMMETRY Symmetry
INVARIANTS
    TypeOK
    SingleLoginFlow
    SessionIsPaired
    SecretIsPaired
    DiskForgetsWithMemory
PROPERTIES
    UninvitedLogoutNeedsTwoLogins
    RestartKeepsOnlyLogin
