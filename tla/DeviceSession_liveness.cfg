SPECIFICATION FairSpec
CONSTANTS
    Grants = {g1, g2}
    Devices = {d1}
    Allocs = {small}
    DefaultAlloc = small
    Calls = {c1}
    Operations <- WritingCalls
    None = None
    Torn = Torn
    Garbled = Garbled
PROPERTIES
    RevokedCredentialIsDropped
