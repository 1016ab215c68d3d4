SPECIFICATION Spec
CONSTANTS
    Setups = {s1, s2}
    Followed = {"monitor", "ngrok"}
    MaxPods = 1
    MaxChanges = 1
SYMMETRY Symmetry
INVARIANTS
    TypeOK
    NeedsComeFirst
    StackIsOneDevice
    ImagesAreCurrent
