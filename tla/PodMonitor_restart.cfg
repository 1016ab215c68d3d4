SPECIFICATION Spec
CONSTANTS
    Deployments = {1, 3}
    Jobs = {2}
    MaxPods = 2
    Slow = {3}
    Calls = {c1}
    MaxTrouble = 1
INVARIANT TypeOK
PROPERTIES
    OnlyCrashedPodsRestart
    CrashingPodRestarts
