\* Two keys typed, one resize, two screens opened.
CONSTANTS
    MaxKeys = 2
    MaxResizes = 1
    MaxPushes = 2
SPECIFICATION Spec
INVARIANTS TypeOK MutualExclusion NoLostWakeup KeysInOrder NeverEmpty
PROPERTIES KeysGetThrough ShutdownCompletes
CHECK_DEADLOCK FALSE
