SPECIFICATION Spec
CONSTANTS
    WindowSize = 3
    SeqModulus = 5
    MaxFrames = 7
    MaxEpoch = 2
CHECK_DEADLOCK FALSE
INVARIANT NoReplay
