CONSTANTS
    TickMs = 4
    SleepMs = 1
    MaxTicks = 3
    Wakes <- ScaledWakes
    Stalls <- ScaledStalls
    MaxLag = 20
    MaxFifo = 2
SPECIFICATION Spec
INVARIANTS TypeOK BacklogCleared
PROPERTIES FlipCompletes FifoDrains FlipPresented
CHECK_DEADLOCK FALSE
