CONSTANTS
    Thread = {t1}
    AddrSpace = 64
    EA <- TwoBuffers
    Site = {s1, s2}
    JmpMax = 2
    MaxHeight = 3
    NoCtx = NoCtx
SPECIFICATION Spec
INVARIANTS TypeOK EntriesNest WrapperSplitsEntries LiveBufferArmed NeverWild
PROPERTIES ImplementsContract FirstJumpLands
CHECK_DEADLOCK FALSE
