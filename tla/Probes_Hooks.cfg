CONSTANTS
    Thread = {t1, t2}
    NoThread = NoThread
    Top = 16
    MaxBlocks = 2
    OwnerMax = 2
    ArmAt = 1
    NoteBlock <- AnyNote
    ArenaLo = 8
    ArenaHi = 24
    HopMax = 2
    Buckets = 2
    Rows <- AnyRows
    Builds <- AnyBuild
    Fn <- AnyFn
    BlockOf <- AnyBlock
    Lists <- AnyList
SPECIFICATION Spec
INVARIANTS TypeOK FoundExactly OwnersWhole QuietOnlyWhenSpent DumpNotSkipped UnmatchedNamesStuck WindowsTrue
PROPERTIES BracketRight WalkAdvances LockReleased
CHECK_DEADLOCK FALSE
