CONSTANTS
    Thread = {t1}
    AddrSpace = 64
    EA <- OneBuffer
    Site = {s1}
    JmpMax = 2
    MaxHeight = 2
    NoCtx = NoCtx
SPECIFICATION Spec
INVARIANT NeverLost
