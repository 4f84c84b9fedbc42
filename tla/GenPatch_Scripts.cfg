CONSTANTS
    lz = lz
    lz2 = lz2
    lj = lj
    leaf = leaf
    Func <- SmallFunc
    NChunk = 2
    ChunkOf <- SmallChunkOf
    Arming = {lz, lz2}
    LongJmp = lj
    Window <- SmallWindow
SPECIFICATION Spec
INVARIANTS TypeOK EditsOnce OneWrapper GuardedUnlessProbed SuccessMeansPatched
