CONSTANTS
    Page <- TitlePages
    Touched <- BusyPages
    Segment <- TitleSegments
    EntryPage = 249
    PmPage = 244
    Main = Main
    Worker = {w}
    Sampler = Sampler
    NoPage = NoPage
    Nobody = Nobody
    SayMax = 2
    Table <- Functions
    EntryPoint <- Entries
    Word <- Words
SPECIFICATION Spec
INVARIANTS TypeOK ExitsClean
PROPERTIES EntryReady SearchesFind MemoryIsFlat AccessCompletes
CHECK_DEADLOCK FALSE
