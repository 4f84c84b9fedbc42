------------------------------- MODULE MCProbes -------------------------------
\* The hooks for TLC: every function with a counted line wrapped on its own, and the
\* sets of functions whose hooks share something wrapped together.  Limits above two
\* are scaled to two, the tables to two entries, the heap to two chains of one
\* node between 8 and 24, addresses to 16.
EXTENDS Probes, TLC

AnyRows == {[r EXCEPT !.limit = IF @ > 2 THEN 2 ELSE @] : r \in AllRows}

Heap(a, b, end, next) ==
    [head |-> [k \in 1..2 |-> IF k = 1 THEN a ELSE b], end |-> end, next |-> next]
Empty == Heap(0, 0, 8 :> 12, 8 :> 0)
AnyList ==
    {Empty,
     Heap(8, 0, 8 :> 12, 8 :> 8),    \* a circle
     Heap(8, 8, 8 :> 12, 8 :> 24)}   \* a successor past the arena, on two chains

\* Three calls or lines a run, two where the free list changes; the allocator calls no
\* wrapped function.
Build(fns, levels, canaries, states) ==
    [wrapped |-> fns, level |-> levels, canary |-> canaries, list |-> states,
     calls |-> IF states = {Empty} THEN 3 ELSE 2,
     depth |-> IF Allocator \in fns THEN 1 ELSE 2]

Plain(fns) == Build(fns, {0}, {FALSE}, {Empty})

Single == {Plain({f}) : f \in UNION {r.who : r \in AllRows} \ Bracketed}
Sharing == {Plain({Drain, "0091B480"}),      \* the drain window
            Plain({FsInit, "00013C98"}),     \* the setup's window
            Plain({Pump, "009FF5B0"}),       \* the pump's window
            Plain({"00916DD0", "00954200"}), \* the handler object
            Build({"006C2D5C"}, {0}, {FALSE}, AnyList \ {Empty})}  \* the bracket
Watching == {Build({"006A4400"}, {1}, {FALSE}, {Empty}),    \* a line of the watch's own
             Build({"00937EF0"}, {1}, {FALSE}, {Empty}),    \* the overlap table
             Build({"00947A68"}, {0, 1}, {TRUE}, {Empty})}  \* the canary

\* Both suspects of the bracket, one calling the other.
Suspects == {Build({"006A4400", "006C2D5C"}, {0}, {FALSE}, AnyList)}

AnyBuild == Single \cup Sharing \cup Watching
AnyFn == UNION {b.wrapped : b \in AnyBuild \cup Suspects}

Failed == [addr |-> 0, size |-> 4]
Small == [addr |-> 4, size |-> 4]
AnyNote == {Failed, Small, [addr |-> 6, size |-> 4], [addr |-> 8, size |-> 4],
            [addr |-> 8, size |-> 10]}
AnyBlock == [f \in AnyFn |-> CASE f = "00937EF0" -> AnyNote \ {Failed}
                               [] f = Allocator  -> {Small, [addr |-> 6, size |-> 4]}
                               [] f = "00947A68" -> {Failed, Small}
                               [] OTHER          -> {Failed}]

\* One node, and a walk of two hops.
ASSUME HeapAssumption == \A heap \in AnyList : WithinReach(heap)
=============================================================================
