------------------------------ MODULE MCGenPatch -----------------------------
\* A small generated/ for TLC: two arming functions and the longjmp spread over
\* two chunks, and a function that no script but the probes touches.
EXTENDS GenPatch

CONSTANTS lz, lz2, lj, leaf

SmallFunc == {lz, lz2, lj, leaf}
SmallChunkOf == [f \in SmallFunc |-> IF f \in {lz, leaf} THEN 1 ELSE 2]
SmallWindow == [f \in SmallFunc |-> IF f = lz THEN {lz, leaf} ELSE {f}]
=============================================================================
