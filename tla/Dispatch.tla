------------------------------- MODULE Dispatch -------------------------------
(***************************************************************************)
(* The two binary searches of function_table (src/main.cpp): the lookup    *)
(* main() does for the entry point, and the one the main-thread sampler    *)
(* does for every word of the stack that may be a return address.  A       *)
(* search is a record of its bounds; one operator is one turn of its loop. *)
(***************************************************************************)
EXTENDS Integers, Sequences

CONSTANTS Table   \* the addresses of function_table, without the sentinel

\* "emitted in ascending address order": what the searches rely on.
ASSUME TableAssumption ==
    /\ Table \in Seq(Nat)
    /\ \A i, j \in 1..Len(Table) : i < j => Table[i] < Table[j]

Lifted == {Table[i] : i \in 1..Len(Table)}

\* A search for a.  best is 0 until enclosing_func has seen an address at or below a.
Search(a) == [key |-> a, lo |-> 0, hi |-> Len(Table), best |-> 0]

Open(s) == s.lo < s.hi

Mid(s) == s.lo + (s.hi - s.lo) \div 2

\* The table counts from 0 in the source.
AtMid(s) == Table[Mid(s) + 1]

Hit(s) == Open(s) /\ AtMid(s) = s.key

\* Mutant: the upper half is closed one entry short.
HalfShort(s) == IF AtMid(s) < s.key THEN [s EXCEPT !.lo = Mid(s) + 1]
                                    ELSE [s EXCEPT !.hi = Mid(s) - 1]

\* A turn of dispatch_lookup that has not hit.
Half(s) == IF AtMid(s) < s.key THEN [s EXCEPT !.lo = Mid(s) + 1]
                               ELSE [s EXCEPT !.hi = Mid(s)]

\* A turn of enclosing_func.
Nearer(s) == IF AtMid(s) <= s.key
             THEN [s EXCEPT !.best = AtMid(s), !.lo = Mid(s) + 1]
             ELSE [s EXCEPT !.hi = Mid(s)]

----------------------------------------------------------------------------
\* What the searches are for: the function nearest at or below a, 0 when there is none.
IsEnclosing(f, a) ==
    \/ f \in Lifted /\ f <= a /\ \A g \in Lifted : g <= a => g <= f
    \/ f = 0 /\ \A g \in Lifted : a < g
=============================================================================
