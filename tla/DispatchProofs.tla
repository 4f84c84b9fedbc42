---------------------------- MODULE DispatchProofs ----------------------------
(***************************************************************************)
(* Proofs about Dispatch, for every ascending table: what each search has  *)
(* ruled out at every turn, that no turn leaves the table or repeats, and  *)
(* what a search that is over has found.                                   *)
(***************************************************************************)
EXTENDS Dispatch, TLAPS

SearchType == [key : Nat, lo : Nat, hi : Nat, best : Nat]

Within(s) == s \in SearchType /\ s.lo <= s.hi /\ s.hi <= Len(Table)

\* What dispatch_lookup has ruled out: the entries outside its bounds.
Narrowed(s) ==
    /\ Within(s)
    /\ \A i \in 1..Len(Table) : /\ i <= s.lo => Table[i] < s.key
                                /\ i > s.hi => s.key < Table[i]

\* What enclosing_func has ruled out, and what it holds: the entry below its bounds.
Approached(s) ==
    /\ Within(s)
    /\ \A i \in 1..Len(Table) : /\ i <= s.lo => Table[i] <= s.key
                                /\ i > s.hi => s.key < Table[i]
    /\ s.best = IF s.lo = 0 THEN 0 ELSE Table[s.lo]

LEMMA TableFacts ==
    /\ Len(Table) \in Nat
    /\ \A i \in 1..Len(Table) : Table[i] \in Nat
    /\ \A i, j \in 1..Len(Table) : i < j => Table[i] < Table[j]
BY TableAssumption

LEMMA SearchStarts ==
    ASSUME NEW a \in Nat
    PROVE  Narrowed(Search(a)) /\ Approached(Search(a))
BY TableFacts DEF Search, Narrowed, Approached, Within, SearchType

\* The middle of an open search is inside it.
LEMMA MidInside ==
    ASSUME NEW s, Within(s), Open(s)
    PROVE  /\ Mid(s) \in Nat /\ s.lo <= Mid(s) /\ Mid(s) < s.hi
           /\ Mid(s) + 1 \in 1..Len(Table)
<1>1. s.lo \in Nat /\ s.hi \in Nat /\ s.lo < s.hi /\ s.hi <= Len(Table)
  BY DEF Within, SearchType, Open
<1>2. /\ (s.hi - s.lo) \div 2 \in Nat
      /\ (s.hi - s.lo) \div 2 < s.hi - s.lo
  BY <1>1
<1>3. QED
  BY <1>1, <1>2, TableFacts DEF Mid

\* A turn that has not hit keeps what was ruled out, and leaves less to search.
LEMMA HalfNarrows ==
    ASSUME NEW s, Narrowed(s), Open(s), ~Hit(s)
    PROVE  /\ Narrowed(Half(s)) /\ Half(s).key = s.key
           /\ Half(s).hi - Half(s).lo < s.hi - s.lo
<1> DEFINE m == Mid(s)
<1>1. m \in Nat /\ s.lo <= m /\ m < s.hi /\ m + 1 \in 1..Len(Table) /\ Within(s)
  BY MidInside DEF Narrowed
<1>2. /\ s.lo \in Nat /\ s.hi \in Nat /\ s.key \in Nat /\ Len(Table) \in Nat
      /\ s.hi <= Len(Table) /\ Table[m + 1] \in Nat
      /\ Table[m + 1] # s.key
  BY <1>1, TableFacts DEF Within, SearchType, Hit, AtMid
<1> HIDE DEF m
<1>3. CASE AtMid(s) < s.key
  <2>1. Half(s) = [s EXCEPT !.lo = m + 1] /\ Table[m + 1] < s.key
    BY <1>3 DEF Half, AtMid, m
  <2>2. /\ Half(s).lo = m + 1 /\ Half(s).hi = s.hi /\ Half(s).key = s.key
        /\ Half(s) \in SearchType
    BY <1>1, <1>2, <2>1 DEF Within, SearchType
  <2>3. \A i \in 1..Len(Table) : i <= m + 1 => Table[i] < s.key
    <3> TAKE i \in 1..Len(Table)
    <3> HAVE i <= m + 1
    <3>1. Table[i] \in Nat /\ (i = m + 1 \/ Table[i] < Table[m + 1])
      BY <1>1, TableFacts
    <3>2. QED
      BY <1>2, <2>1, <3>1
  <2>4. QED
    BY <1>1, <1>2, <2>2, <2>3 DEF Narrowed, Within
<1>4. CASE ~(AtMid(s) < s.key)
  <2>1. Half(s) = [s EXCEPT !.hi = m] /\ s.key < Table[m + 1]
    BY <1>2, <1>4 DEF Half, AtMid, m
  <2>2. /\ Half(s).lo = s.lo /\ Half(s).hi = m /\ Half(s).key = s.key
        /\ Half(s) \in SearchType
    BY <1>1, <1>2, <2>1 DEF Within, SearchType
  <2>3. \A i \in 1..Len(Table) : i > m => s.key < Table[i]
    <3> TAKE i \in 1..Len(Table)
    <3> HAVE i > m
    <3>1. Table[i] \in Nat /\ (i = m + 1 \/ Table[m + 1] < Table[i])
      BY <1>1, TableFacts
    <3>2. QED
      BY <1>2, <2>1, <3>1
  <2>4. QED
    BY <1>1, <1>2, <2>2, <2>3 DEF Narrowed, Within
<1>5. QED
  BY <1>3, <1>4

LEMMA NearerApproaches ==
    ASSUME NEW s, Approached(s), Open(s)
    PROVE  /\ Approached(Nearer(s)) /\ Nearer(s).key = s.key
           /\ Nearer(s).hi - Nearer(s).lo < s.hi - s.lo
<1> DEFINE m == Mid(s)
<1>1. m \in Nat /\ s.lo <= m /\ m < s.hi /\ m + 1 \in 1..Len(Table) /\ Within(s)
  BY MidInside DEF Approached
<1>2. /\ s.lo \in Nat /\ s.hi \in Nat /\ s.key \in Nat /\ Len(Table) \in Nat
      /\ s.hi <= Len(Table) /\ Table[m + 1] \in Nat
  BY <1>1, TableFacts DEF Within, SearchType
<1> HIDE DEF m
<1>3. CASE AtMid(s) <= s.key
  <2>1. Nearer(s) = [s EXCEPT !.best = Table[m + 1], !.lo = m + 1]
        /\ Table[m + 1] <= s.key
    BY <1>3 DEF Nearer, AtMid, m
  <2>2. /\ Nearer(s).lo = m + 1 /\ Nearer(s).hi = s.hi /\ Nearer(s).key = s.key
        /\ Nearer(s).best = Table[m + 1] /\ Nearer(s) \in SearchType
    <3>1. s = [key |-> s.key, lo |-> s.lo, hi |-> s.hi, best |-> s.best]
          /\ s.best \in Nat
      BY <1>1 DEF Within, SearchType
    <3>2. Nearer(s) =
            [key |-> s.key, lo |-> m + 1, hi |-> s.hi, best |-> Table[m + 1]]
      BY <2>1, <3>1
    <3>3. QED
      BY <1>1, <1>2, <3>2 DEF SearchType
  <2>3. \A i \in 1..Len(Table) : i <= m + 1 => Table[i] <= s.key
    <3> TAKE i \in 1..Len(Table)
    <3> HAVE i <= m + 1
    <3>1. Table[i] \in Nat /\ (i = m + 1 \/ Table[i] < Table[m + 1])
      BY <1>1, TableFacts
    <3>2. QED
      BY <1>2, <2>1, <3>1
  <2>4. QED
    BY <1>1, <1>2, <2>2, <2>3 DEF Approached, Within
<1>4. CASE ~(AtMid(s) <= s.key)
  <2>1. Nearer(s) = [s EXCEPT !.hi = m] /\ s.key < Table[m + 1]
    BY <1>2, <1>4 DEF Nearer, AtMid, m
  <2>2. /\ Nearer(s).lo = s.lo /\ Nearer(s).hi = m /\ Nearer(s).key = s.key
        /\ Nearer(s).best = s.best /\ Nearer(s) \in SearchType
    BY <1>1, <1>2, <2>1 DEF Within, SearchType
  <2>3. \A i \in 1..Len(Table) : i > m => s.key < Table[i]
    <3> TAKE i \in 1..Len(Table)
    <3> HAVE i > m
    <3>1. Table[i] \in Nat /\ (i = m + 1 \/ Table[m + 1] < Table[i])
      BY <1>1, TableFacts
    <3>2. QED
      BY <1>2, <2>1, <3>1
  <2>4. QED
    BY <1>1, <1>2, <2>2, <2>3 DEF Approached, Within
<1>5. QED
  BY <1>3, <1>4

\* A hit is the function asked for, and a lookup that ends without one proves that the
\* table has none: no entry point is missed and none is made up.
THEOREM LookupDecides ==
    ASSUME NEW s, Narrowed(s)
    PROVE  /\ Hit(s) => s.key \in Lifted
           /\ ~Open(s) => s.key \notin Lifted
<1>1. Hit(s) => s.key \in Lifted
  BY MidInside DEF Hit, AtMid, Lifted, Narrowed
<1>2. ASSUME ~Open(s), s.key \in Lifted PROVE FALSE
  <2>1. PICK i \in 1..Len(Table) : Table[i] = s.key
    BY <1>2 DEF Lifted
  <2>2. /\ s.lo \in Nat /\ s.hi \in Nat /\ s.key \in Nat /\ s.lo = s.hi
    BY <1>2 DEF Narrowed, Within, SearchType, Open
  <2>3. i <= s.lo \/ i > s.hi
    BY <2>2
  <2>4. QED
    BY <2>1, <2>2, <2>3 DEF Narrowed
<1>3. QED
  BY <1>1, <1>2

\* When enclosing_func's loop is over it holds the nearest function at or below the
\* address, or 0 when the address lies before the first.
THEOREM EnclosingDecides ==
    ASSUME NEW s, Approached(s), ~Open(s)
    PROVE  IsEnclosing(s.best, s.key)
<1>1. /\ s.lo \in Nat /\ s.hi \in Nat /\ s.key \in Nat /\ s.lo = s.hi
      /\ s.lo <= Len(Table)
  BY DEF Approached, Within, SearchType, Open
<1>2. CASE s.lo = 0
  <2>1. \A g \in Lifted : s.key < g
    BY <1>1, <1>2 DEF Lifted, Approached
  <2>2. QED
    BY <1>2, <2>1 DEF IsEnclosing, Approached
<1>3. CASE s.lo # 0
  <2>1. s.lo \in 1..Len(Table) /\ s.best = Table[s.lo]
    BY <1>1, <1>3, TableFacts DEF Approached
  <2>2. s.best \in Lifted /\ s.best <= s.key
    BY <1>1, <2>1 DEF Lifted, Approached
  <2>3. ASSUME NEW i \in 1..Len(Table), Table[i] <= s.key
        PROVE  Table[i] <= s.best
    <3>1. ~(i > s.hi)
      BY <1>1, <2>3, TableFacts DEF Approached
    <3>2. i = s.lo \/ i < s.lo
      BY <1>1, <3>1
    <3>3. QED
      BY <2>1, <3>2, TableFacts
  <2>4. \A g \in Lifted : g <= s.key => g <= s.best
    BY <2>3 DEF Lifted
  <2>5. QED
    BY <2>2, <2>4 DEF IsEnclosing
<1>4. QED
  BY <1>2, <1>3

\* Every turn of either search leaves at most half of what was open: a lookup takes no
\* more turns than the length of the table has binary digits.
THEOREM TurnsHalve ==
    ASSUME NEW s, Within(s), Open(s)
    PROVE  /\ 2 * (Half(s).hi - Half(s).lo) <= s.hi - s.lo
           /\ 2 * (Nearer(s).hi - Nearer(s).lo) <= s.hi - s.lo
<1> DEFINE m == Mid(s)
<1>1. s.lo \in Nat /\ s.hi \in Nat /\ s.lo < s.hi
  BY DEF Within, SearchType, Open
<1>2. m \in Nat /\ 2 * (s.hi - (m + 1)) <= s.hi - s.lo /\ 2 * (m - s.lo) <= s.hi - s.lo
  BY <1>1 DEF Mid
<1> HIDE DEF m
<1>3. \/ Half(s).lo = m + 1 /\ Half(s).hi = s.hi
      \/ Half(s).lo = s.lo /\ Half(s).hi = m
  <2>1. CASE AtMid(s) < s.key
    BY <2>1 DEF Half, m, Within, SearchType
  <2>2. CASE ~(AtMid(s) < s.key)
    BY <2>2 DEF Half, m, Within, SearchType
  <2>3. QED
    BY <2>1, <2>2
<1>4. \/ Nearer(s).lo = m + 1 /\ Nearer(s).hi = s.hi
      \/ Nearer(s).lo = s.lo /\ Nearer(s).hi = m
  <2>1. CASE AtMid(s) <= s.key
    BY <2>1 DEF Nearer, m, Within, SearchType
  <2>2. CASE ~(AtMid(s) <= s.key)
    BY <2>2 DEF Nearer, m, Within, SearchType
  <2>3. QED
    BY <2>1, <2>2
<1>5. QED
  BY <1>2, <1>3, <1>4
=============================================================================
