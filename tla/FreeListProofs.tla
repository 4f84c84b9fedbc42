---------------------------- MODULE FreeListProofs ----------------------------
(***************************************************************************)
(* Proofs about the walk of the free list (FreeList), for every heap and   *)
(* every length of its chains: the walk reports no chain that is sound,    *)
(* and, as long as it has more hops than the heap has nodes, every chain   *)
(* that is not, circular ones included.                                    *)
(*                                                                         *)
(* The induction is over sets of numbers: a nonempty one has a least       *)
(* element because the finite initial segments of Nat are well-founded     *)
(* under inclusion.                                                        *)
(***************************************************************************)
EXTENDS FreeList, FiniteSetTheorems, TLAPS

LEMMA NatLeast ==
    ASSUME NEW T, T \subseteq Nat, T # {}
    PROVE  \E m \in T : \A k \in T : m <= k
<1> DEFINE Upto == {0..k : k \in T}
<1>1. Upto \subseteq FiniteSubsetsOf(Nat) /\ Upto # {}
  <2>1. \A k \in T : 0..k \in SUBSET Nat /\ IsFiniteSet(0..k)
    BY FS_Interval
  <2>2. QED
    BY <2>1 DEF FiniteSubsetsOf
<1>2. PICK U \in Upto : \A V \in Upto : <<V, U>> \notin StrictSubsetOrdering(Nat)
  <2> HIDE DEF Upto
  <2>1. QED
    BY <1>1, FS_StrictSubsetOrderingWellFounded, WFMin
<1>3. PICK m \in T : U = 0..m
  OBVIOUS
<1>4. ASSUME NEW k \in T, k < m PROVE FALSE
  <2>1. k \in Nat /\ m \in Nat /\ 0..k \subseteq 0..m /\ m \notin 0..k /\ m \in 0..m
    BY <1>4
  <2>2. <<0..k, 0..m>> \in StrictSubsetOrdering(Nat)
    BY <2>1 DEF StrictSubsetOrdering
  <2>3. QED
    BY <1>2, <1>3, <2>2
<1>5. QED
  BY <1>3, <1>4

\* Induction up to h, for the set of numbers that have the property.
LEMMA SetInduction ==
    ASSUME NEW S, NEW h \in Nat, 0 \in S,
           \A k \in 0..(h - 1) : k \in S => k + 1 \in S
    PROVE  0..h \subseteq S
<1> SUFFICES ASSUME (0..h) \ S # {} PROVE FALSE
  OBVIOUS
<1> DEFINE T == (0..h) \ S
<1>1. T \subseteq Nat /\ T # {}
  OBVIOUS
<1>2. PICK m \in T : \A k \in T : m <= k
  <2> HIDE DEF T
  <2>1. QED
    BY <1>1, NatLeast
<1>3. m # 0 /\ m - 1 \in 0..(h - 1) /\ m - 1 \in S
  BY <1>2
<1>4. m \in S
  <2>1. (m - 1) + 1 \in S
    BY <1>3
  <2>2. QED
    BY <1>2, <2>1
<1>5. QED
  BY <1>4

----------------------------------------------------------------------------
(* The walk.                                                               *)

\* Node h of the walk is the head for 0, and a hop from node h - 1 otherwise.
NodeFun(heap, bucket, g, last) ==
    g = [h \in 0..last |-> IF h = 0 THEN heap.head[bucket] ELSE Hop(heap, g[h - 1])]

LEMMA WalkExists ==
    ASSUME NEW heap, NEW bucket, NEW last \in Nat
    PROVE  \E g : NodeFun(heap, bucket, g, last)
<1> DEFINE S == {k \in Nat : \E g : NodeFun(heap, bucket, g, k)}
<1>1. 0 \in S
  <2>1. NodeFun(heap, bucket, [h \in 0..0 |-> heap.head[bucket]], 0)
    BY DEF NodeFun
  <2>2. QED
    BY <2>1
<1>2. ASSUME NEW k \in 0..(last - 1), k \in S PROVE k + 1 \in S
  <2>1. PICK g : NodeFun(heap, bucket, g, k)
    BY <1>2
  <2> DEFINE f == [h \in 0..(k + 1) |-> IF h <= k THEN g[h] ELSE Hop(heap, g[k])]
  <2>2. ASSUME NEW h \in 0..(k + 1)
        PROVE  f[h] = IF h = 0 THEN heap.head[bucket] ELSE Hop(heap, f[h - 1])
    <3>1. CASE h = 0
      BY <2>1, <3>1 DEF NodeFun
    <3>2. CASE h # 0 /\ h <= k
      <4>1. h \in 0..k /\ h - 1 \in 0..(k + 1) /\ h - 1 <= k
        BY <3>2
      <4>2. f[h] = g[h] /\ f[h - 1] = g[h - 1]
        BY <3>2, <4>1
      <4>3. g[h] = Hop(heap, g[h - 1])
        BY <2>1, <3>2, <4>1 DEF NodeFun
      <4>4. QED
        BY <3>2, <4>2, <4>3
    <3>3. CASE h = k + 1
      <4>1. f[h] = Hop(heap, g[k]) /\ f[h - 1] = g[k] /\ h # 0
        BY <3>3
      <4>2. QED
        BY <4>1
    <3>4. QED
      BY <3>1, <3>2, <3>3
  <2>3. f = [h \in 0..(k + 1) |->
                IF h = 0 THEN heap.head[bucket] ELSE Hop(heap, f[h - 1])]
    <3>1. f = [h \in 0..(k + 1) |-> f[h]]
      OBVIOUS
    <3> HIDE DEF f
    <3>2. QED
      BY <2>2, <3>1
  <2>4. NodeFun(heap, bucket, f, k + 1)
    BY <2>3 DEF NodeFun
  <2>5. QED
    BY <2>4
<1>3. last \in S
  <2> HIDE DEF S
  <2>1. QED
    BY <1>1, <1>2, SetInduction
<1>4. QED
  BY <1>3

LEMMA WalkIs ==
    ASSUME NEW heap, NEW bucket
    PROVE  /\ Walk(heap, bucket)[0] = heap.head[bucket]
           /\ \A h \in 1..(HopMax - 1) :
                 Walk(heap, bucket)[h] = Hop(heap, Walk(heap, bucket)[h - 1])
<1> DEFINE g == Walk(heap, bucket)
<1>1. HopMax - 1 \in Nat
  BY ArenaAssumption
<1>2. NodeFun(heap, bucket, g, HopMax - 1)
  <2>1. g = CHOOSE f : NodeFun(heap, bucket, f, HopMax - 1)
    BY DEF Walk, NodeFun
  <2>2. \E f : NodeFun(heap, bucket, f, HopMax - 1)
    BY <1>1, WalkExists
  <2> HIDE DEF g
  <2>3. QED
    BY <2>1, <2>2
<1> HIDE DEF g
<1>3. QED
  BY <1>1, <1>2 DEF NodeFun, g

\* The turns of a walk.
Turn == 0..(HopMax - 1)

LEMMA Turns == HopMax - 1 \in Nat /\ 0 \in Turn /\ IsFiniteSet(Turn) /\ Cardinality(Turn) = HopMax
<1>1. HopMax - 1 \in Nat /\ HopMax \in Nat
  BY ArenaAssumption
<1>2. IsFiniteSet(Turn) /\ Cardinality(Turn) = (HopMax - 1) - 0 + 1
  BY <1>1, FS_Interval DEF Turn
<1>3. QED
  BY <1>1, <1>2 DEF Turn

\* What has the property of the head and of every hop from a node that has it, every
\* node of the walk has.
LEMMA AllTurns ==
    ASSUME NEW S, 0 \in S,
           \A h \in Turn : h # 0 /\ h - 1 \in S => h \in S
    PROVE  Turn \subseteq S
<1>1. HopMax - 1 \in Nat
  BY Turns
<1>2. ASSUME NEW k \in 0..((HopMax - 1) - 1), k \in S PROVE k + 1 \in S
  <2>1. k + 1 \in Turn /\ k + 1 # 0 /\ (k + 1) - 1 = k
    BY <1>1, ArenaAssumption DEF Turn
  <2>2. QED
    BY <1>2, <2>1
<1>3. 0..(HopMax - 1) \subseteq S
  BY <1>1, <1>2, SetInduction
<1>4. QED
  BY <1>3 DEF Turn

LEMMA WalkTurns ==
    ASSUME NEW heap, NEW bucket, NEW h \in Turn, h # 0
    PROVE  /\ h - 1 \in Turn
           /\ Walk(heap, bucket)[h] = Hop(heap, Walk(heap, bucket)[h - 1])
<1>1. h \in 1..(HopMax - 1) /\ h - 1 \in Turn
  BY Turns DEF Turn
<1>2. QED
  BY <1>1, WalkIs

LEMMA HeadsFinite ==
    ASSUME NEW heap, IsHeap(heap)
    PROVE  IsFiniteSet(DOMAIN heap.head)
  BY FS_Interval, ArenaAssumption DEF IsHeap

\* The nodes are addresses of the heap, or 0.
LEMMA WalkAddresses ==
    ASSUME NEW heap, IsHeap(heap), NEW bucket \in DOMAIN heap.head, NEW h \in Turn
    PROVE  /\ Walk(heap, bucket)[h] \in Addresses(heap) \cup {0}
           /\ Walk(heap, bucket)[h] \in Nat
<1> DEFINE node == Walk(heap, bucket)
           S == {k \in Turn : node[k] \in (Addresses(heap) \cup {0}) \cap Nat}
<1>1. 0 \in S
  BY Turns, WalkIs DEF Addresses, IsHeap
<1>2. ASSUME NEW k \in Turn, k # 0 PROVE k \in S
  <2>1. node[k] = Hop(heap, node[k - 1])
    BY <1>2, WalkTurns
  <2>2. \A a : NextOf(heap, a) \in (Addresses(heap) \cup {0}) \cap Nat
    BY DEF NextOf, Addresses, IsHeap
  <2> HIDE DEF node
  <2>3. QED
    BY <2>1, <2>2 DEF Hop
<1>3. QED
  BY <1>1, <1>2

----------------------------------------------------------------------------
(* What the walk answers.                                                  *)

\* A bad node the walk came to is one the chain leads to.
LEMMA BadIsAstray ==
    ASSUME NEW heap, NEW bucket, ChainBad(heap, bucket)
    PROVE  LeadsAstray(heap, bucket)
<1> DEFINE node == Walk(heap, bucket)
<1>1. PICK h \in Turn : node[h] # 0 /\ ~Ok(heap, node[h])
  BY DEF ChainBad, Turn
<1>2. SUFFICES ASSUME NEW C, Follows(heap, bucket, C)
               PROVE  \E a \in C \ {0} : ~Ok(heap, a)
  BY DEF LeadsAstray
<1> DEFINE S == {k \in Turn : node[k] \in C \cup {0}}
<1>3. 0 \in S
  BY <1>2, Turns, WalkIs DEF Follows
<1>4. ASSUME NEW k \in Turn, k # 0, k - 1 \in S PROVE k \in S
  <2>1. node[k] = Hop(heap, node[k - 1]) /\ node[k - 1] \in C \cup {0}
    BY <1>4, WalkTurns
  <2> HIDE DEF node
  <2>2. QED
    BY <1>2, <2>1 DEF Hop, Follows
<1>5. h \in S
  <2> HIDE DEF S
  <2>1. QED
    BY <1>3, <1>4, AllTurns
<1>6. QED
  BY <1>1, <1>5

\* A node that is in order is one of the heap's.
LEMMA OkIsNode ==
    ASSUME NEW heap, NEW a \in Nat, Ok(heap, a)
    PROVE  a \in DOMAIN heap.end
BY ArenaAssumption DEF Ok, NodeOk, EndOf, InArena

\* A chain that has ended stays ended.
LEMMA EndedStays ==
    ASSUME NEW heap, NEW bucket, NEW h \in Turn, Walk(heap, bucket)[h] = 0,
           NEW last \in Turn, h <= last
    PROVE  Walk(heap, bucket)[last] = 0
<1> DEFINE node == Walk(heap, bucket)
           S == {k \in Turn : h <= k => node[k] = 0}
<1>1. 0 \in S
  BY Turns DEF Turn
<1>2. ASSUME NEW k \in Turn, k # 0, k - 1 \in S PROVE k \in S
  <2>1. node[k] = Hop(heap, node[k - 1])
    BY <1>2, WalkTurns
  <2>2. h = k \/ (h <= k => h <= k - 1)
    BY DEF Turn
  <2> HIDE DEF node
  <2>3. QED
    BY <1>2, <2>1, <2>2 DEF Hop, node
<1>3. last \in S
  <2> HIDE DEF S
  <2>1. QED
    BY <1>1, <1>2, AllTurns
<1>4. QED
  BY <1>3

\* A walk that comes to a node twice comes to every node it comes to before its last turn.
LEMMA CircleCloses ==
    ASSUME NEW heap, NEW bucket, NEW x \in Turn, NEW y \in Turn, x < y,
           Walk(heap, bucket)[x] = Walk(heap, bucket)[y]
    PROVE  \E h \in Turn : h < HopMax - 1
              /\ Walk(heap, bucket)[h] = Walk(heap, bucket)[HopMax - 1]
<1> DEFINE node == Walk(heap, bucket)
           S == {k \in Turn : y <= k => node[k] = node[k - (y - x)]}
<1>1. 0 \in S
  BY Turns DEF Turn
<1>2. ASSUME NEW k \in Turn, k # 0, k - 1 \in S PROVE k \in S
  <2>1. CASE k = y
    BY <2>1 DEF Turn
  <2>2. CASE y < k
    <3>1. k - (y - x) \in Turn /\ k - (y - x) # 0 /\ y <= k - 1
      BY <2>2, ArenaAssumption DEF Turn
    <3>2. /\ node[k] = Hop(heap, node[k - 1])
          /\ node[k - (y - x)] = Hop(heap, node[k - (y - x) - 1])
      BY <1>2, <3>1, WalkTurns
    <3>3. node[k - 1] = node[k - 1 - (y - x)]
      BY <1>2, <3>1
    <3>4. k - 1 - (y - x) = k - (y - x) - 1
      BY DEF Turn
    <3>5. QED
      BY <3>2, <3>3, <3>4
  <2>3. k \in Int /\ y \in Int
    BY DEF Turn
  <2>4. QED
    BY <2>1, <2>2, <2>3
<1>3. HopMax - 1 \in S
  <2> HIDE DEF S
  <2>1. Turn \subseteq S
    BY <1>1, <1>2, AllTurns
  <2>2. QED
    BY <2>1, Turns DEF Turn
<1>4. LET h == HopMax - 1 - (y - x) IN h \in Turn /\ h < HopMax - 1 /\ y <= HopMax - 1
  BY Turns DEF Turn
<1>5. QED
  BY <1>3, <1>4

\* Within reach, a walk without a bad node has come to all the nodes of its chain.
LEMMA AstrayIsBad ==
    ASSUME NEW heap, IsHeap(heap), WithinReach(heap), NEW bucket \in DOMAIN heap.head,
           LeadsAstray(heap, bucket)
    PROVE  ChainBad(heap, bucket)
<1> DEFINE node == Walk(heap, bucket)
           C == {node[h] : h \in Turn} \cup {0}
<1> SUFFICES ASSUME ~ChainBad(heap, bucket) PROVE FALSE
  OBVIOUS
<1>1. \A h \in Turn : node[h] \in Nat /\ (node[h] = 0 \/ Ok(heap, node[h]))
  BY WalkAddresses DEF ChainBad, Turn
<1>2. C \in SUBSET (Addresses(heap) \cup {0})
  BY WalkAddresses
<1>3. (\E x, y \in Turn : x < y /\ node[x] = node[y]) \/ node[HopMax - 1] = 0
  <2> SUFFICES ASSUME node[HopMax - 1] # 0 PROVE \E x, y \in Turn : x < y /\ node[x] = node[y]
    BY Turns
  <2>1. \A h \in Turn : node[h] \in DOMAIN heap.end
    <3>1. \A h \in Turn : HopMax - 1 \in Turn /\ h <= HopMax - 1
      BY Turns DEF Turn
    <3>2. \A h \in Turn : node[h] # 0
      BY <3>1, EndedStays
    <3>3. QED
      BY <1>1, <3>2, OkIsNode
  <2> DEFINE f == [h \in Turn |-> node[h]]
  <2>2. f \in [Turn -> DOMAIN heap.end]
    BY <2>1
  <2>3. PICK x, y \in Turn : x # y /\ f[x] = f[y]
    <3>1. /\ IsFiniteSet(Turn) /\ IsFiniteSet(DOMAIN heap.end)
          /\ Cardinality(DOMAIN heap.end) < Cardinality(Turn)
      BY Turns DEF IsHeap, WithinReach
    <3> HIDE DEF f
    <3>2. QED
      BY <2>2, <3>1, FS_PigeonHole
  <2>4. (x < y \/ y < x) /\ node[x] = node[y]
    BY <2>3 DEF Turn
  <2> HIDE DEF node
  <2>5. QED
    BY <2>4
<1>4. ASSUME NEW h \in Turn, node[h] # 0, h < HopMax - 1
      PROVE  NextOf(heap, node[h]) \in C
  <2>1. h + 1 \in Turn /\ h + 1 # 0 /\ (h + 1) - 1 = h
    BY <1>4, Turns DEF Turn
  <2>2. node[h + 1] = Hop(heap, node[h])
    BY <2>1, WalkTurns
  <2>3. Hop(heap, node[h]) = NextOf(heap, node[h])
    BY <1>1, <1>4 DEF Hop
  <2>4. QED
    BY <2>1, <2>2, <2>3
<1>5. ASSUME NEW a \in C \ {0} PROVE NextOf(heap, a) \in C
  <2>1. PICK h \in Turn : a = node[h] /\ node[h] # 0
    BY <1>5
  <2>2. CASE h < HopMax - 1
    BY <1>4, <2>1, <2>2
  <2>3. CASE h = HopMax - 1
    <3>1. PICK k \in Turn : k < HopMax - 1 /\ node[k] = node[HopMax - 1]
      BY <1>3, <2>1, <2>3, CircleCloses
    <3>2. QED
      BY <1>4, <2>1, <2>3, <3>1
  <2>4. h \in Int /\ HopMax - 1 \in Int /\ h <= HopMax - 1
    BY Turns DEF Turn
  <2>5. QED
    BY <2>2, <2>3, <2>4
<1>6. Follows(heap, bucket, C)
  <2>1. heap.head[bucket] \in C
    BY WalkIs, Turns
  <2>2. QED
    BY <1>5, <2>1 DEF Follows
<1>7. PICK a \in C \ {0} : ~Ok(heap, a)
  BY <1>2, <1>6 DEF LeadsAstray
<1>8. QED
  BY <1>1, <1>7

\* Whatever is in the heap, the walk reports no chain from which no bad node can be
\* reached.
THEOREM WalkReportsOnlyBroken ==
    ASSUME NEW heap, IsHeap(heap)
    PROVE  FreelistBad(heap) <= ChainsBroken(heap)
<1> DEFINE B == {b \in DOMAIN heap.head : ChainBad(heap, b)}
           A == {b \in DOMAIN heap.head : LeadsAstray(heap, b)}
<1>1. B \subseteq A
  BY BadIsAstray
<1>2. IsFiniteSet(A)
  BY HeadsFinite, FS_Subset
<1> HIDE DEF A, B
<1>3. Cardinality(B) <= Cardinality(A)
  BY <1>1, <1>2, FS_Subset
<1>4. QED
  BY <1>3 DEF FreelistBad, ChainsBroken, A, B

\* With fewer nodes than hops it reports exactly the chains from which a bad node can be
\* reached, however they run together or in circles.
THEOREM WalkReportsAllBroken ==
    ASSUME NEW heap, IsHeap(heap), WithinReach(heap)
    PROVE  FreelistBad(heap) = ChainsBroken(heap)
<1>1. \A b \in DOMAIN heap.head : ChainBad(heap, b) <=> LeadsAstray(heap, b)
  BY BadIsAstray, AstrayIsBad
<1>2. {b \in DOMAIN heap.head : ChainBad(heap, b)}
         = {b \in DOMAIN heap.head : LeadsAstray(heap, b)}
  BY <1>1
<1>3. QED
  BY <1>2 DEF FreelistBad, ChainsBroken

\* Both counts are numbers.
LEMMA CountsAreNumbers ==
    ASSUME NEW heap, IsHeap(heap)
    PROVE  FreelistBad(heap) \in Nat /\ ChainsBroken(heap) \in Nat
<1>1. /\ IsFiniteSet({b \in DOMAIN heap.head : ChainBad(heap, b)})
      /\ IsFiniteSet({b \in DOMAIN heap.head : LeadsAstray(heap, b)})
  BY HeadsFinite, FS_Subset
<1>2. QED
  BY <1>1, FS_CardinalityType DEF FreelistBad, ChainsBroken

----------------------------------------------------------------------------
(* The walk, read by read.                                                 *)

LEMMA NewWalkIsOne == NewWalk \in Walks
  BY ArenaAssumption DEF NewWalk, Walks

LEMMA NextBucketIsOne ==
    ASSUME NEW w \in Walks, w.bucket <= Buckets, NEW bad \in {w.bad, w.bad + 1}
    PROVE  LET v == NextBucket([w EXCEPT !.bad = bad])
           IN  v \in Walks /\ v.bucket = w.bucket + 1 /\ v.bad = bad
<1> DEFINE u == [w EXCEPT !.bad = bad]
           at == IF w.bucket = Buckets THEN "done" ELSE "head"
           v == [at |-> at, bucket |-> w.bucket + 1, node |-> 0, end |-> 0, hops |-> 0,
                 bad |-> bad]
<1>1. /\ w.bucket \in Nat \ {0} /\ w.bad \in Nat /\ w.bad < w.bucket
      /\ Buckets \in Nat /\ HopMax - 1 \in Nat
  BY ArenaAssumption DEF Walks
<1>2. u.bucket = w.bucket /\ u.bad = bad
  BY DEF Walks
<1>3. NextBucket(u) = v
  <2>1. NextBucket(u) = [NewWalk EXCEPT !.at = at, !.bucket = w.bucket + 1, !.bad = bad]
    BY <1>2, Zenon DEF NextBucket
  <2> HIDE DEF u, at
  <2> QED BY <2>1 DEF NewWalk
<1>4. w.bucket + 1 \in 1..(Buckets + 1) /\ bad \in Nat /\ bad < w.bucket + 1
  BY <1>1
<1>5. at = "done" <=> w.bucket + 1 = Buckets + 1
  BY <1>1
<1>6. v \in Walks
  BY <1>1, <1>4, <1>5 DEF Walks
<1> QED BY <1>3, <1>6

LEMMA GoOnIsOne ==
    ASSUME NEW w \in Walks, w.bucket <= Buckets, NEW node \in Nat, NEW hops \in Nat
    PROVE  LET v == GoOn(w, node, hops)
           IN  /\ v \in Walks
               /\ \/ v.bucket = w.bucket + 1
                  \/ v.bucket = w.bucket /\ v.at = "end" /\ v.hops = hops
<1>1. CASE node # 0 /\ hops < HopMax
  <2>1. hops \in 0..(HopMax - 1) /\ w.bucket # Buckets + 1
    BY <1>1, ArenaAssumption DEF Walks
  <2> QED BY <1>1, <2>1 DEF GoOn, Walks
<1>2. CASE ~(node # 0 /\ hops < HopMax)
  <2>1. w = [w EXCEPT !.bad = w.bad]
    BY DEF Walks
  <2>2. GoOn(w, node, hops) = NextBucket([w EXCEPT !.bad = w.bad])
    BY <1>2, <2>1 DEF GoOn
  <2> QED BY <2>2, NextBucketIsOne
<1> QED BY <1>1, <1>2

\* Whatever it reads, a walk that is not over gets on and stays within its bounds.
LEMMA ReadGetsOn ==
    ASSUME NEW w \in Walks, w.at # "done", NEW heap, IsHeap(heap)
    PROVE  Read(w, heap) \in Walks /\ Ahead(w, Read(w, heap))
<1>1. w.bucket \in DOMAIN heap.head /\ w.bucket <= Buckets /\ w.bucket \in Nat
  BY ArenaAssumption DEF Walks, IsHeap
<1>2. /\ heap.head[w.bucket] \in Nat
      /\ EndOf(heap, w.node) \in Nat /\ NextOf(heap, w.node) \in Nat
  BY <1>1 DEF IsHeap, EndOf, NextOf
<1>3. w.hops \in Nat /\ w.hops + 1 \in Nat
  BY DEF Walks
<1>4. CASE w.at = "head"
  <2>1. Read(w, heap) = GoOn(w, heap.head[w.bucket], 0)
    BY <1>4 DEF Read, ReadHead
  <2> QED BY <1>1, <1>2, <1>4, <2>1, GoOnIsOne DEF Ahead
<1>5. CASE w.at = "end"
  <2>1. Read(w, heap) = [w EXCEPT !.at = "next", !.end = EndOf(heap, w.node)]
    BY <1>5 DEF Read, ReadEnd
  <2>2. Read(w, heap) \in Walks
    BY <1>1, <1>2, <1>5, <2>1, ArenaAssumption DEF Walks
  <2> QED BY <1>5, <2>1, <2>2 DEF Ahead, Walks
<1>6. CASE w.at = "next"
  <2> DEFINE next == NextOf(heap, w.node)
  <2>1. Read(w, heap) = IF NodeOk(w.node, w.end, next) THEN GoOn(w, next, w.hops + 1)
                        ELSE NextBucket([w EXCEPT !.bad = w.bad + 1])
    BY <1>6 DEF Read, ReadNext, Walks
  <2>2. CASE NodeOk(w.node, w.end, next)
    BY <1>1, <1>2, <1>3, <1>6, <2>1, <2>2, GoOnIsOne DEF Ahead
  <2>3. CASE ~NodeOk(w.node, w.end, next)
    <3>1. LET v == NextBucket([w EXCEPT !.bad = w.bad + 1])
          IN  v \in Walks /\ v.bucket = w.bucket + 1
      BY <1>1, NextBucketIsOne
    <3> QED BY <1>1, <2>1, <2>3, <3>1 DEF Ahead
  <2> QED BY <2>2, <2>3
<1> QED BY <1>4, <1>5, <1>6 DEF Walks

\* How far the walk of a heap that does not change is: the chains of the buckets before
\* are counted, the node is the one Walk comes to, and none before it was bad.
InStep(w, heap) ==
    /\ w.bad = Cardinality({b \in 1..(w.bucket - 1) : ChainBad(heap, b)})
    /\ w.at \in {"end", "next"} =>
          /\ w.node # 0 /\ w.node = Walk(heap, w.bucket)[w.hops]
          /\ \A h \in Turn : h < w.hops =>
                Walk(heap, w.bucket)[h] = 0 \/ Ok(heap, Walk(heap, w.bucket)[h])
    /\ w.at = "next" => w.end = EndOf(heap, w.node)

LEMMA InStepStarts == ASSUME NEW heap PROVE InStep(NewWalk, heap)
<1>1. {b \in 1..(1 - 1) : ChainBad(heap, b)} = {}
  OBVIOUS
<1> QED BY <1>1, FS_EmptySet DEF InStep, NewWalk

\* A bucket is left with its chain counted if it is bad.
LEMMA InStepNextBucket ==
    ASSUME NEW w \in Walks, w.bucket <= Buckets, NEW heap, InStep(w, heap),
           NEW bad, bad = IF ChainBad(heap, w.bucket) THEN w.bad + 1 ELSE w.bad
    PROVE  InStep(NextBucket([w EXCEPT !.bad = bad]), heap)
<1> DEFINE v == NextBucket([w EXCEPT !.bad = bad])
           k == w.bucket
           S == {b \in 1..(k - 1) : ChainBad(heap, b)}
           T == {b \in 1..k : ChainBad(heap, b)}
<1>1. v.bucket = k + 1 /\ v.bad = bad /\ v.at \in {"head", "done"} /\ k \in Nat \ {0}
  BY DEF NextBucket, NewWalk, Walks
<1>2. IsFiniteSet(S)
  <2>1. IsFiniteSet(1..(k - 1))
    <3>1. k - 1 \in Int
      BY <1>1
    <3> QED BY <3>1, FS_Interval
  <2> QED BY <2>1, FS_Subset
<1>3. k \notin S /\ T = IF ChainBad(heap, k) THEN S \cup {k} ELSE S
  BY <1>1
<1>4. w.bad = Cardinality(S)
  BY DEF InStep
<1>5. bad = Cardinality(T)
  <2> HIDE DEF S, T, k
  <2>1. CASE ChainBad(heap, k)
    <3>1. Cardinality(S \cup {k}) = Cardinality(S) + 1
      BY <1>2, <1>3, FS_AddElement
    <3> QED BY <1>3, <1>4, <2>1, <3>1 DEF k
  <2>2. CASE ~ChainBad(heap, k)
    BY <1>3, <1>4, <2>2 DEF k
  <2> QED BY <2>1, <2>2
<1>6. T = {b \in 1..(v.bucket - 1) : ChainBad(heap, b)}
  BY <1>1
<1> HIDE DEF v, T
<1> QED BY <1>1, <1>5, <1>6 DEF InStep, v

\* A read of a heap that does not change keeps the walk in step.
LEMMA InStepRead ==
    ASSUME NEW w \in Walks, w.at # "done", NEW heap, IsHeap(heap), InStep(w, heap)
    PROVE  InStep(Read(w, heap), heap)
<1> DEFINE node == Walk(heap, w.bucket)
<1>1. w.bucket \in DOMAIN heap.head /\ w.bucket <= Buckets /\ w.bucket \in Nat
  BY ArenaAssumption DEF Walks, IsHeap
<1>2. w.hops \in Turn /\ w = [w EXCEPT !.bad = w.bad]
  BY DEF Walks, Turn
<1>3. ASSUME ~ChainBad(heap, w.bucket) PROVE InStep(NextBucket(w), heap)
  BY <1>1, <1>2, <1>3, InStepNextBucket
<1>4. CASE w.at = "head"
  <2>1. Read(w, heap) = GoOn(w, node[0], 0)
    BY <1>4, WalkIs DEF Read, ReadHead
  <2>2. CASE node[0] # 0
    <3>1. Read(w, heap) = [w EXCEPT !.at = "end", !.node = node[0], !.end = 0, !.hops = 0]
      BY <2>1, <2>2, ArenaAssumption DEF GoOn
    <3>2. \A h \in Turn : ~(h < 0)
      BY DEF Turn
    <3> HIDE DEF node
    <3> QED BY <2>2, <3>1, <3>2 DEF InStep, Walks, node
  <2>3. CASE node[0] = 0
    <3>1. \A h \in Turn : 0 \in Turn /\ 0 <= h
      BY Turns DEF Turn
    <3>2. \A h \in Turn : node[h] = 0
      BY <2>3, <3>1, EndedStays
    <3>3. ~ChainBad(heap, w.bucket)
      BY <3>2 DEF ChainBad, Turn
    <3>4. Read(w, heap) = NextBucket(w)
      BY <2>1, <2>3 DEF GoOn
    <3> QED BY <1>3, <3>3, <3>4
  <2> QED BY <2>2, <2>3
<1>5. CASE w.at = "end"
  <2>1. Read(w, heap) = [w EXCEPT !.at = "next", !.end = EndOf(heap, w.node)]
    BY <1>5 DEF Read, ReadEnd
  <2> QED BY <1>5, <2>1 DEF InStep, Walks
<1>6. CASE w.at = "next"
  <2> DEFINE next == NextOf(heap, w.node)
             k == w.hops
  <2>1. /\ w.node = node[k] /\ w.node # 0 /\ w.end = EndOf(heap, w.node)
        /\ \A h \in Turn : h < k => node[h] = 0 \/ Ok(heap, node[h])
    BY <1>6 DEF InStep
  <2>2. NodeOk(w.node, w.end, next) <=> Ok(heap, node[k])
    BY <2>1 DEF Ok
  <2>3. CASE ~Ok(heap, node[k])
    <3>1. ChainBad(heap, w.bucket)
      BY <1>2, <2>1, <2>3 DEF ChainBad, Turn
    <3>2. Read(w, heap) = NextBucket([w EXCEPT !.bad = w.bad + 1])
      BY <1>6, <2>2, <2>3 DEF Read, ReadNext, Walks
    <3> QED BY <1>1, <3>1, <3>2, InStepNextBucket
  <2>4. CASE Ok(heap, node[k])
    <3>1. Read(w, heap) = GoOn(w, next, k + 1)
      BY <1>6, <2>2, <2>4 DEF Read, ReadNext
    <3>2. \A h \in Turn : h <= k => node[h] = 0 \/ Ok(heap, node[h])
      BY <1>2, <2>1, <2>4 DEF Turn
    <3>3. k + 1 < HopMax => k + 1 \in Turn /\ node[k + 1] = next
      <4>1. SUFFICES ASSUME k + 1 < HopMax PROVE k + 1 \in Turn /\ node[k + 1] = next
        OBVIOUS
      <4>2. k + 1 \in Turn /\ k + 1 # 0 /\ (k + 1) - 1 = k
        BY <1>2, <4>1, ArenaAssumption DEF Turn
      <4>3. node[k + 1] = Hop(heap, node[k])
        BY <4>2, WalkTurns
      <4> QED BY <2>1, <2>4, <4>2, <4>3 DEF Hop
    <3>4. CASE next # 0 /\ k + 1 < HopMax
      <4>1. Read(w, heap) = [w EXCEPT !.at = "end", !.node = next, !.end = 0, !.hops = k + 1]
        BY <3>1, <3>4 DEF GoOn
      <4>2. \A h \in Turn : h < k + 1 => node[h] = 0 \/ Ok(heap, node[h])
        BY <1>2, <3>2 DEF Turn
      <4> HIDE DEF node, next
      <4> QED BY <3>3, <3>4, <4>1, <4>2 DEF InStep, Walks, node
    <3>5. CASE ~(next # 0 /\ k + 1 < HopMax)
      <4>1. Read(w, heap) = NextBucket(w)
        BY <3>1, <3>5 DEF GoOn
      <4>2. ASSUME NEW h \in Turn, k < h PROVE node[h] = 0
        <5>1. k + 1 < HopMax /\ k + 1 <= h
          BY <1>2, <4>2, ArenaAssumption DEF Turn
        <5> QED BY <3>3, <3>5, <5>1, EndedStays
      <4>3. \A h \in Turn : node[h] = 0 \/ Ok(heap, node[h])
        BY <1>2, <3>2, <4>2 DEF Turn
      <4>4. ~ChainBad(heap, w.bucket)
        BY <4>3 DEF ChainBad, Turn
      <4> QED BY <1>3, <4>1, <4>4
    <3> QED BY <3>4, <3>5
  <2> QED BY <2>3, <2>4
<1> QED BY <1>4, <1>5, <1>6 DEF Walks

\* So a walk under which nothing changed has counted the bad chains.
LEMMA InStepEnds ==
    ASSUME NEW w \in Walks, w.at = "done", NEW heap, IsHeap(heap), InStep(w, heap)
    PROVE  w.bad = FreelistBad(heap)
<1>1. w.bucket - 1 = Buckets
  BY ArenaAssumption DEF Walks
<1> QED BY <1>1 DEF InStep, FreelistBad, IsHeap
=============================================================================
