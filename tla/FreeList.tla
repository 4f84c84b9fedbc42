------------------------------- MODULE FreeList -------------------------------
(***************************************************************************)
(* The validator of the game heap's free list (gt5p_freelist_bad,          *)
(* src/gt5p_bbcount.cpp).  A heap is what the walk reads of guest memory:  *)
(* the bucket heads, and each node's end pointer and successor; 0 ends a   *)
(* chain.                                                                  *)
(*                                                                         *)
(* The walk takes no lock, so the heap may change between any two of its   *)
(* reads: NewWalk and Read are the walk one read at a time, and            *)
(* FreelistBad is what it comes to if nothing changes.                     *)
(***************************************************************************)
EXTENDS Naturals, FiniteSets

CONSTANTS ArenaLo, ArenaHi,  \* LO and HI: the arena
          HopMax,            \* 4096: a chain is followed no further
          Buckets            \* 16: the chains

ASSUME ArenaAssumption == /\ ArenaLo \in Nat /\ ArenaHi \in Nat
                          /\ HopMax \in Nat \ {0} /\ Buckets \in Nat \ {0}

\* The shape of a heap: buckets and nodes with words in them.
IsHeap(heap) ==
    /\ DOMAIN heap.head = 1..Buckets /\ IsFiniteSet(DOMAIN heap.end)
    /\ \A b \in DOMAIN heap.head : heap.head[b] \in Nat
    /\ \A n \in DOMAIN heap.end : heap.end[n] \in Nat
    /\ \A n \in DOMAIN heap.next : heap.next[n] \in Nat

InArena(n) == n % 4 = 0 /\ ArenaLo <= n /\ n < ArenaHi

NodeOk(n, end, next) ==
    /\ InArena(n)
    /\ ArenaLo <= end /\ end <= ArenaHi /\ n < end
    /\ next = 0 \/ InArena(next)

\* What vm_read32 returns at n + 4 and n + 12; nothing the walk needs lies outside
\* the heap's nodes.
EndOf(heap, n)  == IF n \in DOMAIN heap.end  THEN heap.end[n]  ELSE 0
NextOf(heap, n) == IF n \in DOMAIN heap.next THEN heap.next[n] ELSE 0
Ok(heap, n) == NodeOk(n, EndOf(heap, n), NextOf(heap, n))

----------------------------------------------------------------------------
(* The walk, read by read.                                                 *)

\* at: what is read next.
NewWalk == [at |-> "head", bucket |-> 1, node |-> 0, end |-> 0, hops |-> 0, bad |-> 0]

NextBucket(w) == [NewWalk EXCEPT !.at = IF w.bucket = Buckets THEN "done" ELSE "head",
                                 !.bucket = w.bucket + 1, !.bad = w.bad]

\* Mutant: a chain is followed to its end.
GoOnForever(w, node, hops) ==
    IF node # 0
    THEN [w EXCEPT !.at = "end", !.node = node, !.end = 0, !.hops = 0]
    ELSE NextBucket(w)

\* The loop's condition.
GoOn(w, node, hops) ==
    IF node # 0 /\ hops < HopMax
    THEN [w EXCEPT !.at = "end", !.node = node, !.end = 0, !.hops = hops]
    ELSE NextBucket(w)

ReadHead(w, heap) == GoOn(w, heap.head[w.bucket], 0)
ReadEnd(w, heap) == [w EXCEPT !.at = "next", !.end = EndOf(heap, w.node)]
ReadNext(w, heap) ==
    LET next == NextOf(heap, w.node)
    IN  IF NodeOk(w.node, w.end, next) THEN GoOn(w, next, w.hops + 1)
                                       ELSE NextBucket([w EXCEPT !.bad = @ + 1])

Read(w, heap) == CASE w.at = "head" -> ReadHead(w, heap)
                   [] w.at = "end"  -> ReadEnd(w, heap)
                   [] w.at = "next" -> ReadNext(w, heap)

\* What a walk may be, whatever it has read: each bucket before this one was counted at
\* most once.
Walks ==
    {w \in [at : {"head", "end", "next", "done"}, bucket : 1..(Buckets + 1), node : Nat,
            end : Nat, hops : 0..(HopMax - 1), bad : Nat] :
        w.bad < w.bucket /\ (w.at = "done" <=> w.bucket = Buckets + 1)}

\* From w the walk has got on to v: to the next bucket, or in the same one to a node
\* further on, or from a node's end pointer to its successor.
Ahead(w, v) == \/ v.bucket > w.bucket
               \/ v.bucket = w.bucket /\ w.at = "head" /\ v.at = "end"
               \/ v.bucket = w.bucket /\ w.at = "end" /\ v.at = "next" /\ v.hops = w.hops
               \/ v.bucket = w.bucket /\ w.at = "next" /\ v.at = "end" /\ v.hops > w.hops

----------------------------------------------------------------------------
(* The walk of a heap that does not change.                                *)

\* A turn of the walk's loop: 0 when it stops, at the chain's end or at a bad node.
Hop(heap, n) == IF n # 0 /\ Ok(heap, n) THEN NextOf(heap, n) ELSE 0

\* The nodes one bucket's walk comes to, at most HopMax of them.
Walk(heap, bucket) ==
    LET node[h \in 0..(HopMax - 1)] ==
            IF h = 0 THEN heap.head[bucket] ELSE Hop(heap, node[h - 1])
    IN  node

ChainBad(heap, bucket) ==
    LET node == Walk(heap, bucket)
    IN  \E h \in 0..(HopMax - 1) : node[h] # 0 /\ ~Ok(heap, node[h])

FreelistBad(heap) ==
    Cardinality({bucket \in DOMAIN heap.head : ChainBad(heap, bucket)})

----------------------------------------------------------------------------
(* What it should answer: the chains from which a bad node can be reached. *)

Addresses(heap) ==
    {heap.head[b] : b \in DOMAIN heap.head} \cup DOMAIN heap.next
        \cup {heap.next[n] : n \in DOMAIN heap.next}

\* S holds everything the chain of this bucket leads to.
Follows(heap, bucket, S) ==
    heap.head[bucket] \in S /\ \A n \in S \ {0} : Ok(heap, n) => NextOf(heap, n) \in S

LeadsAstray(heap, bucket) ==
    \A S \in SUBSET (Addresses(heap) \cup {0}) :
       Follows(heap, bucket, S) => \E n \in S \ {0} : ~Ok(heap, n)

ChainsBroken(heap) ==
    Cardinality({bucket \in DOMAIN heap.head : LeadsAstray(heap, bucket)})

\* The walk is long enough for the heap: fewer nodes than hops.
WithinReach(heap) == Cardinality(DOMAIN heap.end) < HopMax
=============================================================================
