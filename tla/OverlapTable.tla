---------------------------- MODULE OverlapTable ----------------------------
(***************************************************************************)
(* What the overlap table promises its readers, threads and locks aside:   *)
(* one call after the other is numbered, compared with every block kept so *)
(* far, and kept while there is room.                                      *)
(***************************************************************************)
EXTENDS Naturals, Sequences

CONSTANTS Block,       \* what a call may return
          MaxBlocks,   \* how many blocks are kept
          Meets(_, _)  \* the test on a new block and one in the table

VARIABLES seq,   \* the calls so far
          kept,  \* the blocks kept, each with its call
          hits   \* the pairs of calls reported

vars == <<seq, kept, hits>>

Init == seq = 0 /\ kept = <<>> /\ hits = {}

Note(b) ==
    /\ seq' = seq + 1
    /\ hits' = hits \cup
         {<<seq + 1, kept[i].seq>> : i \in {j \in DOMAIN kept : Meets(b, kept[j])}}
    /\ kept' = IF Len(kept) < MaxBlocks
               THEN Append(kept, [addr |-> b.addr, size |-> b.size, seq |-> seq + 1])
               ELSE kept

Next == \E b \in Block : Note(b)

Spec == Init /\ [][Next]_vars
=============================================================================
