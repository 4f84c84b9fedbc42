--------------------------- MODULE AllocWatchProofs ---------------------------
(***************************************************************************)
(* Proofs about the note hook (AllocWatch), for every set of threads, every*)
(* size of the tables and every block a call may return.                   *)
(***************************************************************************)
EXTENDS AllocWatch, SequenceTheorems, TLAPS

Inside(t) == step[t] \in {"compare", "append"}

\* g_lock is held by the thread that is between numbering and appending.
LockInv == \A t \in Thread : lock = t <=> Inside(t)

\* Numbers grow along the table; the number handed out last is not in it yet while
\* somebody holds the lock, and not in a counted pair before the comparison.
SeqInv ==
    /\ \A i, j \in DOMAIN blocks : i < j => blocks[i].seq < blocks[j].seq
    /\ \A i \in DOMAIN blocks : blocks[i].seq <= gSeq
    /\ \A p \in found : p[1] <= gSeq
    /\ \A t \in Thread : Inside(t) => \A i \in DOMAIN blocks : blocks[i].seq < gSeq
    /\ \A t \in Thread : step[t] = "compare" => \A p \in found : p[1] < gSeq

\* The counted pairs of blocks in the table are those that passed the code's test; so
\* are the pairs of the block that is about to enter it.
MeetInv ==
    /\ \A i, j \in DOMAIN blocks :
          i < j => (<<blocks[j].seq, blocks[i].seq>> \in found <=> Meet(blocks[j], blocks[i]))
    /\ \A t \in Thread : step[t] = "append" =>
          \A i \in DOMAIN blocks : <<gSeq, blocks[i].seq>> \in found <=> Meet(blk[t], blocks[i])

\* Whoever fills an entry fills one past every entry that was recorded alone, and the
\* count does not fall below those either.
FloorInv ==
    \A e \in solid :
       /\ e.at <= OwnerMax /\ e.at <= ownerN
       /\ \A t \in Thread : Filling(t) => e.at <= slot[t]

\* Where an entry recorded alone is, its block is.
SolidInv == \A e \in solid : ownerPtr[e.at] = e.addr /\ ownerLen[e.at] = e.size

\* A thread that fills an entry alone fills the next one, within the table.
AloneInv ==
    \A t \in alone : Filling(t) =>
       /\ \A u \in Thread : Filling(u) => u = t
       /\ slot[t] = ownerN /\ At(t) <= OwnerMax
       /\ step[t] \in {"len", "count"} => ownerPtr[At(t)] = blk[t].addr
       /\ step[t] = "count" => ownerLen[At(t)] = blk[t].size

TableInv == LockInv /\ SeqInv /\ MeetInv
OwnerInv == FloorInv /\ SolidInv /\ AloneInv

----------------------------------------------------------------------------
(* Types.                                                                  *)

LEMMA BlockSizes ==
    \A b \in NoteBlock \cup {NoBlock} : b.addr \in 0..(Top - 1) /\ b.size \in 0..(Top - 1)
  BY WatchAssumption DEF NoBlock

\* What the type of the overlap table says of its entries.
LEMMA Entries ==
    ASSUME AWTypeOK
    PROVE  /\ DOMAIN blocks = 1..Len(blocks) /\ Len(blocks) \in Nat /\ gSeq \in Nat
           /\ \A i \in DOMAIN blocks :
                 /\ blocks[i] \in KeptBlock
                 /\ blocks[i].seq \in Nat
           /\ \A p \in found : p[1] \in Nat
<1> USE DEF AWTypeOK
<1>1. DOMAIN blocks = 1..Len(blocks) /\ Len(blocks) \in Nat
  OBVIOUS
<1>2. \A i \in DOMAIN blocks : blocks[i] \in KeptBlock
  BY <1>1, ElementOfSeq
<1>3. \A p \in found : p[1] \in Nat
  OBVIOUS
<1> QED BY <1>1, <1>2, <1>3 DEF KeptBlock

LEMMA TypeInit == AWInit => AWTypeOK
<1> SUFFICES ASSUME AWInit PROVE AWTypeOK
  OBVIOUS
<1> USE DEF AWInit
<1>1. /\ step \in [Thread -> Step] /\ slot \in [Thread -> Nat]
      /\ now \in [Thread -> Word] /\ word \in Word
      /\ blk \in [Thread -> NoteBlock \cup {NoBlock}]
  BY DEF Step, Word
<1>2. blocks \in Seq(KeptBlock) /\ Len(blocks) <= MaxBlocks
  BY WatchAssumption
<1>3. /\ ownerPtr \in [1..OwnerMax -> 0..(Top - 1)]
      /\ ownerLen \in [1..OwnerMax -> 0..(Top - 1)]
  BY WatchAssumption
<1> QED BY <1>1, <1>2, <1>3 DEF AWTypeOK

\* Every step of the hook keeps the types.
LEMMA TypeStep ==
    ASSUME AWTypeOK, [AWNext]_awvars
    PROVE  AWTypeOK'
<1> USE DEF AWTypeOK, Step
<1>1. CASE UNCHANGED awvars
  BY <1>1 DEF awvars, ownervars, canaryvars, tablevars
<1>2. ASSUME NEW t \in Thread, NEW owns \in BOOLEAN, NEW b \in NoteBlock \cup {NoBlock},
             BeginNote(t, owns, b)
      PROVE  AWTypeOK'
  BY <1>2 DEF BeginNote, Moves, ownervars, canaryvars, tablevars, NoBlock
<1>3. ASSUME NEW t \in Thread, RecordFetch(t) \/ Reload(t) PROVE AWTypeOK'
  <2>1. /\ step' \in [Thread -> Step] /\ slot' \in [Thread -> Nat]
        /\ alone' \subseteq Thread
    BY <1>3 DEF RecordFetch, Reload, Moves, Joined
  <2> QED BY <1>3, <2>1 DEF RecordFetch, Reload, canaryvars, tablevars
<1>4. ASSUME NEW t \in Thread, RecordPtr(t) \/ RecordLen(t) PROVE AWTypeOK'
  <2>1. /\ ownerPtr' \in [1..OwnerMax -> 0..(Top - 1)]
        /\ ownerLen' \in [1..OwnerMax -> 0..(Top - 1)]
    BY <1>4, BlockSizes DEF RecordPtr, RecordLen
  <2>2. step' \in [Thread -> Step] /\ overrun' \in BOOLEAN
    BY <1>4 DEF RecordPtr, RecordLen, Moves
  <2> QED BY <1>4, <2>1, <2>2 DEF RecordPtr, RecordLen, canaryvars, tablevars
<1>5. ASSUME NEW t \in Thread, RecordCount(t) PROVE AWTypeOK'
  <2>1. [at |-> At(t), addr |-> blk[t].addr, size |-> blk[t].size] \in OwnerEntry
    BY BlockSizes DEF OwnerEntry, At
  <2>2. solid' \subseteq OwnerEntry /\ alone' \subseteq Thread
    BY <1>5, <2>1 DEF RecordCount
  <2>3. ownerN' \in Nat /\ step' \in [Thread -> Step] /\ slot' \in [Thread -> Nat]
    BY <1>5 DEF RecordCount, StoreCount, Moves
  <2> QED BY <1>5, <2>2, <2>3 DEF RecordCount, canaryvars, tablevars
<1>6. ASSUME NEW t \in Thread, SkipCanary(t) PROVE AWTypeOK'
  BY <1>6 DEF SkipCanary, AfterCanary, Moves, ownervars, canaryvars, tablevars
<1>7. ASSUME NEW t \in Thread, CanaryRead(t) PROVE AWTypeOK'
  BY <1>7 DEF CanaryRead, Moves, ownervars, tablevars
<1>8. ASSUME NEW t \in Thread, CanaryJudge(t) PROVE AWTypeOK'
  BY <1>8 DEF CanaryJudge, AfterCanary, Moves, ownervars, tablevars
<1>9. ASSUME NEW t \in Thread, Number(t) PROVE AWTypeOK'
  BY <1>9 DEF Number, Moves, ownervars, canaryvars
<1>10. ASSUME NEW t \in Thread, Compare(t) PROVE AWTypeOK'
  <2>1. found' \subseteq Nat \X Nat
    BY <1>10, Entries DEF Compare
  <2> QED BY <1>10, <2>1 DEF Compare, Moves, ownervars, canaryvars
<1>11. ASSUME NEW t \in Thread, KeepAndRelease(t) PROVE AWTypeOK'
  <2>1. Numbered(blk[t]) \in KeptBlock
    BY BlockSizes DEF Numbered, KeptBlock
  <2>2. blocks' \in Seq(KeptBlock) /\ Len(blocks') <= MaxBlocks
    <3>1. blocks \in Seq(KeptBlock) /\ Len(blocks) <= MaxBlocks
      OBVIOUS
    <3>2. blocks' = blocks \/ (Len(blocks) < MaxBlocks /\ blocks' = Append(blocks, Numbered(blk[t])))
      BY <1>11 DEF KeepAndRelease, KeepBlock
    <3>3. Append(blocks, Numbered(blk[t])) \in Seq(KeptBlock)
             /\ Len(Append(blocks, Numbered(blk[t]))) = Len(blocks) + 1
      BY <2>1, <3>1
    <3>4. Len(blocks) \in Nat /\ MaxBlocks \in Nat
      BY <3>1, WatchAssumption
    <3> HIDE DEF AWTypeOK
    <3>5. CASE blocks' = blocks
      BY <3>1, <3>5
    <3>6. CASE Len(blocks) < MaxBlocks /\ blocks' = Append(blocks, Numbered(blk[t]))
      BY <3>3, <3>4, <3>6
    <3> QED BY <3>2, <3>5, <3>6
  <2>3. lock' = NoThread /\ step' \in [Thread -> Step]
    BY <1>11 DEF KeepAndRelease, KeepBlock, Moves
  <2> QED BY <1>11, <2>2, <2>3 DEF KeepAndRelease, ownervars, canaryvars
<1>12. ASSUME Scribble PROVE AWTypeOK'
  BY <1>12 DEF Scribble, ownervars, tablevars
<1> QED BY <1>1, <1>2, <1>3, <1>4, <1>5, <1>6, <1>7, <1>8, <1>9, <1>10, <1>11, <1>12
        DEF AWNext, HookStep

\* The state of the hook is of its type, and the overlap table, which is filled under
\* g_lock, never grows past its array.
THEOREM TablesFit == AWSpec => []AWTypeOK
<1>1. AWTypeOK /\ [AWNext]_awvars => AWTypeOK'  BY TypeStep
<1> QED BY TypeInit, <1>1, PTL DEF AWSpec

----------------------------------------------------------------------------
(* The overlap table.                                                      *)

\* The steps of gt5p_alloc_record.
HookFills(t) ==
    RecordFetch(t) \/ Reload(t) \/ RecordPtr(t) \/ RecordLen(t) \/ RecordCount(t)

\* A step that touches neither the table nor who is inside keeps what the table's
\* invariant says.
LEMMA TableUntouched ==
    ASSUME AWTypeOK, TableInv, UNCHANGED tablevars,
           \A t \in Thread : \/ step'[t] = step[t] /\ blk'[t] = blk[t]
                             \/ ~Inside(t) /\ ~Inside(t)'
    PROVE  TableInv'
<1>1. LockInv'  BY DEF TableInv, LockInv, tablevars, Inside
<1>2. SeqInv'   BY DEF TableInv, SeqInv, tablevars, Inside
<1>3. MeetInv'
  <2>1. \A t \in Thread : step'[t] = "append" => step[t] = "append" /\ blk'[t] = blk[t]
    BY DEF Inside
  <2> QED BY <2>1 DEF TableInv, MeetInv, tablevars, Meet, End
<1> QED BY <1>1, <1>2, <1>3 DEF TableInv

LEMMA NumberStep ==
    ASSUME AWTypeOK, TableInv, NEW t \in Thread, Number(t)
    PROVE  TableInv'
<1> USE DEF TableInv, AWTypeOK, Inside
<1>1. \A u \in Thread : ~Inside(u)
  BY WatchAssumption DEF Number, LockInv
<1>2. \A u \in Thread : step'[u] = IF u = t THEN "compare" ELSE step[u]
  BY DEF Number, Moves
<1>3. LockInv'  BY <1>1, <1>2 DEF Number, LockInv
<1>4. SeqInv'
  <2>1. blocks' = blocks /\ found' = found /\ gSeq' = gSeq + 1
    BY DEF Number
  <2>2. /\ gSeq \in Nat
        /\ \A i \in DOMAIN blocks : blocks[i].seq \in Nat /\ blocks[i].seq < gSeq + 1
        /\ \A p \in found : p[1] \in Nat /\ p[1] < gSeq + 1 /\ p[1] <= gSeq + 1
    <3>1. /\ gSeq \in Nat
          /\ \A i \in DOMAIN blocks : blocks[i].seq \in Nat
          /\ \A p \in found : p[1] \in Nat
      BY Entries
    <3>2. /\ \A i \in DOMAIN blocks : blocks[i].seq <= gSeq
          /\ \A p \in found : p[1] <= gSeq
      BY DEF SeqInv
    <3> HIDE DEF AWTypeOK, TableInv
    <3> QED BY <3>1, <3>2
  <2>3. \A i, j \in DOMAIN blocks : i < j => blocks[i].seq < blocks[j].seq
    BY DEF SeqInv
  <2> HIDE DEF AWTypeOK, TableInv
  <2> QED BY <2>1, <2>2, <2>3 DEF SeqInv
<1>5. MeetInv'
  <2>1. \A u \in Thread : step'[u] # "append"
    BY <1>1, <1>2
  <2> QED BY <2>1 DEF MeetInv, Number, Meet, End
<1> QED BY <1>3, <1>4, <1>5

LEMMA CompareStep ==
    ASSUME AWTypeOK, TableInv, NEW t \in Thread, Compare(t)
    PROVE  TableInv'
<1> USE DEF TableInv, AWTypeOK, Inside
<1>1. /\ step[t] = "compare"
      /\ \A u \in Thread : step'[u] = IF u = t THEN "append" ELSE step[u]
      /\ \A u \in Thread : u # t => ~Inside(u)
  BY DEF Compare, Moves, LockInv
<1>2. LockInv'  BY <1>1 DEF Compare, LockInv
<1>3. /\ blocks' = blocks /\ gSeq' = gSeq /\ blk' = blk
      /\ \A i \in DOMAIN blocks : blocks[i].seq \in Nat /\ blocks[i].seq < gSeq
      /\ \A p \in found : p[1] \in Nat /\ p[1] < gSeq
      /\ \A i, j \in DOMAIN blocks : i < j => blocks[i].seq < blocks[j].seq
  <2>1. blocks' = blocks /\ gSeq' = gSeq /\ blk' = blk
    BY DEF Compare
  <2>2. /\ \A i \in DOMAIN blocks : blocks[i].seq \in Nat
        /\ \A p \in found : p[1] \in Nat
    BY Entries
  <2> QED BY <1>1, <2>1, <2>2 DEF SeqInv
<1> DEFINE Pairs == {<<gSeq, blocks[i].seq>> : i \in {j \in DOMAIN blocks : Meet(blk[t], blocks[j])}}
<1>4. found' = found \cup Pairs /\ \A p \in Pairs : p[1] = gSeq
  BY DEF Compare
<1>5. SeqInv'
  <2>1. \A u \in Thread : step'[u] # "compare"
    BY <1>1
  <2>2. \A p \in found' : p[1] <= gSeq
    BY <1>3, <1>4
  <2> QED BY <1>3, <2>1, <2>2 DEF SeqInv
<1>6. \A i, j \in DOMAIN blocks : blocks[i].seq = blocks[j].seq => i = j
  <2>1. DOMAIN blocks = 1..Len(blocks) /\ Len(blocks) \in Nat
    BY Entries
  <2> HIDE DEF AWTypeOK, TableInv
  <2> QED BY <1>3, <2>1
<1>7. \A i \in DOMAIN blocks : <<gSeq, blocks[i].seq>> \in found' <=> Meet(blk[t], blocks[i])
  <2> SUFFICES ASSUME NEW i \in DOMAIN blocks
               PROVE  <<gSeq, blocks[i].seq>> \in found' <=> Meet(blk[t], blocks[i])
    OBVIOUS
  <2>1. <<gSeq, blocks[i].seq>> \notin found
    BY <1>3
  <2>2. ASSUME Meet(blk[t], blocks[i]) PROVE <<gSeq, blocks[i].seq>> \in Pairs
    BY <2>2
  <2>3. ASSUME <<gSeq, blocks[i].seq>> \in Pairs PROVE Meet(blk[t], blocks[i])
    <3>1. PICK j \in DOMAIN blocks :
             Meet(blk[t], blocks[j]) /\ <<gSeq, blocks[i].seq>> = <<gSeq, blocks[j].seq>>
      BY <2>3
    <3>2. j = i  BY <1>6, <3>1
    <3> QED BY <3>1, <3>2
  <2> QED BY <1>4, <2>1, <2>2, <2>3
<1>8. MeetInv'
  <2>1. \A i, j \in DOMAIN blocks : i < j =>
           (<<blocks[j].seq, blocks[i].seq>> \in found' <=> Meet(blocks[j], blocks[i]))
    <3>1. \A i, j \in DOMAIN blocks : <<blocks[j].seq, blocks[i].seq>> \notin Pairs
      BY <1>3, <1>4
    <3> QED BY <1>4, <3>1 DEF MeetInv
  <2>2. \A u \in Thread : step'[u] = "append" => u = t
    BY <1>1
  <2>3. /\ blk'[t] = blk[t] /\ DOMAIN blocks' = DOMAIN blocks
        /\ \A a, b : Meet(a, b)' <=> Meet(a, b)
    BY <1>3 DEF Meet, End
  <2> QED BY <1>3, <1>7, <2>1, <2>2, <2>3 DEF MeetInv, Meet, End
<1> QED BY <1>2, <1>5, <1>8

LEMMA KeepStep ==
    ASSUME AWTypeOK, TableInv, NEW t \in Thread, KeepAndRelease(t)
    PROVE  TableInv'
<1> USE DEF TableInv, AWTypeOK, Inside
<1>1. /\ step[t] = "append"
      /\ \A u \in Thread : step'[u] = IF u = t THEN "idle" ELSE step[u]
      /\ \A u \in Thread : ~Inside(u)'
  BY DEF KeepAndRelease, Moves, LockInv
<1>2. LockInv'
  BY <1>1, WatchAssumption DEF KeepAndRelease, KeepBlock, LockInv
<1>3. /\ gSeq' = gSeq /\ found' = found
      /\ \A i \in DOMAIN blocks : blocks[i].seq \in Nat /\ blocks[i].seq < gSeq
  <2>1. gSeq' = gSeq /\ found' = found
    BY DEF KeepAndRelease
  <2>2. \A i \in DOMAIN blocks : blocks[i].seq \in Nat
    BY Entries
  <2> QED BY <1>1, <2>1, <2>2 DEF SeqInv
<1>4. CASE Len(blocks) < MaxBlocks
  <2> DEFINE new == Numbered(blk[t])
             k == Len(blocks) + 1
  <2>1. blocks' = Append(blocks, new)
    BY <1>4 DEF KeepAndRelease, KeepBlock
  <2>2. /\ DOMAIN blocks' = 1..k /\ DOMAIN blocks = 1..(k - 1) /\ k \in Nat
        /\ \A i \in 1..(k - 1) : blocks'[i] = blocks[i]
        /\ blocks'[k] = new
    BY <2>1
  <2>3. new.seq = gSeq /\ new.addr = blk[t].addr /\ new.size = blk[t].size
    BY DEF Numbered
  <2>4. SeqInv'
    <3> HIDE DEF new, k
    <3>4. gSeq \in Nat  BY Entries
    <3>5. \A i, j \in DOMAIN blocks : i < j => blocks[i].seq < blocks[j].seq
      BY DEF SeqInv
    <3>6. /\ \A i \in 1..(k - 1) : blocks'[i].seq \in Nat /\ blocks'[i].seq < gSeq
          /\ \A i, j \in 1..(k - 1) : i < j => blocks'[i].seq < blocks'[j].seq
          /\ blocks'[k].seq = gSeq
      BY <2>2, <2>3, <1>3, <3>5
    <3> HIDE DEF AWTypeOK, TableInv
    <3>1. \A i \in DOMAIN blocks' : blocks'[i].seq <= gSeq
      <4> SUFFICES ASSUME NEW i \in 1..k PROVE blocks'[i].seq <= gSeq
        BY <2>2
      <4> QED BY <2>2, <3>4, <3>6
    <3>2. \A i, j \in DOMAIN blocks' : i < j => blocks'[i].seq < blocks'[j].seq
      <4> SUFFICES ASSUME NEW i \in 1..k, NEW j \in 1..k, i < j
                   PROVE  blocks'[i].seq < blocks'[j].seq
        BY <2>2
      <4>1. i \in 1..(k - 1)  BY <2>2
      <4> QED BY <2>2, <4>1, <3>6
    <3>7. \A p \in found : p[1] <= gSeq
      BY DEF SeqInv, TableInv
    <3>3. \A p \in found' : p[1] <= gSeq'
      BY <1>3, <3>7
    <3> QED BY <1>1, <1>3, <3>1, <3>2, <3>3 DEF SeqInv
  <2>5. MeetInv'
    <3>1. \A i, j \in 1..(k - 1) : i < j =>
             (<<blocks[j].seq, blocks[i].seq>> \in found <=> Meet(blocks[j], blocks[i]))
      BY <2>2 DEF MeetInv
    <3>2. \A i \in 1..(k - 1) : <<gSeq, blocks[i].seq>> \in found <=> Meet(new, blocks[i])
      BY <1>1, <2>2, <2>3 DEF MeetInv, Meet, End
    <3>3. \A i, j \in DOMAIN blocks' : i < j =>
             (<<blocks'[j].seq, blocks'[i].seq>> \in found <=> Meet(blocks'[j], blocks'[i]))
      <4> SUFFICES ASSUME NEW i \in 1..k, NEW j \in 1..k, i < j
                   PROVE  <<blocks'[j].seq, blocks'[i].seq>> \in found
                             <=> Meet(blocks'[j], blocks'[i])
        BY <2>2
      <4>1. i \in 1..(k - 1) /\ blocks'[i] = blocks[i]
        BY <2>2
      <4>2. CASE j = k
        BY <4>1, <4>2, <2>2, <2>3, <3>2
      <4>3. CASE j \in 1..(k - 1)
        BY <4>1, <4>3, <2>2, <3>1
      <4> QED BY <4>2, <4>3, <2>2
    <3> QED BY <1>1, <1>3, <3>3 DEF MeetInv, Meet, End
  <2> QED BY <1>2, <2>4, <2>5
<1>5. CASE ~(Len(blocks) < MaxBlocks)
  <2>1. blocks' = blocks
    BY <1>5 DEF KeepAndRelease, KeepBlock
  <2>2. SeqInv'  BY <1>1, <1>3, <2>1 DEF SeqInv
  <2>3. MeetInv'  BY <1>1, <1>3, <2>1 DEF MeetInv, Meet, End
  <2> QED BY <1>2, <2>2, <2>3
<1> QED BY <1>4, <1>5

LEMMA TableStep ==
    ASSUME AWTypeOK, TableInv, [AWNext]_awvars
    PROVE  TableInv'
<1> USE DEF Inside
<1>1. CASE UNCHANGED awvars
  BY <1>1, TableUntouched DEF awvars
<1>2. ASSUME NEW t \in Thread, NEW owns \in BOOLEAN, NEW b \in NoteBlock \cup {NoBlock},
             BeginNote(t, owns, b)
      PROVE  TableInv'
  BY <1>2, TableUntouched DEF BeginNote, Moves, AWTypeOK
<1>3. ASSUME NEW t \in Thread, HookFills(t)
      PROVE  TableInv'
  BY <1>3, TableUntouched
     DEF HookFills, RecordFetch, Reload, RecordPtr, RecordLen, RecordCount, Moves, AWTypeOK
<1>4. ASSUME NEW t \in Thread, SkipCanary(t) \/ CanaryRead(t) \/ CanaryJudge(t)
      PROVE  TableInv'
  BY <1>4, TableUntouched DEF SkipCanary, CanaryRead, CanaryJudge, AfterCanary, Moves, AWTypeOK
<1>5. ASSUME Scribble PROVE TableInv'
  BY <1>5, TableUntouched DEF Scribble
<1> QED BY <1>1, <1>2, <1>3, <1>4, <1>5, NumberStep, CompareStep, KeepStep
        DEF AWNext, HookStep, HookFills

\* The code's test and the overlap of two ranges.
LEMMA MeetIsOverlap ==
    ASSUME NEW a \in KeptBlock,
           NEW b \in KeptBlock
    PROVE  /\ Meet(b, a) => Overlap(a, b)
           /\ Overlap(a, b) /\ Fits(a) /\ Fits(b) => Meet(b, a)
  BY WatchAssumption DEF Meet, End, Overlap, Fits, KeptBlock

LEMMA TableInit == AWInit => TableInv
  BY WatchAssumption DEF AWInit, TableInv, LockInv, SeqInv, MeetInv, Inside

\* Of any two blocks in the table an overlap is counted exactly when there is one, in
\* whatever order the threads came to the lock, the 32-bit wrap aside.
THEOREM OverlapsFound == AWSpec => []FoundExactly
<1>1. AWTypeOK /\ TableInv => FoundExactly
  <2> SUFFICES ASSUME AWTypeOK, TableInv, NEW i \in DOMAIN blocks, NEW j \in DOMAIN blocks,
                      i < j
               PROVE  /\ Overlap(blocks[i], blocks[j]) /\ Fits(blocks[i]) /\ Fits(blocks[j])
                            => <<blocks[j].seq, blocks[i].seq>> \in found
                      /\ <<blocks[j].seq, blocks[i].seq>> \in found
                            => Overlap(blocks[i], blocks[j])
    BY DEF FoundExactly
  <2>1. <<blocks[j].seq, blocks[i].seq>> \in found <=> Meet(blocks[j], blocks[i])
    BY DEF TableInv, MeetInv
  <2>2. /\ Meet(blocks[j], blocks[i]) => Overlap(blocks[i], blocks[j])
        /\ Overlap(blocks[i], blocks[j]) /\ Fits(blocks[i]) /\ Fits(blocks[j])
              => Meet(blocks[j], blocks[i])
    BY Entries, MeetIsOverlap
  <2> QED BY <2>1, <2>2
<1>2. AWTypeOK /\ TableInv /\ [AWNext]_awvars => (AWTypeOK /\ TableInv)'
  BY TypeStep, TableStep
<1> QED BY TypeInit, TableInit, <1>1, <1>2, PTL DEF AWSpec

----------------------------------------------------------------------------
(* The owner table.                                                        *)

\* A step that fills no entry and moves nobody into, out of or between the stores.
LEMMA OwnerUntouched ==
    ASSUME AWTypeOK, OwnerInv, UNCHANGED ownervars,
           \A t \in Thread : \/ step'[t] = step[t] /\ blk'[t] = blk[t]
                             \/ ~Filling(t)'
    PROVE  OwnerInv'
<1>1. \A t \in Thread : Filling(t)' => step'[t] = step[t] /\ blk'[t] = blk[t] /\ Filling(t)
  BY DEF Filling
<1>2. FloorInv' /\ SolidInv'
  BY <1>1 DEF OwnerInv, FloorInv, SolidInv, ownervars
<1>3. AloneInv'
  BY <1>1 DEF OwnerInv, AloneInv, At, ownervars, AWTypeOK
<1> QED BY <1>2, <1>3 DEF OwnerInv

LEMMA FillStep ==
    ASSUME AWTypeOK, OwnerInv, NEW t \in Thread, HookFills(t)
    PROVE  OwnerInv'
<1> USE DEF OwnerInv, AWTypeOK
<1>0. /\ ownerN \in Nat /\ OwnerMax \in Nat /\ \A u \in Thread : slot[u] \in Nat
      /\ \A e \in solid : e.at \in Nat
  BY WatchAssumption DEF OwnerEntry
<1>1. CASE RecordFetch(t)
  <2>1. \A u \in Thread : u # t => step'[u] = step[u] /\ slot'[u] = slot[u]
    BY <1>1 DEF RecordFetch, Moves
  <2>2. /\ ~Filling(t) /\ slot'[t] = ownerN
        /\ step'[t] = IF ownerN < OwnerMax THEN "ptr" ELSE "canary"
        /\ UNCHANGED <<blk, ownerPtr, ownerLen, ownerN, solid>>
    BY <1>1 DEF RecordFetch, Moves, Filling
  <2>3. FloorInv'
    BY <2>1, <2>2 DEF FloorInv, Filling
  <2>4. SolidInv'
    BY <2>2 DEF SolidInv
  <2>5. ASSUME NEW a \in alone', Filling(a)'
        PROVE  (/\ \A u \in Thread : Filling(u) => u = a
                /\ slot[a] = ownerN /\ At(a) <= OwnerMax
                /\ step[a] \in {"len", "count"} => ownerPtr[At(a)] = blk[a].addr
                /\ step[a] = "count" => ownerLen[At(a)] = blk[a].size)'
    <3>1. alone' = Joined(t, ownerN < OwnerMax)
      BY <1>1 DEF RecordFetch
    <3>2. CASE ~(ownerN < OwnerMax)
      <4>1. alone' = alone /\ ~Filling(t)'
        BY <2>2, <3>1, <3>2 DEF Joined, Filling
      <4> QED BY <2>1, <2>2, <2>5, <4>1 DEF AloneInv, Filling, At
    <3>3. CASE ownerN < OwnerMax
      <4>1. (\A u \in Thread : ~Filling(u)) /\ a = t
        BY <2>5, <3>1, <3>3 DEF Joined
      <4>2. step'[t] = "ptr" /\ At(t)' = ownerN + 1
        BY <2>2, <3>3 DEF At
      <4>3. \A u \in Thread : Filling(u)' => u = t
        BY <2>1, <4>1 DEF Filling
      <4> QED BY <1>0, <2>2, <3>3, <4>1, <4>2, <4>3
    <3> QED BY <3>2, <3>3
  <2>6. AloneInv'
    BY <2>5 DEF AloneInv
  <2> QED BY <2>3, <2>4, <2>6
<1>2. CASE Reload(t)
  <2>1. /\ Filling(t) /\ slot[t] # ownerN
        /\ \A u \in Thread : slot'[u] = IF u = t THEN ownerN ELSE slot[u]
        /\ UNCHANGED <<step, blk, ownerPtr, ownerLen, ownerN, alone, solid>>
    BY <1>2 DEF Reload
  <2>2. FloorInv' /\ SolidInv'
    BY <2>1 DEF FloorInv, SolidInv, Filling
  <2>3. \A a \in alone : ~Filling(a)
    BY <2>1 DEF AloneInv
  <2>4. AloneInv'
    BY <2>1, <2>3 DEF AloneInv, Filling
  <2> QED BY <2>2, <2>4
<1>3. CASE RecordPtr(t) \/ RecordLen(t)
  <2>1. /\ Filling(t) /\ \A u \in Thread : Filling(u)' <=> Filling(u)
        /\ \A u \in Thread : u # t => step'[u] = step[u]
        /\ UNCHANGED <<blk, slot, ownerN, alone, solid>>
    BY <1>3 DEF RecordPtr, RecordLen, Moves, Filling
  <2>2. /\ \A i \in 1..OwnerMax : i # At(t) => ownerPtr'[i] = ownerPtr[i]
                                               /\ ownerLen'[i] = ownerLen[i]
        /\ RecordPtr(t) /\ At(t) <= OwnerMax => ownerPtr'[At(t)] = blk[t].addr
        /\ RecordLen(t) /\ At(t) <= OwnerMax => /\ ownerLen'[At(t)] = blk[t].size
                                                /\ ownerPtr' = ownerPtr
    BY <1>0, <1>3 DEF RecordPtr, RecordLen, At
  <2>3. FloorInv'
    BY <2>1 DEF FloorInv
  <2>4. SolidInv'
    <3>1. \A e \in solid : e.at \in 1..OwnerMax \/ e.at = 0
      BY <1>0 DEF FloorInv
    <3>2. \A e \in solid : e.at # At(t)
      BY <1>0, <2>1 DEF FloorInv, At
    <3>3. /\ DOMAIN ownerPtr = 1..OwnerMax /\ DOMAIN ownerLen = 1..OwnerMax
          /\ \A i : i # At(t) /\ i \in 1..OwnerMax =>
                ownerPtr'[i] = ownerPtr[i] /\ ownerLen'[i] = ownerLen[i]
      BY <2>2
    <3>4. \A e \in solid : e.at # 0
      BY DEF FloorInv, OwnerEntry
    <3> QED BY <2>1, <3>1, <3>2, <3>3, <3>4 DEF SolidInv
  <2>5. AloneInv'
    <3> SUFFICES ASSUME NEW a \in alone, Filling(a)
                 PROVE  (/\ \A u \in Thread : Filling(u) => u = a
                         /\ slot[a] = ownerN /\ At(a) <= OwnerMax
                         /\ step[a] \in {"len", "count"} => ownerPtr[At(a)] = blk[a].addr
                         /\ step[a] = "count" => ownerLen[At(a)] = blk[a].size)'
      BY <2>1 DEF AloneInv
    <3>1. /\ a = t /\ slot[t] = ownerN /\ At(t) <= OwnerMax
          /\ \A u \in Thread : Filling(u) => u = t
          /\ step[t] \in {"len", "count"} => ownerPtr[At(t)] = blk[t].addr
      BY <2>1 DEF AloneInv
    <3>2. CASE RecordPtr(t)
      <4>1. step'[t] = "len"
        BY <3>2 DEF RecordPtr, Moves
      <4> QED BY <2>1, <2>2, <3>1, <3>2, <4>1 DEF At
    <3>3. CASE RecordLen(t)
      <4>1. step[t] = "len" /\ step'[t] = "count"
        BY <3>3 DEF RecordLen, Moves
      <4> QED BY <2>1, <2>2, <3>1, <3>3, <4>1 DEF At
    <3> QED BY <1>3, <3>2, <3>3
  <2> QED BY <2>3, <2>4, <2>5
<1>4. CASE RecordCount(t)
  <2>1. /\ step[t] = "count" /\ Filling(t) /\ ~Filling(t)'
        /\ ownerN' = At(t) /\ At(t) = slot[t] + 1
        /\ \A u \in Thread : u # t => step'[u] = step[u] /\ slot'[u] = slot[u]
        /\ UNCHANGED <<blk, ownerPtr, ownerLen>> /\ alone' = alone \ {t}
    BY <1>4 DEF RecordCount, StoreCount, Moves, Filling, At
  <2> DEFINE new == [at |-> At(t), addr |-> blk[t].addr, size |-> blk[t].size]
  <2>2. solid' = IF t \in alone THEN solid \cup {new} ELSE solid
    BY <1>4 DEF RecordCount
  <2>3. ASSUME t \in alone
        PROVE  /\ At(t) <= OwnerMax
               /\ ownerPtr[At(t)] = blk[t].addr /\ ownerLen[At(t)] = blk[t].size
               /\ \A u \in Thread : Filling(u) => u = t
    BY <2>1, <2>3 DEF AloneInv
  <2>4. \A u \in Thread : Filling(u)' => Filling(u) /\ u # t
    BY <2>1 DEF Filling
  <2>5. FloorInv'
    <3>1. ASSUME NEW e \in solid
          PROVE  /\ e.at <= OwnerMax /\ e.at <= ownerN'
                 /\ \A u \in Thread : Filling(u)' => e.at <= slot'[u]
      <4>1. e.at <= OwnerMax /\ e.at <= slot[t] /\ e.at \in Nat /\ slot[t] \in Nat
        BY <1>0, <2>1 DEF FloorInv
      <4>2. \A u \in Thread : Filling(u)' => e.at <= slot'[u]
        BY <2>1, <2>4 DEF FloorInv
      <4> QED BY <2>1, <4>1, <4>2
    <3>2. ASSUME t \in alone
          PROVE  /\ new.at <= OwnerMax /\ new.at <= ownerN'
                 /\ \A u \in Thread : ~Filling(u)'
      BY <1>0, <2>1, <2>3, <2>4, <3>2
    <3> HIDE DEF new
    <3> QED BY <2>2, <3>1, <3>2 DEF FloorInv
  <2>6. SolidInv'
    BY <2>1, <2>2, <2>3 DEF SolidInv
  <2>7. AloneInv'
    BY <2>1, <2>3, <2>4 DEF AloneInv
  <2> QED BY <2>5, <2>6, <2>7
<1> QED BY <1>1, <1>2, <1>3, <1>4 DEF HookFills

LEMMA OwnerStep ==
    ASSUME AWTypeOK, OwnerInv, [AWNext]_awvars
    PROVE  OwnerInv'
<1>1. CASE UNCHANGED awvars
  BY <1>1, OwnerUntouched DEF awvars
<1>2. ASSUME NEW t \in Thread, NEW owns \in BOOLEAN, NEW b \in NoteBlock \cup {NoBlock},
             BeginNote(t, owns, b)
      PROVE  OwnerInv'
  BY <1>2, OwnerUntouched DEF BeginNote, Moves, AWTypeOK, Filling
<1>3. ASSUME NEW t \in Thread, HookFills(t) PROVE OwnerInv'
  BY <1>3, FillStep
<1>4. ASSUME NEW t \in Thread, SkipCanary(t) \/ CanaryRead(t) \/ CanaryJudge(t)
      PROVE  OwnerInv'
  BY <1>4, OwnerUntouched
     DEF SkipCanary, CanaryRead, CanaryJudge, AfterCanary, Moves, AWTypeOK, Filling
<1>5. ASSUME NEW t \in Thread, Number(t) \/ Compare(t) \/ KeepAndRelease(t)
      PROVE  OwnerInv'
  BY <1>5, OwnerUntouched DEF Number, Compare, KeepAndRelease, Moves, AWTypeOK, Filling
<1>6. ASSUME Scribble PROVE OwnerInv'
  BY <1>6, OwnerUntouched DEF Scribble
<1> QED BY <1>1, <1>2, <1>3, <1>4, <1>5, <1>6 DEF AWNext, HookStep, HookFills

\* The owner table has no lock, and each access may read g_alloc_n again.  A block that
\* was recorded while no other was stays in it all the same, counted and whole, and
\* within the array, whatever races there are before and after.
THEOREM OwnersRecorded == AWSpec => []OwnersWhole
<1>1. AWInit => OwnerInv
  BY DEF AWInit, OwnerInv, FloorInv, SolidInv, AloneInv
<1>2. AWTypeOK /\ OwnerInv /\ [AWNext]_awvars => OwnerInv'
  BY OwnerStep
<1>3. OwnerInv => OwnersWhole
  BY DEF OwnerInv, FloorInv, SolidInv, OwnersWhole
<1> QED BY <1>1, <1>2, <1>3, TablesFit, PTL DEF AWSpec

----------------------------------------------------------------------------
(* The canary.                                                             *)

Judging(t) == step[t] = "judge"

\* No two threads are between reading the canary word and judging what they read.
OneJudges == \A t, u \in Thread : Judging(t) /\ Judging(u) => t = u

\* The word was right once: it is still, or was overwritten.
WasRight == word = "want" \/ turned

\* What is known of the word was true when it was read; who reads it wrong although
\* it was seen right does so because it was overwritten.
CanaryInv ==
    /\ seen => WasRight
    /\ broken => turned
    /\ \A t \in Thread : Judging(t) =>
          /\ now[t] = "want" => WasRight
          /\ seen /\ now[t] # "want" => turned

LEMMA CanaryInit == AWInit => CanaryInv
  BY DEF AWInit, CanaryInv, Judging

\* A step that leaves the canary alone and brings nobody to judge it.
LEMMA CanaryUntouched ==
    ASSUME CanaryInv, UNCHANGED canaryvars,
           \A t \in Thread : Judging(t)' => Judging(t)
    PROVE  CanaryInv'
  BY DEF CanaryInv, canaryvars, WasRight, Judging

LEMMA CanaryStep ==
    ASSUME AWTypeOK, CanaryInv, OneJudges, [AWNext]_awvars
    PROVE  CanaryInv'
<1>1. CASE UNCHANGED awvars
  BY <1>1, CanaryUntouched DEF awvars, Judging
<1>2. ASSUME NEW t \in Thread, NEW owns \in BOOLEAN, NEW b \in NoteBlock \cup {NoBlock},
             BeginNote(t, owns, b)
      PROVE  CanaryInv'
  BY <1>2, CanaryUntouched DEF BeginNote, Moves, AWTypeOK, Judging
<1>3. ASSUME NEW t \in Thread, HookFills(t)
      PROVE  CanaryInv'
  BY <1>3, CanaryUntouched
     DEF HookFills, RecordFetch, Reload, RecordPtr, RecordLen, RecordCount, Moves, AWTypeOK, Judging
<1>4. ASSUME NEW t \in Thread, Number(t) \/ Compare(t) \/ KeepAndRelease(t)
      PROVE  CanaryInv'
  BY <1>4, CanaryUntouched DEF Number, Compare, KeepAndRelease, Moves, AWTypeOK, Judging
<1>5. ASSUME NEW t \in Thread, SkipCanary(t) PROVE CanaryInv'
  BY <1>5, CanaryUntouched DEF SkipCanary, AfterCanary, Moves, AWTypeOK, Judging
<1>6. ASSUME NEW t \in Thread, CanaryRead(t) PROVE CanaryInv'
  <2>1. \A u \in Thread : Judging(u)' => u = t \/ Judging(u)
    BY <1>6 DEF CanaryRead, Moves, AWTypeOK, Judging
  <2>2. \A u \in Thread : now'[u] = IF u = t THEN word ELSE now[u]
    BY <1>6 DEF CanaryRead, AWTypeOK
  <2> QED BY <1>6, <2>1, <2>2 DEF CanaryRead, CanaryInv, WasRight
<1>7. ASSUME NEW t \in Thread, CanaryJudge(t) PROVE CanaryInv'
  <2>1. Judging(t) /\ \A u \in Thread : ~Judging(u)'
    BY <1>7 DEF CanaryJudge, Moves, AfterCanary, AWTypeOK, OneJudges, Judging
  <2> QED BY <1>7, <2>1 DEF CanaryJudge, CanaryInv, WasRight
<1>8. ASSUME Scribble PROVE CanaryInv'
  BY <1>8 DEF Scribble, CanaryInv, WasRight, Judging
<1> QED BY <1>1, <1>2, <1>3, <1>4, <1>5, <1>6, <1>7, <1>8 DEF AWNext, HookStep, HookFills

\* The canary reports a change only of a word that did change, whatever stores to it
\* and whenever, as long as no two threads are between its two reads at once.
THEOREM CanaryExact == AWSpec /\ []OneJudges => []CanaryTrue
<1>1. AWTypeOK /\ CanaryInv /\ OneJudges /\ [AWNext]_awvars => CanaryInv'
  BY CanaryStep
<1>2. CanaryInv => CanaryTrue
  BY DEF CanaryInv, CanaryTrue
<1> QED BY CanaryInit, TablesFit, <1>1, <1>2, PTL DEF AWSpec

\* So it is on a title whose wrapped functions run on one thread, which is what the
\* comment on canary_check has in mind.
THEOREM CanaryExactAlone ==
    ASSUME \A t, u \in Thread : t = u
    PROVE  AWSpec => []CanaryTrue
<1>1. OneJudges
  BY DEF OneJudges
<1> QED BY <1>1, CanaryExact, PTL


----------------------------------------------------------------------------
(* The overlap table, each call one step.                                  *)

\* Numbered are real blocks only; what the call that is about to be kept has reported
\* names it and a block of the table.
CallInv ==
    /\ \A t \in Thread : step[t] \in {"number", "compare", "append"} =>
          blk[t] \in {b \in NoteBlock : b.addr # 0 /\ b.size # 0}
    /\ \A t \in Thread : step[t] = "append" =>
          \A p \in found : p[1] = gSeq => \E i \in DOMAIN blocks : p = <<gSeq, blocks[i].seq>>

LEMMA CallInit == AWInit => CallInv
  BY DEF AWInit, CallInv

LEMMA CallStep ==
    ASSUME AWTypeOK, TableInv, CallInv, [AWNext]_awvars
    PROVE  CallInv'
<1> USE DEF CallInv, AWTypeOK
<1>1. CASE UNCHANGED awvars
  BY <1>1 DEF awvars, tablevars
<1>2. ASSUME NEW t \in Thread, NEW owns \in BOOLEAN, NEW b \in NoteBlock \cup {NoBlock},
             BeginNote(t, owns, b)
      PROVE  CallInv'
  BY <1>2 DEF BeginNote, Moves, tablevars
<1>3. ASSUME NEW t \in Thread, HookFills(t)
      PROVE  CallInv'
  BY <1>3
     DEF HookFills, RecordFetch, Reload, RecordPtr, RecordLen, RecordCount, Moves, tablevars
<1>4. ASSUME NEW t \in Thread, SkipCanary(t) \/ CanaryRead(t) \/ CanaryJudge(t)
      PROVE  CallInv'
  <2>1. blk[t].addr # 0 => blk[t] \in NoteBlock
    BY DEF NoBlock
  <2>2. /\ blk' = blk /\ UNCHANGED tablevars
        /\ \A u \in Thread : u # t => step'[u] = step[u]
        /\ step'[t] \in {"judge", AfterCanary(t)}
    BY <1>4 DEF SkipCanary, CanaryRead, CanaryJudge, Moves
  <2>3. /\ step'[t] \notin {"compare", "append"}
        /\ step'[t] = "number" => blk[t].addr # 0 /\ blk[t].size # 0
    BY <2>2 DEF AfterCanary
  <2> QED BY <2>1, <2>2, <2>3 DEF tablevars
<1>5. ASSUME Scribble PROVE CallInv'
  BY <1>5 DEF Scribble, tablevars
<1>6. ASSUME NEW t \in Thread, Number(t) \/ KeepAndRelease(t) PROVE CallInv'
  <2>1. \A u \in Thread : step'[u] # "append"
    BY <1>6, WatchAssumption
       DEF Number, KeepAndRelease, Moves, TableInv, LockInv, Inside
  <2> QED BY <1>6, <2>1 DEF Number, KeepAndRelease, Moves
<1>7. ASSUME NEW t \in Thread, Compare(t) PROVE CallInv'
  <2>1. \A p \in found : p[1] # gSeq
    <3>1. \A p \in found : p[1] < gSeq /\ p[1] \in Nat
      BY <1>7, Entries DEF Compare, Moves, TableInv, SeqInv
    <3> QED BY <3>1, Entries
  <2>2. \A p \in found' \ found : \E i \in DOMAIN blocks : p = <<gSeq, blocks[i].seq>>
    BY <1>7 DEF Compare
  <2>3. gSeq' = gSeq /\ blocks' = blocks /\ blk' = blk
    BY <1>7 DEF Compare
  <2>4. \A u \in Thread : step'[u] \in {"number", "compare", "append"} =>
                             step[u] \in {"number", "compare", "append"}
    BY <1>7 DEF Compare, Moves
  <2> QED BY <2>1, <2>2, <2>3, <2>4
<1> QED BY <1>1, <1>2, <1>3, <1>4, <1>5, <1>6, <1>7 DEF AWNext, HookStep, HookFills

\* What a reader of the table may count on.
Hits == {p \in found : p[1] <= Done}

\* A step that neither takes nor gives back the lock, nor counts a pair.
LEMMA NothingDone ==
    ASSUME UNCHANGED tablevars
    PROVE  UNCHANGED <<Done, blocks, Hits>>
  BY DEF tablevars, Done, Hits

LEMMA NumberMaps ==
    ASSUME AWTypeOK, TableInv, NEW t \in Thread, Number(t)
    PROVE  UNCHANGED <<Done, blocks, Hits>>
<1>1. /\ lock = NoThread /\ lock' # NoThread /\ gSeq' = gSeq + 1 /\ gSeq \in Nat
      /\ blocks' = blocks /\ found' = found
  BY WatchAssumption, Entries DEF Number
<1> QED BY <1>1 DEF Done, Hits

LEMMA CompareMaps ==
    ASSUME AWTypeOK, TableInv, NEW t \in Thread, Compare(t)
    PROVE  UNCHANGED <<Done, blocks, Hits>>
<1>1. /\ lock # NoThread /\ lock' = lock /\ gSeq' = gSeq /\ gSeq \in Nat
      /\ blocks' = blocks
  BY WatchAssumption, Entries DEF Compare, Moves, TableInv, LockInv, Inside
<1>2. found \subseteq found' /\ \A p \in found' \ found : p[1] = gSeq
  BY DEF Compare
<1>3. \A p \in found' \ found : ~(p[1] <= gSeq - 1)
  BY <1>1, <1>2
<1> QED BY <1>1, <1>2, <1>3 DEF Done, Hits

LEMMA KeepMaps ==
    ASSUME AWTypeOK, TableInv, CallInv, NEW t \in Thread, KeepAndRelease(t)
    PROVE  Atomic!Note(blk[t])
<1>1. /\ step[t] = "append" /\ lock # NoThread /\ lock' = NoThread
      /\ gSeq' = gSeq /\ gSeq \in Nat /\ found' = found
  BY WatchAssumption, Entries
     DEF KeepAndRelease, KeepBlock, Moves, TableInv, LockInv, Inside
<1>2. Done = gSeq - 1 /\ Done' = gSeq /\ Done + 1 = gSeq
  BY <1>1 DEF Done
<1>3. Hits' = Hits \cup {<<gSeq, blocks[i].seq>> : i \in {j \in DOMAIN blocks : Meet(blk[t], blocks[j])}}
  <2>1. \A p \in found : p[1] \in Nat /\ p[1] <= gSeq
    BY Entries DEF TableInv, SeqInv
  <2>2. \A p \in found : p[1] <= gSeq - 1 \/ p[1] = gSeq
    BY <1>1, <2>1
  <2>3. \A i \in DOMAIN blocks : <<gSeq, blocks[i].seq>> \in found <=> Meet(blk[t], blocks[i])
    BY <1>1 DEF TableInv, MeetInv
  <2>4. \A p \in found : p[1] = gSeq => \E i \in DOMAIN blocks : p = <<gSeq, blocks[i].seq>>
    BY <1>1 DEF CallInv
  <2>5. Hits' = found
    BY <1>1, <1>2, <2>1 DEF Hits
  <2>6. Hits = {p \in found : p[1] <= gSeq - 1}
    BY <1>2 DEF Hits
  <2>7. ASSUME NEW p \in found, p \notin Hits
        PROVE  \E i \in DOMAIN blocks : Meet(blk[t], blocks[i]) /\ p = <<gSeq, blocks[i].seq>>
    BY <2>2, <2>3, <2>4, <2>6, <2>7
  <2>8. ASSUME NEW i \in DOMAIN blocks, Meet(blk[t], blocks[i])
        PROVE  <<gSeq, blocks[i].seq>> \in found
    BY <2>3, <2>8
  <2> QED BY <2>5, <2>6, <2>7, <2>8
<1>4. blocks' = IF Len(blocks) < MaxBlocks THEN Append(blocks, Numbered(blk[t])) ELSE blocks
  BY DEF KeepAndRelease, KeepBlock
<1> QED BY <1>2, <1>3, <1>4 DEF Atomic!Note, Hits, Numbered

\* With g_lock around them, numbering a call, comparing its block and keeping it are one
\* step to whoever reads the table between two calls.
THEOREM NotesAreAtomic == AWSpec => NotesAtomic
<1>1. AWInit => Atomic!Init
  BY DEF AWInit, Atomic!Init, Done
<1>2. AWTypeOK /\ TableInv /\ CallInv /\ [AWNext]_awvars => [Atomic!Next]_(Atomic!vars)
  <2> SUFFICES ASSUME AWTypeOK, TableInv, CallInv, [AWNext]_awvars
               PROVE  UNCHANGED Atomic!vars \/ Atomic!Next
    OBVIOUS
  <2>1. CASE UNCHANGED tablevars
    BY <2>1, NothingDone DEF Atomic!vars, Hits
  <2>2. ASSUME NEW t \in Thread, Number(t) \/ Compare(t)
        PROVE  UNCHANGED Atomic!vars
    BY <2>2, NumberMaps, CompareMaps DEF Atomic!vars, Hits
  <2>3. ASSUME NEW t \in Thread, KeepAndRelease(t) PROVE Atomic!Next
    <3>1. blk[t] \in {b \in NoteBlock : b.addr # 0 /\ b.size # 0}
      BY <2>3 DEF KeepAndRelease, Moves, CallInv
    <3>2. Atomic!Note(blk[t])
      BY <2>3, KeepMaps
    <3> QED BY <3>1, <3>2 DEF Atomic!Next, Atomic!Note
  <2>4. \/ UNCHANGED tablevars
        \/ \E t \in Thread : Number(t) \/ Compare(t) \/ KeepAndRelease(t)
    BY DEF AWNext, HookStep, BeginNote, RecordFetch, Reload, RecordPtr, RecordLen,
           RecordCount, SkipCanary, CanaryRead, CanaryJudge, Scribble, awvars
  <2> QED BY <2>1, <2>2, <2>3, <2>4
<1>3. AWTypeOK /\ TableInv /\ CallInv /\ [AWNext]_awvars
         => (AWTypeOK /\ TableInv /\ CallInv)'
  BY TypeStep, TableStep, CallStep
<1> QED BY TypeInit, TableInit, CallInit, <1>1, <1>2, <1>3, PTL
        DEF AWSpec, NotesAtomic, Atomic!Spec

=============================================================================
