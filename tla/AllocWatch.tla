------------------------------ MODULE AllocWatch ------------------------------
(***************************************************************************)
(* What the note hook of a wrapped function does with the block that the   *)
(* call returned (gt5p_alloc_note, src/gt5p_allocwatch.cpp), on every      *)
(* guest thread that calls a wrapped function:                             *)
(*   - it records the game allocator's blocks in a table without a lock    *)
(*     (gt5p_alloc_record, src/gt5p_bbcount.cpp);                          *)
(*   - it looks at the canary word, without a lock (canary_check);         *)
(*   - under g_lock it numbers the call, compares its block with every     *)
(*     block seen before and appends it (the overlap table).               *)
(*                                                                         *)
(* An unsynchronised read and the write that follows it are two steps.     *)
(***************************************************************************)
EXTENDS Integers, Sequences, FiniteSets

CONSTANTS Thread,     \* the guest's threads
          NoThread,   \* nobody holds g_lock
          Top,        \* 2^32: guest addresses wrap here
          MaxBlocks,  \* MAX_BLOCKS: the overlap table
          OwnerMax,   \* GT5P_ALLOC_MAX: the owner table
          ArmAt,      \* GT5P_CANARY_ARM: the call that guards the canary's page
          NoteBlock   \* what a call returns and was asked for: [addr, size]

\* The address of a failed allocation is 0.
ASSUME WatchAssumption ==
    /\ NoThread \notin Thread
    /\ Top \in Nat \ {0} /\ MaxBlocks \in Nat /\ OwnerMax \in Nat /\ ArmAt \in Nat
    /\ NoteBlock \subseteq [addr : 0..(Top - 1), size : 0..(Top - 1)]

VARIABLES
    level,    \* watch_level(): 0 is off
    canary,   \* GT5P_CANARY is given
    step,     \* step[t]: where thread t is in the hook
    blk,      \* blk[t]: the block of the call it reports
    slot,     \* slot[t]: g_alloc_n as it last read it
    now,      \* now[t]: the canary word as it read it
    gSeq,     \* g_seq
    lock,     \* the holder of g_lock
    blocks,   \* g_blocks[0..g_count - 1], each with the number it was given
    found,    \* the pairs of numbers counted in g_reported
    ownerPtr, ownerLen, ownerN,   \* the owner table: g_alloc_ptr, _len, _n
    alone,    \* history: fills an owner entry, nobody else having filled one since
    solid,    \* history: the entries filled alone, [at, addr, size]
    overrun,  \* history: a block was stored past the owner table
    word,     \* the canary word in guest memory
    turned,   \* history: the word was right once and was overwritten
    seen, broken,  \* canary_check's statics
    guarded   \* ppu_guard_page has been called

ownervars == <<slot, ownerPtr, ownerLen, ownerN, alone, solid, overrun>>
canaryvars == <<now, word, turned, seen, broken, guarded>>
tablevars == <<gSeq, lock, blocks, found>>
awvars == <<level, canary, step, blk, ownervars, canaryvars, tablevars>>

Word == {"unset", "want", "other"}
NoBlock == [addr |-> 0, size |-> 0]

AWInit == /\ level \in 0..1 /\ canary \in BOOLEAN
          /\ step = [t \in Thread |-> "idle"]
          /\ blk = [t \in Thread |-> NoBlock]
          /\ slot = [t \in Thread |-> 0]
          /\ now = [t \in Thread |-> "unset"]
          /\ gSeq = 0 /\ lock = NoThread /\ blocks = <<>> /\ found = {}
          /\ ownerPtr = [i \in 1..OwnerMax |-> 0]
          /\ ownerLen = [i \in 1..OwnerMax |-> 0]
          /\ ownerN = 0
          /\ alone = {} /\ solid = {} /\ overrun = FALSE
          /\ word = "unset" /\ turned = FALSE
          /\ seen = FALSE /\ broken = FALSE /\ guarded = FALSE

\* Thread t goes from step a of the hook to step b.
Moves(t, a, b) == step[t] = a /\ step' = [step EXCEPT ![t] = b]

----------------------------------------------------------------------------
(* The owner table.                                                        *)

\* The hook is entered; only blocks the game's allocator returned are recorded.
BeginNote(t, owns, b) ==
    /\ Moves(t, "idle", IF owns /\ b.addr # 0 THEN "record" ELSE "canary")
    /\ blk' = [blk EXCEPT ![t] = b]
    /\ UNCHANGED <<level, canary, ownervars, canaryvars, tablevars>>

\* The entries are counted from 1: the one to fill is at slot + 1.
At(t) == slot[t] + 1
Filling(t) == step[t] \in {"ptr", "len", "count"}

\* Thread t has passed the bound test or not; who is alone now.
Joined(t, passed) == CASE ~passed                           -> alone
                       [] \E u \in Thread : Filling(u)       -> {}
                       [] OTHER                             -> {t}

\* Mutant: the bound test is off by one.
RecordFetchPast(t) ==
    /\ Moves(t, "record", IF ownerN <= OwnerMax THEN "ptr" ELSE "canary")
    /\ slot' = [slot EXCEPT ![t] = ownerN]
    /\ alone' = Joined(t, ownerN <= OwnerMax)
    /\ UNCHANGED <<level, canary, blk, ownerPtr, ownerLen, ownerN, solid, overrun,
                   canaryvars, tablevars>>

\* The count is read for the test,
RecordFetch(t) ==
    /\ Moves(t, "record", IF ownerN < OwnerMax THEN "ptr" ELSE "canary")
    /\ slot' = [slot EXCEPT ![t] = ownerN]
    /\ alone' = Joined(t, ownerN < OwnerMax)
    /\ UNCHANGED <<level, canary, blk, ownerPtr, ownerLen, ownerN, solid, overrun,
                   canaryvars, tablevars>>

\* and each of the stores and the increment may read it again: whether it does is
\* up to the build.
Reload(t) ==
    /\ Filling(t) /\ slot[t] # ownerN
    /\ slot' = [slot EXCEPT ![t] = ownerN]
    /\ UNCHANGED <<level, canary, step, blk, ownerPtr, ownerLen, ownerN, alone, solid,
                   overrun, canaryvars, tablevars>>

\* A store past the table hits something else, and is not followed there.
RecordPtr(t) ==
    /\ Moves(t, "ptr", "len")
    /\ ownerPtr' = [i \in DOMAIN ownerPtr |-> IF i = At(t) THEN blk[t].addr ELSE ownerPtr[i]]
    /\ overrun' = (overrun \/ At(t) > OwnerMax)
    /\ UNCHANGED <<level, canary, blk, slot, ownerLen, ownerN, alone, solid,
                   canaryvars, tablevars>>

RecordLen(t) ==
    /\ Moves(t, "len", "count")
    /\ ownerLen' = [i \in DOMAIN ownerLen |-> IF i = At(t) THEN blk[t].size ELSE ownerLen[i]]
    /\ overrun' = (overrun \/ At(t) > OwnerMax)
    /\ UNCHANGED <<level, canary, blk, slot, ownerPtr, ownerN, alone, solid,
                   canaryvars, tablevars>>

\* Mutant: the entry is filled and not counted.
StoreCountNot(t) == ownerN' = slot[t]

StoreCount(t) == ownerN' = slot[t] + 1

RecordCount(t) ==
    /\ Moves(t, "count", "canary")
    /\ StoreCount(t)
    /\ solid' = IF t \in alone
                THEN solid \cup {[at |-> At(t), addr |-> blk[t].addr, size |-> blk[t].size]}
                ELSE solid
    /\ alone' = alone \ {t}
    /\ slot' = [slot EXCEPT ![t] = 0]
    /\ UNCHANGED <<level, canary, blk, ownerPtr, ownerLen, overrun,
                   canaryvars, tablevars>>

----------------------------------------------------------------------------
(* The canary.                                                             *)

\* Numbered are the calls that return a block and were asked for a size.
AfterCanary(t) ==
    IF level > 0 /\ blk[t].addr # 0 /\ blk[t].size # 0 THEN "number" ELSE "idle"

SkipCanary(t) ==
    /\ ~canary \/ broken
    /\ Moves(t, "canary", AfterCanary(t))
    /\ UNCHANGED <<level, canary, blk, ownervars, canaryvars, tablevars>>

\* The call number is g_seq + 1, read without the lock.
CanaryRead(t) ==
    /\ canary /\ ~broken
    /\ Moves(t, "canary", "judge")
    /\ guarded' = (guarded \/ (ArmAt > 0 /\ gSeq + 1 = ArmAt))
    /\ now' = [now EXCEPT ![t] = word]
    /\ UNCHANGED <<level, canary, blk, ownervars, word, turned, seen, broken, tablevars>>

CanaryJudge(t) ==
    /\ Moves(t, "judge", AfterCanary(t))
    /\ seen' = (seen \/ now[t] = "want")
    /\ broken' = (broken \/ (seen /\ now[t] # "want"))
    /\ UNCHANGED <<level, canary, blk, ownervars, now, word, turned, guarded, tablevars>>

\* A store to the canary word by anyone.
Scribble ==
    /\ canary
    /\ word' \in Word \ {word}
    /\ turned' = (turned \/ word = "want")
    /\ UNCHANGED <<level, canary, step, blk, ownervars, now, seen, broken, guarded,
                   tablevars>>

----------------------------------------------------------------------------
(* The overlap table.                                                      *)

\* addr + size on 32 bits.
End(b) == IF b.addr + b.size < Top THEN b.addr + b.size ELSE b.addr + b.size - Top

\* Mutant: ranges that touch count as overlapping.
TouchOrMeet(a, b) == a.addr <= End(b) /\ b.addr <= End(a)

\* The code's test on the new block a and an old one.
Meet(a, b) == a.addr < End(b) /\ b.addr < End(a)

Number(t) ==
    /\ Moves(t, "number", "compare")
    /\ lock = NoThread
    /\ lock' = t
    /\ gSeq' = gSeq + 1
    /\ UNCHANGED <<level, canary, blk, ownervars, canaryvars, blocks, found>>

Compare(t) ==
    /\ Moves(t, "compare", "append")
    /\ found' = found \cup
          {<<gSeq, blocks[i].seq>> : i \in {j \in DOMAIN blocks : Meet(blk[t], blocks[j])}}
    /\ UNCHANGED <<level, canary, blk, ownervars, canaryvars, gSeq, lock, blocks>>

Numbered(b) == [addr |-> b.addr, size |-> b.size, seq |-> gSeq]

\* Mutants: the bound test is off by one; a full table returns early, past the
\* release.
KeepBlockPast(t) ==
    /\ blocks' = IF Len(blocks) <= MaxBlocks THEN Append(blocks, Numbered(blk[t]))
                                             ELSE blocks
    /\ lock' = NoThread
KeepBlockEarlyOut(t) ==
    IF Len(blocks) < MaxBlocks
    THEN blocks' = Append(blocks, Numbered(blk[t])) /\ lock' = NoThread
    ELSE UNCHANGED <<blocks, lock>>

\* A full table takes no more blocks.
KeepBlock(t) ==
    /\ blocks' = IF Len(blocks) < MaxBlocks THEN Append(blocks, Numbered(blk[t]))
                                            ELSE blocks
    /\ lock' = NoThread

KeepAndRelease(t) ==
    /\ Moves(t, "append", "idle")
    /\ KeepBlock(t)
    /\ UNCHANGED <<level, canary, blk, ownervars, canaryvars, gSeq, found>>

----------------------------------------------------------------------------
HookStep(t) == \/ RecordFetch(t) \/ Reload(t)
               \/ RecordPtr(t) \/ RecordLen(t) \/ RecordCount(t)
               \/ SkipCanary(t) \/ CanaryRead(t) \/ CanaryJudge(t)
               \/ Number(t) \/ Compare(t) \/ KeepAndRelease(t)

AWNext == \/ \E t \in Thread : \/ \E owns \in BOOLEAN, b \in NoteBlock \cup {NoBlock} :
                                     BeginNote(t, owns, b)
                               \/ HookStep(t)
          \/ Scribble

AWSpec == AWInit /\ [][AWNext]_awvars

----------------------------------------------------------------------------
Step == {"idle", "record", "ptr", "len", "count", "canary", "judge", "number", "compare", "append"}

OwnerEntry == [at : Nat \ {0}, addr : 0..(Top - 1), size : 0..(Top - 1)]
KeptBlock == [addr : 0..(Top - 1), size : 0..(Top - 1), seq : Nat]

\* The hook's state is of its type, and the overlap table stays within its array.
\* Of g_alloc_n nothing more is claimed: increments that race may carry it anywhere.
AWTypeOK ==
    /\ level \in 0..1 /\ canary \in BOOLEAN
    /\ step \in [Thread -> Step]
    /\ blk \in [Thread -> NoteBlock \cup {NoBlock}]
    /\ slot \in [Thread -> Nat]
    /\ now \in [Thread -> Word]
    /\ gSeq \in Nat /\ lock \in Thread \cup {NoThread}
    /\ blocks \in Seq(KeptBlock)
    /\ Len(blocks) <= MaxBlocks
    /\ found \subseteq Nat \X Nat
    /\ ownerPtr \in [1..OwnerMax -> 0..(Top - 1)]
    /\ ownerLen \in [1..OwnerMax -> 0..(Top - 1)]
    /\ ownerN \in Nat
    /\ alone \subseteq Thread /\ solid \subseteq OwnerEntry /\ overrun \in BOOLEAN
    /\ word \in Word /\ turned \in BOOLEAN
    /\ seen \in BOOLEAN /\ broken \in BOOLEAN /\ guarded \in BOOLEAN

Fits(b) == b.addr + b.size < Top
Overlap(a, b) == a.addr < b.addr + b.size /\ b.addr < a.addr + a.size

\* "If it hands the same range out twice, this says so" (gt5p_allocwatch.cpp): of two
\* blocks in the table the overlap has been counted if there is one, at whatever order
\* the threads took the lock; one that reaches 2^32 may be missed, none is made up.
FoundExactly ==
    \A i, j \in DOMAIN blocks : i < j =>
       /\ Overlap(blocks[i], blocks[j]) /\ Fits(blocks[i]) /\ Fits(blocks[j])
             => <<blocks[j].seq, blocks[i].seq>> \in found
       /\ <<blocks[j].seq, blocks[i].seq>> \in found
             => Overlap(blocks[i], blocks[j])

\* The owner table has no lock.  A thread that fills an entry while nobody else does
\* never does so past the table, and the entry stays counted and whole ever after,
\* however many threads race for later ones: a count read late can be too low for the
\* blocks that raced, never for one that was recorded alone.  That holds until a race
\* has carried a store past the table.
OwnersWhole ==
    \A e \in solid :
       /\ e.at <= OwnerMax
       /\ ~overrun => /\ e.at <= ownerN
                      /\ ownerPtr[e.at] = e.addr /\ ownerLen[e.at] = e.size

\* A thread that takes g_lock gives it back, with the table full or not.
LockReleased == \A t \in Thread : lock = t ~> lock # t

\* "this one runs on the allocating thread, so 'it was still right at call #N and wrong
\* at #N+1' is exact" (gt5p_allocwatch.cpp): the canary reports a change only if the
\* word changed after it had been right.
CanaryTrue == broken => turned

----------------------------------------------------------------------------
(* What the overlap table implements.                                      *)

\* A call counts when it gives g_lock back, the last one not while it is held.
Done == IF lock = NoThread THEN gSeq ELSE gSeq - 1

Atomic == INSTANCE OverlapTable
            WITH Block     <- {b \in NoteBlock : b.addr # 0 /\ b.size # 0},
                 Meets     <- Meet,
                 seq       <- Done,
                 kept      <- blocks,
                 hits      <- {p \in found : p[1] <= Done}

\* However the threads come to the lock, the table is what it would be had each call
\* been numbered, compared and kept in one step.
NotesAtomic == Atomic!Spec

=============================================================================
