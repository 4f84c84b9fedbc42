------------------------------- MODULE HostJmp -------------------------------
(***************************************************************************)
(* The host half of the guest's setjmp/longjmp (src/gt5p_longjmp.cpp) with *)
(* the lifted code as scripts/setjmp_patch.py rewrites it.                 *)
(*                                                                         *)
(* Every thread has a stack of host jump buffers, g_jmp[0..depth-1].  A    *)
(* patched call site pushes an entry keyed by the guest buffer's address   *)
(* and expands a host setjmp into it; the patched longjmp restores the     *)
(* guest registers from the guest buffer and then fires the topmost entry  *)
(* with that key.  Functions that hold a call site are wrapped: the wrapper *)
(* notes the depth on entry and lowers it again on the way out.            *)
(*                                                                         *)
(* A frame is named by its height on its thread's host stack.  A context,  *)
(* the thing both the host jmp_buf and the guest buffer record, is a       *)
(* thread, a frame and the call site in it; when the frame is given up     *)
(* every record of it becomes NoCtx, as C makes a jmp_buf indeterminate    *)
(* when the function that called setjmp returns.                           *)
(***************************************************************************)
EXTENDS Integers

CONSTANTS Thread,     \* PPU threads; g_jmp and g_depth are thread_local
          AddrSpace,  \* number of guest addresses, 2^32 in the source
          EA,         \* addresses the guest passes to setjmp and longjmp
          Site,       \* guest setjmp call sites
          JmpMax,     \* GT5P_JMP_MAX, 16 in the source
          MaxHeight,  \* bound: frames on one host stack
          NoCtx       \* a context that is never armed, or whose frame is gone

Ctx == [thr : Thread, pos : 1..MaxHeight, site : Site]

ASSUME SizesAssumption ==
    /\ JmpMax \in Nat \ {0}
    /\ MaxHeight \in Nat
ASSUME EAAssumption == AddrSpace \in Nat \ {0} /\ EA \subseteq 0..AddrSpace-1
ASSUME NoCtxAssumption == NoCtx \notin Ctx

\* gt5p_jmp_key: (ea + 15) & ~15 on the address width, the rounding the guest does itself.
JmpKey(ea) == (((ea + 15) % AddrSpace) \div 16) * 16

BufKeys == {JmpKey(ea) : ea \in EA}
Slots == 0..JmpMax-1

\* saved[t][p] of a frame that has no wrapper, or of no frame.
Unwrapped == -1

VARIABLES
    height,   \* height[t]: frames on t's host stack
    saved,    \* saved[t][p]: the wrapper's _d in frame p, or Unwrapped
    depth,    \* depth[t]: g_depth
    key,      \* key[t][i]: g_jmp[i].buf_ea
    host,     \* host[t][i]: the context in g_jmp[i].host
    guest,    \* guest[k]: the context the guest's own setjmp stored in buffer k
    jumped,   \* jumped[t]: how t's last longjmp came out
    through,  \* history: the buffer of t's last longjmp
    spilled,  \* threads that have printed "depth overflow"
    spent     \* history: buffers whose frame was landed in since they were armed

vars == <<height, saved, depth, key, host, guest, jumped, through, spilled, spent>>

Outcomes == {"none",     \* no longjmp yet
             "landed",   \* in a live frame, with that frame's registers
             "stray",    \* came back to its caller; the buffer named no frame
             "lost",     \* came back to its caller; the buffer's frame is live
             "crossed",  \* in a live frame, with another frame's registers
             "wild"}     \* into a frame that is gone

Init == /\ height = [t \in Thread |-> 0]
        /\ saved = [t \in Thread |-> [p \in 1..MaxHeight |-> Unwrapped]]
        /\ depth = [t \in Thread |-> 0]
        /\ key = [t \in Thread |-> [i \in Slots |-> 0]]
        /\ host = [t \in Thread |-> [i \in Slots |-> NoCtx]]
        /\ guest = [k \in BufKeys |-> NoCtx]
        /\ jumped = [t \in Thread |-> "none"]
        /\ through = [t \in Thread |-> 0]
        /\ spilled = {}
        /\ spent = {}

\* After a jump into a dead frame the thread's behaviour is undefined; the
\* model says nothing more about it.
Running(t) == jumped[t] # "wild"

Above(c, t, h) == c # NoCtx /\ c.thr = t /\ c.pos > h

\* t's frames above height h leave the host stack.
Truncate(t, h) ==
    /\ height' = [height EXCEPT ![t] = h]
    /\ saved' = [saved EXCEPT ![t] =
                    [p \in 1..MaxHeight |-> IF p > h THEN Unwrapped ELSE @[p]]]
    /\ host' = [host EXCEPT ![t] =
                    [i \in Slots |-> IF Above(@[i], t, h) THEN NoCtx ELSE @[i]]]
    /\ guest' = [k \in BufKeys |->
                    IF Above(guest[k], t, h) THEN NoCtx ELSE guest[k]]

----------------------------------------------------------------------------
\* Mutant: a wrapper that empties the stack on the way out.
CallForgetsDepth(t, arming) ==
    /\ Running(t)
    /\ height[t] < MaxHeight
    /\ height' = [height EXCEPT ![t] = @ + 1]
    /\ saved' = [saved EXCEPT ![t][height[t] + 1] =
                    IF arming THEN 0 ELSE Unwrapped]
    /\ UNCHANGED <<depth, key, host, guest, jumped, through, spilled, spent>>

\* A lifted function is called; one that holds a setjmp call site is entered
\* through its wrapper, which notes the depth.
Call(t, arming) ==
    /\ Running(t)
    /\ height[t] < MaxHeight
    /\ height' = [height EXCEPT ![t] = @ + 1]
    /\ saved' = [saved EXCEPT ![t][height[t] + 1] =
                    IF arming THEN depth[t] ELSE Unwrapped]
    /\ UNCHANGED <<depth, key, host, guest, jumped, through, spilled, spent>>

\* Mutants: an unwind that does nothing, and one that drops an entry too many.
UnwindNever(t, d) == UNCHANGED depth
UnwindPast(t, d) == depth' = [depth EXCEPT ![t] = IF d < @ THEN d - 1 ELSE @]

\* gt5p_jmp_unwind: only ever lowers the depth.
Unwind(t, d) == depth' = [depth EXCEPT ![t] = IF d < @ THEN d ELSE @]

\* The top frame returns, through its wrapper if it has one.
Return(t) ==
    /\ Running(t)
    /\ height[t] > 0
    /\ IF saved[t][height[t]] # Unwrapped
       THEN Unwind(t, saved[t][height[t]])
       ELSE UNCHANGED depth
    /\ Truncate(t, height[t] - 1)
    /\ UNCHANGED <<key, jumped, through, spilled, spent>>

\* Mutants: a push that stores the address as the guest passed it, and one that
\* forgets to store it.
PushUnaligned(t, ea) ==
    /\ depth' = [depth EXCEPT ![t] = @ + 1]
    /\ key' = [key EXCEPT ![t][depth[t]] = ea]
    /\ UNCHANGED spilled
PushNoKey(t, ea) ==
    IF depth[t] >= JmpMax
    THEN spilled' = spilled \cup {t} /\ UNCHANGED <<depth, key>>
    ELSE depth' = [depth EXCEPT ![t] = @ + 1] /\ UNCHANGED <<key, spilled>>

\* gt5p_jmp_push: a new top entry, or, when the stack is full, the last entry
\* again with its depth and its key left as they were.
Push(t, ea) ==
    IF depth[t] >= JmpMax
    THEN /\ spilled' = spilled \cup {t}
         /\ UNCHANGED <<depth, key>>
    ELSE /\ depth' = [depth EXCEPT ![t] = @ + 1]
         /\ key' = [key EXCEPT ![t][depth[t]] = JmpKey(ea)]
         /\ UNCHANGED spilled

PushedSlot(t) == IF depth[t] >= JmpMax THEN JmpMax - 1 ELSE depth[t]

\* A patched setjmp call site: push, host setjmp into the entry returned, then
\* the guest's setjmp, which saves the registers in guest memory.
SetJmp(t, ea, s) ==
    LET c == [thr |-> t, pos |-> height[t], site |-> s]
    IN  /\ Running(t)
        /\ height[t] > 0
        /\ saved[t][height[t]] # Unwrapped
        /\ Push(t, ea)
        /\ host' = [host EXCEPT ![t][PushedSlot(t)] = c]
        /\ guest' = [guest EXCEPT ![JmpKey(ea)] = c]
        /\ spent' = spent \ {JmpKey(ea)}
        /\ UNCHANGED <<height, saved, jumped, through>>

\* Mutant: a scan from the bottom up.
BottomMatch(t, k, i) ==
    /\ i < depth[t]
    /\ key[t][i] = k
    /\ \A j \in Slots : j < i => key[t][j] # k

\* gt5p_jmp_fire scans from the top down: entry i is the first with key k.
TopMatch(t, k, i) ==
    /\ i < depth[t]
    /\ key[t][i] = k
    /\ \A j \in Slots : i < j /\ j < depth[t] => key[t][j] # k

NoMatch(t, k) == \A i \in Slots : i < depth[t] => key[t][i] # k

\* The frame of buffer k is on t's stack: a longjmp through k is legal C.
Live(t, k) == guest[k] # NoCtx /\ guest[k].thr = t

\* The patched longjmp finds an entry.  The guest registers come from the guest
\* buffer, control from the entry; the entry and those above it are disarmed.
LongJmpLand(t, ea) ==
    /\ Running(t)
    /\ height[t] > 0
    /\ \E i \in Slots :
        LET c == host[t][i]
            k == JmpKey(ea)
        IN  /\ TopMatch(t, k, i)
            /\ depth' = [depth EXCEPT ![t] = i]
            /\ \/ /\ c = NoCtx
                  /\ jumped' = [jumped EXCEPT ![t] = "wild"]
                  /\ UNCHANGED <<height, saved, host, guest, spent>>
               \/ /\ c # NoCtx
                  /\ jumped' = [jumped EXCEPT ![t] =
                        IF guest[k] = c THEN "landed" ELSE "crossed"]
                  /\ spent' = spent \cup
                        {b \in BufKeys : Live(t, b) /\ guest[b].pos = c.pos}
                  /\ Truncate(t, c.pos)
    /\ through' = [through EXCEPT ![t] = JmpKey(ea)]
    /\ UNCHANGED <<key, spilled>>

\* The patched longjmp finds none: the guest registers are already overwritten
\* and control comes back to longjmp's caller.
LongJmpMiss(t, ea) ==
    /\ Running(t)
    /\ height[t] > 0
    /\ NoMatch(t, JmpKey(ea))
    /\ jumped' = [jumped EXCEPT ![t] =
                    IF Live(t, JmpKey(ea)) THEN "lost" ELSE "stray"]
    /\ through' = [through EXCEPT ![t] = JmpKey(ea)]
    /\ UNCHANGED <<height, saved, depth, key, host, guest, spilled, spent>>

Next == \E t \in Thread :
            \/ \E arming \in BOOLEAN : Call(t, arming)
            \/ Return(t)
            \/ \E ea \in EA :
                 \/ \E s \in Site : SetJmp(t, ea, s)
                 \/ LongJmpLand(t, ea)
                 \/ LongJmpMiss(t, ea)

Spec == Init /\ [][Next]_vars

----------------------------------------------------------------------------
\* The shape of the state: depth stays within g_jmp, frames within the bound.
TypeOK ==
    /\ height \in [Thread -> 0..MaxHeight]
    /\ saved \in [Thread -> [1..MaxHeight -> (0..JmpMax) \cup {Unwrapped}]]
    /\ depth \in [Thread -> 0..JmpMax]
    /\ key \in [Thread -> [Slots -> BufKeys \cup {0}]]
    /\ host \in [Thread -> [Slots -> Ctx \cup {NoCtx}]]
    /\ guest \in [BufKeys -> Ctx \cup {NoCtx}]
    /\ jumped \in [Thread -> Outcomes]
    /\ through \in [Thread -> BufKeys \cup {0}]
    /\ spilled \in SUBSET Thread
    /\ spent \in SUBSET BufKeys

\* A buffer whose frame has returned is never fired into (the claim above
\* g_jmp), for a thread whose stack of buffers has never overflowed.
NeverWild == \A t \in Thread : t \notin spilled => jumped[t] # "wild"

\* Whatever order frames come and go in, a buffer whose frame is on the stack,
\* and has not been landed in since, is armed: the entry a longjmp would find
\* for it holds the very context the guest's own setjmp stored.
LiveBufferArmed ==
    \A t \in Thread, k \in BufKeys :
        t \notin spilled /\ Live(t, k) /\ k \notin spent
            => \E i \in Slots : TopMatch(t, k, i) /\ host[t][i] = guest[k]

\* The armed entries name live frames that have a wrapper, and lie in the order
\* of their frames, so cutting the stack at any entry drops whole frames only.
EntriesNest ==
    \A t \in Thread : t \notin spilled =>
        \A i \in Slots : i < depth[t] =>
            /\ host[t][i] # NoCtx
            /\ host[t][i].thr = t
            /\ host[t][i].pos <= height[t]
            /\ saved[t][host[t][i].pos] # Unwrapped
            /\ \A j \in Slots : j < i => host[t][j].pos <= host[t][i].pos

\* The depth a wrapper will restore separates the entries: those below it belong
\* to frames further down, those at or above it to this frame and its callees.
WrapperSplitsEntries ==
    \A t \in Thread : t \notin spilled =>
        \A p \in 1..height[t] : saved[t][p] # Unwrapped =>
            /\ saved[t][p] <= depth[t]
            /\ \A i \in Slots : i < depth[t] =>
                  ((i < saved[t][p]) <=> (host[t][i].pos < p))

\* A longjmp through a buffer that is live and has not been used arrives at its
\* setjmp with the right registers; it is never dropped or sent elsewhere.
FirstJumpLands ==
    [][\A t \in Thread, ea \in EA :
          /\ LongJmpLand(t, ea) \/ LongJmpMiss(t, ea)
          /\ t \notin spilled
          /\ Live(t, JmpKey(ea)) /\ JmpKey(ea) \notin spent
          => jumped'[t] = "landed" /\ height'[t] = guest[JmpKey(ea)].pos]_vars

\* "Returns only if no live buffer matches" (the comment on gt5p_jmp_fire).
NeverLost == \A t \in Thread : t \notin spilled => jumped[t] # "lost"

\* "a buffer whose frame has returned can never be fired into", with no
\* exception for a full stack (the comment on g_jmp).
NeverIntoDeadFrame == \A t \in Thread : jumped[t] # "wild"

\* The inductive invariant behind NeverWild, LiveBufferArmed and FirstJumpLands.
IInv == /\ TypeOK
        /\ NeverWild
        /\ EntriesNest
        /\ WrapperSplitsEntries
        /\ LiveBufferArmed

----------------------------------------------------------------------------
\* The promise to the guest: a buffer already used holds nothing for it, and a thread
\* whose stack of buffers has overflowed is on its own.
Contract == INSTANCE GuestJump WITH
    buf <- [k \in BufKeys |-> IF k \in spent THEN NoCtx ELSE guest[k]],
    void <- spilled
ImplementsContract == Contract!Spec
=============================================================================
