------------------------------ MODULE GuestJump ------------------------------
(***************************************************************************)
(* What the recompiled build promises the guest about setjmp and longjmp, *)
(* without the host-side stack of jump buffers that gt5p_longjmp.cpp keeps *)
(* for it.                                                                 *)
(*                                                                         *)
(* A buffer holds one context: the thread, the frame (as its height on the *)
(* thread's stack) and the call site that armed it.  It is good for one    *)
(* landing: while its frame is on the stack and has not been landed in     *)
(* since the buffer was armed, a longjmp through it resumes that frame.    *)
(* Through any other buffer a longjmp is undefined, but even then control  *)
(* stays in a frame that exists.                                           *)
(*                                                                         *)
(* A thread that has armed more buffers at once than the host keeps may be *)
(* void from then on: nothing is promised about its own jumps, all of it   *)
(* still is about the other threads.                                       *)
(***************************************************************************)
EXTENDS Integers

CONSTANTS Thread,     \* PPU threads, each a host thread with a stack of its own
          BufKeys,    \* the guest buffers, by aligned address
          Site,       \* the setjmp call sites
          MaxHeight,  \* bound: frames on one host stack
          NoCtx       \* "holds no usable context"

VARIABLES height,  \* height[t]: frames on t's stack
          buf,     \* buf[k]: the context buffer k resumes, or NoCtx
          jumped,  \* jumped[t]: how t's last longjmp came out
          through, \* through[t]: the buffer of t's last longjmp
          void     \* the threads whose jumps are no longer promised anything

vars == <<height, buf, jumped, through, void>>

Outcomes == {"none", "landed", "stray", "lost", "crossed", "wild"}

Usable(t, k) == buf[k] # NoCtx /\ buf[k].thr = t

\* The contexts that stay usable when t's frames from height h up are given up.
Below(t, h) ==
    [k \in BufKeys |->
        IF buf[k] # NoCtx /\ buf[k].thr = t /\ buf[k].pos >= h
        THEN NoCtx ELSE buf[k]]

Init == /\ height = [t \in Thread |-> 0]
        /\ buf = [k \in BufKeys |-> NoCtx]
        /\ jumped = [t \in Thread |-> "none"]
        /\ through = [t \in Thread |-> 0]
        /\ void = {}

Call(t) == /\ height[t] < MaxHeight
           /\ height' = [height EXCEPT ![t] = @ + 1]
           /\ UNCHANGED <<buf, jumped, through, void>>

Return(t) == /\ height[t] > 0
             /\ height' = [height EXCEPT ![t] = @ - 1]
             /\ buf' = Below(t, height[t])
             /\ UNCHANGED <<jumped, through, void>>

Arm(t, k, s) ==
    /\ height[t] > 0
    /\ buf' = [buf EXCEPT ![k] = [thr |-> t, pos |-> height[t], site |-> s]]
    /\ void' \in {void, void \cup {t}}
    /\ UNCHANGED <<height, jumped, through>>

\* A longjmp through a usable buffer: the armed frame is on top again, with its
\* own registers.
Jump(t, k) ==
    /\ Usable(t, k)
    /\ height' = [height EXCEPT ![t] = buf[k].pos]
    /\ buf' = Below(t, buf[k].pos)
    /\ jumped' = [jumped EXCEPT ![t] = "landed"]
    /\ through' = [through EXCEPT ![t] = k]
    /\ UNCHANGED void

\* A longjmp through any other buffer.  It either comes back to its caller or
\* resumes some frame of the thread.
JumpUndefined(t, k) ==
    /\ height[t] > 0
    /\ ~Usable(t, k)
    /\ through' = [through EXCEPT ![t] = k]
    /\ UNCHANGED void
    /\ \/ /\ jumped' \in {[jumped EXCEPT ![t] = o] : o \in {"stray", "lost"}}
          /\ UNCHANGED <<height, buf>>
       \/ \E h \in 1..height[t] :
            /\ height' = [height EXCEPT ![t] = h]
            /\ buf' = Below(t, h)
            /\ jumped' \in
                 {[jumped EXCEPT ![t] = o] : o \in {"landed", "crossed"}}

\* A longjmp of a void thread: it may go anywhere, and take contexts of the thread's
\* own with it.
JumpVoid(t) ==
    /\ t \in void
    /\ \E h \in 0..MaxHeight : height' = [height EXCEPT ![t] = h]
    /\ \E gone \in SUBSET {k \in BufKeys : Usable(t, k)} :
          buf' = [k \in BufKeys |-> IF k \in gone THEN NoCtx ELSE buf[k]]
    /\ \E o \in Outcomes : jumped' = [jumped EXCEPT ![t] = o]
    /\ \E k \in BufKeys : through' = [through EXCEPT ![t] = k]
    /\ UNCHANGED void

Next == \E t \in Thread :
            \/ Call(t)
            \/ Return(t)
            \/ JumpVoid(t)
            \/ \E k \in BufKeys :
                 \/ \E s \in Site : Arm(t, k, s)
                 \/ Jump(t, k)
                 \/ JumpUndefined(t, k)

Spec == Init /\ [][Next]_vars
=============================================================================
