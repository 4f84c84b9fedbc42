------------------------------- MODULE Present -------------------------------
(***************************************************************************)
(* The present thread (src/gt5p_present.cpp): the only thing that advances *)
(* the display.  It ticks vblank and flip off real elapsed time, drains    *)
(* the RSX command FIFO after every tick and again at the outer cadence,   *)
(* and stops presenting and draining for good when the backend failed to   *)
(* open or its window was closed.                                          *)
(*                                                                         *)
(* Time is relative: due is GetTickCount64() - next_tick and seen is the   *)
(* sampled now - next_tick, so both stay bounded however long the program  *)
(* runs.  The guest and the cellGcm library (external) interleave with     *)
(* every step of the loop.                                                 *)
(***************************************************************************)
EXTENDS Integers

CONSTANTS TickMs,    \* next_tick advances by this, 16 in the source
          SleepMs,   \* the outer Sleep, 4 in the source
          MaxTicks,  \* ticks fired in one iteration at most, 240 in the source
          Wakes,     \* how long one Sleep(SleepMs) may take
          Stalls,    \* how long one present() may take
          MaxLag,    \* bound: how far the clock may run past next_tick
          MaxFifo    \* bound: commands the guest queues before it waits

ASSUME TimesAssumption ==
    /\ TickMs \in Nat \ {0}
    /\ SleepMs \in Nat \ {0}
    /\ MaxTicks \in Nat \ {0}
    /\ Wakes \subseteq {d \in Nat : d >= SleepMs}
    /\ Stalls \subseteq Nat
    /\ MaxLag \in Nat
    /\ MaxFifo \in Nat

VARIABLES
    pc,        \* where the present thread is; "none" if it was never started
    due,       \* GetTickCount64() - next_tick
    seen,      \* now - next_tick, with now sampled after the Sleep
    fired,     \* ticks fired in this iteration
    rsx_ok,    \* the backend is open
    closed,    \* the user has closed the window
    flip,      \* the guest's flip: "idle", "queued" by the guest
    pending,   \* a completed flip waits to be presented (cellGcm)
    fifo       \* commands between the FIFO's get and put

loopvars == <<pc, due, seen, fired>>
gcmvars == <<flip, pending, fifo>>
vars == <<pc, due, seen, fired, rsx_ok, closed, flip, pending, fifo>>

\* GT5P_NO_PRESENT starts no thread; a failed backend starts it with rsx_ok 0.
Init == /\ pc \in {"none", "sleep"}
        /\ rsx_ok \in BOOLEAN
        /\ pc = "none" => ~rsx_ok
        /\ due = 0 /\ seen = 0 /\ fired = 0
        /\ closed = FALSE
        /\ flip = "idle" /\ pending = FALSE /\ fifo = 0

----------------------------------------------------------------------------
(* The guest and the user.                                                 *)

\* The guest queues a flip, then polls until it clears.
RequestFlip == /\ flip = "idle"
               /\ flip' = "queued"
               /\ UNCHANGED <<loopvars, rsx_ok, closed, pending, fifo>>

\* The guest writes a command; with the FIFO full it waits for the drain.
WriteCommand == /\ fifo < MaxFifo
                /\ fifo' = fifo + 1
                /\ UNCHANGED <<loopvars, rsx_ok, closed, flip, pending>>

CloseWindow == /\ rsx_ok /\ ~closed
               /\ closed' = TRUE
               /\ UNCHANGED <<loopvars, rsx_ok, gcmvars>>

----------------------------------------------------------------------------
(* The present thread.                                                     *)

\* Sleep, then sample the clock.
Wake == /\ pc = "sleep"
        /\ \E d \in Wakes :
             /\ due + d <= MaxLag
             /\ due' = due + d
             /\ seen' = due + d
        /\ fired' = 0
        /\ pc' = "loop"
        /\ UNCHANGED <<rsx_ok, closed, gcmvars>>

\* Mutant: one tick past the cap.
TickDueAtCap == seen >= 0 /\ fired <= MaxTicks

TickDue == seen >= 0 /\ fired < MaxTicks

\* Mutant: a tick that completes a flip only while the window is open.
TickIfWindow == /\ pc = "loop" /\ TickDue
                /\ IF flip = "queued" /\ rsx_ok
                   THEN flip' = "idle" /\ pending' = TRUE
                   ELSE UNCHANGED <<flip, pending>>
                /\ pc' = "show"
                /\ UNCHANGED <<due, seen, fired, rsx_ok, closed, fifo>>

\* cellGcmTickVBlank and cellGcmTickFlip: the guest's flip completes.
Tick == /\ pc = "loop" /\ TickDue
        /\ IF flip = "queued"
           THEN flip' = "idle" /\ pending' = TRUE
           ELSE UNCHANGED <<flip, pending>>
        /\ pc' = "show"
        /\ UNCHANGED <<due, seen, fired, rsx_ok, closed, fifo>>

\* Mutant: a pending flip that is peeked at and never taken.
ShowPeeked ==
    IF rsx_ok /\ pending
    THEN \E s \in Stalls : due + s <= MaxLag /\ due' = due + s /\ UNCHANGED pending
    ELSE UNCHANGED <<pending, due>>

\* present() if a flip is pending; it may take long, and the clock runs on.
ShowPending ==
    IF rsx_ok /\ pending
    THEN /\ pending' = FALSE
         /\ \E s \in Stalls : due + s <= MaxLag /\ due' = due + s
    ELSE UNCHANGED <<pending, due>>

Show == /\ pc = "show"
        /\ ShowPending
        /\ pc' = "drain"
        /\ UNCHANGED <<seen, fired, rsx_ok, closed, flip, fifo>>

\* Mutant: a drain that runs only behind a presented flip.
DrainNothing == UNCHANGED fifo

\* cellGcm_rsx_process_fifo, with a backend only.
DrainFifo == fifo' = IF rsx_ok THEN 0 ELSE fifo

Drain == /\ pc = "drain"
         /\ DrainFifo
         /\ due' = due - TickMs
         /\ seen' = seen - TickMs
         /\ fired' = fired + 1
         /\ pc' = "loop"
         /\ UNCHANGED <<rsx_ok, closed, flip, pending>>

\* Mutant: an iteration that ends without the resync.
EndTicksNoResync == /\ pc = "loop" /\ ~TickDue
                    /\ pc' = "outer"
                    /\ UNCHANGED <<due, seen, fired, rsx_ok, closed, gcmvars>>

\* The inner loop ends; with the cap reached next_tick is set to now.
EndTicks == /\ pc = "loop" /\ ~TickDue
            /\ IF fired >= MaxTicks
               THEN due' = due - seen /\ seen' = 0
               ELSE UNCHANGED <<due, seen>>
            /\ pc' = "outer"
            /\ UNCHANGED <<fired, rsx_ok, closed, gcmvars>>

\* The outer cadence, with a backend: present, drain, pump the window.
OuterShow == /\ pc = "outer" /\ rsx_ok
             /\ ShowPending
             /\ pc' = "outerdrain"
             /\ UNCHANGED <<seen, fired, rsx_ok, closed, flip, fifo>>

OuterDrain == /\ pc = "outerdrain"
              /\ DrainFifo
              /\ pc' = "pump"
              /\ UNCHANGED <<due, seen, fired, rsx_ok, closed, flip, pending>>

Pump == /\ pc = "pump"
        /\ rsx_ok' = ~closed
        /\ pc' = "sleep"
        /\ UNCHANGED <<due, seen, fired, closed, gcmvars>>

OuterSkip == /\ pc = "outer" /\ ~rsx_ok
             /\ pc' = "sleep"
             /\ UNCHANGED <<due, seen, fired, rsx_ok, closed, gcmvars>>

PresentThread == \/ Wake \/ Tick \/ Show \/ Drain \/ EndTicks
                 \/ OuterShow \/ OuterDrain \/ Pump \/ OuterSkip

Guest == RequestFlip \/ WriteCommand \/ CloseWindow

Next == PresentThread \/ Guest

\* The present thread is a host thread of its own: the scheduler runs it again
\* and again.  The guest and the user promise nothing.
Spec == Init /\ [][Next]_vars /\ WF_vars(PresentThread)

----------------------------------------------------------------------------
\* The thread is at a step of its loop, its tick count within the cap.
TypeOK == /\ pc \in {"none", "sleep", "loop", "show", "drain", "outer",
                     "outerdrain", "pump"}
          /\ due \in Int /\ seen \in Int
          /\ fired \in 0..MaxTicks
          /\ rsx_ok \in BOOLEAN /\ closed \in BOOLEAN /\ pending \in BOOLEAN
          /\ flip \in {"idle", "queued"}
          /\ fifo \in 0..MaxFifo

\* No backlog survives an iteration: once the inner loop is over, every tick
\* that was due when the clock was sampled has been fired or resynced away, and
\* the next one is at most one period off.
BacklogCleared ==
    pc \in {"outer", "outerdrain", "pump"} => seen <= 0 /\ seen >= -TickMs

\* "Ticks are driven off real elapsed time rather than off how long present() takes"
\* (gt5p_present.cpp): however late the thread wakes and however long a present stalls,
\* no tick is fired before it is due, so the next one is never further off than a period.
NeverAhead == due >= -TickMs

\* What makes it so: the clock never runs behind its sample, a tick is only ever
\* fired when due, and the sample is never more than one period short of it.
ClockInv == /\ due >= seen /\ seen >= -TickMs
            /\ pc \in {"show", "drain"} => seen >= 0 /\ fired < MaxTicks
            /\ BacklogCleared
IInv == TypeOK /\ ClockInv

\* What the guest polls for comes: with a present thread every queued flip
\* completes, with or without a window.
FlipCompletes ==
    (flip = "queued" /\ pc # "none") ~> flip = "idle"

\* While there is a backend, the drain reaches what the guest
\* wrote.
FifoDrains == (fifo > 0 /\ pc # "none") ~> (fifo = 0 \/ ~rsx_ok)

\* While there is a backend, a completed flip is presented.
FlipPresented == (pending /\ pc # "none") ~> (~pending \/ ~rsx_ok)
=============================================================================
