---------------------------- MODULE PresentProofs ----------------------------
(***************************************************************************)
(* Proofs about the present thread: whatever the tick period, the cap and  *)
(* the delays of the clock, no iteration of the loop leaves a tick that was *)
(* due when it sampled the clock.                                          *)
(***************************************************************************)
EXTENDS Present, TLAPS

\* The loop starts with the clock at the first tick and nothing fired.
LEMMA InitInv == Init => IInv
  <1>1. SUFFICES ASSUME Init PROVE IInv
    OBVIOUS
  <1>2. rsx_ok \in BOOLEAN /\ closed \in BOOLEAN /\ pending \in BOOLEAN
    BY <1>1 DEF Init
  <1>3. /\ pc \in {"none", "sleep"} /\ due = 0 /\ seen = 0 /\ fired = 0
        /\ flip = "idle" /\ fifo = 0
    BY <1>1 DEF Init
  <1>4. QED
    BY <1>2, <1>3, TimesAssumption, SMT DEF IInv, TypeOK, ClockInv, BacklogCleared

\* A present() that stalls only moves the clock on.
LEMMA ShowPendingMoves ==
    ASSUME IInv, ShowPending
    PROVE  due' \in Int /\ due' >= due /\ pending' \in BOOLEAN
  <1>1. CASE rsx_ok /\ pending
    <2>1. PICK s \in Stalls : due' = due + s
      BY <1>1 DEF ShowPending
    <2>2. s \in Nat /\ due \in Int
      BY TimesAssumption DEF IInv, TypeOK
    <2>3. pending' \in BOOLEAN
      BY <1>1 DEF ShowPending
    <2>4. QED
      BY <2>1, <2>2, <2>3, SMT
  <1>2. CASE ~(rsx_ok /\ pending)
    <2>1. due' = due /\ pending' = pending
      BY <1>2 DEF ShowPending
    <2>2. due \in Int /\ pending \in BOOLEAN
      BY DEF IInv, TypeOK
    <2>3. QED
      BY <2>1, <2>2, SMT
  <1>3. QED
    BY <1>1, <1>2

\* The guest's and the user's steps leave the loop's variables alone.
LEMMA GuestPreserves == ASSUME IInv, Guest PROVE IInv'
  <1>1. CASE RequestFlip
    BY <1>1, SMT DEF IInv, TypeOK, ClockInv, BacklogCleared, RequestFlip, loopvars
  <1>2. CASE WriteCommand
    BY <1>2, TimesAssumption, SMT
       DEF IInv, TypeOK, ClockInv, BacklogCleared, WriteCommand, loopvars
  <1>3. CASE CloseWindow
    BY <1>3, SMT
       DEF IInv, TypeOK, ClockInv, BacklogCleared, CloseWindow, loopvars, gcmvars
  <1>4. QED
    BY <1>1, <1>2, <1>3 DEF Guest

\* Every step of the inner loop keeps the invariant.
LEMMA TickPreserves ==
    ASSUME IInv, Wake \/ Tick \/ Show \/ Drain \/ EndTicks
    PROVE  IInv'
  <1> USE TimesAssumption
  <1>1. CASE Wake
    <2>1. PICK d \in Wakes : due' = due + d /\ seen' = due + d
      BY <1>1 DEF Wake
    <2>2. d \in Nat
      BY SMT
    <2>3. QED
      BY <1>1, <2>1, <2>2, SMT
         DEF IInv, TypeOK, ClockInv, BacklogCleared, Wake, gcmvars
  <1>2. CASE Tick
    <2>1. flip' \in {"idle", "queued"} /\ pending' \in BOOLEAN
      BY <1>2 DEF IInv, TypeOK, Tick
    <2>2. QED
      BY <1>2, <2>1, SMT DEF IInv, TypeOK, ClockInv, BacklogCleared, Tick, TickDue
  <1>3. CASE Show
    <2>1. due' \in Int /\ due' >= due /\ pending' \in BOOLEAN
      BY <1>3, ShowPendingMoves DEF Show
    <2>2. QED
      BY <1>3, <2>1, SMT DEF IInv, TypeOK, ClockInv, BacklogCleared, Show
  <1>4. CASE Drain
    <2>1. fifo' \in 0..MaxFifo
      BY <1>4, SMT DEF IInv, TypeOK, Drain, DrainFifo
    <2>2. QED
      BY <1>4, <2>1, SMT DEF IInv, TypeOK, ClockInv, BacklogCleared, Drain
  <1>5. CASE EndTicks
    <2>1. CASE fired >= MaxTicks
      BY <1>5, <2>1, SMT
         DEF IInv, TypeOK, ClockInv, BacklogCleared, EndTicks, TickDue, gcmvars
    <2>2. CASE ~(fired >= MaxTicks)
      BY <1>5, <2>2, SMT
         DEF IInv, TypeOK, ClockInv, BacklogCleared, EndTicks, TickDue, gcmvars
    <2>3. QED
      BY <2>1, <2>2
  <1>6. QED
    BY <1>1, <1>2, <1>3, <1>4, <1>5

\* Every step of the outer cadence keeps the invariant.
LEMMA OuterPreserves ==
    ASSUME IInv, OuterShow \/ OuterDrain \/ Pump \/ OuterSkip
    PROVE  IInv'
  <1> USE TimesAssumption
  <1>1. CASE OuterShow
    <2>1. due' \in Int /\ due' >= due /\ pending' \in BOOLEAN
      BY <1>1, ShowPendingMoves DEF OuterShow
    <2>2. QED
      BY <1>1, <2>1, SMT DEF IInv, TypeOK, ClockInv, BacklogCleared, OuterShow
  <1>2. CASE OuterDrain
    <2>1. fifo' \in 0..MaxFifo
      BY <1>2, SMT DEF IInv, TypeOK, OuterDrain, DrainFifo
    <2>2. QED
      BY <1>2, <2>1, SMT DEF IInv, TypeOK, ClockInv, BacklogCleared, OuterDrain
  <1>3. CASE Pump
    BY <1>3, SMT DEF IInv, TypeOK, ClockInv, BacklogCleared, Pump, gcmvars
  <1>4. CASE OuterSkip
    BY <1>4, SMT DEF IInv, TypeOK, ClockInv, BacklogCleared, OuterSkip, gcmvars
  <1>5. QED
    BY <1>1, <1>2, <1>3, <1>4

LEMMA NextPreserves == ASSUME IInv, [Next]_vars PROVE IInv'
  <1>1. CASE PresentThread
    BY <1>1, TickPreserves, OuterPreserves DEF PresentThread
  <1>2. CASE Guest
    BY <1>2, GuestPreserves
  <1>3. CASE UNCHANGED vars
    BY <1>3 DEF IInv, TypeOK, ClockInv, BacklogCleared, vars
  <1>4. QED
    BY <1>1, <1>2, <1>3 DEF Next

\* The inductive invariant holds in every state of the program.
THEOREM InvHolds == Spec => []IInv
  <1>1. Init => IInv
    BY InitInv
  <1>2. IInv /\ [Next]_vars => IInv'
    BY NextPreserves
  <1>3. QED
    BY <1>1, <1>2, PTL DEF Spec

\* The loop's counters stay in range: at most MaxTicks ticks per iteration.
THEOREM TypeCorrect == Spec => []TypeOK
  <1>1. IInv => TypeOK
    BY DEF IInv
  <1>2. QED
    BY <1>1, InvHolds, PTL

\* Once the inner loop is over no tick that was due at the sample is left, for
\* every period, cap and delay (gt5p_present.cpp's while loop and its resync).
THEOREM NoBacklog == Spec => []BacklogCleared
  <1>1. IInv => BacklogCleared
    BY DEF IInv, ClockInv
  <1>2. QED
    BY <1>1, InvHolds, PTL

\* The guest's frames are never counted ahead of real time by more than a period.
THEOREM TicksOnTime == Spec => []NeverAhead
  <1>1. IInv => NeverAhead
    BY TimesAssumption DEF IInv, TypeOK, ClockInv, NeverAhead
  <1>2. QED
    BY <1>1, InvHolds, PTL

=============================================================================
