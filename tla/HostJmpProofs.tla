---------------------------- MODULE HostJmpProofs ----------------------------
(***************************************************************************)
(* Proofs about HostJmp, for every set of threads, sites and addresses and *)
(* every GT5P_JMP_MAX: the state keeps its shape, no thread whose stack of *)
(* buffers never overflowed jumps into a dead frame, and a live buffer is  *)
(* armed until its frame is landed in.                                     *)
(***************************************************************************)
EXTENDS HostJmp, TLAPS

\* The contexts a truncation keeps are contexts.
LEMMA CtxFacts ==
    ASSUME NEW c \in Ctx
    PROVE  c # NoCtx /\ c.thr \in Thread /\ c.pos \in 1..MaxHeight
BY NoCtxAssumption DEF Ctx

LEMMA NewCtx ==
    ASSUME NEW t \in Thread, NEW s \in Site, NEW p \in 1..MaxHeight
    PROVE  [thr |-> t, pos |-> p, site |-> s] \in Ctx
BY DEF Ctx

LEMMA KeyFact == \A ea \in EA : JmpKey(ea) \in BufKeys
BY DEF BufKeys

\* Truncation to an existing height keeps the types of what it touches.
LEMMA TruncateType ==
    ASSUME TypeOK, NEW t \in Thread, NEW h \in 0..MaxHeight, Truncate(t, h)
    PROVE  /\ height' \in [Thread -> 0..MaxHeight]
           /\ saved' \in [Thread ->
                            [1..MaxHeight -> (0..JmpMax) \cup {Unwrapped}]]
           /\ host' \in [Thread -> [Slots -> Ctx \cup {NoCtx}]]
           /\ guest' \in [BufKeys -> Ctx \cup {NoCtx}]
BY DEF TypeOK, Truncate

LEMMA TypeInit == Init => TypeOK
BY SizesAssumption DEF Init, TypeOK, Outcomes, Slots

LEMMA TypeNext == TypeOK /\ [Next]_vars => TypeOK'
<1> SUFFICES ASSUME TypeOK, [Next]_vars PROVE TypeOK'
  OBVIOUS
<1> USE SizesAssumption DEF Slots
<1>1. ASSUME NEW t \in Thread, NEW arming \in BOOLEAN, Call(t, arming)
      PROVE  TypeOK'
  <2>1. height' \in [Thread -> 0..MaxHeight]
    BY <1>1 DEF Call, TypeOK
  <2>2. saved' \in [Thread -> [1..MaxHeight -> (0..JmpMax) \cup {Unwrapped}]]
    BY <1>1 DEF Call, TypeOK
  <2>3. QED
    BY <1>1, <2>1, <2>2 DEF Call, TypeOK
<1>2. ASSUME NEW t \in Thread, Return(t)
      PROVE  TypeOK'
  <2>1. height[t] - 1 \in 0..MaxHeight /\ Truncate(t, height[t] - 1)
    BY <1>2 DEF Return, TypeOK
  <2>2. depth' \in [Thread -> 0..JmpMax]
    <3>1. saved[t][height[t]] \in (0..JmpMax) \cup {Unwrapped}
      BY <1>2 DEF Return, TypeOK
    <3>2. QED
      BY <1>2, <3>1 DEF Return, TypeOK, Unwind
  <2>3. QED
    BY <1>2, <2>1, <2>2, TruncateType DEF Return, TypeOK
<1>3. ASSUME NEW t \in Thread, NEW ea \in EA, NEW s \in Site, SetJmp(t, ea, s)
      PROVE  TypeOK'
  <2> DEFINE c == [thr |-> t, pos |-> height[t], site |-> s]
  <2>1. c \in Ctx
    BY <1>3, NewCtx DEF SetJmp, TypeOK
  <2>2. JmpKey(ea) \in BufKeys
    BY KeyFact
  <2>3. depth' \in [Thread -> 0..JmpMax]
    BY <1>3 DEF SetJmp, Push, TypeOK
  <2>4. key' \in [Thread -> [Slots -> BufKeys \cup {0}]]
    <3>1. CASE depth[t] >= JmpMax
      BY <1>3, <3>1 DEF SetJmp, Push, TypeOK
    <3>2. CASE ~(depth[t] >= JmpMax)
      <4>1. key' = [key EXCEPT ![t][depth[t]] = JmpKey(ea)]
        BY <1>3, <3>2 DEF SetJmp, Push
      <4>2. key[t] \in [Slots -> BufKeys \cup {0}]
        BY DEF TypeOK
      <4>3. QED
        BY <2>2, <4>1, <4>2 DEF TypeOK
    <3>3. QED
      BY <3>1, <3>2
  <2>5. host' \in [Thread -> [Slots -> Ctx \cup {NoCtx}]]
    BY <1>3, <2>1 DEF SetJmp, TypeOK
  <2>6. guest' \in [BufKeys -> Ctx \cup {NoCtx}]
    BY <1>3, <2>1 DEF SetJmp, TypeOK
  <2>7. spilled' \in SUBSET Thread /\ spent' \in SUBSET BufKeys
    BY <1>3 DEF SetJmp, Push, TypeOK
  <2>8. QED
    BY <1>3, <2>3, <2>4, <2>5, <2>6, <2>7 DEF SetJmp, TypeOK
<1>4. ASSUME NEW t \in Thread, NEW ea \in EA, LongJmpLand(t, ea)
      PROVE  TypeOK'
  <2> DEFINE k == JmpKey(ea)
  <2>1. PICK i \in Slots :
            /\ depth' = [depth EXCEPT ![t] = i]
            /\ \/ /\ host[t][i] = NoCtx
                  /\ jumped' = [jumped EXCEPT ![t] = "wild"]
                  /\ UNCHANGED <<height, saved, host, guest, spent>>
               \/ /\ host[t][i] # NoCtx
                  /\ jumped' = [jumped EXCEPT ![t] =
                        IF guest[k] = host[t][i] THEN "landed" ELSE "crossed"]
                  /\ spent' = spent \cup {b \in BufKeys :
                        Live(t, b) /\ guest[b].pos = host[t][i].pos}
                  /\ Truncate(t, host[t][i].pos)
    BY <1>4 DEF LongJmpLand
  <2>2. depth' \in [Thread -> 0..JmpMax]
    BY <2>1 DEF TypeOK
  <2>3. jumped' \in [Thread -> Outcomes] /\ through' \in [Thread -> BufKeys \cup {0}]
    BY <1>4, <2>1, KeyFact DEF LongJmpLand, TypeOK, Outcomes
  <2>4. CASE host[t][i] = NoCtx
    BY <1>4, <2>1, <2>2, <2>3, <2>4 DEF LongJmpLand, TypeOK
  <2>5. CASE host[t][i] # NoCtx
    <3>1. host[t][i].pos \in 0..MaxHeight
      BY <2>5, CtxFacts DEF TypeOK
    <3>2. QED
      BY <1>4, <2>1, <2>2, <2>3, <2>5, <3>1, TruncateType
         DEF LongJmpLand, TypeOK
  <2>6. QED
    BY <2>4, <2>5
<1>5. ASSUME NEW t \in Thread, NEW ea \in EA, LongJmpMiss(t, ea)
      PROVE  TypeOK'
  <2>1. through' \in [Thread -> BufKeys \cup {0}]
    BY <1>5, KeyFact DEF LongJmpMiss, TypeOK
  <2>2. QED
    BY <1>5, <2>1 DEF LongJmpMiss, TypeOK, Outcomes
<1>6. CASE UNCHANGED vars
  BY <1>6 DEF vars, TypeOK
<1>7. QED
  BY <1>1, <1>2, <1>3, <1>4, <1>5, <1>6 DEF Next

\* Every state the program reaches has the declared shape; in particular
\* g_depth never leaves 0..GT5P_JMP_MAX and g_jmp is never indexed outside.
THEOREM TypeCorrect == Spec => []TypeOK
BY TypeInit, TypeNext, PTL DEF Spec

----------------------------------------------------------------------------
(* The inductive invariant, thread by thread.                              *)

Nest(t) ==
    \A i \in Slots : i < depth[t] =>
        /\ host[t][i] # NoCtx
        /\ host[t][i].thr = t
        /\ host[t][i].pos <= height[t]
        /\ saved[t][host[t][i].pos] # Unwrapped
        /\ \A j \in Slots : j < i => host[t][j].pos <= host[t][i].pos

Splits(t) ==
    \A p \in 1..height[t] : saved[t][p] # Unwrapped =>
        /\ saved[t][p] <= depth[t]
        /\ \A i \in Slots : i < depth[t] =>
              ((i < saved[t][p]) <=> (host[t][i].pos < p))

Armed(t) ==
    \A k \in BufKeys :
        Live(t, k) /\ k \notin spent
            => \E i \in Slots : TopMatch(t, k, i) /\ host[t][i] = guest[k]

ThreadInv(t) ==
    t \notin spilled => /\ jumped[t] # "wild"
                        /\ Nest(t)
                        /\ Splits(t)
                        /\ Armed(t)

LEMMA ByThread == IInv <=> TypeOK /\ \A t \in Thread : ThreadInv(t)
BY DEF IInv, NeverWild, EntriesNest, WrapperSplitsEntries, LiveBufferArmed,
       ThreadInv, Nest, Splits, Armed

\* A thread keeps its part of the invariant when a step leaves its host stack
\* and its entries alone and arms no buffer for it.
LEMMA OtherThread ==
    ASSUME NEW u \in Thread, ThreadInv(u),
           height'[u] = height[u], saved'[u] = saved[u], depth'[u] = depth[u],
           key'[u] = key[u], host'[u] = host[u], jumped'[u] = jumped[u],
           u \in spilled => u \in spilled',
           \A k \in BufKeys : Live(u, k)' /\ k \notin spent'
                => Live(u, k) /\ k \notin spent /\ guest'[k] = guest[k]
    PROVE  ThreadInv(u)'
<1> SUFFICES ASSUME u \notin spilled'
             PROVE  (jumped[u] # "wild" /\ Nest(u) /\ Splits(u) /\ Armed(u))'
  BY DEF ThreadInv
<1>1. jumped[u] # "wild" /\ Nest(u) /\ Splits(u) /\ Armed(u)
  BY DEF ThreadInv
<1>2. (jumped[u] # "wild")'
  BY <1>1
<1>3. Nest(u)'
  BY <1>1 DEF Nest
<1>4. Splits(u)'
  BY <1>1 DEF Splits
<1>5. Armed(u)'
  BY <1>1 DEF Armed, TopMatch
<1>6. QED
  BY <1>2, <1>3, <1>4, <1>5

\* What a truncation does to the thread itself.
LEMMA TruncateOwn ==
    ASSUME TypeOK, NEW t \in Thread, NEW h \in 0..MaxHeight, Truncate(t, h)
    PROVE  /\ height'[t] = h
           /\ \A p \in 1..MaxHeight : p <= h => saved'[t][p] = saved[t][p]
           /\ \A i \in Slots :
                  host[t][i] # NoCtx /\ host[t][i].pos <= h
                      => host'[t][i] = host[t][i]
           /\ \A k \in BufKeys : Live(t, k)' =>
                  Live(t, k) /\ guest'[k] = guest[k] /\ guest[k].pos <= h
<1>1. /\ height'[t] = h
      /\ \A p \in 1..MaxHeight : p <= h => saved'[t][p] = saved[t][p]
  BY DEF Truncate, TypeOK
<1>2. ASSUME NEW i \in Slots, host[t][i] # NoCtx, host[t][i].pos <= h
      PROVE  host'[t][i] = host[t][i]
  <2>1. host[t][i].pos \in 1..MaxHeight
    BY <1>2, CtxFacts DEF TypeOK
  <2>2. ~Above(host[t][i], t, h)
    BY <1>2, <2>1 DEF Above
  <2>3. QED
    BY <2>2 DEF Truncate, TypeOK
<1>3. ASSUME NEW k \in BufKeys, Live(t, k)'
      PROVE  Live(t, k) /\ guest'[k] = guest[k] /\ guest[k].pos <= h
  <2>1. guest'[k] = IF Above(guest[k], t, h) THEN NoCtx ELSE guest[k]
    BY DEF Truncate
  <2>2. guest'[k] # NoCtx /\ guest'[k] = guest[k]
    BY <1>3, <2>1 DEF Live
  <2>3. Live(t, k) /\ ~Above(guest[k], t, h)
    BY <1>3, <2>1, <2>2 DEF Live
  <2>4. guest[k].pos \in 1..MaxHeight
    BY <2>2, CtxFacts DEF TypeOK
  <2>5. QED
    BY <2>2, <2>3, <2>4 DEF Live, Above
<1>4. QED
  BY <1>1, <1>2, <1>3

\* What a truncation by one thread leaves to another.
LEMMA TruncateOther ==
    ASSUME TypeOK, NEW t \in Thread, NEW u \in Thread, u # t,
           NEW h \in 0..MaxHeight, Truncate(t, h)
    PROVE  /\ height'[u] = height[u]
           /\ saved'[u] = saved[u]
           /\ host'[u] = host[u]
           /\ \A k \in BufKeys : Live(u, k)' =>
                  Live(u, k) /\ guest'[k] = guest[k]
<1>1. height'[u] = height[u] /\ saved'[u] = saved[u] /\ host'[u] = host[u]
  BY DEF Truncate, TypeOK
<1>2. ASSUME NEW k \in BufKeys, Live(u, k)'
      PROVE  Live(u, k) /\ guest'[k] = guest[k]
  <2>1. guest'[k] = IF Above(guest[k], t, h) THEN NoCtx ELSE guest[k]
    BY DEF Truncate
  <2>2. QED
    BY <1>2, <2>1 DEF Live
<1>3. QED
  BY <1>1, <1>2

LEMMA InvInit == Init => IInv
<1> SUFFICES ASSUME Init PROVE TypeOK /\ \A t \in Thread : ThreadInv(t)
  BY ByThread
<1>1. TypeOK
  BY TypeInit
<1>2. ASSUME NEW t \in Thread PROVE ThreadInv(t)
  <2>1. jumped[t] # "wild" /\ height[t] = 0 /\ depth[t] = 0
    BY DEF Init
  <2>2. Nest(t) /\ Splits(t)
    BY <2>1, SizesAssumption DEF Nest, Splits, Slots
  <2>3. Armed(t)
    BY DEF Armed, Live, Init
  <2>4. QED
    BY <2>1, <2>2, <2>3 DEF ThreadInv
<1>3. QED
  BY <1>1, <1>2

----------------------------------------------------------------------------
(* One lemma per action.                                                   *)

LEMMA CallInv ==
    ASSUME TypeOK, \A u \in Thread : ThreadInv(u),
           NEW t \in Thread, NEW arming \in BOOLEAN, Call(t, arming)
    PROVE  \A u \in Thread : ThreadInv(u)'
<1>1. ASSUME NEW u \in Thread, u # t PROVE ThreadInv(u)'
  <2>1. height'[u] = height[u] /\ saved'[u] = saved[u]
    BY <1>1 DEF Call, TypeOK
  <2>2. QED
    BY <1>1, <2>1, OtherThread DEF Call, Live
<1>2. ThreadInv(t)'
  <2> SUFFICES ASSUME t \notin spilled
               PROVE  (jumped[t] # "wild" /\ Nest(t) /\ Splits(t) /\ Armed(t))'
    BY DEF ThreadInv, Call
  <2>1. jumped[t] # "wild" /\ Nest(t) /\ Splits(t) /\ Armed(t)
    BY DEF ThreadInv
  <2>2. height[t] \in 0..MaxHeight /\ depth[t] \in 0..JmpMax
    BY DEF TypeOK
  <2>3. height'[t] = height[t] + 1 /\ height[t] + 1 \in 1..MaxHeight
    BY <2>2, SizesAssumption DEF Call, TypeOK
  <2>4. /\ saved'[t][height[t] + 1] = IF arming THEN depth[t] ELSE Unwrapped
        /\ \A p \in 1..MaxHeight : p # height[t] + 1
              => saved'[t][p] = saved[t][p]
    BY <2>3 DEF Call, TypeOK
  <2>5. \A i \in Slots : host[t][i] # NoCtx => host[t][i].pos \in 1..MaxHeight
    BY CtxFacts DEF TypeOK
  <2>6. Nest(t)'
    BY <2>1, <2>2, <2>3, <2>4, <2>5 DEF Nest, Call
  <2>7. Splits(t)'
    <3> SUFFICES ASSUME NEW p \in 1..(height[t] + 1), saved'[t][p] # Unwrapped
                 PROVE  /\ saved'[t][p] <= depth[t]
                        /\ \A i \in Slots : i < depth[t] =>
                              ((i < saved'[t][p]) <=> (host[t][i].pos < p))
      BY <2>3 DEF Splits, Call
    <3>1. CASE p = height[t] + 1
      <4>1. saved'[t][p] = depth[t]
        BY <2>4, <3>1
      <4>2. \A i \in Slots : i < depth[t] => host[t][i].pos < p
        BY <2>1, <2>2, <2>5, <3>1 DEF Nest
      <4>3. QED
        BY <2>2, <4>1, <4>2
    <3>2. CASE p # height[t] + 1
      <4>1. p \in 1..height[t] /\ saved'[t][p] = saved[t][p]
        BY <2>2, <2>3, <2>4, <3>2, SizesAssumption
      <4>2. QED
        BY <2>1, <4>1 DEF Splits
    <3>3. QED
      BY <3>1, <3>2
  <2>8. Armed(t)'
    BY <2>1 DEF Armed, Call, Live, TopMatch
  <2>9. QED
    BY <2>1, <2>6, <2>7, <2>8 DEF Call
<1>3. QED
  BY <1>1, <1>2

LEMMA ReturnInv ==
    ASSUME TypeOK, \A u \in Thread : ThreadInv(u),
           NEW t \in Thread, Return(t)
    PROVE  \A u \in Thread : ThreadInv(u)'
<1>1. height[t] \in 1..MaxHeight /\ height[t] - 1 \in 0..MaxHeight
  BY SizesAssumption DEF Return, TypeOK
<1>2. Truncate(t, height[t] - 1)
  BY DEF Return
<1>3. ASSUME NEW u \in Thread, u # t PROVE ThreadInv(u)'
  <2>1. depth'[u] = depth[u]
    BY <1>3 DEF Return, Unwind, TypeOK
  <2>2. QED
    BY <1>1, <1>2, <1>3, <2>1, OtherThread, TruncateOther DEF Return
<1>4. ThreadInv(t)'
  <2> DEFINE h == height[t]
  <2> SUFFICES ASSUME t \notin spilled
               PROVE  (jumped[t] # "wild" /\ Nest(t) /\ Splits(t) /\ Armed(t))'
    BY DEF ThreadInv, Return
  <2>1. jumped[t] # "wild" /\ Nest(t) /\ Splits(t) /\ Armed(t)
    BY DEF ThreadInv
  <2>2. depth[t] \in 0..JmpMax /\ saved[t][h] \in (0..JmpMax) \cup {Unwrapped}
    <3>1. depth[t] \in 0..JmpMax
      BY DEF TypeOK
    <3>2. saved[t] \in [1..MaxHeight -> (0..JmpMax) \cup {Unwrapped}]
      BY DEF TypeOK
    <3>3. QED
      BY <1>1, <3>1, <3>2
  <2>3. \A i \in Slots : host[t][i] # NoCtx => host[t][i].pos \in 1..MaxHeight
    BY CtxFacts DEF TypeOK
  <2>4. depth'[t] = IF saved[t][h] = Unwrapped THEN depth[t] ELSE saved[t][h]
    <3>1. CASE saved[t][h] = Unwrapped
      BY <3>1 DEF Return, TypeOK
    <3>2. CASE saved[t][h] # Unwrapped
      <4>1. saved[t][h] \in 0..JmpMax /\ saved[t][h] <= depth[t]
        BY <1>1, <2>1, <2>2, <3>2 DEF Splits
      <4>2. depth' = [depth EXCEPT ![t] =
                        IF saved[t][h] < depth[t] THEN saved[t][h] ELSE depth[t]]
        BY <3>2 DEF Return, Unwind
      <4>3. QED
        BY <2>2, <3>2, <4>1, <4>2 DEF TypeOK
    <3>3. QED
      BY <3>1, <3>2
  <2>5. depth'[t] \in 0..JmpMax /\ depth'[t] <= depth[t]
    BY <1>1, <2>1, <2>2, <2>4 DEF Splits
  \* The entries that stay are those of the frames below, and all of them.
  <2>6. ASSUME NEW i \in Slots, i < depth[t]
        PROVE  (i < depth'[t]) <=> (host[t][i].pos < h)
    <3>1. host[t][i] # NoCtx /\ host[t][i].pos <= h
          /\ saved[t][host[t][i].pos] # Unwrapped
      BY <2>1, <2>6 DEF Nest
    <3>2. CASE saved[t][h] = Unwrapped
      <4>1. host[t][i].pos # h
        BY <3>1, <3>2
      <4>2. QED
        BY <1>1, <2>3, <2>4, <2>6, <3>1, <3>2, <4>1
    <3>3. CASE saved[t][h] # Unwrapped
      BY <1>1, <2>1, <2>4, <2>6, <3>3 DEF Splits
    <3>4. QED
      BY <3>2, <3>3
  <2>7. /\ height'[t] = h - 1
        /\ \A p \in 1..MaxHeight : p <= h - 1 => saved'[t][p] = saved[t][p]
        /\ \A k \in BufKeys : Live(t, k)' =>
              Live(t, k) /\ guest'[k] = guest[k] /\ guest[k].pos <= h - 1
    BY <1>1, <1>2, TruncateOwn
  <2>8. ASSUME NEW i \in Slots, i < depth'[t]
        PROVE  /\ i < depth[t]
               /\ host[t][i] # NoCtx
               /\ host'[t][i] = host[t][i]
               /\ host[t][i].pos \in 1..(h - 1)
    <3>1. i < depth[t]
      BY <2>2, <2>5, <2>8 DEF Slots
    <3>2. host[t][i] # NoCtx /\ host[t][i].pos \in 1..MaxHeight
      BY <2>1, <2>3, <3>1 DEF Nest
    <3>3. host[t][i].pos < h
      BY <2>6, <2>8, <3>1
    <3>4. host[t][i].pos <= h - 1
      BY <1>1, <3>2, <3>3
    <3>5. QED
      BY <1>1, <1>2, <3>1, <3>2, <3>4, TruncateOwn
  <2>9. Nest(t)'
    <3> SUFFICES ASSUME NEW i \in Slots, i < depth'[t]
                 PROVE  /\ host'[t][i] # NoCtx
                        /\ host'[t][i].thr = t
                        /\ host'[t][i].pos <= height'[t]
                        /\ saved'[t][host'[t][i].pos] # Unwrapped
                        /\ \A j \in Slots : j < i =>
                              host'[t][j].pos <= host'[t][i].pos
      BY DEF Nest
    <3>1. ASSUME NEW j \in Slots, j < i
          PROVE  host'[t][j].pos <= host'[t][i].pos
      <4>1. j < depth'[t]
        BY <2>5, <3>1, SizesAssumption DEF Slots
      <4>2. host'[t][j] = host[t][j] /\ host'[t][i] = host[t][i]
            /\ i < depth[t]
        BY <2>8, <4>1
      <4>3. QED
        BY <2>1, <3>1, <4>2 DEF Nest
    <3>2. host[t][i].pos \in 1..MaxHeight
      BY <2>3, <2>8
    <3>3. QED
      BY <1>1, <2>1, <2>7, <2>8, <3>1, <3>2 DEF Nest
  <2>10. Splits(t)'
    <3> SUFFICES ASSUME NEW p \in 1..(h - 1), saved'[t][p] # Unwrapped
                 PROVE  /\ saved'[t][p] <= depth'[t]
                        /\ \A i \in Slots : i < depth'[t] =>
                              ((i < saved'[t][p]) <=> (host'[t][i].pos < p))
      BY <2>7 DEF Splits
    <3>1. p \in 1..h /\ p \in 1..MaxHeight /\ saved'[t][p] = saved[t][p]
      <4>1. p \in 1..h /\ p \in 1..MaxHeight /\ p <= h - 1
        BY <1>1, SizesAssumption
      <4>2. QED
        BY <2>7, <4>1
    <3>2. /\ saved[t][p] <= depth[t]
          /\ \A i \in Slots : i < depth[t] =>
                ((i < saved[t][p]) <=> (host[t][i].pos < p))
      BY <2>1, <3>1 DEF Splits
    <3>3. saved[t][p] \in 0..JmpMax
      <4>1. saved[t] \in [1..MaxHeight -> (0..JmpMax) \cup {Unwrapped}]
        BY DEF TypeOK
      <4>2. saved[t][p] \in (0..JmpMax) \cup {Unwrapped}
        BY <3>1, <4>1
      <4>3. QED
        BY <3>1, <4>2
    <3>4. saved[t][p] <= depth'[t]
      <4>1. SUFFICES ASSUME depth'[t] < saved[t][p] PROVE FALSE
        BY <2>5, <3>3
      <4>2. depth'[t] \in Slots /\ depth'[t] < depth[t]
        BY <2>2, <2>5, <3>2, <3>3, <4>1, SizesAssumption DEF Slots
      <4>3. host[t][depth'[t]].pos < p
        BY <3>2, <4>1, <4>2
      <4>4. host[t][depth'[t]].pos \in 1..MaxHeight
        BY <2>1, <2>3, <4>2 DEF Nest
      <4>5. ~(host[t][depth'[t]].pos < h)
        BY <2>5, <2>6, <4>2
      <4>6. QED
        BY <1>1, <4>3, <4>4, <4>5
    <3>5. QED
      BY <2>8, <3>1, <3>2, <3>4
  <2>11. Armed(t)'
    <3> SUFFICES ASSUME NEW k \in BufKeys, Live(t, k)', k \notin spent'
                 PROVE  \E i \in Slots :
                            TopMatch(t, k, i)' /\ host'[t][i] = guest'[k]
      BY DEF Armed
    <3>1. Live(t, k) /\ guest'[k] = guest[k] /\ guest[k].pos <= h - 1
          /\ k \notin spent
      BY <2>7 DEF Return
    <3>2. PICK i \in Slots : TopMatch(t, k, i) /\ host[t][i] = guest[k]
      BY <2>1, <3>1 DEF Armed
    <3>3. host[t][i].pos \in 1..MaxHeight
      BY <2>3, <3>1, <3>2 DEF Live
    <3>4. i < depth'[t]
      BY <1>1, <2>6, <3>1, <3>2, <3>3 DEF TopMatch
    <3>5. TopMatch(t, k, i)'
      BY <2>2, <2>5, <3>2, <3>4 DEF TopMatch, Return, Slots
    <3>6. QED
      BY <2>8, <3>1, <3>2, <3>4, <3>5
  <2>12. QED
    BY <2>1, <2>9, <2>10, <2>11 DEF Return
<1>5. QED
  BY <1>3, <1>4

LEMMA SetJmpInv ==
    ASSUME TypeOK, \A u \in Thread : ThreadInv(u),
           NEW t \in Thread, NEW ea \in EA, NEW s \in Site, SetJmp(t, ea, s)
    PROVE  \A u \in Thread : ThreadInv(u)'
<1> DEFINE k0 == JmpKey(ea)
           c0 == [thr |-> t, pos |-> height[t], site |-> s]
<1>1. /\ k0 \in BufKeys
      /\ height[t] \in 1..MaxHeight
      /\ c0 \in Ctx /\ c0 # NoCtx
      /\ guest' = [guest EXCEPT ![k0] = c0]
  <2>1. height[t] \in 1..MaxHeight
    BY SizesAssumption DEF SetJmp, TypeOK
  <2>2. QED
    BY <2>1, KeyFact, NewCtx, NoCtxAssumption DEF SetJmp
<1>2. ASSUME NEW u \in Thread, u # t PROVE ThreadInv(u)'
  <2>1. /\ height'[u] = height[u] /\ saved'[u] = saved[u]
        /\ host'[u] = host[u] /\ jumped'[u] = jumped[u]
    BY <1>2 DEF SetJmp, TypeOK
  <2>2. depth'[u] = depth[u] /\ key'[u] = key[u] /\ (u \in spilled => u \in spilled')
    BY <1>2 DEF SetJmp, Push, TypeOK
  <2>3. ASSUME NEW k \in BufKeys, Live(u, k)', k \notin spent'
        PROVE  Live(u, k) /\ k \notin spent /\ guest'[k] = guest[k]
    <3>1. guest'[k] = IF k = k0 THEN c0 ELSE guest[k]
      BY <1>1 DEF TypeOK
    <3>2. k # k0
      BY <1>2, <2>3, <3>1 DEF Live
    <3>3. QED
      BY <2>3, <3>1, <3>2 DEF Live, SetJmp
  <2>4. QED
    BY <2>1, <2>2, <2>3, OtherThread
<1>3. ThreadInv(t)'
  <2> SUFFICES ASSUME t \notin spilled'
               PROVE  (jumped[t] # "wild" /\ Nest(t) /\ Splits(t) /\ Armed(t))'
    BY DEF ThreadInv
  <2> DEFINE d == depth[t]
  <2>1. ~(d >= JmpMax) /\ t \notin spilled
    BY DEF SetJmp, Push
  <2>2. d \in Slots
    BY <2>1, SizesAssumption DEF TypeOK, Slots
  <2>3. jumped[t] # "wild" /\ Nest(t) /\ Splits(t) /\ Armed(t)
    BY <2>1 DEF ThreadInv
  <2>4. depth'[t] = d + 1
    BY <2>1 DEF SetJmp, Push, TypeOK
  <2>5. /\ key'[t][d] = k0
        /\ \A i \in Slots : i # d => key'[t][i] = key[t][i]
    <3>1. key' = [key EXCEPT ![t][d] = k0]
      BY <2>1 DEF SetJmp, Push
    <3>2. QED
      BY <2>2, <3>1 DEF TypeOK
  <2>6. /\ host'[t][d] = c0
        /\ \A i \in Slots : i # d => host'[t][i] = host[t][i]
    <3>1. host' = [host EXCEPT ![t][d] = c0]
      BY <2>1 DEF SetJmp, PushedSlot
    <3>2. QED
      BY <2>2, <3>1 DEF TypeOK
  <2>7. \A i \in Slots : host[t][i] # NoCtx => host[t][i].pos \in 1..MaxHeight
    BY CtxFacts DEF TypeOK
  <2>8. \A i \in Slots : i < d + 1 => i = d \/ i < d
    BY <2>2 DEF Slots
  <2>9. height' = height /\ saved' = saved /\ saved[t][height[t]] # Unwrapped
    BY DEF SetJmp
  <2>10. Nest(t)'
    <3> SUFFICES ASSUME NEW i \in Slots, i < d + 1
                 PROVE  /\ host'[t][i] # NoCtx
                        /\ host'[t][i].thr = t
                        /\ host'[t][i].pos <= height[t]
                        /\ saved[t][host'[t][i].pos] # Unwrapped
                        /\ \A j \in Slots : j < i =>
                              host'[t][j].pos <= host'[t][i].pos
      BY <2>4, <2>9 DEF Nest
    <3>1. CASE i = d
      <4>1. ASSUME NEW j \in Slots, j < d
            PROVE  host'[t][j].pos <= height[t]
        BY <2>3, <2>6, <4>1 DEF Nest, Slots
      <4>2. QED
        BY <1>1, <2>6, <2>9, <3>1, <4>1
    <3>2. CASE i # d
      <4>1. i < d
        BY <2>8, <3>2
      <4>2. ASSUME NEW j \in Slots, j < i
            PROVE  host'[t][j].pos <= host'[t][i].pos
        <5>1. j < d
          BY <2>2, <4>1, <4>2 DEF Slots
        <5>2. host'[t][j] = host[t][j] /\ host'[t][i] = host[t][i]
          BY <2>2, <2>6, <3>2, <5>1 DEF Slots
        <5>3. QED
          BY <2>3, <4>1, <4>2, <5>2 DEF Nest
      <4>3. host'[t][i] = host[t][i]
        BY <2>6, <3>2
      <4>4. QED
        BY <2>3, <4>1, <4>2, <4>3 DEF Nest
    <3>3. QED
      BY <3>1, <3>2
  <2>11. Splits(t)'
    <3> SUFFICES ASSUME NEW p \in 1..height[t], saved[t][p] # Unwrapped
                 PROVE  /\ saved[t][p] <= d + 1
                        /\ \A i \in Slots : i < d + 1 =>
                              ((i < saved[t][p]) <=> (host'[t][i].pos < p))
      BY <2>4, <2>9 DEF Splits
    <3>1. /\ saved[t][p] <= d
          /\ \A i \in Slots : i < d =>
                ((i < saved[t][p]) <=> (host[t][i].pos < p))
      BY <2>3 DEF Splits
    <3>2. p \in 1..MaxHeight
      BY <1>1, SizesAssumption
    <3>3. saved[t][p] \in 0..JmpMax
      <4>1. saved[t] \in [1..MaxHeight -> (0..JmpMax) \cup {Unwrapped}]
        BY DEF TypeOK
      <4>2. QED
        BY <3>2, <4>1
    <3>4. ~(d < saved[t][p]) /\ ~(height[t] < p)
      BY <1>1, <2>2, <3>1, <3>2, <3>3, SizesAssumption DEF Slots
    <3>5. ASSUME NEW i \in Slots, i < d + 1
          PROVE  (i < saved[t][p]) <=> (host'[t][i].pos < p)
      <4>1. CASE i = d
        BY <2>6, <3>4, <4>1
      <4>2. CASE i # d
        BY <2>6, <2>8, <3>1, <3>5, <4>2
      <4>3. QED
        BY <4>1, <4>2
    <3>6. saved[t][p] <= d + 1
      BY <2>2, <3>1, <3>3, SizesAssumption DEF Slots
    <3>7. QED
      BY <3>5, <3>6
  <2>12. Armed(t)'
    <3> SUFFICES ASSUME NEW k \in BufKeys, Live(t, k)', k \notin spent'
                 PROVE  \E i \in Slots :
                            TopMatch(t, k, i)' /\ host'[t][i] = guest'[k]
      BY DEF Armed
    <3>1. guest'[k] = IF k = k0 THEN c0 ELSE guest[k]
      BY <1>1 DEF TypeOK
    <3>2. CASE k = k0
      <4>1. \A j \in Slots : ~(d < j /\ j < d + 1)
        BY <2>2 DEF Slots
      <4>2. PICK i \in Slots : i = d
        BY <2>2
      <4>3. TopMatch(t, k, i)'
        BY <2>2, <2>4, <2>5, <3>2, <4>1, <4>2 DEF TopMatch, Slots
      <4>4. host'[t][i] = guest'[k]
        BY <2>6, <3>1, <3>2, <4>2
      <4>5. QED
        BY <4>3, <4>4
    <3>3. CASE k # k0
      <4>1. Live(t, k) /\ k \notin spent
        BY <3>1, <3>3 DEF Live, SetJmp
      <4>2. PICK i \in Slots : TopMatch(t, k, i) /\ host[t][i] = guest[k]
        BY <2>3, <4>1 DEF Armed
      <4>3. i < d /\ i # d
        BY <2>2, <4>2 DEF TopMatch, Slots
      <4>4. TopMatch(t, k, i)'
        <5>1. i < d + 1 /\ key'[t][i] = k
          BY <2>2, <2>5, <4>2, <4>3 DEF TopMatch, Slots
        <5>2. ASSUME NEW j \in Slots, i < j, j < d + 1
              PROVE  key'[t][j] # k
          <6>1. CASE j = d
            BY <2>5, <3>3, <6>1
          <6>2. CASE j # d
            BY <2>5, <2>8, <4>2, <5>2, <6>2 DEF TopMatch
          <6>3. QED
            BY <6>1, <6>2
        <5>3. QED
          BY <2>4, <5>1, <5>2 DEF TopMatch
      <4>5. QED
        BY <2>6, <3>1, <3>3, <4>2, <4>3, <4>4
    <3>4. QED
      BY <3>2, <3>3
  <2>13. QED
    BY <2>3, <2>10, <2>11, <2>12 DEF SetJmp
<1>4. QED
  BY <1>2, <1>3

\* What a fired entry is: its frame is live, and truncating to it keeps exactly
\* the entries of the frames below and those armed earlier in the same frame.
LEMMA LandInv ==
    ASSUME TypeOK, \A u \in Thread : ThreadInv(u),
           NEW t \in Thread, NEW ea \in EA, LongJmpLand(t, ea)
    PROVE  \A u \in Thread : ThreadInv(u)'
<1> DEFINE k0 == JmpKey(ea)
<1>1. PICK i0 \in Slots :
          /\ TopMatch(t, k0, i0)
          /\ depth' = [depth EXCEPT ![t] = i0]
          /\ \/ /\ host[t][i0] = NoCtx
                /\ jumped' = [jumped EXCEPT ![t] = "wild"]
                /\ UNCHANGED <<height, saved, host, guest, spent>>
             \/ /\ host[t][i0] # NoCtx
                /\ jumped' = [jumped EXCEPT ![t] =
                      IF guest[k0] = host[t][i0] THEN "landed" ELSE "crossed"]
                /\ spent' = spent \cup {b \in BufKeys :
                      Live(t, b) /\ guest[b].pos = host[t][i0].pos}
                /\ Truncate(t, host[t][i0].pos)
  BY DEF LongJmpLand
<1>2. UNCHANGED <<key, spilled>>
  BY DEF LongJmpLand
<1>3. ASSUME NEW u \in Thread, u # t PROVE ThreadInv(u)'
  <2>1. depth'[u] = depth[u] /\ jumped'[u] = jumped[u] /\ key'[u] = key[u]
        /\ (u \in spilled => u \in spilled')
    BY <1>1, <1>2, <1>3 DEF TypeOK
  <2>2. CASE host[t][i0] = NoCtx
    BY <1>1, <2>1, <2>2, OtherThread DEF Live
  <2>3. CASE host[t][i0] # NoCtx
    <3>1. host[t][i0].pos \in 0..MaxHeight /\ Truncate(t, host[t][i0].pos)
      BY <1>1, <2>3, CtxFacts DEF TypeOK
    <3>2. spent \subseteq spent'
      BY <1>1, <2>3
    <3>3. QED
      BY <1>3, <2>1, <3>1, <3>2, OtherThread, TruncateOther
  <2>4. QED
    BY <2>2, <2>3
<1>4. ThreadInv(t)'
  <2> SUFFICES ASSUME t \notin spilled
               PROVE  (jumped[t] # "wild" /\ Nest(t) /\ Splits(t) /\ Armed(t))'
    BY <1>2 DEF ThreadInv
  <2>1. jumped[t] # "wild" /\ Nest(t) /\ Splits(t) /\ Armed(t)
    BY DEF ThreadInv
  <2> DEFINE h == host[t][i0].pos
  <2>2. /\ host[t][i0] # NoCtx
        /\ i0 < depth[t]
        /\ h \in 1..MaxHeight /\ h <= height[t]
    <3>1. i0 < depth[t]
      BY <1>1 DEF TopMatch
    <3>2. host[t][i0] # NoCtx /\ h <= height[t]
      BY <2>1, <3>1 DEF Nest
    <3>3. QED
      BY <3>1, <3>2, CtxFacts DEF TypeOK
  <2>3. /\ jumped'[t] # "wild"
        /\ spent' = spent \cup
              {b \in BufKeys : Live(t, b) /\ guest[b].pos = h}
        /\ Truncate(t, h)
        /\ depth'[t] = i0
    BY <1>1, <2>2 DEF TypeOK
  <2>4. /\ height'[t] = h
        /\ \A p \in 1..MaxHeight : p <= h => saved'[t][p] = saved[t][p]
        /\ \A i \in Slots : host[t][i] # NoCtx /\ host[t][i].pos <= h
              => host'[t][i] = host[t][i]
        /\ \A k \in BufKeys : Live(t, k)' =>
              Live(t, k) /\ guest'[k] = guest[k] /\ guest[k].pos <= h
    BY <2>2, <2>3, TruncateOwn
  <2>5. \A i \in Slots : host[t][i] # NoCtx => host[t][i].pos \in 1..MaxHeight
    BY CtxFacts DEF TypeOK
  <2>6. ASSUME NEW i \in Slots, i < i0
        PROVE  /\ i < depth[t]
               /\ host[t][i] # NoCtx
               /\ host'[t][i] = host[t][i]
               /\ host[t][i].pos \in 1..MaxHeight
               /\ host[t][i].pos <= h
    <3>1. i < depth[t]
      BY <2>2, <2>6 DEF Slots, TypeOK
    <3>2. host[t][i] # NoCtx /\ host[t][i].pos <= h
      BY <2>1, <2>2, <2>6, <3>1 DEF Nest
    <3>3. QED
      BY <2>4, <2>5, <3>1, <3>2
  <2>7. Nest(t)'
    <3> SUFFICES ASSUME NEW i \in Slots, i < i0
                 PROVE  /\ host'[t][i] # NoCtx
                        /\ host'[t][i].thr = t
                        /\ host'[t][i].pos <= h
                        /\ saved'[t][host'[t][i].pos] # Unwrapped
                        /\ \A j \in Slots : j < i =>
                              host'[t][j].pos <= host'[t][i].pos
      BY <2>3, <2>4 DEF Nest
    <3>1. ASSUME NEW j \in Slots, j < i
          PROVE  host'[t][j].pos <= host'[t][i].pos
      <4>1. j < i0
        BY <3>1 DEF Slots
      <4>2. host'[t][j] = host[t][j] /\ host'[t][i] = host[t][i]
            /\ i < depth[t]
        BY <2>6, <4>1
      <4>3. QED
        BY <2>1, <3>1, <4>2 DEF Nest
    <3>2. saved'[t][host[t][i].pos] = saved[t][host[t][i].pos]
      BY <2>4, <2>6
    <3>3. QED
      BY <2>1, <2>6, <3>1, <3>2 DEF Nest
  <2>8. Splits(t)'
    <3> SUFFICES ASSUME NEW p \in 1..h, saved'[t][p] # Unwrapped
                 PROVE  /\ saved'[t][p] <= i0
                        /\ \A i \in Slots : i < i0 =>
                              ((i < saved'[t][p]) <=> (host'[t][i].pos < p))
      BY <2>3, <2>4 DEF Splits
    <3>1. p \in 1..height[t] /\ p \in 1..MaxHeight /\ p <= h
      BY <2>2, SizesAssumption DEF TypeOK
    <3>2. saved'[t][p] = saved[t][p]
      BY <2>4, <3>1
    <3>3. \A i \in Slots : i < depth[t] =>
              ((i < saved[t][p]) <=> (host[t][i].pos < p))
      BY <2>1, <3>1, <3>2 DEF Splits
    <3>4. saved[t][p] \in 0..JmpMax
      <4>1. saved[t] \in [1..MaxHeight -> (0..JmpMax) \cup {Unwrapped}]
        BY DEF TypeOK
      <4>2. QED
        BY <3>1, <3>2, <4>1
    <3>5. ~(h < p)
      BY <2>2, <3>1
    <3>6. saved[t][p] <= i0
      BY <2>2, <3>3, <3>4, <3>5 DEF Slots
    <3>7. QED
      BY <2>6, <3>2, <3>3, <3>6
  <2>9. Armed(t)'
    <3> SUFFICES ASSUME NEW k \in BufKeys, Live(t, k)', k \notin spent'
                 PROVE  \E i \in Slots :
                            TopMatch(t, k, i)' /\ host'[t][i] = guest'[k]
      BY DEF Armed
    <3>1. /\ Live(t, k) /\ guest'[k] = guest[k] /\ guest[k].pos <= h
          /\ k \notin spent /\ guest[k].pos # h
      BY <2>3, <2>4
    <3>2. PICK i \in Slots : TopMatch(t, k, i) /\ host[t][i] = guest[k]
      BY <2>1, <3>1 DEF Armed
    <3>3. host[t][i].pos \in 1..MaxHeight
      BY <2>5, <3>1, <3>2 DEF Live
    \* An entry at or above i0 would belong to a frame at or above h.
    <3>4. i < i0
      <4>1. SUFFICES ASSUME ~(i < i0) PROVE FALSE
        OBVIOUS
      <4>2. i = i0 \/ i0 < i
        BY <4>1 DEF Slots
      <4>3. i0 < i => h <= host[t][i].pos
        BY <2>1, <3>2 DEF Nest, TopMatch
      <4>4. QED
        BY <2>2, <3>1, <3>2, <3>3, <4>2, <4>3
    <3>5. TopMatch(t, k, i)'
      <4>1. \A j \in Slots : i < j /\ j < i0 => j < depth[t]
        BY <2>6
      <4>2. QED
        BY <1>2, <2>3, <3>2, <3>4, <4>1 DEF TopMatch
    <3>6. QED
      BY <2>6, <3>1, <3>2, <3>4, <3>5
  <2>10. QED
    BY <2>3, <2>7, <2>8, <2>9
<1>5. QED
  BY <1>3, <1>4

LEMMA MissInv ==
    ASSUME TypeOK, \A u \in Thread : ThreadInv(u),
           NEW t \in Thread, NEW ea \in EA, LongJmpMiss(t, ea)
    PROVE  \A u \in Thread : ThreadInv(u)'
<1>1. \A u \in Thread : jumped[u] # "wild" => jumped'[u] # "wild"
  BY DEF LongJmpMiss, TypeOK
<1>2. QED
  BY <1>1 DEF LongJmpMiss, ThreadInv, Nest, Splits, Armed, Live, TopMatch

LEMMA InvNext == IInv /\ [Next]_vars => IInv'
<1> SUFFICES ASSUME IInv, [Next]_vars PROVE IInv'
  OBVIOUS
<1>1. TypeOK /\ \A u \in Thread : ThreadInv(u)
  BY ByThread
<1>2. TypeOK'
  BY <1>1, TypeNext
<1>3. \A u \in Thread : ThreadInv(u)'
  <2>1. CASE UNCHANGED vars
    BY <1>1, <2>1 DEF vars, ThreadInv, Nest, Splits, Armed, Live, TopMatch
  <2>2. ASSUME NEW t \in Thread, NEW arming \in BOOLEAN, Call(t, arming)
        PROVE  \A u \in Thread : ThreadInv(u)'
    BY <1>1, <2>2, CallInv
  <2>3. ASSUME NEW t \in Thread, Return(t)
        PROVE  \A u \in Thread : ThreadInv(u)'
    BY <1>1, <2>3, ReturnInv
  <2>4. ASSUME NEW t \in Thread, NEW ea \in EA, NEW s \in Site,
               SetJmp(t, ea, s)
        PROVE  \A u \in Thread : ThreadInv(u)'
    BY <1>1, <2>4, SetJmpInv
  <2>5. ASSUME NEW t \in Thread, NEW ea \in EA, LongJmpLand(t, ea)
        PROVE  \A u \in Thread : ThreadInv(u)'
    BY <1>1, <2>5, LandInv
  <2>6. ASSUME NEW t \in Thread, NEW ea \in EA, LongJmpMiss(t, ea)
        PROVE  \A u \in Thread : ThreadInv(u)'
    BY <1>1, <2>6, MissInv
  <2>7. QED
    BY <2>1, <2>2, <2>3, <2>4, <2>5, <2>6 DEF Next
<1>4. QED
  BY <1>2, <1>3 DEF IInv, NeverWild, EntriesNest, WrapperSplitsEntries,
       LiveBufferArmed, ThreadInv, Nest, Splits, Armed

LEMMA InductiveInvariant == Spec => []IInv
BY InvInit, InvNext, PTL DEF Spec

\* No thread whose stack of buffers never overflowed ever jumps into a frame
\* that has returned, whatever the guest arms, fires and returns from.
THEOREM NoJumpIntoDeadFrame == Spec => []NeverWild
<1>1. IInv => NeverWild
  BY DEF IInv
<1>2. QED
  BY <1>1, InductiveInvariant, PTL

\* A buffer whose frame is on the stack and has not been landed in is armed,
\* with the context the guest's own setjmp stored.
THEOREM LiveBuffersStayArmed == Spec => []LiveBufferArmed
<1>1. IInv => LiveBufferArmed
  BY DEF IInv
<1>2. QED
  BY <1>1, InductiveInvariant, PTL

\* The entries of a thread that never overflowed name live, wrapped frames in the order
\* of the frames, so every cut of the stack drops whole frames.
THEOREM EntriesStayNested == Spec => []EntriesNest
<1>1. IInv => EntriesNest
  BY DEF IInv
<1>2. QED
  BY <1>1, InductiveInvariant, PTL

\* The depth a wrapper restores on the way out separates its own frame's entries from
\* those of the frames below.
THEOREM WrapperSplits == Spec => []WrapperSplitsEntries
<1>1. IInv => WrapperSplitsEntries
  BY DEF IInv
<1>2. QED
  BY <1>1, InductiveInvariant, PTL

----------------------------------------------------------------------------
(* Longjmp through a buffer that is live and unused.                       *)

\* The scan finds the context the guest stored, and nothing else.
LEMMA ScanFinds ==
    ASSUME IInv, NEW t \in Thread, t \notin spilled, NEW k \in BufKeys,
           Live(t, k), k \notin spent
    PROVE  /\ ~NoMatch(t, k)
           /\ \A i \in Slots : TopMatch(t, k, i) => host[t][i] = guest[k]
<1>1. PICK i \in Slots : TopMatch(t, k, i) /\ host[t][i] = guest[k]
  BY DEF IInv, LiveBufferArmed
<1>2. ~NoMatch(t, k)
  BY <1>1 DEF NoMatch, TopMatch
<1>3. ASSUME NEW j \in Slots, TopMatch(t, k, j) PROVE j = i
  BY <1>1, <1>3 DEF TopMatch, Slots
<1>4. QED
  BY <1>1, <1>2, <1>3

LEMMA FirstJump ==
    ASSUME IInv, NEW t \in Thread, NEW ea \in EA,
           LongJmpLand(t, ea) \/ LongJmpMiss(t, ea),
           t \notin spilled, Live(t, JmpKey(ea)), JmpKey(ea) \notin spent
    PROVE  jumped'[t] = "landed" /\ height'[t] = guest[JmpKey(ea)].pos
<1> DEFINE k == JmpKey(ea)
<1>1. ~LongJmpMiss(t, ea)
  BY KeyFact, ScanFinds DEF LongJmpMiss
<1>2. PICK i \in Slots :
          /\ TopMatch(t, k, i)
          /\ \/ host[t][i] = NoCtx
             \/ /\ jumped' = [jumped EXCEPT ![t] =
                      IF guest[k] = host[t][i] THEN "landed" ELSE "crossed"]
                /\ Truncate(t, host[t][i].pos)
  BY <1>1 DEF LongJmpLand
<1>3. host[t][i] = guest[k] /\ guest[k] # NoCtx
  BY <1>2, KeyFact, ScanFinds DEF Live
<1>4. QED
  BY <1>2, <1>3 DEF IInv, TypeOK, Truncate

\* A longjmp through a live buffer that has not been used arrives at its setjmp,
\* in the frame the guest's buffer names and with that frame's registers.
THEOREM FirstLongjmpArrives == Spec => FirstJumpLands
<1>1. IInv /\ [Next]_vars =>
        [\A t \in Thread, ea \in EA :
           /\ LongJmpLand(t, ea) \/ LongJmpMiss(t, ea)
           /\ t \notin spilled
           /\ Live(t, JmpKey(ea)) /\ JmpKey(ea) \notin spent
           => jumped'[t] = "landed"
              /\ height'[t] = guest[JmpKey(ea)].pos]_vars
  BY FirstJump
<1>2. QED
  BY <1>1, InductiveInvariant, PTL DEF Spec, FirstJumpLands

----------------------------------------------------------------------------
(* The refinement of GuestJump, overflowing threads included.              *)

\* The guest's view of buffer k: used up, or what guest memory holds.
View(k) == IF k \in spent THEN NoCtx ELSE guest[k]

LEMMA CallMaps ==
    ASSUME TypeOK, NEW t \in Thread, NEW arming \in BOOLEAN, Call(t, arming)
    PROVE  Contract!Call(t)
BY DEF Call, Contract!Call

\* A truncation and the buffers it uses up, as the guest sees them: every context of t
\* from height h up is gone.
LEMMA ViewBelow ==
    ASSUME TypeOK, NEW t \in Thread, NEW h \in 1..MaxHeight, NEW k \in BufKeys,
           \/ guest'[k] = (IF Above(guest[k], t, h - 1) THEN NoCtx ELSE guest[k])
              /\ (k \in spent' <=> k \in spent)
           \/ guest'[k] = (IF Above(guest[k], t, h) THEN NoCtx ELSE guest[k])
              /\ (k \in spent' <=> k \in spent \/ (Live(t, k) /\ guest[k].pos = h))
    PROVE  View(k)' = IF View(k) # NoCtx /\ View(k).thr = t /\ View(k).pos >= h
                      THEN NoCtx ELSE View(k)
<1>1. guest[k] # NoCtx => guest[k].pos \in 1..MaxHeight
  BY CtxFacts DEF TypeOK
<1>2. guest[k] # NoCtx =>
        /\ guest[k].pos > h - 1 <=> guest[k].pos >= h
        /\ guest[k].pos >= h <=> guest[k].pos > h \/ guest[k].pos = h
  BY <1>1
<1>3. QED
  BY <1>2 DEF View, Above, Live

LEMMA ReturnMaps ==
    ASSUME TypeOK, NEW t \in Thread, Return(t)
    PROVE  Contract!Return(t)
<1>1. height[t] \in 1..MaxHeight
  BY SizesAssumption DEF Return, TypeOK
<1>2. ASSUME NEW k \in BufKeys
      PROVE  View(k)' = IF View(k) # NoCtx /\ View(k).thr = t
                              /\ View(k).pos >= height[t]
                        THEN NoCtx ELSE View(k)
  <2>1. /\ guest'[k] = IF Above(guest[k], t, height[t] - 1)
                       THEN NoCtx ELSE guest[k]
        /\ k \in spent' <=> k \in spent
    BY DEF Return, Truncate
  <2>2. QED
    BY <1>1, <2>1, ViewBelow
<1>3. height' = [height EXCEPT ![t] = @ - 1] /\ height[t] > 0
      /\ jumped' = jumped /\ through' = through /\ spilled' = spilled
  BY DEF Return, Truncate
<1>4. QED
  BY <1>2, <1>3 DEF Contract!Return, Contract!Below, View

LEMMA SetJmpMaps ==
    ASSUME TypeOK, NEW t \in Thread, NEW ea \in EA, NEW s \in Site,
           SetJmp(t, ea, s)
    PROVE  Contract!Arm(t, JmpKey(ea), s)
<1> DEFINE c0 == [thr |-> t, pos |-> height[t], site |-> s]
<1>1. JmpKey(ea) \in BufKeys
  BY KeyFact
<1>2. ASSUME NEW k \in BufKeys
      PROVE  View(k)' = IF k = JmpKey(ea) THEN c0 ELSE View(k)
  <2>1. guest'[k] = IF k = JmpKey(ea) THEN c0 ELSE guest[k]
    BY DEF SetJmp, TypeOK
  <2>2. k \in spent' <=> k \in spent /\ k # JmpKey(ea)
    BY DEF SetJmp
  <2>3. QED
    BY <2>1, <2>2 DEF View
<1>3. height[t] > 0 /\ height' = height /\ jumped' = jumped /\ through' = through
  BY DEF SetJmp
<1>4. spilled' \in {spilled, spilled \cup {t}}
  BY DEF SetJmp, Push
<1>5. QED
  BY <1>1, <1>2, <1>3, <1>4 DEF Contract!Arm, View

\* What a longjmp that finds entry i does to the guest's view, when the entry's frame is
\* still there.
LEMMA LandView ==
    ASSUME TypeOK, NEW t \in Thread, NEW ea \in EA, NEW i \in Slots,
           host[t][i] # NoCtx,
           spent' = spent \cup
               {b \in BufKeys : Live(t, b) /\ guest[b].pos = host[t][i].pos},
           Truncate(t, host[t][i].pos), NEW k \in BufKeys
    PROVE  View(k)' = IF View(k) # NoCtx /\ View(k).thr = t
                            /\ View(k).pos >= host[t][i].pos
                      THEN NoCtx ELSE View(k)
<1>1. host[t][i].pos \in 1..MaxHeight
  BY CtxFacts DEF TypeOK
<1>2. guest'[k] = IF Above(guest[k], t, host[t][i].pos) THEN NoCtx ELSE guest[k]
  BY DEF Truncate
<1>3. k \in spent' <=> k \in spent \/ (Live(t, k) /\ guest[k].pos = host[t][i].pos)
  OBVIOUS
<1>4. QED
  BY <1>1, <1>2, <1>3, ViewBelow

\* A longjmp of a thread that has overflowed.
LEMMA VoidLandMaps ==
    ASSUME TypeOK, NEW t \in Thread, t \in spilled, NEW ea \in EA,
           LongJmpLand(t, ea)
    PROVE  Contract!JumpVoid(t)
<1>1. PICK i \in Slots :
          \/ /\ host[t][i] = NoCtx
             /\ jumped' = [jumped EXCEPT ![t] = "wild"]
             /\ UNCHANGED <<height, guest, spent>>
          \/ /\ host[t][i] # NoCtx
             /\ jumped' = [jumped EXCEPT ![t] =
                   IF guest[JmpKey(ea)] = host[t][i] THEN "landed" ELSE "crossed"]
             /\ spent' = spent \cup {b \in BufKeys :
                   Live(t, b) /\ guest[b].pos = host[t][i].pos}
             /\ Truncate(t, host[t][i].pos)
  BY DEF LongJmpLand
<1>2. spilled' = spilled /\ \E k \in BufKeys : through' = [through EXCEPT ![t] = k]
  BY KeyFact DEF LongJmpLand
<1>3. \E o \in Contract!Outcomes : jumped' = [jumped EXCEPT ![t] = o]
  BY <1>1 DEF Contract!Outcomes
<1>4. CASE host[t][i] = NoCtx
  <2>1. height' = [height EXCEPT ![t] = height[t]] /\ height[t] \in 0..MaxHeight
    BY <1>1, <1>4 DEF TypeOK
  <2>2. \A k \in BufKeys : View(k)' = View(k)
    BY <1>1, <1>4 DEF View
  <2>3. {} \in SUBSET {k \in BufKeys : Contract!Usable(t, k)}
    OBVIOUS
  <2>4. \E gone \in SUBSET {k \in BufKeys : Contract!Usable(t, k)} :
          [k \in BufKeys |-> View(k)']
            = [k \in BufKeys |-> IF k \in gone THEN NoCtx ELSE View(k)]
    BY <2>2, <2>3
  <2>5. QED
    BY <1>2, <1>3, <2>1, <2>4 DEF Contract!JumpVoid, View
<1>5. CASE host[t][i] # NoCtx
  <2> DEFINE h == host[t][i].pos
             gone == {k \in BufKeys : View(k) # NoCtx /\ View(k).thr = t
                                        /\ View(k).pos >= h}
  <2>1. height' = [height EXCEPT ![t] = h] /\ h \in 0..MaxHeight
    BY <1>1, <1>5, CtxFacts DEF TypeOK, Truncate
  <2>2. \A k \in BufKeys : View(k)' = IF k \in gone THEN NoCtx ELSE View(k)
    BY <1>1, <1>5, LandView
  <2>3. gone \in SUBSET {k \in BufKeys : Contract!Usable(t, k)}
    BY DEF Contract!Usable, View
  <2>4. [k \in BufKeys |-> View(k)']
          = [k \in BufKeys |-> IF k \in gone THEN NoCtx ELSE View(k)]
    BY <2>2
  <2> HIDE DEF gone
  <2>5. QED
    BY <1>2, <1>3, <2>1, <2>3, <2>4 DEF Contract!JumpVoid, View
<1>6. QED
  BY <1>4, <1>5

LEMMA LandMaps ==
    ASSUME IInv, NEW t \in Thread, t \notin spilled, NEW ea \in EA,
           LongJmpLand(t, ea)
    PROVE  Contract!Jump(t, JmpKey(ea)) \/ Contract!JumpUndefined(t, JmpKey(ea))
<1> DEFINE k0 == JmpKey(ea)
<1>1. TypeOK /\ k0 \in BufKeys
  BY KeyFact DEF IInv
<1>2. PICK i \in Slots :
          /\ TopMatch(t, k0, i)
          /\ \/ host[t][i] = NoCtx
             \/ /\ jumped' = [jumped EXCEPT ![t] =
                      IF guest[k0] = host[t][i] THEN "landed" ELSE "crossed"]
                /\ spent' = spent \cup {b \in BufKeys :
                      Live(t, b) /\ guest[b].pos = host[t][i].pos}
                /\ Truncate(t, host[t][i].pos)
  BY DEF LongJmpLand
<1> DEFINE h == host[t][i].pos
<1>3. host[t][i] # NoCtx /\ h <= height[t]
  BY <1>1, <1>2 DEF IInv, EntriesNest, TopMatch
<1>4. h \in 1..height[t]
  BY <1>1, <1>3, CtxFacts DEF TypeOK
<1>5. \A k \in BufKeys : View(k)' = IF View(k) # NoCtx /\ View(k).thr = t
                                         /\ View(k).pos >= h
                                   THEN NoCtx ELSE View(k)
  BY <1>1, <1>2, <1>3, LandView
<1>6. height' = [height EXCEPT ![t] = h] /\ spilled' = spilled
      /\ through' = [through EXCEPT ![t] = k0]
  BY <1>2, <1>3 DEF Truncate, LongJmpLand
<1>7. CASE Live(t, k0) /\ k0 \notin spent
  <2>1. host[t][i] = guest[k0]
    BY <1>1, <1>2, <1>7, ScanFinds
  <2>2. jumped' = [jumped EXCEPT ![t] = "landed"]
    BY <1>2, <1>3, <2>1
  <2>3. View(k0) = guest[k0] /\ guest[k0] # NoCtx /\ guest[k0].thr = t
    BY <1>7 DEF View, Live
  <2>4. QED
    BY <1>1, <1>5, <1>6, <2>1, <2>2, <2>3
       DEF Contract!Jump, Contract!Usable, Contract!Below, View
<1>8. CASE ~(Live(t, k0) /\ k0 \notin spent)
  <2>1. height[t] > 0
    BY DEF LongJmpLand
  <2>2. jumped' \in {[jumped EXCEPT ![t] = o] : o \in {"landed", "crossed"}}
    BY <1>2, <1>3
  <2>3. ~(View(k0) # NoCtx /\ View(k0).thr = t)
    BY <1>8 DEF View, Live
  <2>4. QED
    BY <1>1, <1>4, <1>5, <1>6, <2>1, <2>2, <2>3
       DEF Contract!JumpUndefined, Contract!Usable, Contract!Below, View
<1>9. QED
  BY <1>7, <1>8

LEMMA MissMaps ==
    ASSUME IInv, NEW t \in Thread, NEW ea \in EA, LongJmpMiss(t, ea)
    PROVE  Contract!JumpUndefined(t, JmpKey(ea)) \/ Contract!JumpVoid(t)
<1> DEFINE k0 == JmpKey(ea)
<1>1. TypeOK /\ k0 \in BufKeys
  BY KeyFact DEF IInv
<1>2. PICK o \in {"stray", "lost"} : jumped' = [jumped EXCEPT ![t] = o]
  BY DEF LongJmpMiss
<1>3. height' = height /\ guest' = guest /\ spent' = spent /\ height[t] > 0
      /\ spilled' = spilled /\ through' = [through EXCEPT ![t] = k0]
  BY DEF LongJmpMiss
<1>4. CASE t \notin spilled
  <2>1. ~(Live(t, k0) /\ k0 \notin spent)
    BY <1>1, <1>4, ScanFinds DEF LongJmpMiss
  <2>2. ~(View(k0) # NoCtx /\ View(k0).thr = t)
    BY <2>1 DEF View, Live
  <2>3. Contract!JumpUndefined(t, k0)
    BY <1>1, <1>2, <1>3, <2>2 DEF Contract!JumpUndefined, Contract!Usable, View
  <2>4. QED
    BY <2>3
<1>5. CASE t \in spilled
  <2>1. height' = [height EXCEPT ![t] = height[t]] /\ height[t] \in 0..MaxHeight
    BY <1>1, <1>3 DEF TypeOK
  <2>2. {} \in SUBSET {k \in BufKeys : Contract!Usable(t, k)}
    OBVIOUS
  <2>3. \E gone \in SUBSET {k \in BufKeys : Contract!Usable(t, k)} :
          [k \in BufKeys |-> View(k)']
            = [k \in BufKeys |-> IF k \in gone THEN NoCtx ELSE View(k)]
    BY <1>3, <2>2 DEF View
  <2>4. o \in Contract!Outcomes
    BY <1>2 DEF Contract!Outcomes
  <2>5. Contract!JumpVoid(t)
    BY <1>1, <1>2, <1>3, <1>5, <2>1, <2>3, <2>4 DEF Contract!JumpVoid, View
  <2>6. QED
    BY <2>5
<1>6. QED
  BY <1>4, <1>5

\* The host half implements the promise to the guest, for every number of entries,
\* threads that arm more buffers than that included.
THEOREM HostImplementsContract == Spec => ImplementsContract
<1>1. Init => Contract!Init
  BY DEF Init, Contract!Init
<1>2. IInv /\ [Next]_vars => [Contract!Next]_(Contract!vars)
  <2> SUFFICES ASSUME IInv, [Next]_vars
               PROVE  [Contract!Next]_(Contract!vars)
    OBVIOUS
  <2>1. TypeOK
    BY DEF IInv
  <2>2. CASE UNCHANGED vars
    BY <2>2 DEF vars, Contract!vars
  <2>3. ASSUME NEW t \in Thread, NEW arming \in BOOLEAN, Call(t, arming)
        PROVE  Contract!Next
    BY <2>1, <2>3, CallMaps DEF Contract!Next
  <2>4. ASSUME NEW t \in Thread, Return(t)
        PROVE  Contract!Next
    BY <2>1, <2>4, ReturnMaps DEF Contract!Next
  <2>5. ASSUME NEW t \in Thread, NEW ea \in EA, NEW s \in Site,
               SetJmp(t, ea, s)
        PROVE  Contract!Next
    BY <2>1, <2>5, SetJmpMaps, KeyFact DEF Contract!Next
  <2>6. ASSUME NEW t \in Thread, NEW ea \in EA, LongJmpLand(t, ea)
        PROVE  Contract!Next
    <3>1. CASE t \in spilled
      BY <2>1, <2>6, <3>1, VoidLandMaps DEF Contract!Next
    <3>2. CASE t \notin spilled
      BY <2>6, <3>2, LandMaps, KeyFact DEF Contract!Next
    <3>3. QED
      BY <3>1, <3>2
  <2>7. ASSUME NEW t \in Thread, NEW ea \in EA, LongJmpMiss(t, ea)
        PROVE  Contract!Next
    BY <2>7, MissMaps, KeyFact DEF Contract!Next
  <2>8. QED
    BY <2>2, <2>3, <2>4, <2>5, <2>6, <2>7 DEF Next
<1>3. QED
  BY <1>1, <1>2, InductiveInvariant, PTL
     DEF Spec, ImplementsContract, Contract!Spec
=============================================================================
