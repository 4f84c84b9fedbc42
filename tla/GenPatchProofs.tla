---------------------------- MODULE GenPatchProofs ---------------------------
(***************************************************************************)
(* Proofs about the scripts that edit generated/: for any set of functions, *)
(* spread over any number of chunks, and any order of runs, re-runs,       *)
(* interruptions and re-lifts.                                             *)
(***************************************************************************)
EXTENDS GenPatch, TLAPS

\* What appending the first wrapper gives.
LEMMA FirstWrapper ==
    ASSUME NEW s, s = <<>>, NEW w \in {"guard", "alloc", "longjmp"}
    PROVE  Append(s, w) = <<w>>
  OBVIOUS

LEMMA InitInv == Init => IInv
  <1> SUFFICES ASSUME Init PROVE IInv
    OBVIOUS
  <1>1. TypeOK
    BY TextAssumption DEF Init, TypeOK, NoTally, Chunk
  <1>2. MarkTells /\ NameTells /\ GuardTells /\ EditsOnce
    BY TextAssumption DEF Init, MarkTells, NameTells, GuardTells, EditsOnce
  <1>3. RunTells
    BY DEF Init, RunTells
  <1>4. QED
    BY <1>1, <1>2, <1>3 DEF IInv

LEMMA ReliftInv == ASSUME IInv, Relift PROVE IInv'
  <1>1. TypeOK'
    BY DEF Relift, TypeOK, IInv
  <1>2. MarkTells' /\ NameTells' /\ GuardTells' /\ EditsOnce'
    BY TextAssumption DEF Relift, MarkTells, NameTells, GuardTells, EditsOnce
  <1>3. RunTells'
    BY DEF Relift, RunTells
  <1>4. QED
    BY <1>1, <1>2, <1>3 DEF IInv

----------------------------------------------------------------------------
(* setjmp_patch.py.                                                        *)

\* What patching chunk c does to the wrappers of each function.
LEMMA PatchedWraps ==
    ASSUME IInv, NEW c \in Chunk, PatchChunk(c)
    PROVE  /\ \A f \in Guarded(c) : /\ f \in Func /\ f # LongJmp
                                    /\ wraps'[f] = <<"guard">> /\ def'[f] = "orig"
           /\ \A f \in Rewritten(c) : /\ f = LongJmp
                                      /\ wraps'[f] = <<"longjmp">> /\ def'[f] = "orig"
           /\ \A f \in Func : f \notin Guarded(c) /\ f \notin Rewritten(c) =>
                 wraps'[f] = wraps[f] /\ def'[f] = def[f]
  <1> USE TextAssumption
  <1>1. ASSUME NEW f \in Guarded(c)
        PROVE  /\ f \in Func /\ f # LongJmp
               /\ wraps'[f] = <<"guard">> /\ def'[f] = "orig"
    <2>1. f \in Arming /\ def[f] = "plain"
      BY DEF Guarded, Guardable, Owners
    <2>2. f \in Func /\ f # LongJmp
      BY <2>1
    <2>3. wraps[f] = <<>>
      BY <2>1, <2>2 DEF IInv, NameTells
    <2>4. f \notin Rewritten(c)
      BY <2>2 DEF Rewritten
    <2>5. wraps'[f] = Append(wraps[f], "guard")
      BY <2>2, <2>4 DEF PatchChunk
    <2>6. def'[f] = "orig"
      BY <2>2 DEF PatchChunk
    <2>7. QED
      BY <2>2, <2>3, <2>5, <2>6, FirstWrapper
  <1>2. ASSUME NEW f \in Rewritten(c)
        PROVE  f = LongJmp /\ wraps'[f] = <<"longjmp">> /\ def'[f] = "orig"
    <2>1. f = LongJmp /\ f \in Func /\ def[f] = "plain"
      BY DEF Rewritten
    <2>2. f \notin Guarded(c)
      BY <2>1 DEF Guarded, Owners
    <2>3. wraps[f] = <<>>
      BY <2>1 DEF IInv, NameTells
    <2>4. wraps'[f] = Append(wraps[f], "longjmp") /\ def'[f] = "orig"
      BY <2>1, <2>2 DEF PatchChunk
    <2>5. QED
      BY <2>1, <2>3, <2>4, FirstWrapper
  <1>3. ASSUME NEW f \in Func, f \notin Guarded(c), f \notin Rewritten(c)
        PROVE  wraps'[f] = wraps[f] /\ def'[f] = def[f]
    BY <1>3 DEF PatchChunk
  <1>4. QED
    BY <1>1, <1>2, <1>3

\* The mark a chunk is left with.
LEMMA PatchedMark ==
    ASSUME IInv, NEW c \in Chunk, PatchChunk(c)
    PROVE  /\ marked \subseteq marked' /\ marked' \subseteq marked \cup {c}
           /\ marked' \subseteq Chunk
           /\ \A f \in Arming : ChunkOf[f] = c => c \in marked'
  <1>1. marked \subseteq marked' /\ marked' \subseteq marked \cup {c}
    BY DEF PatchChunk
  <1>2. marked' \subseteq Chunk
    BY <1>1 DEF IInv, TypeOK
  <1>3. ASSUME NEW f \in Arming, ChunkOf[f] = c PROVE c \in marked'
    <2>1. f \in Owners(c)
      BY <1>3 DEF Owners
    <2>2. QED
      BY <2>1 DEF PatchChunk
  <1>4. QED
    BY <1>1, <1>2, <1>3

LEMMA PatchedText ==
    ASSUME IInv, NEW c \in Chunk, Unpatched(c), PatchChunk(c), UNCHANGED probed
    PROVE  MarkTells' /\ NameTells' /\ GuardTells' /\ EditsOnce'
  <1> USE TextAssumption
  <1> DEFINE own(f) == f \in Owners(c)
  <1>1. MarkTells'
    <2> SUFFICES ASSUME NEW f \in Func
                 PROVE  sites'[f] = IF f \in Arming /\ ChunkOf[f] \in marked'
                                    THEN 1 ELSE 0
      BY DEF MarkTells
    <2>1. CASE own(f)
      <3>1. f \in Arming /\ ChunkOf[f] = c
        BY <2>1 DEF Owners
      <3>2. sites[f] = 0
        BY <3>1 DEF IInv, MarkTells, Unpatched
      <3>3. QED
        BY <2>1, <3>1, <3>2, PatchedMark DEF PatchChunk
    <2>2. CASE ~own(f)
      <3>1. f \notin Arming \/ ChunkOf[f] # c
        BY <2>2 DEF Owners
      <3>2. sites'[f] = sites[f]
        BY <2>2 DEF PatchChunk
      <3>3. QED
        BY <3>1, <3>2, PatchedMark DEF IInv, MarkTells
    <2>3. QED
      BY <2>1, <2>2
  <1>2. NameTells'
    <2> SUFFICES ASSUME NEW f \in Func
                 PROVE  IF def'[f] = "plain" THEN wraps'[f] = <<>>
                        ELSE \E w \in {"guard", "alloc", "longjmp"} : wraps'[f] = <<w>>
      BY DEF NameTells
    <2>1. CASE f \in Guarded(c)
      BY <2>1, PatchedWraps
    <2>2. CASE f \in Rewritten(c)
      BY <2>2, PatchedWraps
    <2>3. CASE f \notin Guarded(c) /\ f \notin Rewritten(c)
      BY <2>3, PatchedWraps DEF IInv, NameTells
    <2>4. QED
      BY <2>1, <2>2, <2>3
  <1>3. GuardTells'
    <2> SUFFICES ASSUME NEW f \in Arming, f \notin probed
                 PROVE  wraps'[f] = IF ChunkOf[f] \in marked' THEN <<"guard">> ELSE <<>>
      BY DEF GuardTells
    <2>1. f \in Func /\ f \notin Rewritten(c)
      BY DEF Rewritten
    <2>2. wraps[f] = IF ChunkOf[f] \in marked THEN <<"guard">> ELSE <<>>
      BY DEF IInv, GuardTells
    <2>3. CASE ChunkOf[f] = c
      <3>1. wraps[f] = <<>>
        BY <2>2, <2>3 DEF Unpatched
      <3>2. def[f] = "plain"
        <4>1. \A w \in {"guard", "alloc", "longjmp"} : <<>> # <<w>>
          OBVIOUS
        <4>2. QED
          BY <2>1, <3>1, <4>1 DEF IInv, NameTells
      <3>3. f \in Guarded(c)
        BY <2>3, <3>2 DEF Guarded, Guardable, Owners
      <3>4. QED
        BY <2>3, <3>3, PatchedWraps, PatchedMark
    <2>4. CASE ChunkOf[f] # c
      <3>1. f \notin Guarded(c)
        BY <2>4 DEF Guarded, Owners
      <3>2. QED
        BY <2>1, <2>2, <2>4, <3>1, PatchedWraps, PatchedMark
    <2>5. QED
      BY <2>3, <2>4
  <1>4. EditsOnce'
    BY <1>1, SMT DEF MarkTells, EditsOnce, IInv, PatchChunk
  <1>5. QED
    BY <1>1, <1>2, <1>3, <1>4

\* The types of a patched chunk.
LEMMA PatchedType ==
    ASSUME IInv, NEW c \in Chunk, PatchChunk(c)
    PROVE  /\ def' \in [Func -> {"plain", "orig"}]
           /\ wraps' \in [Func -> Seq({"guard", "alloc", "longjmp"})]
           /\ sites' \in [Func -> Nat] /\ counters' \in [Func -> Nat]
           /\ marked' \subseteq Chunk
           /\ tally' \in [sites : BOOLEAN, longjmp : BOOLEAN]
  <1>1. def' \in [Func -> {"plain", "orig"}]
    BY DEF PatchChunk, IInv, TypeOK
  <1>2. wraps' \in [Func -> Seq({"guard", "alloc", "longjmp"})]
    BY DEF PatchChunk, IInv, TypeOK
  <1>3. sites' \in [Func -> Nat] /\ counters' \in [Func -> Nat]
    BY DEF PatchChunk, IInv, TypeOK
  <1>4. tally' \in [sites : BOOLEAN, longjmp : BOOLEAN]
    BY DEF PatchChunk
  <1>5. QED
    BY <1>1, <1>2, <1>3, <1>4, PatchedMark

LEMMA VisitInv == ASSUME IInv, Visit PROVE IInv'
  <1> USE TextAssumption
  <1>1. todo \in Nat /\ todo \in Chunk /\ todo' = todo + 1 /\ todo' # 0
        /\ todo' \in 0..NChunk+1
    BY DEF Visit, Chunk
  <1>2. UNCHANGED <<exit, probed>>
    BY DEF Visit
  <1>3. CASE Unpatched(todo)
    <2>1. PatchChunk(todo)
      BY <1>3 DEF Visit
    <2>2. TypeOK'
      BY <1>1, <1>2, <2>1, PatchedType DEF IInv, TypeOK
    <2>3. MarkTells' /\ NameTells' /\ GuardTells' /\ EditsOnce'
      BY <1>1, <1>2, <1>3, <2>1, PatchedText
    <2>4. wraps[LongJmp] = <<"longjmp">> => wraps'[LongJmp] = <<"longjmp">>
      <3>1. LongJmp \in Func /\ LongJmp \notin Guarded(todo)
        BY DEF Guarded, Owners
      <3>2. QED
        BY <1>1, <2>1, <3>1, PatchedWraps
    <2>5. tally'.longjmp => wraps'[LongJmp] = <<"longjmp">>
      <3>1. CASE tally.longjmp
        BY <1>1, <2>4, <3>1 DEF IInv, RunTells, Chunk
      <3>2. CASE ~tally.longjmp /\ tally'.longjmp
        <4>1. Rewritten(todo) # {}
          BY <2>1, <3>2 DEF PatchChunk
        <4>2. PICK f \in Rewritten(todo) : TRUE
          BY <4>1
        <4>3. QED
          BY <1>1, <2>1, <4>2, PatchedWraps
      <3>3. QED
        BY <3>1, <3>2
    <2>6. ASSUME NEW f \in Arming, ChunkOf[f] < todo' PROVE ChunkOf[f] \in marked'
      <3>1. ChunkOf[f] \in Chunk
        OBVIOUS
      <3>2. ChunkOf[f] = todo \/ ChunkOf[f] < todo
        BY <1>1, <2>6, <3>1, SMT DEF Chunk
      <3>3. CASE ChunkOf[f] = todo
        BY <1>1, <2>1, <3>3, PatchedMark
      <3>4. CASE ChunkOf[f] < todo
        <4>1. ChunkOf[f] \in marked
          BY <1>1, <3>4, SMT DEF IInv, RunTells, Chunk
        <4>2. QED
          BY <1>1, <2>1, <4>1, PatchedMark
      <3>5. QED
        BY <3>2, <3>3, <3>4
    <2>7. exit' = "ok" => /\ \A f \in Arming : ChunkOf[f] \in marked'
                          /\ wraps'[LongJmp] = <<"longjmp">>
      BY <1>1, <1>2, <2>1, <2>4, PatchedMark DEF IInv, RunTells
    <2>8. RunTells'
      BY <2>5, <2>6, <2>7 DEF RunTells
    <2>9. QED
      BY <2>2, <2>3, <2>8 DEF IInv
  <1>4. CASE ~Unpatched(todo)
    <2>1. UNCHANGED <<text, tally>>
      BY <1>4 DEF Visit
    <2>2. TypeOK' /\ MarkTells' /\ NameTells' /\ GuardTells' /\ EditsOnce'
      BY <1>1, <1>2, <2>1
         DEF text, IInv, TypeOK, MarkTells, NameTells, GuardTells, EditsOnce
    <2>3. ASSUME NEW f \in Arming, ChunkOf[f] < todo' PROVE ChunkOf[f] \in marked'
      <3>1. ChunkOf[f] \in Chunk
        OBVIOUS
      <3>2. ChunkOf[f] = todo \/ ChunkOf[f] < todo
        BY <1>1, <2>3, <3>1, SMT DEF Chunk
      <3>3. ChunkOf[f] \in marked
        BY <1>1, <1>4, <3>2, SMT DEF IInv, RunTells, Unpatched, Chunk
      <3>4. QED
        BY <2>1, <3>3 DEF text
    <2>4. RunTells'
      BY <1>1, <1>2, <2>1, <2>3, SMT DEF text, IInv, RunTells, Chunk
    <2>5. QED
      BY <2>2, <2>4 DEF IInv
  <1>5. QED
    BY <1>3, <1>4

LEMMA EndPatchInv == ASSUME IInv, EndPatch PROVE IInv'
  <1> USE TextAssumption
  <1>1. TypeOK'
    BY DEF EndPatch, ExitStatus, text, IInv, TypeOK, Chunk
  <1>2. MarkTells' /\ NameTells' /\ GuardTells' /\ EditsOnce'
    BY DEF EndPatch, text, IInv, MarkTells, NameTells, GuardTells, EditsOnce
  <1>3. ASSUME exit' = "ok"
        PROVE  /\ \A f \in Arming : ChunkOf[f] \in marked'
               /\ wraps'[LongJmp] = <<"longjmp">>
    <2>1. tally.longjmp /\ todo > NChunk /\ todo \in Nat
      BY <1>3 DEF EndPatch, ExitStatus, IInv, TypeOK
    <2>2. todo # 0
      BY <2>1, SMT
    <2>3. ASSUME NEW f \in Arming PROVE ChunkOf[f] \in marked
      <3>1. ChunkOf[f] < todo
        BY <2>1, SMT DEF Chunk
      <3>2. QED
        BY <2>2, <3>1 DEF IInv, RunTells
    <2>4. QED
      BY <2>1, <2>2, <2>3 DEF EndPatch, text, IInv, RunTells
  <1>4. RunTells'
    BY <1>3 DEF EndPatch, RunTells
  <1>5. QED
    BY <1>1, <1>2, <1>4 DEF IInv

LEMMA StartAbortInv == ASSUME IInv, StartPatch \/ AbortPatch PROVE IInv'
  <1> USE TextAssumption
  <1>1. TypeOK'
    <2>1. todo' \in 0..NChunk+1
      BY SMT DEF StartPatch, AbortPatch
    <2>2. tally' \in [sites : BOOLEAN, longjmp : BOOLEAN]
      <3>1. CASE StartPatch
        BY <3>1 DEF StartPatch, NoTally
      <3>2. CASE AbortPatch
        BY <3>2 DEF AbortPatch, IInv, TypeOK
      <3>3. QED
        BY <3>1, <3>2
    <2>3. UNCHANGED <<def, wraps, sites, counters, marked, exit, probed>>
      BY DEF StartPatch, AbortPatch, text
    <2>4. QED
      BY <2>1, <2>2, <2>3 DEF IInv, TypeOK
  <1>2. MarkTells' /\ NameTells' /\ GuardTells' /\ EditsOnce'
    BY DEF StartPatch, AbortPatch, text, IInv, MarkTells, NameTells, GuardTells,
           EditsOnce
  <1>3. ASSUME NEW f \in Arming PROVE ~(ChunkOf[f] < 1)
    <2>1. ChunkOf[f] \in Chunk
      OBVIOUS
    <2>2. QED
      BY <2>1, SMT DEF Chunk
  <1>4. RunTells'
    <2>1. CASE StartPatch
      BY <1>3, <2>1 DEF StartPatch, NoTally, text, IInv, RunTells
    <2>2. CASE AbortPatch
      BY <2>2 DEF AbortPatch, text, IInv, RunTells
    <2>3. QED
      BY <2>1, <2>2
  <1>5. QED
    BY <1>1, <1>2, <1>4 DEF IInv

----------------------------------------------------------------------------
(* instrument_alloc.py and bbcount.py.                                     *)

LEMMA InstrumentInv == ASSUME IInv, NEW f \in Func, Instrument(f) PROVE IInv'
  <1> USE TextAssumption
  <1>1. CASE def[f] = "orig"
    BY <1>1 DEF Instrument, text, IInv, TypeOK, MarkTells, NameTells, GuardTells,
                RunTells, EditsOnce
  <1>2. CASE def[f] # "orig"
    <2>1. def[f] = "plain" /\ wraps[f] = <<>>
      BY <1>2 DEF IInv, TypeOK, NameTells
    <2>2. wraps'[f] = <<"alloc">> /\ def'[f] = "orig"
      BY <1>2, <2>1, FirstWrapper DEF Instrument, Wrap, IInv, TypeOK
    <2>3. \A g \in Func : g # f => wraps'[g] = wraps[g] /\ def'[g] = def[g]
      BY <1>2 DEF Instrument, Wrap, IInv, TypeOK
    <2>4. UNCHANGED <<sites, counters, marked, todo, tally, exit>> /\ todo = 0
      BY <1>2 DEF Instrument, Wrap
    <2>5. probed' = IF ChunkOf[f] \in marked THEN probed ELSE probed \cup {f}
      BY <1>2 DEF Instrument, Wrap
    <2>6. TypeOK'
      <3>1. wraps' \in [Func -> Seq({"guard", "alloc", "longjmp"})]
        <4>1. wraps' = [wraps EXCEPT ![f] = Append(wraps[f], "alloc")]
          BY <1>2 DEF Instrument, Wrap
        <4>2. Append(wraps[f], "alloc") \in Seq({"guard", "alloc", "longjmp"})
          BY SMT DEF IInv, TypeOK
        <4>3. QED
          BY <4>1, <4>2, Zenon DEF IInv, TypeOK
      <3>2. QED
        BY <1>2, <3>1, <2>4, <2>5 DEF Instrument, Wrap, IInv, TypeOK
    <2>7. MarkTells' /\ EditsOnce'
      BY <2>4 DEF IInv, MarkTells, EditsOnce
    <2>8. NameTells'
      BY <2>2, <2>3 DEF IInv, NameTells
    <2>9. \A g \in Arming : g = f /\ g \notin probed' => FALSE
      <3>1. ASSUME f \in Arming, f \notin probed' PROVE FALSE
        <4>1. ChunkOf[f] \in marked /\ f \notin probed
          BY <2>5, <3>1
        <4>2. wraps[f] = <<"guard">>
          BY <3>1, <4>1 DEF IInv, GuardTells
        <4>3. <<"guard">> # <<>>
          OBVIOUS
        <4>4. QED
          BY <2>1, <4>2, <4>3
      <3>2. QED
        BY <3>1
    <2>10. GuardTells'
      BY <2>3, <2>4, <2>5, <2>9 DEF IInv, GuardTells
    <2>11. wraps[LongJmp] = <<"longjmp">> => wraps'[LongJmp] = <<"longjmp">>
      <3>1. <<"longjmp">> # <<>>
        OBVIOUS
      <3>2. QED
        BY <2>1, <2>3, <3>1
    <2>12. RunTells'
      BY <2>4, <2>11 DEF IInv, RunTells
    <2>13. QED
      BY <2>6, <2>7, <2>8, <2>10, <2>12 DEF IInv
  <1>3. QED
    BY <1>1, <1>2

LEMMA CountInv == ASSUME IInv, NEW f \in Func, Count(f) PROVE IInv'
  <1> USE TextAssumption
  <1>1. counters' \in [Func -> Nat] /\ \A g \in Func : counters'[g] <= 1
    <2>1. CASE \E g \in Window[f] : counters[g] > 0
      BY <2>1 DEF Count, IInv, TypeOK, EditsOnce
    <2>2. CASE ~\E g \in Window[f] : counters[g] > 0
      <3>1. counters[f] = 0
        BY <2>2, SMT DEF IInv, TypeOK
      <3>2. counters' = [counters EXCEPT ![f] = 1]
        BY <2>2, <3>1 DEF Count
      <3>3. QED
        BY <3>2, SMT DEF IInv, TypeOK, EditsOnce
    <2>3. QED
      BY <2>1, <2>2
  <1>2. UNCHANGED <<def, wraps, sites, marked, todo, tally, exit, probed>>
    BY DEF Count
  <1>3. TypeOK'
    BY <1>1, <1>2 DEF IInv, TypeOK
  <1>4. EditsOnce'
    BY <1>1, <1>2 DEF IInv, EditsOnce
  <1>5. MarkTells' /\ NameTells' /\ GuardTells' /\ RunTells'
    BY <1>2 DEF IInv, MarkTells, NameTells, GuardTells, RunTells
  <1>6. QED
    BY <1>3, <1>4, <1>5 DEF IInv

LEMMA NextInv == ASSUME IInv, [Next]_vars PROVE IInv'
  <1>1. CASE Relift
    BY <1>1, ReliftInv
  <1>2. CASE StartPatch \/ AbortPatch
    BY <1>2, StartAbortInv
  <1>3. CASE Visit
    BY <1>3, VisitInv
  <1>4. CASE EndPatch
    BY <1>4, EndPatchInv
  <1>5. CASE \E f \in Func : Instrument(f) \/ Count(f)
    BY <1>5, InstrumentInv, CountInv
  <1>6. CASE UNCHANGED vars
    BY <1>6 DEF vars, IInv, TypeOK, MarkTells, NameTells, GuardTells, RunTells,
                EditsOnce
  <1>7. QED
    BY <1>1, <1>2, <1>3, <1>4, <1>5, <1>6 DEF Next

THEOREM InvHolds == Spec => []IInv
  <1>1. IInv /\ [Next]_vars => IInv'
    BY NextInv
  <1>2. QED
    BY InitInv, <1>1, PTL DEF Spec

----------------------------------------------------------------------------
\* The scripts' state keeps its shape for any number of functions and chunks, in
\* particular a run never visits a chunk past the last.
THEOREM TypeCorrect == Spec => []TypeOK
  <1>1. IInv => TypeOK
    BY DEF IInv
  <1>2. QED
    BY <1>1, InvHolds, PTL

\* No call site is wrapped twice and no label counted twice, in whatever order and
\* however often the scripts are run.
THEOREM EditsHappenOnce == Spec => []EditsOnce
  <1>1. IInv => EditsOnce
    BY DEF IInv
  <1>2. QED
    BY <1>1, InvHolds, PTL

\* An arming function is guarded from the moment its call sites are rewritten,
\* unless instrument_alloc.py renamed it first.
THEOREM ArmersAreGuarded == Spec => []GuardedUnlessProbed
  <1>1. IInv => GuardedUnlessProbed
    <2> SUFFICES ASSUME IInv, NEW f \in Func, sites[f] > 0, f \notin probed
                 PROVE  wraps[f] = <<"guard">>
      BY DEF GuardedUnlessProbed
    <2>1. f \in Arming /\ ChunkOf[f] \in marked
      BY SMT DEF IInv, MarkTells
    <2>2. QED
      BY <2>1 DEF IInv, GuardTells
  <1>2. QED
    BY <1>1, InvHolds, PTL

\* Exit status 0 of setjmp_patch.py means the whole of generated/ is patched, even
\* when this run only finished what interrupted ones had begun.
THEOREM SuccessIsWhole == Spec => []SuccessMeansPatched
  <1>1. IInv => SuccessMeansPatched
    <2> SUFFICES ASSUME IInv, exit = "ok"
                 PROVE  /\ \A f \in Arming : sites[f] > 0
                        /\ wraps[LongJmp] = <<"longjmp">>
      BY DEF SuccessMeansPatched
    <2>1. \A f \in Arming : f \in Func /\ ChunkOf[f] \in marked
      BY TextAssumption DEF IInv, RunTells
    <2>2. \A f \in Arming : sites[f] = 1
      BY <2>1 DEF IInv, MarkTells
    <2>3. QED
      BY <2>2, SMT DEF IInv, RunTells
  <1>2. QED
    BY <1>1, InvHolds, PTL

\* The scripts never take a name that is in use: a body has its own name and no wrapper,
\* or gt5p_orig_'s and exactly one.
THEOREM NamesUnique == Spec => []OneWrapper
  <1>1. IInv => OneWrapper
    <2> SUFFICES ASSUME IInv, NEW f \in Func
                 PROVE  /\ Len(wraps[f]) <= 1
                        /\ (def[f] = "orig") <=> (Len(wraps[f]) = 1)
      BY DEF OneWrapper
    <2>1. def[f] \in {"plain", "orig"}
      BY DEF IInv, TypeOK
    <2>2. CASE def[f] = "plain"
      <3>1. wraps[f] = <<>>
        BY <2>2 DEF IInv, NameTells
      <3>2. QED
        BY <2>2, <3>1
    <2>3. CASE def[f] = "orig"
      <3>1. PICK w \in {"guard", "alloc", "longjmp"} : wraps[f] = <<w>>
        BY <2>3 DEF IInv, NameTells
      <3>2. QED
        BY <2>3, <3>1
    <2>4. QED
      BY <2>1, <2>2, <2>3
  <1>2. QED
    BY <1>1, InvHolds, PTL
=============================================================================
