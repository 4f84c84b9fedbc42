----------------------------- MODULE ProbesProofs -----------------------------
(***************************************************************************)
(* Proofs about the hooks of wrapped functions (Probes), for every set of  *)
(* threads, of wrapped functions and of counted lines, every limit and     *)
(* every nesting of calls.                                                 *)
(***************************************************************************)
EXTENDS Probes, AllocWatchProofs, FreeListProofs

FrameRec == [fn : Fn, in : Nat, mixed : BOOLEAN, torn : BOOLEAN]

LEMMA ListCounts ==
    ASSUME NEW heap \in Lists
    PROVE  FreelistBad(heap) \in Nat /\ ChainsBroken(heap) \in Nat
  BY BuildsAssumption, CountsAreNumbers

LEMMA RowFacts ==
    ASSUME NEW tag \in Tag
    PROVE  /\ RowOf(tag) \in Rows /\ RowOf(tag).tag = tag
           /\ \A r \in Rows : r.tag = tag => r = RowOf(tag)
  BY RowsAssumption DEF Tag, RowOf

\* The top frame of a thread in a call, and the stack without it.
LEMMA TopFrame ==
    ASSUME HooksTypeOK, NEW t \in Thread, stack[t] # <<>>
    PROVE  /\ Len(stack[t]) \in Nat \ {0} /\ DOMAIN stack[t] = 1..Len(stack[t])
           /\ Current(t) \in FrameRec /\ Current(t).fn \in Fn
           /\ Popped(t) \in [Thread -> Frames]
           /\ \A u \in Thread : u # t => Popped(t)[u] = stack[u]
           /\ DOMAIN Popped(t)[t] = 1..(Len(stack[t]) - 1)
           /\ \A i \in 1..(Len(stack[t]) - 1) : Popped(t)[t][i] = stack[t][i]
<1>1. stack[t] \in Seq(FrameRec) /\ stack \in [Thread -> Frames]
  BY DEF HooksTypeOK, Frames, FrameRec
<1>2. Len(stack[t]) \in Nat \ {0} /\ DOMAIN stack[t] = 1..Len(stack[t])
  BY <1>1
<1>3. Current(t) \in FrameRec /\ Current(t).fn \in Fn
  <2>1. Current(t) \in FrameRec
    BY <1>1, <1>2, ElementOfSeq DEF Current
  <2> QED BY <2>1 DEF FrameRec
<1> DEFINE front == SubSeq(stack[t], 1, Len(stack[t]) - 1)
<1>4. /\ front \in Seq(FrameRec) /\ DOMAIN front = 1..(Len(stack[t]) - 1)
      /\ \A i \in 1..(Len(stack[t]) - 1) : front[i] = stack[t][i]
  BY <1>1, <1>2
<1>5. /\ Popped(t) \in [Thread -> Frames] /\ Popped(t)[t] = front
      /\ \A u \in Thread : u # t => Popped(t)[u] = stack[u]
  BY <1>1, <1>4 DEF Popped, Frames, FrameRec
<1> QED BY <1>2, <1>3, <1>4, <1>5

\* Entering f puts it on top of t's stack.
LEMMA EnterStack ==
    ASSUME HooksTypeOK, NEW t \in Thread, NEW f \in Fn, Enter(t, f)
    PROVE  /\ stack' \in [Thread -> Frames]
           /\ DOMAIN stack[t] = 1..Len(stack[t]) /\ Len(stack[t]) \in Nat
           /\ DOMAIN stack'[t] = 1..(Len(stack[t]) + 1)
           /\ stack'[t][Len(stack[t]) + 1] = Frame(f) /\ Frame(f).fn = f
           /\ \A i \in DOMAIN stack[t] : stack'[t][i] = stack[t][i]
           /\ \A u \in Thread : u # t => stack'[u] = stack[u]
<1>1. stack \in [Thread -> Frames] /\ stack[t] \in Seq(FrameRec)
  BY DEF HooksTypeOK, Frames, FrameRec
<1>2. Frame(f) \in FrameRec /\ Frame(f).fn = f
  BY DEF Frame, FrameRec
<1> DEFINE above == Append(stack[t], Frame(f))
<1>3. /\ above \in Seq(FrameRec) /\ DOMAIN above = 1..(Len(stack[t]) + 1)
      /\ DOMAIN stack[t] = 1..Len(stack[t]) /\ Len(stack[t]) \in Nat
      /\ above[Len(stack[t]) + 1] = Frame(f)
      /\ \A i \in 1..Len(stack[t]) : above[i] = stack[t][i]
  <2> HIDE DEF FrameRec
  <2> QED BY <1>1, <1>2
<1>4. stack' = [stack EXCEPT ![t] = above]
  BY DEF Enter
<1> HIDE DEF above
<1>5. stack' \in [Thread -> Frames]
  BY <1>1, <1>3, <1>4 DEF Frames, FrameRec
<1> QED BY <1>1, <1>2, <1>3, <1>4, <1>5

\* What setting g_fl_before does to the frames: of its own call it keeps what the list
\* was like, of every other that it is no longer theirs.
LEMMA BracketStack ==
    ASSUME HooksTypeOK, NEW t \in Thread, Bracket(t)
    PROVE  /\ stack' \in [Thread -> Frames]
           /\ \A u \in Thread : DOMAIN stack'[u] = DOMAIN stack[u]
           /\ \A u \in Thread : \A i \in DOMAIN stack[u] :
                 /\ stack'[u][i].fn = stack[u][i].fn
                 /\ Own(t, u, i) => /\ stack'[u][i].in = ChainsBroken(list)
                                    /\ stack'[u][i].torn = (t \in torn)
                 /\ ~Own(t, u, i) => stack'[u][i].mixed
<1> DEFINE own(frame) == [frame EXCEPT !.in = ChainsBroken(list), !.mixed = FALSE,
                                       !.torn = t \in torn]
           other(frame) == [frame EXCEPT !.mixed = TRUE]
<1>1. /\ ChainsBroken(list) \in Nat /\ stack \in [Thread -> Frames]
      /\ \A u \in Thread : stack[u] \in Seq(FrameRec)
  BY ListCounts DEF HooksTypeOK, Frames, FrameRec
<1>2. ASSUME NEW frame \in FrameRec
      PROVE  /\ own(frame) \in FrameRec /\ other(frame) \in FrameRec
             /\ own(frame).fn = frame.fn /\ other(frame).fn = frame.fn
             /\ own(frame).in = ChainsBroken(list) /\ own(frame).torn = (t \in torn)
             /\ other(frame).mixed
  <2> DEFINE tornNow == t \in torn
  <2>1. frame.fn \in Fn /\ frame.in \in Nat /\ frame.torn \in BOOLEAN
    BY DEF FrameRec
  <2>2. (t \in torn) \in BOOLEAN
    OBVIOUS
  <2>3. own(frame) = [fn |-> frame.fn, in |-> ChainsBroken(list), mixed |-> FALSE,
                      torn |-> tornNow]
    <3>1. own(frame) = [frame EXCEPT !.in = ChainsBroken(list), !.mixed = FALSE,
                                     !.torn = tornNow]
      OBVIOUS
    <3> HIDE DEF own, tornNow
    <3> QED BY <3>1 DEF FrameRec
  <2>4. other(frame) = [fn |-> frame.fn, in |-> frame.in, mixed |-> TRUE,
                        torn |-> frame.torn]
    <3> DEFINE yes == TRUE
    <3>1. other(frame) = [frame EXCEPT !.mixed = yes]
      OBVIOUS
    <3> HIDE DEF other, yes
    <3>2. other(frame) = [fn |-> frame.fn, in |-> frame.in, mixed |-> yes,
                          torn |-> frame.torn]
      BY <3>1 DEF FrameRec
    <3> QED BY <3>2 DEF yes
  <2> HIDE DEF own, other, tornNow
  <2>5. own(frame) \in FrameRec /\ other(frame) \in FrameRec
    BY <1>1, <2>1, <2>2, <2>3, <2>4 DEF FrameRec, tornNow
  <2>6. own(frame).torn = tornNow
    BY <2>3
  <2> QED BY <2>3, <2>4, <2>5, <2>6 DEF tornNow
<1>3. stack' = [u \in Thread |-> [i \in DOMAIN stack[u] |->
                   IF Own(t, u, i) THEN own(stack[u][i]) ELSE other(stack[u][i])]]
  BY DEF Bracket
<1> HIDE DEF own, other
<1>4. ASSUME NEW u \in Thread
      PROVE  /\ stack'[u] \in Frames /\ DOMAIN stack'[u] = DOMAIN stack[u]
             /\ \A i \in DOMAIN stack[u] :
                   /\ stack'[u][i] = IF Own(t, u, i) THEN own(stack[u][i])
                                                     ELSE other(stack[u][i])
                   /\ stack[u][i] \in FrameRec
  <2>1. DOMAIN stack[u] = 1..Len(stack[u]) /\ Len(stack[u]) \in Nat
    BY <1>1
  <2>2. \A i \in DOMAIN stack[u] : stack[u][i] \in FrameRec
    BY <1>1, <2>1, ElementOfSeq
  <2>3. stack'[u] = [i \in 1..Len(stack[u]) |->
                        IF Own(t, u, i) THEN own(stack[u][i]) ELSE other(stack[u][i])]
    BY <1>3, <2>1
  <2>4. \A i \in 1..Len(stack[u]) : stack'[u][i] \in FrameRec
    BY <1>2, <2>1, <2>2, <2>3
  <2>5. stack'[u] \in Seq(FrameRec)
    <3>1. stack'[u] \in [1..Len(stack[u]) -> FrameRec]
      BY <2>3, <2>4
    <3> HIDE DEF FrameRec
    <3> QED BY <2>1, <3>1
  <2>6. stack'[u] \in Frames
    BY <2>5 DEF Frames, FrameRec
  <2> QED BY <2>1, <2>2, <2>3, <2>6
<1>5. stack' \in [Thread -> Frames]
  <2>1. stack' = [u \in Thread |-> stack'[u]]
    BY <1>3
  <2> QED BY <1>4, <2>1
<1>6. ASSUME NEW u \in Thread, NEW i \in DOMAIN stack[u]
      PROVE  /\ stack'[u][i].fn = stack[u][i].fn
             /\ Own(t, u, i) => /\ stack'[u][i].in = ChainsBroken(list)
                                /\ stack'[u][i].torn = (t \in torn)
             /\ ~Own(t, u, i) => stack'[u][i].mixed
  BY <1>2, <1>4
<1> QED BY <1>4, <1>5, <1>6

----------------------------------------------------------------------------
(* Types.                                                                  *)

LEMMA DueTags == ASSUME NEW side, NEW f, NEW through, NEW due \in Due(side, f, through)
                 PROVE  due \in SUBSET Tag
  BY DEF Due, May, Tag

LEMMA HooksInit == Init => HooksTypeOK
<1> SUFFICES ASSUME Init PROVE HooksTypeOK
  OBVIOUS
<1>1. /\ wrapped \subseteq Fn /\ heaps \subseteq Lists /\ list \in heaps
      /\ calls \in Nat /\ depth \in Nat
  BY BuildsAssumption DEF Init
<1>2. stack \in [Thread -> Frames]
  BY DEF Init, Frames
<1>3. fetched \in [Thread -> {None} \cup [tag : Tag, val : Nat]]
  BY DEF Init
<1>4. walk \in [Thread -> Walks] /\ bracket \in [Thread -> {"none", "pre", "note"}]
  BY NewWalkIsOne DEF Init
<1> QED BY <1>1, <1>2, <1>3, <1>4 DEF Init, HooksTypeOK

LEMMA HooksStep == HooksTypeOK /\ [Next]_vars => HooksTypeOK'
<1> SUFFICES ASSUME HooksTypeOK, [Next]_vars PROVE HooksTypeOK'
  OBVIOUS
<1> USE DEF buildvars
<1>1. CASE UNCHANGED vars
  BY <1>1 DEF vars, callvars, walkvars, countvars, HooksTypeOK
<1>2. ASSUME NEW t \in Thread, NEW f \in wrapped, Enter(t, f) PROVE HooksTypeOK'
  <2>1. f \in Fn
    BY DEF HooksTypeOK
  <2>2. stack' \in [Thread -> Frames]
    BY <1>2, <2>1, EnterStack
  <2>3. bracket' \in [Thread -> {"none", "pre", "note"}]
    BY <1>2 DEF Enter, BracketOpens, HooksTypeOK
  <2>4. open' \subseteq Window
    <3>1. open' \in WindowsOnEntry(f) /\ open \subseteq Window
      BY <1>2 DEF Enter, HooksTypeOK
    <3>2. Opens(f) \subseteq Window
      BY DEF Opens, Window
    <3> QED BY <3>1, <3>2 DEF WindowsOnEntry, Window
  <2>5. unmatched' \in [Fn -> Int]
    BY <1>2, <2>1 DEF Enter, HooksTypeOK
  <2>6. todo' \in [Thread -> SUBSET Tag]
    BY <1>2, DueTags DEF Enter, HooksTypeOK
  <2>7. calls' \in Nat
    BY <1>2 DEF Enter, HooksTypeOK
  <2> QED BY <1>2, <2>2, <2>3, <2>4, <2>5, <2>6, <2>7 DEF Enter, countvars, HooksTypeOK
<1>3. ASSUME NEW t \in Thread, HitBody(t) PROVE HooksTypeOK'
  <2>1. todo' \in [Thread -> SUBSET Tag]
    BY <1>3 DEF HitBody, May, Tag, HooksTypeOK
  <2>2. calls' \in Nat
    BY <1>3 DEF HitBody, HooksTypeOK
  <2> QED BY <1>3, <2>1, <2>2 DEF HitBody, walkvars, countvars, HooksTypeOK
<1>4. ASSUME NEW t \in Thread, Fetch(t) PROVE HooksTypeOK'
  <2>1. PICK tag \in todo[t] :
           /\ fetched' = [fetched EXCEPT ![t] = [tag |-> tag, val |-> n[tag]]]
           /\ todo' = [todo EXCEPT ![t] = @ \ {tag}]
    BY <1>4 DEF Fetch
  <2>2. tag \in Tag /\ n[tag] \in Nat
    BY DEF HooksTypeOK
  <2> QED BY <1>4, <2>1, <2>2 DEF Fetch, callvars, walkvars, HooksTypeOK
<1>5. ASSUME NEW t \in Thread, Bump(t) PROVE HooksTypeOK'
  <2>1. fetched[t].tag \in Tag /\ fetched[t].val \in Nat
    BY <1>5 DEF Bump, HooksTypeOK
  <2>2. /\ n' \in [Tag -> Nat] /\ lines' \in [Tag -> Nat] /\ blanks' \in [Tag -> Nat]
        /\ muted' \subseteq Tag
    BY <1>5, <2>1 DEF Bump, HooksTypeOK
  <2>3. fetched' \in [Thread -> {None} \cup [tag : Tag, val : Nat]]
    BY <1>5 DEF Bump, HooksTypeOK
  <2> QED BY <1>5, <2>2, <2>3 DEF Bump, callvars, walkvars, HooksTypeOK
<1>6. ASSUME NEW t \in Thread, ReadOn(t) PROVE HooksTypeOK'
  <2>1. Read(walk[t], list) \in Walks
    BY <1>6, BuildsAssumption, ReadGetsOn DEF ReadOn, HooksTypeOK
  <2>2. walk' \in [Thread -> Walks]
    BY <1>6, <2>1 DEF ReadOn, HooksTypeOK
  <2> QED BY <1>6, <2>2 DEF ReadOn, callvars, countvars, HooksTypeOK
<1>7. ASSUME NEW t \in Thread, WalkOver(t)
      PROVE  /\ bracket' \in [Thread -> {"none", "pre", "note"}]
             /\ walk' \in [Thread -> Walks] /\ torn' \subseteq Thread
  BY <1>7, NewWalkIsOne DEF WalkOver, HooksTypeOK
<1>8. ASSUME NEW t \in Thread, Bracket(t) PROVE HooksTypeOK'
  <2>1. stack' \in [Thread -> Frames]
    BY <1>8, BracketStack
  <2>2. flBefore' \in Nat
    BY <1>8 DEF Bracket, Walks, HooksTypeOK
  <2> QED BY <1>7, <1>8, <2>1, <2>2 DEF Bracket, countvars, HooksTypeOK
<1>9. ASSUME NEW t \in Thread, LookBack(t) PROVE HooksTypeOK'
  BY <1>9 DEF LookBack, callvars, countvars, HooksTypeOK
<1>10. ASSUME NEW t \in Thread, Leave(t) PROVE HooksTypeOK'
  <2>1. stack' \in [Thread -> Frames]
    BY <1>10, TopFrame DEF Leave
  <2>2. unmatched' \in [Fn -> Int]
    BY <1>10, TopFrame DEF Leave, HooksTypeOK
  <2>3. open' \subseteq Window
    BY <1>10 DEF Leave, HooksTypeOK
  <2>4. todo' \in [Thread -> SUBSET Tag]
    BY <1>10, DueTags DEF Leave, HooksTypeOK
  <2>5. /\ bracket' \in [Thread -> {"none", "pre", "note"}]
        /\ walk' \in [Thread -> Walks] /\ torn' \subseteq Thread
    BY <1>7, <1>10 DEF Leave, Returns, walkvars, HooksTypeOK
  <2> QED BY <1>10, <2>1, <2>2, <2>3, <2>4, <2>5 DEF Leave, countvars, HooksTypeOK
<1>11. ASSUME NEW t \in Thread, NoteStep(t) PROVE HooksTypeOK'
  BY <1>11 DEF NoteStep, callvars, walkvars, countvars, HooksTypeOK
<1>12. ASSUME NEW t \in Thread, JumpOver(t) PROVE HooksTypeOK'
  <2>1. stack' \in [Thread -> Frames] /\ Current(t).fn \in Fn
    BY <1>12, TopFrame DEF JumpOver
  <2>2. lost' \in [Fn -> Nat]
    BY <1>12, <2>1 DEF JumpOver, HooksTypeOK
  <2> QED BY <1>12, <2>1, <2>2 DEF JumpOver, walkvars, countvars, HooksTypeOK
<1>13. ASSUME Smash PROVE HooksTypeOK'
  BY <1>13 DEF Smash, countvars, HooksTypeOK
<1>14. ASSUME Disturb PROVE HooksTypeOK'
  BY <1>14 DEF Disturb, callvars, walkvars, countvars, HooksTypeOK
<1> QED BY <1>1, <1>2, <1>3, <1>4, <1>5, <1>6, <1>8, <1>9, <1>10, <1>11, <1>12, <1>13, <1>14
        DEF Next, InHook

\* A step of the hooks is a step of the note hook or leaves its state alone.
LEMMA StepMaps == HooksTypeOK /\ [Next]_vars => [AWNext]_awvars
<1> SUFFICES ASSUME HooksTypeOK, [Next]_vars PROVE [AWNext]_awvars
  OBVIOUS
<1>1. ASSUME NEW t \in Thread, Leave(t) PROVE AWNext
  <2>1. PICK b \in BlockOf[Current(t).fn] : BeginNote(t, Current(t).fn = Allocator, b)
    BY <1>1 DEF Leave
  <2>2. b \in NoteBlock \cup {NoBlock}
    BY <1>1, TopFrame, BuildsAssumption DEF Leave
  <2>3. (Current(t).fn = Allocator) \in BOOLEAN
    OBVIOUS
  <2> QED BY <2>1, <2>2, <2>3 DEF AWNext
<1>2. ASSUME NEW t \in Thread, NoteStep(t) PROVE AWNext
  BY <1>2 DEF NoteStep, AWNext
<1>3. ASSUME Disturb PROVE AWNext
  BY <1>3 DEF Disturb, AWNext
<1>4. ASSUME \/ \E t \in Thread : \/ \E f \in wrapped : Enter(t, f)
                                  \/ HitBody(t) \/ Fetch(t) \/ Bump(t) \/ ReadOn(t)
                                  \/ Bracket(t) \/ LookBack(t) \/ JumpOver(t)
             \/ Smash \/ UNCHANGED vars
      PROVE  UNCHANGED awvars
  BY <1>4 DEF Enter, HitBody, Fetch, Bump, ReadOn, Bracket, LookBack, JumpOver, Smash, vars
<1> QED BY <1>1, <1>2, <1>3, <1>4 DEF Next, InHook

\* Seen from the note hook, calls, counted lines and longjmps are nothing but a
\* scheduler: what AllocWatch guarantees holds in the program with all the hooks.
THEOREM HooksDriveNote == Spec => AWSpec
<1>1. Init => AWInit
  BY DEF Init
<1> QED BY <1>1, HooksInit, HooksStep, StepMaps, PTL DEF Spec, AWSpec

\* The hooks' state is of its type: however the threads come together, the overlap table
\* stays within its array and a walk of the free list within its buckets and hops.  For
\* the owner table, which has no lock, OwnerTableWhole is what there is.
THEOREM HooksTypeCorrect == Spec => []TypeOK
<1>1. Spec => []HooksTypeOK
  BY HooksInit, HooksStep, PTL DEF Spec
<1>2. Spec => []AWTypeOK
  BY HooksDriveNote, TablesFit, PTL
<1> QED BY <1>1, <1>2, PTL DEF TypeOK

\* The overlap report is exact in the program with all the hooks.
THEOREM ReportsExact == Spec => []FoundExactly
  BY HooksDriveNote, OverlapsFound, PTL

\* The owner table is whole in the program with all the hooks.
THEOREM OwnerTableWhole == Spec => []OwnersWhole
  BY HooksDriveNote, OwnersRecorded, PTL

\* The overlap table is filled call by call in the program with all the hooks.
THEOREM CallsAreAtomic == Spec => NotesAtomic
  BY HooksDriveNote, NotesAreAtomic, PTL

\* With all the hooks, too, the canary is exact unless two threads judge it at once.
THEOREM CanaryHonest == Spec /\ []OneJudges => []CanaryTrue
  BY HooksDriveNote, CanaryExact, PTL

----------------------------------------------------------------------------
(* Counted lines.                                                          *)

\* A counter, or what a thread has read of it, is at most the turns spent on lines, and
\* on blanks where there are any, until those are as many as the limit; past the total's
\* threshold the dump has been printed.
Covers(spent, r, val) == IF r.at THEN val >= r.limit => spent > 0
                         ELSE val <= spent \/ r.limit <= spent

CountInv ==
    /\ \A r \in Rows : Covers(Spent(r), r, n[r.tag])
    /\ \A t \in Thread, r \in Rows : fetched[t].tag = r.tag /\ fetched[t] # None
          => Covers(Spent(r), r, fetched[t].val)
    /\ QuietOnlyWhenSpent

LEMMA SpentIsNat ==
    ASSUME HooksTypeOK, NEW r \in Rows
    PROVE  /\ Spent(r) \in Nat /\ r.tag \in Tag /\ n[r.tag] \in Nat
           /\ r.limit \in Nat \ {0} /\ r.at \in BOOLEAN /\ (r.at => Spent(r) = lines[r.tag])
<1>1. r.tag \in Tag /\ lines[r.tag] \in Nat /\ blanks[r.tag] \in Nat /\ n[r.tag] \in Nat
  BY DEF HooksTypeOK, Tag
<1> QED BY <1>1, RowsAssumption DEF Spent

\* Where a line is printed or would have been but for having nothing to print, a turn of
\* the row is spent.
LEMMA BumpSpends ==
    ASSUME HooksTypeOK, NEW t \in Thread, Bump(t), NEW r \in Rows
    PROVE  LET shown == r.tag = fetched[t].tag /\ Shows(r, fetched[t].val)
           IN  /\ Spent(r)' = IF shown THEN Spent(r) + 1 ELSE Spent(r)
               /\ r.tag \in muted' => r.tag \in muted \/ (r.tag = fetched[t].tag /\ ~shown)
<1> DEFINE tag == fetched[t].tag
           val == fetched[t].val
           row == RowOf(tag)
<1>1. /\ tag \in Tag /\ r.tag \in Tag
      /\ lines \in [Tag -> Nat] /\ blanks \in [Tag -> Nat]
      /\ r.tag = tag => r = row
  <2>1. tag \in Tag
    BY DEF Bump, HooksTypeOK
  <2> QED BY <2>1, RowFacts DEF HooksTypeOK, Tag
<1>2. \/ Shows(row, val) /\ lines' = [lines EXCEPT ![tag] = @ + 1] /\ UNCHANGED <<blanks, muted>>
      \/ /\ Shows(row, val) /\ row.blank
         /\ blanks' = [blanks EXCEPT ![tag] = @ + 1] /\ UNCHANGED <<lines, muted>>
      \/ ~Shows(row, val) /\ muted' = muted \cup {tag} /\ UNCHANGED <<lines, blanks>>
  BY DEF Bump
<1> HIDE DEF row, tag, val
<1>3. Spent(r) = lines[r.tag] + (IF r.blank THEN blanks[r.tag] ELSE 0)
      /\ Spent(r)' = lines'[r.tag] + (IF r.blank THEN blanks'[r.tag] ELSE 0)
  BY DEF Spent
<1>4. CASE r.tag # tag
  <2>1. Spent(r)' = Spent(r) /\ (r.tag \in muted' => r.tag \in muted)
    BY <1>1, <1>2, <1>3, <1>4
  <2> QED BY <1>4, <2>1 DEF tag
<1>5. CASE r.tag = tag
  <2>1. r = row
    BY <1>1, <1>5
  <2>2. /\ Spent(r)' = IF Shows(row, val) THEN Spent(r) + 1 ELSE Spent(r)
        /\ r.tag \in muted' => r.tag \in muted \/ ~Shows(row, val)
    BY <1>1, <1>2, <1>3, <1>5, <2>1
  <2> QED BY <1>5, <2>1, <2>2 DEF tag, val
<1> QED BY <1>4, <1>5

LEMMA CountBump ==
    ASSUME HooksTypeOK, CountInv, NEW t \in Thread, Bump(t)
    PROVE  CountInv'
<1> DEFINE tag == fetched[t].tag
           val == fetched[t].val
<1>1. /\ tag \in Tag /\ val \in Nat /\ fetched[t] # None
      /\ n' = [n EXCEPT ![tag] = val + 1] /\ n \in [Tag -> Nat]
      /\ fetched' = [fetched EXCEPT ![t] = None]
  BY DEF Bump, HooksTypeOK
<1>2. ASSUME NEW r \in Rows, r.tag = tag
      PROVE  /\ Covers(Spent(r), r, val) /\ Covers(Spent(r)', r, val + 1)
             /\ ~r.at /\ ~Shows(r, val) => Spent(r) >= r.limit
  <2>1. Covers(Spent(r), r, val)
    BY <1>1, <1>2 DEF CountInv
  <2>2. Spent(r)' = IF Shows(r, val) THEN Spent(r) + 1 ELSE Spent(r)
    BY <1>2, BumpSpends
  <2>3. Shows(r, val) <=> Prints(r, val) /\ ~(r.at /\ Spent(r) > 0)
    BY SpentIsNat DEF Shows
  <2> HIDE DEF val
  <2>4. CASE r.at
    BY <1>1, <2>1, <2>2, <2>3, <2>4, SpentIsNat DEF Covers, Prints
  <2>5. CASE ~r.at
    BY <1>1, <2>1, <2>2, <2>3, <2>5, SpentIsNat DEF Covers, Prints
  <2> QED BY <2>1, <2>4, <2>5, SpentIsNat
<1>3. ASSUME NEW r \in Rows, NEW v \in Nat, Covers(Spent(r), r, v)
      PROVE  Covers(Spent(r)', r, v)
  <2>1. Spent(r)' \in Nat /\ Spent(r)' >= Spent(r)
    BY BumpSpends, SpentIsNat
  <2> QED BY <1>3, <2>1, SpentIsNat DEF Covers
<1>4. ASSUME NEW r \in Rows PROVE Covers(Spent(r)', r, n'[r.tag])
  <2>1. CASE r.tag = tag
    BY <1>1, <1>2, <2>1
  <2>2. CASE r.tag # tag
    <3>1. n'[r.tag] = n[r.tag] /\ n[r.tag] \in Nat
      BY <1>1, <2>2, SpentIsNat
    <3>2. Covers(Spent(r), r, n[r.tag])
      BY DEF CountInv
    <3> QED BY <1>3, <3>1, <3>2
  <2> QED BY <2>1, <2>2
<1>5. ASSUME NEW u \in Thread, NEW r \in Rows, fetched'[u].tag = r.tag, fetched'[u] # None
      PROVE  Covers(Spent(r)', r, fetched'[u].val)
  <2>1. fetched'[u] = fetched[u]
    BY <1>1, <1>5 DEF HooksTypeOK
  <2>2. fetched[u].val \in Nat /\ Covers(Spent(r), r, fetched[u].val)
    BY <1>5, <2>1 DEF CountInv, HooksTypeOK
  <2> QED BY <1>3, <2>1, <2>2
<1>6. QuietOnlyWhenSpent'
  <2> SUFFICES ASSUME NEW r \in Counted, r.tag \in muted' PROVE Spent(r)' >= r.limit
    BY DEF QuietOnlyWhenSpent
  <2>1. r \in Rows /\ ~r.at
    BY DEF Counted
  <2>2. Spent(r) >= r.limit
    <3>1. CASE r.tag \in muted
      BY <3>1 DEF CountInv, QuietOnlyWhenSpent
    <3>2. CASE r.tag \notin muted
      BY <1>2, <2>1, <3>2, BumpSpends
    <3> QED BY <3>1, <3>2
  <2>3. Spent(r)' \in Nat /\ Spent(r)' >= Spent(r) /\ Spent(r) \in Nat /\ r.limit \in Nat
    BY <2>1, BumpSpends, SpentIsNat
  <2> QED BY <2>2, <2>3
<1> QED BY <1>4, <1>5, <1>6 DEF CountInv, Covers

LEMMA CountStep == HooksTypeOK /\ CountInv /\ [Next]_vars => CountInv'
<1> SUFFICES ASSUME HooksTypeOK, CountInv, [Next]_vars PROVE CountInv'
  OBVIOUS
<1>1. ASSUME UNCHANGED countvars PROVE CountInv'
  BY <1>1 DEF countvars, CountInv, Covers, Spent, QuietOnlyWhenSpent
<1>2. ASSUME NEW t \in Thread, Fetch(t) PROVE CountInv'
  <2>1. PICK tag \in todo[t] :
           fetched' = [fetched EXCEPT ![t] = [tag |-> tag, val |-> n[tag]]]
    BY <1>2 DEF Fetch
  <2>2. n' = n /\ muted' = muted /\ \A r : Spent(r)' = Spent(r)
    BY <1>2 DEF Fetch, Spent
  <2>3. ASSUME NEW u \in Thread, NEW r \in Rows, fetched'[u].tag = r.tag, fetched'[u] # None
        PROVE  Covers(Spent(r), r, fetched'[u].val)
    <3>1. CASE u = t
      BY <2>1, <2>3, <3>1 DEF CountInv, HooksTypeOK
    <3>2. CASE u # t
      BY <2>1, <2>3, <3>2 DEF CountInv, HooksTypeOK
    <3> QED BY <3>1, <3>2
  <2>4. \A r \in Rows : Covers(Spent(r)', r, n'[r.tag])
    BY <2>2 DEF CountInv
  <2>5. \A u \in Thread, r \in Rows : fetched'[u].tag = r.tag /\ fetched'[u] # None
           => Covers(Spent(r)', r, fetched'[u].val)
    BY <2>2, <2>3
  <2>6. QuietOnlyWhenSpent'
    BY <2>2 DEF CountInv, QuietOnlyWhenSpent
  <2> QED BY <2>4, <2>5, <2>6 DEF CountInv, Covers
<1>3. ASSUME \/ \E t \in Thread : \/ \E f \in wrapped : Enter(t, f)
                                  \/ HitBody(t) \/ ReadOn(t) \/ Bracket(t) \/ LookBack(t)
                                  \/ Leave(t) \/ NoteStep(t) \/ JumpOver(t)
             \/ Smash \/ Disturb \/ UNCHANGED vars
      PROVE  UNCHANGED countvars
  BY <1>3 DEF Enter, HitBody, ReadOn, Bracket, LookBack, Leave, NoteStep, JumpOver, Smash,
              Disturb, vars, countvars
<1> QED BY <1>1, <1>2, <1>3, CountBump DEF Next, InHook

LEMMA CountInit == Init => CountInv
<1> SUFFICES ASSUME Init PROVE CountInv
  OBVIOUS
<1>1. \A r \in Rows : r.tag \in Tag /\ n[r.tag] = 0 /\ Spent(r) = 0
  BY DEF Init, Spent, Tag
<1>2. \A t \in Thread : fetched[t] = None
  BY DEF Init
<1>3. muted = {}
  BY DEF Init
<1> QED BY <1>1, <1>2, <1>3, RowsAssumption DEF CountInv, Covers, QuietOnlyWhenSpent

\* No line is held back before the turns up to its limit have been spent on lines, or on
\* lines with nothing in them where a row may have such, however many increments of its
\* counter the threads lose.
THEOREM CountersHonest == Spec => []QuietOnlyWhenSpent
<1>1. CountInv => QuietOnlyWhenSpent
  BY DEF CountInv
<1> QED BY <1>1, HooksInit, HooksStep, CountInit, CountStep, PTL DEF Spec

\* The total does not pass the threshold without the dump.
THEOREM DumpHappens == Spec => []DumpNotSkipped
<1>1. HooksTypeOK /\ CountInv => DumpNotSkipped
  BY SpentIsNat DEF CountInv, Covers, DumpNotSkipped, Counted
<1> QED BY <1>1, HooksInit, HooksStep, CountInit, CountStep, PTL DEF Spec

----------------------------------------------------------------------------
(* The calls that are going on.                                            *)

LEMMA ActiveIs ==
    ASSUME NEW f, NEW x
    PROVE  x \in Active(f) <=> \E u \in Thread : \E i \in DOMAIN stack[u] :
                                  stack[u][i].fn = f /\ x = <<u, i>>
  BY DEF Active

\* Entering g adds one call of g.
LEMMA EnterActive ==
    ASSUME HooksTypeOK, NEW t \in Thread, NEW g \in Fn, Enter(t, g), NEW f
    PROVE  LET x == <<t, Len(stack[t]) + 1>>
           IN  /\ x \notin Active(f)
               /\ Active(f)' = IF f = g THEN Active(f) \cup {x} ELSE Active(f)
<1> DEFINE k == Len(stack[t])
           x == <<t, k + 1>>
<1>1. /\ DOMAIN stack'[t] = 1..(k + 1) /\ DOMAIN stack[t] = 1..k /\ k \in Nat
      /\ stack'[t][k + 1].fn = g
      /\ \A u \in Thread : \A i \in DOMAIN stack[u] :
            i \in DOMAIN stack'[u] /\ stack'[u][i].fn = stack[u][i].fn
      /\ \A u \in Thread : u # t => stack'[u] = stack[u]
  BY EnterStack
<1> HIDE DEF k
<1>2. x \notin Active(f)
  BY <1>1, ActiveIs
<1>3. ASSUME NEW u \in Thread, NEW i \in DOMAIN stack'[u]
      PROVE  i \in DOMAIN stack[u] \/ (u = t /\ i = k + 1)
  BY <1>1
<1>4. \A y : y \in Active(f)' <=> \E u \in Thread : \E i \in DOMAIN stack'[u] :
                                     stack'[u][i].fn = f /\ y = <<u, i>>
  BY DEF Active
<1>5. ASSUME NEW y PROVE y \in Active(f)' <=> y \in Active(f) \/ (f = g /\ y = x)
  <2>1. ASSUME y \in Active(f) PROVE y \in Active(f)'
    BY <2>1, <1>1, <1>4, ActiveIs
  <2>2. ASSUME f = g, y = x PROVE y \in Active(f)'
    BY <2>2, <1>1, <1>4
  <2>3. ASSUME y \in Active(f)' PROVE y \in Active(f) \/ (f = g /\ y = x)
    <3>1. PICK u \in Thread : \E i \in DOMAIN stack'[u] : stack'[u][i].fn = f /\ y = <<u, i>>
      BY <2>3, <1>4
    <3>2. PICK i \in DOMAIN stack'[u] : stack'[u][i].fn = f /\ y = <<u, i>>
      BY <3>1
    <3>3. CASE i \in DOMAIN stack[u]
      BY <1>1, <3>2, <3>3, ActiveIs
    <3>4. CASE u = t /\ i = k + 1
      BY <1>1, <3>2, <3>4
    <3> QED BY <1>3, <3>3, <3>4
  <2> QED BY <2>1, <2>2, <2>3
<1> QED BY <1>2, <1>5 DEF k

\* A call that is left, by its return or a longjmp, is no longer going on.
LEMMA PopActive ==
    ASSUME HooksTypeOK, NEW t \in Thread, stack[t] # <<>>, stack' = Popped(t), NEW f
    PROVE  LET x == <<t, Len(stack[t])>>
           IN  /\ x \in Active(f) <=> f = Current(t).fn
               /\ Active(f)' = Active(f) \ {x}
<1> DEFINE k == Len(stack[t])
           x == <<t, k>>
<1>1. /\ k \in Nat \ {0} /\ DOMAIN stack[t] = 1..k /\ stack[t][k] = Current(t)
      /\ \A u \in Thread : u # t => stack'[u] = stack[u]
      /\ DOMAIN stack'[t] = 1..(k - 1)
      /\ \A i \in 1..(k - 1) : stack'[t][i] = stack[t][i]
  BY TopFrame DEF Current
<1> HIDE DEF k
<1>2. x \in Active(f) <=> f = Current(t).fn
  BY <1>1, ActiveIs
<1>3. \A y : y \in Active(f)' <=> \E u \in Thread : \E i \in DOMAIN stack'[u] :
                                     stack'[u][i].fn = f /\ y = <<u, i>>
  BY DEF Active
<1>4. ASSUME NEW u \in Thread, NEW i
      PROVE  /\ i \in DOMAIN stack'[u] <=> i \in DOMAIN stack[u] /\ <<u, i>> # x
             /\ i \in DOMAIN stack'[u] => stack'[u][i] = stack[u][i]
  BY <1>1
<1>5. ASSUME NEW y PROVE y \in Active(f)' <=> y \in Active(f) /\ y # x
  BY <1>3, <1>4, ActiveIs
<1> QED BY <1>2, <1>5 DEF k

\* Every other step leaves the calls, the trace and the windows alone.
LEMMA OtherSteps ==
    ASSUME HooksTypeOK, [Next]_vars,
           ~\E t \in Thread, f \in wrapped : Enter(t, f),
           ~\E t \in Thread : Leave(t) \/ JumpOver(t)
    PROVE  /\ UNCHANGED <<open, unmatched, lost>>
           /\ \A u \in Thread : DOMAIN stack'[u] = DOMAIN stack[u]
           /\ \A f : Active(f)' = Active(f)
<1>1. UNCHANGED <<open, unmatched, lost>> /\ (stack' = stack \/ \E t \in Thread : Bracket(t))
  BY DEF Next, InHook, HitBody, Fetch, Bump, ReadOn, Bracket, LookBack, NoteStep, Smash,
         Disturb, vars, callvars
<1>2. /\ \A u \in Thread : DOMAIN stack'[u] = DOMAIN stack[u]
      /\ \A u \in Thread : \A i \in DOMAIN stack[u] : stack'[u][i].fn = stack[u][i].fn
  BY <1>1, BracketStack
<1>3. ASSUME NEW f PROVE Active(f)' = Active(f)
  <2>1. \A u \in Thread : {j \in DOMAIN stack'[u] : stack'[u][j].fn = f}
                             = {j \in DOMAIN stack[u] : stack[u][j].fn = f}
    BY <1>2
  <2> QED BY <2>1 DEF Active
<1> QED BY <1>1, <1>2, <1>3

LEMMA EnterOpens ==
    ASSUME NEW t \in Thread, NEW f, Enter(t, f)
    PROVE  /\ "fsinit" \in open' <=> "fsinit" \in open \/ f = FsInit
           /\ "pump" \in open' <=> "pump" \in open \/ f = Pump
           /\ "drain" \in open' <=> "drain" \in open \/ f = Drain
<1>1. PICK e \in SUBSET Window :
          /\ open' = (open \ {"expand"}) \cup e \cup Opens(f)
          /\ e \in IF f \in {"009200F0", "00916DD0"} THEN SUBSET {"expand"}
                   ELSE {open \cap {"expand"}}
  BY DEF Enter, WindowsOnEntry, Window
<1>2. e \subseteq {"expand"}
  BY <1>1
<1> QED BY <1>1, <1>2 DEF Opens

\* A window that closes with its function is open only for a call of that function.
OpenFor(w, f) == w \in open => f \in Fn /\ (Active(f) # {} \/ lost[f] > 0)
WindowInv == OpenFor("fsinit", FsInit) /\ OpenFor("pump", Pump)

LEMMA WindowStep == HooksTypeOK /\ WindowInv /\ [Next]_vars => WindowInv'
<1> SUFFICES ASSUME HooksTypeOK, WindowInv, [Next]_vars PROVE WindowInv'
  OBVIOUS
<1>1. ASSUME NEW t \in Thread, NEW g \in wrapped, Enter(t, g) PROVE WindowInv'
  <2>1. g \in Fn /\ lost' = lost
    BY <1>1 DEF Enter, HooksTypeOK
  <2>2. ASSUME NEW f, Active(f) # {} \/ f = g PROVE Active(f)' # {}
    <3>1. Active(f)' = IF f = g THEN Active(f) \cup {<<t, Len(stack[t]) + 1>>} ELSE Active(f)
      BY <1>1, <2>1, EnterActive
    <3> QED BY <2>2, <3>1
  <2> QED BY <1>1, <2>1, <2>2, EnterOpens DEF WindowInv, OpenFor
<1>2. ASSUME NEW t \in Thread, Leave(t) PROVE WindowInv'
  <2>1. stack[t] # <<>> /\ stack' = Popped(t) /\ lost' = lost
           /\ open' = open \ Closes(Current(t).fn)
    BY <1>2 DEF Leave
  <2>2. \A f : Active(f) # {} /\ f # Current(t).fn => Active(f)' # {}
    BY <2>1, PopActive
  <2>3. /\ "fsinit" \in open' => "fsinit" \in open /\ FsInit # Current(t).fn
        /\ "pump" \in open' => "pump" \in open /\ Pump # Current(t).fn
    BY <2>1 DEF Closes
  <2> QED BY <2>1, <2>2, <2>3 DEF WindowInv, OpenFor
<1>3. ASSUME NEW t \in Thread, JumpOver(t) PROVE WindowInv'
  <2>1. /\ stack[t] # <<>> /\ stack' = Popped(t) /\ open' = open
        /\ lost' = [lost EXCEPT ![Current(t).fn] = @ + 1]
    BY <1>3 DEF JumpOver
  <2>2. \A f : Active(f) # {} /\ f # Current(t).fn => Active(f)' # {}
    BY <2>1, PopActive
  <2>3. ASSUME NEW f \in Fn, Active(f) # {} \/ lost[f] > 0
        PROVE  Active(f)' # {} \/ lost'[f] > 0
    <3>1. lost \in [Fn -> Nat]
      BY DEF HooksTypeOK
    <3>2. CASE f = Current(t).fn
      BY <2>1, <3>1, <3>2
    <3>3. CASE f # Current(t).fn
      BY <2>1, <2>2, <2>3, <3>1, <3>3
    <3> QED BY <3>2, <3>3
  <2> QED BY <2>1, <2>3 DEF WindowInv, OpenFor
<1>4. ASSUME UNCHANGED <<open, unmatched, lost>>, \A f : Active(f)' = Active(f)
      PROVE  WindowInv'
  BY <1>4 DEF WindowInv, OpenFor
<1> QED BY <1>1, <1>2, <1>3, <1>4, OtherSteps

\* A window is open only while its function is being called, a longjmp aside.
THEOREM WindowsHonest == Spec => []WindowsTrue
<1>1. Init => WindowInv
  BY DEF Init, WindowInv, OpenFor
<1>2. WindowInv => WindowsTrue
  BY DEF WindowInv, OpenFor, WindowsTrue
<1> QED BY <1>1, <1>2, HooksInit, HooksStep, WindowStep, PTL DEF Spec

\* The drain's window never closes again, so an entry that was printed has its return
\* printed too.
TraceInv ==
    \A f \in Fn : /\ IsFiniteSet(Active(f))
                  /\ "drain" \notin open \/ f \notin DrainNames => unmatched[f] <= 0
                  /\ unmatched[f] <= Cardinality(Active(f)) + lost[f]

LEMMA TraceStep == HooksTypeOK /\ TraceInv /\ [Next]_vars => TraceInv'
<1> SUFFICES ASSUME HooksTypeOK, TraceInv, [Next]_vars, NEW f \in Fn
             PROVE  (/\ IsFiniteSet(Active(f))
                     /\ "drain" \notin open \/ f \notin DrainNames => unmatched[f] <= 0
                     /\ unmatched[f] <= Cardinality(Active(f)) + lost[f])'
  BY DEF TraceInv
<1>0. /\ unmatched \in [Fn -> Int] /\ lost \in [Fn -> Nat]
      /\ IsFiniteSet(Active(f)) /\ Cardinality(Active(f)) \in Nat
      /\ "drain" \notin open \/ f \notin DrainNames => unmatched[f] <= 0
      /\ unmatched[f] <= Cardinality(Active(f)) + lost[f]
  BY FS_CardinalityType DEF HooksTypeOK, TraceInv
<1>1. ASSUME NEW t \in Thread, NEW g \in wrapped, Enter(t, g)
      PROVE  /\ IsFiniteSet(Active(f)')
             /\ "drain" \notin open' \/ f \notin DrainNames => unmatched'[f] <= 0
             /\ unmatched'[f] <= Cardinality(Active(f)') + lost'[f]
  <2> DEFINE x == <<t, Len(stack[t]) + 1>>
  <2>1. g \in Fn /\ lost' = lost
    BY <1>1 DEF Enter, HooksTypeOK
  <2>2. x \notin Active(f) /\ Active(f)' = IF f = g THEN Active(f) \cup {x} ELSE Active(f)
    BY <1>1, <2>1, EnterActive
  <2>3. /\ unmatched'[f] = IF f = g /\ f \in DrainNames /\ "drain" \in open'
                           THEN unmatched[f] + 1 ELSE unmatched[f]
        /\ "drain" \in open => "drain" \in open'
    BY <1>0, <1>1, <2>1, EnterOpens DEF Enter
  <2>4. /\ IsFiniteSet(Active(f) \cup {x})
        /\ Cardinality(Active(f) \cup {x}) = Cardinality(Active(f)) + 1
    BY <1>0, <2>2, FS_AddElement
  <2> HIDE DEF x
  <2>5. CASE f = g
    BY <1>0, <2>1, <2>2, <2>3, <2>4, <2>5
  <2>6. CASE f # g
    BY <1>0, <2>1, <2>2, <2>3, <2>6
  <2> QED BY <2>5, <2>6
<1>2. ASSUME NEW t \in Thread, stack[t] # <<>>, stack' = Popped(t),
             \/ Leave(t) \/ JumpOver(t)
      PROVE  /\ IsFiniteSet(Active(f)')
             /\ "drain" \notin open' \/ f \notin DrainNames => unmatched'[f] <= 0
             /\ unmatched'[f] <= Cardinality(Active(f)') + lost'[f]
  <2> DEFINE x == <<t, Len(stack[t])>>
  <2>1. (x \in Active(f) <=> f = Current(t).fn) /\ Active(f)' = Active(f) \ {x}
    BY <1>2, PopActive
  <2>2. /\ IsFiniteSet(Active(f) \ {x})
        /\ Cardinality(Active(f) \ {x}) = IF f = Current(t).fn THEN Cardinality(Active(f)) - 1
                                                               ELSE Cardinality(Active(f))
        /\ Cardinality(Active(f) \ {x}) \in Nat
    <3> HIDE DEF x
    <3>1. IsFiniteSet(Active(f) \ {x})
      BY <1>0, FS_RemoveElement
    <3>2. Cardinality(Active(f) \ {x}) = IF x \in Active(f) THEN Cardinality(Active(f)) - 1
                                                            ELSE Cardinality(Active(f))
      BY <1>0, FS_RemoveElement
    <3>3. Cardinality(Active(f) \ {x}) \in Nat
      BY <3>1, FS_CardinalityType
    <3> QED BY <2>1, <3>1, <3>2, <3>3
  <2>3. Current(t).fn \in Fn
    BY <1>2, TopFrame
  <2> HIDE DEF x
  <2>4. CASE Leave(t)
    <3>1. /\ lost' = lost /\ ("drain" \in open' <=> "drain" \in open)
          /\ unmatched'[f] = IF f = Current(t).fn /\ f \in DrainNames /\ "drain" \in open
                             THEN unmatched[f] - 1 ELSE unmatched[f]
      BY <1>0, <2>3, <2>4 DEF Leave, Closes
    <3>2. lost'[f] = lost[f] /\ lost[f] \in Nat /\ unmatched[f] \in Int
      BY <1>0, <3>1
    <3> QED BY <1>0, <2>1, <2>2, <3>1, <3>2
  <2>5. CASE JumpOver(t)
    <3>1. /\ open' = open /\ unmatched' = unmatched
          /\ lost'[f] = IF f = Current(t).fn THEN lost[f] + 1 ELSE lost[f]
      BY <1>0, <2>3, <2>5 DEF JumpOver
    <3>2. lost[f] \in Nat /\ unmatched[f] \in Int
      BY <1>0
    <3> QED BY <1>0, <2>1, <2>2, <3>1, <3>2
  <2> QED BY <1>2, <2>4, <2>5
<1>3. ASSUME UNCHANGED <<open, unmatched, lost>>, Active(f)' = Active(f)
      PROVE  /\ IsFiniteSet(Active(f)')
             /\ "drain" \notin open' \/ f \notin DrainNames => unmatched'[f] <= 0
             /\ unmatched'[f] <= Cardinality(Active(f)') + lost'[f]
  BY <1>0, <1>3
<1>4. ASSUME NEW t \in Thread, Leave(t) \/ JumpOver(t)
      PROVE  stack[t] # <<>> /\ stack' = Popped(t)
  BY <1>4 DEF Leave, JumpOver
<1> QED BY <1>1, <1>2, <1>3, <1>4, OtherSteps

\* An unmatched entry in the drain's trace is a call that has not come back.
THEOREM TraceNamesStuck == Spec => []UnmatchedNamesStuck
<1>1. Init => TraceInv
  <2> SUFFICES ASSUME Init, NEW f \in Fn
               PROVE  /\ IsFiniteSet(Active(f)) /\ unmatched[f] <= 0
                      /\ unmatched[f] <= Cardinality(Active(f)) + lost[f]
    BY DEF TraceInv
  <2>1. Active(f) = {}
    BY DEF Init, Active
  <2>2. unmatched[f] = 0 /\ lost[f] = 0
    BY DEF Init
  <2> QED BY <2>1, <2>2, FS_EmptySet
<1>2. TraceInv => UnmatchedNamesStuck
  BY DEF TraceInv, UnmatchedNamesStuck
<1> QED BY <1>1, <1>2, HooksInit, HooksStep, TraceStep, PTL DEF Spec

----------------------------------------------------------------------------
(* The bracket.                                                            *)

\* g_fl_before is what the list was like when a call's own walk set it, as long as no
\* other call has set it since and nobody stored to the list under the walk; a call
\* that is still at that walk has nothing to say yet.
Pending(t, i) == bracket[t] = "pre" /\ i = Len(stack[t])
BeforeInv ==
    \A t \in Thread : \A i \in DOMAIN stack[t] :
       /\ stack[t][i].fn \in Bracketed /\ ~stack[t][i].mixed /\ ~stack[t][i].torn
       /\ ~Pending(t, i)
       => flBefore = stack[t][i].in

\* A walk under which nobody stored to the list is in step with the list.
WalkInv ==
    \A t \in Thread : t \notin torn => IF bracket[t] = "none" THEN walk[t] = NewWalk
                                                              ELSE InStep(walk[t], list)

\* What a walk of that kind has counted when it is over.
LEMMA WalkCounts ==
    ASSUME HooksTypeOK, WalkInv, \A heap \in Lists : WithinReach(heap),
           NEW t \in Thread, bracket[t] # "none", walk[t].at = "done", t \notin torn
    PROVE  walk[t].bad = ChainsBroken(list)
<1>1. IsHeap(list) /\ WithinReach(list) /\ walk[t] \in Walks
  BY BuildsAssumption DEF HooksTypeOK
<1>2. InStep(walk[t], list)
  BY DEF WalkInv
<1> QED BY <1>1, <1>2, InStepEnds, WalkReportsAllBroken

LEMMA WalkStep == HooksTypeOK /\ WalkInv /\ [Next]_vars => WalkInv'
<1> SUFFICES ASSUME HooksTypeOK, WalkInv, [Next]_vars PROVE WalkInv'
  OBVIOUS
<1>1. ASSUME UNCHANGED <<walkvars, list>> PROVE WalkInv'
  BY <1>1 DEF walkvars, WalkInv
<1>2. ASSUME NEW t \in Thread, bracket[t] = "none" \/ bracket'[t] = bracket[t],
             \A u \in Thread : u # t => bracket'[u] = bracket[u],
             UNCHANGED <<list, walk, torn>>
      PROVE  WalkInv'
  BY <1>2, InStepStarts DEF WalkInv
<1>3. ASSUME NEW t \in Thread, NEW f \in wrapped, Enter(t, f) PROVE WalkInv'
  BY <1>2, <1>3 DEF Enter, InGuest, BracketOpens, HooksTypeOK
<1>4. ASSUME NEW t \in Thread, LookBack(t) PROVE WalkInv'
  BY <1>2, <1>4 DEF LookBack, InGuest, callvars, HooksTypeOK
<1>5. ASSUME NEW t \in Thread, ReadOn(t) PROVE WalkInv'
  <2>1. walk' = [walk EXCEPT ![t] = Read(walk[t], list)] /\ UNCHANGED <<list, bracket, torn>>
    BY <1>5 DEF ReadOn, callvars
  <2>2. bracket[t] # "none" /\ walk[t] \in Walks /\ walk[t].at # "done" /\ IsHeap(list)
    BY <1>5, BuildsAssumption DEF ReadOn, HooksTypeOK
  <2>3. t \notin torn => InStep(Read(walk[t], list), list)
    BY <2>2, InStepRead DEF WalkInv
  <2> QED BY <2>1, <2>2, <2>3 DEF WalkInv, HooksTypeOK
<1>6. ASSUME NEW t \in Thread, WalkOver(t), list' = list PROVE WalkInv'
  BY <1>6 DEF WalkOver, WalkInv, HooksTypeOK
<1>7. ASSUME NEW t \in Thread, Bracket(t) PROVE WalkInv'
  BY <1>6, <1>7 DEF Bracket
<1>8. ASSUME NEW t \in Thread, Leave(t) PROVE WalkInv'
  BY <1>1, <1>6, <1>8 DEF Leave, Returns
<1>9. ASSUME Smash PROVE WalkInv'
  BY <1>9 DEF Smash, WalkInv
<1>10. ASSUME \/ \E t \in Thread : \/ HitBody(t) \/ Fetch(t) \/ Bump(t) \/ NoteStep(t)
                                   \/ JumpOver(t)
              \/ Disturb \/ UNCHANGED vars
       PROVE  UNCHANGED <<walkvars, list>>
  BY <1>10 DEF HitBody, Fetch, Bump, NoteStep, JumpOver, Disturb, vars, callvars
<1> QED BY <1>1, <1>3, <1>4, <1>5, <1>7, <1>8, <1>9, <1>10 DEF Next, InHook

LEMMA BeforeStep ==
    ASSUME HooksTypeOK, WalkInv, BeforeInv, \A heap \in Lists : WithinReach(heap), [Next]_vars
    PROVE  BeforeInv'
<1>1. ASSUME NEW t \in Thread, NEW f \in wrapped, Enter(t, f) PROVE BeforeInv'
  <2>1. /\ f \in Fn /\ flBefore' = flBefore /\ bracket[t] = "none"
        /\ f \in Bracketed => bracket'[t] = "pre"
        /\ \A u \in Thread : u # t => bracket'[u] = bracket[u]
    BY <1>1 DEF Enter, InGuest, BracketOpens, HooksTypeOK
  <2>2. SUFFICES ASSUME NEW u \in Thread, NEW i \in DOMAIN stack'[u],
                        stack'[u][i].fn \in Bracketed, ~stack'[u][i].mixed,
                        ~stack'[u][i].torn, ~Pending(u, i)'
                 PROVE  flBefore = stack'[u][i].in
    BY <2>1 DEF BeforeInv
  <2>3. CASE u # t
    <3>1. stack'[u] = stack[u] /\ (Pending(u, i)' <=> Pending(u, i))
      BY <1>1, <2>1, <2>3, EnterStack DEF Pending
    <3> QED BY <2>2, <3>1 DEF BeforeInv
  <2>4. CASE u = t /\ i \in DOMAIN stack[t]
    <3>1. stack'[t][i] = stack[t][i] /\ ~Pending(t, i)
      BY <1>1, <2>1, <2>4, EnterStack DEF Pending
    <3> QED BY <2>2, <2>4, <3>1 DEF BeforeInv
  <2>5. CASE u = t /\ i \notin DOMAIN stack[t]
    <3>1. i = Len(stack[t]) + 1 /\ stack'[t][i] = Frame(f) /\ Frame(f).fn = f
      BY <1>1, <2>1, <2>2, <2>5, EnterStack
    <3>2. Len(stack'[t]) = Len(stack[t]) + 1
      <4>1. stack'[t] \in Seq(FrameRec) /\ DOMAIN stack'[t] = 1..(Len(stack[t]) + 1)
        BY <1>1, <2>1, EnterStack DEF Frames, FrameRec
      <4>2. Len(stack[t]) \in Nat
        BY <1>1, <2>1, EnterStack
      <4> QED BY <4>1, <4>2
    <3> QED BY <2>1, <2>2, <2>5, <3>1, <3>2 DEF Pending
  <2> QED BY <2>3, <2>4, <2>5
<1>2. ASSUME NEW t \in Thread, Bracket(t) PROVE BeforeInv'
  <2>1. SUFFICES ASSUME NEW u \in Thread, NEW i \in DOMAIN stack'[u],
                        stack'[u][i].fn \in Bracketed, ~stack'[u][i].mixed,
                        ~stack'[u][i].torn
                 PROVE  flBefore' = stack'[u][i].in
    BY DEF BeforeInv
  <2>2. i \in DOMAIN stack[u]
    BY <1>2, BracketStack
  <2>3. Own(t, u, i) /\ stack'[u][i].in = ChainsBroken(list) /\ t \notin torn
    BY <1>2, <2>1, <2>2, BracketStack
  <2>4. flBefore' = walk[t].bad /\ bracket[t] # "none" /\ walk[t].at = "done"
    BY <1>2 DEF Bracket
  <2> QED BY <2>3, <2>4, WalkCounts
<1>3. ASSUME NEW t \in Thread, Leave(t) \/ JumpOver(t) PROVE BeforeInv'
  <2>1. /\ stack[t] # <<>> /\ stack' = Popped(t) /\ flBefore' = flBefore
        /\ \A u \in Thread : u # t => bracket'[u] = bracket[u]
        /\ bracket[t] # "pre"
    BY <1>3 DEF Leave, Returns, JumpOver, InGuest, WalkOver, walkvars, HooksTypeOK
  <2>2. ASSUME NEW u \in Thread, NEW i \in DOMAIN stack'[u], ~Pending(u, i)'
        PROVE  i \in DOMAIN stack[u] /\ stack'[u][i] = stack[u][i] /\ ~Pending(u, i)
    <3>1. CASE u = t
      <4>1. i \in DOMAIN stack[t] /\ stack'[t][i] = stack[t][i]
        BY <2>1, <2>2, <3>1, TopFrame
      <4> QED BY <2>1, <3>1, <4>1 DEF Pending
    <3>2. CASE u # t
      <4>1. stack'[u] = stack[u]
        BY <2>1, <3>2, TopFrame
      <4> QED BY <2>1, <2>2, <3>2, <4>1 DEF Pending
    <3> QED BY <3>1, <3>2
  <2> QED BY <2>1, <2>2 DEF BeforeInv
<1>4. ASSUME NEW t \in Thread, LookBack(t) PROVE BeforeInv'
  <2>1. /\ UNCHANGED <<stack, flBefore>>
        /\ \A u \in Thread : bracket'[u] = "pre" <=> bracket[u] = "pre"
    BY <1>4 DEF LookBack, InGuest, callvars, HooksTypeOK
  <2> QED BY <2>1 DEF BeforeInv, Pending
<1>5. ASSUME UNCHANGED <<stack, flBefore, bracket>> PROVE BeforeInv'
  BY <1>5 DEF BeforeInv, Pending
<1>6. ASSUME \/ \E t \in Thread : HitBody(t) \/ Fetch(t) \/ Bump(t) \/ ReadOn(t) \/ NoteStep(t)
             \/ Smash \/ Disturb \/ UNCHANGED vars
      PROVE  UNCHANGED <<stack, flBefore, bracket>>
  BY <1>6 DEF HitBody, Fetch, Bump, ReadOn, NoteStep, Smash, Disturb, vars, callvars, walkvars
<1> QED BY <1>1, <1>2, <1>3, <1>4, <1>5, <1>6 DEF Next, InHook

\* Only a return takes the call off its thread's stack without counting it as lost.
LEMMA OnlyLeaves ==
    ASSUME HooksTypeOK, [Next]_vars, NEW t \in Thread, stack[t] # <<>>,
           stack'[t] = Popped(t)[t], lost' = lost
    PROVE  Leave(t)
<1>1. DOMAIN stack'[t] # DOMAIN stack[t] /\ Len(stack[t]) + 1 \notin DOMAIN stack'[t]
  <2>1. /\ DOMAIN stack'[t] = 1..(Len(stack[t]) - 1) /\ DOMAIN stack[t] = 1..Len(stack[t])
        /\ Len(stack[t]) \in Nat \ {0}
    BY TopFrame
  <2>2. Len(stack[t]) \notin 1..(Len(stack[t]) - 1)
    BY <2>1
  <2>3. Len(stack[t]) \in 1..Len(stack[t])
    BY <2>1
  <2> QED BY <2>1, <2>2, <2>3
<1>2. ASSUME NEW u \in Thread, NEW f \in wrapped, Enter(u, f) PROVE FALSE
  <2>1. f \in Fn
    BY DEF HooksTypeOK
  <2>2. /\ DOMAIN stack'[u] = 1..(Len(stack[u]) + 1) /\ Len(stack[u]) \in Nat
        /\ u # t => stack'[t] = stack[t]
    BY <1>2, <2>1, EnterStack
  <2> QED BY <1>1, <2>2
<1>3. ASSUME NEW u \in Thread, u # t, Leave(u) \/ JumpOver(u) PROVE FALSE
  <2>1. stack[u] # <<>> /\ stack' = Popped(u)
    BY <1>3 DEF Leave, JumpOver
  <2>2. stack'[t] = stack[t]
    BY <1>3, <2>1, TopFrame
  <2> QED BY <1>1, <2>2
<1>4. ASSUME JumpOver(t) PROVE FALSE
  <2>1. lost' = [lost EXCEPT ![Current(t).fn] = @ + 1] /\ Current(t).fn \in Fn
    BY <1>4, TopFrame DEF JumpOver
  <2>2. lost'[Current(t).fn] = lost[Current(t).fn] + 1 /\ lost[Current(t).fn] \in Nat
    BY <2>1 DEF HooksTypeOK
  <2> QED BY <2>2
<1> QED BY <1>1, <1>2, <1>3, <1>4, OtherSteps

\* The bracket's line is due exactly when the two counts differ.
LEMMA FlCheckDue ==
    ASSUME NEW f \in Bracketed, NEW through, NEW due \in Due("note", f, through)
    PROVE  "flcheck" \in due <=> "flcheck" \in through
<1>1. PICK r \in Rows : [r EXCEPT !.limit = FlCheck.limit] = FlCheck
  BY RowsAssumption DEF AllRows
<1>2. /\ r.tag = "flcheck" /\ r.side = "note" /\ r.gate = "flcheck" /\ r.who = Bracketed
  BY <1>1, RowFacts DEF FlCheck, Row, Bracketed
<1>3. PICK D \in SUBSET May("note", f, through) :
         Must("note", f, through) \subseteq D /\ due = {q.tag : q \in D}
  BY DEF Due
<1>4. ASSUME "flcheck" \in through PROVE "flcheck" \in due
  <2>1. r \in Must("note", f, through)
    BY <1>2, <1>4 DEF Must, May
  <2> QED BY <1>2, <1>3, <2>1
<1>5. ASSUME "flcheck" \in due PROVE "flcheck" \in through
  <2>1. PICK q \in D : q.tag = "flcheck"
    BY <1>3, <1>5
  <2>2. q = r
    BY <1>2, <1>3, <2>1, RowsAssumption DEF May
  <2> QED BY <1>2, <1>3, <2>1, <2>2 DEF May
<1> QED BY <1>4, <1>5

\* A bracketed call is reported exactly if the number of chains from which a bad node can
\* be reached has changed between its two walks, provided that no store to the list falls
\* into either walk, that no other call has set g_fl_before since, and that the walk has
\* more hops than the heap has nodes.
THEOREM BracketHonest ==
    ASSUME \A heap \in Lists : WithinReach(heap)
    PROVE  Spec => BracketRight
<1> DEFINE Inv == HooksTypeOK /\ WalkInv /\ BeforeInv
<1>1. Init => Inv
  <2>1. Init => WalkInv /\ BeforeInv
    BY DEF Init, WalkInv, BeforeInv
  <2> QED BY <2>1, HooksInit
<1>2. Inv /\ [Next]_vars => Inv'
  BY HooksStep, WalkStep, BeforeStep
<1>3. ASSUME Inv, [Next]_vars, NEW t \in Thread, LeavesBracket(t), ~Current(t).mixed,
             Undisturbed(t)
      PROVE  "flcheck" \in todo'[t] <=> ChainsBroken(list) # Current(t).in
  <2>1. stack[t] # <<>> /\ Leave(t) /\ Current(t).fn \in Bracketed
    BY <1>3, OnlyLeaves DEF LeavesBracket
  <2>2. PICK due \in Due("note", Current(t).fn, NoteGates(t, Current(t).fn)) :
           todo' = [todo EXCEPT ![t] = due]
    BY <2>1 DEF Leave
  <2>3. todo'[t] = due
    <3>1. todo \in [Thread -> SUBSET Tag]
      BY <1>3 DEF HooksTypeOK
    <3> QED BY <2>2, <3>1
  <2>4. "flcheck" \in NoteGates(t, Current(t).fn) <=> walk[t].bad # flBefore
    BY <1>3, <2>1 DEF NoteGates, HooksTypeOK, Window
  <2>5. bracket[t] = "note" /\ walk[t].at = "done"
    BY <2>1 DEF Leave, Returns
  <2>6. flBefore = Current(t).in
    <3>1. Len(stack[t]) \in DOMAIN stack[t]
      BY <1>3, <2>1, TopFrame
    <3> QED BY <1>3, <2>1, <2>5, <3>1 DEF BeforeInv, Pending, Current, Undisturbed
  <2>7. walk[t].bad = ChainsBroken(list)
    BY <1>3, <2>5, WalkCounts DEF Undisturbed
  <2> QED BY <2>1, <2>2, <2>3, <2>4, <2>6, <2>7, FlCheckDue
<1>4. Inv /\ [Next]_vars =>
         [\A t \in Thread : LeavesBracket(t) /\ ~Current(t).mixed /\ Undisturbed(t) =>
             ("flcheck" \in todo'[t] <=> ChainsBroken(list) # Current(t).in)]_vars
  BY <1>3
<1> QED BY <1>1, <1>2, <1>4, PTL DEF Spec, BracketRight

\* A walk of the list gets on with every read of it, whatever the chains are, and however
\* often other threads store to them meanwhile.
THEOREM WalkGetsOn == Spec => WalkAdvances
<1>1. ASSUME HooksTypeOK, [Next]_vars, NEW t \in Thread, bracket[t] # "none",
             bracket'[t] = bracket[t]
      PROVE  walk'[t] = walk[t] \/ Ahead(walk[t], walk'[t])
  <2>1. ASSUME NEW u \in Thread, ReadOn(u) PROVE walk'[t] = walk[t] \/ Ahead(walk[t], walk'[t])
    <3>1. Ahead(walk[u], Read(walk[u], list))
      BY <1>1, <2>1, BuildsAssumption, ReadGetsOn DEF ReadOn, HooksTypeOK
    <3> QED BY <1>1, <2>1, <3>1 DEF ReadOn, HooksTypeOK
  <2>2. ASSUME NEW u \in Thread, WalkOver(u) PROVE walk'[t] = walk[t]
    BY <1>1, <2>2 DEF WalkOver, HooksTypeOK
  <2>3. ASSUME ~\E u \in Thread : ReadOn(u) \/ Bracket(u) \/ Leave(u) PROVE walk' = walk
    BY <1>1, <2>3 DEF Next, InHook, Enter, HitBody, Fetch, Bump, LookBack, NoteStep, JumpOver,
                      Smash, Disturb, vars, walkvars
  <2> QED BY <2>1, <2>2, <2>3 DEF Bracket, Leave, Returns, walkvars
<1>2. HooksTypeOK /\ [Next]_vars =>
         [\A t \in Thread : bracket[t] # "none" /\ bracket'[t] = bracket[t] =>
             walk'[t] = walk[t] \/ Ahead(walk[t], walk'[t])]_vars
  BY <1>1
<1> QED BY <1>2, HooksInit, HooksStep, PTL DEF Spec, WalkAdvances
=============================================================================
