-------------------------------- MODULE Probes --------------------------------
(***************************************************************************)
(* The guest's threads calling wrapped functions: instrument_alloc.py's    *)
(* wrapper runs gt5p_alloc_pre before the function and gt5p_alloc_note     *)
(* after it (src/gt5p_allocwatch.cpp); calls nest, threads interleave, and *)
(* a guest longjmp leaves functions without their note hook.               *)
(*                                                                         *)
(* Of the hooks this module has the state that hooks share with each       *)
(* other: the windows in which some lines are printed, the free-list state *)
(* on entry of a bracketed call, and the counters of ProbeRows.            *)
(* AllocWatch has the rest of the note hook.  A hook's branches do not     *)
(* share counters, so the order of its lines is left open; a counter's     *)
(* increment is a read and a later write, and the walk of the free list    *)
(* reads one word of guest memory at a time.                               *)
(***************************************************************************)
EXTENDS AllocWatch, ProbeRows, FreeList

CONSTANTS Rows,     \* the counted lines, AllRows with scaled limits
          Builds,   \* what is wrapped, watched and there, and bounds on the run:
                    \* [wrapped, level, canary, list, calls, depth]
          Fn,       \* the functions wrapped in some build
          BlockOf,  \* BlockOf[f]: the blocks a call of f may return
          Lists     \* the states of the game heap's free list

Tag == {r.tag : r \in Rows}
RowOf(tag) == CHOOSE r \in Rows : r.tag = tag

\* The rows are the program's; a limit may be scaled.
ASSUME RowsAssumption ==
    /\ \A r \in Rows : /\ r.limit \in Nat \ {0} /\ r.at \in BOOLEAN
                       /\ r.blank \in BOOLEAN /\ ~(r.at /\ r.blank)
    /\ \A r, q \in Rows : r.tag = q.tag => r = q
    /\ \A q \in AllRows : \E r \in Rows : [r EXCEPT !.limit = q.limit] = q
ASSUME BuildsAssumption ==
    /\ \A b \in Builds : b.wrapped \subseteq Fn /\ b.list \subseteq Lists
                        /\ b.calls \in Nat /\ b.depth \in Nat
    /\ \A f \in Fn : BlockOf[f] \subseteq NoteBlock \cup {NoBlock}
    /\ \A heap \in Lists : IsHeap(heap)

VARIABLES
    wrapped,   \* the functions the build wraps
    stack,     \* stack[t]: the wrapped calls thread t is in
    todo,      \* todo[t]: the counted lines its hook still has to reach
    fetched,   \* fetched[t]: the counter it is incrementing, as it read it
    n,         \* n[tag]: the counter of a row
    open,      \* the windows open: g_in_drain, g_in_pump, g_in_fsinit, g_expand_obj
    heaps,     \* the states the game leaves its free list in
    list,      \* the free list
    flBefore,  \* g_fl_before
    bracket,   \* bracket[t]: the hook whose walk of the list it is in
    walk,      \* walk[t]: how far that walk is
    torn,      \* history: the threads under whose walk the list has changed
    lines,     \* lines[tag]: lines printed
    blanks,    \* blanks[tag]: turns below the limit with nothing to print
    muted,     \* tags whose line has been held back
    unmatched, \* unmatched[f]: "> f" lines less "< f" lines
    lost,      \* lost[f]: calls of f that a longjmp left
    calls,     \* bound: calls and body lines still to come
    depth      \* bound on nested wrapped calls

countvars == <<fetched, n, lines, blanks, muted>>
walkvars == <<bracket, walk, torn>>
buildvars == <<wrapped, heaps, depth>>
callvars == <<buildvars, stack, open, list, flBefore, unmatched, lost, calls>>
vars == <<awvars, callvars, walkvars, todo, countvars>>

Window == {"drain", "pump", "fsinit", "expand"}
None == [tag |-> "none", val |-> 0]

Init == /\ AWInit
        /\ \E b \in Builds : /\ wrapped = b.wrapped /\ heaps = b.list /\ list \in b.list
                             /\ level \in b.level /\ canary \in b.canary
                             /\ calls = b.calls /\ depth = b.depth
        /\ stack = [t \in Thread |-> <<>>]
        /\ todo = [t \in Thread |-> {}]
        /\ fetched = [t \in Thread |-> None]
        /\ n = [tag \in Tag |-> 0]
        /\ open = {}
        /\ flBefore = 0
        /\ bracket = [t \in Thread |-> "none"]
        /\ walk = [t \in Thread |-> NewWalk]
        /\ torn = {}
        /\ lines = [tag \in Tag |-> 0]
        /\ blanks = [tag \in Tag |-> 0]
        /\ muted = {}
        /\ unmatched = [f \in Fn |-> 0]
        /\ lost = [f \in Fn |-> 0]

NoLines(t) == todo[t] = {} /\ fetched[t] = None
InGuest(t) == step[t] = "idle" /\ NoLines(t) /\ bracket[t] = "none"
Current(t) == stack[t][Len(stack[t])]
Popped(t) == [stack EXCEPT ![t] = SubSeq(@, 1, Len(@) - 1)]

----------------------------------------------------------------------------
(* Counted lines.                                                          *)

\* The lines a hook of f may come to, with these windows open, and those it must.
May(side, f, through) ==
    {r \in Rows : r.side = side /\ f \in r.who
                    /\ r.gate \in {"none", "data"} \cup through}
Must(side, f, through) ==
    {r \in May(side, f, through) : r.gate \in {"none", "fsinit", "flcheck"}}
Due(side, f, through) ==
    {{r.tag : r \in D} :
        D \in {D \in SUBSET May(side, f, through) : Must(side, f, through) \subseteq D}}

Fetch(t) ==
    \E tag \in todo[t] :
       /\ fetched[t] = None
       /\ fetched' = [fetched EXCEPT ![t] = [tag |-> tag, val |-> n[tag]]]
       /\ todo' = [todo EXCEPT ![t] = @ \ {tag}]
       /\ UNCHANGED <<awvars, callvars, walkvars, n, lines, blanks, muted>>

\* Mutants: the limit is tested on the incremented counter; the total is tested
\* before it is.
PrintsOneLess(r, val) == IF r.at THEN val + 1 = r.limit ELSE val + 1 < r.limit
PrintsBefore(r, val) == IF r.at THEN val = r.limit ELSE val < r.limit

\* "n++ < limit"; "++total == limit".
Prints(r, val) == IF r.at THEN val + 1 = r.limit ELSE val < r.limit

\* Whoever prints the total's line says so in g_bb_dumped and keeps others from it.
Shows(r, val) == Prints(r, val) /\ ~(r.at /\ lines[r.tag] > 0)

\* The increment, and the line if the limit and what it would show allow it.
Bump(t) ==
    LET tag == fetched[t].tag
        val == fetched[t].val
        r   == RowOf(tag)
    IN  /\ fetched[t] # None
        /\ n' = [n EXCEPT ![tag] = val + 1]
        /\ \/ /\ Shows(r, val)
              /\ lines' = [lines EXCEPT ![tag] = @ + 1]
              /\ UNCHANGED <<blanks, muted>>
           \/ /\ Shows(r, val) /\ r.blank
              /\ blanks' = [blanks EXCEPT ![tag] = @ + 1]
              /\ UNCHANGED <<lines, muted>>
           \/ /\ ~Shows(r, val)
              /\ muted' = muted \cup {tag}
              /\ UNCHANGED <<lines, blanks>>
        /\ fetched' = [fetched EXCEPT ![t] = None]
        /\ UNCHANGED <<awvars, callvars, walkvars, todo>>

\* A call of a counted line from inside the function thread t is in.
HitBody(t) ==
    /\ InGuest(t) /\ stack[t] # <<>> /\ calls > 0
    /\ \E r \in May("body", Current(t).fn, {}) : todo' = [todo EXCEPT ![t] = {r.tag}]
    /\ calls' = calls - 1
    /\ UNCHANGED <<awvars, buildvars, stack, open, list, flBefore, unmatched, lost,
                   walkvars, countvars>>

----------------------------------------------------------------------------
(* The entry hook.                                                         *)

Opens(f) == (IF f = Drain THEN {"drain"} ELSE {})
                \cup (IF f = FsInit THEN {"fsinit"} ELSE {})
                \cup (IF f = Pump THEN {"pump"} ELSE {})

\* The handler object is taken from an argument, or from memory that may hold 0.
WindowsOnEntry(f) ==
    {(open \ {"expand"}) \cup e \cup Opens(f) :
        e \in IF f \in {"009200F0", "00916DD0"} THEN SUBSET {"expand"}
              ELSE {open \cap {"expand"}}}

\* The suspects' entries look at the free list.
BracketOpens(t, f) ==
    IF f \in Bracketed THEN bracket' = [bracket EXCEPT ![t] = "pre"] ELSE UNCHANGED bracket

\* The frame of a call; for a bracketed one, what the list was like when g_fl_before
\* was set, whether another call has set it since, and whether the list changed under
\* the walk.
Frame(f) == [fn |-> f, in |-> 0, mixed |-> FALSE, torn |-> FALSE]

Enter(t, f) ==
    /\ InGuest(t) /\ Len(stack[t]) < depth /\ calls > 0
    /\ BracketOpens(t, f)
    /\ stack' = [stack EXCEPT ![t] = Append(@, Frame(f))]
    /\ open' \in WindowsOnEntry(f)
    /\ unmatched' = [unmatched EXCEPT ![f] =
                        IF f \in DrainNames /\ "drain" \in open' THEN @ + 1 ELSE @]
    /\ \E due \in Due("pre", f, open') : todo' = [todo EXCEPT ![t] = due]
    /\ calls' = calls - 1
    /\ UNCHANGED <<awvars, buildvars, list, flBefore, lost, walk, torn, countvars>>

----------------------------------------------------------------------------
(* The bracket.                                                            *)

\* The walk of either hook reads on; on entry the hook's own line comes before it.
ReadOn(t) ==
    /\ bracket[t] # "none" /\ walk[t].at # "done" /\ NoLines(t)
    /\ walk' = [walk EXCEPT ![t] = Read(@, list)]
    /\ UNCHANGED <<awvars, callvars, bracket, torn, todo, countvars>>

WalkOver(t) ==
    /\ bracket' = [bracket EXCEPT ![t] = "none"]
    /\ walk' = [walk EXCEPT ![t] = NewWalk]
    /\ torn' = torn \ {t}

Own(t, u, i) == u = t /\ i = Len(stack[t])

\* g_fl_before is one for all threads and all calls.
Bracket(t) ==
    /\ bracket[t] = "pre" /\ walk[t].at = "done"
    /\ flBefore' = walk[t].bad
    /\ stack' = [u \in Thread |-> [i \in DOMAIN stack[u] |->
                   IF Own(t, u, i)
                   THEN [stack[u][i] EXCEPT !.in = ChainsBroken(list), !.mixed = FALSE,
                                            !.torn = t \in torn]
                   ELSE [stack[u][i] EXCEPT !.mixed = TRUE]]]
    /\ WalkOver(t)
    /\ UNCHANGED <<awvars, buildvars, open, list, unmatched, lost, calls, todo, countvars>>

\* The return hook of a suspect begins its walk.
LookBack(t) ==
    /\ InGuest(t) /\ stack[t] # <<>> /\ Current(t).fn \in Bracketed
    /\ bracket' = [bracket EXCEPT ![t] = "note"]
    /\ UNCHANGED <<awvars, callvars, walk, torn, todo, countvars>>

----------------------------------------------------------------------------
(* The return hook.                                                        *)

\* Mutants: the drain closes its window as the others do; no window is closed.
ClosesDrain(f) == (IF f = FsInit THEN {"fsinit"} ELSE {})
                      \cup (IF f = Pump THEN {"pump"} ELSE {})
                      \cup (IF f = Drain THEN {"drain"} ELSE {})
ClosesNothing(f) == {}

Closes(f) == (IF f = FsInit THEN {"fsinit"} ELSE {})
                 \cup (IF f = Pump THEN {"pump"} ELSE {})

\* Mutant: only a list that got worse is reported.
NoteGatesWorse(t, f) == open \cup (IF level > 0 THEN {"level"} ELSE {})
                        \cup (IF f \in Bracketed /\ walk[t].bad > flBefore
                              THEN {"flcheck"} ELSE {})

NoteGates(t, f) == open \cup (IF level > 0 THEN {"level"} ELSE {})
                        \cup (IF f \in Bracketed /\ walk[t].bad # flBefore
                              THEN {"flcheck"} ELSE {})

\* A suspect's hook has looked at the list; the others begin here.
Returns(t, f) ==
    IF f \in Bracketed
    THEN bracket[t] = "note" /\ walk[t].at = "done" /\ WalkOver(t)
    ELSE InGuest(t) /\ UNCHANGED walkvars

Leave(t) ==
    /\ stack[t] # <<>>
    /\ LET f == Current(t).fn
       IN  /\ Returns(t, f)
           /\ stack' = Popped(t)
           /\ unmatched' = [unmatched EXCEPT ![f] =
                               IF f \in DrainNames /\ "drain" \in open THEN @ - 1 ELSE @]
           /\ \E due \in Due("note", f, NoteGates(t, f)) : todo' = [todo EXCEPT ![t] = due]
           /\ open' = open \ Closes(f)
           /\ \E b \in BlockOf[f] : BeginNote(t, f = Allocator, b)
    /\ UNCHANGED <<buildvars, list, flBefore, lost, calls, countvars>>

\* The rest of the hook (AllocWatch), once its counted lines are through.
NoteStep(t) ==
    /\ NoLines(t)
    /\ HookStep(t)
    /\ UNCHANGED <<callvars, walkvars, todo, countvars>>

----------------------------------------------------------------------------
(* The guest.                                                              *)

\* A guest longjmp leaves the call thread t is in; one over several calls is several
\* of these.
JumpOver(t) ==
    /\ InGuest(t) /\ stack[t] # <<>>
    /\ lost' = [lost EXCEPT ![Current(t).fn] = @ + 1]
    /\ stack' = Popped(t)
    /\ UNCHANGED <<awvars, buildvars, open, list, flBefore, unmatched, calls, walkvars,
                   todo, countvars>>

\* A store to the game heap's nodes; the hooks look at them only for bracketed calls.
Smash == /\ wrapped \cap Bracketed # {}
         /\ list' \in heaps \ {list}
         /\ torn' = torn \cup {t \in Thread : bracket[t] # "none"}
         /\ UNCHANGED <<awvars, buildvars, stack, open, flBefore, unmatched, lost, calls,
                        bracket, walk, todo, countvars>>

Disturb == Scribble /\ UNCHANGED <<callvars, walkvars, todo, countvars>>

\* What a thread does in a hook it is in.
InHook(t) == Fetch(t) \/ Bump(t) \/ ReadOn(t) \/ Bracket(t) \/ NoteStep(t)

Next == \/ \E t \in Thread : \/ \E f \in wrapped : Enter(t, f)
                             \/ HitBody(t)
                             \/ InHook(t)
                             \/ LookBack(t) \/ Leave(t) \/ JumpOver(t)
        \/ Smash \/ Disturb

\* A guest thread is a host thread: inside a hook it goes on.
Spec == Init /\ [][Next]_vars /\ \A t \in Thread : WF_vars(NoteStep(t))

----------------------------------------------------------------------------
Frames == Seq([fn : Fn, in : Nat, mixed : BOOLEAN, torn : BOOLEAN])

HooksTypeOK ==
    /\ wrapped \subseteq Fn
    /\ stack \in [Thread -> Frames]
    /\ todo \in [Thread -> SUBSET Tag]
    /\ fetched \in [Thread -> {None} \cup [tag : Tag, val : Nat]]
    /\ n \in [Tag -> Nat] /\ muted \subseteq Tag
    /\ lines \in [Tag -> Nat] /\ blanks \in [Tag -> Nat]
    /\ bracket \in [Thread -> {"none", "pre", "note"}]
    /\ walk \in [Thread -> Walks] /\ torn \subseteq Thread
    /\ open \subseteq Window
    /\ heaps \subseteq Lists /\ list \in heaps /\ flBefore \in Nat
    /\ unmatched \in [Fn -> Int] /\ lost \in [Fn -> Nat] /\ calls \in Nat
    /\ depth \in Nat

\* The hooks' state is of its type, whatever the other threads do meanwhile: the
\* overlap table stays within its array, and a walk of the free list, though the list
\* may change under it, within its buckets and hops.
TypeOK == AWTypeOK /\ HooksTypeOK

Counted == {r \in Rows : ~r.at}
Spent(r) == lines[r.tag] + (IF r.blank THEN blanks[r.tag] ELSE 0)

\* The counters are incremented by every thread without a lock, and increments get
\* lost.  A line is held back only when its limit has been spent all the same: on lines
\* printed or, in the three places that look at what they have only afterwards, on turns
\* with nothing to print.
QuietOnlyWhenSpent == \A r \in Counted : r.tag \in muted => Spent(r) >= r.limit

\* "dump the hottest ones once the total says we are clearly looping"
\* (gt5p_bbcount.cpp): the total is only compared for equality, and no interleaving
\* carries it past the threshold without the dump.
DumpNotSkipped ==
    \A r \in Rows \ Counted : n[r.tag] >= r.limit => lines[r.tag] > 0

Active(f) ==
    UNION {{<<t, i>> : i \in {j \in DOMAIN stack[t] : stack[t][j].fn = f}} : t \in Thread}

\* "an unmatched '>' names the one that does not come back" (gt5p_allocwatch.cpp): more
\* entries than returns of a function are printed only if a call of it is still going
\* on, or was left by a longjmp.
UnmatchedNamesStuck ==
    \A f \in Fn : unmatched[f] <= Cardinality(Active(f)) + lost[f]

\* "only look while this function is on the stack" (gt5p_allocwatch.cpp): the windows
\* of the pump and of the filesystem setup are open only while a call of it is going
\* on, unless a longjmp left one.
WindowsTrue ==
    /\ "fsinit" \in open => Active(FsInit) # {} \/ lost[FsInit] > 0
    /\ "pump" \in open => Active(Pump) # {} \/ lost[Pump] > 0

LeavesBracket(t) ==
    stack'[t] = Popped(t)[t] /\ stack[t] # <<>> /\ lost' = lost /\ Current(t).fn \in Bracketed

\* Nobody stored to the list under either of the call's two walks.
Undisturbed(t) == ~Current(t).torn /\ t \notin torn

\* The walks take no lock and there is one g_fl_before.  As long as no store falls into
\* a walk of its own and no other bracketed call has set g_fl_before since, a bracketed
\* call is reported exactly if the number of chains from which a bad node can be reached
\* has changed between its two walks.
BracketRight ==
    [][\A t \in Thread : LeavesBracket(t) /\ ~Current(t).mixed /\ Undisturbed(t) =>
          ("flcheck" \in todo'[t] <=> ChainsBroken(list) # Current(t).in)]_vars

\* A walk of the list gets on with every read, with a chain that is a circle and whatever
\* other threads make of the list meanwhile; within its buckets and hops (TypeOK) it
\* therefore ends.
WalkAdvances ==
    [][\A t \in Thread : bracket[t] # "none" /\ bracket'[t] = bracket[t] =>
          walk'[t] = walk[t] \/ Ahead(walk[t], walk'[t])]_vars

\* "if the free list is intact on entry and broken on exit, the function between the
\* two checks is the one that broke it" (gt5p_allocwatch.cpp); "Walking the list before
\* and after a call settles it" (gt5p_bbcount.cpp): such a call is reported.
BracketSettles ==
    [][\A t \in Thread :
          LeavesBracket(t) /\ Undisturbed(t) /\ Current(t).in = 0 /\ ChainsBroken(list) > 0 =>
             "flcheck" \in todo'[t]]_vars
=============================================================================
