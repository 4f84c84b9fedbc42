------------------------------ MODULE GenPatch -------------------------------
(***************************************************************************)
(* The scripts that edit the lifted sources in generated/ between a re-lift *)
(* and a build: setjmp_patch.py, instrument_alloc.py and bbcount.py.  They *)
(* are run by hand, in any order and more than once, and each decides from *)
(* the text it finds whether its work is already done.                     *)
(*                                                                         *)
(* A chunk is a generated ppu_recomp_*.cpp.  Of its text the model keeps,  *)
(* for each lifted function: whether its body is still defined under its   *)
(* own name or as gt5p_orig_<name>, the wrappers appended under its own    *)
(* name, how often its setjmp call sites were rewritten, and how often its *)
(* labels were given counters.                                             *)
(***************************************************************************)
EXTENDS Integers, Sequences

CONSTANTS Func,      \* lifted functions
          NChunk,    \* chunks, visited in order by setjmp_patch.py
          ChunkOf,   \* the chunk that defines a function
          Arming,    \* functions whose body calls the guest setjmp
          LongJmp,   \* func_00A0A57C
          Window     \* Window[f]: functions that begin within 200,000
                     \* characters of f in its chunk, f among them

Chunk == 1..NChunk

ASSUME TextAssumption ==
    /\ NChunk \in Nat \ {0}
    /\ ChunkOf \in [Func -> Chunk]
    /\ Arming \subseteq Func
    /\ LongJmp \in Func \ Arming
    /\ Window \in [Func -> SUBSET Func]
    /\ \A f \in Func : f \in Window[f]

VARIABLES
    def,      \* def[f]: "plain" or "orig", the name of the lifted body
    wraps,    \* wraps[f]: wrappers appended to the chunk, in order
    sites,    \* sites[f]: times f's call sites were rewritten
    counters, \* counters[f]: times f's labels were given counters
    marked,   \* chunks whose text mentions setjmp_patch.py
    todo,     \* the chunk setjmp_patch.py visits next; 0 when it is not running
    tally,    \* what this run of it has done: call sites, longjmp
    exit,     \* exit status of its last complete run since the lift
    probed    \* history: functions instrumented before their chunk was patched

text == <<def, wraps, sites, counters, marked>>
vars == <<def, wraps, sites, counters, marked, todo, tally, exit, probed>>

NoTally == [sites |-> FALSE, longjmp |-> FALSE]

Init == /\ def = [f \in Func |-> "plain"]
        /\ wraps = [f \in Func |-> <<>>]
        /\ sites = [f \in Func |-> 0]
        /\ counters = [f \in Func |-> 0]
        /\ marked = {}
        /\ todo = 0
        /\ tally = NoTally
        /\ exit = "none"
        /\ probed = {}

\* A re-lift rebuilds generated/ wholesale.
Relift == /\ todo = 0
          /\ def' = [f \in Func |-> "plain"]
          /\ wraps' = [f \in Func |-> <<>>]
          /\ sites' = [f \in Func |-> 0]
          /\ counters' = [f \in Func |-> 0]
          /\ marked' = {}
          /\ exit' = "none"
          /\ probed' = {}
          /\ UNCHANGED <<todo, tally>>

----------------------------------------------------------------------------
(* setjmp_patch.py, one chunk at a time; each chunk is written at once.    *)

StartPatch == /\ todo = 0
              /\ todo' = 1
              /\ tally' = NoTally
              /\ UNCHANGED <<text, exit, probed>>

\* The functions of chunk c whose lifted body holds a call site, whatever name
\* the body is defined under.
Owners(c) == {f \in Arming : ChunkOf[f] = c}

\* Mutant: guards only a function that has been renamed already.
GuardableIfRenamed(f) == def[f] = "orig"

\* guard_callers skips a function that is not defined under its own name, or
\* whose gt5p_orig_ name is in the text.
Guardable(f) == def[f] = "plain"

Guarded(c) == {f \in Owners(c) : Guardable(f)}

\* The longjmp is rewritten where it is defined under its own name.
Rewritten(c) == {f \in {LongJmp} : ChunkOf[f] = c /\ def[f] = "plain"}

\* Mutant: a chunk is patched whether or not it was before.
UnpatchedNever(c) == TRUE

Unpatched(c) == c \notin marked

PatchChunk(c) ==
    /\ sites' = [f \in Func |-> IF f \in Owners(c) THEN sites[f] + 1 ELSE sites[f]]
    /\ wraps' = [f \in Func |->
                    CASE f \in Guarded(c)   -> Append(wraps[f], "guard")
                      [] f \in Rewritten(c) -> Append(wraps[f], "longjmp")
                      [] OTHER              -> wraps[f]]
    /\ def' = [f \in Func |->
                  IF f \in Guarded(c) \cup Rewritten(c) THEN "orig" ELSE def[f]]
    /\ marked' = IF Owners(c) \cup Rewritten(c) # {} THEN marked \cup {c} ELSE marked
    /\ tally' = [sites   |-> tally.sites \/ Owners(c) # {},
                 longjmp |-> tally.longjmp \/ Rewritten(c) # {}]
    /\ UNCHANGED counters

\* Mutant: a chunk that was patched counts twice.
VisitTwice == /\ todo \in Chunk
              /\ IF Unpatched(todo)
                 THEN PatchChunk(todo) /\ todo' = todo + 2
                 ELSE UNCHANGED <<text, tally>> /\ todo' = todo + 1
              /\ UNCHANGED <<exit, probed>>

Visit == /\ todo \in Chunk
         /\ IF Unpatched(todo)
            THEN PatchChunk(todo)
            ELSE UNCHANGED <<text, tally>>
         /\ todo' = todo + 1
         /\ UNCHANGED <<exit, probed>>

\* Mutant: a run that did either of the two edits succeeds.
ExitStatusEither == IF tally.sites \/ tally.longjmp THEN "ok" ELSE "failed"

ExitStatus == IF tally.sites /\ tally.longjmp THEN "ok" ELSE "failed"

EndPatch == /\ todo > NChunk
            /\ todo' = 0
            /\ exit' = ExitStatus
            /\ UNCHANGED <<text, tally, probed>>

\* The run is interrupted, or cannot write a chunk.
AbortPatch == /\ todo # 0
              /\ todo' = 0
              /\ UNCHANGED <<text, tally, exit, probed>>

----------------------------------------------------------------------------
(* instrument_alloc.py <f>                                                 *)

Wrap(f) ==
    /\ def' = [def EXCEPT ![f] = "orig"]
    /\ wraps' = [wraps EXCEPT ![f] = Append(@, "alloc")]
    /\ probed' = IF ChunkOf[f] \in marked THEN probed ELSE probed \cup {f}
    /\ UNCHANGED <<sites, counters, marked>>

\* Mutant: wraps whatever carries the name.
InstrumentAlways(f) == /\ todo = 0
                       /\ Wrap(f)
                       /\ UNCHANGED <<todo, tally, exit>>

\* With gt5p_orig_<name> in the text it reports "already instrumented".
Instrument(f) == /\ todo = 0
                 /\ IF def[f] = "orig"
                    THEN UNCHANGED <<text, probed>>
                    ELSE Wrap(f)
                 /\ UNCHANGED <<todo, tally, exit>>

----------------------------------------------------------------------------
(* bbcount.py <f>: finds the lifted body under either name.                *)

\* It looks for counters in the 200,000 characters from f's definition on.
Count(f) == /\ todo = 0
            /\ IF \E g \in Window[f] : counters[g] > 0
               THEN UNCHANGED counters
               ELSE counters' = [counters EXCEPT ![f] = @ + 1]
            /\ UNCHANGED <<def, wraps, sites, marked>>
            /\ UNCHANGED <<todo, tally, exit, probed>>

Next == \/ Relift
        \/ StartPatch \/ Visit \/ EndPatch \/ AbortPatch
        \/ \E f \in Func : Instrument(f) \/ Count(f)

Spec == Init /\ [][Next]_vars

----------------------------------------------------------------------------
\* The shape of the text and of the scripts' own state.
TypeOK == /\ def \in [Func -> {"plain", "orig"}]
          /\ wraps \in [Func -> Seq({"guard", "alloc", "longjmp"})]
          /\ sites \in [Func -> Nat]
          /\ counters \in [Func -> Nat]
          /\ marked \subseteq Chunk
          /\ todo \in 0..NChunk+1
          /\ tally \in [sites : BOOLEAN, longjmp : BOOLEAN]
          /\ exit \in {"none", "ok", "failed"}
          /\ probed \subseteq Func

\* However the scripts are ordered, repeated and interrupted, no call site is
\* wrapped twice (a second host setjmp there would push a second entry, for the one
\* buffer the guest arms) and no label counts twice.
EditsOnce == \A f \in Func : sites[f] <= 1 /\ counters[f] <= 1

\* No two scripts take the same name: the lifted body and at most one wrapper,
\* so the chunk links and the wrapper calls the body and not itself.
OneWrapper == \A f \in Func :
                 /\ Len(wraps[f]) <= 1
                 /\ (def[f] = "orig") <=> (Len(wraps[f]) = 1)

\* An arming function that no probe got to first is guarded as soon as its call
\* sites are rewritten, and stays guarded until the next lift.
GuardedUnlessProbed ==
    \A f \in Func : sites[f] > 0 /\ f \notin probed => wraps[f] = <<"guard">>

\* Exit status 0 is not given for half the work: every call site is wrapped and
\* the longjmp rewritten, even when earlier runs were cut short.
SuccessMeansPatched ==
    exit = "ok" => /\ \A f \in Arming : sites[f] > 0
                   /\ wraps[LongJmp] = <<"longjmp">>

\* Why they hold.  A chunk's mark tells exactly whether its call sites have been
\* rewritten; a body keeps its own name exactly until something is appended; and a
\* run in progress has left nothing behind it unpatched.
MarkTells == \A f \in Func :
                sites[f] = IF f \in Arming /\ ChunkOf[f] \in marked THEN 1 ELSE 0
NameTells == \A f \in Func :
                IF def[f] = "plain" THEN wraps[f] = <<>>
                ELSE \E w \in {"guard", "alloc", "longjmp"} : wraps[f] = <<w>>
GuardTells == \A f \in Arming : f \notin probed =>
                wraps[f] = IF ChunkOf[f] \in marked THEN <<"guard">> ELSE <<>>
RunTells == /\ todo # 0 => \A f \in Arming :
                              ChunkOf[f] < todo => ChunkOf[f] \in marked
            /\ todo # 0 /\ tally.longjmp => wraps[LongJmp] = <<"longjmp">>
            /\ exit = "ok" => /\ \A f \in Arming : ChunkOf[f] \in marked
                              /\ wraps[LongJmp] = <<"longjmp">>
IInv == /\ TypeOK
        /\ MarkTells
        /\ NameTells
        /\ GuardTells
        /\ RunTells
        /\ EditsOnce

\* "Restore the buffer stack depth when a setjmp-calling function returns.
\* Without this a buffer stays armed after its frame is gone" (guard_callers):
\* every function with a rewritten call site has its guard.
ArmersGuarded ==
    \A f \in Func : sites[f] > 0 => \E i \in DOMAIN wraps[f] : wraps[f][i] = "guard"
=============================================================================
