# Gran Turismo 5 Prologue, recompiled: the verification project

TLA+ models of the port's own code (`src/src/*.cpp`, `src/src/elf_loader.h`,
`src/scripts/*.py`), checked with TLC and, where marked, proved with TLAPS. Paths
below are written the way `PROJECT.json` writes them, from the directory that holds
both `src/` and `tla/`.

The program is a static recompilation of a PS3 title. Most of what runs is lifted
guest code and the ps3recomp runtime, both outside this repository; the
repository holds the glue: start-up, demand paging, the display ticker, a host
half for the guest's setjmp/longjmp, probes, and scripts that edit the lifted
sources before they are compiled. The glue is small, but it is where host and
guest control flow, host threads and guest memory meet.

## Inventory

### Components, their state and operations

| component | state | operations | must be right about |
|---|---|---|---|
| host jump stack, `gt5p_longjmp.cpp` and the code `setjmp_patch.py` installs | per thread: `g_jmp[16]` (host `jmp_buf`, key), `g_depth`; the wrappers' `_d` on the host stack; the guest's own buffers in guest memory | push, unwind, fire; the patched call site; the wrapper of an arming function; the patched longjmp | a longjmp arrives at the setjmp that armed its buffer, with its registers, and never in a frame that is gone |
| present thread, `gt5p_present.cpp` | `next_tick`, `now`, `fired`, `rsx_ok`; cellGcm's flip and pending flag; the FIFO | sleep, tick, present, drain, resync, outer cadence, pump | flips complete, pending flips are shown, the FIFO drains, late wake-ups leave no backlog |
| instrumentation, `setjmp_patch.py`, `instrument_alloc.py`, `bbcount.py` | the text of `generated/` | patch a chunk, wrap a function, count its blocks; re-lift | idempotent, in any order, after an interruption; success means done |
| start-up and shutdown, `main.cpp`, `elf_loader.h` | guest memory; the ELF being loaded; `g_main_ctx` | vm_init, fixed commits, load, register, look up, stack, argv, enter, shut down | the guest starts on its image, its stack and its arguments; error paths give memory back |
| commit on first touch, `fault_commit` | the commit state of every guest page | a vectored handler on any thread | an untouched page becomes usable and a touched one keeps its data |
| SPU workload registry, `gen/spu_workloads.c` | the runtime's fingerprint table | register all | called after the image is in memory |
| dispatch, `dispatch_lookup`, `enclosing_func` | the lifted function table (constant) | two binary searches | agree with a linear scan |
| probes, `gt5p_allocwatch.cpp` | overlap table, call numbers, canary, bracket state, window flags | pre and note hooks of every wrapped call, on any guest thread | what a report says happened did happen |
| block counters and free-list walker, `gt5p_bbcount.cpp` | counters, owner table | hit, record, owner, walk | as above |
| main-thread sampler and guard arming, `main.cpp` | the suspended main thread; a guarded page | suspend, unwind, resume; poll and arm | never leaves main suspended or waits for what it holds |
| jump tables, SELF decryption, audits, stub generation, inspection tools | files | one pass each | pure |

### How they interact

- `setjmp_patch.py` decides which lifted functions have a wrapper; `HostJmp`'s
  call site is guarded by exactly that ("`saved # Unwrapped`"). `GenPatch` says
  when the assumption is met (`GuardedUnlessProbed`) and when it is not
  (`ArmersGuarded`, violated).
- `instrument_alloc.py` competes with `setjmp_patch.py` for the name
  `gt5p_orig_<f>`; its wrappers call the probes.
- `main()` starts the present thread before it enters the guest and does not stop
  it; `vm_shutdown` runs with it and with the guest's workers still going.
- `fault_commit` stands behind every store of every thread, `main()`'s own
  included: this is why `main()` may ignore what `vm_commit` returns.
- A guest longjmp leaves wrapped calls without running their return hook: `Probes`
  takes that from `HostJmp` as `JumpOver`, and the properties of the windows and of
  the drain trace have to allow for it.
- The canary and the overlap table, and the owner table and the free-list report,
  are filled on the guest's threads by one hook, `gt5p_alloc_note`.
- The sampler reads the function table main() looked the entry up in, reads guest
  memory through the same fault handler, and prints through the same stream.
- The present thread and the guest meet in cellGcm: the guest queues a flip and
  polls, the thread clears it.

### Behaviours that are hard

Interleavings of guest threads in the fault handler and in the hooks of wrapped
calls, and of the guest with every step of the present loop; a main thread that is
stopped anywhere, with a lock; counters, tables and flags that threads share without
a lock; calls that nest and are left without their return hook; non-local exits
across wrapped frames; a table of 16 entries at its limit; timers that wake late;
scripts that are re-run, reordered and interrupted; commits and copies that fail
without anybody looking. `PROJECT.json`
lists each at its line under `hazards`, with the property that covers it or the
reason none does.

## Modules

| module | what it is |
|---|---|
| `GuestJump` | abstract: what the guest is promised of setjmp and longjmp |
| `HostJmp` | the host half of setjmp/longjmp; `Contract == INSTANCE GuestJump` maps it to the promise |
| `HostJmpProofs` | its theorems |
| `Present` | the present thread, its guest and its window |
| `PresentProofs` | its theorems |
| `GenPatch` | the three scripts that edit `generated/` |
| `GenPatchProofs` | its theorems |
| `Dispatch` | the two binary searches of the function table |
| `DispatchProofs` | its theorems |
| `FlatMemory` | abstract: guest memory as its threads are to see it, without commits and faults |
| `Boot` | start-up, demand paging, guest threads, the sampler, shutdown; extends `Dispatch`; `Flat == INSTANCE FlatMemory` |
| `BootProofs` | its theorems; extends `DispatchProofs` |
| `OverlapTable` | abstract: the overlap table, one call after the other |
| `AllocWatch` | the note hook's three tables: owners, canary, overlaps; `Atomic == INSTANCE OverlapTable` |
| `AllocWatchProofs` | its theorems |
| `ProbeRows` | the counted lines of the hooks, one row each |
| `FreeList` | the free-list validator, and what it should answer |
| `FreeListProofs` | its theorems |
| `Probes` | guest threads calling wrapped functions; composes `AllocWatch`, `ProbeRows` and `FreeList` |
| `ProbesProofs` | its theorems; extends `AllocWatchProofs` and `FreeListProofs` |
| `MCHostJmp`, `MCPresent`, `MCGenPatch`, `MCBoot`, `MCProbes` | small instances for TLC |

Definitions called "Mutant" in a comment are wrong on purpose. Each replaces the
definition after it to show that a property would notice that mistake; nothing
else uses them.

### HostJmp

A frame is a height on its thread's host stack, a context is (thread, frame, call
site). `host[t][i]` is `g_jmp[i].host`, `key[t][i]` its `buf_ea`, `depth[t]` is
`g_depth`, `saved[t][p]` the wrapper's `_d` in frame `p`. `guest[k]` is what the
guest's own setjmp stored in buffer `k`; the patched longjmp restores registers from
there and control from `host`, and the model keeps the two apart so that "arrived
in the right place with the wrong registers" (`crossed`) is a state it could reach.
When a frame is given up, by return or by a jump over it, `Truncate` makes every
record of it `NoCtx`: C makes the `jmp_buf` indeterminate there. Firing such an
entry is the outcome `wild`, after which the thread is not followed any more.

`Call`, `Return`, `SetJmp`, `LongJmpLand` and `LongJmpMiss` are whole operations:
`g_jmp` and `g_depth` are `thread_local`, so nothing another thread does falls
between their statements. `spilled` remembers that the code printed "depth
overflow", `spent` that a buffer's frame has been landed in since it was armed; they
are history, read by properties only.

`GuestJump` knows no stack of buffers: a buffer holds a context or none, a
longjmp through a usable one lands in it, through any other it is undefined, but
control stays in a frame that exists. `through` is the buffer of a thread's last
longjmp; it is in both modules so that a step of one is a jump through the same
buffer in the other. A thread that printed "depth overflow" is `void`: the promise
about its own jumps ends there, that to the other threads does not. The
refinement mapping gives it every buffer that is not spent.

### Present

Time is kept relative to `next_tick` (`due` is the clock, `seen` the sampled
`now`), so the state stays bounded although the program runs for ever. `Wake` is the
sleep and the sample, `Tick`, `Show` and `Drain` the body of the inner loop,
`EndTicks` its end with the resync, `OuterShow`, `OuterDrain`, `Pump` and
`OuterSkip` the rest. The guest may queue a flip or a command, and the user may
close the window, between any two of them. `BacklogCleared` bounds how far the frames
lag behind the clock after a resync, `NeverAhead` how far they run before it: not at
all beyond the next period.

### GenPatch

Of a chunk's text the model keeps what the scripts look for: the name a body is
defined under, the wrappers appended, how often call sites were rewritten and
labels counted, and whether the text mentions `setjmp_patch.py`. `Visit` is one
chunk, written at once, and `AbortPatch` ends a run before the next one. The regular
expressions are taken to find what they are written to find. `Window` is the
200,000 characters `bbcount.py` searches.

### Boot

Pages of 64 KB, the unit `fault_commit` commits; `mem[p]` is what page `p` holds.
Each step of `main()` is an action, in the order of the code; `main()`'s stores and reads go
through `MainStores` and `MainReads`, which need every page committed or the handler to commit
it, and end in a crash where neither is so: the entry descriptor (`EndLoad`) and the policy
module (`RegisterSpu`) are read from pages that a short file or a failed commit may have left
untouched. An entry point outside the data segment is the function itself (`direct`). A
segment names the first page that BSS is cleared in (`zero`), which may be the last page of
file data. `dispatch_lookup` runs turn by turn (`LookUpOn`, `LookUpHit`, `LookUpFail`) on the
`Table` of `Dispatch`. Afterwards the guest's threads load and store (`BeginAccess`,
`Access`), fault, and are served or not (`FaultCommit`, `FaultKills`); a served thread
may print, holding `console`, the lock of stderr, for two steps. `BeginAccess` lets a
thread store anywhere but into the image it was loaded from; the argument block is written,
because the guest's start-up code compacts it in place (comment in `setup_argv`).
`vm_init`, `vm_commit`, `vm_shutdown` and `VirtualAlloc` are external and fail
where they can.

The sampler (`GT5P_MAINSTACK`) is a thread of its own: `Suspend` stops the main
thread wherever it is, be it inside `fprintf`, `Resume` lets it go, `PrintBegin` and
`PrintEnd` need `console`, `Look` reads guest memory and may fault like any thread, and
`Scan`, `NameOn`, `Named` run `enclosing_func` on a word of the stack. A suspended main
thread takes no step (`Free`).

`FlatMemory` has no pages to commit: every cell holds zeros until something is stored,
and an access is one step. The mapping shows it an absent page as zeros (`Cell`) and the
points of `main()` as setting up, guest running, over (`Phase`).
Commits, faults, searches and the sampler's own steps are stutters there; what is left is
that an access has the same effect whoever else faults on its page meanwhile. A handler
that cleared a page another thread had just had committed would break it.

`WellFormedElf` says what the source takes for granted of the title's executable: what the
loader puts where, that main()'s own ranges lie apart from it as far as they do, and that no
function lies at address 0.

### Dispatch

A search is a record of its bounds. `Half` is a turn of `dispatch_lookup`, `Nearer` one
of `enclosing_func`; `IsEnclosing` says what the second should find. `Boot` and the
proofs use the same two operators.

### AllocWatch

`gt5p_alloc_note` from the game allocator's block to the end, cut where another thread can
come between: the owner table's test, address, size and count; the canary's read and its
judgement; number, compare, append, the last three under `lock`. The source names `g_alloc_n`
four times while an entry is filled; `RecordFetch` reads it for the test, and `Reload` reads it
anew before any of the other three, or not, as the build likes. So two threads may fill one
entry, or store past the table (`overrun`). Sizes and ends are kept modulo `Top`, 2^32. `alone`
and `solid` (who fills an entry with nobody else at it, and which entries were filled so),
`overrun` and `turned` are history.

`OwnersWhole` is what a table without a lock is still good for: an entry filled while nobody
else was filling one lies within the table, and stays counted and whole, however many threads
race for entries after it, until one of them has stored past the table, where nobody knows what
it hit. Of the count itself, and of entries that raced, nothing is claimed, because
nothing holds.

In `OverlapTable` a call is numbered, compared and kept at once. The mapping counts a
call when it gives the lock back (`Done`), and hides the pairs of the call that still
has it.

### ProbeRows, FreeList, Probes

Most of the hooks' code is branches of one kind: if this function, and this
condition, and `n++ < limit`, print. `ProbeRows` has a row for each: where, which
functions, which further condition, which limit. `Probes` interprets them: `Fetch` and
`Bump` are the two halves of an unsynchronised increment. Conditions on arguments
and guest memory ("data") may go either way. Three branches look at what they have only when
the counter has moved (`blank`: an empty string, no device): their turn may be spent with
nothing printed (`blanks`, `Spent`).

`Enter` is the wrapper up to the call with `gt5p_alloc_pre`: the windows it opens
(`open`), the handler object it notes (`"expand"`), the entry it prints in the drain trace (`unmatched`), the lines it may
come to (`todo`). `Leave` is the wrapper after the call with `gt5p_alloc_note`, which
goes on with the counted lines and then, as `NoteStep`, with `AllocWatch`. `HitBody` is
a counter inside the function's body, `JumpOver` a guest longjmp. The order of a hook's lines is left open, as
no two share anything.

The bracket is a walk of the free list on entry and another on return, and either reads guest
memory a word at a time while other threads store to it (`Smash`). `BracketOpens` begins the
first, `ReadOn` is one read of either, `Bracket` sets `g_fl_before`; `LookBack` begins the
second, and `Leave` compares. `torn` notes that a store fell into a walk and `mixed` that
another bracketed call has set `g_fl_before` since; both are history. `BracketRight` is about
calls of which neither is true: nothing in the code makes a torn count mean anything.

`FreeList` has the validator twice: read by read (`NewWalk`, `Read`), as `Probes` runs it on a
heap that changes, and whole (`FreelistBad`), which is what the reads come to on a heap that
does not. Both follow a chain up to `HopMax` hops; `ChainsBroken` is
what they should answer, without hops: the chains that lead to a bad node. They agree
if the heap is `WithinReach`, of fewer nodes than hops. The code's limit is 4096; a bad
node further down a chain than that is not seen.

`Builds` is what was wrapped, watched and switched on, one initial state each; a
function with a line of its own that shares nothing with others is wrapped alone.

## Runs

| run | instance | result |
|---|---|---|
| `jmp_nest` | 1 thread, 3 frames, 2 entries that may overflow, addresses 16, 24, 32 (24 and 32 are one buffer), 2 call sites | 173,387 states; entries nest with the frames, live buffers are armed, the first longjmp arrives, no jump into a dead frame before an overflow, `GuestJump` is implemented |
| `jmp_refire` | 1 thread, 2 frames, 2 entries | violated: a second longjmp through a live buffer is lost |
| `jmp_overflow` | 1 thread, the source's 16 entries, 17 in use | violated: the last entry's key outlives its frame |
| `present` | period 4, cap 3, wake-ups from 1 to 13, presents up to 5, FIFO of 2 | 15,618 states; no backlog, flips complete and are presented, the FIFO drains |
| `genpatch` | 2 chunks, 2 arming functions, longjmp, 1 other | 7,808 states; once each, one wrapper per name, guarded unless probed, success is whole |
| `genpatch_probe_first` | the same | violated: a probed arming function gets no guard |
| `boot` | 8 pages of the title's map, main, a worker and the sampler, 4 lifted functions, an entry in the table and one that is not, by descriptor or direct, 2 reported commits | 124,218 states; what the guest starts on, demand paging implements `FlatMemory`, every access completes, both searches find |
| `boot_argv` | the same | violated: the argument block clears part of the image |
| `boot_stack` | the same | violated: local memory and the main stack are one range |
| `probes` | 2 threads, calls 2 deep, 3 calls or body lines (2 where the free list changes), limits scaled to at most 2, tables of 2 entries each, 2 chains of at most 1 node, 2 hops | 497,971 states; overlaps exact, entries recorded alone whole, lines held back only when spent, the dump is taken, unmatched entries and windows mean what they say, brackets right when nothing disturbs them, every walk gets on, the lock given back |
| `probes_bracket` | the same, 1 thread | violated: a nested bracketed call hides what the outer one did |
| `probes_canary` | the same, 2 threads | violated: a change is reported that never happened |

Why the bounds are enough:

- *jump stack.* Three frames give an arming frame, one it calls and one that jumps
  over both; two entries are enough to arm one buffer twice, two buffers in either
  order, and to overflow; two buffers and two sites give every way to re-arm. Two call
  sites of one frame are what tells `crossed` from `landed`. `g_jmp` and `g_depth` are
  `thread_local`; all that threads share is the guest's buffers, in guest memory, and
  what one does to another's is left to the theorems, which hold for any number. `MaxHeight` bounds the
  environment in the run and is arbitrary in the proofs.
- *present.* What matters is the order of period, cap and delay: on time, late
  by part of a period, by some periods, by more than cap times period. Scaled
  values give all four, an exact cap, and a present that overruns a period. `MaxLag` stops the clock from running away within one
  iteration, as a finite delay does.
- *genpatch.* Two chunks for "interrupted between", two arming functions in two
  chunks, one of which shares its chunk with the longjmp, and a function only the
  probes touch. `NChunk` and `Func` are unbounded in the proofs.
- *boot.* One page of each kind the code tells apart: a covered and the last page
  of the R-X image, entry descriptor, last file page and zero tail of the RW segment,
  GCM page, main stack (in local memory), and a page nobody commits. Two threads
  touch the last two (`Touched`), which is what it takes to meet in the handler;
  the entry is lifted or not by its descriptor, and not lifted by itself; a direct entry that
  is lifted goes on as the first does, and is in the theorems;
  four functions take both searches through every turn; two reports (`SayMax`) leave
  a third commit unreported.
- *probes.* Two threads are what every race here needs. Two nested calls give each
  pair of functions that share a window, the bracket or the drain trace in both
  orders; three calls let a call come after two that overlap, so that an owner entry
  filled alone is followed by two that race, and a table of two is full. A limit of
  two is spent by two increments, of which one can be lost; limits of 1 are as in the
  source. Blocks lie inside, overlap, touch and reach past the top. The three heaps are
  empty, a circle, which two hops do not exhaust, and two chains that lead to one node with
  a bad successor; any becomes any other between two reads. Calls and depth are part of a
  build (`Builds`), so that what needs no third call does not pay for one. Every bound is a
  constant, arbitrary in the proofs.

`CHECK_DEADLOCK FALSE` is used where the system may stop: a bounded clock or a run
without a present thread (`Present`), a process that has ended (`Boot`), a thread
after a wild jump (`jmp_nest`, `jmp_overflow`), the end of the bounded calls (`Probes`). Everywhere else TLC checks deadlock.

## Fairness

- `Present`: weak fairness of the present thread as a whole. It is a host thread
  in a loop without blocking but its sleep; the guest and the user promise nothing.
  `FlipCompletes` needs no window; `FifoDrains` and `FlipPresented` stop at `rsx_ok`
  because the code does.
- `Boot`: strong fairness of each guest thread's step and weak fairness of the sampler.
  All are host threads. Strong, because the sampler stops the main thread and takes
  the console again and again: each time it lets go for at least a second
  (`Sleep`), which is when the scheduler runs a ready thread. If the sampler
  printed before it let main go, the two would wait for each other, fair or not;
  that is the mutant of `AccessCompletes`.
- `Probes`: weak fairness of each thread's steps in the note hook, for
  `LockReleased`; the thread holding `g_lock` never waits.
- `HostJmp` and `GenPatch` claim no liveness.

## Proofs

All are for every value of the constants under the named assumptions of the
modules (sizes are naturals, 32-bit addresses, `NoCtx` is no context; periods are
positive; every function is defined in one chunk; the function table ascends; a
counted line has a limit of at least 1 and a tag of its own; a heap is a finite set of
nodes with a head per chain). Three theorems need more, and state it as their
hypothesis, because the code works, differently, without it:

| hypothesis | of | why it is fair |
|---|---|---|
| `WellFormedElf` | `GuestStartsReady`, `OnlyArgvHurtsImage` | true of the title's executable; TLC evaluates it on `MCBoot`'s map |
| `WithinReach` | `WalkReportsAllBroken`, `BracketHonest` | fewer nodes than hops; TLC evaluates it on `MCProbes`' heaps |
| `OneJudges` | `CanaryExact`, `CanaryHonest` | no two threads between the canary's read and its judgement at once: the race that `probes_canary` shows is the only thing excluded. `CanaryExactAlone` replaces it by "one thread" |

`OnlyArgvHurtsImage` assumes further that the argument block lies outside the image,
which `boot_argv` shows it does not: the theorem says that nothing else is wrong there.

`PROJECT.json` lists the theorems under `theorems`.

- *`HostJmpProofs`.* `NeverWild` is not inductive: a jump lands in a live frame
  because the entry found belongs to a live frame, which holds because a wrapper cuts
  the stack exactly where its frame's entries begin. `IInv` therefore adds
  `EntriesNest` (entries in use name live wrapped frames, in stack order),
  `WrapperSplitsEntries` (a saved depth separates entries of lower frames from the
  rest) and `LiveBufferArmed`. From it: `TypeCorrect`, `NoJumpIntoDeadFrame`,
  `LiveBuffersStayArmed`, `EntriesStayNested`, `WrapperSplits`, `FirstLongjmpArrives`, and
  `HostImplementsContract` (initial states map to initial states and each action to
  one of `GuestJump`'s or a stutter), which needs no bound on the buffers armed.
- *`PresentProofs`.* `BacklogCleared` follows from `ClockInv`: the clock never runs
  behind its sample, and a tick is fired only when due, so the sample is never more
  than a period short of `next_tick`. The cap's case is the resync. `TicksOnTime`
  (`NeverAhead`) is the same invariant read from the other side.
- *`GenPatchProofs`.* `IInv` says what the text tells: the chunk's mark says whether
  its call sites were rewritten (`MarkTells`), a plain name that nothing was appended
  (`NameTells`), an unprobed arming function's wrappers are told by its chunk's mark
  (`GuardTells`), and a run in progress has left nothing unpatched behind it, whether
  it or an earlier run did it (`RunTells`). From it: `TypeCorrect`,
  `EditsHappenOnce`, `ArmersAreGuarded`, `SuccessIsWhole`, and `NamesUnique`: a body
  renamed by one script is no longer found by the other.
- *`DispatchProofs`.* Each search keeps what it looks for between its bounds
  (`Narrowed`, `Approached`), and each turn narrows them; `LookupDecides` and
  `EnclosingDecides` are what that means when a search ends. `TurnsHalve` is why it
  does end, and in a logarithm of the table: a turn leaves at most half.
- *`BootProofs`.* `IInv` adds to the type that memory is given back before main()
  ends (`GivesBack`), that nothing but fresh pages exists before the guest runs
  (`Quiet`), what a thread may be about to store (`Wants`), and the searches'
  invariants (`Finding`). From it: `TypeCorrect`, `EndsClean`, `SearchesDecide`,
  `NothingStoredIsLost`.
  `GuestStartsReady` needs what memory holds of the file at each step of `main()`
  (`Loading`): the segments loaded so far while it loads, then the whole image, which
  the stack and the argument block may cover only where `WellFormedElf` allows.
  `PagingIsUnseen` is the refinement of `FlatMemory`: given `PagingInv` (no memory
  before `vm_init` and after `vm_shutdown`, the sampler touches a page only while it
  scans the stack, every access begun is a read or one of the guest's stores), every
  step of `main()`, a guest thread, the handler or the sampler maps to a step there or
  to a stutter.
- *`AllocWatchProofs`.* Mutual exclusion from `g_lock` (the thread in compare or append
  is its holder), numbers that grow with the table, and a comparison done against the
  whole table before the append give `OverlapsFound`; `TablesFit` is the type, with the
  overlap table within its array. `OwnersRecorded` needs `OwnerInv`: no thread that fills an
  entry, and no value of the count, is below an entry that was recorded alone (`FloorInv`; a
  count read late is one somebody stored, and each was past that entry), so nobody stores to it
  again (`SolidInv`), and a thread filling alone has the count still before it (`AloneInv`).
  `NotesAreAtomic` is the refinement of
  `OverlapTable`: with `CallInv` (what the holder reported so far names itself and a
  block of the table) the step that keeps the block and gives the lock back is the one
  a call takes there. `CanaryExact` rests on `CanaryInv`: what a thread
  read of the word and has not judged yet was true when it read it, and who reads it
  wrong after it was seen right does so because it was overwritten.
- *`FreeListProofs`.* The walk of up to `HopMax` hops against the closure over `next`.
  `WalkReportsOnlyBroken`: what the walk visits, the chain leads to, so a report is
  never false, for every heap. `WalkReportsAllBroken`: fewer nodes than hops means that
  a walk without a bad node has come to 0 or met a node twice (a pigeonhole over the
  hops), so what it visited is closed under `next` and no bad node lies beyond. Facts
  about every hop are proved from the least hop they fail at (`NatLeast`,
  `SetInduction`), as the library's induction theorems cannot be used here.
- *`ProbesProofs`.* `HooksDriveNote`: `Probes` implements `AllocWatch`, so those
  theorems carry over (`HooksTypeCorrect`, `ReportsExact`, `OwnerTableWhole`,
  `CallsAreAtomic`, `CanaryHonest`).
  `CountersHonest` and `DumpHappens` rest on one invariant: what a counter holds, or a
  thread has read of it, never exceeds the turns spent, on lines or on blanks, until the limit
  has been spent. `WindowsHonest` and `TraceNamesStuck` count the active calls of a function
  over all stacks, with the cardinality theorems of the library. `BracketHonest` joins
  `WalkInv` (a walk no store fell into is in step with the list: it is where the whole walk of
  that heap would be after as many reads), `WalkReportsAllBroken` (what it has counted at its
  end is right) and `BeforeInv` (`g_fl_before` is what the last undisturbed call that set it
  found). `WalkGetsOn` is about every walk, torn ones too: a read moves on to the next
  node, word or bucket, and the type bounds all three, so a walk ends.

`NotesAtomic`, `NeverAhead` and `StoresSurvive` are stated by theorems and are the property
of no run: `FoundExactly`, `BacklogCleared` and `MemoryIsFlat` are the run's questions of
the same code.

Only model-checked: the liveness properties `FlipCompletes`, `FifoDrains`,
`FlipPresented`, `AccessCompletes` and `LockReleased`, which are out of the prover's
reach, as is anything about `ENABLED`.

## Where the code and its text disagree

Seven runs end in a counterexample; `PROJECT.json` quotes the lines under `findings`.
In short: a buffer can be fired once per arming, though the comments say as long as its
frame is there; the 17th buffer in flight leaves a dead frame in the 16th's entry; probing
an arming function before patching it costs it its guard; the argument block is cleared
inside the R-X image; the main stack is inside RSX local memory; a bracketed call inside
another hides what the outer one did to the free list; the canary can report a change of
a word that was only ever set.

For three of them a theorem says how far the trouble goes: with the argument block elsewhere
the image is intact (`OnlyArgvHurtsImage`), brackets that nothing disturbs are
right (`BracketHonest`), and the canary is exact as long as two threads do not judge it at once
(`CanaryExact`).

## Not modelled, and why

- Of the probes: lines printed at every call, which keep no state; the tables that
  count per device or request (`[drain]`, `[run]`, `[step]`), `gt5p_bb_regs` and
  `gt5p_exit`, which are read by nobody but their own line; the switches that change the
  guest's own computation (`GT5P_ARENA_OUTZERO`, `GT5P_ARENA_ZERO`, `GT5P_HEAPPAD`), whose
  effect is in lifted code; `gt5p_alloc_owner`, which scans the owner table for one
  line.
- Page protection: `ppu_guard_page` and its handler are the runtime's. So `guard_arm`,
  which polls a word and calls it, is left out, and so is what `fault_commit` does to
  a guarded page.
- `jumptables.py` is a pure scan of a table (see Plan). SELF decryption is
  arithmetic on bytes; the audits, stub generation and inspection tools read files and
  print, in one pass and without state a second run could meet; `ppu_hle_nids.cpp` is a
  generated list of registrations; build files and the two portability headers hold
  no logic; `dump_threads` prints.
- Registrations of start-up that only fill the runtime's tables.
- The present thread is not composed with `Boot`: they share only the guest memory the
  FIFO lies in. `Probes` is not composed with `HostJmp`: a longjmp is any number of
  `JumpOver` steps there, of which `HostJmp`'s landings are some.

## Plan

1. Done: `HostJmp`, `Present`, `GenPatch`, `Boot` with the sampler, `Dispatch`, `Probes`
   with `AllocWatch`, `ProbeRows` and `FreeList`, the abstract `GuestJump`, `FlatMemory` and
   `OverlapTable`, and the proofs above.
2. `JumpTables`: the scan of `jumptables.py` over bounded images, against the table it
   should find.
3. Page protection in `Boot`, when the runtime's guard handler is at hand: `guard_arm`
   against `fault_commit`, and the canary's guard.
