-------------------------------- MODULE Boot ---------------------------------
(***************************************************************************)
(* From main() to the guest's first instruction, and what the guest's      *)
(* threads then find in memory: the steps of main() (src/main.cpp), the    *)
(* ELF loader (src/elf_loader.h), the vectored handler that commits a      *)
(* guest page on first touch, and the sampler that stops the main thread   *)
(* now and then to say where it is.                                        *)
(*                                                                         *)
(* Guest memory is followed page by page, 64 KB each (what fault_commit    *)
(* commits), and of a page only what was stored there last.  vm_init,      *)
(* vm_commit, vm_shutdown and VirtualAlloc (external) may fail where the   *)
(* code looks at their result, and where it does not.                      *)
(***************************************************************************)
EXTENDS Dispatch

CONSTANTS Page,      \* the pages followed, by number
          Touched,   \* bound: the pages the threads touch once the guest runs
          Segment,   \* the ELF's program headers, in file order, by page: file the last
                     \* that holds file data, zero the first cleared for BSS, last + 1
                     \* if none is
          EntryPage, \* the page of the entry descriptor
          PmPage,    \* the page of the Wws_Job policy module
          Main,      \* the thread main() runs the guest on
          Worker,    \* the guest's other threads
          Sampler,   \* the thread of GT5P_MAINSTACK
          NoPage,    \* a thread that is not touching guest memory
          Nobody,    \* the holder of stderr's lock when it is free
          SayMax,    \* how many commits fault_commit reports, 24 in the source
          EntryPoint, \* what e_entry of an ELF may come to: addr, the function it names, by a
               \* descriptor in the data segment or (direct) by itself
          Word       \* the words the sampler may find on the stack

Thread == Worker \cup {Main}
Host == Thread \cup {Sampler}

\* The areas main() lays out, in pages.
NullPages     == 0..0            \* vm_commit(0, 0x10000)
GcmCtrlPages  == 768..768        \* GT5P_GCM_CTRL_BASE, GT5P_GCM_CTRL_SIZE
LocalMemPages == 49152..53247    \* GT5P_LOCAL_MEM_BASE, GT5P_LOCAL_MEM_SIZE
ArgvPages     == 240..240        \* GT5P_ARGV_BASE, 0x10000
StackPages    == 53216..53231    \* GT5P_MAIN_STACK_BASE, GT5P_MAIN_STACK_SIZE

FixedAreas == {NullPages, GcmCtrlPages, LocalMemPages}

Content == {"absent",  \* not committed
            "zero", "image", "argv",
            "frame",   \* a frame of the main thread
            "pixels",  \* what the title keeps in RSX local memory
            "data"}    \* anything else a guest thread stored

ASSUME LayoutAssumption ==
    /\ Page \subseteq Nat /\ Touched \subseteq Page
    /\ Segment \in Seq([load : BOOLEAN, first : Nat, file : Nat, zero : Nat, last : Nat])
    /\ \A i \in DOMAIN Segment : Segment[i].zero \in {Segment[i].file, Segment[i].file + 1}
    /\ EntryPage \in Page /\ PmPage \in Page
    /\ Main \notin Worker /\ Sampler \notin Thread /\ Nobody \notin Host
    /\ NoPage \notin Page
    /\ SayMax \in Nat
    /\ EntryPoint \subseteq [addr : Nat, direct : BOOLEAN] /\ Word \subseteq Nat

VARIABLES
    pc,       \* the step main() takes next
    seg,      \* the program header it loads next
    mem,      \* mem[p]: what page p holds
    up,       \* vm_init has succeeded and vm_shutdown has not run
    file,     \* the ELF: "missing", "garbled", "short" or "whole"
    entry,    \* its entry point
    find,     \* the search of function_table under way, for 0 when there is none
    handler,  \* fault_commit is installed
    spu,      \* what the Wws_Job fingerprint was computed from
    want,     \* want[t]: the page thread t is touching, and what it stores
    trapped,  \* threads inside fault_commit, the page not committed yet
    saying,   \* threads inside fault_commit, with the commit to report
    said,     \* fault_commit's n, up to SayMax
    console,  \* the thread that holds stderr's lock
    smp       \* where the sampler is

bootvars == <<seg, file, entry, handler, spu>>
sayvars == <<saying, said, console>>
guestvars == <<want, trapped, sayvars, find, smp>>
vars == <<pc, mem, up, bootvars, guestvars>>

Idle == [page |-> NoPage, what |-> "absent"]

Init == /\ pc = "init" /\ seg = 1
        /\ mem = [p \in Page |-> "absent"]
        /\ up = FALSE
        /\ file \in {"missing", "garbled", "short", "whole"}
        /\ entry \in EntryPoint
        /\ find = Search(0)
        /\ handler \in BOOLEAN
        /\ spu = "absent"
        /\ want = [t \in Host |-> Idle]
        /\ trapped = {} /\ saying = {} /\ said = 0
        /\ console = Nobody
        /\ smp \in {"off", "sleep"}

----------------------------------------------------------------------------
(* main(), alone until it starts the guest.                                *)

\* m with the pages of S committed; a page already committed stays as it is.
Committed(m, S) ==
    [p \in Page |-> IF p \in S /\ m[p] = "absent" THEN "zero" ELSE m[p]]

\* main() stores c into S, memory being m: uncommitted pages are committed by
\* fault_commit, unless it is not installed or the host refuses.
MainStores(m, S, c, next) ==
    \/ /\ handler \/ \A p \in S \cap Page : m[p] # "absent"
       /\ mem' = [p \in Page |-> IF p \in S THEN c ELSE m[p]]
       /\ pc' = next
    \/ /\ \E p \in S \cap Page : m[p] = "absent"
       /\ mem' = m
       /\ pc' = "crashed"

\* main() reads page p, in the same way.
MainReads(p, next) ==
    \/ /\ handler \/ mem[p] # "absent"
       /\ mem' = Committed(mem, {p})
       /\ pc' = next
    \/ /\ mem[p] = "absent"
       /\ pc' = "crashed"
       /\ UNCHANGED mem

InitVm == /\ pc = "init"
          /\ \/ up' = TRUE /\ pc' = "commit"
             \/ up' = FALSE /\ pc' = "failed"
          /\ UNCHANGED <<mem, bootvars, guestvars>>

\* The results of these vm_commits are not looked at.
CommitFixed ==
    /\ pc = "commit"
    /\ \E done \in SUBSET FixedAreas :
          MainStores(Committed(mem, UNION done), GcmCtrlPages, "zero", "open")
    /\ UNCHANGED <<up, bootvars, guestvars>>

\* vm_shutdown gives all guest memory back.
Shutdown == up' = FALSE /\ mem' = [p \in Page |-> "absent"]

OpenElf == /\ pc = "open"
           /\ IF file \in {"missing", "garbled"}
              THEN pc' = "failed" /\ Shutdown
              ELSE pc' = "load" /\ UNCHANGED <<mem, up>>
           /\ UNCHANGED <<bootvars, guestvars>>

\* Mutant: a loader that clears from the start of the page where the file ends.
LoadedPageCleared(m, s, copied) ==
    [p \in Page |-> CASE p \in s.zero..s.last               -> "zero"
                      [] p \in s.first..s.file /\ copied    -> "image"
                      [] OTHER                              -> m[p]]

\* What segment s leaves in its pages: file data where the file reached that far,
\* zeros behind it.  File pages the copy skipped stay as they are, but for the tail of
\* the last, which BSS may begin in: cleared, and so committed.
Loaded(m, s, copied) ==
    [p \in Page |-> CASE p \in s.first..s.file /\ copied  -> "image"
                      [] p \in (s.file + 1)..s.last        -> "zero"
                      [] OTHER               -> Committed(m, s.zero..s.last)[p]]

\* One program header.  A failed vm_commit is not fatal; the stores that follow
\* it then fault.  The copy is skipped when the file ends before the segment.
LoadSegment ==
    /\ pc = "load" /\ seg <= Len(Segment) /\ Segment[seg].load
    /\ LET s == Segment[seg]
       IN  \E ok \in BOOLEAN, copied \in (IF file = "whole" THEN {TRUE} ELSE BOOLEAN) :
             LET m == Committed(mem, IF ok THEN s.first..s.last ELSE {})
                 stored == (IF copied THEN s.first..s.file ELSE {}) \cup s.zero..s.last
             IN  \/ /\ handler \/ \A p \in stored \cap Page : m[p] # "absent"
                    /\ mem' = Loaded(m, s, copied)
                    /\ seg' = seg + 1
                    /\ UNCHANGED pc
                 \/ /\ \E p \in stored \cap Page : m[p] = "absent"
                    /\ pc' = "crashed"
                    /\ mem' = m
                    /\ UNCHANGED seg
    /\ UNCHANGED <<up, file, entry, handler, spu, guestvars>>

\* Mutant: a header skipped twice, by the branch and by the loop.
SkipHeaderTwice == /\ pc = "load" /\ seg <= Len(Segment) /\ ~Segment[seg].load
                   /\ seg' = seg + 2
                   /\ UNCHANGED <<pc, mem, up, file, entry, handler, spu, guestvars>>

\* PT_TLS is noted and any other header skipped.
SkipHeader == /\ pc = "load" /\ seg <= Len(Segment) /\ ~Segment[seg].load
              /\ seg' = seg + 1
              /\ UNCHANGED <<pc, mem, up, file, entry, handler, spu, guestvars>>

\* An entry point in the data segment is a descriptor, read from guest memory: one that
\* was not copied in is zero, its page committed by the read if need be.  Any other is
\* the function itself.
EndLoad == /\ pc = "load" /\ seg > Len(Segment)
           /\ \/ /\ entry.direct
                 /\ find' = Search(entry.addr)
                 /\ pc' = "spu"
                 /\ UNCHANGED mem
              \/ /\ ~entry.direct
                 /\ find' = Search(IF mem[EntryPage] = "image" THEN entry.addr ELSE 0)
                 /\ MainReads(EntryPage, "spu")
           /\ UNCHANGED <<up, bootvars, want, trapped, sayvars, smp>>

\* gt5p_spu_register_all fingerprints the policy module where it should lie.
RegisterSpu == /\ pc = "spu"
               /\ MainReads(PmPage, "lookup")
               /\ spu' = mem'[PmPage]
               /\ UNCHANGED <<seg, up, file, entry, handler, guestvars>>

\* dispatch_lookup: a turn of its loop, a hit, or no such function.
LookUpOn == /\ pc = "lookup" /\ Open(find) /\ ~Hit(find)
            /\ find' = Half(find)
            /\ UNCHANGED <<pc, mem, up, bootvars, want, trapped, sayvars, smp>>

LookUpHit == /\ pc = "lookup" /\ Hit(find)
             /\ pc' = "stack"
             /\ find' = Search(0)
             /\ UNCHANGED <<mem, up, bootvars, want, trapped, sayvars, smp>>

\* Mutant: the error path forgets vm_shutdown.
LookUpFailLeaks == /\ pc = "lookup" /\ ~Open(find)
                   /\ pc' = "failed"
                   /\ UNCHANGED <<mem, up, bootvars, guestvars>>

LookUpFail == /\ pc = "lookup" /\ ~Open(find)
              /\ pc' = "failed"
              /\ Shutdown
              /\ UNCHANGED <<bootvars, guestvars>>

SetUpStack == /\ pc = "stack"
              /\ \E ok \in BOOLEAN :
                    MainStores(Committed(mem, IF ok THEN StackPages ELSE {}),
                               StackPages, "zero", "argv")
              /\ UNCHANGED <<up, bootvars, guestvars>>

\* setup_argv clears the whole block and writes the arguments into it.
SetUpArgv == /\ pc = "argv"
             /\ \E ok \in BOOLEAN :
                   MainStores(Committed(mem, IF ok THEN ArgvPages ELSE {}),
                              ArgvPages, "argv", "guest")
             /\ UNCHANGED <<up, bootvars, guestvars>>

----------------------------------------------------------------------------
(* The guest's threads, and the handler they share.                        *)

Stored(t, p) ==
    (IF t = Main /\ p \in StackPages THEN {"frame"} ELSE {})
        \cup (IF p \in LocalMemPages THEN {"pixels"} ELSE {})
        \cup (IF p \notin LocalMemPages THEN {"data"} ELSE {})

\* The guest does not store into its own image, but for the arguments, which its
\* startup code compacts in place.
Writable ==
    (Page \ UNION {Segment[i].first..Segment[i].file : i \in DOMAIN Segment})
        \cup (ArgvPages \cap Page)

Running == pc \in {"guest", "down"}

\* The sampler has the main thread stopped, wherever that is.
Free(t) == Running /\ ~(t = Main /\ smp = "walk")

BeginAccess(t, p) ==
    /\ Free(t)
    /\ pc = "guest" \/ t # Main
    /\ want[t] = Idle
    /\ \E w \in (IF p \in Writable THEN Stored(t, p) ELSE {}) \cup {"read"} :
          want' = [want EXCEPT ![t] = [page |-> p, what |-> w]]
    /\ UNCHANGED <<pc, mem, up, bootvars, trapped, sayvars, find, smp>>

Faulted(t) == t \in trapped \cup saying

Access(t) ==
    LET w == want[t]
    IN  /\ Free(t) /\ w # Idle /\ ~Faulted(t)
        /\ mem[w.page] # "absent"
        /\ mem' = IF w.what = "read" THEN mem ELSE [mem EXCEPT ![w.page] = w.what]
        /\ want' = [want EXCEPT ![t] = Idle]
        /\ UNCHANGED <<pc, up, bootvars, trapped, sayvars, find, smp>>

Fault(t) == /\ Free(t) /\ want[t] # Idle /\ ~Faulted(t)
            /\ mem[want[t].page] = "absent"
            /\ trapped' = trapped \cup {t}
            /\ UNCHANGED <<pc, mem, up, bootvars, want, sayvars, find, smp>>

\* Mutant: a handler that clears the page it commits.
OnDemandCleared(p) == [mem EXCEPT ![p] = "zero"]

\* VirtualAlloc(MEM_COMMIT): another thread may have committed the page, and
\* stored into it, between the fault and now.
OnDemand(p) == Committed(mem, {p})

\* fault_commit up to its message, which only the first SayMax commits get.
FaultCommit(t) ==
    /\ Free(t) /\ t \in trapped
    /\ handler /\ up
    /\ mem' = OnDemand(want[t].page)
    /\ trapped' = trapped \ {t}
    /\ IF said < SayMax THEN saying' = saying \cup {t} /\ said' = said + 1
                        ELSE UNCHANGED <<saying, said>>
    /\ UNCHANGED <<pc, up, bootvars, want, console, find, smp>>

\* fprintf(stderr) takes the stream's lock and gives it back.
SayBegin(t) == /\ Free(t) /\ t \in saying /\ console = Nobody
               /\ console' = t
               /\ UNCHANGED <<pc, mem, up, bootvars, want, trapped, saying,
                              said, find, smp>>

SayEnd(t) == /\ Free(t) /\ t \in saying /\ console = t
             /\ console' = Nobody
             /\ saying' = saying \ {t}
             /\ UNCHANGED <<pc, mem, up, bootvars, want, trapped, said, find,
                            smp>>

\* Nothing takes the fault: the process ends.
FaultKills(t) ==
    /\ Free(t) /\ t \in trapped
    /\ pc' = "crashed"
    /\ UNCHANGED <<mem, up, bootvars, guestvars>>

GuestReturns == /\ pc = "guest" /\ want[Main] = Idle /\ Free(Main)
                /\ pc' = "down"
                /\ Shutdown
                /\ UNCHANGED <<bootvars, guestvars>>

\* main() returns and takes the other threads with it.
Exit == /\ pc = "down" /\ Free(Main)
        /\ pc' = "exited"
        /\ UNCHANGED <<mem, up, bootvars, guestvars>>

ThreadStep(t) == \/ Access(t) \/ Fault(t) \/ FaultCommit(t) \/ SayBegin(t)
                 \/ SayEnd(t) \/ FaultKills(t)

----------------------------------------------------------------------------
(* main_stack_dump: stop the main thread, read its host stack, let it go,  *)
(* and only then print and read guest memory.                              *)

Moves(from, to) == Running /\ smp = from /\ smp' = to

hostvars == <<pc, mem, up, bootvars, trapped, saying, said>>

\* SuspendThread may fail, and the walk is left out then.
Suspend == /\ Moves("sleep", "walk") \/ Moves("sleep", "report")
           /\ UNCHANGED <<hostvars, want, console, find>>

\* Mutant: a sampler that prints what it found before it lets go.
ResumeAfterPrint == /\ Moves("walk", "report") /\ console = Nobody
                    /\ UNCHANGED <<hostvars, want, console, find>>

Resume == /\ Moves("walk", "report")
          /\ UNCHANGED <<hostvars, want, console, find>>

PrintBegin == /\ Moves("report", "print") /\ console = Nobody
              /\ console' = Sampler
              /\ UNCHANGED <<hostvars, want, find>>

PrintEnd == /\ Moves("print", "look")
            /\ console' = Nobody
            /\ UNCHANGED <<hostvars, want, find>>

\* GT5P_PEEK, the words behind r9 and r26, and the stack: any guest page, read like
\* any thread reads.
Look == /\ Moves("look", "scan")
        /\ \E p \in Touched :
              want' = [want EXCEPT ![Sampler] = [page |-> p, what |-> "read"]]
        /\ UNCHANGED <<hostvars, console, find>>

\* A word of the stack is looked up; any word of the code range may lie there.
Scan == /\ Moves("scan", "name") /\ want[Sampler] = Idle
        /\ find' \in {Search(w) : w \in Word}
        /\ UNCHANGED <<hostvars, want, console>>

NameOn == /\ Running /\ smp = "name" /\ Open(find)
          /\ find' = Nearer(find)
          /\ UNCHANGED <<hostvars, want, console, smp>>

\* The name is printed, and the sampler goes back to sleep.
Named == /\ Moves("name", "sleep") /\ ~Open(find)
         /\ find' = Search(0)
         /\ UNCHANGED <<hostvars, want, console>>

SamplerStep == \/ Suspend \/ Resume \/ PrintBegin \/ PrintEnd \/ Look \/ Scan
               \/ NameOn \/ Named \/ ThreadStep(Sampler)

Next == \/ InitVm \/ CommitFixed \/ OpenElf \/ LoadSegment \/ SkipHeader
        \/ EndLoad \/ RegisterSpu \/ LookUpOn \/ LookUpHit \/ LookUpFail
        \/ SetUpStack \/ SetUpArgv
        \/ \E t \in Thread : \/ \E p \in Touched : BeginAccess(t, p)
                             \/ ThreadStep(t)
        \/ SamplerStep
        \/ GuestReturns \/ Exit

\* Each thread is a host thread: an access it has begun goes on, also when the sampler
\* stops the thread or another thread has the console time and again, for both let go
\* for a second or more between two times.  The sampler is a host thread too.
Spec == /\ Init /\ [][Next]_vars
        /\ \A t \in Thread : SF_vars(ThreadStep(t))
        /\ WF_vars(SamplerStep)

----------------------------------------------------------------------------
Ended == {"failed", "exited", "crashed"}

\* main() is at one of its steps, memory holds what the program can put there, a lock
\* and a search are where somebody uses them.
TypeOK == /\ pc \in {"init", "commit", "open", "load", "spu", "lookup", "stack",
                     "argv", "guest", "down"} \cup Ended
          /\ seg \in 1..Len(Segment) + 1
          /\ mem \in [Page -> Content]
          /\ up \in BOOLEAN /\ handler \in BOOLEAN
          /\ file \in {"missing", "garbled", "short", "whole"}
          /\ entry \in EntryPoint
          /\ find.key \in {e.addr : e \in EntryPoint} \cup Word \cup {0}
          /\ find.lo \in 0..find.hi /\ find.hi \in 0..Len(Table)
          /\ find.best \in Lifted \cup {0}
          /\ spu \in Content
          /\ want \in [Host -> [page : Page \cup {NoPage}, what : Content \cup {"read"}]]
          /\ trapped \subseteq Host /\ saying \subseteq Host
          /\ said \in 0..SayMax
          /\ console \in saying \cup {Sampler, Nobody}
          /\ smp \in {"off", "sleep", "walk", "report", "print", "look", "scan", "name"}

ImagePages == UNION {Segment[i].first..Segment[i].file :
                        i \in {j \in DOMAIN Segment : Segment[j].load}}

\* What the loader and main() take for granted of the ELF: no segment clears what an
\* earlier one loaded, the file stays out of the main stack, the entry descriptor and
\* the policy module are in it, the descriptor clear of the argument block, and no
\* function lies at address 0, which is what the descriptor says that is not there.
WellFormedElf ==
    /\ \A i, j \in DOMAIN Segment :
          i < j /\ Segment[i].load /\ Segment[j].load =>
             \A p \in Segment[i].first..Segment[i].file :
                p \notin Segment[j].zero..Segment[j].last
    /\ ImagePages \cap StackPages = {}
    /\ EntryPage \in ImagePages \ ArgvPages
    /\ PmPage \in ImagePages
    /\ 0 \notin Lifted

\* What the guest starts on: its stack and arguments are in memory, and the descriptor
\* its first instruction came from, if one named it; with a whole file the image is, but
\* for what the argument block covers, and the policy module was fingerprinted after it
\* was loaded.
EntryReady ==
    [][pc' = "guest" /\ pc # "guest" =>
          /\ \A p \in StackPages \cap Page : mem'[p] = "zero"
          /\ \A p \in ArgvPages \cap Page : mem'[p] = "argv"
          /\ ~entry.direct => mem'[EntryPage] = "image"
          /\ file = "whole" =>
                /\ \A p \in (ImagePages \cap Page) \ ArgvPages : mem'[p] = "image"
                /\ spu = "image"]_vars

\* Two threads that fault on one page: the second commit does not take back what
\* the first thread has stored.
StoresSurvive ==
    [][\A p \in Page : mem[p] \in {"frame", "pixels", "data"} /\ up' =>
          mem'[p] \in {"frame", "pixels", "data"}]_vars

\* A store or a read of a page nothing has committed completes, wherever the sampler
\* stops the main thread: also inside fprintf, with the lock every report needs.
AccessCompletes ==
    \A t \in Thread : want[t] # Idle ~> (want[t] = Idle \/ pc \in Ended)

\* The searches find what they are for: main() goes on with the entry point if and only
\* if it is a lifted function, and the sampler names a word of the stack after the
\* function it lies in.
SearchesFind ==
    [][/\ pc = "lookup" /\ pc' # "lookup" => (pc' = "stack" <=> find.key \in Lifted)
       /\ smp = "name" /\ smp' # "name" => IsEnclosing(find.best, find.key)]_vars

\* Whatever way main() ends by itself, the guest memory has been given back.
ExitsClean == pc \in {"failed", "exited"} => ~up

\* "Loads the decrypted ELF segments ... at their correct PS3 virtual addresses"
\* (elf_loader.h): a whole file is in memory, all of it, when the guest starts.
ImageIntact ==
    [][pc' = "guest" /\ pc # "guest" /\ file = "whole" =>
          \A p \in ImagePages \cap Page : mem'[p] = "image"]_vars

\* "main is created by us, so it needs one too" (main.cpp, of its stack): what the
\* title keeps in RSX local memory is not stored over a frame of its main thread.
StackApart ==
    [][\A p \in Page : mem[p] = "frame" => mem'[p] # "pixels"]_vars

----------------------------------------------------------------------------
(* What demand paging implements.                                          *)

Phase == CASE pc = "guest"                            -> "guest"
           [] pc \in {"down", "exited", "failed", "crashed"} -> "over"
           [] OTHER                                   -> "setup"

\* A page that is not committed yet reads as zeros once it is touched.
Cell == [p \in Page |-> IF mem[p] = "absent" THEN "zero" ELSE mem[p]]

Flat == INSTANCE FlatMemory WITH phase <- Phase, cell <- Cell,
                                 Value <- Content \ {"absent", "zero"}

\* Commit on first touch is not seen by the guest: its threads find a flat memory of
\* zeros, in which a store happens at once, stays, and is lost only when memory is given
\* back, however their faults on a page interleave.
MemoryIsFlat == Flat!Spec
=============================================================================
