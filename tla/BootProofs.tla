------------------------------ MODULE BootProofs ------------------------------
(***************************************************************************)
(* Proofs about Boot, for every layout, every table of lifted functions    *)
(* and any number of guest threads: the shape of the state, what the guest *)
(* is started on, what is given back at the end, what the searches find,   *)
(* and that no handler takes back what a thread has stored.                *)
(***************************************************************************)
EXTENDS Boot, DispatchProofs

\* main() before it starts the guest, what memory holds then, what threads store later.
Before == {"init", "commit", "open", "load", "spu", "lookup", "stack", "argv"}
Fresh == {"absent", "zero", "image", "argv"}
Late == {"frame", "pixels", "data"}

TypeInv == TypeOK /\ find \in SearchType

\* Memory is given back before main() ends by itself.
GivesBack == pc \in {"failed", "down", "exited"} => ~up

\* Until the guest runs the sampler sleeps and nobody has stored anything.
Quiet == pc \in Before => smp \in {"off", "sleep"} /\ \A p \in Page : mem[p] \in Fresh

\* What a thread is about to store.
Wants == \A t \in Host : want[t] = Idle \/ want[t].what \in Late \cup {"read"}

\* The search under way, for whom it is done.
Finding == /\ pc \in {"spu", "lookup"} => Narrowed(find)
           /\ smp = "name" => Approached(find)

IInv == TypeInv /\ GivesBack /\ Quiet /\ Wants /\ Finding

----------------------------------------------------------------------------
LEMMA HostFacts == Main \in Host /\ Sampler \in Host /\ Thread \subseteq Host
BY DEF Host, Thread

LEMMA SegmentLen == Len(Segment) \in Nat /\ DOMAIN Segment = 1..Len(Segment)
<1> DEFINE R == [load : BOOLEAN, first : Nat, file : Nat, zero : Nat, last : Nat]
<1>1. Segment \in Seq(R)
  BY LayoutAssumption
<1> HIDE DEF R
<1>2. QED
  BY <1>1

LEMMA CommittedType ==
    ASSUME NEW m \in [Page -> Content], NEW S
    PROVE  /\ Committed(m, S) \in [Page -> Content]
           /\ \A p \in Page : m[p] \in Fresh => Committed(m, S)[p] \in Fresh
           /\ \A p \in Page : m[p] \in Late => Committed(m, S)[p] = m[p]
BY DEF Committed, Content, Fresh, Late

LEMMA LoadedType ==
    ASSUME NEW m \in [Page -> Content], NEW s, NEW copied
    PROVE  /\ Loaded(m, s, copied) \in [Page -> Content]
           /\ (\A p \in Page : m[p] \in Fresh) =>
                  \A p \in Page : Loaded(m, s, copied)[p] \in Fresh
<1>1. ASSUME NEW p \in Page
      PROVE  Loaded(m, s, copied)[p] \in {"image", "zero", m[p]}
  BY <1>1 DEF Loaded, Committed
<1>2. Loaded(m, s, copied) = [p \in Page |-> Loaded(m, s, copied)[p]]
  BY DEF Loaded
<1>3. \A p \in Page : Loaded(m, s, copied)[p] \in Content
  BY <1>1 DEF Content
<1>4. QED
  BY <1>1, <1>2, <1>3 DEF Fresh

\* main()'s stores and reads leave memory well-formed.
LEMMA MainStoresFacts ==
    ASSUME TypeInv, NEW m \in [Page -> Content], NEW S,
           NEW c \in {"zero", "argv"}, NEW next, MainStores(m, S, c, next)
    PROVE  /\ mem' \in [Page -> Content]
           /\ pc' \in {next, "crashed"}
           /\ (\A p \in Page : m[p] \in Fresh) => \A p \in Page : mem'[p] \in Fresh
<1>1. handler \in BOOLEAN /\ c \in Content /\ c \in Fresh
  BY DEF TypeInv, TypeOK, Content, Fresh
<1>2. CASE mem' = [p \in Page |-> IF p \in S THEN c ELSE m[p]] /\ pc' = next
  BY <1>1, <1>2
<1>3. CASE mem' = m /\ pc' = "crashed"
  BY <1>1, <1>3
<1>4. QED
  BY <1>2, <1>3 DEF MainStores

LEMMA MainReadsFacts ==
    ASSUME TypeInv, NEW p \in Page, NEW next, MainReads(p, next)
    PROVE  /\ mem' \in [Page -> Content]
           /\ pc' \in {next, "crashed"}
           /\ (\A q \in Page : mem[q] \in Fresh) => \A q \in Page : mem'[q] \in Fresh
           /\ \A q \in Page : mem[q] # "absent" => mem'[q] = mem[q]
<1>1. mem \in [Page -> Content]
  BY DEF TypeInv, TypeOK
<1>2. CASE mem' = Committed(mem, {p}) /\ pc' = next
  <2>1. \A q \in Page : mem[q] # "absent" => mem'[q] = mem[q]
    BY <1>2 DEF Committed
  <2>2. QED
    BY <1>1, <1>2, <2>1, CommittedType
<1>3. CASE mem' = mem /\ pc' = "crashed"
  BY <1>1, <1>3
<1>4. QED
  BY <1>2, <1>3 DEF MainReads

LEMMA InvInit == Init => IInv
<1> SUFFICES ASSUME Init PROVE IInv
  OBVIOUS
<1>1. Search(0) \in SearchType /\ Search(0).lo = 0 /\ Search(0).best = 0
      /\ Search(0).hi = Len(Table) /\ Search(0).key = 0
  BY TableFacts DEF Search, SearchType
<1>2. TypeOK
  <2>1. mem \in [Page -> Content] /\ spu \in Content
    BY DEF Init, Content
  <2>2. want \in [Host -> [page : Page \cup {NoPage}, what : Content \cup {"read"}]]
    BY DEF Init, Content, Idle
  <2>3. seg \in 1..Len(Segment) + 1 /\ said \in 0..SayMax
    BY LayoutAssumption DEF Init
  <2>4. /\ find.lo \in 0..find.hi /\ find.hi \in 0..Len(Table)
        /\ find.best \in Lifted \cup {0} /\ find.key \in {e.addr : e \in EntryPoint} \cup Word \cup {0}
    BY <1>1, TableFacts DEF Init
  <2>5. QED
    BY <2>1, <2>2, <2>3, <2>4 DEF Init, TypeOK
<1>3. QED
  BY <1>1, <1>2 DEF Init, IInv, TypeInv, GivesBack, Quiet, Wants,
     Finding, Before, Fresh

----------------------------------------------------------------------------
(* One lemma per group of actions.                                         *)

\* What of the invariant a step keeps that leaves the threads and the sampler alone.
LEMMA MainKeeps ==
    ASSUME IInv, UNCHANGED <<guestvars, file, entry, handler>>,
           pc \in Before, seg' \in 1..Len(Segment) + 1, mem' \in [Page -> Content],
           up' \in BOOLEAN, spu' \in Content,
           pc' \in Before \cup {"guest"} \cup Ended,
           pc' \in {"failed", "exited"} => ~up',
           pc' \in Before => \A p \in Page : mem'[p] \in Fresh,
           pc' \in {"spu", "lookup"} => Narrowed(find)
    PROVE  IInv'
<1>1. TypeOK /\ find \in SearchType
  BY DEF IInv, TypeInv
<1>2. TypeOK'
  BY <1>1 DEF TypeOK, guestvars, sayvars, Before, Ended
<1>3. GivesBack'
  BY DEF GivesBack, Before, Ended
<1>4. Quiet' /\ Wants'
  BY DEF IInv, Quiet, Wants, guestvars
<1>5. Finding'
  BY DEF IInv, Finding, Narrowed, Within, Approached, Quiet, guestvars
<1>6. QED
  BY <1>1, <1>2, <1>3, <1>4, <1>5 DEF IInv, TypeInv, guestvars

LEMMA MainInv ==
    ASSUME IInv, \/ InitVm \/ CommitFixed \/ OpenElf \/ LoadSegment \/ SkipHeader
                 \/ RegisterSpu \/ LookUpFail \/ SetUpStack \/ SetUpArgv
    PROVE  IInv'
<1>1. /\ TypeInv /\ mem \in [Page -> Content] /\ seg \in 1..Len(Segment) + 1
      /\ up \in BOOLEAN /\ spu \in Content
      /\ handler \in BOOLEAN
      /\ pc \in Before => \A p \in Page : mem[p] \in Fresh
      /\ Len(Segment) \in Nat
  BY SegmentLen DEF IInv, TypeInv, TypeOK, Quiet
<1>2. CASE InitVm
  BY <1>1, <1>2, MainKeeps DEF InitVm, bootvars, Before, Ended
<1>3. CASE CommitFixed
  <2>1. PICK done \in SUBSET FixedAreas :
          MainStores(Committed(mem, UNION done), GcmCtrlPages, "zero", "open")
    BY <1>3 DEF CommitFixed
  <2>2. /\ mem' \in [Page -> Content] /\ pc' \in {"open", "crashed"}
        /\ \A p \in Page : mem'[p] \in Fresh
    <3> DEFINE m == Committed(mem, UNION done)
    <3>1. m \in [Page -> Content] /\ \A p \in Page : m[p] \in Fresh
      BY <1>1, <1>3, CommittedType DEF CommitFixed, Before
    <3> HIDE DEF m
    <3>2. MainStores(m, GcmCtrlPages, "zero", "open")
      BY <2>1 DEF m
    <3>3. /\ mem' \in [Page -> Content] /\ pc' \in {"open", "crashed"}
      BY <1>1, <3>1, <3>2, MainStoresFacts
    <3>5. \A p \in Page : mem'[p] \in Fresh
      BY <1>1, <3>1, <3>2, MainStoresFacts
    <3>6. QED
      BY <3>3, <3>5
  <2>3. QED
    BY <1>1, <1>3, <2>2, MainKeeps DEF CommitFixed, bootvars, Before, Ended
<1>4. CASE OpenElf
  <2>1. mem' \in [Page -> Content] /\ (pc' = "load" => \A p \in Page : mem'[p] \in Fresh)
    BY <1>1, <1>4 DEF OpenElf, Shutdown, Content, Before
  <2>2. QED
    BY <1>1, <1>4, <2>1, MainKeeps DEF OpenElf, Shutdown, bootvars, Before, Ended
<1>5. CASE LoadSegment
  <2> DEFINE s == Segment[seg]
  <2>1. PICK ok \in BOOLEAN, copied \in BOOLEAN :
          \/ /\ mem' = Loaded(Committed(mem, IF ok THEN s.first..s.last ELSE {}), s, copied)
             /\ seg' = seg + 1
             /\ UNCHANGED pc
          \/ /\ pc' = "crashed"
             /\ mem' = Committed(mem, IF ok THEN s.first..s.last ELSE {})
            
             /\ UNCHANGED seg
    BY <1>5 DEF LoadSegment
  <2>2. /\ mem' \in [Page -> Content]
        /\ \A p \in Page : mem'[p] \in Fresh
    BY <1>1, <1>5, <2>1, CommittedType, LoadedType DEF LoadSegment, Before
  <2>3. seg' \in 1..Len(Segment) + 1
    BY <1>1, <1>5, <2>1 DEF LoadSegment
  <2>4. QED
    BY <1>1, <1>5, <2>1, <2>2, <2>3, MainKeeps DEF LoadSegment, Before, Ended
<1>6. CASE SkipHeader
  BY <1>1, <1>6, MainKeeps DEF SkipHeader, Before, Ended
<1>7. CASE RegisterSpu
  <2>1. Narrowed(find)
    BY <1>7 DEF RegisterSpu, IInv, Finding
  <2>2. /\ mem' \in [Page -> Content] /\ pc' \in {"lookup", "crashed"}
        /\ \A p \in Page : mem'[p] \in Fresh
    BY <1>1, <1>7, LayoutAssumption, MainReadsFacts DEF RegisterSpu, Before
  <2>3. spu' \in Content
    BY <1>7, <2>2, LayoutAssumption DEF RegisterSpu
  <2>4. QED
    BY <1>1, <1>7, <2>1, <2>2, <2>3, MainKeeps DEF RegisterSpu, Before, Ended
<1>8. CASE LookUpFail
  <2>1. mem' \in [Page -> Content]
    BY <1>8 DEF LookUpFail, Shutdown, Content
  <2>2. QED
    BY <1>1, <1>8, <2>1, MainKeeps DEF LookUpFail, Shutdown, bootvars, Before, Ended
<1>9. CASE SetUpStack
  <2>1. PICK ok \in BOOLEAN :
          MainStores(Committed(mem, IF ok THEN StackPages ELSE {}),
                     StackPages, "zero", "argv")
    BY <1>9 DEF SetUpStack
  <2>2. /\ mem' \in [Page -> Content] /\ pc' \in {"argv", "crashed"}
        /\ \A p \in Page : mem'[p] \in Fresh
    <3> DEFINE m == Committed(mem, IF ok THEN StackPages ELSE {})
    <3>1. m \in [Page -> Content] /\ \A p \in Page : m[p] \in Fresh
      BY <1>1, <1>9, CommittedType DEF SetUpStack, Before
    <3> HIDE DEF m
    <3>2. MainStores(m, StackPages, "zero", "argv")
      BY <2>1 DEF m
    <3>3. /\ mem' \in [Page -> Content] /\ pc' \in {"argv", "crashed"}
      BY <1>1, <3>1, <3>2, MainStoresFacts
    <3>5. \A p \in Page : mem'[p] \in Fresh
      BY <1>1, <3>1, <3>2, MainStoresFacts
    <3>6. QED
      BY <3>3, <3>5
  <2>3. QED
    BY <1>1, <1>9, <2>2, MainKeeps DEF SetUpStack, bootvars, Before, Ended
<1>10. CASE SetUpArgv
  <2>1. PICK ok \in BOOLEAN :
          MainStores(Committed(mem, IF ok THEN ArgvPages ELSE {}),
                     ArgvPages, "argv", "guest")
    BY <1>10 DEF SetUpArgv
  <2>2. /\ mem' \in [Page -> Content] /\ pc' \in {"guest", "crashed"}
    <3> DEFINE m == Committed(mem, IF ok THEN ArgvPages ELSE {})
    <3>1. m \in [Page -> Content] /\ \A p \in Page : m[p] \in Fresh
      BY <1>1, <1>10, CommittedType DEF SetUpArgv, Before
    <3> HIDE DEF m
    <3>2. MainStores(m, ArgvPages, "argv", "guest")
      BY <2>1 DEF m
    <3>3. QED
      BY <1>1, <3>1, <3>2, MainStoresFacts
  <2>3. QED
    BY <1>1, <1>10, <2>2, MainKeeps DEF SetUpArgv, bootvars, Before, Ended
<1>11. QED
  BY <1>2, <1>3, <1>4, <1>5, <1>6, <1>7, <1>8, <1>9, <1>10

\* The search main() starts, goes on with and is done with.
LEMMA LookUpInv ==
    ASSUME IInv, EndLoad \/ LookUpOn \/ LookUpHit
    PROVE  IInv'
<1>1. /\ TypeOK /\ find \in SearchType /\ pc \in Before /\ smp \in {"off", "sleep"}
      /\ mem \in [Page -> Content] /\ \A p \in Page : mem[p] \in Fresh
  BY DEF IInv, TypeInv, TypeOK, Quiet, EndLoad, LookUpOn, LookUpHit, Before
<1>2. /\ Narrowed(find') /\ find'.best \in Lifted \cup {0}
      /\ find'.key \in {e.addr : e \in EntryPoint} \cup Word \cup {0}
  <2>1. CASE EndLoad \/ LookUpHit
    <3>1. PICK a \in {e.addr : e \in EntryPoint} \cup {0} : find' = Search(a)
      BY <1>1, <2>1 DEF EndLoad, LookUpHit, TypeOK
    <3>2. a \in Nat
      BY LayoutAssumption
    <3>3. Narrowed(Search(a)) /\ Search(a).key = a /\ Search(a).best = 0
      BY <3>2, SearchStarts DEF Search
    <3>4. QED
      BY <3>1, <3>3
  <2>2. CASE LookUpOn
    <3>1. Narrowed(find) /\ Open(find) /\ ~Hit(find) /\ find' = Half(find)
      BY <2>2 DEF LookUpOn, IInv, Finding
    <3>2. Half(find).best = find.best /\ Half(find).key = find.key
      BY <1>1 DEF Half, SearchType
    <3>3. QED
      BY <1>1, <3>1, <3>2, HalfNarrows DEF TypeOK
  <2>3. QED
    BY <2>1, <2>2
<1>3. /\ find' \in SearchType /\ find'.lo \in 0..find'.hi
      /\ find'.hi \in 0..Len(Table)
  BY <1>2, TableFacts DEF Narrowed, Within, SearchType
<1>4. /\ mem' \in [Page -> Content] /\ \A p \in Page : mem'[p] \in Fresh
      /\ pc' \in {"spu", "lookup", "stack", "crashed"}
      /\ UNCHANGED <<up, bootvars, want, trapped, sayvars, smp>>
  <2>1. CASE EndLoad
    <3>1. MainReads(EntryPage, "spu") \/ (pc' = "spu" /\ UNCHANGED mem)
      BY <2>1 DEF EndLoad
    <3>2. QED
      BY <1>1, <2>1, <3>1, LayoutAssumption, MainReadsFacts DEF EndLoad, IInv
  <2>2. CASE LookUpOn \/ LookUpHit
    BY <1>1, <2>2 DEF LookUpOn, LookUpHit
  <2>3. QED
    BY <2>1, <2>2
<1>5. TypeOK'
  BY <1>1, <1>2, <1>3, <1>4 DEF TypeOK, Ended, bootvars, sayvars
<1>6. Quiet' /\ Wants' /\ GivesBack'
  BY <1>1, <1>4 DEF IInv, Quiet, Wants, GivesBack
<1>7. Finding'
  BY <1>1, <1>2, <1>4 DEF Finding
<1>8. QED
  BY <1>3, <1>5, <1>6, <1>7 DEF IInv, TypeInv

\* What a thread does once the guest runs leaves the search alone.
LEMMA ThreadInv ==
    ASSUME IInv, NEW t \in Host,
           ThreadStep(t) \/ (t \in Thread /\ \E p \in Touched : BeginAccess(t, p))
    PROVE  IInv'
<1>1. /\ TypeOK /\ find \in SearchType /\ pc \in {"guest", "down"}
      /\ UNCHANGED <<find, smp, bootvars, up>>
  BY DEF IInv, TypeInv, ThreadStep, BeginAccess, Access, Fault, FaultCommit, SayBegin,
     SayEnd, FaultKills, Free, Running, guestvars
<1>2. Finding' /\ find' \in SearchType
  <2>1. pc' \notin {"spu", "lookup"}
    BY <1>1 DEF ThreadStep, BeginAccess, Access, Fault, FaultCommit, SayBegin, SayEnd,
       FaultKills
  <2>2. QED
    BY <1>1, <2>1 DEF IInv, Finding, Approached, Within
<1>3. /\ mem \in [Page -> Content] /\ want[t] \in [page : Page \cup {NoPage},
                                                  what : Content \cup {"read"}]
      /\ want[t] # Idle => want[t].what \in Late \cup {"read"}
  BY <1>1 DEF TypeOK, IInv, Wants
<1>4. CASE ThreadStep(t)
  <2>1. CASE Access(t)
    <3>1. mem' \in [Page -> Content]
      BY <1>3, <2>1 DEF Access, Content, Late
    <3>2. want' = [want EXCEPT ![t] = Idle]
          /\ want' \in [Host -> [page : Page \cup {NoPage}, what : Content \cup {"read"}]]
      BY <1>1, <2>1 DEF Access, TypeOK, Idle, Content
    <3>3. TypeOK' /\ Wants'
      BY <1>1, <2>1, <3>1, <3>2 DEF TypeOK, IInv, Wants, Access, bootvars, sayvars
    <3>4. Quiet' /\ GivesBack'
      BY <1>1, <2>1 DEF IInv, Quiet, GivesBack, Before, Access,
         bootvars
    <3>5. QED
      BY <1>2, <3>3, <3>4 DEF IInv, TypeInv
  <2>2. CASE FaultCommit(t)
    <3>1. mem' \in [Page -> Content]
      BY <1>3, <2>2, CommittedType DEF FaultCommit, OnDemand
    <3>2. saying' \subseteq Host /\ said' \in 0..SayMax /\ saying \subseteq saying'
      BY <1>1, <2>2, LayoutAssumption DEF FaultCommit, TypeOK
    <3>3. TypeOK' /\ Wants'
      BY <1>1, <2>2, <3>1, <3>2 DEF TypeOK, IInv, Wants, FaultCommit, bootvars
    <3>4. Quiet' /\ GivesBack'
      BY <1>1, <2>2 DEF IInv, Quiet, GivesBack, Before, FaultCommit,
         bootvars
    <3>5. QED
      BY <1>2, <3>3, <3>4 DEF IInv, TypeInv
  <2>3. CASE Fault(t) \/ SayBegin(t) \/ SayEnd(t)
    <3>1. TypeOK' /\ Wants'
      BY <1>1, <2>3 DEF TypeOK, IInv, Wants, Fault, SayBegin, SayEnd, bootvars, sayvars
    <3>2. Quiet' /\ GivesBack'
      BY <1>1, <2>3 DEF IInv, Quiet, GivesBack, Before, Fault,
         SayBegin, SayEnd, bootvars
    <3>3. QED
      BY <1>2, <3>1, <3>2 DEF IInv, TypeInv
  <2>4. CASE FaultKills(t)
    <3>1. TypeOK' /\ Wants'
      BY <1>1, <2>4 DEF TypeOK, Ended, IInv, Wants, FaultKills, bootvars, guestvars,
         sayvars
    <3>2. Quiet' /\ GivesBack'
      BY <1>1, <2>4 DEF TypeOK, Quiet, GivesBack, Before, FaultKills,
         bootvars
    <3>3. QED
      BY <1>2, <3>1, <3>2 DEF IInv, TypeInv
  <2>5. QED
    BY <1>4, <2>1, <2>2, <2>3, <2>4 DEF ThreadStep
<1>5. CASE t \in Thread /\ \E p \in Touched : BeginAccess(t, p)
  <2>1. PICK p \in Touched : BeginAccess(t, p)
    BY <1>5
  <2>2. p \in Page
    BY LayoutAssumption
  <2>3. PICK w \in Late \cup {"read"} : want' = [want EXCEPT ![t] = [page |-> p, what |-> w]]
    BY <2>1 DEF BeginAccess, Stored, Late
  <2>4. [page |-> p, what |-> w] \in
            [page : Page \cup {NoPage}, what : Content \cup {"read"}]
    BY <2>2, <2>3 DEF Late, Content
  <2>5. want' \in [Host -> [page : Page \cup {NoPage}, what : Content \cup {"read"}]]
    BY <1>1, <2>3, <2>4 DEF TypeOK
  <2>6. \A u \in Host : want'[u] = want[u] \/ want'[u].what \in Late \cup {"read"}
    BY <1>1, <2>3 DEF TypeOK
  <2>7. TypeOK' /\ Wants'
    BY <1>1, <2>1, <2>5, <2>6 DEF TypeOK, IInv, Wants, BeginAccess, bootvars, sayvars
  <2>8. Quiet' /\ GivesBack'
    BY <1>1, <2>1 DEF IInv, Quiet, GivesBack, Before, BeginAccess,
       bootvars
  <2>9. QED
    BY <1>2, <2>7, <2>8 DEF IInv, TypeInv
<1>6. QED
  BY <1>4, <1>5

LEMMA SamplerInv ==
    ASSUME IInv, \/ Suspend \/ Resume \/ PrintBegin \/ PrintEnd \/ Look \/ Scan
                 \/ NameOn \/ Named
    PROVE  IInv'
<1>1. /\ TypeOK /\ find \in SearchType /\ pc \in {"guest", "down"}
      /\ UNCHANGED hostvars
  BY DEF IInv, TypeInv, Suspend, Resume, PrintBegin, PrintEnd, Look, Scan, NameOn, Named,
     Moves, Running
<1>2. GivesBack' /\ Quiet'
  BY <1>1 DEF IInv, GivesBack, Quiet, hostvars, bootvars, Before
<1>3. CASE Suspend \/ Resume \/ PrintBegin \/ PrintEnd
  <2>1. TypeOK' /\ Wants' /\ find' = find /\ smp' # "name"
    BY <1>1, <1>3 DEF TypeOK, IInv, Wants, Suspend, Resume, PrintBegin, PrintEnd, Moves,
       hostvars, bootvars
  <2>2. Finding'
    BY <1>1, <2>1 DEF Finding, hostvars
  <2>3. QED
    BY <1>1, <1>2, <2>1, <2>2 DEF IInv, TypeInv
<1>4. CASE Look
  <2>1. PICK p \in Page : want' = [want EXCEPT ![Sampler] = [page |-> p, what |-> "read"]]
    BY <1>4, LayoutAssumption DEF Look
  <2>2. want' \in [Host -> [page : Page \cup {NoPage}, what : Content \cup {"read"}]]
    BY <1>1, <2>1 DEF TypeOK
  <2>3. \A u \in Host : want'[u] = want[u] \/ want'[u].what = "read"
    BY <1>1, <2>1 DEF TypeOK
  <2>4. TypeOK' /\ Wants' /\ find' = find /\ smp' # "name"
    BY <1>1, <1>4, <2>2, <2>3 DEF TypeOK, IInv, Wants, Look, Moves, hostvars, bootvars
  <2>5. Finding'
    BY <1>1, <2>4 DEF Finding, hostvars
  <2>6. QED
    BY <1>1, <1>2, <2>4, <2>5 DEF IInv, TypeInv
<1>5. CASE Scan \/ NameOn \/ Named
  <2>1. /\ Approached(find') /\ find'.best \in Lifted \cup {0}
        /\ find'.key \in {e.addr : e \in EntryPoint} \cup Word \cup {0}
    <3>1. CASE Scan
      <4>1. PICK a \in Word : find' = Search(a)
        BY <3>1 DEF Scan
      <4>2. Approached(Search(a)) /\ Search(a).key = a /\ Search(a).best = 0
        BY SearchStarts, LayoutAssumption DEF Search
      <4>3. QED
        BY <4>1, <4>2
    <3>2. CASE NameOn
      <4>1. Approached(find) /\ Open(find) /\ find' = Nearer(find)
        BY <3>2 DEF NameOn, IInv, Finding
      <4>2. Within(find) /\ AtMid(find) \in Lifted
        BY <4>1, MidInside DEF Approached, AtMid, Lifted
      <4>3. Nearer(find).best \in {AtMid(find), find.best}
        BY <1>1, <4>2 DEF Nearer, SearchType
      <4>4. QED
        BY <1>1, <4>1, <4>2, <4>3, NearerApproaches DEF TypeOK
    <3>3. CASE Named
      BY <3>3, SearchStarts DEF Named, Search
    <3>4. QED
      BY <1>5, <3>1, <3>2, <3>3
  <2>2. /\ find' \in SearchType /\ find'.lo \in 0..find'.hi
        /\ find'.hi \in 0..Len(Table)
    BY <2>1, TableFacts DEF Approached, Within, SearchType
  <2>3. TypeOK' /\ Wants'
    BY <1>1, <1>5, <2>1, <2>2 DEF TypeOK, IInv, Wants, Scan, NameOn, Named, Moves,
       hostvars, bootvars
  <2>4. Finding'
    BY <1>1, <2>1 DEF Finding, Approached, Within, hostvars
  <2>5. QED
    BY <1>2, <2>2, <2>3, <2>4 DEF IInv, TypeInv
<1>6. QED
  BY <1>3, <1>4, <1>5

LEMMA EndInv ==
    ASSUME IInv, GuestReturns \/ Exit
    PROVE  IInv'
<1>1. TypeOK /\ find \in SearchType
  BY DEF IInv, TypeInv
<1>2. mem' \in [Page -> Content] /\ up' \in BOOLEAN
  BY <1>1 DEF GuestReturns, Exit, Shutdown, TypeOK, Content
<1>3. TypeOK' /\ find' \in SearchType
  BY <1>1, <1>2 DEF TypeOK, Ended, GuestReturns, Exit, bootvars, guestvars, sayvars
<1>4. GivesBack' /\ Quiet' /\ Wants' /\ Finding'
  BY DEF IInv, GivesBack, Quiet, Wants, Finding, Approached, Within,
     Before, GuestReturns, Exit, Shutdown, guestvars
<1>5. QED
  BY <1>3, <1>4 DEF IInv, TypeInv

LEMMA InvNext == IInv /\ [Next]_vars => IInv'
<1> SUFFICES ASSUME IInv, [Next]_vars PROVE IInv'
  OBVIOUS
<1>1. CASE UNCHANGED vars
  BY <1>1 DEF vars, bootvars, guestvars, sayvars, IInv, TypeInv, TypeOK,
     GivesBack, Quiet, Wants, Finding, Narrowed, Approached, Within
<1>2. ASSUME NEW t \in Thread, ThreadStep(t) \/ \E p \in Touched : BeginAccess(t, p)
      PROVE  IInv'
  BY <1>2, ThreadInv, HostFacts
<1>3. CASE ThreadStep(Sampler)
  BY <1>3, ThreadInv, HostFacts
<1>4. QED
  BY <1>1, <1>2, <1>3, MainInv, LookUpInv, SamplerInv, EndInv DEF Next, SamplerStep

LEMMA InductiveInvariant == Spec => []IInv
BY InvInit, InvNext, PTL DEF Spec

----------------------------------------------------------------------------
\* Every state of start-up, of the guest's threads and of the sampler has its shape.
THEOREM TypeCorrect == Spec => []TypeOK
<1>1. IInv => TypeOK
  BY DEF IInv, TypeInv
<1>2. QED
  BY <1>1, InductiveInvariant, PTL

\* Every way main() ends by itself has given guest memory back.
THEOREM EndsClean == Spec => []ExitsClean
<1>1. IInv => ExitsClean
  BY DEF IInv, GivesBack, ExitsClean
<1>2. QED
  BY <1>1, InductiveInvariant, PTL

\* For every ascending table: main() goes on if and only if the entry is lifted, and the
\* sampler names the function a word lies in.
THEOREM SearchesDecide == Spec => SearchesFind
<1>1. ASSUME IInv, [Next]_vars, pc = "lookup", pc' # "lookup"
      PROVE  pc' = "stack" <=> find.key \in Lifted
  <2>1. LookUpHit \/ LookUpFail
    BY <1>1 DEF Next, vars, InitVm, CommitFixed, OpenElf, LoadSegment, SkipHeader, EndLoad,
       RegisterSpu, LookUpOn, SetUpStack, SetUpArgv, BeginAccess, ThreadStep, Access,
       Fault, FaultCommit, SayBegin, SayEnd, FaultKills, Free, Running, SamplerStep,
       Suspend, Resume, PrintBegin, PrintEnd, Look, Scan, NameOn, Named, Moves,
       GuestReturns, Exit
  <2>2. Narrowed(find)
    BY <1>1 DEF IInv, Finding
  <2>3. QED
    BY <2>1, <2>2, LookupDecides DEF LookUpHit, LookUpFail
<1>2. ASSUME IInv, [Next]_vars, smp = "name", smp' # "name"
      PROVE  IsEnclosing(find.best, find.key)
  <2>1. Named
    BY <1>2 DEF Next, vars, InitVm, CommitFixed, OpenElf, LoadSegment, SkipHeader, EndLoad,
       RegisterSpu, LookUpOn, LookUpHit, LookUpFail, SetUpStack, SetUpArgv, BeginAccess,
       ThreadStep, Access, Fault, FaultCommit, SayBegin, SayEnd, FaultKills, Free,
       Running, SamplerStep, Suspend, Resume, PrintBegin, PrintEnd, Look, Scan, NameOn,
       Moves, GuestReturns, Exit, guestvars
  <2>2. QED
    BY <1>2, <2>1, EnclosingDecides DEF Named, IInv, Finding
<1>3. IInv /\ [Next]_vars =>
        [/\ pc = "lookup" /\ pc' # "lookup" => (pc' = "stack" <=> find.key \in Lifted)
         /\ smp = "name" /\ smp' # "name" => IsEnclosing(find.best, find.key)]_vars
  BY <1>1, <1>2
<1>4. QED
  BY <1>3, InductiveInvariant, PTL DEF Spec, SearchesFind

\* However many threads fault on one page, and whatever main() does, what has been stored
\* stays stored until memory is given back.
THEOREM NothingStoredIsLost == Spec => StoresSurvive
<1>1. ASSUME IInv, Next, NEW p \in Page, mem[p] \in Late, up'
      PROVE  mem'[p] \in Late
  <2>1. pc \notin Before /\ mem \in [Page -> Content]
    BY <1>1 DEF IInv, TypeInv, TypeOK, Quiet, Late, Fresh
  <2>2. ASSUME NEW t \in Host, Access(t)
        PROVE  mem'[p] \in Late
    <3>1. want[t].what \in Late \cup {"read"}
      <4>1. want[t] # Idle
        BY <2>2 DEF Access
      <4>2. QED
        BY <1>1, <4>1 DEF IInv, Wants
    <3>2. CASE want[t].what = "read"
      BY <1>1, <2>2, <3>2 DEF Access
    <3>3. CASE want[t].what # "read"
      BY <1>1, <2>1, <2>2, <3>1, <3>3 DEF Access
    <3>4. QED
      BY <3>2, <3>3
  <2>3. ASSUME NEW t \in Host, FaultCommit(t)
        PROVE  mem'[p] \in Late
    BY <1>1, <2>1, <2>3, CommittedType DEF FaultCommit, OnDemand
  <2>4. ASSUME NEW t \in Host, ThreadStep(t) PROVE mem'[p] \in Late
    BY <1>1, <2>2, <2>3, <2>4 DEF ThreadStep, Fault, SayBegin, SayEnd, FaultKills
  <2>5. QED
    BY <1>1, <2>1, <2>4, HostFacts DEF Next, InitVm, CommitFixed, OpenElf, LoadSegment,
       SkipHeader, EndLoad, RegisterSpu, LookUpOn, LookUpHit, LookUpFail, SetUpStack,
       SetUpArgv, BeginAccess, SamplerStep, Suspend, Resume, PrintBegin, PrintEnd, Look,
       Scan, NameOn, Named, hostvars, GuestReturns, Exit, Shutdown, Before
<1>2. IInv /\ [Next]_vars =>
        [\A p \in Page : mem[p] \in {"frame", "pixels", "data"} /\ up' =>
            mem'[p] \in {"frame", "pixels", "data"}]_vars
  BY <1>1 DEF Late
<1>3. QED
  BY <1>2, InductiveInvariant, PTL DEF Spec, StoresSurvive

----------------------------------------------------------------------------
(* What the guest starts on.                                               *)

\* What memory holds of the file between its loading and the first instruction.
Loading ==
    /\ pc \in {"init", "commit", "open"} => seg = 1
    /\ pc = "load" /\ file = "whole" =>
          \A i \in DOMAIN Segment : i < seg /\ Segment[i].load =>
             \A p \in (Segment[i].first..Segment[i].file) \cap Page : mem[p] = "image"
    /\ pc \in {"spu", "lookup", "stack", "argv"} /\ file = "whole" =>
          \A p \in ImagePages \cap Page : mem[p] = "image"
    /\ pc \in {"lookup", "stack", "argv"} /\ file = "whole" => spu = "image"
    /\ pc \in {"spu", "lookup"} =>
          entry.direct \/ find.key = 0 \/ mem[EntryPage] = "image"
    /\ pc \in {"stack", "argv"} => entry.direct \/ mem[EntryPage] = "image"
    /\ pc = "argv" => \A p \in StackPages \cap Page : mem[p] = "zero"

LEMMA InImage ==
    ASSUME NEW p
    PROVE  p \in ImagePages <=> \E i \in DOMAIN Segment :
                                   Segment[i].load /\ p \in Segment[i].first..Segment[i].file
BY DEF ImagePages

\* Main()'s stores, as far as they get through.
LEMMA MainStored ==
    ASSUME NEW m \in [Page -> Content], NEW S, NEW c, NEW next,
           MainStores(m, S, c, next), pc' # "crashed"
    PROVE  /\ pc' = next
           /\ \A p \in Page : mem'[p] = IF p \in S THEN c ELSE m[p]
BY DEF MainStores

LEMMA CommittedKeeps ==
    ASSUME NEW m \in [Page -> Content], NEW S, NEW p \in Page, m[p] # "absent"
    PROVE  Committed(m, S)[p] = m[p]
BY DEF Committed

LEMMA Segments ==
    \A i \in DOMAIN Segment :
       i \in Nat /\ Segment[i] \in [load : BOOLEAN, first : Nat, file : Nat, zero : Nat, last : Nat]
<1> DEFINE R == [load : BOOLEAN, first : Nat, file : Nat, zero : Nat, last : Nat]
<1>1. Segment \in Seq(R)
  BY LayoutAssumption
<1> HIDE DEF R
<1>2. \A i \in DOMAIN Segment : i \in Nat /\ Segment[i] \in R
  BY <1>1
<1>3. QED
  BY <1>2 DEF R

LEMMA LoadedPages ==
    ASSUME NEW m \in [Page -> Content], NEW p \in Page,
           NEW s \in [load : BOOLEAN, first : Nat, file : Nat, zero : Nat, last : Nat]
    PROVE  /\ p \in s.first..s.file => Loaded(m, s, TRUE)[p] = "image"
           /\ m[p] = "image" /\ p \notin s.zero..s.last /\ s.zero \in {s.file, s.file + 1}
                 => Loaded(m, s, TRUE)[p] = "image"
BY DEF Loaded, Committed

LEMMA LoadingSegment ==
    ASSUME WellFormedElf, TypeOK, Loading, LoadSegment
    PROVE  Loading'
<1> DEFINE s == Segment[seg]
<1>1. PICK ok \in BOOLEAN, copied \in (IF file = "whole" THEN {TRUE} ELSE BOOLEAN) :
          \/ /\ mem' = Loaded(Committed(mem, IF ok THEN s.first..s.last ELSE {}), s, copied)
             /\ seg' = seg + 1
             /\ UNCHANGED pc
          \/ pc' = "crashed"
  BY DEF LoadSegment
<1> DEFINE m == Committed(mem, IF ok THEN s.first..s.last ELSE {})
<1>2. pc = "load" /\ s.load /\ seg \in Nat /\ seg \in DOMAIN Segment /\ file' = file
  BY LayoutAssumption DEF LoadSegment, TypeOK
<1>3. CASE pc' = "crashed"
  BY <1>3 DEF Loading
<1>4. CASE mem' = Loaded(m, s, copied) /\ seg' = seg + 1 /\ pc' = "load"
  <2>1. SUFFICES ASSUME file = "whole", NEW i \in DOMAIN Segment, i < seg', Segment[i].load,
                        NEW p \in (Segment[i].first..Segment[i].file) \cap Page
                 PROVE  mem'[p] = "image"
    BY <1>2, <1>4 DEF Loading
  <2>2. /\ m \in [Page -> Content] /\ copied = TRUE
        /\ mem[p] = "image" => m[p] = "image"
    BY <2>1, CommittedType, CommittedKeeps DEF TypeOK
  <2> HIDE DEF m
  <2>3. s \in [load : BOOLEAN, first : Nat, file : Nat, zero : Nat, last : Nat]
    BY <1>2, Segments
  <2>4. CASE i = seg
    BY <1>4, <2>3, <2>1, <2>2, <2>4, LoadedPages
  <2>5. CASE i < seg
    <3>1. mem[p] = "image"
      BY <1>2, <2>1, <2>5 DEF Loading
    <3>2. p \notin s.zero..s.last /\ s.zero \in {s.file, s.file + 1}
      BY <1>2, <2>1, <2>5, LayoutAssumption DEF WellFormedElf
    <3>3. QED
      BY <1>4, <2>3, <2>1, <2>2, <3>1, <3>2, LoadedPages
  <2>6. i \in Nat /\ (i = seg \/ i < seg)
    BY <1>2, <1>4, <2>1, Segments
  <2>7. QED
    BY <2>4, <2>5, <2>6
<1>5. QED
  BY <1>1, <1>2, <1>3, <1>4

\* A step of main() from the loaded file to the guest.
LEMMA LoadingMain ==
    ASSUME WellFormedElf, TypeInv, Finding, Loading,
           EndLoad \/ RegisterSpu \/ LookUpOn \/ LookUpHit \/ LookUpFail \/ SetUpStack
    PROVE  Loading'
<1>1. TypeOK /\ mem \in [Page -> Content] /\ EntryPage \in Page /\ PmPage \in Page
  BY LayoutAssumption DEF TypeInv, TypeOK
<1>2. CASE EndLoad
  <2>1. CASE pc' = "crashed"
    BY <2>1 DEF Loading
  <2>2. /\ pc' = "spu" \/ pc' = "crashed"
        /\ UNCHANGED <<spu, file, entry>>
        /\ entry.direct \/ find' = Search(IF mem[EntryPage] = "image" THEN entry.addr ELSE 0)
        /\ \A p \in Page : mem[p] = "image" => mem'[p] = "image"
    BY <1>1, <1>2, MainReadsFacts DEF EndLoad, MainReads, bootvars
  <2>3. entry'.direct \/ find'.key = 0 \/ mem'[EntryPage] = "image"
    BY <1>1, <2>2 DEF Search
  <2>4. ASSUME file' = "whole", NEW p \in ImagePages \cap Page PROVE mem'[p] = "image"
    <3>1. PICK i \in DOMAIN Segment :
             Segment[i].load /\ p \in Segment[i].first..Segment[i].file
      BY <2>4, InImage
    <3>2. i < seg
      BY <1>1, <1>2, SegmentLen DEF EndLoad, TypeOK
    <3>3. mem[p] = "image"
      BY <1>2, <2>2, <2>4, <3>1, <3>2 DEF EndLoad, Loading
    <3>4. QED
      BY <2>2, <3>3
  <2>5. QED
    BY <2>1, <2>2, <2>3, <2>4 DEF Loading
<1>3. CASE RegisterSpu
  <2>1. CASE pc' = "crashed"
    BY <2>1 DEF Loading
  <2>2. /\ pc = "spu" /\ pc' \in {"lookup", "crashed"} /\ spu' = mem'[PmPage]
        /\ UNCHANGED <<find, file, entry>>
        /\ \A p \in Page : mem[p] = "image" => mem'[p] = "image"
    BY <1>1, <1>3, MainReadsFacts DEF RegisterSpu, guestvars
  <2>3. file' = "whole" => spu' = "image"
    BY <1>1, <2>2 DEF Loading, WellFormedElf
  <2>4. entry'.direct \/ find'.key = 0 \/ mem'[EntryPage] = "image"
    BY <1>1, <2>2 DEF Loading
  <2>5. QED
    BY <2>1, <2>2, <2>3, <2>4 DEF Loading
<1>4. CASE LookUpOn
  <2>1. /\ pc = "lookup" /\ pc' = "lookup" /\ find'.key = find.key
        /\ UNCHANGED <<mem, spu, file, entry>>
    <3>1. Narrowed(find) /\ find' = Half(find)
      BY <1>4 DEF LookUpOn, Finding
    <3>2. Half(find).key = find.key
      BY <3>1 DEF Narrowed, Within, SearchType, Half
    <3>3. QED
      BY <1>4, <3>1, <3>2 DEF LookUpOn, bootvars
  <2>2. QED
    BY <2>1 DEF Loading
<1>5. CASE LookUpHit
  <2>1. pc = "lookup" /\ pc' = "stack" /\ UNCHANGED <<mem, spu, file, entry>>
    BY <1>5 DEF LookUpHit, bootvars
  <2>2. find.key \in Lifted
    BY <1>5, LookupDecides DEF LookUpHit, Finding
  <2>3. entry.direct \/ mem[EntryPage] = "image"
    BY <2>1, <2>2 DEF Loading, WellFormedElf
  <2>4. QED
    BY <2>1, <2>3 DEF Loading
<1>6. CASE LookUpFail
  BY <1>6 DEF LookUpFail, Loading
<1>7. CASE SetUpStack
  <2>1. PICK ok \in BOOLEAN :
          MainStores(Committed(mem, IF ok THEN StackPages ELSE {}),
                     StackPages, "zero", "argv")
    BY <1>7 DEF SetUpStack
  <2> DEFINE m == Committed(mem, IF ok THEN StackPages ELSE {})
  <2>2. m \in [Page -> Content] /\ \A p \in Page : mem[p] = "image" => m[p] = "image"
    BY <1>1, CommittedType, CommittedKeeps
  <2> HIDE DEF m
  <2>3. MainStores(m, StackPages, "zero", "argv")
    BY <2>1 DEF m
  <2>4. pc' \in {"argv", "crashed"}
    BY <2>3 DEF MainStores
  <2>5. CASE pc' = "crashed"
    BY <2>5 DEF Loading
  <2>6. CASE pc' = "argv"
    <3>1. \A p \in Page : mem'[p] = IF p \in StackPages THEN "zero" ELSE m[p]
      BY <2>2, <2>3, <2>6, MainStored
    <3>2. pc = "stack" /\ UNCHANGED <<file, spu, entry>>
      BY <1>7 DEF SetUpStack, bootvars
    <3>3. \A p \in ImagePages \cap Page : mem[p] = "image" => mem'[p] = "image"
      BY <2>2, <3>1 DEF WellFormedElf
    <3>4. entry'.direct \/ mem'[EntryPage] = "image"
      BY <1>1, <3>2, <3>3 DEF Loading, WellFormedElf
    <3>5. \A p \in StackPages \cap Page : mem'[p] = "zero"
      BY <3>1
    <3>6. file' = "whole" => spu' = "image" /\ \A p \in ImagePages \cap Page : mem'[p] = "image"
      BY <3>2, <3>3 DEF Loading
    <3>7. QED
      BY <2>6, <3>4, <3>5, <3>6 DEF Loading
  <2>7. QED
    BY <2>4, <2>5, <2>6
<1>8. QED
  BY <1>2, <1>3, <1>4, <1>5, <1>6, <1>7

LEMMA LoadingNext ==
    ASSUME WellFormedElf, IInv, Loading, [Next]_vars
    PROVE  Loading'
<1>1. TypeOK /\ TypeInv /\ Finding
  BY DEF IInv, TypeInv
<1>2. CASE UNCHANGED vars
  BY <1>2 DEF vars, bootvars, guestvars, Loading
<1>3. CASE LoadSegment
  BY <1>1, <1>3, LoadingSegment
<1>4. CASE SkipHeader
  <2>1. /\ pc = "load" /\ pc' = "load" /\ seg' = seg + 1 /\ ~Segment[seg].load
        /\ UNCHANGED <<mem, file>> /\ seg \in Nat
    BY <1>1, <1>4, LayoutAssumption DEF SkipHeader, TypeOK
  <2>2. \A i \in DOMAIN Segment : i < seg' /\ Segment[i].load => i < seg
    BY <2>1, LayoutAssumption
  <2>3. QED
    BY <2>1, <2>2 DEF Loading
<1>5. CASE EndLoad \/ RegisterSpu \/ LookUpOn \/ LookUpHit \/ LookUpFail \/ SetUpStack
  BY <1>1, <1>5, LoadingMain
<1>6. CASE OpenElf
  <2>1. pc' \in {"failed", "load"} /\ (pc' = "load" => seg' = 1)
    BY <1>6 DEF OpenElf, bootvars, Loading
  <2>2. QED
    BY <2>1, LayoutAssumption DEF Loading
<1>7. CASE InitVm \/ CommitFixed \/ SetUpArgv
  BY <1>7 DEF InitVm, CommitFixed, SetUpArgv, MainStores, Loading, bootvars
<1>8. CASE \/ \E t \in Thread : \/ \E p \in Touched : BeginAccess(t, p)
                                \/ ThreadStep(t)
           \/ SamplerStep \/ GuestReturns \/ Exit
  <2>1. pc' \in {"guest", "down", "exited", "crashed"}
    BY <1>8 DEF BeginAccess, ThreadStep, Access, Fault, FaultCommit, SayBegin, SayEnd,
       FaultKills, Free, Running, SamplerStep, Suspend, Resume, PrintBegin, PrintEnd, Look,
       Scan, NameOn, Named, Moves, hostvars, GuestReturns, Exit
  <2>2. QED
    BY <2>1 DEF Loading
<1>9. QED
  BY <1>2, <1>3, <1>4, <1>5, <1>6, <1>7, <1>8 DEF Next

LEMMA LoadingInvariant == ASSUME WellFormedElf PROVE Spec => []Loading
<1>1. Init => Loading
  BY DEF Init, Loading
<1>2. IInv /\ Loading /\ [Next]_vars => Loading'
  BY LoadingNext
<1>3. QED
  BY <1>1, <1>2, InductiveInvariant, PTL DEF Spec

\* The step that starts the guest writes the arguments, and nothing else.
LEMMA GuestStarts ==
    ASSUME IInv, [Next]_vars, pc' = "guest", pc # "guest"
    PROVE  /\ pc = "argv" /\ UNCHANGED <<file, spu>>
           /\ \A p \in ArgvPages \cap Page : mem'[p] = "argv"
           /\ \A p \in Page \ ArgvPages : mem[p] # "absent" => mem'[p] = mem[p]
<1>1. SetUpArgv
  BY DEF Next, vars, InitVm, CommitFixed, MainStores, MainReads, OpenElf, LoadSegment, SkipHeader,
     EndLoad, RegisterSpu, LookUpOn, LookUpHit, LookUpFail, SetUpStack, BeginAccess,
     ThreadStep, Access, Fault, FaultCommit, SayBegin, SayEnd, FaultKills, SamplerStep,
     Suspend, Resume, PrintBegin, PrintEnd, Look, Scan, NameOn, Named, Moves, hostvars,
     GuestReturns, Exit
<1>2. PICK ok \in BOOLEAN :
        MainStores(Committed(mem, IF ok THEN ArgvPages ELSE {}), ArgvPages, "argv", "guest")
  BY <1>1 DEF SetUpArgv
<1> DEFINE m == Committed(mem, IF ok THEN ArgvPages ELSE {})
<1>3. mem \in [Page -> Content]
  BY DEF IInv, TypeInv, TypeOK
<1>4. m \in [Page -> Content] /\ \A p \in Page : mem[p] # "absent" => m[p] = mem[p]
  BY <1>3, CommittedType, CommittedKeeps
<1> HIDE DEF m
<1>5. \A p \in Page : mem'[p] = IF p \in ArgvPages THEN "argv" ELSE m[p]
  <2>1. MainStores(m, ArgvPages, "argv", "guest")
    BY <1>2 DEF m
  <2>2. QED
    BY <1>4, <2>1, MainStored
<1>6. QED
  BY <1>1, <1>4, <1>5 DEF SetUpArgv, bootvars

\* For every such ELF, whole or cut short, and whatever vm_commit returned: the guest
\* starts on its image, its stack and its arguments, and the policy module was
\* fingerprinted after it was loaded.
THEOREM GuestStartsReady == ASSUME WellFormedElf PROVE Spec => EntryReady
<1>1. ASSUME IInv, Loading, [Next]_vars, pc' = "guest", pc # "guest"
      PROVE  /\ \A p \in StackPages \cap Page : mem'[p] = "zero"
             /\ \A p \in ArgvPages \cap Page : mem'[p] = "argv"
             /\ ~entry.direct => mem'[EntryPage] = "image"
             /\ file = "whole" =>
                   /\ \A p \in (ImagePages \cap Page) \ ArgvPages : mem'[p] = "image"
                   /\ spu = "image"
  <2>1. /\ pc = "argv"
        /\ \A p \in ArgvPages \cap Page : mem'[p] = "argv"
        /\ \A p \in Page \ ArgvPages : mem[p] # "absent" => mem'[p] = mem[p]
    BY <1>1, GuestStarts
  <2>2. \A p \in StackPages : p \notin ArgvPages
    BY DEF StackPages, ArgvPages
  <2>3. EntryPage \in Page \ ArgvPages
    BY LayoutAssumption DEF WellFormedElf
  <2>4. QED
    BY <1>1, <2>1, <2>2, <2>3 DEF Loading
<1>2. IInv /\ Loading /\ [Next]_vars =>
        [pc' = "guest" /\ pc # "guest" =>
            /\ \A p \in StackPages \cap Page : mem'[p] = "zero"
            /\ \A p \in ArgvPages \cap Page : mem'[p] = "argv"
            /\ ~entry.direct => mem'[EntryPage] = "image"
            /\ file = "whole" =>
                  /\ \A p \in (ImagePages \cap Page) \ ArgvPages : mem'[p] = "image"
                  /\ spu = "image"]_vars
  BY <1>1
<1>3. QED
  BY <1>2, LoadingInvariant, InductiveInvariant, PTL DEF Spec, EntryReady

\* The argument block is the only thing main() lays over the image: for an ELF whose
\* file does not reach it, all of a whole file is there when the guest starts.
THEOREM OnlyArgvHurtsImage ==
    ASSUME WellFormedElf, ImagePages \cap ArgvPages = {}
    PROVE  Spec => ImageIntact
<1>1. ASSUME IInv, Loading, [Next]_vars, pc' = "guest", pc # "guest", file = "whole"
      PROVE  \A p \in ImagePages \cap Page : mem'[p] = "image"
  <2>1. pc = "argv" /\ \A p \in Page \ ArgvPages : mem[p] # "absent" => mem'[p] = mem[p]
    BY <1>1, GuestStarts
  <2>2. QED
    BY <1>1, <2>1 DEF Loading
<1>2. IInv /\ Loading /\ [Next]_vars =>
        [pc' = "guest" /\ pc # "guest" /\ file = "whole" =>
            \A p \in ImagePages \cap Page : mem'[p] = "image"]_vars
  BY <1>1
<1>3. QED
  BY <1>2, LoadingInvariant, InductiveInvariant, PTL DEF Spec, ImageIntact

----------------------------------------------------------------------------
(* Demand paging and a flat memory.                                        *)

\* Memory not yet taken or given back holds nothing; the sampler is touching a page only while it scans the
\* stack; what a thread has begun is an access.
PagingInv ==
    /\ pc \in {"init", "down", "exited", "failed"} => \A p \in Page : mem[p] = "absent"
    /\ want[Sampler] # Idle => smp = "scan"
    /\ \A t \in Host : want[t] # Idle =>
          want[t] \in [page : Page, what : Late \cup {"read"}]
    /\ pc \in Before => \A t \in Host : want[t] = Idle

LEMMA PagingInit == Init => PagingInv
BY HostFacts DEF Init, PagingInv

\* A step of main() that begins no access, and empties memory if it ends.
LEMMA PagingMain ==
    ASSUME PagingInv, UNCHANGED guestvars, pc \in Before \cup {"guest", "down"},
           pc' \in Before => pc \in Before,
           pc' \in {"init", "down", "exited", "failed"} =>
              \A p \in Page : mem'[p] = "absent"
    PROVE  PagingInv'
BY DEF PagingInv, guestvars, Idle

LEMMA PagingStep ==
    ASSUME IInv, PagingInv, [Next]_vars
    PROVE  PagingInv'
<1>1. /\ want \in [Host -> [page : Page \cup {NoPage}, what : Content \cup {"read"}]]
      /\ mem \in [Page -> Content]
      /\ pc \in {"down", "exited", "failed"} => ~up
      /\ Sampler \in Host /\ Thread \subseteq Host /\ Sampler \notin Thread
  BY LayoutAssumption, HostFacts DEF IInv, TypeInv, TypeOK, GivesBack
<1>2. CASE UNCHANGED vars
  BY <1>2 DEF vars, guestvars, PagingInv, Idle
<1>3. CASE \/ InitVm \/ CommitFixed \/ OpenElf \/ LoadSegment \/ SkipHeader \/ RegisterSpu
           \/ LookUpFail \/ SetUpStack \/ SetUpArgv \/ GuestReturns \/ Exit
  <2>1. UNCHANGED guestvars /\ pc \in Before \cup {"guest", "down"}
    BY <1>3 DEF InitVm, CommitFixed, OpenElf, LoadSegment, SkipHeader, RegisterSpu,
       LookUpFail, SetUpStack, SetUpArgv, GuestReturns, Exit, Before
  <2>2. pc' \in Before => pc \in Before
    BY <1>3 DEF InitVm, CommitFixed, OpenElf, LoadSegment, SkipHeader, RegisterSpu,
       LookUpFail, SetUpStack, SetUpArgv, MainStores, MainReads, GuestReturns, Exit, Before
  <2>3. pc' \in {"init", "down", "exited", "failed"} => \A p \in Page : mem'[p] = "absent"
    BY <1>3 DEF InitVm, CommitFixed, OpenElf, LoadSegment, SkipHeader, RegisterSpu,
       LookUpFail, SetUpStack, SetUpArgv, MainStores, MainReads, GuestReturns, Exit,
       Shutdown, PagingInv
  <2>4. QED
    BY <2>1, <2>2, <2>3, PagingMain
<1>4. CASE EndLoad \/ LookUpOn \/ LookUpHit
  BY <1>4 DEF EndLoad, MainReads, LookUpOn, LookUpHit, PagingInv, Idle, Before
<1>5. ASSUME NEW t \in Thread, NEW p \in Touched, BeginAccess(t, p) PROVE PagingInv'
  <2>1. PICK w \in Late \cup {"read"} : want' = [want EXCEPT ![t] = [page |-> p, what |-> w]]
    BY <1>5 DEF BeginAccess, Stored, Late
  <2>2. p \in Page /\ pc \notin Before
    BY <1>5, LayoutAssumption DEF BeginAccess, Free, Running, Before
  <2>3. /\ want'[Sampler] = want[Sampler]
        /\ \A u \in Host : want'[u] = IF u = t THEN [page |-> p, what |-> w] ELSE want[u]
    BY <1>1, <2>1
  <2>4. QED
    BY <1>5, <2>2, <2>3 DEF BeginAccess, PagingInv, Idle
<1>6. ASSUME NEW t \in Host, ThreadStep(t) PROVE PagingInv'
  <2>1. /\ Running
        /\ pc' = pc \/ pc' = "crashed"
        /\ smp' = smp
        /\ \A u \in Host : want'[u] = Idle \/ want'[u] = want[u]
    BY <1>1, <1>6 DEF ThreadStep, Access, Fault, FaultCommit, SayBegin, SayEnd, FaultKills,
       Free, guestvars
  <2>2. pc = "down" => mem' = mem
    BY <1>1, <1>6, <2>1 DEF ThreadStep, Access, Fault, FaultCommit, SayBegin, SayEnd,
       FaultKills, PagingInv
  <2>3. QED
    BY <1>1, <2>1, <2>2 DEF PagingInv, Running, Before
<1>7. ASSUME Look PROVE PagingInv'
  <2>1. PICK p \in Touched :
           want' = [want EXCEPT ![Sampler] = [page |-> p, what |-> "read"]]
    BY <1>7 DEF Look
  <2>2. /\ \A u \in Host :
              want'[u] = IF u = Sampler THEN [page |-> p, what |-> "read"] ELSE want[u]
        /\ p \in Page
    BY <1>1, <2>1, LayoutAssumption
  <2>3. smp' = "scan" /\ pc \notin Before /\ UNCHANGED <<pc, mem>>
    BY <1>7 DEF Look, Moves, Running, hostvars, Before
  <2>4. QED
    BY <2>2, <2>3 DEF PagingInv, Idle
<1>8. CASE Suspend \/ Resume \/ PrintBegin \/ PrintEnd \/ Scan \/ NameOn \/ Named
  <2>1. UNCHANGED <<pc, mem, want>> /\ (want[Sampler] = Idle \/ smp' = "scan")
    BY <1>8 DEF Suspend, Resume, PrintBegin, PrintEnd, Scan, NameOn, Named, Moves,
       hostvars, PagingInv
  <2>2. QED
    BY <2>1 DEF PagingInv, Idle
<1>9. QED
  BY <1>1, <1>2, <1>3, <1>4, <1>5, <1>6, <1>7, <1>8 DEF Next, SamplerStep

\* Storing zeros in a page on demand changes nothing a thread can see.
LEMMA CommitUnseen ==
    ASSUME mem \in [Page -> Content], NEW p, mem' = OnDemand(p)
    PROVE  UNCHANGED Cell
BY DEF OnDemand, Committed, Cell

\* main()'s steps set memory up.
LEMMA SetUpMaps ==
    ASSUME IInv', UNCHANGED want, pc \in Before
    PROVE  Flat!SetUp
<1>1. Cell' \in [Page -> (Content \ {"absent", "zero"}) \cup {"zero"}]
  BY DEF IInv, TypeInv, TypeOK, Cell
<1>2. Phase = "setup" /\ Phase' \in {"setup", "guest", "over"}
  BY DEF Phase, Before
<1>3. QED
  BY <1>1, <1>2 DEF Flat!SetUp

\* An access that gets through is to a page that is there, so memory is not given back.
LEMMA AccessMaps ==
    ASSUME IInv, PagingInv, NEW t \in Host, Access(t)
    PROVE  Flat!Finish(t)
<1>1. mem \in [Page -> Content] /\ want[t] # Idle /\ want[t].page \in Page
  BY DEF Access, IInv, TypeInv, TypeOK, PagingInv
<1>2. mem[want[t].page] # "absent" /\ pc = "guest" /\ pc' = pc
  BY <1>1 DEF Access, Free, Running, PagingInv
<1>3. want[t].what \in Late \cup {"read"}
  BY <1>1 DEF PagingInv
<1>4. Cell' = IF want[t].what = "read" THEN Cell ELSE [Cell EXCEPT ![want[t].page] = want[t].what]
  <2>1. CASE want[t].what = "read"
    BY <2>1 DEF Access, Cell
  <2>2. CASE want[t].what # "read"
    BY <1>1, <1>3, <2>2 DEF Access, Cell, Late
  <2>3. QED
    BY <2>1, <2>2
<1>5. want' = [want EXCEPT ![t] = Idle]
  BY DEF Access
<1>6. QED
  BY <1>1, <1>2, <1>4, <1>5 DEF Flat!Finish, Phase

LEMMA BeginMaps ==
    ASSUME IInv, PagingInv, PagingInv', NEW t \in Host, NEW a, a # Idle,
           want[t] = Idle, want' = [want EXCEPT ![t] = a], UNCHANGED <<pc, mem>>, Running
    PROVE  \E b \in [page : Page, what : (Content \ {"absent", "zero"}) \cup {"read"}] :
              Flat!Begin(t, b)
<1>1. want'[t] = a
  BY DEF IInv, TypeInv, TypeOK
<1>2. a \in [page : Page, what : (Content \ {"absent", "zero"}) \cup {"read"}]
  BY <1>1 DEF PagingInv, Late, Content
<1>3. Phase # "setup" /\ UNCHANGED <<Phase, Cell>>
  BY DEF Phase, Cell, Running
<1>4. QED
  BY <1>2, <1>3 DEF Flat!Begin

\* The process ends, or main() gives memory back.
LEMMA EndMaps ==
    ASSUME UNCHANGED want, pc' \in {"down", "exited", "crashed"}, Running,
           \/ UNCHANGED mem
           \/ mem' = [p \in Page |-> "absent"] /\ pc = "guest"
    PROVE  Flat!End \/ UNCHANGED Flat!vars
<1>1. Cell' = Cell \/ (Cell' = Flat!Empty /\ pc = "guest")
  BY DEF Cell, Flat!Empty
<1>2. Phase' = "over" /\ Phase = IF pc = "guest" THEN "guest" ELSE "over"
  BY DEF Phase, Running
<1>3. QED
  BY <1>1, <1>2 DEF Flat!End, Flat!vars

LEMMA FlatStep ==
    ASSUME IInv, IInv', PagingInv, PagingInv', [Next]_vars
    PROVE  Flat!Next \/ UNCHANGED Flat!vars
<1>1. CASE UNCHANGED <<pc, mem, want>>
  BY <1>1 DEF Flat!vars, Phase, Cell
<1>2. CASE \/ InitVm \/ CommitFixed \/ OpenElf \/ LoadSegment \/ SkipHeader \/ EndLoad
           \/ RegisterSpu \/ LookUpOn \/ LookUpHit \/ LookUpFail \/ SetUpStack \/ SetUpArgv
  <2>1. UNCHANGED want /\ pc \in Before
    BY <1>2 DEF InitVm, CommitFixed, OpenElf, LoadSegment, SkipHeader, EndLoad, RegisterSpu,
       LookUpOn, LookUpHit, LookUpFail, SetUpStack, SetUpArgv, guestvars, Before
  <2>2. QED
    BY <2>1, SetUpMaps DEF Flat!Next
<1>3. ASSUME NEW t \in Thread, NEW p \in Touched, BeginAccess(t, p) PROVE Flat!Next
  <2>1. PICK w : want' = [want EXCEPT ![t] = [page |-> p, what |-> w]]
    BY <1>3 DEF BeginAccess
  <2>2. [page |-> p, what |-> w] # Idle
    BY LayoutAssumption DEF Idle
  <2>3. QED
    BY <1>3, <2>1, <2>2, BeginMaps, HostFacts DEF BeginAccess, Free, Flat!Next
<1>4. ASSUME Look PROVE Flat!Next
  <2>1. PICK p \in Touched :
           want' = [want EXCEPT ![Sampler] = [page |-> p, what |-> "read"]]
    BY <1>4 DEF Look
  <2>2. [page |-> p, what |-> "read"] # Idle /\ want[Sampler] = Idle
    BY <1>4, LayoutAssumption DEF Idle, Look, Moves, PagingInv
  <2>3. QED
    BY <1>4, <2>1, <2>2, BeginMaps, HostFacts DEF Look, Moves, hostvars, Flat!Next
<1>5. ASSUME NEW t \in Host, ThreadStep(t) PROVE Flat!Next \/ UNCHANGED Flat!vars
  <2>1. CASE Access(t)
    BY <2>1, AccessMaps DEF Flat!Next
  <2>2. CASE FaultCommit(t)
    <3>1. UNCHANGED Cell /\ UNCHANGED <<pc, want>>
      BY <2>2, CommitUnseen DEF FaultCommit, IInv, TypeInv, TypeOK
    <3>2. QED
      BY <3>1 DEF Flat!vars, Phase
  <2>3. CASE FaultKills(t)
    BY <2>3, EndMaps DEF FaultKills, Free, guestvars, Flat!Next
  <2>4. CASE Fault(t) \/ SayBegin(t) \/ SayEnd(t)
    BY <2>4, <1>1 DEF Fault, SayBegin, SayEnd
  <2>5. QED
    BY <1>5, <2>1, <2>2, <2>3, <2>4 DEF ThreadStep
<1>6. ASSUME GuestReturns \/ Exit PROVE Flat!Next \/ UNCHANGED Flat!vars
  BY <1>6, EndMaps DEF GuestReturns, Exit, Shutdown, Running, guestvars, Flat!Next
<1>7. CASE Suspend \/ Resume \/ PrintBegin \/ PrintEnd \/ Scan \/ NameOn \/ Named
  BY <1>1, <1>7 DEF Suspend, Resume, PrintBegin, PrintEnd, Scan, NameOn, Named, hostvars
<1>8. CASE UNCHANGED vars
  BY <1>1, <1>8 DEF vars, guestvars
<1>9. QED
  BY <1>2, <1>3, <1>4, <1>5, <1>6, <1>7, <1>8, HostFacts DEF Next, SamplerStep

\* For every layout and any number of threads faulting on the same pages: what the guest
\* sees of demand paging is a flat memory in which every access is one step.
THEOREM PagingIsUnseen == Spec => MemoryIsFlat
<1>1. Init => Flat!Init
  BY DEF Init, Flat!Init, Flat!Empty, Phase, Cell
<1>2. IInv /\ IInv' /\ PagingInv /\ PagingInv' /\ [Next]_vars => [Flat!Next]_(Flat!vars)
  BY FlatStep
<1>3. IInv /\ PagingInv /\ [Next]_vars => PagingInv'
  BY PagingStep
<1>4. QED
  BY <1>1, <1>2, <1>3, PagingInit, InductiveInvariant, PTL
     DEF Spec, MemoryIsFlat, Flat!Spec

=============================================================================
