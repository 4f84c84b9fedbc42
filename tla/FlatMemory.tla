----------------------------- MODULE FlatMemory -----------------------------
(***************************************************************************)
(* Guest memory as the guest's threads are to see it: every page is there, *)
(* holds zeros until something is stored, and then what was stored last.   *)
(* No page is committed, and none faults.                                  *)
(***************************************************************************)
EXTENDS Naturals

CONSTANTS Page,    \* the pages of guest memory
          Host,    \* the threads that touch it
          Value,   \* what a store leaves in a page
          Idle     \* a thread that is not touching memory

VARIABLES phase,   \* "setup": main() is alone; "guest": threads run; "over": given back
          cell,    \* cell[p]: what page p holds
          want     \* want[t]: the access thread t has begun

vars == <<phase, cell, want>>

Empty == [p \in Page |-> "zero"]

Init == phase = "setup" /\ cell = Empty /\ want = [t \in Host |-> Idle]

\* main() lays out memory as it likes, starts the guest, or gives up.
SetUp == /\ phase = "setup"
         /\ phase' \in {"setup", "guest", "over"}
         /\ cell' \in [Page -> Value \cup {"zero"}]
         /\ UNCHANGED want

Begin(t, a) == /\ phase # "setup" /\ want[t] = Idle
               /\ want' = [want EXCEPT ![t] = a]
               /\ UNCHANGED <<phase, cell>>

\* An access is one step, whatever other threads have begun.
Finish(t) == /\ phase = "guest" /\ want[t] # Idle
             /\ cell' = IF want[t].what = "read" THEN cell
                        ELSE [cell EXCEPT ![want[t].page] = want[t].what]
             /\ want' = [want EXCEPT ![t] = Idle]
             /\ UNCHANGED phase

\* Memory is given back as a whole, or the process ends with it.
End == /\ phase = "guest" /\ phase' = "over"
       /\ cell' \in {cell, Empty}
       /\ UNCHANGED want

Next == \/ SetUp \/ End
        \/ \E t \in Host : \/ Finish(t)
                           \/ \E a \in [page : Page, what : Value \cup {"read"}] : Begin(t, a)

Spec == Init /\ [][Next]_vars
=============================================================================
