-------------------------------- MODULE MCBoot -------------------------------
\* A few pages of this title's map for TLC: the last page of the R-X image
\* (0x00010000 on, 15.9 MB) with the policy module at 0x00F4CB80, and the argument
\* block inside it; of the RW segment at 0x00F50000 the page of the entry
\* descriptor, 0x00F9D690, the last file page and the zero tail; the GCM page, the
\* main stack inside local memory, and a page nothing commits.
EXTENDS Boot

Text == [load |-> TRUE, first |-> 1, file |-> 244, zero |-> 245, last |-> 244]
Data == [load |-> TRUE, first |-> 245, file |-> 259, zero |-> 259, last |-> 280]
Tls  == [load |-> FALSE, first |-> 259, file |-> 259, zero |-> 259, last |-> 259]

TitleSegments == <<Text, Data, Tls>>
TitlePages == {240, 244, 249, 259, 280, 768, 4096, 53216}
BusyPages == {4096, 53216}

\* Four functions, so that both searches take every turn; an entry in the table, by its
\* descriptor as in this title, and one between two functions, by either.
Functions == <<2, 4, 6, 8>>
Entries == {[addr |-> 4, direct |-> FALSE], [addr |-> 5, direct |-> FALSE],
            [addr |-> 5, direct |-> TRUE]}
Words == {1, 7}

\* The title's map is one the loader is made for.
ASSUME TitleAssumption == WellFormedElf
=============================================================================
