------------------------------ MODULE ProbeRows -------------------------------
(***************************************************************************)
(* The counted lines of the two hooks (src/gt5p_allocwatch.cpp) and of the *)
(* calls made from inside lifted code (src/gt5p_bbcount.cpp): branches     *)
(* that print while a counter of their own, shared by all threads, is      *)
(* below a limit.  A row says where the branch is, for which functions,    *)
(* and what else has to hold for it to be reached.                         *)
(***************************************************************************)
EXTENDS Naturals

\* at |-> TRUE: the branch fires once, when its counter reaches the limit.
\* blank |-> TRUE: what it would print is looked at when the counter has moved, and
\* may be nothing (an empty string, no device).
Row(tag, side, who, gate, limit) ==
    [tag |-> tag, side |-> side, who |-> who, gate |-> gate, limit |-> limit,
     at |-> FALSE, blank |-> FALSE]
Blank(row) == [row EXCEPT !.blank = TRUE]

Side == {"pre",    \* the entry hook, gt5p_alloc_pre
         "note",   \* the return hook, gt5p_alloc_note
         "body"}   \* a call from inside the function
Gate == {"none",
         "data",     \* the arguments or guest memory decide
         "expand",   \* g_expand_obj is set, and the arguments decide
         "pump",     \* g_in_pump, and the arguments decide
         "fsinit",   \* g_in_fsinit
         "flcheck",  \* the free-list count differs from the one on entry
         "level"}    \* watch_level() is not 0, and the arguments decide

\* The entry hook.
Arena620   == Row("arena-620", "pre", {"006A4400"}, "data", 1)
ExpandPeer == Row("expand-peer", "pre", {"009200F0", "0091EFD0"}, "none", 8)
Expand     == Row("expand", "pre", {"00954200", "009542E0"}, "expand", 300)
Task       == Row("task", "pre", {"00687F90"}, "none", 4)
Activate   == Row("activate", "pre", {"0068DA68"}, "none", 3)
Sync       == Row("sync", "pre", {"009542E0", "00954200"}, "data", 400)
Open17     == Row("open17", "pre", {"00926708", "00920EA8"}, "none", 6)
CountCall  == Row("count", "pre", {"006A3D70"}, "none", 400)
WorkerPred == Row("worker pred", "pre", {"0091B480"}, "none", 30)
WorkerStep == Row("worker step", "pre", {"00917380"}, "none", 30)
Dev        == Blank(Row("dev", "pre", {"0091B780"}, "none", 2))
DloadStep  == Row("dload step", "pre", {"0091B638"}, "none", 12)
DloadEnds  == Row("dload", "pre", {"0091BBA8", "0091BAD8"}, "none", 20)
Str        == Blank(Row("str", "pre", {"009FF5B0"}, "pump", 200))
Cfg        == Row("cfg", "pre", {"00013C98", "00A02BA8"}, "fsinit", 30)
Resolve    == Row("resolve", "pre", {"007D5268"}, "none", 3)
Log        == Blank(Row("log", "pre", {"008AF6C8"}, "data", 400))

\* The return hook.
Cd504      == Row("cd504", "note", {"006CD504"}, "none", 20)
Cap        == Row("cap", "note", {"006CF080"}, "none", 40)
Look       == Row("look", "note", {"006CD570", "006CF50C", "006CF6A4", "006CF57C",
                                   "006CEC74", "006C5B60"}, "none", 4000)
Enum       == Row("enum", "note", {"006A3D70"}, "none", 40)
EnumNext   == Row("enum next", "note", {"006A3D14"}, "none", 14)
FlCheck    == Row("flcheck", "note", {"006A4400", "006C2D5C"}, "flcheck", 8)
Big        == Row("big", "note", {"0094FF30"}, "data", 14)
Giant      == Row("giant", "note", {"0094FF30"}, "data", 1)
PumpStep   == Row("pump step", "note", {"007D1B60"}, "none", 6)
CfgGet     == Row("cfg get", "note", {"00013C98"}, "none", 8)
ArenaBig   == Row("arena-big", "note", {"006A4400"}, "level", 3)
Impossible == Row("impossible", "note", {"0094FF30", "00937EF0"}, "level", 4)

\* Calls made from inside lifted code.
Setup      == Row("setup", "body", {"00956D20"}, "none", 12)
Layout     == Row("layout", "body", {"006679A0"}, "none", 6)
FreeNode   == Row("freelist", "body", {"00950650"}, "data", 4)
Descr      == Row("descr", "body", {"006C2D5C"}, "none", 400)
Cf080      == Row("cf080", "body", {"006CF080"}, "none", 24)
Hot        == [Row("bb", "body", {"00956D20"}, "none", 200000000) EXCEPT !.at = TRUE]

AllRows ==
    {Arena620, ExpandPeer, Expand, Task, Activate, Sync, Open17, CountCall, WorkerPred,
     WorkerStep, Dev, DloadStep, DloadEnds, Str, Cfg, Resolve, Log}
    \cup {Cd504, Cap, Look, Enum, EnumNext, FlCheck, Big, Giant, PumpStep, CfgGet,
          ArenaBig, Impossible}
    \cup {Setup, Layout, FreeNode, Descr, Cf080, Hot}

\* func_00917208 is the drain; once it has been entered, entries and returns of these
\* functions are printed ("> name", "< name").
Drain == "00917208"
DrainNames ==
    {"0091B480", "00916E40", "00917158", "009169F8", "0091B4F0", "0091BAD8", "00947A68",
     "0095A298", "0095A0F0", "0091D468", "0091E348", "0091D530", "0091D5A0", "0091D620",
     "0091D690", "0091D720", "0091D7A0", "0091D828", "0091E37C", "0091D510", "00925F60",
     "00916DD0", "00938DA0", "00951CA8", "00938BE8", "0093BF70", "00918C48", "009200F0",
     "00920198", "00919060", "00920220", "00957C88", "00956D20", "00956C58", "00A0A458",
     "0091FBA8", "0091FF30", "00918B88", "0091FD78", "0091FCC8"}

FsInit == "00014B58"
Pump == "00013060"
Allocator == "0094FF30"
Bracketed == {"006A4400", "006C2D5C"}
=============================================================================
