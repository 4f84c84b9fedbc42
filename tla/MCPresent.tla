------------------------------ MODULE MCPresent ------------------------------
\* Small instances of Present for TLC.
EXTENDS Present

\* On time, late by part of a period, by a period, and by more than the cap; a present
\* that fits its period, and one that overruns it.
ScaledWakes == {1, 2, 5, 13}
ScaledStalls == {0, 3, 5}
=============================================================================
