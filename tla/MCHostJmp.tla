------------------------------ MODULE MCHostJmp ------------------------------
\* Small instances of HostJmp for TLC: values for EA, which a .cfg cannot write
\* as one constant shared by several runs.
EXTENDS HostJmp

\* 24 and 32 round up to the same buffer, 16 is another.
TwoBuffers == {16, 24, 32}
OneBuffer == {16}
=============================================================================
