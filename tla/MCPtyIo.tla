------------------------------ MODULE MCPtyIo -------------------------------
\* Readers for checking PtyIo with TLC.
EXTENDS PtyIo

CONSTANTS r1, r2

=============================================================================
