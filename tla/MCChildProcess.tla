--------------------------- MODULE MCChildProcess ---------------------------
\* Model values for checking ChildProcess with TLC.
EXTENDS ChildProcess

CONSTANTS h1, h2, h3, c0, TERM

MCThree == {h1, h2, h3}

=============================================================================
