---------------------------- MODULE MCTerminate -----------------------------
\* Constants for checking Terminate with TLC.
EXTENDS Terminate

CONSTANTS c0

\* terminate() acts on one handle, and nobody clones it.
MCOne == {Main}
=============================================================================
