--------------------------- MODULE MCHistoryScreen ---------------------------
\* Sizes for checking HistoryScreen with TLC.
EXTENDS HistoryScreen

CONSTANTS a, W

MCSizes == {<<1, 2>>, <<3, 2>>, <<2, 1>>, <<0, 3>>}
=============================================================================
