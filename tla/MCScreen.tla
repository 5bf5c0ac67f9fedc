------------------------------ MODULE MCScreen -------------------------------
\* Sizes for checking Screen with TLC: growing, shrinking, a front end that
\* asks for no rows at all.
EXTENDS Screen

CONSTANTS a, W

MCSizes == {<<2, 2>>, <<3, 2>>, <<1, 3>>, <<0, 3>>}
=============================================================================
