--------------------------- MODULE MCReadGeometry ---------------------------
EXTENDS ReadGeometry

\* Not given, too small, the bounds, too large.
SomeSecDiscs == {-1, 0, 100, 101}

\* Every value init_range accepts, the two next to them and a far one.
AllSecMems == {-1, 255} \cup 15 .. 101

\* One method of each default.
TwoMethods == {3, 5}
=============================================================================
