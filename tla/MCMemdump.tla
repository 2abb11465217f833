---------------------------- MODULE MCMemdump -----------------------------
\* Instances of Memdump for TLC.
EXTENDS Memdump

\* Bytes of the header, at both sides of a row's end, and of the EDC.
SomeWatched == {0, 1, 171, 172, 2060}

\* A block, and a dump of two pieces.
SomeSteps == {16, 28}

\* One run of sectors, or two with a break at, before or after the end of a piece.
Slots == 0 .. 80
Broken(b) == [k \in Slots |-> IF k < b THEN 1000 + k ELSE 2000 + k]
SomeRams == {Broken(b) : b \in {1, 26, 27, 81}}

\* Root, a user with a set-uid program, and one without.
SomeUsers ==
  {[uid |-> 0, setuid |-> FALSE], [uid |-> 5, setuid |-> TRUE],
   [uid |-> 5, setuid |-> FALSE]}
=============================================================================
