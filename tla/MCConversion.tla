---------------------------- MODULE MCConversion ----------------------------
\* Instances of Conversion for TLC: discs and images with three slots.
EXTENDS Conversion, TLC

\* A disc as docs/README.technical:124 has it: a seed for each slot, and one
\* more for the first block.
OneDisc == (0 :> {0, 1}) @@ (1 :> {2}) @@ (2 :> {1})

\* All slots are full.
FullDisc == (0 :> {0, 1}) @@ (1 :> {1, 2}) @@ (2 :> {0, 2})

\* More seeds for a slot than it has places, and one that is never tried.
ManySeeds == (0 :> {3}) @@ (1 :> {0, 1, 2}) @@ (2 :> {0, 2})

\* The image of a dump.
Unscrambled == (0 :> {0}) @@ (1 :> {0}) @@ (2 :> {0})

SomeDiscs == {OneDisc, FullDisc, ManySeeds, Unscrambled}
=============================================================================
