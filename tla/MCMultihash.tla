---------------------------- MODULE MCMultihash -----------------------------
\* An instance of Multihash for TLC: blocks of 4 bytes of which 2 hold the
\* length, counters of bits that overflow after 4 bytes and once more after 128,
\* chunks of 6 bytes.  Updates are shorter and longer than each of these.
EXTENDS Multihash

SomeLengths == {1, 3, 4, 9, 14}
=============================================================================
