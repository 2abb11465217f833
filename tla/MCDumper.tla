------------------------------ MODULE MCDumper ------------------------------
\* Instances of Dumper for TLC: sets of command lines.
EXTENDS Dumper

Cmd(outs, resume, hashing, flushing, n) ==
  [outs |-> outs, resume |-> resume, hashing |-> hashing,
   flushing |-> flushing, sectors_no |-> n]

\* Any choice of outputs and options; a disc of 5 sectors, or 3 of them when
\* the size is forced.
AnyCommand ==
  {Cmd(outs, r, h, f, n) : outs \in SUBSET Outputs \ {{}}, r \in BOOLEAN,
     h \in BOOLEAN, f \in BOOLEAN, n \in {3, 5}}

\* The usual command line: both outputs, hashes, flushing.
BothOutputs == {Cmd(Outputs, r, TRUE, TRUE, 5) : r \in BOOLEAN}
=============================================================================
