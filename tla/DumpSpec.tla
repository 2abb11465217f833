------------------------------ MODULE DumpSpec ------------------------------
(***************************************************************************)
(* What a user of FriiDump may rely on, without buffers, control flow or   *)
(* hash states: a set of output files, each always the beginning of the    *)
(* disc image 0, 1, 2, ..., and a report of success that is only made for  *)
(* complete files.  libfriidump/dumper.c implements it as long as no write *)
(* fails (Dumper!ImplementsPromise).                                       *)
(***************************************************************************)
EXTENDS Integers, Sequences

CONSTANTS Outputs, SECTORS_PER_BLOCK

VARIABLES
  file,      \* contents of each output file, two units to a sector
  wanted,    \* the outputs the current process was asked for
  size,      \* the sectors it was asked for
  resumed,   \* was it allowed to continue from existing files
  running,   \* is there such a process
  success,   \* has it reported success
  printed    \* the contents whose hash it printed for each output

vars == <<file, wanted, size, resumed, running, success, printed>>

IsImage(s) == \A k \in 1 .. Len(s) : s[k] = k - 1
Nothing    == [o \in Outputs |-> <<>>]

Init ==
  /\ file = Nothing /\ wanted \subseteq Outputs /\ size \in Nat
  /\ resumed \in BOOLEAN /\ ~running /\ ~success /\ printed = Nothing

Start ==
  /\ ~running /\ running'
  /\ wanted' \subseteq Outputs /\ size' \in Nat /\ resumed' \in BOOLEAN
  /\ ~success' /\ printed' = Nothing
  /\ UNCHANGED file

\* One file that was asked for gets longer, by what comes next on the disc.
Grow(o) ==
  /\ o \in wanted
  /\ Len(file'[o]) >= Len(file[o]) /\ IsImage(file'[o])
  /\ file' = [file EXCEPT ![o] = file'[o]]

\* A resuming process takes back the end of one file, to a block boundary.
Shrink(o) ==
  /\ o \in wanted /\ resumed
  /\ \E b \in 0 .. Len(file[o]) :
       /\ b % (2 * SECTORS_PER_BLOCK) = 0
       /\ file' = [file EXCEPT ![o] = SubSeq(@, 1, b)]

Work ==
  /\ running /\ running' /\ \E o \in wanted : Grow(o) \/ Shrink(o)
  /\ UNCHANGED <<wanted, size, resumed, success, printed>>

\* The process ends.  Its last write may still be in this step.
Finish ==
  /\ running /\ ~running'
  /\ file' = file \/ \E o \in wanted : Grow(o)
  /\ success' => \A o \in wanted : Len(file'[o]) >= 2 * size
  /\ printed' = Nothing \/ (success' /\ \A o \in wanted : printed'[o] = file'[o])
  /\ UNCHANGED <<wanted, size, resumed>>

Next == Start \/ Work \/ Finish

Spec == Init /\ [][Next]_vars
=============================================================================
