--------------------------- MODULE SectorService ----------------------------
(***************************************************************************)
(* What disc_read_sector promises to disc_init and to the dumper: a sector *)
(* that is asked for is answered with that sector or with a failure (or    *)
(* with one of the second layer, which nothing checks), and a dump goes    *)
(* through the sectors one by one, up to the first failure, after which it  *)
(* may start anew.  Sectors that were hashed are only handed to disc_init.  *)
(***************************************************************************)
EXTENDS Integers

CONSTANTS Failed, None, Spoilt

VARIABLES asked, dumping, answer, layer_break

vars == <<asked, dumping, answer, layer_break>>

Init == asked = 0 /\ dumping = FALSE /\ answer = None /\ layer_break \in Nat

Answer ==
  /\ answer = None
  /\ \/ answer' \in {asked, Failed}
     \/ answer' \in Nat /\ answer' >= layer_break
     \/ answer' = Spoilt /\ ~dumping
  /\ UNCHANGED <<asked, dumping, layer_break>>

\* disc_init asks for what it likes and leaves the rest to the dump.
Ask ==
  /\ answer # None /\ (~dumping \/ answer = Failed)
  /\ asked' \in Nat /\ dumping' \in BOOLEAN
  /\ answer' = None
  /\ UNCHANGED layer_break

AskNext ==
  /\ dumping /\ answer \notin {None, Failed}
  /\ asked' = asked + 1
  /\ answer' = None
  /\ UNCHANGED <<dumping, layer_break>>

Next == Answer \/ Ask \/ AskNext

Spec == Init /\ [][Next]_vars
=============================================================================
