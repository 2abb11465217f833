----------------------------- MODULE MCSession ------------------------------
\* Instances of Session for TLC.  Sizes are in blocks: 1 for a GameCube disc, 3
\* and 5 for the two Wii discs.
EXTENDS Session

\* Just a device.
Plain ==
  [device |-> TRUE, raw_in |-> FALSE, outs |-> {}, autodump |-> FALSE, resume |-> FALSE,
   allmethods |-> FALSE, stop_unit |-> FALSE, disctype |-> Unset, sectors_no |-> Unset,
   command |-> Unset, dump_method |-> Unset]

\* Dumps as a user may ask for them, with every forced type and a forced size,
\* method or command.
Dumps ==
  {[Plain EXCEPT !.outs = outs, !.resume = s, !.disctype = t] :
     outs \in {{"iso"}, Outputs}, s \in BOOLEAN, t \in DiscTypes \cup {Unset}}
  \cup {[Plain EXCEPT !.outs = Outputs, !.sectors_no = 1],
        [Plain EXCEPT !.autodump = TRUE, !.dump_method = 3],
        [Plain EXCEPT !.outs = {"raw"}, !.command = 3]}

TryAll(t) == [Plain EXCEPT !.allmethods = TRUE, !.outs = Outputs, !.disctype = t]

\* The other things a command line may ask for, senseless ones among them.
Others ==
  {Plain, [Plain EXCEPT !.stop_unit = TRUE],
   [Plain EXCEPT !.allmethods = TRUE, !.autodump = TRUE],
   [Plain EXCEPT !.autodump = TRUE, !.outs = {"iso"}],
   [Plain EXCEPT !.device = FALSE]}
  \cup {[Plain EXCEPT !.device = FALSE, !.raw_in = TRUE, !.outs = outs] :
          outs \in SUBSET Outputs}

SomeCommandLines == Dumps \cup Others \cup {TryAll(Unset), TryAll(DISC_TYPE_DVD)}

\* A Hitachi drive, which does without methods 0 to 6; a drive nobody knows, that
\* needs command 3; one that works as it is.
SomeDrives ==
  {[command |-> 2, def_method |-> 9, works |-> {2} \X (7 .. 9)],
   [command |-> 0, def_method |-> 0, works |-> {<<3, 5>>}],
   [command |-> 3, def_method |-> 5, works |-> {3} \X (4 .. 6)]}

OddDrive == {[command |-> 0, def_method |-> 0, works |-> {<<3, 5>>}]}

\* The game discs, and a DVD.
SomeDiscs ==
  {[type |-> DISC_TYPE_GAMECUBE, size |-> DISC_GAMECUBE_SECTORS_NO],
   [type |-> DISC_TYPE_WII, size |-> DISC_WII_SECTORS_NO_SL],
   [type |-> DISC_TYPE_WII_DL, size |-> DISC_WII_SECTORS_NO_DL],
   [type |-> DISC_TYPE_DVD, size |-> 4]}

OneTry == {TryAll(Unset)}
OneDisc == {[type |-> DISC_TYPE_WII, size |-> DISC_WII_SECTORS_NO_SL]}
=============================================================================
