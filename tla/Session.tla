------------------------------ MODULE Session -------------------------------
(***************************************************************************)
(* A run of src/friidump.c from its command line to its exit status: the   *)
(* options, the choice of the memory dump command and of the read method,  *)
(* disc_init of libfriidump/disc.c, the dump, and the option -A, which goes *)
(* through dologic for one method after the other.                         *)
(*                                                                         *)
(* Reading sectors is taken from DiscRead (a read succeeds with a sector of *)
(* the disc or fails), dumping from Dumper (the files hold the first       *)
(* sectors of the disc).  Sizes count blocks of sectors, in which a resume *)
(* goes on.                                                                *)
(*                                                                         *)
(* Operators whose names end in Slip are what a programming slip would     *)
(* have made of the operator they precede.                                 *)
(***************************************************************************)
EXTENDS Integers

CONSTANTS
  CommandLines,                 \* see OptionsType
  Drives,                       \* see DriveType
  Discs,                        \* see DiscType
  DISC_GAMECUBE_SECTORS_NO, DISC_WII_SECTORS_NO_SL, DISC_WII_SECTORS_NO_DL,
  Beyond,                       \* how far beyond an end the drive is probed
  ProbeFaults,                  \* may a drive answer disc_detect_type wrongly
  SenseCleared,                 \* dvd_execute_cmd zeroes the sense data before
                                \* a command, as that of Windows does
  SetupFaults                   \* may setting up the output files fail

DISC_TYPE_GAMECUBE == 0
DISC_TYPE_WII      == 1
DISC_TYPE_WII_DL   == 2
DISC_TYPE_DVD      == 3
DiscTypes == {DISC_TYPE_GAMECUBE, DISC_TYPE_WII, DISC_TYPE_WII_DL, DISC_TYPE_DVD}
Outputs   == {"raw", "iso"}

Commands == 0 .. 4
Methods  == 0 .. 9
DEFAULT_READ_METHOD == 0
Unset == -1             \* an option that was not given

\* struct options: -d, -u, -r or -i, -a, -s, -A, -p, -T, -S, -c and -0 to -9.
OptionsType ==
  [device : BOOLEAN, raw_in : BOOLEAN, outs : SUBSET Outputs,
   autodump : BOOLEAN, resume : BOOLEAN, allmethods : BOOLEAN,
   stop_unit : BOOLEAN, disctype : DiscTypes \cup {Unset},
   sectors_no : Nat \cup {Unset}, command : Commands \cup {Unset},
   dump_method : Methods \cup {Unset}]

\* What dvd_assign_functions knows of a model, and the commands and methods
\* that really read discs with it.
DriveType ==
  [command : Commands, def_method : Methods, works : SUBSET (Commands \X Methods)]

\* What the disc is and how many sectors it has.
DiscType == [type : DiscTypes, size : Nat]

ASSUME SessionAssumption ==
  /\ CommandLines \subseteq OptionsType
  /\ Drives \subseteq DriveType /\ Discs \subseteq DiscType
  /\ DISC_GAMECUBE_SECTORS_NO \in Nat /\ DISC_WII_SECTORS_NO_SL \in Nat
  /\ DISC_WII_SECTORS_NO_DL \in Nat /\ Beyond \in Nat
  /\ DISC_GAMECUBE_SECTORS_NO + Beyond < DISC_WII_SECTORS_NO_SL
  /\ DISC_WII_SECTORS_NO_SL + Beyond < DISC_WII_SECTORS_NO_DL
  /\ ProbeFaults \in BOOLEAN /\ SenseCleared \in BOOLEAN /\ SetupFaults \in BOOLEAN

\* Game discs come in three sizes.
ASSUME SizesAssumption ==
  \A disc \in Discs : disc.type # DISC_TYPE_DVD =>
    disc.size \in {DISC_GAMECUBE_SECTORS_NO, DISC_WII_SECTORS_NO_SL, DISC_WII_SECTORS_NO_DL}

VARIABLES
  drive, medium,        \* one of Drives and one of Discs, for good
  options,              \* -A uses two of its fields as loop counters
  pc,
  command,              \* the memory dump command of the drive
  disctype,             \* the global of unscrambler.c
  type, sectors_no, read_method,        \* of the disc structure
  cached,               \* as what types of disc the sectors in the cache were
                        \* unscrambled
  existing,             \* the output files that exist
  held,                 \* the blocks they hold
  out,                  \* what dologic or the conversion returned
  completed,            \* "Dump completed successfully!" was said
  tried,                \* history: the commands and methods of dologic so far
  misled                \* history: the type was chosen for stale sense data

hardware == <<drive, medium>>
d        == <<type, sectors_no, read_method, misled>>
files    == <<existing, held>>
said     == <<out, completed>>
vars     == <<hardware, options, pc, command, disctype, d, cached, files, said, tried>>

\* An int that nobody has set; 2 stands for all that is neither TRUE nor FALSE.
Uninitialized == 0 .. 2

Init ==
  /\ drive \in Drives /\ medium \in Discs
  /\ options \in CommandLines
  /\ pc = "optparse"
  /\ command = 0 /\ disctype = 0
  /\ type = 0 /\ sectors_no = 0 /\ read_method = 0
  /\ cached = {}
  \* files of an earlier run
  /\ existing \in SUBSET Outputs
  /\ held \in IF existing = {} THEN {0} ELSE {0, 1}
  /\ out = 0 /\ completed = FALSE
  /\ tried = {} /\ misled = FALSE

-----------------------------------------------------------------------------
\* optparse and its sanity checks.

Sensible ==
  /\ options.device \/ options.raw_in
  /\ ~(options.raw_in /\ "raw" \in options.outs)
  /\ ~(options.autodump /\ options.outs # {})

\* -a and -A imply -s.
ImpliedResumeSlip == options.resume \/ options.autodump
ImpliedResume == options.resume \/ options.autodump \/ options.allmethods

\* -T tells the unscrambler at once.
ForcedLayoutSlip == disctype
ForcedLayout == IF options.disctype # Unset THEN options.disctype ELSE disctype

optparse ==
  /\ pc = "optparse"
  /\ options' = [options EXCEPT !.resume = ImpliedResume]
  /\ disctype' = ForcedLayout
  /\ pc' = IF ~Sensible THEN "over" ELSE IF options.device THEN "new" ELSE "convert"
  /\ UNCHANGED <<hardware, command, d, cached, files, said, tried>>

\* unscrambler_unscramble_file; without an output file it fails.
Convert ==
  /\ pc = "convert"
  /\ out' \in IF "iso" \in options.outs THEN {0, 1} ELSE {0}
  /\ pc' = "over"
  /\ UNCHANGED <<hardware, options, command, disctype, d, cached, files, completed, tried>>

-----------------------------------------------------------------------------
\* main: disc_new with dvd_assign_functions, and the loops of -A.

disc_new ==
  /\ pc = "new"
  /\ command' = IF options.command # Unset THEN options.command ELSE drive.command
  /\ read_method' = DEFAULT_READ_METHOD
  /\ IF options.allmethods
     THEN options' = [options EXCEPT !.command = 0, !.dump_method = 0]
     ELSE UNCHANGED options
  /\ pc' = "spin up"
  /\ UNCHANGED <<hardware, disctype, type, sectors_no, misled, cached, files, said, tried>>

\* The device cannot be opened.
disc_new_fails ==
  /\ pc = "new"
  /\ pc' = "over"
  /\ UNCHANGED <<hardware, options, command, disctype, d, cached, files, said, tried>>

\* The combination after the present one, command 5 being the end.
NextCombinationSlip ==
  IF options.dump_method <= 9
  THEN <<options.command, options.dump_method + 1>>
  ELSE <<options.command + 1, 0>>
NextCombination ==
  IF options.dump_method < 9
  THEN <<options.command, options.dump_method + 1>>
  ELSE <<options.command + 1, 0>>

\* dologic has returned to the loops of -A.
NextMethod ==
  /\ pc = "returned" /\ options.allmethods /\ out # 1
  /\ options' = [options EXCEPT !.command = NextCombination[1],
                                !.dump_method = NextCombination[2]]
  /\ pc' = IF options'.command > 4 THEN "over" ELSE "spin up"
  /\ UNCHANGED <<hardware, command, disctype, d, cached, files, said, tried>>

\* disc_destroy and the exit of main, with out as the exit status.
Exit ==
  /\ pc = "returned" /\ (options.allmethods => out = 1)
  /\ pc' = "over"
  /\ UNCHANGED <<hardware, options, command, disctype, d, cached, files, said, tried>>

-----------------------------------------------------------------------------
\* dologic.

\* What it returns is the exit status when main ends.
Return(value) == out' = value /\ pc' = "returned"

disc_stop_unit ==
  /\ pc = "spin up"
  /\ pc' = IF options.stop_unit THEN "over" ELSE "set up"
  /\ UNCHANGED <<hardware, options, command, disctype, d, cached, files, said, tried>>

\* disc_set_read_method: what is not a method is the default of the drive.
MethodSetSlip(m) == IF m \in 0 .. 8 THEN m ELSE drive.def_method
MethodSet(m) == IF m \in Methods THEN m ELSE drive.def_method

SetMethod ==
  /\ pc = "set up"
  /\ read_method' = MethodSet(options.dump_method)
  /\ options' = [options EXCEPT !.dump_method = read_method']
  /\ tried' = tried \cup {<<command, read_method'>>}
  /\ pc' = "detect"
  /\ UNCHANGED <<hardware, command, disctype, type, sectors_no, misled, cached, files, said>>

\* What disc_detect_type may find in sense after the READ of s: no error, the
\* error that says that s is beyond the end (5/21h), another one.  A READ that
\* succeeds writes no sense data, and the dvd_execute_cmd of Linux then hands up
\* an uninitialised local, in which the 5/21h of an earlier command may be stale.
Answers(s) ==
  (IF s >= medium.size THEN {"end"}
   ELSE IF SenseCleared THEN {"none"} ELSE {"none", "stale"})
    \cup (IF ProbeFaults THEN {"other"} ELSE {})

EndFoundSlip(answer) == answer # "none"
EndFound(answer) == answer \in {"end", "stale"}

\* The size of a disc of type t; only that of a DVD is asked of the drive.
Sizes(t) ==
  CASE t = DISC_TYPE_GAMECUBE -> {DISC_GAMECUBE_SECTORS_NO}
    [] t = DISC_TYPE_WII      -> {DISC_WII_SECTORS_NO_SL}
    [] t = DISC_TYPE_WII_DL   -> {DISC_WII_SECTORS_NO_DL}
    [] OTHER                  -> {medium.size} \cup (IF ProbeFaults THEN {0} ELSE {})

disc_detect_type ==
  /\ pc = "detect"
  /\ \E gamecube \in Answers(DISC_GAMECUBE_SECTORS_NO + Beyond),
        wii \in Answers(DISC_WII_SECTORS_NO_SL + Beyond) :
       /\ type' = IF options.disctype # Unset THEN options.disctype
                  ELSE IF EndFound(gamecube) THEN DISC_TYPE_GAMECUBE
                  ELSE IF EndFound(wii) THEN DISC_TYPE_WII
                  ELSE DISC_TYPE_WII_DL
       /\ misled' = (/\ options.disctype = Unset
                     /\ gamecube = "stale" \/ (~EndFound(gamecube) /\ wii = "stale"))
  /\ sectors_no' \in IF options.sectors_no # Unset THEN {options.sectors_no} ELSE Sizes(type')
  /\ pc' = "crack"
  /\ UNCHANGED <<hardware, options, command, disctype, read_method, cached, files, said, tried>>

\* Sectors are read only where command and method suit the drive, and may fail
\* even so.  They come into the cache as the unscrambler lays them out.
Reads == <<command, read_method>> \in drive.works
Cache(read) == cached' = IF read THEN cached \cup {disctype} ELSE cached

disc_crack_seeds ==
  /\ pc = "crack"
  /\ \E read \in BOOLEAN : (read => Reads) /\ Cache(read)
  /\ pc' = IF type = DISC_TYPE_DVD THEN "initialized" ELSE "analyze"
  /\ UNCHANGED <<hardware, options, command, disctype, d, files, said, tried>>

\* disc_analyze needs sector 0, from the disc or from the cache, where an
\* earlier method may have put it.
disc_analyze ==
  /\ pc = "analyze"
  /\ \E read, hit \in BOOLEAN :
       /\ read => Reads
       /\ hit => cached # {}
       /\ Cache(read)
       /\ IF read \/ hit THEN pc' = "initialized" /\ out' = out ELSE Return(0)
  /\ UNCHANGED <<hardware, options, command, disctype, d, files, completed, tried>>

\* The unscrambler is told the type, -a gets its file name; what is returned
\* without an output file has not been set.
Initialized ==
  /\ pc = "initialized"
  /\ disctype' = type
  /\ options' = [options EXCEPT !.outs = IF options.autodump THEN @ \cup {"iso"} ELSE @]
  /\ IF options'.outs = {}
     THEN \E value \in Uninitialized : Return(value)
     ELSE pc' = "output" /\ out' = out
  /\ UNCHANGED <<hardware, command, d, cached, files, completed, tried>>

\* The outputs are set up unless a file exists that is not to be resumed, or it
\* fails otherwise; dologic then returns what has not been set.
Refused == existing \cap options.outs # {} /\ ~options.resume

SetOutputs ==
  /\ pc = "output" /\ ~Refused
  /\ existing' = existing \cup options.outs
  /\ held' = IF options.outs \subseteq existing THEN held ELSE 0
  /\ pc' = "dump"
  /\ UNCHANGED <<hardware, options, command, disctype, d, cached, said, tried>>

NoOutputs ==
  /\ pc = "output"
  /\ \/ Refused /\ UNCHANGED files
     \/ /\ ~Refused /\ SetupFaults
        /\ \E created \in SUBSET (options.outs \ existing) :
             /\ existing' = existing \cup created
             /\ held' = IF created = {} THEN held ELSE 0
  /\ \E value \in Uninitialized : Return(value)
  /\ UNCHANGED <<hardware, options, command, disctype, d, cached, completed, tried>>

\* The files come to hold all blocks asked for, or those before the first that
\* can neither be read nor found in the cache.
Dump ==
  /\ pc = "dump"
  /\ held' \in held .. (IF held < sectors_no THEN sectors_no ELSE held)
  /\ held' > held => (Reads \/ cached # {}) /\ held' <= medium.size
  /\ Cache(held' > held /\ Reads)
  /\ completed' = (held' >= sectors_no)
  /\ Return(IF completed' THEN 1 ELSE 0)
  /\ UNCHANGED <<hardware, options, command, disctype, d, existing, tried>>

dologic ==
  \/ disc_stop_unit \/ SetMethod
  \/ disc_detect_type \/ disc_crack_seeds \/ disc_analyze
  \/ Initialized \/ SetOutputs \/ NoOutputs \/ Dump

Over == pc = "over" /\ UNCHANGED vars

Next ==
  \/ optparse \/ Convert
  \/ disc_new \/ disc_new_fails \/ NextMethod \/ Exit
  \/ dologic
  \/ Over

Spec == Init /\ [][Next]_vars

\* The program has one thread and waits for nobody; commands to the drive time
\* out (MMC_CMD_TIMEOUT).
FairSpec == Spec /\ WF_vars(Next)

-----------------------------------------------------------------------------
\* The values the variables take; above all the loops of -A never hand dologic a
\* method or a command that is none.
TypeOK ==
  /\ drive \in Drives /\ medium \in Discs
  /\ options.command \in Commands \cup {Unset, 5}
  /\ options.dump_method \in Methods \cup {Unset}
  /\ options.outs \subseteq Outputs
  /\ pc \in {"optparse", "convert", "new", "spin up", "set up", "detect", "crack",
             "analyze", "initialized", "output", "dump", "returned", "over"}
  /\ command \in Commands
  /\ disctype \in DiscTypes /\ type \in DiscTypes /\ cached \subseteq DiscTypes
  /\ sectors_no \in Nat /\ held \in Nat
  /\ read_method \in Methods
  /\ existing \subseteq Outputs
  /\ out \in Uninitialized /\ completed \in BOOLEAN
  /\ tried \subseteq Commands \X Methods /\ misled \in BOOLEAN

\* The type that unscrambler.c keeps in a global, to lay out sectors by, is a DVD
\* exactly when the disc structure says so, for every sector that is in the
\* cache: also for those read before the type was detected, and by the methods
\* that -A tried before.
SectorsAreLaidOut ==
  pc \in {"analyze", "initialized", "output", "dump", "returned"} =>
    \A t \in cached : t = DISC_TYPE_DVD <=> type = DISC_TYPE_DVD

\* Unless the user forces type or size, "Dump completed successfully!" means that
\* the files hold all of a game disc, although the drive may have answered the
\* probes of disc_detect_type with other errors.  The one exception is a disc that
\* was taken for a smaller one because of stale sense data: its first sectors are
\* then dumped, and reported as all of it.
SuccessMeansWholeDisc ==
  /\ completed /\ medium.type # DISC_TYPE_DVD
  /\ options.disctype = Unset /\ options.sectors_no = Unset
  /\ ~misled
  => held >= medium.size

\* With an output file, -A gives up only after every method was tried with the
\* command of the drive: no attempt fails to dump because of the files that the
\* attempts before it have left.
AllMethodsTried ==
  /\ pc = "over" /\ tried # {} /\ options.allmethods
  /\ options.outs # {} /\ ~SetupFaults
  => completed \/ \A m \in Methods : <<command, m>> \in tried

\* friidump.c:262 says of -A "Try all known methods and commands until one works."
AllCombinationsTried ==
  pc = "over" /\ tried # {} /\ options.allmethods /\ options.outs # {} =>
    completed \/ tried = Commands \X Methods

\* Whatever the drive answers the program ends, although the loop of -A counts in
\* a variable that dologic overwrites.
SessionEnds == <>(pc = "over")
=============================================================================
