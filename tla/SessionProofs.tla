--------------------------- MODULE SessionProofs ----------------------------
(***************************************************************************)
(* Theorems about Session: its types, that sectors are laid out for the    *)
(* disc they come from, that success means the whole disc, that -A tries   *)
(* every method, and that a session has no more than so many steps, for    *)
(* every set of command lines, drives and discs.                           *)
(***************************************************************************)
EXTENDS Session, TLAPS

\* The options, whose command counts to 5 in the loops of -A.
WideOptions ==
  [device : BOOLEAN, raw_in : BOOLEAN, outs : SUBSET Outputs,
   autodump : BOOLEAN, resume : BOOLEAN, allmethods : BOOLEAN,
   stop_unit : BOOLEAN, disctype : DiscTypes \cup {Unset},
   sectors_no : Nat \cup {Unset}, command : Commands \cup {Unset, 5},
   dump_method : Methods \cup {Unset}]

InMain == pc \in {"optparse", "convert", "new", "over"}

\* The loops of -A call dologic with a command only.
Counting ==
  /\ pc # "over" => options.command \in Commands \cup {Unset}
  /\ options.allmethods /\ ~InMain => options.command \in Commands

TypeInv == TypeOK /\ options \in WideOptions /\ Counting

\* The type of the disc has been detected.
Detected == pc \in {"crack", "analyze", "initialized", "output", "dump", "returned"}

\* A DVD is what is forced to be one, wherever the type is kept.
LayoutInv ==
  /\ pc = "optparse" => disctype = DISC_TYPE_GAMECUBE
  /\ pc # "optparse" => (disctype = DISC_TYPE_DVD <=> options.disctype = DISC_TYPE_DVD)
  /\ pc = "optparse" => cached = {}
  /\ \A t \in cached : t = DISC_TYPE_DVD <=> options.disctype = DISC_TYPE_DVD
  /\ Detected => (type = DISC_TYPE_DVD <=> options.disctype = DISC_TYPE_DVD)

\* A game disc of which the user has forced nothing.
Unforced ==
  medium.type # DISC_TYPE_DVD /\ options.disctype = Unset /\ options.sectors_no = Unset

\* The size that was detected is not too small, unless stale sense data made it so,
\* and what is completed ends the program.
SizeInv ==
  /\ pc \in {"crack", "analyze", "initialized", "output", "dump"} /\ Unforced /\ ~misled =>
       sectors_no >= medium.size
  /\ completed => pc \in {"returned", "over"} /\ out = 1
  /\ completed /\ Unforced /\ ~misled => held >= medium.size

-----------------------------------------------------------------------------
\* The types, and the counters of the loops of -A.
LEMMA TypeInit == Init => TypeInv
<1> SUFFICES ASSUME Init PROVE TypeInv
  OBVIOUS
<1> USE DEF Init
<1>1. options \in OptionsType /\ drive \in DriveType /\ medium \in DiscType
  BY SessionAssumption
<1>2. options \in WideOptions
  BY <1>1 DEF WideOptions, OptionsType
<1>3. Counting
  BY <1>1 DEF Counting, InMain, OptionsType
<1>4. /\ 0 \in DiscTypes /\ 0 \in Commands /\ 0 \in Methods /\ 0 \in Uninitialized
  BY DEF DiscTypes, DISC_TYPE_GAMECUBE, Commands, Methods, Uninitialized
<1>5. options.command \in Commands \cup {Unset, 5} /\ options.outs \subseteq Outputs
      /\ options.dump_method \in Methods \cup {Unset}
  BY <1>1 DEF OptionsType
<1>6. held \in Nat /\ existing \subseteq Outputs
  OBVIOUS
<1>7. TypeOK
  BY <1>4, <1>5, <1>6 DEF TypeOK
<1> QED
  BY <1>2, <1>3, <1>7 DEF TypeInv

\* What is known of the fields of options.
LEMMA Fields ==
  ASSUME NEW o \in WideOptions
  PROVE  /\ o.resume \in BOOLEAN /\ o.autodump \in BOOLEAN /\ o.allmethods \in BOOLEAN
         /\ o.outs \subseteq Outputs
         /\ o.disctype \in DiscTypes \cup {Unset} /\ o.sectors_no \in Nat \cup {Unset}
         /\ o.command \in Commands \cup {Unset, 5}
         /\ o.dump_method \in Methods \cup {Unset}
BY DEF WideOptions

\* Two options are the same in what main and disc_init only read.
SameRequest(o, p) ==
  /\ o.allmethods = p.allmethods /\ o.stop_unit = p.stop_unit
  /\ o.disctype = p.disctype /\ o.sectors_no = p.sectors_no

\* The fields that are assigned to.
WithCounters(o, c, m) == [o EXCEPT !.command = c, !.dump_method = m]

LEMMA AssignCounters ==
  ASSUME NEW o \in WideOptions,
         NEW c \in Commands \cup {Unset, 5}, NEW m \in Methods \cup {Unset}
  PROVE  /\ WithCounters(o, c, m) \in WideOptions
         /\ WithCounters(o, c, m).command = c /\ WithCounters(o, c, m).dump_method = m
         /\ SameRequest(WithCounters(o, c, m), o)
         /\ WithCounters(o, c, m).resume = o.resume /\ WithCounters(o, c, m).outs = o.outs
BY DEF WideOptions, SameRequest, WithCounters

WithMethod(o, m) == [o EXCEPT !.dump_method = m]

LEMMA AssignMethod ==
  ASSUME NEW o \in WideOptions, NEW m \in Methods \cup {Unset},
         NEW p, p = WithMethod(o, m)
  PROVE  /\ p \in WideOptions /\ p.command = o.command /\ SameRequest(p, o)
         /\ p.dump_method = m /\ p.resume = o.resume /\ p.outs = o.outs
BY DEF WideOptions, SameRequest, WithMethod

LEMMA AssignResume ==
  ASSUME NEW o \in WideOptions, NEW b \in BOOLEAN,
         NEW p, p = [o EXCEPT !.resume = b]
  PROVE  p \in WideOptions /\ p.command = o.command /\ SameRequest(p, o) /\ p.resume = b
BY DEF WideOptions, SameRequest

LEMMA AssignOuts ==
  ASSUME NEW o \in WideOptions, NEW s, s \subseteq Outputs,
         NEW p, p = [o EXCEPT !.outs = s]
  PROVE  /\ p \in WideOptions /\ p.command = o.command /\ SameRequest(p, o)
         /\ p.dump_method = o.dump_method /\ p.resume = o.resume /\ p.outs = s
BY DEF WideOptions, SameRequest

\* No step forgets what was asked for, and the loops of -A never pass a command
\* that is none.
LEMMA OptionsStep ==
  TypeInv /\ [Next]_vars =>
    options' \in WideOptions /\ SameRequest(options', options) /\ Counting'
<1> SUFFICES ASSUME TypeInv, [Next]_vars
             PROVE  options' \in WideOptions /\ SameRequest(options', options) /\ Counting'
  OBVIOUS
<1> USE DEF TypeInv, Counting, InMain
<1>1. drive.def_method \in Methods
  BY SessionAssumption DEF DriveType, TypeOK
<1>2. CASE optparse
  <2>1. ImpliedResume \in BOOLEAN
    BY Fields DEF ImpliedResume
  <2> QED
    BY <1>2, <2>1, AssignResume DEF optparse
<1>3. CASE disc_new
  <2>1. 0 \in Commands /\ 0 \in Methods
    BY DEF Commands, Methods
  <2>2. CASE options.allmethods
    <3>1. options' = WithCounters(options, 0, 0)
      BY <1>3, <2>2 DEF disc_new, WithCounters
    <3>2. 0 \in Commands \cup {Unset, 5} /\ 0 \in Methods \cup {Unset} /\ options \in WideOptions
      BY <2>1
    <3>3. /\ options' \in WideOptions /\ options'.command = 0
          /\ SameRequest(options', options)
      BY <3>1, <3>2, AssignCounters
    <3> QED
      BY <2>1, <3>3
  <2>3. CASE ~options.allmethods
    BY <1>3, <2>3 DEF disc_new, SameRequest
  <2> QED
    BY <2>2, <2>3
<1>4. CASE NextMethod
  <2>1. options.command \in Commands /\ options.dump_method \in Methods \cup {Unset}
    BY <1>4, Fields DEF NextMethod
  <2>2. /\ NextCombination[1] \in Commands \cup {Unset, 5}
        /\ NextCombination[2] \in Methods \cup {Unset}
        /\ NextCombination[1] > 4 \/ NextCombination[1] \in Commands
    BY <2>1 DEF NextCombination, Commands, Methods, Unset
  <2>3. options' = WithCounters(options, NextCombination[1], NextCombination[2])
    BY <1>4 DEF NextMethod, WithCounters
  <2>4. /\ options' \in WideOptions /\ options'.command = NextCombination[1]
        /\ SameRequest(options', options)
    BY <2>2, <2>3, AssignCounters
  <2>5. options'.command > 4 => pc' = "over"
    BY <1>4 DEF NextMethod
  <2>6. NextCombination[1] > 4 \/ options'.command \in Commands
    BY <2>2, <2>4
  <2> QED
    BY <2>4, <2>5, <2>6
<1>5. CASE SetMethod
  <2>1. MethodSet(options.dump_method) \in Methods
    BY <1>1 DEF MethodSet
  <2> DEFINE m == MethodSet(options.dump_method)
  <2>2. pc = "set up" /\ pc' = "detect" /\ options' = WithMethod(options, m)
    BY <1>5 DEF SetMethod, WithMethod
  <2>3. options \in WideOptions /\ m \in Methods \cup {Unset}
    BY <2>1
  <2> HIDE DEF m
  <2>4. /\ options' \in WideOptions /\ options'.command = options.command
        /\ SameRequest(options', options)
    BY <2>2, <2>3, AssignMethod
  <2> QED
    BY <2>2, <2>4 DEF SameRequest
<1>6. CASE Initialized
  <2>1. (IF options.autodump THEN options.outs \cup {"iso"} ELSE options.outs) \subseteq Outputs
    BY Fields DEF Outputs
  <2>2. /\ pc' \in {"returned", "output"} /\ pc = "initialized"
        /\ options' = [options EXCEPT !.outs =
                         IF options.autodump THEN options.outs \cup {"iso"} ELSE options.outs]
    BY <1>6 DEF Initialized, Return, WideOptions
  <2> QED
    BY <2>1, <2>2, AssignOuts
<1>7. CASE UNCHANGED options /\ (pc = "over" => pc' = "over") /\ (~InMain' => ~InMain)
  BY <1>7 DEF SameRequest
<1>8. ASSUME Next, ~optparse, ~disc_new, ~NextMethod, ~SetMethod, ~Initialized
      PROVE  UNCHANGED options /\ (pc = "over" => pc' = "over") /\ (~InMain' => ~InMain)
  BY <1>8
  DEF Next, dologic, Over, vars, Convert, disc_new_fails, Exit, disc_stop_unit,
      disc_detect_type, disc_crack_seeds, disc_analyze, SetOutputs, NoOutputs, Dump, Return
<1>9. CASE UNCHANGED vars
  BY <1>9, <1>7 DEF vars
<1> QED
  BY <1>2, <1>3, <1>4, <1>5, <1>6, <1>7, <1>8, <1>9

\* Every step keeps the types.
LEMMA TypeStep == TypeInv /\ [Next]_vars => TypeInv'
<1> SUFFICES ASSUME TypeInv, [Next]_vars PROVE TypeInv'
  OBVIOUS
<1>1. /\ drive.command \in Commands /\ drive.def_method \in Methods
      /\ medium.size \in Nat
  BY SessionAssumption DEF DriveType, DiscType, TypeInv, TypeOK
<1>2. /\ options' \in WideOptions /\ Counting'
      /\ options.command \in Commands \cup {Unset, 5}
      /\ options.outs \subseteq Outputs /\ options.sectors_no \in Nat \cup {Unset}
      /\ options.disctype \in DiscTypes \cup {Unset}
  BY OptionsStep, Fields DEF TypeInv
<1>3. /\ (options').command \in Commands \cup {Unset, 5}
      /\ (options').dump_method \in Methods \cup {Unset}
      /\ (options').outs \subseteq Outputs
  BY <1>2, Fields
<1>4. TypeOK
  BY DEF TypeInv
<1>5. DEFAULT_READ_METHOD \in Methods
  BY DEF Methods, DEFAULT_READ_METHOD
<1>6. TypeOK'
  <2> USE <1>3, <1>4 DEF TypeOK, hardware, d, files, said
  <2>1. CASE optparse
    BY <1>2, <2>1 DEF optparse, ForcedLayout
  <2>2. CASE Convert
    BY <2>2 DEF Convert, Uninitialized
  <2>3. CASE disc_new
    <3>1. command' \in Commands
      <4>1. options.command \in Commands \cup {Unset}
        BY <2>3 DEF disc_new, TypeInv, Counting
      <4>2. command' = IF options.command # Unset THEN options.command ELSE drive.command
        BY <2>3 DEF disc_new
      <4> QED
        BY <1>1, <4>1, <4>2
    <3>2. /\ pc' = "spin up" /\ read_method' = DEFAULT_READ_METHOD
          /\ UNCHANGED <<hardware, disctype, type, sectors_no, misled, cached, files, said, tried>>
      BY <2>3 DEF disc_new
    <3> QED
      BY <1>5, <3>1, <3>2
  <2>4. CASE disc_new_fails \/ Exit
    BY <2>4 DEF disc_new_fails, Exit
  <2>5. CASE NextMethod
    BY <2>5 DEF NextMethod
  <2>6. CASE disc_stop_unit
    BY <2>6 DEF disc_stop_unit
  <2>7. CASE SetMethod
    <3>1. MethodSet(options.dump_method) \in Methods
      BY <1>1 DEF MethodSet
    <3>2. /\ read_method' \in Methods /\ pc' = "detect"
          /\ tried' = tried \cup {<<command, read_method'>>}
          /\ UNCHANGED <<hardware, command, disctype, type, sectors_no, misled, cached, files, said>>
      BY <2>7, <3>1 DEF SetMethod
    <3>3. <<command, read_method'>> \in Commands \X Methods
      BY <3>2
    <3> QED
      BY <3>2, <3>3
  <2>8. CASE disc_detect_type
    <3>1. type' \in DiscTypes
      BY <1>2, <2>8
      DEF disc_detect_type, DiscTypes, DISC_TYPE_GAMECUBE, DISC_TYPE_WII, DISC_TYPE_WII_DL
    <3>2. sectors_no' \in Nat
      BY <1>1, <1>2, <2>8, SessionAssumption DEF disc_detect_type, Sizes
    <3> QED
      BY <2>8, <3>1, <3>2 DEF disc_detect_type
  <2>9. CASE disc_crack_seeds
    BY <2>9 DEF disc_crack_seeds, Cache
  <2>10. CASE disc_analyze
    <3>1. cached' \subseteq DiscTypes /\ out' \in Uninitialized
      BY <2>10 DEF disc_analyze, Cache, Return, Uninitialized
    <3>2. pc' \in {"initialized", "returned"}
      BY <2>10 DEF disc_analyze, Return
    <3> QED
      BY <2>10, <3>1, <3>2 DEF disc_analyze
  <2>11. CASE Initialized
    <3>1. out' \in Uninitialized /\ pc' \in {"returned", "output"}
      BY <2>11 DEF Initialized, Return
    <3> QED
      BY <2>11, <3>1 DEF Initialized
  <2>12. CASE SetOutputs
    BY <1>2, <2>12 DEF SetOutputs
  <2>13. CASE NoOutputs
    BY <1>2, <2>13 DEF NoOutputs, Return
  <2>14. CASE Dump
    <3>1. held' \in Nat /\ out' \in Uninitialized /\ completed' \in BOOLEAN
      BY <2>14 DEF Dump, Return, Uninitialized
    <3>2. cached' \subseteq DiscTypes
      BY <2>14 DEF Dump, Cache
    <3> QED
      BY <2>14, <3>1, <3>2 DEF Dump, Return
  <2>15. CASE UNCHANGED vars
    BY <2>15 DEF vars
  <2> QED
    BY <2>1, <2>2, <2>3, <2>4, <2>5, <2>6, <2>7, <2>8, <2>9, <2>10, <2>11, <2>12, <2>13,
       <2>14, <2>15 DEF Next, dologic, Over
<1> QED
  BY <1>2, <1>6 DEF TypeInv

\* However many methods -A tries, type and layout stay what is forced or not a DVD.
LEMMA LayoutStep == TypeInv /\ LayoutInv /\ [Next]_vars => LayoutInv'
<1> SUFFICES ASSUME TypeInv, LayoutInv, [Next]_vars PROVE LayoutInv'
  OBVIOUS
<1>1. options'.disctype = options.disctype
  BY OptionsStep DEF SameRequest
<1>2. options.disctype \in DiscTypes \cup {Unset}
  BY Fields DEF TypeInv
<1> USE <1>1 DEF LayoutInv, Detected, hardware, d, files, said
<1>3. CASE optparse
  BY <1>2, <1>3
  DEF optparse, ForcedLayout, Unset, DiscTypes, DISC_TYPE_GAMECUBE, DISC_TYPE_DVD
<1>4. CASE Convert \/ disc_new_fails \/ Exit \/ disc_stop_unit
  BY <1>4 DEF Convert, disc_new_fails, Exit, disc_stop_unit
<1>5. CASE disc_new
  <2>1. pc = "new" /\ pc' = "spin up" /\ UNCHANGED <<disctype, type, cached>>
    BY <1>5 DEF disc_new
  <2> QED
    BY <2>1
<1>6. CASE NextMethod
  <2>1. pc = "returned" /\ pc' \in {"over", "spin up"} /\ UNCHANGED <<disctype, type, cached>>
    BY <1>6 DEF NextMethod
  <2> QED
    BY <2>1
<1>7. CASE SetMethod
  <2>1. pc = "set up" /\ pc' = "detect" /\ UNCHANGED <<disctype, type, cached>>
    BY <1>7 DEF SetMethod
  <2> QED
    BY <2>1
<1>8. CASE disc_detect_type
  <2>1. type' = DISC_TYPE_DVD <=> options.disctype = DISC_TYPE_DVD
    BY <1>8
    DEF disc_detect_type, Unset, DISC_TYPE_GAMECUBE, DISC_TYPE_WII, DISC_TYPE_WII_DL,
        DISC_TYPE_DVD
  <2> QED
    BY <1>8, <2>1 DEF disc_detect_type
<1>9. CASE disc_crack_seeds
  BY <1>9 DEF disc_crack_seeds, Cache
<1>10. CASE disc_analyze
  <2>1. /\ pc = "analyze" /\ pc' \in {"initialized", "returned"}
        /\ cached' \subseteq cached \cup {disctype} /\ UNCHANGED <<disctype, type>>
    BY <1>10 DEF disc_analyze, Cache, Return
  <2> QED
    BY <2>1
<1>11. CASE Initialized
  <2>1. /\ pc = "initialized" /\ pc' \in {"returned", "output"}
        /\ disctype' = type /\ UNCHANGED <<type, cached>>
    BY <1>11 DEF Initialized, Return
  <2> QED
    BY <2>1
<1>12. CASE SetOutputs
  BY <1>12 DEF SetOutputs
<1>13. CASE NoOutputs
  BY <1>13 DEF NoOutputs, Return
<1>14. CASE Dump
  BY <1>14 DEF Dump, Return, Cache
<1>15. CASE UNCHANGED vars
  BY <1>15 DEF vars
<1> QED
  BY <1>3, <1>4, <1>5, <1>6, <1>7, <1>8, <1>9, <1>10, <1>11, <1>12, <1>13, <1>14, <1>15
  DEF Next, dologic, Over

\* The type that is detected, with whatever wrong answers, has room for the disc:
\* only the right error, or stale sense data, makes a disc small.
LEMMA DetectedSize ==
  ASSUME TypeInv, Unforced, disc_detect_type, ~misled'
  PROVE  sectors_no' >= medium.size
<1>1. /\ medium.size \in Nat
      /\ medium.size \in {DISC_GAMECUBE_SECTORS_NO, DISC_WII_SECTORS_NO_SL,
                           DISC_WII_SECTORS_NO_DL}
  BY SessionAssumption, SizesAssumption DEF Unforced, TypeInv, TypeOK, DiscType
<1>2. PICK gamecube \in Answers(DISC_GAMECUBE_SECTORS_NO + Beyond),
           wii \in Answers(DISC_WII_SECTORS_NO_SL + Beyond) :
        /\ type' = IF EndFound(gamecube) THEN DISC_TYPE_GAMECUBE
                   ELSE IF EndFound(wii) THEN DISC_TYPE_WII ELSE DISC_TYPE_WII_DL
        /\ gamecube # "stale" /\ (EndFound(gamecube) \/ wii # "stale")
  BY DEF disc_detect_type, Unforced
<1>3. \A s : \A a \in Answers(s) : EndFound(a) /\ a # "stale" => s >= medium.size
  BY DEF Answers, EndFound
<1>4. sectors_no' \in Sizes(type')
  BY DEF disc_detect_type, Unforced
<1> USE SessionAssumption DEF Sizes, DISC_TYPE_GAMECUBE, DISC_TYPE_WII, DISC_TYPE_WII_DL
<1>5. CASE EndFound(gamecube)
  <2>1. sectors_no' = DISC_GAMECUBE_SECTORS_NO
    BY <1>2, <1>4, <1>5
  <2>2. DISC_GAMECUBE_SECTORS_NO + Beyond >= medium.size
    BY <1>2, <1>3, <1>5
  <2> QED
    BY <1>1, <2>1, <2>2
<1>6. CASE ~EndFound(gamecube) /\ EndFound(wii)
  <2>1. sectors_no' = DISC_WII_SECTORS_NO_SL
    BY <1>2, <1>4, <1>6
  <2>2. DISC_WII_SECTORS_NO_SL + Beyond >= medium.size
    BY <1>2, <1>3, <1>6
  <2> QED
    BY <1>1, <2>1, <2>2
<1>7. CASE ~EndFound(gamecube) /\ ~EndFound(wii)
  <2>1. sectors_no' = DISC_WII_SECTORS_NO_DL
    BY <1>2, <1>4, <1>7
  <2> QED
    BY <1>1, <2>1
<1> QED
  BY <1>5, <1>6, <1>7

\* A dump is completed when it has all sectors, and then dologic is over for good.
LEMMA SizeStep == TypeInv /\ SizeInv /\ [Next]_vars => SizeInv'
<1> SUFFICES ASSUME TypeInv, SizeInv, [Next]_vars PROVE SizeInv'
  OBVIOUS
<1>1. UNCHANGED medium
  BY DEF Next, dologic, Over, vars, hardware, optparse, Convert, disc_new, disc_new_fails,
         NextMethod, Exit, disc_stop_unit, SetMethod, disc_detect_type, disc_crack_seeds,
         disc_analyze, Initialized, SetOutputs, NoOutputs, Dump
<1>2. Unforced' <=> Unforced
  BY <1>1, OptionsStep DEF Unforced, SameRequest
<1>3. /\ held \in Nat /\ sectors_no \in Nat /\ medium.size \in Nat
  BY SessionAssumption DEF TypeInv, TypeOK, DiscType
<1> USE <1>1, <1>2 DEF SizeInv
<1> USE DEF d, files, said
<1>4. CASE optparse
  <2>1. pc = "optparse" /\ pc' \in {"over", "new", "convert"} /\ UNCHANGED <<completed, held, misled>>
    BY <1>4 DEF optparse
  <2> QED
    BY <2>1
<1>5. CASE Convert \/ disc_new_fails \/ disc_stop_unit
  <2>1. /\ pc \in {"convert", "new", "spin up"} /\ pc' \in {"over", "set up"}
        /\ UNCHANGED <<completed, held, misled>>
    BY <1>5 DEF Convert, disc_new_fails, disc_stop_unit
  <2> QED
    BY <2>1
<1>6. CASE disc_new \/ SetMethod
  <2>1. /\ pc \in {"new", "set up"} /\ pc' \in {"spin up", "detect"}
        /\ UNCHANGED <<completed, held, misled>>
    BY <1>6 DEF disc_new, SetMethod
  <2> QED
    BY <2>1
<1>7. CASE NextMethod
  <2>1. /\ pc = "returned" /\ out # 1 /\ pc' \in {"over", "spin up"}
        /\ UNCHANGED <<completed, held, misled>>
    BY <1>7 DEF NextMethod
  <2> QED
    BY <2>1
<1>8. CASE disc_detect_type
  <2>1. /\ pc = "detect" /\ pc' = "crack" /\ UNCHANGED <<completed, held>>
    BY <1>8 DEF disc_detect_type
  <2>2. Unforced /\ ~misled' => sectors_no' >= medium.size
    BY <1>8, DetectedSize
  <2> QED
    BY <2>1, <2>2
<1>9. CASE disc_crack_seeds \/ SetOutputs
  <2>1. /\ pc \in {"crack", "output"} /\ pc' \in {"initialized", "analyze", "dump"}
        /\ UNCHANGED <<completed, sectors_no, misled>>
    BY <1>9 DEF disc_crack_seeds, SetOutputs
  <2> QED
    BY <2>1
<1>10. CASE disc_analyze \/ Initialized \/ NoOutputs
  <2>1. /\ pc \in {"analyze", "initialized", "output"}
        /\ pc' \in {"initialized", "returned", "output"}
        /\ UNCHANGED <<completed, sectors_no, misled>>
    BY <1>10 DEF disc_analyze, Initialized, NoOutputs, Return
  <2> QED
    BY <2>1
<1>11. CASE Dump
  <2>1. /\ pc = "dump" /\ pc' = "returned" /\ UNCHANGED <<sectors_no, misled>>
        /\ held' \in Nat /\ completed' = (held' >= sectors_no)
        /\ completed' => out' = 1
    BY <1>3, <1>11 DEF Dump, Return
  <2>2. Unforced /\ ~misled => sectors_no >= medium.size
    BY <2>1
  <2>3. completed' => held' >= sectors_no
    BY <2>1
  <2>4. Unforced /\ ~misled /\ completed' => held' >= medium.size
    BY <1>3, <2>1, <2>2, <2>3
  <2> QED
    BY <2>1, <2>4
<1>12. CASE Exit
  <2>1. pc' = "over" /\ UNCHANGED <<out, completed, held, misled>>
    BY <1>12 DEF Exit
  <2> QED
    BY <2>1
<1>13. CASE UNCHANGED vars
  BY <1>13 DEF vars
<1> QED
  BY <1>4, <1>5, <1>6, <1>7, <1>8, <1>9, <1>10, <1>11, <1>12, <1>13 DEF Next, dologic, Over

-----------------------------------------------------------------------------
\* -A: dologic is running or has returned, and it has set the method.
Running == pc \in {"spin up", "set up", "detect", "crack", "analyze", "initialized",
                   "output", "dump", "returned"}
MethodIsSet == Running /\ pc \notin {"spin up", "set up"}

\* Every method before the present one has been tried, and only a dump that has
\* completed ends the loops early: resuming, no attempt stumbles over the files of
\* the one before.
AttemptsInv ==
  /\ pc \in {"optparse", "convert", "new"} => tried = {}
  /\ options.stop_unit => tried = {} /\ ~MethodIsSet /\ pc # "set up"
  /\ pc # "optparse" /\ options.allmethods => options.resume
  /\ options.allmethods /\ Running =>
       /\ options.dump_method \in Methods
       /\ \A m \in Methods : m < options.dump_method \/ options.command > 0 =>
            <<command, m>> \in tried
       /\ MethodIsSet => <<command, options.dump_method>> \in tried
       /\ pc = "returned" /\ options.outs # {} /\ ~SetupFaults /\ out = 1 => completed
  /\ AllMethodsTried

\* The steps that neither touch the options nor what was tried, inside of dologic.
LEMMA AttemptGoesOn ==
  ASSUME AttemptsInv, MethodIsSet, MethodIsSet',
         UNCHANGED <<options, command, tried>>,
         pc' = "returned" /\ out' = 1 /\ options.outs # {} /\ ~SetupFaults => completed'
  PROVE  AttemptsInv'
BY DEF AttemptsInv, MethodIsSet, Running, AllMethodsTried

LEMMA AttemptsStep == TypeInv /\ AttemptsInv /\ [Next]_vars => AttemptsInv'
<1> SUFFICES ASSUME TypeInv, AttemptsInv, [Next]_vars PROVE AttemptsInv'
  OBVIOUS
<1>1. /\ options \in WideOptions /\ options' \in WideOptions
      /\ options'.allmethods = options.allmethods /\ options'.stop_unit = options.stop_unit
      /\ options.allmethods \in BOOLEAN /\ options.stop_unit \in BOOLEAN
  <2>1. options \in WideOptions
    BY DEF TypeInv
  <2> QED
    BY <2>1, OptionsStep DEF SameRequest, WideOptions
<1> USE DEF hardware, d, files, said
<1>2. CASE optparse
  <2>1. /\ pc = "optparse" /\ pc' \in {"over", "new", "convert"} /\ UNCHANGED tried
        /\ options' = [options EXCEPT !.resume = ImpliedResume]
    BY <1>2 DEF optparse
  <2>2. ImpliedResume \in BOOLEAN /\ (options.allmethods => ImpliedResume)
    BY <1>1, Fields DEF ImpliedResume
  <2>3. options'.allmethods => options'.resume
    BY <1>1, <2>1, <2>2, AssignResume
  <2> QED
    BY <1>1, <2>1, <2>3 DEF AttemptsInv, Running, MethodIsSet, AllMethodsTried
<1>3. CASE Convert \/ disc_new_fails
  <2>1. /\ pc \in {"convert", "new"} /\ pc' = "over" /\ UNCHANGED <<options, tried>>
    BY <1>3 DEF Convert, disc_new_fails
  <2> QED
    BY <2>1 DEF AttemptsInv, Running, MethodIsSet, AllMethodsTried
<1>4. CASE disc_new
  <2>1. pc = "new" /\ pc' = "spin up" /\ UNCHANGED tried
    BY <1>4 DEF disc_new
  <2>2. CASE options.allmethods
    <3>1. options' = WithCounters(options, 0, 0)
      BY <1>4, <2>2 DEF disc_new, WithCounters
    <3>2. 0 \in Commands /\ 0 \in Methods /\ \A m \in Methods : ~(m < 0)
      BY DEF Commands, Methods
    <3>3. options'.command = 0 /\ options'.dump_method = 0 /\ options'.resume = options.resume
      BY <1>1, <3>1, <3>2, AssignCounters
    <3> QED
      BY <1>1, <2>1, <3>2, <3>3 DEF AttemptsInv, Running, MethodIsSet, AllMethodsTried
  <2>3. CASE ~options.allmethods
    BY <1>1, <2>1, <2>3 DEF AttemptsInv, Running, MethodIsSet, AllMethodsTried
  <2> QED
    BY <2>2, <2>3
<1>5. CASE NextMethod
  <2>1. /\ pc = "returned" /\ options.allmethods /\ out # 1
        /\ pc' \in {"over", "spin up"} /\ (pc' = "over" => options'.command > 4)
        /\ UNCHANGED <<command, tried>>
        /\ options' = WithCounters(options, NextCombination[1], NextCombination[2])
    BY <1>5 DEF NextMethod, WithCounters
  <2>2. /\ options.dump_method \in 0 .. 9 /\ options.command \in 0 .. 4
        /\ \A m \in Methods : m < options.dump_method \/ options.command > 0 =>
             <<command, m>> \in tried
        /\ <<command, options.dump_method>> \in tried
    BY <1>1, <2>1 DEF AttemptsInv, Running, MethodIsSet, Methods, Commands, TypeInv, Counting, InMain
  <2>3. NextCombination[1] \in Commands \cup {Unset, 5} /\ NextCombination[2] \in Methods
    BY <2>2 DEF NextCombination, Commands, Methods
  <2>4. /\ options'.command = NextCombination[1] /\ options'.dump_method = NextCombination[2]
        /\ options'.resume = options.resume
    <3> DEFINE c == NextCombination[1]
               m == NextCombination[2]
    <3>1. c \in Commands \cup {Unset, 5} /\ m \in Methods \cup {Unset}
      BY <2>3
    <3>2. options' = WithCounters(options, c, m)
      BY <2>1
    <3> HIDE DEF c, m
    <3>3. options'.command = c /\ options'.dump_method = m /\ options'.resume = options.resume
      BY <1>1, <3>1, <3>2, AssignCounters
    <3> QED
      BY <3>3 DEF c, m
  <2>5. \A m \in Methods : m < options'.dump_method \/ options'.command > 0 =>
          <<command, m>> \in tried
    <3> TAKE m \in Methods
    <3> HAVE m < options'.dump_method \/ options'.command > 0
    <3>1. m \in 0 .. 9
      BY DEF Methods
    <3>2. options.command > 0 \/ m < options.dump_method \/ m = options.dump_method
      BY <2>2, <2>4, <3>1 DEF NextCombination
    <3> QED
      BY <2>2, <3>2
  <2>6. CASE pc' = "spin up"
    BY <1>1, <2>1, <2>3, <2>4, <2>5, <2>6
       DEF AttemptsInv, Running, MethodIsSet, AllMethodsTried
  <2>7. CASE pc' = "over"
    <3>1. options'.command > 0
      BY <2>1, <2>2, <2>4, <2>7 DEF NextCombination
    <3>2. \A m \in Methods : <<command', m>> \in tried'
      BY <2>1, <2>5, <3>1
    <3> QED
      BY <1>1, <2>1, <2>4, <2>7, <3>2 DEF AttemptsInv, Running, MethodIsSet, AllMethodsTried
  <2> QED
    BY <2>1, <2>6, <2>7
<1>6. CASE Exit
  <2>1. /\ pc = "returned" /\ (options.allmethods => out = 1) /\ pc' = "over"
        /\ UNCHANGED <<options, command, tried, completed>>
    BY <1>6 DEF Exit
  <2>2. options.allmethods /\ options.outs # {} /\ ~SetupFaults => completed
    BY <2>1 DEF AttemptsInv, Running
  <2> QED
    BY <2>1, <2>2 DEF AttemptsInv, Running, MethodIsSet, AllMethodsTried
<1>7. CASE disc_stop_unit
  <2>1. /\ pc = "spin up" /\ pc' = (IF options.stop_unit THEN "over" ELSE "set up")
        /\ UNCHANGED <<options, command, tried>>
    BY <1>7 DEF disc_stop_unit
  <2> QED
    BY <2>1 DEF AttemptsInv, Running, MethodIsSet, AllMethodsTried
<1>8. CASE SetMethod
  <2>1. /\ pc = "set up" /\ pc' = "detect" /\ UNCHANGED command
        /\ read_method' = MethodSet(options.dump_method)
        /\ options' = [options EXCEPT !.dump_method = MethodSet(options.dump_method)]
        /\ tried' = tried \cup {<<command, MethodSet(options.dump_method)>>}
    BY <1>8 DEF SetMethod
  <2>2. MethodSet(options.dump_method) \in Methods
    BY SessionAssumption DEF MethodSet, DriveType, TypeInv, TypeOK
  <2> DEFINE method == MethodSet(options.dump_method)
  <2>3. /\ options'.dump_method = method
        /\ options'.command = options.command /\ options'.resume = options.resume
    BY <1>1, <2>1, <2>2 DEF WideOptions
  <2>4. options.allmethods => method = options.dump_method
    BY <2>1 DEF AttemptsInv, Running, MethodSet
  <2> HIDE DEF method
  <2>5. ~options.stop_unit /\ (options.allmethods => options.resume)
    BY <2>1 DEF AttemptsInv
  <2>6. ASSUME options.allmethods
        PROVE  /\ \A m \in Methods : m < options.dump_method \/ options.command > 0 =>
                    <<command, m>> \in tried'
               /\ <<command, options.dump_method>> \in tried'
    BY <2>1, <2>4, <2>6 DEF AttemptsInv, Running, method
  <2>7. AllMethodsTried'
    BY <2>1 DEF AllMethodsTried
  <2>8. options'.dump_method \in Methods
    BY <2>2, <2>3 DEF method
  <2> QED
    BY <1>1, <2>1, <2>3, <2>4, <2>5, <2>6, <2>7, <2>8 DEF AttemptsInv, Running, MethodIsSet
<1>9. CASE disc_detect_type \/ disc_crack_seeds \/ SetOutputs
  <2>1. /\ pc \in {"detect", "crack", "output"}
        /\ pc' \in {"crack", "analyze", "initialized", "dump"}
        /\ UNCHANGED <<options, command, tried>>
    BY <1>9 DEF disc_detect_type, disc_crack_seeds, SetOutputs
  <2> QED
    BY <2>1, AttemptGoesOn DEF MethodIsSet, Running
<1>10. CASE disc_analyze
  <2>1. /\ pc = "analyze" /\ pc' \in {"initialized", "returned"} /\ (pc' = "returned" => out' = 0)
        /\ UNCHANGED <<options, command, tried>>
    BY <1>10 DEF disc_analyze, Return
  <2>2. MethodIsSet /\ MethodIsSet'
    BY <2>1 DEF MethodIsSet, Running
  <2>3. ~(pc' = "returned" /\ out' = 1)
    BY <2>1
  <2> QED
    BY <2>1, <2>2, <2>3, AttemptGoesOn
<1>11. CASE Initialized
  <2>1. /\ pc = "initialized" /\ pc' \in {"returned", "output"}
        /\ (pc' = "returned" => options'.outs = {})
        /\ UNCHANGED <<command, tried>>
        /\ options' = [options EXCEPT !.outs =
                         IF options.autodump THEN options.outs \cup {"iso"} ELSE options.outs]
    BY <1>1, <1>11 DEF Initialized, Return, WideOptions
  <2>2. (IF options.autodump THEN options.outs \cup {"iso"} ELSE options.outs) \subseteq Outputs
    BY <1>1, Fields DEF Outputs
  <2>3. /\ options'.dump_method = options.dump_method
        /\ options'.command = options.command /\ options'.resume = options.resume
    BY <1>1, <2>1, <2>2, AssignOuts
  <2>4. ~options.stop_unit /\ (options.allmethods => options.resume)
    BY <2>1 DEF AttemptsInv, MethodIsSet, Running
  <2>5. ASSUME options.allmethods
        PROVE  /\ options.dump_method \in Methods
               /\ \A m \in Methods : m < options.dump_method \/ options.command > 0 =>
                    <<command, m>> \in tried
               /\ <<command, options.dump_method>> \in tried
    BY <2>1, <2>5 DEF AttemptsInv, MethodIsSet, Running
  <2>6. AllMethodsTried'
    BY <2>1 DEF AllMethodsTried
  <2>7. pc' \in {"returned", "output"} /\ command' = command /\ tried' = tried
    BY <2>1
  <2>8. ~options'.stop_unit /\ (options'.allmethods => options'.resume)
    BY <1>1, <2>3, <2>4
  <2>9. ~(pc' = "returned" /\ options'.outs # {})
    BY <2>1
  <2> QED
    BY <1>1, <2>3, <2>5, <2>6, <2>7, <2>8, <2>9 DEF AttemptsInv, Running, MethodIsSet
<1>12. CASE NoOutputs
  <2>1. /\ pc = "output" /\ pc' = "returned" /\ UNCHANGED <<options, command, tried>>
        /\ Refused \/ SetupFaults
    BY <1>12 DEF NoOutputs, Return
  <2>2. options.allmethods => SetupFaults
    BY <2>1 DEF AttemptsInv, Refused
  <2> QED
    BY <2>1, <2>2 DEF AttemptsInv, Running, MethodIsSet, AllMethodsTried
<1>13. CASE Dump
  <2>1. /\ pc = "dump" /\ pc' = "returned" /\ UNCHANGED <<options, command, tried>>
        /\ out' = 1 => completed'
    BY <1>13 DEF Dump, Return
  <2> QED
    BY <2>1, AttemptGoesOn DEF MethodIsSet, Running
<1>14. CASE UNCHANGED vars
  BY <1>14 DEF vars, AttemptsInv, Running, MethodIsSet, AllMethodsTried
<1> QED
  BY <1>2, <1>3, <1>4, <1>5, <1>6, <1>7, <1>8, <1>9, <1>10, <1>11, <1>12, <1>13, <1>14
  DEF Next, dologic, Over

-----------------------------------------------------------------------------
\* How far a session is from its end.  With -A the attempts are numbered by the two
\* counters of its loops; every one has at most nine steps.
Attempt == IF options.allmethods THEN 10 * options.command + options.dump_method ELSE 0

Stage ==
  CASE pc = "spin up"     -> 1
    [] pc = "set up"      -> 2
    [] pc = "detect"      -> 3
    [] pc = "crack"       -> 4
    [] pc = "analyze"     -> 5
    [] pc = "initialized" -> 6
    [] pc = "output"      -> 7
    [] pc = "dump"        -> 8
    [] OTHER              -> 9

StepsLeft ==
  CASE pc = "optparse"           -> 502
    [] pc \in {"new", "convert"} -> 501
    [] pc = "over"               -> 0
    [] OTHER                     -> 10 * (50 - Attempt) - Stage + 1

\* There are fifty attempts.
LEMMA AttemptsNumbered == TypeInv /\ AttemptsInv /\ Running => Attempt \in 0 .. 49
<1> SUFFICES ASSUME TypeInv, AttemptsInv, Running PROVE Attempt \in 0 .. 49
  OBVIOUS
<1>1. CASE options.allmethods
  <2>1. options.command \in 0 .. 4 /\ options.dump_method \in 0 .. 9
    BY <1>1 DEF TypeInv, Counting, AttemptsInv, Running, InMain, Commands, Methods
  <2> QED
    BY <1>1, <2>1 DEF Attempt
<1>2. CASE ~options.allmethods
  BY <1>2 DEF Attempt
<1> QED
  BY <1>1, <1>2

LEMMA Staged == Stage \in 1 .. 9
BY DEF Stage

LEMMA StepsWhileRunning == Running => StepsLeft = 10 * (50 - Attempt) - Stage + 1
<1> SUFFICES ASSUME Running PROVE StepsLeft = 10 * (50 - Attempt) - Stage + 1
  OBVIOUS
<1>1. pc # "optparse" /\ pc \notin {"new", "convert"} /\ pc # "over"
  BY DEF Running
<1> QED
  BY <1>1 DEF StepsLeft

\* The number of steps that are left, and what it is inside of dologic.
StepsCounted ==
  /\ StepsLeft \in 0 .. 502
  /\ Running => StepsLeft \in 2 .. 500 /\ StepsLeft = 10 * (50 - Attempt) - Stage + 1

LEMMA StepsBounded == TypeInv /\ AttemptsInv => StepsCounted
<1> SUFFICES ASSUME TypeInv, AttemptsInv PROVE StepsCounted
  OBVIOUS
<1>1. CASE Running
  <2>1. StepsLeft = 10 * (50 - Attempt) - Stage + 1
    BY <1>1, StepsWhileRunning
  <2>2. Attempt \in 0 .. 49 /\ Stage \in 1 .. 9
    BY <1>1, AttemptsNumbered, Staged
  <2> QED
    BY <1>1, <2>1, <2>2 DEF StepsCounted
<1>2. CASE ~Running
  <2>1. pc \in {"optparse", "convert", "new", "over"}
    BY <1>2 DEF TypeInv, TypeOK, Running
  <2>2. StepsLeft \in {0, 501, 502}
    BY <2>1 DEF StepsLeft
  <2> QED
    BY <1>2, <2>2 DEF StepsCounted
<1> QED
  BY <1>1, <1>2

\* Steps inside of an attempt do not change its number.
LEMMA SameAttempt ==
  TypeInv /\ AttemptsInv /\ [Next]_vars /\ Running /\ ~NextMethod => Attempt' = Attempt
<1> SUFFICES ASSUME TypeInv, AttemptsInv, [Next]_vars, Running, ~NextMethod
             PROVE  Attempt' = Attempt
  OBVIOUS
<1>0. options \in WideOptions /\ options'.allmethods = options.allmethods
  BY OptionsStep DEF TypeInv, SameRequest
<1>1. CASE SetMethod
  <2>1. MethodSet(options.dump_method) \in Methods
    BY SessionAssumption DEF MethodSet, DriveType, TypeInv, TypeOK
  <2> DEFINE m == MethodSet(options.dump_method)
  <2>2. options' = WithMethod(options, m) /\ m \in Methods \cup {Unset}
    BY <1>1, <2>1 DEF SetMethod, WithMethod
  <2>3. options.allmethods => m = options.dump_method
    BY DEF AttemptsInv, MethodSet
  <2> HIDE DEF m
  <2>4. options'.command = options.command /\ options'.dump_method = m
    BY <1>0, <2>2, AssignMethod
  <2> QED
    BY <1>0, <2>3, <2>4 DEF Attempt
<1>2. CASE Initialized
  <2> DEFINE s == IF options.autodump THEN options.outs \cup {"iso"} ELSE options.outs
  <2>1. options' = [options EXCEPT !.outs = s]
    BY <1>0, <1>2 DEF Initialized, WideOptions
  <2>2. s \subseteq Outputs
    BY <1>0, Fields DEF Outputs
  <2> HIDE DEF s
  <2>3. options'.command = options.command /\ options'.dump_method = options.dump_method
    BY <1>0, <2>1, <2>2, AssignOuts
  <2> QED
    BY <1>0, <2>3 DEF Attempt
<1>3. ASSUME ~SetMethod, ~Initialized PROVE UNCHANGED options
  BY <1>3
  DEF Running, Next, dologic, Over, vars, optparse, Convert, disc_new, disc_new_fails, Exit,
      disc_stop_unit, disc_detect_type, disc_crack_seeds, disc_analyze, SetOutputs, NoOutputs,
      Dump
<1> QED
  BY <1>1, <1>2, <1>3 DEF Attempt

\* The next attempt of -A has the next number.
LEMMA NextAttempt ==
  TypeInv /\ AttemptsInv /\ NextMethod => Attempt' = Attempt + 1
<1> SUFFICES ASSUME TypeInv, AttemptsInv, NextMethod
             PROVE  Attempt' = Attempt + 1
  OBVIOUS
<1>1. /\ options \in WideOptions /\ options.allmethods /\ pc = "returned"
      /\ options' = WithCounters(options, NextCombination[1], NextCombination[2])
  BY DEF TypeInv, NextMethod, WithCounters
<1>2. options.command \in 0 .. 4 /\ options.dump_method \in 0 .. 9
  BY <1>1 DEF TypeInv, Counting, AttemptsInv, Running, InMain, Commands, Methods
<1> DEFINE c == NextCombination[1]
           m == NextCombination[2]
<1>3. /\ c \in Commands \cup {Unset, 5} /\ m \in Methods \cup {Unset}
      /\ 10 * c + m = 10 * options.command + options.dump_method + 1
  BY <1>2 DEF NextCombination, Commands, Methods
<1>4. options' = WithCounters(options, c, m)
  BY <1>1
<1> HIDE DEF c, m
<1>5. options \in WideOptions
  BY <1>1
<1>6. /\ options'.command = c /\ options'.dump_method = m
      /\ SameRequest(options', options)
  BY <1>3, <1>4, <1>5, AssignCounters
<1> QED
  BY <1>1, <1>3, <1>6 DEF Attempt, SameRequest

\* A step comes nearer to the end.
LEMMA StepCounts ==
  TypeInv /\ AttemptsInv /\ StepsCounted /\ StepsCounted' /\ [Next]_vars =>
    [StepsLeft' < StepsLeft]_vars
<1> SUFFICES ASSUME TypeInv, AttemptsInv, StepsCounted, StepsCounted', Next, ~UNCHANGED vars
             PROVE  StepsLeft' < StepsLeft
  OBVIOUS
<1>1. /\ StepsLeft \in 0 .. 502 /\ (Running => StepsLeft \in 2 .. 500)
      /\ StepsLeft' \in 0 .. 502 /\ (Running' => StepsLeft' \in 2 .. 500)
  BY DEF StepsCounted
<1>2. /\ pc = "optparse" => StepsLeft = 502
      /\ pc \in {"new", "convert"} => StepsLeft = 501
  BY DEF StepsLeft
<1>3. /\ pc' = "over" => StepsLeft' = 0
      /\ pc' \in {"new", "convert"} => StepsLeft' = 501
  BY DEF StepsLeft, Running
<1>4. /\ Running => StepsLeft = 10 * (50 - Attempt) - Stage + 1
      /\ Running' => StepsLeft' = 10 * (50 - Attempt') - Stage' + 1
  BY DEF StepsCounted
<1>5. CASE optparse
  <2>1. pc = "optparse" /\ pc' \in {"over", "new", "convert"}
    BY <1>5 DEF optparse
  <2> QED
    BY <1>1, <1>2, <1>3, <2>1
<1>6. CASE Convert \/ disc_new \/ disc_new_fails
  <2>1. pc \in {"new", "convert"} /\ pc' \in {"over", "spin up"}
    BY <1>6 DEF Convert, disc_new, disc_new_fails
  <2>2. pc' = "over" \/ Running'
    BY <2>1 DEF Running
  <2>3. StepsLeft = 501
    BY <1>2, <2>1
  <2>4. StepsLeft' < 501
    <3>1. CASE pc' = "over"
      BY <1>3, <3>1
    <3>2. CASE Running'
      BY <1>1, <3>2
    <3> QED
      BY <2>2, <3>1, <3>2
  <2> QED
    BY <2>3, <2>4
<1>7. CASE pc' = "over" /\ Running
  BY <1>1, <1>3, <1>7
<1>8. CASE NextMethod /\ pc' # "over"
  <2>1. pc = "returned" /\ pc' = "spin up"
    BY <1>8 DEF NextMethod
  <2>2. Stage = 9 /\ Stage' = 1 /\ Running /\ Running'
    BY <2>1 DEF Stage, Running
  <2>3. Attempt \in 0 .. 49 /\ Attempt' = Attempt + 1
    BY <1>8, <2>2, AttemptsNumbered, NextAttempt
  <2> QED
    BY <1>4, <2>2, <2>3
<1>9. CASE dologic /\ pc' # "over"
  <2>1. /\ \/ pc = "spin up" /\ pc' = "set up"
           \/ pc = "set up" /\ pc' = "detect"
           \/ pc = "detect" /\ pc' = "crack"
           \/ pc = "crack" /\ pc' \in {"analyze", "initialized"}
           \/ pc = "analyze" /\ pc' \in {"initialized", "returned"}
           \/ pc = "initialized" /\ pc' \in {"output", "returned"}
           \/ pc = "output" /\ pc' \in {"dump", "returned"}
           \/ pc = "dump" /\ pc' = "returned"
        /\ ~NextMethod
    BY <1>9 DEF dologic, disc_stop_unit, SetMethod, disc_detect_type, disc_crack_seeds,
                disc_analyze, Initialized, SetOutputs, NoOutputs, Dump, Return, NextMethod
  <2>2. /\ Running /\ Running' /\ Stage' > Stage
        /\ Stage \in Int /\ Stage' \in Int
    <3>1. Running /\ Running'
      BY <2>1 DEF Running
    <3>2. /\ pc = "spin up"     => Stage = 1
          /\ pc = "set up"      => Stage = 2
          /\ pc = "detect"      => Stage = 3
          /\ pc = "crack"       => Stage = 4
          /\ pc = "analyze"     => Stage = 5
          /\ pc = "initialized" => Stage = 6
          /\ pc = "output"      => Stage = 7
          /\ pc = "dump"        => Stage = 8
      BY DEF Stage
    <3>3. /\ pc' = "set up"      => Stage' = 2
          /\ pc' = "detect"      => Stage' = 3
          /\ pc' = "crack"       => Stage' = 4
          /\ pc' = "analyze"     => Stage' = 5
          /\ pc' = "initialized" => Stage' = 6
          /\ pc' = "output"      => Stage' = 7
          /\ pc' = "dump"        => Stage' = 8
          /\ pc' = "returned"    => Stage' = 9
      BY DEF Stage
    <3>4. \/ Stage = 1 /\ Stage' = 2
          \/ Stage = 2 /\ Stage' = 3
          \/ Stage = 3 /\ Stage' = 4
          \/ Stage = 4 /\ Stage' \in {5, 6}
          \/ Stage = 5 /\ Stage' \in {6, 9}
          \/ Stage = 6 /\ Stage' \in {7, 9}
          \/ Stage = 7 /\ Stage' \in {8, 9}
          \/ Stage = 8 /\ Stage' = 9
      BY <2>1, <3>2, <3>3, ZenonT(30)
    <3> QED
      BY <3>1, <3>4
  <2>3. Attempt \in 0 .. 49 /\ Attempt' = Attempt
    BY <2>1, <2>2, AttemptsNumbered, SameAttempt
  <2>4. /\ StepsLeft = 10 * (50 - Attempt) - Stage + 1
        /\ StepsLeft' = 10 * (50 - Attempt) - Stage' + 1
    BY <1>4, <2>2, <2>3
  <2>5. \A a, i, j \in Int : j > i => 10 * (50 - a) - j + 1 < 10 * (50 - a) - i + 1
    OBVIOUS
  <2>6. Attempt \in Int
    BY <2>3
  <2> QED
    BY <2>2, <2>4, <2>5, <2>6
<1>10. CASE Exit
  BY <1>7, <1>10 DEF Exit, Running
<1>11. CASE disc_stop_unit /\ pc' = "over"
  BY <1>7, <1>11 DEF disc_stop_unit, Running
<1>12. ASSUME dologic, pc' = "over" PROVE disc_stop_unit
  BY <1>12
  DEF dologic, SetMethod, disc_detect_type, disc_crack_seeds, disc_analyze, Initialized,
      SetOutputs, NoOutputs, Dump, Return
<1>13. CASE NextMethod /\ pc' = "over"
  BY <1>7, <1>13 DEF NextMethod, Running
<1> QED
  BY <1>5, <1>6, <1>8, <1>9, <1>10, <1>11, <1>12, <1>13 DEF Next, Over

-----------------------------------------------------------------------------
\* The variables keep their types; above all no method or command of -A is none, for
\* every set of command lines, drives and discs.
THEOREM SessionTyped == Spec => []TypeOK
<1>1. TypeInv => TypeOK
  BY DEF TypeInv
<1> QED
  BY <1>1, TypeInit, TypeStep, PTL DEF Spec

\* The copy of the type in unscrambler.c agrees with that in the disc structure on
\* what matters, the layout, for every sector that ever was put into the cache.
THEOREM LaidOutCorrect == Spec => []SectorsAreLaidOut
<1>1. Init => LayoutInv
  BY DEF Init, LayoutInv, Detected, DISC_TYPE_GAMECUBE
<1>2. LayoutInv => SectorsAreLaidOut
  BY DEF LayoutInv, SectorsAreLaidOut, Detected
<1> QED
  BY <1>1, <1>2, TypeInit, TypeStep, LayoutStep, PTL DEF Spec

\* However the drive answers the probes, a dump that is said to be complete has all
\* of a game disc, unless the user forces its type or size or stale sense data had
\* the disc taken for a smaller one (SuccessMeansWholeDisc).
THEOREM WholeDiscCorrect == Spec => []SuccessMeansWholeDisc
<1>1. Init => SizeInv
  BY DEF Init, SizeInv
<1>2. SizeInv => SuccessMeansWholeDisc
  BY DEF SizeInv, SuccessMeansWholeDisc, Unforced
<1> QED
  BY <1>1, <1>2, TypeInit, TypeStep, SizeStep, PTL DEF Spec

\* Where dvd_execute_cmd zeroes the sense data, as on Windows, no disc is taken for a
\* smaller one: a dump that is said to be complete then has all of a game disc,
\* unless the user forces its type or size.
THEOREM WholeDiscWithClearedSense ==
  ASSUME SenseCleared
  PROVE  Spec => [](completed /\ Unforced => held >= medium.size)
<1>1. Init => SizeInv /\ ~misled
  BY DEF Init, SizeInv
<1>2. ~misled /\ [Next]_vars => ~misled'
  <2> SUFFICES ASSUME ~misled, [Next]_vars PROVE ~misled'
    OBVIOUS
  <2>1. CASE disc_detect_type
    <3>1. PICK gamecube \in Answers(DISC_GAMECUBE_SECTORS_NO + Beyond),
               wii \in Answers(DISC_WII_SECTORS_NO_SL + Beyond) :
            misled' = (/\ options.disctype = Unset
                       /\ gamecube = "stale" \/ (~EndFound(gamecube) /\ wii = "stale"))
      BY <2>1 DEF disc_detect_type
    <3>2. gamecube # "stale" /\ wii # "stale"
      BY <3>1 DEF Answers
    <3> QED
      BY <3>1, <3>2
  <2>2. CASE ~disc_detect_type
    BY <2>2 DEF Next, dologic, Over, vars, d, optparse, Convert, disc_new, disc_new_fails,
         NextMethod, Exit, disc_stop_unit, SetMethod, disc_crack_seeds,
         disc_analyze, Initialized, SetOutputs, NoOutputs, Dump
  <2> QED
    BY <2>1, <2>2
<1>3. SizeInv /\ ~misled => (completed /\ Unforced => held >= medium.size)
  BY DEF SizeInv
<1> QED
  BY <1>1, <1>2, <1>3, TypeInit, TypeStep, SizeStep, PTL DEF Spec

\* -A with an output file gives up only when every method was tried, although dologic
\* writes into the variable that its loop counts in.
THEOREM AllMethodsCorrect == Spec => []AllMethodsTried
<1>1. Init => AttemptsInv
  BY DEF Init, AttemptsInv, Running, MethodIsSet, AllMethodsTried
<1>2. AttemptsInv => AllMethodsTried
  BY DEF AttemptsInv
<1> QED
  BY <1>1, <1>2, TypeInit, TypeStep, AttemptsStep, PTL DEF Spec

\* Whatever the drive answers, a session comes nearer to its end with every step, although
\* -A counts in variables that dologic overwrites: there are no more than 502 of them.
THEOREM SessionsAreFinite ==
  Spec => [](StepsLeft \in 0 .. 502) /\ [][StepsLeft' < StepsLeft]_vars
<1>1. Init => AttemptsInv
  BY DEF Init, AttemptsInv, Running, MethodIsSet, AllMethodsTried
<1>2. StepsCounted => StepsLeft \in 0 .. 502
  BY DEF StepsCounted
<1> QED
  BY <1>1, <1>2, TypeInit, TypeStep, AttemptsStep, StepsBounded, StepCounts, PTL DEF Spec
=============================================================================
