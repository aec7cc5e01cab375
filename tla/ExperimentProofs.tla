-------------------------- MODULE ExperimentProofs --------------------------
(***************************************************************************)
(* Proofs about the program around the driver: what is read from a         *)
(* configuration can be run, a batch runs each trial once and in order,    *)
(* a record names the directory of its own run, and a series of sessions   *)
(* ends with the first that fails.                                         *)
(*                                                                         *)
(* The argument is about the three loops of a batch.  The turns of all the *)
(* experiments are a set of triples, in lexicographic order; the records   *)
(* are at any time those of the turns before the one at hand, and taking   *)
(* it adds just that turn to those before.                                 *)
(*                                                                         *)
(* What was read is compared with the lines of the file.  While it is read *)
(* the list has one experiment for each section but the last, and what is  *)
(* current is what that section says so far; a line more either goes to    *)
(* the last section or makes it one that no line changes any more.         *)
(***************************************************************************)
EXTENDS ExperimentRunner, SequenceTheorems, FiniteSetTheorems, WellFoundedInduction, TLAPS

-----------------------------------------------------------------------------
(* Types. *)

Text == Names \cup {"default", "cli_repeat"}

ModeName == Modes \cup {"full"}

Specs ==
  [name : Text \cup {""}, out : Dirs \cup {""}, mode : ModeName,
   modes : Seq(ModeName), repeat : Nat \ {0}]

Turn == Nat \X Nat \X Nat

Dir == {<<"out">>} \cup ((Dirs \cup {""}) \X Text \X ModeName \X Nat)

Records ==
  [experiment_name : Text \cup {""}, mode : ModeName, trial : Nat, output_dir : Dir,
   success : BOOLEAN, turn : Turn]

\* What LoadFile has read so far.
LoadTypes ==
  /\ has_current \in BOOLEAN
  /\ current \in Specs /\ (has_current => SpecOK(current))
  /\ specs \in Seq(Specs)
  /\ \A i \in DOMAIN specs : SpecOK(specs[i]) /\ specs[i].modes # << >>

\* Where the program is.
PlaceTypes ==
  /\ caller \in {"--config", "library", "--repeat", "--repeat-session"}
  /\ at \in {"load", "run", "index", "sessions"} \cup Ends
  /\ spec \in Nat \ {0} /\ mode \in Nat \ {0} /\ trial \in Nat \ {0}
  /\ sessions \in Nat
  /\ records \in Seq(Records)
  /\ index = << >> \/ index = <<records>>
  /\ caller = "--repeat-session" => at \in {"sessions", "ok", "error"}
  /\ at = "sessions" => caller = "--repeat-session"
  /\ at \in {"load", "run", "index", "sessions"} => index = << >>
  /\ at = "load" => records = << >> /\ spec = 1 /\ mode = 1 /\ trial = 1
  /\ at = "run" => /\ spec \in DOMAIN specs /\ mode \in DOMAIN specs[spec].modes
                   /\ trial \in 1 .. specs[spec].repeat

\* The directories hold runs there were.
DiskTypes == \A d \in DOMAIN disk : disk[d] \in DOMAIN records

Types == LoadTypes /\ PlaceTypes /\ DiskTypes

\* A key and its value make a specification of a specification.
LEMMA ApplyTyped ==
  ASSUME NEW line \in Line, line.key \notin {"section", "comment"},
         NEW s \in Specs, SpecOK(s)
  PROVE  ApplyKeyValue(line, s) \in Specs /\ SpecOK(ApplyKeyValue(line, s))
<1>a. Numbers \subseteq Nat /\ ModeLists \subseteq Seq(ModeName)
  BY ExperimentAssumption DEF ModeName
<1>1. CASE line.key = "out"
  <2>1. line.words[1] \in Dirs
    BY <1>1 DEF Line
  <2>2. QED
    BY <1>1, <2>1 DEF ApplyKeyValue, Specs, SpecOK
<1>2. CASE line.key = "mode"
  <2>1. line.words[1] \in Modes
    BY <1>2 DEF Line
  <2>2. QED
    BY <1>2, <2>1 DEF ApplyKeyValue, Specs, SpecOK, ModeName
<1>3. CASE line.key = "modes"
  <2>1. line.words \in ModeLists
    BY <1>3 DEF Line
  <2>2. QED
    BY <1>a, <1>3, <2>1 DEF ApplyKeyValue, Specs, SpecOK
<1>4. CASE line.key = "repeat"
  <2>1. line.number \in Numbers
    BY <1>4 DEF Line
  <2>2. PICK n \in Numbers : n = line.number
    BY <2>1
  <2>3. n \in Nat
    BY <1>a
  <2>4. AtLeastOne(n) \in Nat \ {0} /\ AtLeastOne(n) \in Numbers \cup {1}
    BY <2>3 DEF AtLeastOne
  <2>5. PICK r \in Nat \ {0} : r = AtLeastOne(line.number) /\ r \in Numbers \cup {1}
    BY <2>2, <2>4
  <2>6. ApplyKeyValue(line, s) = [s EXCEPT !.repeat = r]
    BY <1>4, <2>5 DEF ApplyKeyValue
  <2>7. r > 0
    BY <2>5
  <2>8. QED
    BY <2>5, <2>6, <2>7 DEF Specs, SpecOK
<1>5. QED
  BY <1>1, <1>2, <1>3, <1>4 DEF Line

\* A specification completed has a mode to run.
LEMMA CompleteTyped ==
  ASSUME NEW s \in Specs, SpecOK(s)
  PROVE  Complete(s) \in Specs /\ SpecOK(Complete(s)) /\ Complete(s).modes # << >>
<1>1. \A m \in ModeName : <<m>> \in Seq(ModeName) /\ <<m>> # << >>
  OBVIOUS
<1>2. s.mode \in ModeName /\ "full" \in ModeName
  BY DEF Specs, ModeName
<1>3. QED
  BY <1>1, <1>2 DEF Complete, Specs, SpecOK

\* One more experiment that was read.
LEMMA SpecAdded ==
  ASSUME NEW list \in Seq(Specs), \A i \in DOMAIN list : SpecOK(list[i]) /\ list[i].modes # << >>,
         NEW s \in Specs, SpecOK(s), NEW longer, longer = Append(list, Complete(s))
  PROVE  /\ longer \in Seq(Specs) /\ Len(longer) = Len(list) + 1 /\ Len(list) \in Nat
         /\ \A i \in DOMAIN longer : SpecOK(longer[i]) /\ longer[i].modes # << >>
<1> DEFINE e == Complete(s)
<1>1. e \in Specs /\ SpecOK(e) /\ e.modes # << >>
  BY CompleteTyped
<1> HIDE DEF e
<1>2. longer = Append(list, e)
  BY DEF e
<1>3. /\ longer \in Seq(Specs) /\ Len(longer) = Len(list) + 1
      /\ \A i \in 1 .. Len(list) : longer[i] = list[i]
      /\ longer[Len(list) + 1] = e
  BY <1>1, <1>2, AppendProperties
<1>4. Len(list) \in Nat /\ DOMAIN list = 1 .. Len(list) /\ DOMAIN longer = 1 .. Len(longer)
  BY <1>3, LenProperties
<1>5. ASSUME NEW i \in DOMAIN longer
      PROVE  SpecOK(longer[i]) /\ longer[i].modes # << >>
  <2>1. i \in 1 .. Len(list) \/ i = Len(list) + 1
    BY <1>3, <1>4
  <2>2. CASE i = Len(list) + 1
    BY <1>1, <1>3, <2>2
  <2>3. CASE i \in 1 .. Len(list)
    BY <1>3, <1>4, <2>3
  <2>4. QED
    BY <2>1, <2>2, <2>3
<1>6. QED
  BY <1>3, <1>4, <1>5

\* A line, or the end of the file.
LEMMA LoadTyped ==
  ASSUME LoadTypes, ReadLine \/ EndOfFile
  PROVE  LoadTypes'
<1>a. \A n \in Names \cup {"default"} : NewSpec(n) \in Specs /\ SpecOK(NewSpec(n))
  <2>1. << >> \in Seq(ModeName)
    OBVIOUS
  <2>2. 1 \in Nat \ {0} /\ 1 > 0
    OBVIOUS
  <2>3. "full" \in ModeName
    BY DEF ModeName
  <2>4. QED
    BY <2>1, <2>2, <2>3 DEF NewSpec, Specs, SpecOK, Text
<1>b. has_current => /\ Append(specs, Complete(current)) \in Seq(Specs)
                     /\ \A i \in DOMAIN Append(specs, Complete(current)) :
                          /\ SpecOK(Append(specs, Complete(current))[i])
                          /\ Append(specs, Complete(current))[i].modes # << >>
  BY SpecAdded DEF LoadTypes
<1>1. CASE ReadLine
  <2>1. PICK line \in Line : ReadSection(line) \/ ReadKeyValue(line) \/ ReadComment(line)
    BY <1>1 DEF ReadLine
  <2>2. CASE ReadSection(line)
    <3>1. line.words[1] \in Names
      BY <2>1, <2>2 DEF ReadSection, Line
    <3>2. current' \in Specs /\ SpecOK(current')
      BY <1>a, <2>2, <3>1 DEF ReadSection
    <3>3. specs' \in Seq(Specs) /\ \A i \in DOMAIN specs' : SpecOK(specs'[i]) /\ specs'[i].modes # << >>
      BY <1>b, <2>2 DEF ReadSection, LoadTypes
    <3>4. QED
      BY <2>2, <3>2, <3>3 DEF ReadSection, LoadTypes, SpecOK
  <2>3. CASE ReadKeyValue(line)
    <3>1. PICK s : s = IF has_current THEN current ELSE NewSpec("default")
      OBVIOUS
    <3>2. s \in Specs /\ SpecOK(s)
      BY <1>a, <3>1 DEF LoadTypes
    <3>3. current' = ApplyKeyValue(line, s) /\ has_current' = TRUE /\ specs' = specs
      BY <2>3, <3>1 DEF ReadKeyValue
    <3>4. current' \in Specs /\ SpecOK(current')
      BY <2>1, <2>3, <3>2, <3>3, ApplyTyped DEF ReadKeyValue
    <3>5. QED
      BY <3>3, <3>4 DEF LoadTypes, SpecOK
  <2>4. CASE ReadComment(line)
    BY <2>4 DEF ReadComment, LoadTypes, SpecOK
  <2>5. QED
    BY <2>1, <2>2, <2>3, <2>4
<1>2. CASE EndOfFile
  <2>1. specs' \in Seq(Specs) /\ \A i \in DOMAIN specs' : SpecOK(specs'[i]) /\ specs'[i].modes # << >>
    BY <1>b, <1>2 DEF EndOfFile, LoadTypes
  <2>2. QED
    BY <1>2, <2>1 DEF EndOfFile, LoadTypes, SpecOK
<1>3. QED
  BY <1>1, <1>2

\* The lists there are have their lengths.
LEMMA ListLengths ==
  ASSUME LoadTypes
  PROVE  /\ Len(specs) \in Nat /\ DOMAIN specs = 1 .. Len(specs)
         /\ \A i \in DOMAIN specs :
              /\ specs[i] \in Specs /\ specs[i].repeat \in Nat \ {0}
              /\ Len(specs[i].modes) \in Nat \ {0}
              /\ DOMAIN specs[i].modes = 1 .. Len(specs[i].modes)
              /\ \A m \in DOMAIN specs[i].modes : specs[i].modes[m] \in ModeName
<1>1. Len(specs) \in Nat /\ DOMAIN specs = 1 .. Len(specs)
  BY LenProperties DEF LoadTypes
<1>2. ASSUME NEW i \in DOMAIN specs
      PROVE  /\ specs[i] \in Specs /\ specs[i].repeat \in Nat \ {0}
             /\ Len(specs[i].modes) \in Nat \ {0}
             /\ DOMAIN specs[i].modes = 1 .. Len(specs[i].modes)
             /\ \A m \in DOMAIN specs[i].modes : specs[i].modes[m] \in ModeName
  <2>1. specs[i] \in Specs
    BY <1>1 DEF LoadTypes
  <2>2. specs[i].repeat \in Nat \ {0} /\ specs[i].modes \in Seq(ModeName)
    BY <2>1 DEF Specs
  <2>3. PICK list \in Seq(ModeName) : list = specs[i].modes
    BY <2>2
  <2>4. list # << >>
    BY <2>3 DEF LoadTypes
  <2>5. /\ Len(list) \in Nat \ {0} /\ DOMAIN list = 1 .. Len(list)
        /\ \A m \in DOMAIN list : list[m] \in ModeName
    <3>1. Len(list) \in Nat /\ DOMAIN list = 1 .. Len(list)
      BY LenProperties
    <3>2. Len(list) # 0
      BY <2>4, EmptySeq
    <3>3. \A m \in 1 .. Len(list) : list[m] \in ModeName
      BY ElementOfSeq
    <3>4. QED
      BY <3>1, <3>2, <3>3
  <2>6. QED
    BY <2>1, <2>2, <2>3, <2>5
<1>3. QED
  BY <1>1, <1>2

\* A record more.
LEMMA RecordAdded ==
  ASSUME NEW list \in Seq(Records), NEW r \in Records, NEW longer, longer = Append(list, r)
  PROVE  /\ longer \in Seq(Records) /\ Len(list) \in Nat /\ Len(longer) = Len(list) + 1
         /\ DOMAIN list = 1 .. Len(list) /\ DOMAIN longer = 1 .. Len(list) + 1
         /\ \A i \in 1 .. Len(list) : longer[i] = list[i]
         /\ longer[Len(list) + 1] = r
<1>1. /\ longer \in Seq(Records) /\ Len(longer) = Len(list) + 1
      /\ \A i \in 1 .. Len(list) : longer[i] = list[i]
      /\ longer[Len(list) + 1] = r
  BY AppendProperties
<1>2. Len(list) \in Nat /\ DOMAIN list = 1 .. Len(list) /\ DOMAIN longer = 1 .. Len(longer)
  BY <1>1, LenProperties
<1>3. QED
  BY <1>1, <1>2

\* What one trial records.
TrialRecord(r) ==
  LET s == specs[spec]
      m == s.modes[mode]
  IN /\ r \in Records
     /\ r.turn = <<spec, mode, trial>> /\ r.output_dir = TrialDir(s, m, trial)
     /\ records' = Append(records, r)
     /\ Written(r.output_dir, Len(records) + 1, r.success)
     /\ Advance(s)

\* A trial adds one record, that of its turn.
LEMMA TrialRecords ==
  ASSUME Types, Trial
  PROVE  \E r : TrialRecord(r)
<1> DEFINE s == specs[spec]
           m == s.modes[mode]
           dir == TrialDir(s, m, trial)
           r(success) == [experiment_name |-> NameOf(s), mode |-> m, trial |-> trial,
                          output_dir |-> dir, success |-> success,
                          turn |-> <<spec, mode, trial>>]
<1>1. spec \in DOMAIN specs /\ mode \in DOMAIN s.modes /\ trial \in 1 .. s.repeat
  BY DEF Types, PlaceTypes, Trial
<1>2. s \in Specs /\ m \in ModeName /\ SpecOK(s)
  BY <1>1, ListLengths DEF Types, LoadTypes
<1>3. spec \in Nat /\ mode \in Nat /\ trial \in Nat
  BY DEF Types, PlaceTypes
<1>4. NameOf(s) \in Text /\ s.out \in Dirs \cup {""}
  BY <1>2 DEF NameOf, SpecOK, Text
<1>5. dir \in Dir /\ <<spec, mode, trial>> \in Turn
  BY <1>2, <1>3, <1>4 DEF TrialDir, Dir, Turn
<1>6. PICK success \in BOOLEAN :
        /\ records' = Append(records, r(success))
        /\ Written(dir, Len(records) + 1, success)
        /\ Advance(s)
  BY DEF Trial
<1> HIDE DEF s, m, dir
<1>7. /\ r(success) \in Records
      /\ r(success).turn = <<spec, mode, trial>> /\ r(success).output_dir = dir
      /\ r(success).success = success
  BY <1>2, <1>3, <1>4, <1>5 DEF Records
<1> HIDE DEF r
<1>8. TrialRecord(r(success))
  BY <1>6, <1>7 DEF TrialRecord, s, m, dir
<1>9. QED
  BY <1>8

\* What one session records.
SessionRecord(r) ==
  /\ r \in Records /\ r.output_dir = <<"out">>
  /\ records' = Append(records, r)
  /\ Written(<<"out">>, trial, r.success)
  /\ trial' = trial + 1
  /\ at' = IF ~r.success THEN "error" ELSE IF trial < sessions THEN at ELSE "ok"
  /\ UNCHANGED <<caller, loadVars, spec, mode, sessions, index>>

\* A session adds one record as well.
LEMMA SessionRecords ==
  ASSUME Types, Session
  PROVE  \E r : SessionRecord(r)
<1> DEFINE r(success) == [experiment_name |-> "", mode |-> "full", trial |-> trial,
                          output_dir |-> <<"out">>, success |-> success,
                          turn |-> <<1, 1, trial>>]
<1>1. PICK success \in BOOLEAN :
        /\ records' = Append(records, r(success))
        /\ Written(<<"out">>, trial, success)
        /\ at' = IF ~success THEN "error" ELSE IF trial < sessions THEN at ELSE "ok"
  BY DEF Session
<1>2. trial \in Nat /\ <<1, 1, trial>> \in Turn /\ <<"out">> \in Dir /\ "full" \in ModeName
  BY DEF Types, PlaceTypes, Turn, Dir, ModeName
<1>3. /\ r(success) \in Records /\ r(success).output_dir = <<"out">>
      /\ r(success).success = success
  BY <1>2 DEF Records
<1> HIDE DEF r
<1>4. SessionRecord(r(success))
  BY <1>1, <1>3 DEF SessionRecord, Session
<1>5. QED
  BY <1>4

\* The directories after a run.
LEMMA DiskTyped ==
  ASSUME DiskTypes, records \in Seq(Records), NEW r \in Records,
         records' = Append(records, r), NEW dir, NEW run, NEW success,
         run = Len(records) + 1, Written(dir, run, success)
  PROVE  /\ DiskTypes'
         /\ \A d \in DOMAIN disk : d \in DOMAIN disk' /\ (d # dir => disk'[d] = disk[d])
         /\ (success => dir \in DOMAIN disk' /\ disk'[dir] = run)
<1>1. PICK longer : longer = records' /\ longer = Append(records, r)
  <2>1. \E longer : longer = Append(records, r)
    OBVIOUS
  <2>2. QED
    BY <2>1
<1>2. /\ DOMAIN records = 1 .. Len(records) /\ DOMAIN longer = 1 .. Len(records) + 1
      /\ Len(records) \in Nat
  BY <1>1, RecordAdded
<1>3. run \in DOMAIN longer /\ \A i \in DOMAIN records : i \in DOMAIN longer
  BY <1>2
<1>4. CASE disk' = [d \in DOMAIN disk \cup {dir} |-> IF d = dir THEN run ELSE disk[d]]
  <2>1. /\ DOMAIN disk' = DOMAIN disk \cup {dir}
        /\ \A d \in DOMAIN disk' : disk'[d] = IF d = dir THEN run ELSE disk[d]
    BY <1>4
  <2>2. \A d \in DOMAIN disk' : disk'[d] \in DOMAIN longer
    BY <1>3, <2>1 DEF DiskTypes
  <2>3. DiskTypes'
    BY <1>1, <2>2 DEF DiskTypes
  <2>4. QED
    BY <2>1, <2>3
<1>5. CASE ~success /\ disk' = disk
  BY <1>1, <1>3, <1>5 DEF DiskTypes
<1>6. QED
  BY <1>4, <1>5 DEF Written

-----------------------------------------------------------------------------
(* The sessions of --repeat-session. *)

AllSucceeded == \A i \in DOMAIN records : records[i].success

SessionsGo ==
  caller = "--repeat-session" =>
    /\ at = "sessions" => trial = Len(records) + 1 /\ trial <= sessions /\ AllSucceeded
    /\ at = "ok" => /\ Len(records) = sessions /\ AllSucceeded
                    /\ disk[<<"out">>] = sessions
    /\ at = "error" => \A i \in DOMAIN records : ~records[i].success => i = Len(records)

\* The types after a session.
LEMMA SessionTyped ==
  ASSUME Types, SessionsGo, Session
  PROVE  Types' /\ SessionsGo'
<1>a. /\ at = "sessions" /\ caller = "--repeat-session" /\ trial = Len(records) + 1
      /\ trial <= sessions /\ AllSucceeded /\ trial \in Nat \ {0} /\ sessions \in Nat
      /\ records \in Seq(Records)
  BY DEF Session, Types, PlaceTypes, SessionsGo
<1>1. PICK r : SessionRecord(r)
  BY SessionRecords
<1>2. /\ r \in Records /\ records' = Append(records, r) /\ Written(<<"out">>, trial, r.success)
      /\ trial' = trial + 1
      /\ at' = IF ~r.success THEN "error" ELSE IF trial < sessions THEN at ELSE "ok"
      /\ UNCHANGED <<caller, loadVars, spec, mode, sessions, index>>
      /\ r.success \in BOOLEAN
  BY <1>1 DEF SessionRecord, Records
<1>3. PICK longer : longer = records' /\ longer = Append(records, r)
  <2>1. \E longer : longer = Append(records, r)
    OBVIOUS
  <2>2. QED
    BY <1>2, <2>1
<1>4. /\ longer \in Seq(Records) /\ Len(records) \in Nat /\ Len(longer) = Len(records) + 1
      /\ DOMAIN records = 1 .. Len(records) /\ DOMAIN longer = 1 .. Len(records) + 1
      /\ \A i \in 1 .. Len(records) : longer[i] = records[i]
      /\ longer[Len(records) + 1] = r
  BY <1>a, <1>2, <1>3, RecordAdded
<1>5. DiskTypes' /\ (r.success => disk'[<<"out">>] = trial)
  BY <1>a, <1>2, DiskTyped DEF Types
<1>6. LoadTypes'
  BY <1>2 DEF Types, LoadTypes, loadVars, SpecOK
<1>7. PlaceTypes'
  <2>1. trial' \in Nat \ {0}
    BY <1>a, <1>2
  <2>2. index = << >>
    BY <1>a DEF Types, PlaceTypes
  <2>3. QED
    BY <1>a, <1>2, <1>3, <1>4, <2>1, <2>2 DEF Types, PlaceTypes, Ends
<1>8. \A i \in DOMAIN longer : i \in DOMAIN records \/ i = Len(longer)
  BY <1>4
<1>9. r.success => \A i \in DOMAIN longer : longer[i].success
  BY <1>a, <1>4, <1>8 DEF AllSucceeded
<1>10. \A i \in DOMAIN longer : ~longer[i].success => i = Len(longer)
  BY <1>a, <1>4, <1>8 DEF AllSucceeded
<1>11. SessionsGo'
  <2>1. CASE ~r.success
    <3>1. at' = "error"
      BY <1>2, <2>1
    <3>2. QED
      BY <1>3, <1>10, <3>1 DEF SessionsGo
  <2>2. CASE r.success /\ trial < sessions
    <3>1. at' = "sessions" /\ trial' = Len(longer) + 1 /\ trial' <= sessions'
      BY <1>a, <1>2, <1>4, <2>2
    <3>2. QED
      BY <1>3, <1>9, <2>2, <3>1 DEF SessionsGo, AllSucceeded
  <2>3. CASE r.success /\ ~(trial < sessions)
    <3>1. at' = "ok" /\ Len(longer) = sessions' /\ trial = sessions /\ sessions' = sessions
      BY <1>a, <1>2, <1>4, <2>3
    <3>2. QED
      BY <1>3, <1>5, <1>9, <2>3, <3>1 DEF SessionsGo, AllSucceeded
  <2>4. QED
    BY <1>2, <2>1, <2>2, <2>3
<1>12. QED
  BY <1>5, <1>6, <1>7, <1>11 DEF Types

\* The types after any step.
LEMMA TypesStep ==
  ASSUME Types, SessionsGo, [Next]_vars
  PROVE  Types' /\ SessionsGo'
<1>1. CASE ReadLine
  <2>1. LoadTypes'
    BY <1>1, LoadTyped DEF Types
  <2>2. /\ at = "load" /\ UNCHANGED <<caller, loopVars, records, disk, sessions, index, at>>
    BY <1>1 DEF ReadLine
  <2>3. PlaceTypes' /\ DiskTypes'
    BY <2>2 DEF Types, PlaceTypes, DiskTypes, loopVars
  <2>4. SessionsGo'
    BY <2>2 DEF Types, PlaceTypes, SessionsGo, AllSucceeded
  <2>5. QED
    BY <2>1, <2>3, <2>4 DEF Types
<1>2. CASE EndOfFile
  <2>1. LoadTypes'
    BY <1>2, LoadTyped DEF Types
  <2>2. /\ at = "load" /\ at' = IF specs' = << >> THEN "error" ELSE "run"
        /\ UNCHANGED <<caller, loopVars, records, disk, sessions, index>>
    BY <1>2 DEF EndOfFile
  <2>3. caller # "--repeat-session" /\ spec = 1 /\ mode = 1 /\ trial = 1
    BY <2>2 DEF Types, PlaceTypes
  <2>4. specs' # << >> => /\ 1 \in DOMAIN specs' /\ 1 \in DOMAIN specs'[1].modes
                          /\ 1 \in 1 .. specs'[1].repeat
    <3> SUFFICES ASSUME specs' # << >>
                 PROVE  /\ 1 \in DOMAIN specs' /\ 1 \in DOMAIN specs'[1].modes
                        /\ 1 \in 1 .. specs'[1].repeat
      OBVIOUS
    <3>1. PICK list \in Seq(Specs) : /\ list = specs'
                                     /\ \A i \in DOMAIN list : list[i].modes # << >>
      BY <2>1 DEF LoadTypes
    <3>2. 1 \in DOMAIN list
      <4>1. Len(list) \in Nat /\ DOMAIN list = 1 .. Len(list)
        BY LenProperties
      <4>2. Len(list) # 0
        BY <3>1, EmptySeq
      <4>3. QED
        BY <4>1, <4>2
    <3>3. list[1].modes \in Seq(ModeName) /\ list[1].modes # << >> /\ list[1].repeat \in Nat \ {0}
      <4>1. list[1] \in Specs
        BY <3>2, ElementOfSeq, LenProperties
      <4>2. QED
        BY <3>1, <3>2, <4>1 DEF Specs
    <3>4. 1 \in DOMAIN list[1].modes
      <4>1. PICK modes \in Seq(ModeName) : modes = list[1].modes
        BY <3>3
      <4>2. Len(modes) \in Nat /\ DOMAIN modes = 1 .. Len(modes)
        BY LenProperties
      <4>3. Len(modes) # 0
        BY <3>3, <4>1, EmptySeq
      <4>4. 1 \in 1 .. Len(modes)
        BY <4>2, <4>3
      <4>5. QED
        BY <4>1, <4>2, <4>4
    <3>5. QED
      BY <3>1, <3>2, <3>3, <3>4
  <2>5. PlaceTypes'
    BY <2>2, <2>3, <2>4 DEF Types, PlaceTypes, loopVars, Ends
  <2>6. DiskTypes'
    BY <2>2 DEF Types, DiskTypes
  <2>7. SessionsGo'
    BY <2>2, <2>3 DEF SessionsGo
  <2>8. QED
    BY <2>1, <2>5, <2>6, <2>7 DEF Types
<1>3. CASE Trial
  <2>1. /\ at = "run" /\ UNCHANGED <<caller, loadVars, sessions, index>>
    BY <1>3 DEF Trial
  <2>2. caller # "--repeat-session" /\ index = << >>
    BY <2>1 DEF Types, PlaceTypes
  <2>3. PICK r : TrialRecord(r)
    BY <1>3, TrialRecords
  <2>4. /\ r \in Records /\ records' = Append(records, r)
        /\ Written(r.output_dir, Len(records) + 1, r.success) /\ Advance(specs[spec])
    BY <2>3 DEF TrialRecord
  <2>5. DiskTypes' /\ records' \in Seq(Records)
    <3>1. records \in Seq(Records)
      BY DEF Types, PlaceTypes
    <3>2. QED
      BY <2>4, <3>1, DiskTyped, AppendProperties DEF Types
  <2>6. LoadTypes'
    BY <2>1 DEF Types, LoadTypes, loadVars, SpecOK
  <2>7. /\ spec' \in Nat \ {0} /\ mode' \in Nat \ {0} /\ trial' \in Nat \ {0}
        /\ at' \in {"run", "index"}
        /\ at' = "run" => /\ spec' \in DOMAIN specs /\ mode' \in DOMAIN specs[spec'].modes
                          /\ trial' \in 1 .. specs[spec'].repeat
    <3>1. /\ spec \in Nat \ {0} /\ mode \in Nat \ {0} /\ trial \in Nat \ {0}
          /\ spec \in DOMAIN specs /\ mode \in DOMAIN specs[spec].modes
          /\ trial \in 1 .. specs[spec].repeat
      BY <2>1 DEF Types, PlaceTypes
    <3>2. /\ Len(specs) \in Nat /\ DOMAIN specs = 1 .. Len(specs)
          /\ \A i \in DOMAIN specs :
               /\ specs[i].repeat \in Nat \ {0} /\ Len(specs[i].modes) \in Nat \ {0}
               /\ DOMAIN specs[i].modes = 1 .. Len(specs[i].modes)
      BY ListLengths DEF Types
    <3>3. CASE trial < specs[spec].repeat
      <4>1. trial' = trial + 1 /\ spec' = spec /\ mode' = mode /\ at' = at
        BY <2>4, <3>3 DEF Advance
      <4>2. trial + 1 \in 1 .. specs[spec].repeat /\ trial + 1 \in Nat \ {0}
        BY <3>1, <3>2, <3>3
      <4>3. QED
        BY <2>1, <3>1, <4>1, <4>2
    <3>4. CASE ~(trial < specs[spec].repeat) /\ mode < Len(specs[spec].modes)
      <4>1. trial' = 1 /\ mode' = mode + 1 /\ spec' = spec /\ at' = at
        BY <2>4, <3>4 DEF Advance
      <4>2. mode + 1 \in DOMAIN specs[spec].modes /\ mode + 1 \in Nat \ {0}
        BY <3>1, <3>2, <3>4
      <4>3. 1 \in 1 .. specs[spec].repeat
        BY <3>1, <3>2
      <4>4. QED
        BY <2>1, <3>1, <4>1, <4>2, <4>3
    <3>5. CASE ~(trial < specs[spec].repeat) /\ ~(mode < Len(specs[spec].modes))
      <4>1. /\ trial' = 1 /\ mode' = 1 /\ spec' = spec + 1
            /\ at' = IF spec < Len(specs) THEN "run" ELSE "index"
        BY <2>4, <3>5 DEF Advance
      <4>2. spec < Len(specs) => spec + 1 \in DOMAIN specs
        BY <3>1, <3>2
      <4>3. \A i \in DOMAIN specs : 1 \in DOMAIN specs[i].modes /\ 1 \in 1 .. specs[i].repeat
        BY <3>2
      <4>4. spec + 1 \in Nat \ {0}
        BY <3>1
      <4>5. QED
        BY <4>1, <4>2, <4>3, <4>4
    <3>6. QED
      BY <3>3, <3>4, <3>5
  <2>8. PlaceTypes'
    BY <2>1, <2>2, <2>5, <2>7 DEF Types, PlaceTypes, loadVars
  <2>9. SessionsGo'
    BY <2>1, <2>2 DEF SessionsGo
  <2>10. QED
    BY <2>5, <2>6, <2>8, <2>9 DEF Types
<1>4. CASE WriteIndexCsv
  <2>1. /\ at = "index" /\ at' \in Ends /\ UNCHANGED <<caller, loadVars, loopVars, records, disk, sessions>>
        /\ index' = index \/ index' = <<records>>
    BY <1>4 DEF WriteIndexCsv, Ends
  <2>2. caller # "--repeat-session"
    BY <2>1 DEF Types, PlaceTypes
  <2>3. LoadTypes' /\ DiskTypes'
    BY <2>1 DEF Types, LoadTypes, DiskTypes, loadVars, SpecOK
  <2>4. PlaceTypes'
    BY <2>1, <2>2 DEF Types, PlaceTypes, loadVars, loopVars, Ends
  <2>5. QED
    BY <2>1, <2>2, <2>3, <2>4 DEF Types, SessionsGo
<1>5. CASE Session
  BY <1>5, SessionTyped
<1>6. CASE UNCHANGED vars
  <2>1. LoadTypes'
    BY <1>6 DEF vars, loadVars, Types, LoadTypes, SpecOK
  <2>2. PlaceTypes' /\ DiskTypes'
    BY <1>6 DEF vars, loadVars, loopVars, Types, PlaceTypes, DiskTypes
  <2>3. SessionsGo'
    BY <1>6 DEF vars, loopVars, SessionsGo, AllSucceeded
  <2>4. QED
    BY <2>1, <2>2, <2>3 DEF Types
<1>7. QED
  BY <1>1, <1>2, <1>3, <1>4, <1>5, <1>6 DEF Next

\* A program that has not started.
LEMMA InitTyped == Init => Types /\ SessionsGo
<1> SUFFICES ASSUME Init
             PROVE  Types /\ SessionsGo
  OBVIOUS
<1>1. /\ config = << >> /\ records = << >> /\ disk = << >> /\ index = << >>
      /\ current = NewSpec("") /\ has_current = FALSE
      /\ spec = 1 /\ mode = 1 /\ trial = 1
  BY DEF Init
<1>2. \A n \in Text \cup {""} : NewSpec(n) \in Specs
  <2>1. << >> \in Seq(ModeName)
    OBVIOUS
  <2>2. 1 \in Nat \ {0} /\ "full" \in ModeName
    BY DEF ModeName
  <2>3. QED
    BY <2>1, <2>2 DEF NewSpec, Specs
<1>3. /\ specs \in Seq(Specs)
      /\ \A i \in DOMAIN specs : SpecOK(specs[i]) /\ specs[i].modes # << >>
      /\ at = "run" => /\ 1 \in DOMAIN specs /\ 1 \in DOMAIN specs[1].modes
                       /\ 1 \in 1 .. specs[1].repeat
  <2>1. CASE specs = << >> /\ at # "run"
    BY <2>1
  <2>2. CASE \E n \in Numbers \ {0, 1}, m \in Modes :
               specs = <<[NewSpec("cli_repeat") EXCEPT !.repeat = n, !.modes = <<m>>]>>
    <3>1. PICK n \in Numbers \ {0, 1}, m \in Modes :
            specs = <<[NewSpec("cli_repeat") EXCEPT !.repeat = n, !.modes = <<m>>]>>
      BY <2>2
    <3>2. n \in Nat \ {0} /\ n > 0 /\ 1 \in 1 .. n
      <4>1. n \in Nat /\ n # 0
        BY <3>1, ExperimentAssumption
      <4>2. QED
        BY <4>1
    <3>3. PICK s : s = [NewSpec("cli_repeat") EXCEPT !.repeat = n, !.modes = <<m>>]
      OBVIOUS
    <3>4. PICK list : list = <<m>>
      OBVIOUS
    <3>5. list \in Seq(ModeName) /\ list # << >> /\ 1 \in DOMAIN list
      <4>1. m \in ModeName
        BY <3>1 DEF ModeName
      <4>2. QED
        BY <3>4, <4>1
    <3>6. s \in Specs /\ SpecOK(s) /\ s.modes = list /\ s.repeat = n
      <4>1. NewSpec("cli_repeat") \in Specs /\ NewSpec("cli_repeat").name = "cli_repeat"
            /\ NewSpec("cli_repeat").out = ""
        BY <1>2 DEF Text, NewSpec
      <4>2. s = [NewSpec("cli_repeat") EXCEPT !.repeat = n, !.modes = list]
        BY <3>3, <3>4
      <4>3. s \in Specs /\ s.modes = list /\ s.repeat = n /\ s.name = "cli_repeat" /\ s.out = ""
        BY <3>2, <3>5, <4>1, <4>2 DEF Specs
      <4>4. QED
        BY <3>1, <3>2, <4>3 DEF SpecOK
    <3>7. specs = <<s>>
      BY <3>1, <3>3
    <3>8. DOMAIN specs = {1} /\ specs[1] = s /\ specs \in Seq(Specs)
      BY <3>6, <3>7
    <3>9. QED
      BY <3>2, <3>5, <3>6, <3>8
  <2>3. QED
    BY <2>1, <2>2 DEF Init
<1>4. LoadTypes
  BY <1>1, <1>2, <1>3 DEF LoadTypes
<1>5. PlaceTypes
  <2>1. /\ caller \in {"--config", "library", "--repeat", "--repeat-session"}
        /\ at \in {"load", "run", "sessions"}
        /\ caller = "--repeat-session" => at = "sessions"
        /\ at = "sessions" => caller = "--repeat-session"
    BY DEF Init
  <2>2. sessions \in Nat
    <3>1. sessions = 0 \/ sessions \in 1 .. MaxSessions
      BY DEF Init
    <3>2. QED
      BY <3>1, ExperimentAssumption
  <2>3. 1 \in Nat \ {0} /\ << >> \in Seq(Records)
    OBVIOUS
  <2>4. QED
    BY <1>1, <1>3, <2>1, <2>2, <2>3 DEF PlaceTypes
<1>6. DiskTypes
  <2>1. DOMAIN << >> = {}
    OBVIOUS
  <2>2. DOMAIN disk = {}
    BY <1>1, <2>1
  <2>3. QED
    BY <2>2 DEF DiskTypes
<1>7. SessionsGo
  <2>1. caller = "--repeat-session" => at = "sessions" /\ 1 <= sessions
    <3>1. caller = "--repeat-session" => at = "sessions" /\ sessions \in 1 .. MaxSessions
      BY DEF Init
    <3>2. QED
      BY <3>1, ExperimentAssumption
  <2>2. Len(records) = 0 /\ DOMAIN records = {}
    <3>1. Len(<< >>) = 0 /\ DOMAIN << >> = {}
      OBVIOUS
    <3>2. QED
      BY <1>1, <3>1
  <2>3. AllSucceeded
    BY <2>2 DEF AllSucceeded
  <2>4. trial = Len(records) + 1
    <3>1. trial = 1
      BY <1>1
    <3>2. QED
      BY <2>2, <3>1
  <2>5. caller = "--repeat-session" => trial <= sessions
    BY <1>1, <2>1
  <2>6. QED
    BY <2>1, <2>3, <2>4, <2>5 DEF SessionsGo
<1>8. QED
  BY <1>4, <1>5, <1>6, <1>7 DEF Types

\* The values the program can have in every state, and the sessions going on
\* as long as they succeed: what the theorems below rest on.
THEOREM ExperimentInvariant == Spec => [](Types /\ SessionsGo)
<1>1. (Types /\ SessionsGo) /\ [Next]_vars => (Types /\ SessionsGo)'
  BY TypesStep
<1>2. QED
  BY <1>1, InitTyped, PTL DEF Spec

\* What is read from a configuration can be run, and the loops stay in the
\* bounds of what was read.
THEOREM ExperimentTypeCorrect == Spec => []ExperimentTypeOK
<1>1. Types => ExperimentTypeOK
  <2> SUFFICES ASSUME Types
               PROVE  ExperimentTypeOK
    OBVIOUS
  <2>1. Len(index) <= 1
    <3>1. Len(<< >>) <= 1 /\ Len(<<records>>) <= 1
      OBVIOUS
    <3>2. QED
      BY <3>1 DEF Types, PlaceTypes
  <2>2. QED
    BY <2>1 DEF Types, LoadTypes, PlaceTypes, DiskTypes, ExperimentTypeOK
<1>2. QED
  BY <1>1, ExperimentInvariant, PTL

\* A series of sessions ends with the first that fails, and only one that ran
\* them all reports success.
THEOREM SessionsStop == Spec => []SessionsStopAtFailure
<1>1. Types /\ SessionsGo => SessionsStopAtFailure
  BY DEF Types, PlaceTypes, SessionsGo, AllSucceeded, SessionsStopAtFailure
<1>2. QED
  BY <1>1, ExperimentInvariant, PTL

-----------------------------------------------------------------------------
(* The three loops of a batch. *)

AllTurns ==
  UNION {{<<s, m, t>> : m \in DOMAIN specs[s].modes, t \in 1 .. specs[s].repeat}
         : s \in DOMAIN specs}

\* A turn is one of those if its numbers are in range.
LEMMA TurnIn ==
  ASSUME NEW u
  PROVE  u \in AllTurns <=>
           \E s \in DOMAIN specs : \E m \in DOMAIN specs[s].modes :
             \E t \in 1 .. specs[s].repeat : u = <<s, m, t>>
BY DEF AllTurns

\* The records are those of the turns before the one at hand, each once.
TurnsDone ==
  caller # "--repeat-session" =>
    /\ \A i \in DOMAIN records : records[i].turn \in AllTurns
    /\ \A i, j \in DOMAIN records : i < j => Before(records[i].turn, records[j].turn)
    /\ at = "run" =>
         \A u \in AllTurns : Before(u, <<spec, mode, trial>>)
                               <=> \E i \in DOMAIN records : records[i].turn = u
    /\ at \in {"index", "ok", "abort"} =>
         \A u \in AllTurns : \E i \in DOMAIN records : records[i].turn = u

\* The turn at hand is the next of all turns: those before the one after it are
\* those before it and itself, and if none is after it all are before it.
LEMMA NextTurn ==
  ASSUME Types, at = "run", Advance(specs[spec]), NEW u \in AllTurns
  PROVE  /\ at' = "run" => (Before(u, <<spec', mode', trial'>>)
                              <=> Before(u, <<spec, mode, trial>>) \/ u = <<spec, mode, trial>>)
         /\ at' # "run" => Before(u, <<spec, mode, trial>>) \/ u = <<spec, mode, trial>>
<1>1. /\ spec \in Nat \ {0} /\ mode \in Nat \ {0} /\ trial \in Nat \ {0}
      /\ spec \in DOMAIN specs /\ mode \in DOMAIN specs[spec].modes
      /\ trial \in 1 .. specs[spec].repeat
  BY DEF Types, PlaceTypes
<1>2. /\ Len(specs) \in Nat /\ DOMAIN specs = 1 .. Len(specs)
      /\ \A i \in DOMAIN specs :
           /\ specs[i].repeat \in Nat \ {0} /\ Len(specs[i].modes) \in Nat \ {0}
           /\ DOMAIN specs[i].modes = 1 .. Len(specs[i].modes)
  BY ListLengths DEF Types
<1>3. PICK s \in DOMAIN specs : \E m \in DOMAIN specs[s].modes :
             \E t \in 1 .. specs[s].repeat : u = <<s, m, t>>
  BY TurnIn
<1>4. PICK m \in DOMAIN specs[s].modes, t \in 1 .. specs[s].repeat : u = <<s, m, t>>
  BY <1>3
<1>5. PICK L \in Nat : L = Len(specs) /\ s \in 1 .. L /\ spec \in 1 .. L
  BY <1>1, <1>2, <1>3
<1>6. PICK M \in Nat, R \in Nat : M = Len(specs[spec].modes) /\ R = specs[spec].repeat
  BY <1>1, <1>2
<1>7. /\ mode \in 1 .. M /\ trial \in 1 .. R /\ m \in Nat \ {0} /\ t \in Nat \ {0}
      /\ s = spec => m \in 1 .. M /\ t \in 1 .. R
  <2>1. PICK l \in Nat : l = Len(specs[s].modes)
    BY <1>2, <1>3
  <2>2. PICK r \in Nat : r = specs[s].repeat
    BY <1>2, <1>3
  <2>3. m \in 1 .. l
    BY <1>2, <1>3, <1>4, <2>1
  <2>4. t \in 1 .. r
    BY <1>4, <2>2
  <2>5. m \in Nat \ {0} /\ t \in Nat \ {0}
    BY <2>3, <2>4
  <2>6. mode \in 1 .. M
    BY <1>1, <1>2, <1>6
  <2>7. trial \in 1 .. R
    BY <1>1, <1>6
  <2>8. ASSUME s = spec
        PROVE  m \in 1 .. M /\ t \in 1 .. R
    <3>1. l = M /\ r = R
      BY <1>6, <2>1, <2>2, <2>8
    <3>2. QED
      BY <2>3, <2>4, <3>1
  <2>9. QED
    BY <2>5, <2>6, <2>7, <2>8
<1>8. Before(u, <<spec, mode, trial>>) \/ u = <<spec, mode, trial>>
        <=> s < spec \/ (s = spec /\ m < mode) \/ (s = spec /\ m = mode /\ t <= trial)
  <2>1. u[1] = s /\ u[2] = m /\ u[3] = t
    BY <1>4
  <2>2. u = <<spec, mode, trial>> <=> s = spec /\ m = mode /\ t = trial
    BY <1>4
  <2>3. t <= trial <=> t < trial \/ t = trial
    BY <1>7
  <2>4. QED
    BY <2>1, <2>2, <2>3 DEF Before
<1>9. ASSUME NEW a, NEW b, NEW c
      PROVE  Before(u, <<a, b, c>>) <=> s < a \/ (s = a /\ m < b) \/ (s = a /\ m = b /\ t < c)
  BY <1>4 DEF Before
<1>10. CASE trial < R
  <2>1. at' = "run" /\ spec' = spec /\ mode' = mode /\ trial' = trial + 1
    BY <1>6, <1>10 DEF Advance
  <2>2. t <= trial <=> t < trial + 1
    BY <1>7
  <2>3. QED
    BY <1>8, <1>9, <2>1, <2>2
<1>11. CASE ~(trial < R) /\ mode < M
  <2>1. at' = "run" /\ spec' = spec /\ mode' = mode + 1 /\ trial' = 1
    BY <1>6, <1>11 DEF Advance
  <2>2. s = spec => (m < mode + 1 <=> m < mode \/ (m = mode /\ t <= trial))
    BY <1>7, <1>11
  <2>3. ~(t < 1)
    BY <1>7
  <2>4. QED
    BY <1>8, <1>9, <2>1, <2>2, <2>3
<1>12. CASE ~(trial < R) /\ ~(mode < M)
  <2>1. /\ spec' = spec + 1 /\ mode' = 1 /\ trial' = 1
        /\ at' = IF spec < L THEN "run" ELSE "index"
    BY <1>5, <1>6, <1>12 DEF Advance
  <2>2. s = spec => m < mode \/ (m = mode /\ t <= trial)
    BY <1>7, <1>12
  <2>3. ~(t < 1) /\ ~(m < 1)
    BY <1>7
  <2>4. s < spec + 1 <=> s < spec \/ s = spec
    BY <1>5
  <2>5. ~(spec < L) => s < spec \/ s = spec
    BY <1>5
  <2>6. Before(u, <<spec, mode, trial>>) \/ u = <<spec, mode, trial>> <=> s < spec + 1
    BY <1>8, <2>2, <2>4
  <2>7. Before(u, <<spec', mode', trial'>>) <=> s < spec + 1
    BY <1>9, <2>1, <2>3
  <2>8. at' # "run" => s < spec + 1
    BY <2>1, <2>4, <2>5
  <2>9. QED
    BY <2>6, <2>7, <2>8
<1>13. QED
  BY <1>10, <1>11, <1>12

\* The turn at hand is one of them.
LEMMA TurnAtHand ==
  ASSUME Types, at = "run"
  PROVE  <<spec, mode, trial>> \in AllTurns
<1>1. /\ spec \in DOMAIN specs /\ mode \in DOMAIN specs[spec].modes
      /\ trial \in 1 .. specs[spec].repeat
  BY DEF Types, PlaceTypes
<1>2. QED
  BY <1>1 DEF AllTurns

\* No turn comes before the first.
LEMMA FirstTurn == Types => \A u \in AllTurns : ~Before(u, <<1, 1, 1>>)
<1> SUFFICES ASSUME Types, NEW u \in AllTurns
             PROVE  ~Before(u, <<1, 1, 1>>)
  OBVIOUS
<1>1. PICK s \in DOMAIN specs : \E m \in DOMAIN specs[s].modes :
             \E t \in 1 .. specs[s].repeat : u = <<s, m, t>>
  BY TurnIn
<1>2. PICK m \in DOMAIN specs[s].modes, t \in 1 .. specs[s].repeat : u = <<s, m, t>>
  BY <1>1
<1>3. s \in Nat \ {0} /\ m \in Nat \ {0} /\ t \in Nat \ {0}
  BY ListLengths DEF Types
<1>4. ~(s < 1) /\ ~(m < 1) /\ ~(t < 1)
  BY <1>3
<1>5. u[1] = s /\ u[2] = m /\ u[3] = t
  BY <1>2
<1>6. QED
  BY <1>4, <1>5 DEF Before

\* Nor after a step.
LEMMA FirstTurnThen == Types' => (\A u \in AllTurns : ~Before(u, <<1, 1, 1>>))'
  BY FirstTurn, PTL

\* Taking a turn.
LEMMA TrialDone ==
  ASSUME Types, TurnsDone, Trial
  PROVE  TurnsDone'
<1>a. at = "run" /\ caller # "--repeat-session" /\ specs' = specs /\ caller' = caller
      /\ records \in Seq(Records)
  BY DEF Trial, loadVars, Types, PlaceTypes
<1>1. PICK r : TrialRecord(r)
  BY TrialRecords
<1>2. /\ r \in Records /\ r.turn = <<spec, mode, trial>> /\ records' = Append(records, r)
      /\ Advance(specs[spec])
  BY <1>1 DEF TrialRecord
<1>3. PICK longer : longer = records' /\ longer = Append(records, r)
  <2>1. \E longer : longer = Append(records, r)
    OBVIOUS
  <2>2. QED
    BY <1>2, <2>1
<1>4. /\ Len(records) \in Nat
      /\ DOMAIN records = 1 .. Len(records) /\ DOMAIN longer = 1 .. Len(records) + 1
      /\ \A i \in 1 .. Len(records) : longer[i] = records[i]
      /\ longer[Len(records) + 1] = r
  BY <1>a, <1>2, <1>3, RecordAdded
<1> DEFINE cur == <<spec, mode, trial>>
           n == Len(records)
<1>5. /\ \A i \in DOMAIN records : records[i].turn \in AllTurns
      /\ \A i, j \in DOMAIN records : i < j => Before(records[i].turn, records[j].turn)
      /\ \A u \in AllTurns : Before(u, cur) <=> \E i \in DOMAIN records : records[i].turn = u
  BY <1>a DEF TurnsDone
<1>6. cur \in AllTurns /\ AllTurns' = AllTurns
  BY <1>a, TurnAtHand DEF AllTurns
<1>7. \A u \in AllTurns :
        (at' = "run" => (Before(u, <<spec', mode', trial'>>) <=> Before(u, cur) \/ u = cur))
        /\ (at' # "run" => Before(u, cur) \/ u = cur)
  BY <1>a, <1>2, NextTurn
<1>8. longer[n + 1].turn = cur
  BY <1>2, <1>4
<1> HIDE DEF cur
<1>9. n \in Nat /\ \A i \in 1 .. n + 1 : i \in 1 .. n \/ i = n + 1
  BY <1>4
<1>9a. n + 1 \in 1 .. n + 1 /\ \A i \in 1 .. n : i \in 1 .. n + 1
  BY <1>4
<1>9b. /\ DOMAIN records = 1 .. n /\ DOMAIN longer = 1 .. n + 1
       /\ \A i \in 1 .. n : longer[i] = records[i]
  BY <1>4
<1>9c. \A i, j \in 1 .. n + 1 : i < j => i \in 1 .. n /\ (j \in 1 .. n \/ j = n + 1)
  BY <1>4
<1> HIDE DEF n
<1>10. \A i \in DOMAIN longer : longer[i].turn \in AllTurns
  BY <1>5, <1>6, <1>8, <1>9, <1>9b
<1>11. \A i, j \in DOMAIN longer : i < j => Before(longer[i].turn, longer[j].turn)
  <2> SUFFICES ASSUME NEW i \in DOMAIN longer, NEW j \in DOMAIN longer, i < j
               PROVE  Before(longer[i].turn, longer[j].turn)
    OBVIOUS
  <2>1. i \in 1 .. n /\ (j \in 1 .. n \/ j = n + 1)
    BY <1>9b, <1>9c
  <2>2. CASE j \in 1 .. n
    BY <1>5, <1>9b, <2>1, <2>2
  <2>3. CASE j = n + 1
    <3>1. Before(records[i].turn, cur)
      BY <1>5, <1>9b, <2>1
    <3>2. QED
      BY <1>8, <1>9b, <2>1, <2>3, <3>1
  <2>4. QED
    BY <2>1, <2>2, <2>3
<1>12. ASSUME NEW u \in AllTurns
       PROVE  Before(u, cur) \/ u = cur <=> \E i \in DOMAIN longer : longer[i].turn = u
  <2>1. CASE Before(u, cur)
    <3>1. PICK i \in DOMAIN records : records[i].turn = u
      BY <1>5, <2>1
    <3>2. i \in DOMAIN longer /\ longer[i].turn = u
      BY <1>9a, <1>9b, <3>1
    <3>3. QED
      BY <2>1, <3>2
  <2>2. CASE u = cur
    <3>1. n + 1 \in DOMAIN longer /\ longer[n + 1].turn = u
      BY <1>8, <1>9a, <1>9b, <2>2
    <3>2. QED
      BY <2>2, <3>1
  <2>3. ASSUME NEW i \in DOMAIN longer, longer[i].turn = u
        PROVE  Before(u, cur) \/ u = cur
    <3>1. CASE i \in 1 .. n
      BY <1>5, <1>9b, <2>3, <3>1
    <3>2. CASE i = n + 1
      BY <1>8, <2>3, <3>2
    <3>3. QED
      BY <1>9, <1>9b, <3>1, <3>2
  <2>4. QED
    BY <2>1, <2>2, <2>3
<1>13. at' = "run" => \A u \in AllTurns : Before(u, <<spec', mode', trial'>>)
                                           <=> \E i \in DOMAIN longer : longer[i].turn = u
  BY <1>7, <1>12
<1>14. at' # "run" => \A u \in AllTurns : \E i \in DOMAIN longer : longer[i].turn = u
  BY <1>7, <1>12
<1>15. QED
  BY <1>3, <1>6, <1>10, <1>11, <1>13, <1>14 DEF TurnsDone

\* Any step of the program.
LEMMA TurnsStep ==
  ASSUME Types, Types', TurnsDone, [Next]_vars
  PROVE  TurnsDone'
<1>1. CASE ReadLine
  BY <1>1 DEF ReadLine, Types, PlaceTypes, TurnsDone
<1>2. CASE EndOfFile
  <2>1. /\ at = "load" /\ at' = IF specs' = << >> THEN "error" ELSE "run"
        /\ UNCHANGED <<caller, loopVars, records, disk, sessions, index>>
    BY <1>2 DEF EndOfFile
  <2>2. records = << >> /\ spec = 1 /\ mode = 1 /\ trial = 1
    BY <2>1 DEF Types, PlaceTypes
  <2>3. DOMAIN << >> = {}
    OBVIOUS
  <2>4. DOMAIN records' = {}
    BY <2>1, <2>2, <2>3
  <2>5. \A u \in AllTurns' : ~Before(u, <<1, 1, 1>>)
    BY FirstTurnThen
  <2>6. spec' = 1 /\ mode' = 1 /\ trial' = 1 /\ at' \in {"run", "error"}
    BY <2>1, <2>2 DEF loopVars
  <2>7. QED
    BY <2>4, <2>5, <2>6 DEF TurnsDone
<1>3. CASE Trial
  BY <1>3, TrialDone
<1>4. CASE WriteIndexCsv
  <2>1. /\ at = "index" /\ UNCHANGED <<caller, loadVars, loopVars, records>> /\ at' # "run"
    BY <1>4 DEF WriteIndexCsv
  <2>2. AllTurns' = AllTurns
    BY <2>1 DEF AllTurns, loadVars
  <2>3. QED
    BY <2>1, <2>2 DEF TurnsDone
<1>5. CASE Session
  BY <1>5 DEF Session, Types, PlaceTypes, TurnsDone
<1>6. CASE UNCHANGED vars
  <2>1. UNCHANGED <<caller, spec, mode, trial, records, at>> /\ AllTurns' = AllTurns
    BY <1>6 DEF AllTurns, vars, loadVars, loopVars
  <2>2. QED
    BY <2>1 DEF TurnsDone
<1>7. QED
  BY <1>1, <1>2, <1>3, <1>4, <1>5, <1>6 DEF Next

\* The records keep up with the loops.
LEMMA TurnsInvariant == Spec => []TurnsDone
<1>1. Init => TurnsDone
  <2> SUFFICES ASSUME Init
               PROVE  TurnsDone
    OBVIOUS
  <2>1. /\ records = << >> /\ at \in {"load", "run", "sessions"}
        /\ spec = 1 /\ mode = 1 /\ trial = 1 /\ Types
    BY InitTyped DEF Init
  <2>2. DOMAIN << >> = {}
    OBVIOUS
  <2>3. DOMAIN records = {}
    BY <2>1, <2>2
  <2>4. \A u \in AllTurns : ~Before(u, <<1, 1, 1>>)
    BY <2>1, FirstTurn
  <2>5. QED
    BY <2>1, <2>3, <2>4 DEF TurnsDone
<1>2. /\ TurnsDone /\ (Types /\ SessionsGo) /\ (Types /\ SessionsGo)' /\ [Next]_vars
      => TurnsDone'
  BY TurnsStep
<1>3. QED
  BY <1>1, <1>2, ExperimentInvariant, PTL DEF Spec

\* Once a batch is over, every trial has its record, in order, whatever failed.
THEOREM BatchRunsAll == Spec => []BatchIsComplete
<1>1. Types /\ TurnsDone => BatchIsComplete
  <2> SUFFICES ASSUME Types, TurnsDone,
                      caller # "--repeat-session", at \in {"index", "ok", "abort"}
               PROVE  /\ {records[i].turn : i \in DOMAIN records} = AllTurns
                      /\ \A i \in 1 .. Len(records) - 1 :
                           Before(records[i].turn, records[i + 1].turn)
    BY SMTT(30) DEF BatchIsComplete, AllTurns
  <2>1. /\ \A i \in DOMAIN records : records[i].turn \in AllTurns
        /\ \A i, j \in DOMAIN records : i < j => Before(records[i].turn, records[j].turn)
        /\ \A u \in AllTurns : \E i \in DOMAIN records : records[i].turn = u
    BY DEF TurnsDone
  <2>2. DOMAIN records = 1 .. Len(records) /\ Len(records) \in Nat
    BY LenProperties DEF Types, PlaceTypes
  <2>3. \A i \in 1 .. Len(records) - 1 :
          i \in DOMAIN records /\ i + 1 \in DOMAIN records /\ i < i + 1
    BY <2>2
  <2>4. {records[i].turn : i \in DOMAIN records} = AllTurns
    BY <2>1
  <2>5. QED
    BY <2>1, <2>3, <2>4
<1>2. QED
  BY <1>1, ExperimentInvariant, TurnsInvariant, PTL

-----------------------------------------------------------------------------
(* The directories of a batch. *)

DirOf(u) == TrialDir(specs[u[1]], specs[u[1]].modes[u[2]], u[3])

\* A record names the directory of its turn; there is its run, if it succeeded
\* and the experiments are told apart.
PointsTo ==
  caller # "--repeat-session" =>
    /\ \A i \in DOMAIN records : records[i].output_dir = DirOf(records[i].turn)
    /\ Distinct =>
         \A i \in DOMAIN records :
           records[i].success => /\ records[i].output_dir \in DOMAIN disk
                                 /\ disk[records[i].output_dir] = i

\* Different turns write to different directories.
LEMMA DirsDiffer ==
  ASSUME Types, Distinct, NEW u \in AllTurns, NEW v \in AllTurns, DirOf(u) = DirOf(v)
  PROVE  u = v
<1>1. PICK s \in DOMAIN specs : \E m \in DOMAIN specs[s].modes :
             \E t \in 1 .. specs[s].repeat : u = <<s, m, t>>
  BY TurnIn
<1>2. PICK m \in DOMAIN specs[s].modes, t \in 1 .. specs[s].repeat : u = <<s, m, t>>
  BY <1>1
<1>3. PICK s2 \in DOMAIN specs : \E m2 \in DOMAIN specs[s2].modes :
             \E t2 \in 1 .. specs[s2].repeat : v = <<s2, m2, t2>>
  BY TurnIn
<1>4. PICK m2 \in DOMAIN specs[s2].modes, t2 \in 1 .. specs[s2].repeat : v = <<s2, m2, t2>>
  BY <1>3
<1>5. /\ DirOf(u) = <<specs[s].out, NameOf(specs[s]), specs[s].modes[m], t>>
      /\ DirOf(v) = <<specs[s2].out, NameOf(specs[s2]), specs[s2].modes[m2], t2>>
  <2>1. u[1] = s /\ u[2] = m /\ u[3] = t /\ v[1] = s2 /\ v[2] = m2 /\ v[3] = t2
    BY <1>2, <1>4
  <2>2. QED
    BY <2>1 DEF DirOf, TrialDir
<1>6. /\ specs[s].out = specs[s2].out /\ NameOf(specs[s]) = NameOf(specs[s2])
      /\ specs[s].modes[m] = specs[s2].modes[m2] /\ t = t2
  <2>1. PICK o, n, k : o = specs[s].out /\ n = NameOf(specs[s]) /\ k = specs[s].modes[m]
    OBVIOUS
  <2>2. PICK o2, n2, k2 :
          o2 = specs[s2].out /\ n2 = NameOf(specs[s2]) /\ k2 = specs[s2].modes[m2]
    OBVIOUS
  <2>3. <<o, n, k, t>> = <<o2, n2, k2, t2>>
    BY <1>5, <2>1, <2>2
  <2>4. o = o2 /\ n = n2 /\ k = k2 /\ t = t2
    BY <2>3
  <2>5. QED
    BY <2>1, <2>2, <2>4
<1>7. s = s2
  BY <1>1, <1>3, <1>6 DEF Distinct
<1>8. m = m2
  BY <1>2, <1>4, <1>6, <1>7 DEF Distinct, IsInjective
<1>9. QED
  BY <1>2, <1>4, <1>6, <1>7, <1>8

\* A turn does not come before itself.
LEMMA NotItself ==
  ASSUME Types, NEW u \in AllTurns
  PROVE  ~Before(u, u)
<1>1. PICK s \in DOMAIN specs : \E m \in DOMAIN specs[s].modes :
             \E t \in 1 .. specs[s].repeat : u = <<s, m, t>>
  BY TurnIn
<1>2. PICK m \in DOMAIN specs[s].modes, t \in 1 .. specs[s].repeat : u = <<s, m, t>>
  BY <1>1
<1>3. s \in Nat \ {0} /\ m \in Nat \ {0} /\ t \in Nat \ {0}
  BY ListLengths DEF Types
<1>4. ~(s < s) /\ ~(m < m) /\ ~(t < t)
  BY <1>3
<1>5. u[1] = s /\ u[2] = m /\ u[3] = t
  BY <1>2
<1>6. QED
  BY <1>4, <1>5 DEF Before

\* A trial writes where no trial before it wrote.
LEMMA PointsTrial ==
  ASSUME Types, TurnsDone, PointsTo, Trial
  PROVE  PointsTo'
<1>a. at = "run" /\ caller # "--repeat-session" /\ specs' = specs /\ caller' = caller
      /\ records \in Seq(Records) /\ DiskTypes
  BY DEF Trial, loadVars, Types, PlaceTypes
<1> DEFINE cur == <<spec, mode, trial>>
           n == Len(records)
<1>1. PICK r : TrialRecord(r)
  BY TrialRecords
<1>2. /\ r \in Records /\ r.turn = cur /\ records' = Append(records, r)
      /\ r.output_dir = DirOf(cur)
      /\ Written(r.output_dir, n + 1, r.success)
  <2>1. cur[1] = spec /\ cur[2] = mode /\ cur[3] = trial
    OBVIOUS
  <2>2. QED
    BY <1>1, <2>1 DEF TrialRecord, DirOf
<1>3. PICK longer : longer = records' /\ longer = Append(records, r)
  <2>1. \E longer : longer = Append(records, r)
    OBVIOUS
  <2>2. QED
    BY <1>2, <2>1
<1>4. /\ n \in Nat /\ DOMAIN records = 1 .. n /\ DOMAIN longer = 1 .. n + 1
      /\ \A i \in 1 .. n : longer[i] = records[i]
      /\ longer[n + 1] = r
  BY <1>a, <1>2, <1>3, RecordAdded
<1>5. /\ \A d \in DOMAIN disk : d \in DOMAIN disk' /\ (d # r.output_dir => disk'[d] = disk[d])
      /\ (r.success => r.output_dir \in DOMAIN disk' /\ disk'[r.output_dir] = n + 1)
  BY <1>a, <1>2, DiskTyped
<1>6. \A i \in DOMAIN longer : i \in 1 .. n \/ i = n + 1
  BY <1>4
<1>7. cur \in AllTurns /\ ~Before(cur, cur)
  BY <1>a, TurnAtHand, NotItself
<1>8. ASSUME NEW i \in 1 .. n
      PROVE  /\ records[i].turn \in AllTurns /\ records[i].turn # cur
             /\ records[i].output_dir = DirOf(records[i].turn)
  <2>1. records[i].turn \in AllTurns /\ Before(records[i].turn, cur)
    BY <1>a, <1>4 DEF TurnsDone
  <2>2. QED
    BY <1>a, <1>4, <1>7, <2>1 DEF PointsTo
<1> HIDE DEF cur, n
<1>9. Distinct' = Distinct
  BY <1>a DEF Distinct
<1>10. \A i \in DOMAIN longer : longer[i].output_dir = DirOf(longer[i].turn)
  BY <1>2, <1>4, <1>6, <1>8
<1>11. ASSUME Distinct, NEW i \in DOMAIN longer, longer[i].success
       PROVE  longer[i].output_dir \in DOMAIN disk' /\ disk'[longer[i].output_dir] = i
  <2>1. CASE i = n + 1
    BY <1>4, <1>5, <1>11, <2>1
  <2>2. CASE i \in 1 .. n
    <3>1. records[i].output_dir \in DOMAIN disk /\ disk[records[i].output_dir] = i
      BY <1>a, <1>4, <1>11, <2>2 DEF PointsTo
    <3>2. records[i].output_dir # r.output_dir
      BY <1>2, <1>7, <1>8, <1>11, <2>2, DirsDiffer
    <3>3. QED
      BY <1>4, <1>5, <2>2, <3>1, <3>2
  <2>3. QED
    BY <1>6, <2>1, <2>2
<1>12. \A u : DirOf(u)' = DirOf(u)
  BY <1>a DEF DirOf
<1>13. QED
  BY <1>3, <1>9, <1>10, <1>11, <1>12 DEF PointsTo, DirOf

\* The directory a record of a successful run names holds that run, if the
\* experiments are told apart.
THEOREM RecordsPointTo == Spec => []RecordPointsToItsRun
<1>1. Init => PointsTo
  <2> SUFFICES ASSUME Init
               PROVE  PointsTo
    OBVIOUS
  <2>1. DOMAIN << >> = {}
    OBVIOUS
  <2>2. DOMAIN records = {}
    BY <2>1 DEF Init
  <2>3. QED
    BY <2>2 DEF PointsTo
<1>2. PointsTo /\ TurnsDone /\ Types /\ [Next]_vars => PointsTo'
  <2> SUFFICES ASSUME PointsTo, TurnsDone, Types, [Next]_vars
               PROVE  PointsTo'
    OBVIOUS
  <2>1. CASE ReadLine \/ EndOfFile
    <3>1. records = << >> /\ records' = records
      BY <2>1 DEF ReadLine, EndOfFile, Types, PlaceTypes
    <3>2. DOMAIN << >> = {}
      OBVIOUS
    <3>3. DOMAIN records' = {}
      BY <3>1, <3>2
    <3>4. QED
      BY <3>3 DEF PointsTo
  <2>2. CASE Trial
    BY <2>2, PointsTrial
  <2>3. CASE WriteIndexCsv \/ UNCHANGED vars
    <3>1. UNCHANGED <<caller, specs, records, disk>>
      BY <2>3 DEF WriteIndexCsv, vars, loadVars
    <3>2. Distinct' = Distinct
      BY <3>1 DEF Distinct
    <3>3. QED
      BY <3>1, <3>2 DEF PointsTo, DirOf
  <2>4. CASE Session
    BY <2>4 DEF Session, Types, PlaceTypes, PointsTo
  <2>5. QED
    BY <2>1, <2>2, <2>3, <2>4 DEF Next
<1>3. PointsTo => RecordPointsToItsRun
  BY DEF PointsTo, RecordPointsToItsRun
<1>4. QED
  BY <1>1, <1>2, <1>3, ExperimentInvariant, TurnsInvariant, PTL DEF Spec

-----------------------------------------------------------------------------
(* The experiments read and the lines they were read from. *)

Keys == {"out", "mode", "modes", "repeat"}

AllComments(lines) == \A i \in DOMAIN lines : lines[i].key = "comment"

\* One line more was read.
Longer(lines, line, longer) ==
  /\ Len(lines) \in Nat /\ Len(longer) = Len(lines) + 1
  /\ DOMAIN lines = 1 .. Len(lines) /\ DOMAIN longer = 1 .. Len(lines) + 1
  /\ \A i \in 1 .. Len(lines) : longer[i] = lines[i]
  /\ longer[Len(lines) + 1] = line

\* The experiments with a place in the file up to b.
UpTo(lines, b) == {c \in Begins(lines) : c <= b}

Rank(lines, b) == Cardinality(UpTo(lines, b))

\* Reading a line makes the file one line longer.
LEMMA LineRead ==
  ASSUME NEW lines \in Seq(Line), NEW line \in Line
  PROVE  /\ Longer(lines, line, Append(lines, line))
         /\ Append(lines, line) \in Seq(Line)
<1>1. /\ Append(lines, line) \in Seq(Line)
      /\ Len(Append(lines, line)) = Len(lines) + 1
      /\ \A i \in 1 .. Len(lines) : Append(lines, line)[i] = lines[i]
      /\ Append(lines, line)[Len(lines) + 1] = line
  BY AppendProperties
<1>2. /\ Len(lines) \in Nat /\ DOMAIN lines = 1 .. Len(lines)
      /\ DOMAIN Append(lines, line) = 1 .. Len(lines) + 1
  BY <1>1, LenProperties
<1>3. QED
  BY <1>1, <1>2 DEF Longer

\* A nonempty set of numbers that are not above a bound has a greatest one.
LEMMA GreatestExists ==
  ASSUME NEW n \in Nat, NEW S \in SUBSET (1 .. n), S # {}
  PROVE  \E i \in S : \A j \in S : j <= i
<1> DEFINE T == {n - x : x \in S}
<1>1. T \subseteq Nat /\ T # {}
  <2>1. \A x \in S : n - x \in Nat
    OBVIOUS
  <2>2. QED
    BY <2>1
<1> HIDE DEF T
<1>2. \E t \in T : \A u \in T : ~(<<u, t>> \in OpToRel(<, Nat))
  BY <1>1, WFMin, NatLessThanWellFounded
<1>3. PICK t \in T : \A u \in T : ~(<<u, t>> \in OpToRel(<, Nat))
  BY <1>2
<1>4. \A u \in T : ~(u < t)
  BY <1>1, <1>3 DEF OpToRel
<1>5. PICK i \in S : t = n - i
  BY <1>3 DEF T
<1>6. ASSUME NEW j \in S
      PROVE  j <= i
  <2>1. ~(n - j < n - i)
    BY <1>4, <1>5 DEF T
  <2>2. QED
    BY <2>1
<1>7. QED
  BY <1>6

\* The sections of a file one line longer.
LEMMA BeginsOfLonger ==
  ASSUME NEW lines, NEW line, NEW longer, Longer(lines, line, longer)
  PROVE  /\ \A i \in 1 .. Len(lines) : i \in Begins(longer) <=> i \in Begins(lines)
         /\ Len(lines) + 1 \in Begins(longer)
              <=> (line.key = "section" \/ (line.key # "comment" /\ AllComments(lines)))
         /\ Begins(lines) \subseteq 1 .. Len(lines)
         /\ Begins(longer) \subseteq 1 .. Len(lines) + 1
<1>1. Len(lines) \in Nat
  BY DEF Longer
<1>2. ASSUME NEW i \in 1 .. Len(lines)
      PROVE  i \in Begins(longer) <=> i \in Begins(lines)
  <2>1. i \in DOMAIN lines /\ i \in DOMAIN longer /\ longer[i] = lines[i]
    BY <1>1 DEF Longer
  <2>2. \A j \in 1 .. i - 1 : longer[j] = lines[j]
    <3>1. \A j \in 1 .. i - 1 : j \in 1 .. Len(lines)
      BY <1>1
    <3>2. QED
      BY <3>1 DEF Longer
  <2>3. QED
    BY <2>1, <2>2 DEF Begins
<1>3. Len(lines) + 1 \in Begins(longer)
        <=> (line.key = "section" \/ (line.key # "comment" /\ AllComments(lines)))
  <2>1. Len(lines) + 1 \in DOMAIN longer /\ longer[Len(lines) + 1] = line
    BY <1>1 DEF Longer
  <2>2. 1 .. (Len(lines) + 1) - 1 = DOMAIN lines
    BY <1>1 DEF Longer
  <2>3. \A j \in DOMAIN lines : longer[j] = lines[j]
    BY DEF Longer
  <2>4. QED
    BY <2>1, <2>2, <2>3 DEF Begins, AllComments
<1>4. QED
  BY <1>2, <1>3 DEF Begins, Longer

\* What a section says of a key is not changed by a line of another section,
\* nor by a line with another key.
LEMMA SettingKept ==
  ASSUME NEW lines, NEW line, NEW longer, Longer(lines, line, longer),
         NEW b \in 1 .. Len(lines), NEW key,
         \/ line.key # key
         \/ Len(lines) + 1 \in Begins(longer)
         \/ \E c \in Begins(lines) : c > b
  PROVE  Setting(longer, b, key) = Setting(lines, b, key)
<1>1. Len(lines) \in Nat /\ Len(longer) = Len(lines) + 1
  BY DEF Longer
<1>2. ASSUME NEW i \in b .. Len(lines)
      PROVE  (\A c \in Begins(longer) : c > b => i < c)
               <=> (\A c \in Begins(lines) : c > b => i < c)
  <2>1. \A c \in Begins(longer) : c \in Begins(lines) \/ c = Len(lines) + 1
    <3>1. ASSUME NEW c \in Begins(longer)
          PROVE  c \in Begins(lines) \/ c = Len(lines) + 1
      <4>1. c \in 1 .. Len(lines) \/ c = Len(lines) + 1
        BY <1>1, BeginsOfLonger
      <4>2. QED
        BY <4>1, BeginsOfLonger
    <3>2. QED
      BY <3>1
  <2>2. Begins(lines) \subseteq Begins(longer)
    BY BeginsOfLonger
  <2>3. i < Len(lines) + 1
    BY <1>1
  <2>4. QED
    BY <2>1, <2>2, <2>3
<1>3. ASSUME NEW i \in b .. Len(lines)
      PROVE  i \in 1 .. Len(lines) /\ longer[i] = lines[i]
  <2>1. i \in 1 .. Len(lines)
    BY <1>1
  <2>2. QED
    BY <2>1 DEF Longer
<1>4. ASSUME longer[Len(lines) + 1].key = key,
             \A c \in Begins(longer) : c > b => Len(lines) + 1 < c
      PROVE  FALSE
  <2>1. line.key = key
    BY <1>4 DEF Longer
  <2>2. CASE Len(lines) + 1 \in Begins(longer)
    <3>1. Len(lines) + 1 > b /\ ~(Len(lines) + 1 < Len(lines) + 1)
      BY <1>1
    <3>2. QED
      BY <1>4, <2>2, <3>1
  <2>3. CASE \E c \in Begins(lines) : c > b
    <3>1. PICK c \in Begins(lines) : c > b
      BY <2>3
    <3>2. c \in Begins(longer) /\ c \in 1 .. Len(lines)
      BY BeginsOfLonger
    <3>3. ~(Len(lines) + 1 < c)
      BY <1>1, <3>2
    <3>4. QED
      BY <1>4, <3>1, <3>2, <3>3
  <2>4. QED
    BY <2>1, <2>2, <2>3
<1>5. \A i : i \in b .. Len(longer) <=> i \in b .. Len(lines) \/ i = Len(lines) + 1
  BY <1>1
<1>6. \A i : i \in Setting(longer, b, key) <=> i \in Setting(lines, b, key)
  BY <1>2, <1>3, <1>4, <1>5 DEF Setting
<1>7. QED
  BY <1>6 DEF Setting

\* A line with a key of the last section is the last of those that give it.
LEMMA SettingAdded ==
  ASSUME NEW lines, NEW line, NEW longer, Longer(lines, line, longer),
         NEW b \in 1 .. Len(lines) + 1,
         Begins(longer) \subseteq 1 .. b
  PROVE  /\ Len(lines) + 1 \in Setting(longer, b, line.key)
         /\ \A j \in Setting(longer, b, line.key) : j <= Len(lines) + 1
<1>1. Len(lines) \in Nat /\ Len(longer) = Len(lines) + 1 /\ longer[Len(lines) + 1] = line
  BY DEF Longer
<1>2. Len(lines) + 1 \in b .. Len(longer)
  BY <1>1
<1>3. \A c \in Begins(longer) : ~(c > b)
  BY <1>1
<1>4. \A j \in b .. Len(longer) : j <= Len(lines) + 1
  BY <1>1
<1>5. QED
  BY <1>1, <1>2, <1>3, <1>4 DEF Setting

\* A key that no more lines give has the value it had.
LEMMA ValueKept ==
  ASSUME NEW lines, NEW line, NEW longer, Longer(lines, line, longer),
         NEW b \in 1 .. Len(lines), NEW key, NEW default,
         Setting(longer, b, key) = Setting(lines, b, key)
  PROVE  ValueIn(longer, b, key, default) = ValueIn(lines, b, key, default)
<1> DEFINE S == Setting(lines, b, key)
           g == CHOOSE i \in S : \A j \in S : j <= i
<1>1. Len(lines) \in Nat
  BY DEF Longer
<1>2. S \in SUBSET (1 .. Len(lines))
  BY <1>1 DEF Setting
<1>3. CASE S = {}
  BY <1>3 DEF ValueIn
<1>4. CASE S # {}
  <2>1. \E i \in S : \A j \in S : j <= i
    <3> HIDE DEF S
    <3>1. QED
      BY <1>1, <1>2, <1>4, GreatestExists
  <2>2. g \in S
    BY <2>1
  <2>3. longer[g] = lines[g]
    BY <1>2, <2>2 DEF Longer
  <2>4. QED
    BY <1>4, <2>3 DEF ValueIn
<1>5. QED
  BY <1>3, <1>4

\* A key that the last line gives has the value of that line.
LEMMA ValueAdded ==
  ASSUME NEW lines, NEW line, NEW longer, Longer(lines, line, longer),
         NEW b \in 1 .. Len(lines) + 1, NEW default,
         Begins(longer) \subseteq 1 .. b
  PROVE  ValueIn(longer, b, line.key, default) = line
<1> DEFINE S == Setting(longer, b, line.key)
           g == CHOOSE i \in S : \A j \in S : j <= i
<1>1. Len(lines) + 1 \in S /\ \A j \in S : j <= Len(lines) + 1
  BY SettingAdded
<1>2. Len(lines) \in Nat /\ longer[Len(lines) + 1] = line /\ Len(longer) = Len(lines) + 1
  BY DEF Longer
<1>3. g \in S /\ \A j \in S : j <= g
  BY <1>1
<1>4. g \in Nat
  <2>1. S \subseteq b .. Len(longer)
    BY DEF Setting
  <2>2. g \in b .. Len(longer)
    BY <1>3, <2>1
  <2>3. QED
    BY <1>2, <2>2
<1>5. g <= Len(lines) + 1 /\ Len(lines) + 1 <= g
  BY <1>1, <1>3
<1>6. g = Len(lines) + 1
  <2> HIDE DEF g
  <2>1. QED
    BY <1>2, <1>4, <1>5
<1>7. S # {}
  BY <1>1
<1>8. QED
  BY <1>2, <1>6, <1>7 DEF ValueIn

\* A section that has just begun, at its header, gives no key a value.
LEMMA ValueAtHeader ==
  ASSUME NEW lines, NEW line, NEW longer, Longer(lines, line, longer),
         NEW key, NEW default, line.key # key
  PROVE  ValueIn(longer, Len(lines) + 1, key, default) = default
<1>1. Len(lines) \in Nat /\ longer[Len(lines) + 1] = line /\ Len(longer) = Len(lines) + 1
  BY DEF Longer
<1>2. \A i \in Len(lines) + 1 .. Len(longer) : i = Len(lines) + 1
  BY <1>1
<1>3. Setting(longer, Len(lines) + 1, key) = {}
  BY <1>1, <1>2 DEF Setting
<1>4. QED
  BY <1>3 DEF ValueIn

-----------------------------------------------------------------------------
(* A section and the specification made from it. *)

Title(lines, b) == IF lines[b].key = "section" THEN lines[b].words[1] ELSE "default"

\* The values a specification has from the lines o, m, l and r.
ReadsAs(s, o, m, l, r) ==
  /\ s.out = o.words[1] /\ s.mode = m.words[1] /\ s.modes = l.words
  /\ s.repeat = IF r.number > 0 THEN r.number ELSE 1

\* The specification has what the section says, but is not completed.
Raw(lines, b, s) ==
  /\ s.name = Title(lines, b)
  /\ ReadsAs(s, ValueIn(lines, b, "out", Unset(<<"">>)), ValueIn(lines, b, "mode", Unset(<<"full">>)),
             ValueIn(lines, b, "modes", Unset(<< >>)), ValueIn(lines, b, "repeat", Unset(<< >>)))

\* A new specification has the defaults.
LEMMA NewReads ==
  ASSUME NEW name
  PROVE  /\ ReadsAs(NewSpec(name), Unset(<<"">>), Unset(<<"full">>), Unset(<< >>), Unset(<< >>))
         /\ NewSpec(name).name = name
<1>1. <<"">>[1] = "" /\ <<"full">>[1] = "full"
  OBVIOUS
<1>2. ~(0 > 0)
  OBVIOUS
<1>3. QED
  BY <1>1, <1>2 DEF ReadsAs, NewSpec, Unset

\* A key and its value replace what there was.
LEMMA ApplyReads ==
  ASSUME NEW line \in Line, line.key \in Keys, NEW s \in Specs,
         NEW o, NEW m, NEW l, NEW r, ReadsAs(s, o, m, l, r)
  PROVE  /\ ReadsAs(ApplyKeyValue(line, s),
                    IF line.key = "out" THEN line ELSE o, IF line.key = "mode" THEN line ELSE m,
                    IF line.key = "modes" THEN line ELSE l, IF line.key = "repeat" THEN line ELSE r)
         /\ ApplyKeyValue(line, s).name = s.name
<1>1. CASE line.key = "out"
  BY <1>1 DEF ApplyKeyValue, ReadsAs, Specs
<1>2. CASE line.key = "mode"
  BY <1>2 DEF ApplyKeyValue, ReadsAs, Specs
<1>3. CASE line.key = "modes"
  BY <1>3 DEF ApplyKeyValue, ReadsAs, Specs
<1>4. CASE line.key = "repeat"
  <2>1. line.number \in Nat
    BY <1>4, ExperimentAssumption DEF Line
  <2>2. AtLeastOne(line.number) = IF line.number > 0 THEN line.number ELSE 1
    BY <2>1 DEF AtLeastOne
  <2>3. ApplyKeyValue(line, s) = [s EXCEPT !.repeat = AtLeastOne(line.number)]
    BY <1>4 DEF ApplyKeyValue
  <2>4. QED
    BY <1>4, <2>2, <2>3 DEF ReadsAs, Specs
<1>5. QED
  BY <1>1, <1>2, <1>3, <1>4 DEF Keys

\* A key of the section at hand.
LEMMA KeyRead ==
  ASSUME NEW lines, NEW line \in Line, NEW longer, Longer(lines, line, longer),
         line.key \in Keys, NEW b \in 1 .. Len(lines), Begins(longer) \subseteq 1 .. b,
         NEW s \in Specs, Raw(lines, b, s)
  PROVE  Raw(longer, b, ApplyKeyValue(line, s))
<1> DEFINE Now(key, default) == ValueIn(longer, b, key, default)
           Was(key, default) == ValueIn(lines, b, key, default)
<1>1. Len(lines) \in Nat /\ longer[b] = lines[b] /\ b \in 1 .. Len(lines) + 1
  BY DEF Longer
<1>2. \A key, default : Now(key, default) = IF line.key = key THEN line ELSE Was(key, default)
  <2> SUFFICES ASSUME NEW key, NEW default
               PROVE  Now(key, default) = IF line.key = key THEN line ELSE Was(key, default)
    OBVIOUS
  <2>1. CASE line.key = key
    BY <1>1, <2>1, ValueAdded
  <2>2. CASE line.key # key
    <3>1. Setting(longer, b, key) = Setting(lines, b, key)
      BY <2>2, SettingKept
    <3>2. QED
      BY <2>2, <3>1, ValueKept
  <2>3. QED
    BY <2>1, <2>2
<1>3. /\ s.name = Title(lines, b)
      /\ ReadsAs(s, Was("out", Unset(<<"">>)), Was("mode", Unset(<<"full">>)),
                 Was("modes", Unset(<< >>)), Was("repeat", Unset(<< >>)))
  BY DEF Raw
<1>4. Title(longer, b) = Title(lines, b)
  BY <1>1 DEF Title
<1>5. /\ s.name = ApplyKeyValue(line, s).name
      /\ ReadsAs(ApplyKeyValue(line, s),
                 IF line.key = "out" THEN line ELSE Was("out", Unset(<<"">>)),
                 IF line.key = "mode" THEN line ELSE Was("mode", Unset(<<"full">>)),
                 IF line.key = "modes" THEN line ELSE Was("modes", Unset(<< >>)),
                 IF line.key = "repeat" THEN line ELSE Was("repeat", Unset(<< >>)))
  <2> HIDE DEF Was
  <2>1. QED
    BY <1>3, ApplyReads
<1>6. ReadsAs(ApplyKeyValue(line, s), Now("out", Unset(<<"">>)), Now("mode", Unset(<<"full">>)),
              Now("modes", Unset(<< >>)), Now("repeat", Unset(<< >>)))
  <2> HIDE DEF Was, Now
  <2>1. QED
    BY <1>2, <1>5
<1>7. QED
  BY <1>3, <1>4, <1>5, <1>6 DEF Raw

\* A key before all sections begins one named "default".
LEMMA FirstKeyRead ==
  ASSUME NEW lines, NEW line \in Line, NEW longer, Longer(lines, line, longer),
         line.key \in Keys, Begins(longer) \subseteq 1 .. Len(lines) + 1,
         NewSpec("default") \in Specs
  PROVE  Raw(longer, Len(lines) + 1, ApplyKeyValue(line, NewSpec("default")))
<1> DEFINE b == Len(lines) + 1
           s == NewSpec("default")
           Now(key, default) == ValueIn(longer, b, key, default)
<1>1. Len(lines) \in Nat /\ longer[b] = line
  BY DEF Longer
<1>2. \A key, default : Now(key, default) = IF line.key = key THEN line ELSE default
  <2> SUFFICES ASSUME NEW key, NEW default
               PROVE  Now(key, default) = IF line.key = key THEN line ELSE default
    OBVIOUS
  <2>1. CASE line.key = key
    <3>1. b \in 1 .. Len(lines) + 1
      BY <1>1
    <3>2. QED
      BY <2>1, <3>1, ValueAdded
  <2>2. CASE line.key # key
    BY <2>2, ValueAtHeader
  <2>3. QED
    BY <2>1, <2>2
<1>3. Title(longer, b) = "default"
  BY <1>1 DEF Title, Keys
<1>4. /\ s.name = "default"
      /\ ReadsAs(s, Unset(<<"">>), Unset(<<"full">>), Unset(<< >>), Unset(<< >>))
  BY NewReads
<1>5. /\ s.name = ApplyKeyValue(line, s).name
      /\ ReadsAs(ApplyKeyValue(line, s),
                 IF line.key = "out" THEN line ELSE Unset(<<"">>),
                 IF line.key = "mode" THEN line ELSE Unset(<<"full">>),
                 IF line.key = "modes" THEN line ELSE Unset(<< >>),
                 IF line.key = "repeat" THEN line ELSE Unset(<< >>))
  <2> HIDE DEF s
  <2>1. s \in Specs
    BY DEF s
  <2>2. QED
    BY <1>4, <2>1, ApplyReads
<1>6. ReadsAs(ApplyKeyValue(line, s), Now("out", Unset(<<"">>)), Now("mode", Unset(<<"full">>)),
              Now("modes", Unset(<< >>)), Now("repeat", Unset(<< >>)))
  <2> HIDE DEF Now, s
  <2>1. QED
    BY <1>2, <1>5
<1>7. QED
  BY <1>3, <1>4, <1>5, <1>6 DEF Raw

\* A header begins a section that says nothing yet.
LEMMA HeaderRead ==
  ASSUME NEW lines, NEW line \in Line, NEW longer, Longer(lines, line, longer),
         line.key = "section"
  PROVE  Raw(longer, Len(lines) + 1, NewSpec(line.words[1]))
<1> DEFINE Now(key, default) == ValueIn(longer, Len(lines) + 1, key, default)
<1>1. longer[Len(lines) + 1] = line
  BY DEF Longer
<1>2. \A key \in Keys : \A default : Now(key, default) = default
  <2>1. \A key \in Keys : line.key # key
    BY DEF Keys
  <2>2. QED
    BY <2>1, ValueAtHeader
<1>3. /\ NewSpec(line.words[1]).name = line.words[1]
      /\ ReadsAs(NewSpec(line.words[1]), Unset(<<"">>), Unset(<<"full">>), Unset(<< >>), Unset(<< >>))
  BY NewReads
<1>4. "out" \in Keys /\ "mode" \in Keys /\ "modes" \in Keys /\ "repeat" \in Keys
  BY DEF Keys
<1>5. ReadsAs(NewSpec(line.words[1]), Now("out", Unset(<<"">>)), Now("mode", Unset(<<"full">>)),
              Now("modes", Unset(<< >>)), Now("repeat", Unset(<< >>)))
  <2> HIDE DEF Now
  <2>1. QED
    BY <1>2, <1>3, <1>4
<1>6. QED
  BY <1>1, <1>3, <1>5 DEF Raw, Title

\* A section that ended says what it said.
LEMMA DescribedKept ==
  ASSUME NEW lines, NEW line, NEW longer, Longer(lines, line, longer),
         NEW b \in 1 .. Len(lines), NEW s,
         \/ line.key = "comment"
         \/ Len(lines) + 1 \in Begins(longer)
         \/ \E c \in Begins(lines) : c > b
  PROVE  /\ Described(lines, b, s) => Described(longer, b, s)
         /\ Raw(lines, b, s) => Raw(longer, b, s)
<1>1. \A key \in Keys : \A default : ValueIn(longer, b, key, default) = ValueIn(lines, b, key, default)
  <2> SUFFICES ASSUME NEW key \in Keys, NEW default
               PROVE  ValueIn(longer, b, key, default) = ValueIn(lines, b, key, default)
    OBVIOUS
  <2>1. line.key = "comment" => line.key # key
    BY DEF Keys
  <2>2. Setting(longer, b, key) = Setting(lines, b, key)
    BY <2>1, SettingKept
  <2>3. QED
    BY <2>2, ValueKept
<1>2. "out" \in Keys /\ "mode" \in Keys /\ "modes" \in Keys /\ "repeat" \in Keys
  BY DEF Keys
<1>3. longer[b] = lines[b]
  BY DEF Longer
<1>4. Described(lines, b, s) => Described(longer, b, s)
  BY <1>1, <1>2, <1>3 DEF Described
<1>5. Raw(lines, b, s) => Raw(longer, b, s)
  BY <1>1, <1>2, <1>3 DEF Raw, Title
<1>6. QED
  BY <1>4, <1>5

\* Completed, a specification is the experiment the section describes.
LEMMA CompleteDescribed ==
  ASSUME NEW lines, NEW b, NEW s \in Specs, Raw(lines, b, s)
  PROVE  Described(lines, b, Complete(s))
<1> DEFINE o == ValueIn(lines, b, "out", Unset(<<"">>))
           m == ValueIn(lines, b, "mode", Unset(<<"full">>))
           l == ValueIn(lines, b, "modes", Unset(<< >>))
           r == ValueIn(lines, b, "repeat", Unset(<< >>))
<1>1. /\ s.name = Title(lines, b) /\ s.out = o.words[1] /\ s.mode = m.words[1] /\ s.modes = l.words
      /\ s.repeat = IF r.number > 0 THEN r.number ELSE 1
  BY DEF Raw, ReadsAs
<1>2. /\ Complete(s).name = s.name /\ Complete(s).out = s.out /\ Complete(s).repeat = s.repeat
      /\ Complete(s).modes = IF s.modes # << >> THEN s.modes ELSE <<IF s.mode = "" THEN "full" ELSE s.mode>>
  BY DEF Complete, Specs
<1>3. QED
  BY <1>1, <1>2 DEF Described, Title

-----------------------------------------------------------------------------
(* The list of experiments and the sections. *)

\* The list has one entry for each section but the last, which is being read.
Entries(lines, list, last) ==
  \A b \in Begins(lines) \ {last} :
    Rank(lines, b) \in DOMAIN list /\ Described(lines, b, list[Rank(lines, b)])

Reading(lines, list, s) ==
  \E last \in Begins(lines) :
    /\ \A b \in Begins(lines) : b <= last
    /\ Cardinality(Begins(lines)) = Len(list) + 1
    /\ Entries(lines, list, last)
    /\ Raw(lines, last, s)

Matches(lines, list) ==
  /\ Len(list) = Cardinality(Begins(lines))
  /\ \A b \in Begins(lines) : Described(lines, b, list[Rank(lines, b)])

ConfigRead ==
  /\ config \in Seq(Line)
  /\ at = "load" => IF has_current THEN Reading(config, specs, current)
                    ELSE AllComments(config) /\ specs = << >>
  /\ caller \in {"--config", "library"} /\ at # "load" => Matches(config, specs)

\* There are finitely many sections.
LEMMA BeginsFinite ==
  ASSUME NEW lines \in Seq(Line)
  PROVE  /\ IsFiniteSet(Begins(lines)) /\ Cardinality(Begins(lines)) \in Nat
         /\ \A b : /\ IsFiniteSet(UpTo(lines, b)) /\ Rank(lines, b) \in Nat
                   /\ Rank(lines, b) <= Cardinality(Begins(lines))
<1>1. Len(lines) \in Nat /\ DOMAIN lines = 1 .. Len(lines)
  BY LenProperties
<1>2. IsFiniteSet(1 .. Len(lines))
  BY <1>1, FS_Interval
<1>3. Begins(lines) \subseteq 1 .. Len(lines)
  BY <1>1 DEF Begins
<1>4. IsFiniteSet(Begins(lines))
  BY <1>2, <1>3, FS_Subset
<1>5. \A b : UpTo(lines, b) \subseteq Begins(lines)
  BY DEF UpTo
<1>6. ASSUME NEW b
      PROVE  /\ IsFiniteSet(UpTo(lines, b)) /\ Rank(lines, b) \in Nat
             /\ Rank(lines, b) <= Cardinality(Begins(lines))
  BY <1>4, <1>5, FS_Subset, FS_CardinalityType DEF Rank
<1>7. QED
  BY <1>4, <1>6, FS_CardinalityType

\* Sections that were there keep their place in the list.
LEMMA RankKept ==
  ASSUME NEW lines, NEW line, NEW longer, Longer(lines, line, longer),
         NEW b \in 1 .. Len(lines)
  PROVE  Rank(longer, b) = Rank(lines, b)
<1>1. Len(lines) \in Nat
  BY DEF Longer
<1>2. UpTo(longer, b) = UpTo(lines, b)
  <2>1. \A c : c \in UpTo(longer, b) => c \in UpTo(lines, b)
    <3>1. ASSUME NEW c \in UpTo(longer, b)
          PROVE  c \in UpTo(lines, b)
      <4>1. c \in Begins(longer) /\ c <= b /\ c \in 1 .. Len(lines) + 1
        BY BeginsOfLonger DEF UpTo
      <4>2. c \in 1 .. Len(lines)
        BY <1>1, <4>1
      <4>3. QED
        BY <4>1, <4>2, BeginsOfLonger DEF UpTo
    <3>2. QED
      BY <3>1
  <2>2. \A c : c \in UpTo(lines, b) => c \in UpTo(longer, b)
    BY BeginsOfLonger DEF UpTo
  <2>3. QED
    BY <2>1, <2>2
<1>3. QED
  BY <1>2 DEF Rank

\* The section at hand comes last.
LEMMA LastRank ==
  ASSUME NEW lines, NEW last, \A b \in Begins(lines) : b <= last
  PROVE  Rank(lines, last) = Cardinality(Begins(lines))
<1>1. UpTo(lines, last) = Begins(lines)
  BY DEF UpTo
<1>2. QED
  BY <1>1 DEF Rank

\* When the section at hand ends, its experiment joins the list, which then
\* has one for each section.
LEMMA SectionClosed ==
  ASSUME NEW lines \in Seq(Line), NEW list \in Seq(Specs), NEW s \in Specs, SpecOK(s),
         Reading(lines, list, s)
  PROVE  LET grown == Append(list, Complete(s))
         IN /\ Len(grown) = Cardinality(Begins(lines))
            /\ \A b \in Begins(lines) : /\ Rank(lines, b) \in DOMAIN grown
                                        /\ Described(lines, b, grown[Rank(lines, b)])
<1> DEFINE e == Complete(s)
           grown == Append(list, e)
<1>1. e \in Specs
  BY CompleteTyped
<1>2. PICK last \in Begins(lines) :
        /\ \A b \in Begins(lines) : b <= last
        /\ Cardinality(Begins(lines)) = Len(list) + 1
        /\ Entries(lines, list, last)
        /\ Raw(lines, last, s)
  BY DEF Reading
<1>3. Described(lines, last, e)
  BY <1>2, CompleteDescribed
<1> HIDE DEF e
<1>4. /\ grown \in Seq(Specs) /\ Len(grown) = Len(list) + 1
      /\ \A i \in 1 .. Len(list) : grown[i] = list[i]
      /\ grown[Len(list) + 1] = e
  BY <1>1, AppendProperties
<1>5. Len(list) \in Nat /\ DOMAIN list = 1 .. Len(list) /\ DOMAIN grown = 1 .. Len(grown)
  BY <1>4, LenProperties
<1> HIDE DEF grown
<1>6. ASSUME NEW b \in Begins(lines)
      PROVE  Rank(lines, b) \in DOMAIN grown /\ Described(lines, b, grown[Rank(lines, b)])
  <2>1. CASE b = last
    <3>1. Rank(lines, b) = Len(list) + 1
      BY <1>2, <2>1, LastRank
    <3>2. Len(list) + 1 \in DOMAIN grown
      BY <1>4, <1>5
    <3>3. QED
      BY <1>3, <1>4, <2>1, <3>1, <3>2
  <2>2. CASE b # last
    <3>1. Rank(lines, b) \in DOMAIN list /\ Described(lines, b, list[Rank(lines, b)])
      BY <1>2, <2>2 DEF Entries
    <3>2. PICK i \in DOMAIN list : i = Rank(lines, b)
      BY <3>1
    <3>3. i \in DOMAIN grown /\ grown[i] = list[i]
      BY <1>4, <1>5
    <3>4. QED
      BY <3>1, <3>2, <3>3
  <2>3. QED
    BY <2>1, <2>2
<1>7. QED
  BY <1>2, <1>4, <1>6 DEF grown, e

\* One section more.
LEMMA OneMoreSection ==
  ASSUME NEW lines \in Seq(Line), NEW line, NEW longer, Longer(lines, line, longer),
         Len(lines) + 1 \in Begins(longer)
  PROVE  /\ Cardinality(Begins(longer)) = Cardinality(Begins(lines)) + 1
         /\ \A b \in Begins(longer) : b <= Len(lines) + 1
         /\ \A b \in Begins(longer) \ {Len(lines) + 1} : b \in Begins(lines)
<1>1. Len(lines) \in Nat
  BY DEF Longer
<1>2. ASSUME NEW b \in Begins(longer)
      PROVE  b <= Len(lines) + 1 /\ (b = Len(lines) + 1 \/ b \in Begins(lines))
  <2>1. b \in 1 .. Len(lines) + 1
    BY BeginsOfLonger
  <2>2. b <= Len(lines) + 1 /\ (b = Len(lines) + 1 \/ b \in 1 .. Len(lines))
    BY <1>1, <2>1
  <2>3. QED
    BY <2>2, BeginsOfLonger
<1>3. Begins(longer) = Begins(lines) \cup {Len(lines) + 1}
  <2>1. \A b \in Begins(lines) : b \in Begins(longer)
    BY BeginsOfLonger
  <2>2. QED
    BY <1>2, <2>1
<1>4. Len(lines) + 1 \notin Begins(lines)
  <2>1. Len(lines) + 1 \notin 1 .. Len(lines)
    BY <1>1
  <2>2. QED
    BY <2>1, BeginsOfLonger
<1>5. Cardinality(Begins(longer)) = Cardinality(Begins(lines)) + 1
  BY <1>3, <1>4, BeginsFinite, FS_AddElement
<1>6. QED
  BY <1>2, <1>5

\* Before the first section there are comments only.
LEMMA NoSections ==
  ASSUME NEW lines \in Seq(Line), AllComments(lines)
  PROVE  Begins(lines) = {} /\ Cardinality(Begins(lines)) = 0
<1>1. Begins(lines) = {}
  BY DEF Begins, AllComments
<1>2. QED
  BY <1>1, FS_EmptySet

\* A section header, or the first key of a file without.
LEMMA SectionStarts ==
  ASSUME NEW lines \in Seq(Line), NEW line \in Line, NEW longer, Longer(lines, line, longer),
         Len(lines) + 1 \in Begins(longer),
         NEW list \in Seq(Specs), Len(list) = Cardinality(Begins(lines)),
         \A b \in Begins(lines) : /\ Rank(lines, b) \in DOMAIN list
                                  /\ Described(lines, b, list[Rank(lines, b)]),
         NEW s, Raw(longer, Len(lines) + 1, s)
  PROVE  Reading(longer, list, s)
<1>1. /\ Cardinality(Begins(longer)) = Len(list) + 1
      /\ \A b \in Begins(longer) : b <= Len(lines) + 1
      /\ \A b \in Begins(longer) \ {Len(lines) + 1} : b \in Begins(lines)
  BY OneMoreSection
<1>2. ASSUME NEW b \in Begins(longer) \ {Len(lines) + 1}
      PROVE  Rank(longer, b) \in DOMAIN list /\ Described(longer, b, list[Rank(longer, b)])
  <2>1. b \in Begins(lines) /\ b \in 1 .. Len(lines)
    BY <1>1, BeginsOfLonger
  <2>2. Rank(longer, b) = Rank(lines, b)
    BY <2>1, RankKept
  <2>3. PICK i \in DOMAIN list : i = Rank(lines, b)
    BY <2>1
  <2>4. Described(lines, b, list[i])
    BY <2>1, <2>3
  <2>5. Described(longer, b, list[i])
    BY <2>1, <2>4, DescribedKept
  <2>6. QED
    BY <2>2, <2>3, <2>5
<1>3. Entries(longer, list, Len(lines) + 1)
  BY <1>2 DEF Entries
<1>4. QED
  BY <1>1, <1>3 DEF Reading

\* A line that begins no section, after the first section.
LEMMA SectionGoesOn ==
  ASSUME NEW lines \in Seq(Line), NEW line \in Line, NEW longer, Longer(lines, line, longer),
         line.key # "section", NEW list, NEW s \in Specs, Reading(lines, list, s),
         NEW t, t = IF line.key = "comment" THEN s ELSE ApplyKeyValue(line, s)
  PROVE  Reading(longer, list, t)
<1>1. PICK last \in Begins(lines) :
        /\ \A b \in Begins(lines) : b <= last
        /\ Cardinality(Begins(lines)) = Len(list) + 1
        /\ Entries(lines, list, last)
        /\ Raw(lines, last, s)
  BY DEF Reading
<1>2. Len(lines) \in Nat /\ last \in 1 .. Len(lines) /\ last \in DOMAIN lines
  BY BeginsOfLonger DEF Longer
<1>3. ~AllComments(lines)
  BY <1>2 DEF AllComments, Begins
<1>4. Begins(longer) = Begins(lines)
  <2>1. Len(lines) + 1 \notin Begins(longer)
    BY <1>3, BeginsOfLonger
  <2>2. \A b \in Begins(longer) : b \in 1 .. Len(lines)
    <3>1. \A b \in Begins(longer) : b \in 1 .. Len(lines) + 1 /\ b # Len(lines) + 1
      BY <2>1, BeginsOfLonger
    <3>2. QED
      BY <1>2, <3>1
  <2>3. \A b \in Begins(longer) : b \in Begins(lines)
    BY <2>2, BeginsOfLonger
  <2>4. \A b \in Begins(lines) : b \in Begins(longer)
    BY BeginsOfLonger
  <2>5. QED
    BY <2>3, <2>4
<1>5. ASSUME NEW b \in Begins(longer) \ {last}
      PROVE  Rank(longer, b) \in DOMAIN list /\ Described(longer, b, list[Rank(longer, b)])
  <2>1. b \in Begins(lines) /\ b \in 1 .. Len(lines) /\ b <= last /\ b # last
    BY <1>1, <1>4, BeginsOfLonger
  <2>2. last > b
    BY <1>2, <2>1
  <2>3. Rank(longer, b) = Rank(lines, b)
    BY <2>1, RankKept
  <2>4. PICK i : i = Rank(lines, b)
    OBVIOUS
  <2>5. i \in DOMAIN list /\ Described(lines, b, list[i])
    BY <1>1, <2>1, <2>4 DEF Entries
  <2>6. Described(longer, b, list[i])
    BY <2>1, <2>2, <2>5, DescribedKept
  <2>7. QED
    BY <2>3, <2>4, <2>5, <2>6
<1>6. Raw(longer, last, t)
  <2>1. CASE line.key = "comment"
    BY <1>1, <1>2, <2>1, DescribedKept
  <2>2. CASE line.key # "comment"
    <3>1. line.key \in Keys
      BY <2>2 DEF Line, Keys
    <3>2. Begins(longer) \subseteq 1 .. last
      <4>1. \A b \in Begins(longer) : b \in 1 .. Len(lines) /\ b <= last
        BY <1>1, <1>4, BeginsOfLonger
      <4>2. QED
        BY <1>2, <4>1
    <3>3. QED
      BY <1>1, <1>2, <2>2, <3>1, <3>2, KeyRead
  <2>3. QED
    BY <2>1, <2>2
<1>7. Entries(longer, list, last)
  BY <1>5 DEF Entries
<1>8. QED
  BY <1>1, <1>4, <1>6, <1>7 DEF Reading

\* A section header closes the section before it, if there is one.
LEMMA ReadSectionMatches ==
  ASSUME LoadTypes, ConfigRead, at = "load", NEW line \in Line,
         Longer(config, line, config'), ReadSection(line)
  PROVE  Reading(config', specs', current')
<1> DEFINE list == IF has_current THEN Append(specs, Complete(current)) ELSE specs
<1>1. /\ line.key = "section" /\ specs' = list /\ current' = NewSpec(line.words[1])
  BY DEF ReadSection
<1>2. config \in Seq(Line) /\ specs \in Seq(Specs) /\ current \in Specs
  BY DEF ConfigRead, LoadTypes
<1>3. Len(config) + 1 \in Begins(config')
  BY <1>1, BeginsOfLonger
<1>4. Raw(config', Len(config) + 1, current')
  BY <1>1, HeaderRead
<1>5. /\ list \in Seq(Specs) /\ Len(list) = Cardinality(Begins(config))
      /\ \A b \in Begins(config) : /\ Rank(config, b) \in DOMAIN list
                                   /\ Described(config, b, list[Rank(config, b)])
  <2>1. CASE has_current
    <3>1. SpecOK(current) /\ Reading(config, specs, current)
      BY <2>1 DEF LoadTypes, ConfigRead
    <3>2. Complete(current) \in Specs
      BY <1>2, <3>1, CompleteTyped
    <3>3. Append(specs, Complete(current)) \in Seq(Specs)
      BY <1>2, <3>2, AppendProperties
    <3>4. QED
      BY <1>2, <2>1, <3>1, <3>3, SectionClosed
  <2>2. CASE ~has_current
    <3>1. AllComments(config) /\ specs = << >>
      BY <2>2 DEF ConfigRead
    <3>2. Begins(config) = {} /\ Cardinality(Begins(config)) = 0
      BY <1>2, <3>1, NoSections
    <3>3. Len(<< >>) = 0
      OBVIOUS
    <3>4. QED
      BY <1>2, <2>2, <3>1, <3>2, <3>3
  <2>3. QED
    BY <2>1, <2>2
<1> HIDE DEF list
<1>6. QED
  BY <1>1, <1>2, <1>3, <1>4, <1>5, SectionStarts

\* A key goes to the section at hand, or begins the first.
LEMMA ReadKeyMatches ==
  ASSUME LoadTypes, ConfigRead, at = "load", NEW line \in Line,
         Longer(config, line, config'), ReadKeyValue(line),
         NewSpec("default") \in Specs
  PROVE  Reading(config', specs', current')
<1>1. /\ line.key \notin {"section", "comment"} /\ specs' = specs
      /\ current' = ApplyKeyValue(line, IF has_current THEN current ELSE NewSpec("default"))
  BY DEF ReadKeyValue
<1>2. config \in Seq(Line) /\ specs \in Seq(Specs) /\ current \in Specs
  BY DEF ConfigRead, LoadTypes
<1>3. CASE has_current
  <2>1. Reading(config, specs, current)
    BY <1>3 DEF ConfigRead
  <2>2. current' = ApplyKeyValue(line, current)
    BY <1>1, <1>3
  <2>3. QED
    BY <1>1, <1>2, <2>1, <2>2, SectionGoesOn
<1>4. CASE ~has_current
  <2>1. AllComments(config) /\ specs = << >>
    BY <1>4 DEF ConfigRead
  <2>2. Begins(config) = {} /\ Cardinality(Begins(config)) = 0
    BY <1>2, <2>1, NoSections
  <2>3. Len(<< >>) = 0
    OBVIOUS
  <2>4. Len(config) + 1 \in Begins(config') /\ Begins(config') \subseteq 1 .. Len(config) + 1
    BY <1>1, <2>1, BeginsOfLonger
  <2>5. line.key \in Keys
    BY <1>1 DEF Line, Keys
  <2>6. Raw(config', Len(config) + 1, current')
    BY <1>1, <1>4, <2>4, <2>5, FirstKeyRead
  <2>7. Len(specs) = Cardinality(Begins(config))
    BY <2>1, <2>2, <2>3
  <2>8. \A b \in Begins(config) : /\ Rank(config, b) \in DOMAIN specs
                                  /\ Described(config, b, specs[Rank(config, b)])
    BY <2>2
  <2>9. QED
    BY <1>1, <1>2, <2>4, <2>6, <2>7, <2>8, SectionStarts
<1>5. QED
  BY <1>3, <1>4

\* Any step of the program.
LEMMA ConfigStep ==
  ASSUME Types, ConfigRead, [Next]_vars
  PROVE  ConfigRead'
<1>a. LoadTypes /\ config \in Seq(Line)
  BY DEF Types, ConfigRead
<1>b. NewSpec("default") \in Specs
  <2>1. << >> \in Seq(ModeName)
    OBVIOUS
  <2>2. 1 \in Nat \ {0}
    OBVIOUS
  <2>3. QED
    BY <2>1, <2>2 DEF NewSpec, Specs, Text, ModeName
<1>1. CASE ReadLine
  <2>1. PICK line \in Line : /\ config' = Append(config, line)
                             /\ ReadSection(line) \/ ReadKeyValue(line) \/ ReadComment(line)
    BY <1>1 DEF ReadLine
  <2>2. Longer(config, line, config') /\ config' \in Seq(Line)
    BY <1>a, <2>1, LineRead
  <2>3. at = "load" /\ at' = "load"
    BY <1>1 DEF ReadLine
  <2>4. CASE ReadSection(line)
    <3>1. Reading(config', specs', current') /\ has_current'
      BY <1>a, <2>2, <2>3, <2>4, ReadSectionMatches DEF ReadSection
    <3>2. QED
      BY <2>2, <2>3, <3>1 DEF ConfigRead
  <2>5. CASE ReadKeyValue(line)
    <3>1. Reading(config', specs', current') /\ has_current'
      BY <1>a, <1>b, <2>2, <2>3, <2>5, ReadKeyMatches DEF ReadKeyValue
    <3>2. QED
      BY <2>2, <2>3, <3>1 DEF ConfigRead
  <2>6. CASE ReadComment(line)
    <3>1. line.key = "comment" /\ current' = current /\ has_current' = has_current /\ specs' = specs
      BY <2>6 DEF ReadComment
    <3>2. CASE has_current
      <4>1. Reading(config, specs, current) /\ current \in Specs
        BY <1>a, <2>3, <3>2 DEF ConfigRead, LoadTypes
      <4>2. Reading(config', specs', current')
        BY <1>a, <2>2, <3>1, <4>1, SectionGoesOn
      <4>3. QED
        BY <2>2, <2>3, <3>1, <3>2, <4>2 DEF ConfigRead
    <3>3. CASE ~has_current
      <4>1. AllComments(config) /\ specs = << >>
        BY <2>3, <3>3 DEF ConfigRead
      <4>2. AllComments(config')
        <5>1. \A i \in DOMAIN config' : i \in 1 .. Len(config) \/ i = Len(config) + 1
          BY <2>2 DEF Longer
        <5>2. QED
          BY <2>2, <3>1, <4>1, <5>1 DEF Longer, AllComments
      <4>3. QED
        BY <2>2, <2>3, <3>1, <3>3, <4>1, <4>2 DEF ConfigRead
    <3>4. QED
      BY <3>2, <3>3
  <2>7. QED
    BY <2>1, <2>4, <2>5, <2>6
<1>2. CASE EndOfFile
  <2>1. /\ at = "load" /\ at' # "load" /\ config' = config
        /\ specs' = IF has_current THEN Append(specs, Complete(current)) ELSE specs
    BY <1>2 DEF EndOfFile
  <2>2. CASE has_current
    <3>1. SpecOK(current) /\ Reading(config, specs, current) /\ current \in Specs /\ specs \in Seq(Specs)
      BY <1>a, <2>1, <2>2 DEF LoadTypes, ConfigRead
    <3>2. Matches(config, Append(specs, Complete(current)))
      BY <1>a, <3>1, SectionClosed DEF Matches
    <3>3. specs' = Append(specs, Complete(current))
      BY <2>1, <2>2
    <3>4. Matches(config', specs')
      BY <2>1, <3>2, <3>3
    <3>5. QED
      BY <1>a, <2>1, <3>4 DEF ConfigRead
  <2>3. CASE ~has_current
    <3>1. AllComments(config) /\ specs = << >>
      BY <2>1, <2>3 DEF ConfigRead
    <3>2. Begins(config) = {} /\ Cardinality(Begins(config)) = 0
      BY <1>a, <3>1, NoSections
    <3>3. Len(<< >>) = 0
      OBVIOUS
    <3>4. Matches(config, specs)
      BY <3>1, <3>2, <3>3 DEF Matches
    <3>5. QED
      BY <1>a, <2>1, <2>3, <3>4 DEF ConfigRead
  <2>4. QED
    BY <2>2, <2>3
<1>3. CASE Trial \/ WriteIndexCsv \/ Session
  <2>1. UNCHANGED <<caller, config, has_current, current, specs>> /\ at # "load" /\ at' # "load"
    <3>1. CASE Trial
      <4>1. at = "run" /\ UNCHANGED <<caller, loadVars>> /\ at' \in {at, "run", "index"}
        BY <3>1 DEF Trial, Advance
      <4>2. QED
        BY <4>1 DEF loadVars
    <3>2. CASE WriteIndexCsv
      BY <3>2 DEF WriteIndexCsv, loadVars
    <3>3. CASE Session
      BY <3>3 DEF Session, loadVars
    <3>4. QED
      BY <1>3, <3>1, <3>2, <3>3
  <2>2. QED
    BY <2>1 DEF ConfigRead
<1>4. CASE UNCHANGED vars
  BY <1>4 DEF vars, loadVars, ConfigRead
<1>5. QED
  BY <1>1, <1>2, <1>3, <1>4 DEF Next

\* The experiments read are the sections of the configuration, in their order,
\* each with the last value it gives for a key and nothing of another section.
THEOREM SpecsMatch == Spec => []SpecsMatchConfig
<1>1. Init => ConfigRead
  <2>1. << >> \in Seq(Line) /\ DOMAIN << >> = {}
    OBVIOUS
  <2>2. AllComments(<< >>)
    BY <2>1 DEF AllComments
  <2>3. QED
    BY <2>1, <2>2 DEF Init, ConfigRead
<1>2. ConfigRead /\ (Types /\ SessionsGo) /\ [Next]_vars => ConfigRead'
  BY ConfigStep
<1>3. ConfigRead => SpecsMatchConfig
  BY DEF ConfigRead, Matches, SpecsMatchConfig, Rank, UpTo
<1>4. QED
  BY <1>1, <1>2, <1>3, ExperimentInvariant, PTL DEF Spec
=============================================================================
