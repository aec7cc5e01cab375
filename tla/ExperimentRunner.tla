-------------------------- MODULE ExperimentRunner --------------------------
(***************************************************************************)
(* The command dfabitctl around the driver: a configuration file read into *)
(* experiments (ExperimentConfigLoader), their runs one after the other    *)
(* (ExperimentRunner), the index written at the end, and the two other     *)
(* ways to run more than once, --repeat and --repeat-session.  A program   *)
(* that uses the library does as dfabitctl does with a configuration file, *)
(* but says itself where the index goes.                                   *)
(*                                                                         *)
(* A run (cli::Run, module RunSession) either succeeds or fails; what it   *)
(* leaves in its output directory is the number of the run.  Of the        *)
(* options, those are kept that decide which runs there are and where      *)
(* their output goes.                                                      *)
(***************************************************************************)
EXTENDS Naturals, Sequences, SequencesExt, FiniteSets

CONSTANTS
  Names,       \* names of sections; the empty one is allowed
  Dirs,        \* values of "out"
  Modes,       \* values of "mode", of which modes are run
  ModeLists,   \* values of "modes", as split
  Numbers,     \* values of "repeat"; 0 stands for all that is not above 0
  MaxLines,    \* bound: lines of a configuration
  MaxSessions  \* bound: the argument of --repeat-session

ASSUME ExperimentAssumption ==
  /\ ModeLists \subseteq Seq(Modes \cup {"full"})
  /\ Numbers \subseteq Nat
  /\ MaxLines \in Nat /\ MaxSessions \in Nat

VARIABLES
  caller,    \* how the program was started
  config,    \* history: the lines read
  current, has_current, specs,    \* LoadFile
  spec, mode, trial,              \* the three loops of RunSpecs
  records,   \* the records of a batch; of sessions, which keep none, a history
  disk,      \* disk[d]: the last run that wrote to directory d
  sessions,  \* the argument of --repeat-session
  index,     \* the index file, as a sequence of at most one content
  at         \* "load", "run", "index", "sessions", or how the program ended

loadVars == <<config, current, has_current, specs>>
loopVars == <<spec, mode, trial>>
vars == <<caller, loadVars, loopVars, records, disk, sessions, index, at>>

\* How the program can end: with status 0, with status 1, by an exception
\* that nobody catches.
Ends == {"ok", "error", "abort"}

Line ==
  [key : {"section"}, words : {<<n>> : n \in Names}, number : {0}]
    \cup [key : {"out"}, words : {<<d>> : d \in Dirs}, number : {0}]
    \cup [key : {"mode"}, words : {<<m>> : m \in Modes}, number : {0}]
    \cup [key : {"modes"}, words : ModeLists, number : {0}]
    \cup [key : {"repeat"}, words : {<< >>}, number : Numbers]
    \cup [key : {"comment"}, words : {<< >>}, number : {0}]

NewSpec(name) == [name |-> name, out |-> "", mode |-> "full", modes |-> << >>, repeat |-> 1]

\* A faulty variant: a zero is taken as it is.
AtLeastZero(n) == n

AtLeastOne(n) == IF n = 0 THEN 1 ELSE n

ApplyKeyValue(line, s) ==
  CASE line.key = "out"    -> [s EXCEPT !.out = line.words[1]]
    [] line.key = "mode"   -> [s EXCEPT !.mode = line.words[1]]
    [] line.key = "modes"  -> [s EXCEPT !.modes = line.words]
    [] line.key = "repeat" -> [s EXCEPT !.repeat = AtLeastOne(line.number)]

\* An experiment without modes runs in its mode.
Complete(s) ==
  IF s.modes # << >> THEN s
  ELSE [s EXCEPT !.modes = <<IF s.mode = "" THEN "full" ELSE s.mode>>]

-----------------------------------------------------------------------------
Init ==
  /\ config = << >> /\ records = << >> /\ disk = << >> /\ index = << >>
  /\ current = NewSpec("") /\ has_current = FALSE
  /\ spec = 1 /\ mode = 1 /\ trial = 1
  /\ \/ caller \in {"--config", "library"} /\ at = "load"
        /\ specs = << >> /\ sessions = 0
     \/ caller = "--repeat" /\ at = "run"
        /\ \E n \in Numbers \ {0, 1}, m \in Modes :
             specs = <<[NewSpec("cli_repeat") EXCEPT !.repeat = n, !.modes = <<m>>]>>
        /\ sessions = 0
     \/ caller = "--repeat-session" /\ at = "sessions"
        /\ specs = << >> /\ sessions \in 1 .. MaxSessions

\* A faulty variant: the options of a section are those of the one before.
ReadSectionKeeps(line) ==
  /\ line.key = "section"
  /\ specs' = IF has_current THEN Append(specs, Complete(current)) ELSE specs
  /\ current' = [current EXCEPT !.name = line.words[1]]
  /\ has_current' = TRUE

ReadSection(line) ==
  /\ line.key = "section"
  /\ specs' = IF has_current THEN Append(specs, Complete(current)) ELSE specs
  /\ current' = NewSpec(line.words[1])
  /\ has_current' = TRUE

\* Keys before the first section are those of an experiment named "default".
ReadKeyValue(line) ==
  /\ line.key \notin {"section", "comment"}
  /\ current' = ApplyKeyValue(line, IF has_current THEN current ELSE NewSpec("default"))
  /\ has_current' = TRUE
  /\ UNCHANGED specs

ReadComment(line) ==
  /\ line.key = "comment"
  /\ UNCHANGED <<current, has_current, specs>>

ReadLine ==
  /\ at = "load" /\ Len(config) < MaxLines
  /\ \E line \in Line :
       /\ config' = Append(config, line)
       /\ ReadSection(line) \/ ReadKeyValue(line) \/ ReadComment(line)
  /\ UNCHANGED <<caller, loopVars, records, disk, sessions, index, at>>

EndOfFile ==
  /\ at = "load"
  /\ specs' = IF has_current THEN Append(specs, Complete(current)) ELSE specs
  /\ at' = IF specs' = << >> THEN "error" ELSE "run"
  /\ UNCHANGED <<caller, config, current, has_current, loopVars, records, disk, sessions, index>>

-----------------------------------------------------------------------------
NameOf(s) == IF s.name = "" THEN "default" ELSE s.name

\* A faulty variant: the modes of an experiment share their directories.
TrialDirShared(s, m, t) == <<s.out, NameOf(s), t>>

TrialDir(s, m, t) == <<s.out, NameOf(s), m, t>>

\* A run writes to its directory, unless it fails before it gets that far.
Written(dir, run, success) ==
  \/ disk' = [d \in DOMAIN disk \cup {dir} |-> IF d = dir THEN run ELSE disk[d]]
  \/ ~success /\ UNCHANGED disk

\* A faulty variant: the trials go on counting with the next mode.
AdvanceCounting(s) ==
  IF trial < s.repeat
  THEN trial' = trial + 1 /\ UNCHANGED <<spec, mode, at>>
  ELSE /\ UNCHANGED trial
       /\ IF mode < Len(s.modes)
          THEN mode' = mode + 1 /\ UNCHANGED <<spec, at>>
          ELSE /\ mode' = 1 /\ spec' = spec + 1
               /\ at' = IF spec < Len(specs) THEN "run" ELSE "index"

\* The next turn of the three loops.
Advance(s) ==
  IF trial < s.repeat
  THEN trial' = trial + 1 /\ UNCHANGED <<spec, mode, at>>
  ELSE /\ trial' = 1
       /\ IF mode < Len(s.modes)
          THEN mode' = mode + 1 /\ UNCHANGED <<spec, at>>
          ELSE /\ mode' = 1 /\ spec' = spec + 1
               /\ at' = IF spec < Len(specs) THEN "run" ELSE "index"

\* One run of RunSpecs; a failed one is recorded and the batch goes on.
Trial ==
  /\ at = "run"
  /\ LET s   == specs[spec]
         m   == s.modes[mode]
         dir == TrialDir(s, m, trial)
     IN \E success \in BOOLEAN :
          /\ records' = Append(records,
               [experiment_name |-> NameOf(s), mode |-> m, trial |-> trial, output_dir |-> dir,
                success |-> success, turn |-> <<spec, mode, trial>>])
          /\ Written(dir, Len(records) + 1, success)
          /\ Advance(s)
  /\ UNCHANGED <<caller, loadVars, sessions, index>>

\* dfabitctl gives the index a bare file name: its parent path is empty, which
\* create_directories refuses with an exception.  Others may give a directory.
WriteIndexCsv ==
  /\ at = "index"
  /\ \/ caller # "library" /\ at' = "abort" /\ UNCHANGED index
     \/ caller = "library" /\ at' = "error" /\ UNCHANGED index
     \/ caller = "library" /\ at' = "ok" /\ index' = <<records>>
  /\ UNCHANGED <<caller, loadVars, loopVars, records, disk, sessions>>

\* A faulty variant: the sessions go on after one that failed.
SessionAnyway ==
  /\ at = "sessions"
  /\ trial' = trial + 1
  /\ \E success \in BOOLEAN :
       /\ records' = Append(records,
            [experiment_name |-> "", mode |-> "full", trial |-> trial,
             output_dir |-> <<"out">>, success |-> success, turn |-> <<1, 1, trial>>])
       /\ Written(<<"out">>, trial, success)
       /\ at' = IF trial < sessions THEN at ELSE "ok"
  /\ UNCHANGED <<caller, loadVars, spec, mode, sessions, index>>

\* One session of --repeat-session; all use the same directory.
Session ==
  /\ at = "sessions"
  /\ trial' = trial + 1
  /\ \E success \in BOOLEAN :
       /\ records' = Append(records,
            [experiment_name |-> "", mode |-> "full", trial |-> trial,
             output_dir |-> <<"out">>, success |-> success, turn |-> <<1, 1, trial>>])
       /\ Written(<<"out">>, trial, success)
       /\ at' = IF ~success THEN "error" ELSE IF trial < sessions THEN at ELSE "ok"
  /\ UNCHANGED <<caller, loadVars, spec, mode, sessions, index>>

Next == ReadLine \/ EndOfFile \/ Trial \/ WriteIndexCsv \/ Session

Spec == Init /\ [][Next]_vars

-----------------------------------------------------------------------------
SpecOK(s) ==
  /\ s.name \in Names \cup {"default", "cli_repeat"} /\ s.out \in Dirs \cup {""}
  /\ s.repeat \in Numbers \cup {1} /\ s.repeat > 0

\* Type invariant; every number of repetitions is positive, so that an
\* experiment that was read is run.
ExperimentTypeOK ==
  /\ at \in {"load", "run", "index", "sessions"} \cup Ends
  /\ \A i \in DOMAIN specs : SpecOK(specs[i]) /\ specs[i].modes # << >>
  /\ Len(index) <= 1
  /\ \A d \in DOMAIN disk : disk[d] \in DOMAIN records
  /\ at = "run" => /\ spec \in DOMAIN specs /\ mode \in DOMAIN specs[spec].modes
                   /\ trial \in 1 .. specs[spec].repeat

\* What a configuration says, without reading it line by line: a section
\* begins at its header, or at the first key if that comes before all headers.
Begins(lines) ==
  {i \in DOMAIN lines :
     \/ lines[i].key = "section"
     \/ lines[i].key # "comment" /\ \A j \in 1 .. i - 1 : lines[j].key = "comment"}

\* The lines of the section beginning at b that give a key a value.
Setting(lines, b, key) ==
  {i \in b .. Len(lines) :
     lines[i].key = key /\ \A c \in Begins(lines) : c > b => i < c}

\* The last value the section gives a key, or the default.
ValueIn(lines, b, key, default) ==
  LET set == Setting(lines, b, key)
  IN IF set = {} THEN default ELSE lines[CHOOSE i \in set : \A j \in set : j <= i]

Unset(words) == [words |-> words, number |-> 0]

Described(lines, b, s) ==
  LET modes == ValueIn(lines, b, "modes", Unset(<< >>)).words
      one   == ValueIn(lines, b, "mode", Unset(<<"full">>)).words[1]
  IN /\ s.name = IF lines[b].key = "section" THEN lines[b].words[1] ELSE "default"
     /\ s.out = ValueIn(lines, b, "out", Unset(<<"">>)).words[1]
     /\ s.modes = IF modes # << >> THEN modes ELSE <<IF one = "" THEN "full" ELSE one>>
     /\ LET n == ValueIn(lines, b, "repeat", Unset(<< >>)).number
        IN s.repeat = IF n > 0 THEN n ELSE 1

\* The experiments read are the sections of the configuration, in their order,
\* each with the last value it gives for a key and nothing of another section.
SpecsMatchConfig ==
  caller \in {"--config", "library"} /\ at # "load" =>
    LET begins == Begins(config)
    IN /\ Len(specs) = Cardinality(begins)
       /\ \A b \in begins : Described(config, b, specs[Cardinality({c \in begins : c <= b})])

Before(t, u) ==
  \/ t[1] < u[1]
  \/ t[1] = u[1] /\ t[2] < u[2]
  \/ t[1] = u[1] /\ t[2] = u[2] /\ t[3] < u[3]

\* Once a batch is over, every trial of every mode of every experiment has one
\* record, in the order of the configuration, whatever failed in between.
BatchIsComplete ==
  caller # "--repeat-session" /\ at \in {"index", "ok", "abort"} =>
    /\ {records[i].turn : i \in DOMAIN records}
         = UNION {{<<s, m, t>> : m \in DOMAIN specs[s].modes, t \in 1 .. specs[s].repeat}
                  : s \in DOMAIN specs}
    /\ \A i \in 1 .. Len(records) - 1 : Before(records[i].turn, records[i + 1].turn)

\* Experiments with different names or directories, none with a mode twice.
Distinct ==
  /\ \A i, j \in DOMAIN specs :
       i # j => <<NameOf(specs[i]), specs[i].out>> # <<NameOf(specs[j]), specs[j].out>>
  /\ \A i \in DOMAIN specs : IsInjective(specs[i].modes)

\* The directory a record of a successful run names holds the output of that
\* run, and no later one of the batch has written over it.
RecordPointsToItsRun ==
  caller # "--repeat-session" /\ Distinct =>
    \A i \in DOMAIN records :
      records[i].success => disk[records[i].output_dir] = i

\* --repeat-session reports success only when as many sessions as were asked
\* for have succeeded, and stops at the first failure; the output directory
\* then holds the last of them.
SessionsStopAtFailure ==
  caller = "--repeat-session" =>
    /\ \A i \in DOMAIN records : ~records[i].success => i = Len(records) /\ at = "error"
    /\ at = "ok" => Len(records) = sessions
    /\ at = "ok" => disk[<<"out">>] = sessions

\* A batch that ran has an index.
BatchHasIndex == records # << >> /\ caller # "--repeat-session" /\ at \in {"ok", "abort"}
                   => index = <<records>>
=============================================================================
