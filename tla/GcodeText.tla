------------------------------ MODULE GcodeText ------------------------------
(***************************************************************************)
(* The reading of one ASCII G-code file by the backend's validator:        *)
(* parse_text_gcode line by line, its checks at the end of the file, and   *)
(* extract_metadata's of the settings it found (gcode_validator.py).       *)
(*                                                                         *)
(* A line is what the parser makes of it: a marker of the slicer's config  *)
(* block, a setting "; key = value", a command, or anything else.  Two of  *)
(* the critical settings stand for all: "model" is compared as text and    *)
(* "nozzle" as numbers.                                                    *)
(***************************************************************************)
EXTENDS Naturals, Sequences, FiniteSets, SequencesExt

CONSTANTS
  Files,        \* the files that are read: sequences of lines
  TailLength    \* how many commands the end of a file is: 250 in the code

Markers == {"begin", "end"}

Settings ==
  [key : {"model"}, text : {"A", "B", ""}] \cup
  [key : {"nozzle"}, text : {"0.4", "0.40", "0.6", "wide", ""}]

SafeEnds == {"M104 S0", "M140 S0", "M107", "M84"}
M862 == {"M862.1", "M862.3", "M862.5", "M862.6"}
Commands == SafeEnds \cup M862 \cup {"M104 S215", "G1"}

LineKinds == [marker : Markers] \cup [setting : Settings] \cup [command : Commands]
               \cup {[other |-> "blank"]}

TextAssumption == Files \subseteq Seq(LineKinds) /\ TailLength \in Nat

VARIABLES
  file,       \* the lines
  pos,        \* how many have been read
  begins, ends, open, complete,   \* the markers seen
  commands,   \* executable_commands
  m862,       \* the compatibility commands among them, in order
  history,    \* metadata_history: each key's values, in order
  verdict     \* "reading", "parsed", "accepted" or the reason of the refusal

vars == <<file, pos, begins, ends, open, complete, commands, m862, history, verdict>>

Keys == {"model", "nozzle"}

Init ==
  /\ file \in Files
  /\ pos = 0
  /\ begins = 0 /\ ends = 0 /\ open = FALSE /\ complete = FALSE
  /\ commands = <<>> /\ m862 = <<>>
  /\ history = [k \in Keys |-> <<>>]
  /\ verdict = "reading"

Line == file[pos + 1]
Reads(field) == verdict = "reading" /\ pos < Len(file) /\ field \in DOMAIN Line /\ pos' = pos + 1

-----------------------------------------------------------------------------
Opens ==
  /\ Reads("marker") /\ Line.marker = "begin"
  /\ begins' = begins + 1
  /\ verdict' = IF open THEN "nested" ELSE verdict
  /\ open' = TRUE
  /\ UNCHANGED <<file, ends, complete, commands, m862, history>>

Closes ==
  /\ Reads("marker") /\ Line.marker = "end"
  /\ ends' = ends + 1
  /\ verdict' = IF open THEN verdict ELSE "end without begin"
  /\ open' = FALSE /\ complete' = (complete \/ open)
  /\ UNCHANGED <<file, begins, commands, m862, history>>

Keeps ==
  /\ Reads("setting")
  /\ history' = [history EXCEPT ![Line.setting.key] = Append(@, Line.setting.text)]
  /\ UNCHANGED <<file, begins, ends, open, complete, commands, m862, verdict>>

\* A command is counted wherever it stands, even inside the config block.
Executes ==
  /\ Reads("command")
  /\ commands' = Append(commands, Line.command)
  /\ m862' = IF Line.command \in M862 THEN Append(m862, Line.command) ELSE m862
  /\ UNCHANGED <<file, begins, ends, open, complete, history, verdict>>

Skips ==
  /\ Reads("other")
  /\ UNCHANGED <<file, begins, ends, open, complete, commands, m862, history, verdict>>

-----------------------------------------------------------------------------
(***************************************************************************)
(* The end of the file.                                                    *)
(***************************************************************************)
\* safe_end: what the last commands of the file switch off.
SafeEnd ==
  LET from == IF Len(commands) > TailLength THEN Len(commands) - TailLength + 1 ELSE 1
  IN ToSet(SubSeq(commands, from, Len(commands))) \cap SafeEnds

\* Mutant: one config block is enough, more do no harm.
EndsLoosely ==
  /\ verdict = "reading" /\ pos = Len(file)
  /\ verdict' = CASE commands = <<>> -> "no commands"
                  [] begins = 0 \/ ends = 0 -> "config incomplete"
                  [] "M104 S0" \notin SafeEnd -> "nozzle left on"
                  [] "M140 S0" \notin SafeEnd -> "bed left on"
                  [] OTHER -> "parsed"
  /\ UNCHANGED <<file, pos, begins, ends, open, complete, commands, m862, history>>

Ends ==
  /\ verdict = "reading" /\ pos = Len(file)
  /\ verdict' = CASE commands = <<>> -> "no commands"
                  [] begins # 1 \/ ends # 1 \/ open \/ ~complete -> "config incomplete"
                  [] "M104 S0" \notin SafeEnd -> "nozzle left on"
                  [] "M140 S0" \notin SafeEnd -> "bed left on"
                  [] OTHER -> "parsed"
  /\ UNCHANGED <<file, pos, begins, ends, open, complete, commands, m862, history>>

(***************************************************************************)
(* extract_metadata.  A numeric key's values are compared as numbers, and  *)
(* as text when one of them is no number; blank ones are not compared.     *)
(***************************************************************************)
Number == [t \in {"0.4", "0.40", "0.6"} |-> IF t = "0.6" THEN 6 ELSE 4]

Conflicts(k) ==
  LET values == ToSet(history[k]) \ {""}
  IN IF k = "nozzle" /\ values \subseteq DOMAIN Number
       THEN Cardinality({Number[v] : v \in values}) > 1
       ELSE Cardinality(values) > 1

\* metadata[key] is the last value; _first_value takes a blank one for none.
Missing(k) == history[k] = <<>> \/ Last(history[k]) = ""

Extracts ==
  /\ verdict = "parsed"
  /\ verdict' = CASE \E k \in Keys : Conflicts(k) -> "conflict"
                  [] \E k \in Keys : Missing(k) -> "missing"
                  [] OTHER -> "accepted"
  /\ UNCHANGED <<file, pos, begins, ends, open, complete, commands, m862, history>>

Next == Opens \/ Closes \/ Keeps \/ Executes \/ Skips \/ Ends \/ Extracts

Spec == Init /\ [][Next]_vars

-----------------------------------------------------------------------------
(***************************************************************************)
(* Properties, over the whole file at once.                                *)
(***************************************************************************)
TypeOK ==
  /\ \A i \in 1 .. Len(file) : file[i] \in LineKinds
  /\ pos \in 0 .. Len(file)
  /\ begins + ends <= pos
  /\ open \in BOOLEAN /\ complete \in BOOLEAN
  /\ commands \in Seq(Commands) /\ m862 \in Seq(M862)
  /\ DOMAIN history = Keys

Places(field, value) ==
  {i \in 1 .. Len(file) : field \in DOMAIN file[i] /\ file[i][field] = value}
CommandPlaces == UNION {Places("command", c) : c \in Commands}
Near(places) ==
  \E i \in places : Cardinality({j \in CommandPlaces : j > i}) < TailLength

\* One config block, closed after it is opened; the nozzle and the bed switched off
\* within the last commands.
WellFormed ==
  /\ \E i, j \in 1 .. Len(file) :
       i < j /\ Places("marker", "begin") = {i} /\ Places("marker", "end") = {j}
  /\ Near(Places("command", "M104 S0")) /\ Near(Places("command", "M140 S0"))

\* "0.4" and "0.40" mean the same nozzle.
Same(s, t) == s = t \/ {s.text, t.text} = {"0.4", "0.40"}

\* What a file says of a key it says the same of everywhere, and says last.
Coherent ==
  LET said == {i \in 1 .. Len(file) : "setting" \in DOMAIN file[i]}
      setting(i) == file[i].setting
  IN /\ \A i, j \in said :
          setting(i).key = setting(j).key /\ "" \notin {setting(i).text, setting(j).text}
            => Same(setting(i), setting(j))
     /\ \A k \in Keys : \E i \in said :
          /\ setting(i).key = k /\ setting(i).text # ""
          /\ \A j \in said : setting(j).key = k => j <= i

\* The parser, which sees one line at a time, accepts exactly the files that are well
\* formed as a whole.
ParsedIsWellFormed ==
  /\ verdict \in {"parsed", "accepted", "conflict", "missing"} => WellFormed
  /\ verdict \notin {"reading", "parsed", "accepted", "conflict", "missing"} => ~WellFormed

\* A file is accepted just when its settings agree with one another.
AcceptedIsCoherent ==
  /\ verdict = "accepted" => Coherent
  /\ verdict \in {"conflict", "missing"} => ~Coherent

\* The reader of text files takes exactly the well-formed and coherent ones.
ParsersAreExact == TypeOK /\ ParsedIsWellFormed /\ AcceptedIsCoherent
=============================================================================
