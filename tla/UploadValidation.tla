-------------------------- MODULE UploadValidation --------------------------
(***************************************************************************)
(* validate_upload: the six stages between an uploaded file and the choice *)
(* of a printer (gcode_validator.py).  The parsers are GcodeText and       *)
(* GcodeBinary; here a file parses or does not, and what matters are its   *)
(* metadata, its compatibility commands, the two printer profiles, and the *)
(* directory of the converter that a .bgcode file needs.                   *)
(*                                                                         *)
(* Lengths are in hundredths of a millimetre for nozzles, else in          *)
(* millimetres; the tolerance of 1e-6 is left out.  A list that does not   *)
(* parse is empty, as _csv_floats leaves it; a list of temperatures that   *)
(* does not parse is refused as a negative one is.                         *)
(***************************************************************************)
EXTENDS Integers, Sequences, FiniteSets, SequencesExt

CONSTANT Files     \* the uploads: see MCFiles

\* Boxes are read as four numbers, or not at all.
UploadAssumption ==
  \A f \in Files : {f.metadata.bed, f.metadata.objects} \subseteq {<<>>} \cup [1 .. 4 -> Int]

ProfileIds == {"core_one_hf04", "xl_5t_is_04"}

SUPPORTED_PROFILES ==
  [id \in ProfileIds |->
     IF id = "core_one_hf04"
       THEN [model |-> "COREONE", variant |-> "HF0.4", keywords |-> {"CORE One", "HF0.4"},
             nozzles |-> <<40>>, high_flow |-> <<1>>, volume |-> <<250, 220, 270>>]
       ELSE [model |-> "XL5IS", variant |-> "0.4",
             keywords |-> {"XL", "5T", "Input Shaper", "0.4"},
             nozzles |-> <<40, 40, 40, 40, 40>>, high_flow |-> <<>>,
             volume |-> <<360, 360, 360>>]]

required_features == {"input shaper"}
max_nozzle_temperature == 290
max_bed_temperature == 120

VARIABLES
  file,         \* the upload
  pc,           \* the stage validate_upload is at
  stages,       \* the stages reported, with their status
  failed_stage, \* 0, or the stage the failure names
  profile,      \* compatible_profile, "none" until one is
  on_disk,      \* is there a directory of the converter on the disk
  temp_dir      \* does the local temp_dir name it

vars == <<file, pc, stages, failed_stage, profile, on_disk, temp_dir>>

Init ==
  /\ file \in Files /\ pc = "format" /\ stages = <<>> /\ failed_stage = 0
  /\ profile = "none" /\ on_disk = FALSE /\ temp_dir = FALSE

Stage(n, status) == [stage |-> n, status |-> status]

Fails(n) ==
  /\ stages' = Append(stages, Stage(n, "FAIL")) /\ failed_stage' = n /\ pc' = "return"
  /\ UNCHANGED <<file, profile>>

Passes(n, to) ==
  /\ stages' = Append(stages, Stage(n, "PASS")) /\ pc' = to
  /\ UNCHANGED <<file, failed_stage>>

-----------------------------------------------------------------------------
(***************************************************************************)
(* Stages 1 to 3.                                                          *)
(***************************************************************************)
\* A regular file that is not empty, whose first bytes are what its name says.
WellFormat ==
  /\ file.size > 0
  /\ \/ file.ext = ".bgcode" /\ file.magic
     \/ file.ext = ".gcode" /\ ~file.magic /\ ~file.nul

CheckFormat ==
  /\ pc = "format"
  /\ IF WellFormat THEN Passes(1, "parse") /\ UNCHANGED profile ELSE Fails(1)
  /\ UNCHANGED <<on_disk, temp_dir>>

ParseText ==
  /\ pc = "parse" /\ file.ext = ".gcode"
  /\ IF file.parses THEN Passes(2, "metadata") /\ UNCHANGED profile ELSE Fails(2)
  /\ UNCHANGED <<on_disk, temp_dir>>

\* The blocks first; then the converter is looked for.
ParseBinary ==
  /\ pc = "parse" /\ file.ext = ".bgcode"
  /\ IF file.parses /\ file.converter # "missing"
       THEN pc' = "convert" /\ UNCHANGED <<file, stages, failed_stage, profile>>
       ELSE Fails(2)
  /\ UNCHANGED <<on_disk, temp_dir>>

\* _convert_bgcode_to_text removes its directory when the converter fails, not when
\* the file cannot be copied into it.
Convert ==
  /\ pc = "convert"
  /\ on_disk' = (file.converter # "fails")
  /\ IF file.converter = "ok"
       THEN pc' = "parse text" /\ UNCHANGED <<file, stages, failed_stage, profile>>
       ELSE Fails(2)
  /\ UNCHANGED temp_dir

\* parse_gcode hands the directory over only when the converted text parses.
ParseConverted ==
  /\ pc = "parse text"
  /\ IF file.text_parses
       THEN temp_dir' = TRUE /\ Passes(2, "metadata") /\ UNCHANGED profile
       ELSE UNCHANGED temp_dir /\ Fails(2)
  /\ UNCHANGED on_disk

\* extract_metadata: for a .bgcode file the native metadata, which are not searched
\* for conflicts.  See GcodeText.
ExtractMetadata ==
  /\ pc = "metadata"
  /\ IF file.complete /\ (file.ext = ".gcode" => file.coherent)
       THEN Passes(3, "profiles") /\ UNCHANGED profile
       ELSE Fails(3)
  /\ UNCHANGED <<on_disk, temp_dir>>

-----------------------------------------------------------------------------
(***************************************************************************)
(* _match_profile: every check is made, and each adds its reason.          *)
(***************************************************************************)
SameIdentity(m, p) ==
  /\ m.model = p.model /\ m.variant = p.variant /\ m.nozzles = p.nozzles
  /\ p.high_flow # <<>> => m.high_flow = p.high_flow
  /\ p.keywords \subseteq m.keywords

NotAbrasive(m) == \A i \in DOMAIN m.abrasive : m.abrasive[i] = 0

\* Mutant: the bed of the file is not compared with the printer's.
FitsVolumeAnyBed(m, p) ==
  /\ m.bed # <<>>
  /\ Len(m.height) = 1 /\ m.height[1] <= p.volume[3]
  /\ Len(m.layer_z) = 1 /\ m.layer_z[1] <= p.volume[3]
  /\ m.objects # <<>> =>
       /\ m.objects[1] >= m.bed[1] /\ m.objects[2] >= m.bed[2]
       /\ m.objects[3] <= m.bed[3] /\ m.objects[4] <= m.bed[4]

\* A box is <<min x, min y, max x, max y>>; <<>> is none.
FitsVolume(m, p) ==
  /\ m.bed # <<>>
  /\ m.bed[3] - m.bed[1] <= p.volume[1] /\ m.bed[4] - m.bed[2] <= p.volume[2]
  /\ Len(m.height) = 1 /\ m.height[1] <= p.volume[3]
  /\ Len(m.layer_z) = 1 /\ m.layer_z[1] <= p.volume[3]
  /\ m.objects # <<>> =>
       /\ m.objects[1] >= m.bed[1] /\ m.objects[2] >= m.bed[2]
       /\ m.objects[3] <= m.bed[3] /\ m.objects[4] <= m.bed[4]

Within(temperatures, least, most) ==
  \A i \in DOMAIN temperatures : temperatures[i] \in least .. most

TemperaturesFit(m) ==
  /\ Within(m.temperature, 1, max_nozzle_temperature)
  /\ Within(m.first_layer_temperature, 1, max_nozzle_temperature)
  /\ Within(m.bed_temperature, 0, max_bed_temperature)
  /\ Within(m.first_layer_bed_temperature, 0, max_bed_temperature)

Matches(m, id) ==
  /\ SameIdentity(m, SUPPORTED_PROFILES[id]) /\ NotAbrasive(m)
  /\ FitsVolume(m, SUPPORTED_PROFILES[id]) /\ TemperaturesFit(m)

\* check_both_printers
Candidates == {id \in ProfileIds : Matches(file.metadata, id)}

\* Mutant: a file that matches no printer is not the end of stage 4.
MatchProfilesSilently ==
  /\ pc = "profiles"
  /\ IF Cardinality(Candidates) = 1
       THEN /\ profile' = CHOOSE id \in Candidates : TRUE
            /\ pc' = "commands" /\ UNCHANGED <<stages, failed_stage>>
       ELSE /\ stages' = stages \o <<Stage(5, "PASS"), Stage(6, "FAIL")>>
            /\ failed_stage' = 6 /\ pc' = "return" /\ UNCHANGED profile
  /\ UNCHANGED <<file, on_disk, temp_dir>>

MatchProfiles ==
  /\ pc = "profiles"
  /\ IF Cardinality(Candidates) = 1
       THEN /\ profile' = CHOOSE id \in Candidates : TRUE
            /\ pc' = "commands" /\ UNCHANGED <<stages, failed_stage>>
       ELSE /\ stages' = stages \o
                 <<Stage(4, "NOT_CHECKED"), Stage(5, "PASS"), Stage(6, "FAIL")>>
            /\ failed_stage' = 6 /\ pc' = "return" /\ UNCHANGED profile
  /\ UNCHANGED <<file, on_disk, temp_dir>>

-----------------------------------------------------------------------------
(***************************************************************************)
(* Stage 4, validate_m862_cross_check.  A flag a command does not give is  *)
(* Absent.                                                                 *)
(***************************************************************************)
Absent == -1

\* A flag given by a command is among the metadata's, when they have any.
Agrees(flag, listed) == flag = Absent \/ listed = <<>> \/ flag \in ToSet(listed)

CommandsAgree(m, x) ==
  /\ x.m862_1 # <<>> /\ x.models # {} /\ x.levels /\ x.features # {}
  /\ m.model \in x.models
  /\ \A i \in DOMAIN x.m862_1 :
       /\ Agrees(x.m862_1[i].nozzle, m.nozzles)
       /\ Agrees(x.m862_1[i].abrasive, m.abrasive)
       /\ Agrees(x.m862_1[i].high_flow, m.high_flow)
  /\ required_features \subseteq x.features

CrossCheck ==
  /\ pc = "commands"
  /\ IF CommandsAgree(file.metadata, file.executable)
       THEN /\ stages' = stages \o <<Stage(4, "PASS"), Stage(5, "PASS"), Stage(6, "PASS")>>
            /\ pc' = "return" /\ UNCHANGED <<file, failed_stage, profile>>
       ELSE Fails(4)
  /\ UNCHANGED <<on_disk, temp_dir>>

\* The finally clause.
Return ==
  /\ pc = "return"
  /\ pc' = "done"
  /\ on_disk' = (on_disk /\ ~temp_dir)
  /\ UNCHANGED <<file, stages, failed_stage, profile, temp_dir>>

Next ==
  \/ CheckFormat \/ ParseText \/ ParseBinary \/ Convert \/ ParseConverted
  \/ ExtractMetadata \/ MatchProfiles \/ CrossCheck \/ Return

Spec == Init /\ [][Next]_vars

-----------------------------------------------------------------------------
(***************************************************************************)
(* Properties.                                                             *)
(***************************************************************************)
passed == pc = "done" /\ failed_stage = 0

TypeOK ==
  /\ pc \in {"format", "parse", "convert", "parse text", "metadata", "profiles", "commands",
             "return", "done"}
  /\ stages \in Seq([stage : 1 .. 6, status : {"PASS", "FAIL", "NOT_CHECKED"}])
  /\ failed_stage \in 0 .. 6 /\ profile \in ProfileIds \cup {"none"}
  /\ on_disk \in BOOLEAN /\ temp_dir \in BOOLEAN

\* The stages are reported in order without a gap; a failure is the last of them and
\* the one the result names, and without one all six have passed.
StagesTellTheVerdict ==
  /\ \A i \in DOMAIN stages : stages[i].stage = i
  /\ pc = "done" =>
       IF failed_stage = 0
         THEN Len(stages) = 6 /\ \A i \in 1 .. 6 : stages[i].status = "PASS"
         ELSE /\ Len(stages) = failed_stage
              /\ \A i \in 1 .. failed_stage :
                   stages[i].status = "FAIL" <=> i = failed_stage

\* No file is right for both printers: the branch for more than one match is dead.
OneProfile ==
  \A p, q \in ProfileIds :
    Matches(file.metadata, p) /\ Matches(file.metadata, q) => p = q

\* What a passed file's commands and objects ask for, the printer it was matched with has:
\* each check compares neighbours, file with bed, bed with printer, command with
\* metadata, metadata with profile.
PassedFitsThePrinter ==
  passed =>
    LET p == SUPPORTED_PROFILES[profile]
        x == file.executable
        box == file.metadata.objects
    IN /\ p.model \in x.models
       /\ \A i \in DOMAIN x.m862_1 : x.m862_1[i].nozzle \in ToSet(p.nozzles) \cup {Absent}
       /\ p.high_flow # <<>> =>
            \A i \in DOMAIN x.m862_1 : x.m862_1[i].high_flow \in ToSet(p.high_flow) \cup {Absent}
       /\ box # <<>> => box[3] - box[1] <= p.volume[1] /\ box[4] - box[2] <= p.volume[2]
=============================================================================
