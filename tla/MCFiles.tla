------------------------------- MODULE MCFiles -------------------------------
(***************************************************************************)
(* The files the readers of FileReaders are given: texts and blocks with   *)
(* everything the parsers tell apart, and uploads that are wrong in one or *)
(* two ways.  Beside the readers, FileStore keeps the files that passed: a *)
(* behaviour is a reader's or the store's.                                 *)
(***************************************************************************)
EXTENDS FileReaders, MCFileStore, Sequences, SequencesExt

Unsaid == -1

BeginLine == [marker |-> "begin"]
EndLine == [marker |-> "end"]
CommandLine(c) == [command |-> c]

\* Any six lines of these.
StructureFiles ==
  BoundedSeq({BeginLine, EndLine, CommandLine("M104 S0"), CommandLine("M140 S0"), CommandLine("M862.3"),
              [other |-> "blank"]}, 6)

\* A well-formed file with the lines in between.
Around(ls) ==
  <<BeginLine>> \o ls \o <<EndLine, CommandLine("M104 S0"), CommandLine("M140 S0")>>

SomeSettings ==
  [setting : [key : {"model"}, text : {"A", "B", ""}]
               \cup [key : {"nozzle"}, text : {"0.4", "0.40", "0.6", "wide", ""}]]

\* Up to four settings, in any order.
SettingFiles == {Around(ls) : ls \in BoundedSeq(SomeSettings, 4)}

TextFiles == StructureFiles \cup SettingFiles

SomeBlocks ==
  [type : {"printer metadata", "gcode", "thumbnail"}, compression : {0, 1, 2},
   size : {0, 3}, crc_ok : BOOLEAN, decodes : {TRUE}]
  \cup [type : {"printer metadata"}, compression : {1}, size : {3}, crc_ok : {TRUE},
        decodes : {FALSE}]
  \cup [type : {"unknown", "gcode"}, compression : {0, 4}, size : {0}, crc_ok : {TRUE},
        decodes : {TRUE}]

\* The longest block takes 8 + 4 + 6 + 3 + 4 bytes.
Longest == 10 + 2 * 25

LengthOf(f) ==
  LET Size(b) == 8 + (IF b.compression = 0 THEN 0 ELSE 4)
                   + (IF b.type = "thumbnail" THEN 6 ELSE 2) + b.size
                   + (IF f.checksums THEN 4 ELSE 0)
  IN FoldSeq(LAMBDA b, n : n + Size(b), 10, f.blocks)

CutFiles ==
  {f \in [header : {"ok"}, checksums : BOOLEAN,
          blocks : BoundedSeq(SomeBlocks, 2), length : 0 .. Longest] :
     f.length <= LengthOf(f)}
  \cup [header : {"magic", "version", "checksum"}, checksums : {TRUE}, blocks : {<<>>},
        length : {10}]
CoreMetadata ==
  [model |-> "COREONE", variant |-> "HF0.4", keywords |-> {"CORE One", "HF0.4", "0.4"},
   nozzles |-> <<40>>, high_flow |-> <<1>>, abrasive |-> <<0>>, bed |-> <<0, 0, 250, 220>>,
   height |-> <<270>>, layer_z |-> <<30>>, objects |-> <<10, 10, 240, 210>>,
   temperature |-> <<215>>, first_layer_temperature |-> <<220>>,
   bed_temperature |-> <<60>>, first_layer_bed_temperature |-> <<0>>]

XLMetadata ==
  [CoreMetadata EXCEPT
     !.model = "XL5IS", !.variant = "0.4", !.keywords = {"XL", "5T", "Input Shaper", "0.4"},
     !.nozzles = <<40, 40, 40, 40, 40>>, !.high_flow = <<>>, !.bed = <<0, 0, 360, 360>>]

Executable(m) ==
  [m862_1 |-> <<[nozzle |-> 40, abrasive |-> 0, high_flow |-> Unsaid]>>, models |-> {m.model},
   levels |-> TRUE, features |-> {"input shaper"}]

\* What else each field of the metadata may say.
Other ==
  [model |-> {"COREONE", "XL5IS", "MK4"}, variant |-> {"HF0.4", "0.4"},
   keywords |-> {{}, {"CORE One", "HF0.4", "0.4", "XL", "5T", "Input Shaper"}},
   nozzles |-> {<<>>, <<60>>, <<40>>, <<40, 40, 40, 40, 40>>}, high_flow |-> {<<>>, <<0>>, <<1>>},
   abrasive |-> {<<>>, <<1>>, <<0, 1>>},
   bed |-> {<<>>, <<-10, 0, 250, 220>>, <<100, 0, 350, 220>>, <<0, 0, 360, 360>>},
   height |-> {<<>>, <<271>>, <<270, 270>>}, layer_z |-> {<<>>, <<270>>, <<271>>},
   objects |-> {<<>>, <<-5, 10, 240, 210>>, <<100, 10, 350, 210>>, <<-5, 10, 250, 210>>},
   temperature |-> {<<>>, <<0>>, <<290>>, <<215, 291>>}, first_layer_temperature |-> {<<>>, <<-1>>},
   bed_temperature |-> {<<>>, <<0>>, <<121>>}, first_layer_bed_temperature |-> {<<-1>>, <<120>>}]

Varied(m) ==
  UNION {{[m EXCEPT ![f] = u, ![g] = v] : u \in Other[f], v \in Other[g]} :
           f \in DOMAIN Other, g \in DOMAIN Other}

UploadOf(ext, m, x) ==
  [size |-> 9, ext |-> ext, magic |-> ext = ".bgcode", nul |-> FALSE, parses |-> TRUE,
   converter |-> "ok", text_parses |-> TRUE, complete |-> TRUE, coherent |-> TRUE,
   metadata |-> m, executable |-> x]

\* Every way for the bytes to be wrong, with good metadata.
BadBytes ==
  [size : {0, 9}, ext : {".gcode", ".bgcode", ".stl"}, magic : BOOLEAN, nul : BOOLEAN,
   parses : BOOLEAN, converter : {"ok", "missing", "fails", "cannot copy"},
   text_parses : BOOLEAN, complete : BOOLEAN, coherent : BOOLEAN,
   metadata : {CoreMetadata}, executable : {Executable(CoreMetadata)}]

\* Metadata that differ in up to two fields.
BadMetadata ==
  UNION {{UploadOf(".gcode", v, Executable(m)) : v \in Varied(m)} : m \in {CoreMetadata, XLMetadata}}

\* Commands of every kind, with metadata that differ in one field they are compared with.
Commands ==
  [m862_1 : {<<>>} \cup
            {<<[nozzle |-> n, abrasive |-> a, high_flow |-> h]>> :
               n \in {Unsaid, 40, 60}, a \in {Unsaid, 0, 1}, h \in {Unsaid, 0, 1}},
   models : {{}, {"COREONE"}, {"XL5IS", "COREONE"}}, levels : BOOLEAN,
   features : {{}, {"phase stepping"}, {"input shaper", "phase stepping"}}]

BadCommands ==
  {UploadOf(".bgcode", v, x) :
     v \in UNION {{[m EXCEPT ![f] = u] : u \in Other[f]} :
                    m \in {CoreMetadata, XLMetadata}, f \in {"nozzles", "high_flow", "abrasive"}},
     x \in Commands}

AllFiles == BadBytes \cup BadMetadata \cup BadCommands

\* Coordinates on the bed, at its edge, and off it on either side.
MCSteps == {-1, 1, 2, 3}

--------------------------------------------------------------------------------
NobodyReads == reader = "nobody" /\ NoText /\ NoBlocks /\ NoStages /\ Init

MCInit == (ReadersInit \/ NobodyReads) /\ StoreInit

Reads == ReadersNext /\ UNCHANGED storeVars
Stores == reader = "nobody" /\ StoreNext /\ UNCHANGED readersVars

MCSpec == MCInit /\ [][Reads \/ Stores]_<<readersVars, storeVars>>
==============================================================================
