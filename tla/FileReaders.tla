------------------------------ MODULE FileReaders ------------------------------
(***************************************************************************)
(* The readers of an uploaded file, side by side: the backend's parsers of *)
(* text and of blocks, its six stages, and the mock's reading of the       *)
(* commands.  A behaviour is that of one reader, so the states add up.     *)
(***************************************************************************)
EXTENDS MockCommands

CONSTANTS
    Texts, TailLength,  \* text files, and the settings that are repeated at the end
    BinaryFiles,        \* .bgcode files
    Uploads             \* what is validated

VARIABLES
    reader,     \* whose turn it is
    text, pos, begins, ends, open, complete, commands, m862, history, text_verdict,
    data, offset, blocks, block_verdict,
    upload, pc, stages, failed_stage, profile, on_disk, temp_dir

Text == INSTANCE GcodeText WITH
    Files <- Texts, file <- text, verdict <- text_verdict
Block == INSTANCE GcodeBinary WITH Files <- BinaryFiles, verdict <- block_verdict
Stages == INSTANCE UploadValidation WITH Files <- Uploads, file <- upload

\* What the readers assume of the files.
ASSUME ReadersAssumption ==
    Stages!UploadAssumption /\ Text!TextAssumption /\ Block!BinaryAssumption

NoText ==
    /\ text = "" /\ pos = "" /\ begins = "" /\ ends = "" /\ open = "" /\ complete = ""
    /\ commands = "" /\ m862 = "" /\ history = "" /\ text_verdict = ""
NoBlocks ==
    data = "" /\ offset = "" /\ blocks = "" /\ block_verdict = ""
NoStages ==
    /\ upload = "" /\ pc = "" /\ stages = "" /\ failed_stage = "" /\ profile = ""
    /\ on_disk = "" /\ temp_dir = ""

ReadersInit ==
    \/ /\ reader = "text" /\ Text!Init /\ NoBlocks /\ NoStages /\ Init
    \/ /\ reader = "blocks" /\ NoText /\ Block!Init /\ NoStages /\ Init
    \/ /\ reader = "stages" /\ NoText /\ NoBlocks /\ Stages!Init /\ Init
    \/ /\ reader = "commands" /\ NoText /\ NoBlocks /\ NoStages /\ Init

textVars == <<text, pos, begins, ends, open, complete, commands, m862, history, text_verdict>>
blockVars == <<data, offset, blocks, block_verdict>>
stageVars == <<upload, pc, stages, failed_stage, profile, on_disk, temp_dir>>

readersVars == <<reader, textVars, blockVars, stageVars, vars>>

ReadsText == reader = "text" /\ Text!Next /\ UNCHANGED <<reader, blockVars, stageVars, vars>>
ReadsBlocks == reader = "blocks" /\ Block!Next /\ UNCHANGED <<reader, textVars, stageVars, vars>>
Validates == reader = "stages" /\ Stages!Next /\ UNCHANGED <<reader, textVars, blockVars, vars>>
ReadsCommands == reader = "commands" /\ Next /\ UNCHANGED <<reader, textVars, blockVars, stageVars>>

ReadersNext == ReadsText \/ ReadsBlocks \/ Validates \/ ReadsCommands

ReadersSpec == ReadersInit /\ [][ReadersNext]_readersVars

--------------------------------------------------------------------------------
(* What each reader promises, while it is the one that reads *)

\* The parsers accept exactly the files that are well formed as a whole, a line or a block
\* at a time though they read them: of a text the markers, the end and the settings it
\* repeats, of a .bgcode file whole blocks to its last byte, and they never read past it.
ParsersAreExact ==
    /\ reader = "text" => Text!ParsersAreExact
    /\ reader = "blocks" => Block!ParsersAreExact

\* The six stages are reported in order, without a gap, up to the one that failed.
StagesTellTheVerdict == reader = "stages" => Stages!TypeOK /\ Stages!StagesTellTheVerdict

\* What a passed file asks for, the printer it was matched with has; and no file is right
\* for both printers.
PassedFitsThePrinter ==
    reader = "stages" => Stages!PassedFitsThePrinter /\ Stages!OneProfile
==============================================================================
