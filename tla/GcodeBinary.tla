----------------------------- MODULE GcodeBinary -----------------------------
(***************************************************************************)
(* parse_binary_gcode: the walk over the blocks of a .bgcode file, their   *)
(* checksums, and the decoding of their metadata (gcode_validator.py).     *)
(*                                                                         *)
(* A file is a header of ten bytes and blocks one after another, and may   *)
(* be cut off anywhere: data.length counts the bytes there are.  What a    *)
(* block holds is left out; whether its checksum agrees and its metadata   *)
(* decode is part of the block.                                            *)
(***************************************************************************)
EXTENDS Integers, Sequences

CONSTANT Files     \* the files that are read

Metadata == {"file metadata", "slicer metadata", "printer metadata", "print metadata"}
BlockTypes == Metadata \cup {"gcode", "thumbnail"}

Blocks ==
  [type : BlockTypes \cup {"unknown"}, compression : 0 .. 4, size : Nat,
   crc_ok : BOOLEAN, decodes : BOOLEAN]

VARIABLES data, offset, blocks, verdict

vars == <<data, offset, blocks, verdict>>

HeaderSize == 10

Init ==
  /\ data \in Files /\ offset = 0 /\ blocks = 0
  /\ verdict = "reading"

Header ==
  /\ verdict = "reading" /\ offset = 0
  /\ verdict' = IF data.length < HeaderSize THEN "header truncated"
                ELSE IF data.header # "ok" THEN data.header ELSE verdict
  /\ offset' = HeaderSize
  /\ UNCHANGED <<data, blocks>>

-----------------------------------------------------------------------------
ParamSize(b) == IF b.type = "thumbnail" THEN 6 ELSE 2
SizeField(b) == IF b.compression = 0 THEN 0 ELSE 4
Checksum(f) == IF f.checksums THEN 4 ELSE 0

Block == data.blocks[blocks + 1]
Payload == offset + 8 + SizeField(Block) + ParamSize(Block) + Block.size

\* What stops the walk at this block, "reading" if nothing does.
Problem ==
  CASE offset + 8 > data.length -> "block header truncated"
    [] Block.type \notin BlockTypes -> "type"
    [] Block.compression \notin 0 .. 3 -> "compression"
    [] offset + 8 + SizeField(Block) > data.length -> "size truncated"
    [] Payload > data.length -> "payload truncated"
    [] Payload + Checksum(data) > data.length -> "checksum missing"
    [] OTHER -> "reading"

TakesBlock ==
  /\ verdict = "reading" /\ offset > 0 /\ offset < data.length
  /\ verdict' = Problem
  /\ IF Problem = "reading"
       THEN offset' = Payload + Checksum(data) /\ blocks' = blocks + 1
       ELSE UNCHANGED <<offset, blocks>>
  /\ UNCHANGED data

-----------------------------------------------------------------------------
Taken == {data.blocks[i] : i \in 1 .. blocks}

\* _decode_metadata_block: compression 2 and 3 cannot be decoded here.
Decodes(b) == b.compression \in {0, 1} /\ b.decodes

\* All the blocks are walked before a checksum is judged, and all the checksums
\* before anything is decoded.
Ends ==
  /\ verdict = "reading" /\ offset >= data.length /\ offset > 0
  /\ verdict' = CASE blocks = 0 -> "no blocks"
                  [] \E b \in Taken : data.checksums /\ ~b.crc_ok -> "crc"
                  [] \E b \in Taken : b.type \in Metadata /\ ~Decodes(b) -> "metadata"
                  [] \A b \in Taken : b.type # "gcode" -> "no gcode"
                  [] OTHER -> "accepted"
  /\ UNCHANGED <<data, offset, blocks>>

Next == Header \/ TakesBlock \/ Ends

Spec == Init /\ [][Next]_vars

-----------------------------------------------------------------------------
(***************************************************************************)
(* Properties.                                                             *)
(***************************************************************************)

\* The file is blocks of these kinds, and the walk is at one of them.
TypeOK ==
  /\ \A i \in DOMAIN data.blocks : data.blocks[i] \in Blocks
  /\ blocks \in 0 .. Len(data.blocks)

\* The walk never looks past the data, however it is cut off.
StaysInside == offset <= data.length \/ (blocks = 0 /\ verdict # "accepted")

\* Where the blocks of a file end, and the header before them.
EndsIn(f) ==
  LET end[k \in 0 .. Len(f.blocks)] ==
        IF k = 0 THEN HeaderSize
        ELSE LET b == f.blocks[k]
             IN end[k - 1] + 8 + SizeField(b) + ParamSize(b) + b.size + Checksum(f)
  IN end

\* A file is what its blocks are, or less when it is cut off.
BinaryAssumption ==
  \A f \in Files :
    /\ f.blocks \in Seq(Blocks) /\ f.checksums \in BOOLEAN
    /\ f.header \notin {"reading", "accepted"}
    /\ f.length \in 0 .. EndsIn(f)[Len(f.blocks)]

Good(b) ==
  /\ b.type \in BlockTypes /\ b.compression <= 3
  /\ data.checksums => b.crc_ok
  /\ b.type \in Metadata => b.compression <= 1 /\ b.decodes

\* The data are the header and k whole, good blocks, one of them executable.
WholeBlocks(k) ==
  /\ data.length = EndsIn(data)[k]
  /\ \A i \in 1 .. k : Good(data.blocks[i])
  /\ \E i \in 1 .. k : data.blocks[i].type = "gcode"

\* The walk accepts exactly the files that are whole blocks to their last byte: one cut
\* off inside a block, or with one bad block anywhere, is refused.
AcceptedIsWhole ==
  verdict # "reading" =>
    (verdict = "accepted" <=>
       data.header = "ok" /\ \E k \in 1 .. Len(data.blocks) : WholeBlocks(k))

\* The reader of .bgcode files accepts exactly the well-formed ones.
ParsersAreExact == TypeOK /\ StaysInside /\ AcceptedIsWhole
=============================================================================
