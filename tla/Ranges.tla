-------------------------------- MODULE Ranges --------------------------------
(***************************************************************************)
(* Byte ranges: parseSingleRange (src/internal/api/ranges.go) and the part *)
(* of openChunks that cuts chunks to a range                               *)
(* (src/internal/object/service.go).                                       *)
(*                                                                         *)
(* A header is the pair of numbers around the dash; Nothing stands for a   *)
(* number that is left out, and Malformed for a header without exactly one *)
(* range of int64 numbers in bytes.                                        *)
(***************************************************************************)
EXTENDS Integers, Sequences

CONSTANTS Nothing, Malformed, Refused

ASSUME RangesAssumption ==
  /\ Nothing \notin Int
  /\ Nothing \notin [start : Int, end : Int] /\ Refused \notin [start : Int, end : Int]

ByteRange(start, end) == [start |-> start, end |-> end]

ParseSuffixPastStart(length, size) ==
  IF length <= 0 THEN Refused ELSE ByteRange(size - length, size - 1)

ParseSuffix(length, size) ==
  IF length <= 0 THEN Refused
  ELSE ByteRange(IF size - length < 0 THEN 0 ELSE size - length, size - 1)

ParseFromPastEnd(first, last, size) ==
  IF first < 0 \/ first >= size \/ (last # Nothing /\ last < first) THEN Refused
  ELSE ByteRange(first, IF last = Nothing THEN size - 1 ELSE last)

ParseFrom(first, last, size) ==
  IF first < 0 \/ first >= size \/ (last # Nothing /\ last < first) THEN Refused
  ELSE ByteRange(first, IF last = Nothing \/ last >= size THEN size - 1 ELSE last)

ParseSingleRange(header, size) ==
  IF header = Malformed \/ size <= 0 THEN Refused
  ELSE IF header.first # Nothing THEN ParseFrom(header.first, header.last, size)
  ELSE IF header.last # Nothing THEN ParseSuffix(header.last, size)
  ELSE Refused

-----------------------------------------------------------------------------
(* A manifest is a sequence of chunks with an offset and a size. *)

LastByte(chunk) == chunk.offset + chunk.size - 1

Overlaps(chunk, range) ==
  chunk.size > 0 /\ LastByte(chunk) >= range.start /\ chunk.offset <= range.end

(* What is read of a chunk, as positions in the object. *)
Piece(chunk, range) ==
  <<IF range.start > chunk.offset THEN range.start ELSE chunk.offset,
    IF range.end < LastByte(chunk) THEN range.end ELSE LastByte(chunk)>>

(* The body of a ranged answer: the pieces in the order of the manifest. *)
OpenChunks(chunks, range) ==
  LET upTo[i \in 0 .. Len(chunks)] ==
        IF i = 0 THEN <<>>
        ELSE IF Overlaps(chunks[i], range) THEN Append(upTo[i - 1], Piece(chunks[i], range))
        ELSE upTo[i - 1]
  IN  upTo[Len(chunks)]

(* The manifest of chunks of these sizes, one after the other. *)
Contiguous(sizes) ==
  LET offset[i \in 1 .. Len(sizes)] == IF i = 1 THEN 0 ELSE offset[i - 1] + sizes[i - 1]
  IN  [i \in 1 .. Len(sizes) |-> [offset |-> offset[i], size |-> sizes[i]]]

Size(chunks) == IF chunks = <<>> THEN 0 ELSE LastByte(chunks[Len(chunks)]) + 1

=============================================================================
