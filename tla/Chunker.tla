------------------------------- MODULE Chunker -------------------------------
(***************************************************************************)
(* The splitter that turns an upload into chunks                           *)
(* (src/internal/chunker/chunker.go): Stream reads a prefix to see whether *)
(* the body is small, puts it back in front of the reader, and lets one of *)
(* two engines cut the rest.  Bytes are numbers of a small alphabet; the   *)
(* reader may return any part of what is asked for, with or before EOF.    *)
(***************************************************************************)
EXTENDS Integers, Sequences, SequencesExt

CONSTANTS
  Inputs,      \* bodies, sequences of bytes
  OptionSets,  \* what a caller passes to New
  Defaults,    \* DefaultMinSize, ..., as a record like those of OptionSets
  Gear,        \* gearTable, a number for each byte
  HashSize,    \* 2^64: p.hash wraps around
  BufferSize   \* bytes a Read may return, 32 KiB

ASSUME InputsAssumption == \A input \in Inputs : input \in Seq(DOMAIN Gear)
ASSUME SizesAssumption ==
  /\ HashSize \in Nat \ {0} /\ BufferSize \in Nat \ {0}
  /\ {Defaults.MinSize, Defaults.AvgSize, Defaults.MaxSize} \subseteq Nat \ {0}
  /\ Defaults.SmallFileThreshold \in Nat
  /\ \A o \in OptionSets : {o.MinSize, o.AvgSize, o.MaxSize, o.SmallFileThreshold} \subseteq Int

VARIABLES
  splitter,  \* the Splitter
  input,     \* the body
  read,      \* bytes the reader has given out
  phase,     \* "prefix", "builtin", "fastcdc", "flush", "done" or "failed"
  prefix,    \* what readSmallPrefix has read and MultiReader has left
  buffer,    \* read and not yet seen by write
  current,   \* the chunk under construction
  hash,      \* its gear hash
  offset,    \* where it begins
  chunks     \* what emit has been given

streamVars == <<splitter, input, read, phase, prefix, buffer, current, hash, offset, chunks>>

-----------------------------------------------------------------------------
(* New: sizes that are not positive are replaced, then raised to an order. *)
OrDefault(size, default) == IF size <= 0 THEN default ELSE size

Larger(x, y) == IF x > y THEN x ELSE y

New(options) ==
  LET min == OrDefault(options.MinSize, Defaults.MinSize)
      avg == Larger(min, OrDefault(options.AvgSize, Defaults.AvgSize))
      max == Larger(avg, OrDefault(options.MaxSize, Defaults.MaxSize))
  IN  [MinSize |-> min, AvgSize |-> avg, MaxSize |-> max,
       SmallFileThreshold |-> IF options.SmallFileThreshold < 0
                              THEN Defaults.SmallFileThreshold ELSE options.SmallFileThreshold,
       Engine |-> IF options.Engine = "builtin" THEN "builtin" ELSE "fastcdc"]

(* hash & mask, where mask is nextPowerOfTwo(avg) - 1. *)
nextPowerOfTwo(n) == CHOOSE p \in {2 ^ i : i \in 0 .. n} : p >= n /\ \A i \in 0 .. n : 2 ^ i >= n => p <= 2 ^ i

Masked(h) == h % nextPowerOfTwo(splitter.AvgSize)

-----------------------------------------------------------------------------
StreamInit ==
  /\ splitter \in {New(options) : options \in OptionSets}
  /\ input \in Inputs
  /\ phase = IF splitter.SmallFileThreshold > 0 THEN "prefix" ELSE splitter.Engine
  /\ read = 0 /\ hash = 0 /\ offset = 0
  /\ prefix = <<>> /\ buffer = <<>> /\ current = <<>> /\ chunks = <<>>

Left == SubSeq(input, read + 1, Len(input))

(* The answers of a Read: some bytes, and whether EOF comes with them. *)
Answers ==
  {answer \in [bytes : {SubSeq(Left, 1, n) : n \in 0 .. Len(Left)}, eof : BOOLEAN] :
     /\ Len(answer.bytes) <= BufferSize
     /\ answer.bytes = <<>> => Left = <<>>
     /\ answer.eof => Len(answer.bytes) = Len(Left)
     /\ answer.bytes = <<>> => answer.eof}

Emit(at, data) == chunks' = Append(chunks, [Offset |-> at, Data |-> data])

(* readSmallPrefix: until the threshold is exceeded or the body ends. *)
ReadPrefix ==
  /\ phase = "prefix"
  /\ \E answer \in Answers :
       LET all == prefix \o answer.bytes
       IN  /\ read' = read + Len(answer.bytes)
           /\ prefix' = all
           /\ \/ /\ Len(all) > splitter.SmallFileThreshold
                 /\ phase' = splitter.Engine
                 /\ UNCHANGED chunks
              \/ /\ Len(all) <= splitter.SmallFileThreshold /\ answer.eof
                 /\ phase' = "done"
                 /\ Emit(0, all)
              \/ /\ Len(all) <= splitter.SmallFileThreshold /\ ~answer.eof
                 /\ UNCHANGED <<phase, chunks>>
  /\ UNCHANGED <<splitter, input, buffer, current, hash, offset>>

(* streamBuiltin: a Read of the MultiReader, first from the prefix. *)
ReadFromReaderOnly ==
  /\ phase = "builtin" /\ buffer = <<>>
  /\ \E answer \in Answers :
       /\ read' = read + Len(answer.bytes)
       /\ buffer' = answer.bytes
       /\ phase' = IF answer.eof THEN "flush" ELSE phase
  /\ UNCHANGED <<splitter, input, prefix, current, hash, offset, chunks>>

ReadBuffer ==
  /\ phase = "builtin" /\ buffer = <<>>
  /\ \/ /\ prefix # <<>>
        /\ \E n \in 1 .. Len(prefix) :
             /\ n <= BufferSize
             /\ buffer' = SubSeq(prefix, 1, n)
             /\ prefix' = SubSeq(prefix, n + 1, Len(prefix))
        /\ UNCHANGED <<read, phase>>
     \/ /\ prefix = <<>>
        /\ \E answer \in Answers :
             /\ read' = read + Len(answer.bytes)
             /\ buffer' = answer.bytes
             /\ phase' = IF answer.eof THEN "flush" ELSE phase
        /\ UNCHANGED prefix
  /\ UNCHANGED <<splitter, input, current, hash, offset, chunks>>

(* write, one byte; emitCurrent begins a new chunk. *)
EmitKeepingHash(data) ==
  /\ Emit(offset, data)
  /\ offset' = offset + Len(data)
  /\ current' = <<>>
  /\ hash' = (2 * hash + Gear[Head(buffer)]) % HashSize

EmitCurrent(data) ==
  /\ Emit(offset, data)
  /\ offset' = offset + Len(data)
  /\ current' = <<>>
  /\ hash' = 0

WriteByte ==
  LET data == Append(current, Head(buffer))
      rolled == (2 * hash + Gear[Head(buffer)]) % HashSize
  IN  /\ phase \in {"builtin", "flush"} /\ buffer # <<>>
      /\ buffer' = Tail(buffer)
      /\ \/ /\ Len(data) >= splitter.MinSize
            /\ Len(data) >= splitter.MaxSize \/ Masked(rolled) = 0
            /\ EmitCurrent(data)
         \/ /\ \/ Len(data) < splitter.MinSize
               \/ Len(data) < splitter.MaxSize /\ Masked(rolled) # 0
            /\ current' = data
            /\ hash' = rolled
            /\ UNCHANGED <<offset, chunks>>
      /\ UNCHANGED <<splitter, input, read, phase, prefix>>

(* flush, after EOF: the rest, or an empty chunk for an empty body. *)
Flush ==
  /\ phase = "flush" /\ buffer = <<>>
  /\ IF current = <<>> /\ chunks # <<>> THEN UNCHANGED chunks ELSE Emit(offset, current)
  /\ phase' = "done"
  /\ UNCHANGED <<splitter, input, read, prefix, buffer, current, hash, offset>>

(* streamFastCDC: the library cuts where it likes between the minimum and  *)
(* the maximum, and anywhere at the end.                                   *)
NextFastCDC ==
  LET left == prefix \o Left
  IN  /\ phase = "fastcdc" /\ left # <<>>
      /\ \E n \in 1 .. Len(left) :
           /\ n <= splitter.MaxSize
           /\ n >= splitter.MinSize \/ n = Len(left)
           /\ Emit(offset, SubSeq(left, 1, n))
           /\ offset' = offset + n
           /\ prefix' = SubSeq(prefix, n + 1, Len(prefix))
           /\ read' = read + Larger(0, n - Len(prefix))
      /\ UNCHANGED <<splitter, input, phase, buffer, current, hash>>

EndFastCDC ==
  /\ phase = "fastcdc" /\ prefix \o Left = <<>>
  /\ IF chunks = <<>> THEN Emit(0, <<>>) ELSE UNCHANGED chunks
  /\ phase' = "done"
  /\ UNCHANGED <<splitter, input, read, prefix, buffer, current, hash, offset>>

(* The context is cancelled, the reader fails, or emit returns an error:   *)
(* Stream returns it.                                                      *)
Fail ==
  /\ phase \notin {"done", "failed"}
  /\ phase' = "failed"
  /\ UNCHANGED <<splitter, input, read, prefix, buffer, current, hash, offset, chunks>>

StreamNext ==
  \/ ReadPrefix \/ ReadBuffer \/ WriteByte \/ Flush
  \/ NextFastCDC \/ EndFastCDC \/ Fail

StreamSpec == StreamInit /\ [][StreamNext]_streamVars

-----------------------------------------------------------------------------
(* Properties. *)

Small == Len(input) <= splitter.SmallFileThreshold

Content == FlattenSeq([i \in DOMAIN chunks |-> chunks[i].Data])

\* However the reader hands out the body, and wherever the splitter stops,
\* the chunks are a piece of the body from its start, each at its offset; a
\* finished stream has given all of it, and at least one chunk.  A body up to
\* the threshold is one chunk.  A body above it is cut into chunks between the
\* minimum and the maximum, the last one excepted, and none of them is empty.
\* (docs/chunking.md:16: "the same min, average, max, and small-file bypass
\* semantics".)
ChunksAreTheBody ==
  /\ IsPrefix(Content, input)
  /\ \A i \in DOMAIN chunks :
       SubSeq(input, chunks[i].Offset + 1, chunks[i].Offset + Len(chunks[i].Data))
         = chunks[i].Data
  /\ phase = "done" => Content = input /\ chunks # <<>>
  /\ Small /\ splitter.SmallFileThreshold > 0 => Len(chunks) <= 1
  /\ ~Small => \A i \in DOMAIN chunks :
       LET size == Len(chunks[i].Data)
       IN  /\ size <= splitter.MaxSize
           /\ size < splitter.MinSize => i = Len(chunks) /\ Content = input
           /\ size = 0 => input = <<>>

\* Where the built-in engine cuts depends on the bytes of the chunk alone:
\* every chunk ends at the first length, from the minimum on, at which its
\* hash has the mask's bits clear or the maximum is reached.  So a body gives
\* the same chunks however it arrives and whatever came before it, which is
\* what deduplication lives on.
HashOf(data) ==
  LET upTo[i \in 0 .. Len(data)] == IF i = 0 THEN 0 ELSE (2 * upTo[i - 1] + Gear[data[i]]) % HashSize
  IN  upTo[Len(data)]

IsCut(data) == Len(data) >= splitter.MaxSize \/ Masked(HashOf(data)) = 0

CutsDependOnContent ==
  ~Small /\ splitter.Engine = "builtin" => \A i \in DOMAIN chunks :
    LET data == chunks[i].Data
    IN  /\ \A n \in splitter.MinSize .. Len(data) - 1 : ~IsCut(SubSeq(data, 1, n))
        /\ i < Len(chunks) => IsCut(data)

=============================================================================
