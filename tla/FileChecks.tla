------------------------------ MODULE FileChecks ------------------------------
(***************************************************************************)
(* Checksums of the chunks of a file (gba/sdk/src/crc32_chunks.c,           *)
(* file_crc32.c): taken while the file is produced, or by reading it, and   *)
(* compared with those of another file or of the same one as it came to be. *)
(* A read may give fewer bytes than asked for, and other bytes.             *)
(***************************************************************************)
EXTENDS Integers, Sequences, SequencesExt

-----------------------------------------------------------------------------
(* common/chislink_proto/src/crc32.c.  A word, and a byte, is the set of    *)
(* its bits that are 1.                                                     *)

CrcXor(v, w) == (v \ w) \cup (w \ v)
CrcShifted(v, n) == {b - n : b \in {x \in v : x >= n}}
LowByte == 0 .. 7

\* CL_CRC32_POLYNOMIAL, 0xedb88320
CRC32_POLYNOMIAL == {31, 30, 29, 27, 26, 24, 23, 21, 20, 19, 15, 9, 8, 5}
DivideBit(v) == CrcXor(CrcShifted(v, 1), IF 0 \in v THEN CRC32_POLYNOMIAL ELSE {})

\* crc32_prepare_table
g_crc32_table ==
  [low \in SUBSET LowByte |->
     LET after[bits \in 0 .. 8] == IF bits = 0 THEN low ELSE DivideBit(after[bits - 1])
     IN  after[8]]

CrcInit == 0 .. 31
CrcByte(state, byte) ==
  CrcXor(g_crc32_table[CrcXor(state, byte) \cap LowByte], CrcShifted(state, 8))
CrcUpdate(state, bytes) == FoldLeft(CrcByte, state, bytes)
CrcFinalize(state) == (0 .. 31) \ state

\* The table gives what dividing bit by bit gives, and the ASCII digits 1 to 9 have the check
\* value of this CRC, cbf43926.
BitByBit(state, byte) ==
  LET after[bits \in 0 .. 8] ==
        IF bits = 0 THEN CrcXor(state, byte) ELSE DivideBit(after[bits - 1])
  IN  after[8]
Digit(d) == {4, 5} \cup {b \in 0 .. 3 : (d \div 2 ^ b) % 2 = 1}
ASSUME CrcAssumption ==
  /\ \A byte \in SUBSET LowByte, state \in {{}, {0, 31}, {3, 8, 17}, CrcInit} :
       CrcByte(state, byte) = BitByBit(state, byte)
  /\ CrcFinalize(CrcUpdate(CrcInit, [d \in 1 .. 9 |-> Digit(d)])) =
       {31, 30, 27, 25, 24, 23, 22, 21, 20, 18, 13, 12, 11, 8, 5, 2, 1}

-----------------------------------------------------------------------------
(* The files and their chunks.                                              *)

CONSTANTS
  FileBytes,    \* bytes of the files, as sets of bits
  StrayByte,      \* a byte no file has
  MaxFile,      \* bound on the bytes of a file
  ChunkSizes, CheckBuffers, Capacities

ASSUME CheckAssumption ==
  /\ FileBytes \subseteq SUBSET LowByte /\ StrayByte \in SUBSET LowByte \ FileBytes
  /\ MaxFile \in Nat
  /\ ChunkSizes \cup CheckBuffers \cup Capacities \subseteq Nat \ {0}

VARIABLES
  ordered,  \* kind, length, chunk_size, buffer_size, capacity, transform; fixed
  files,    \* bytes of the source, or what was produced, and of the target
  chunks,   \* cl_crc32_chunks_t
  stage,    \* produce, open, read, next or closed
  side,     \* the file that is read
  again,    \* its chunk is read a second time
  pos,      \* positions of both files
  sum,      \* bytes of the chunk read, and their state
  outcome,  \* cl_file_crc32_result_t, and what is returned
  misread   \* some read gave other bytes than the file has

checkVars == <<ordered, files, chunks, stage, side, again, pos, sum, outcome, misread>>

Smaller(a, b) == IF a < b THEN a ELSE b
FileOf(n) == UNION {[1 .. k -> FileBytes] : k \in 0 .. n}
\* source_transform: one byte changes, and it is by its offset that it is known.
Transformed(offset, bytes) ==
  [i \in 1 .. Len(bytes) |->
     IF ordered.transform /\ offset + i = 2 THEN CrcXor(bytes[i], {0}) ELSE bytes[i]]

-----------------------------------------------------------------------------
(* cl_crc32_chunks_init, _update and _finish                                *)

ChunksInit(size, capacity) ==
  [values |-> <<>>, capacity |-> capacity, chunk_size |-> size, chunk_bytes |-> 0,
   total_bytes |-> 0, current |-> CrcInit, refused |-> FALSE]

FinishCurrent(c) ==
  IF Len(c.values) >= c.capacity THEN [c EXCEPT !.refused = TRUE]
  ELSE [c EXCEPT !.values = Append(@, CrcFinalize(c.current)), !.chunk_bytes = 0,
                 !.current = CrcInit]

Full(c) == c.chunk_bytes = c.chunk_size
\* The next byte, unless the call has failed or there is no room for it.
UpdateByte(c, byte) ==
  IF c.refused THEN c
  ELSE IF Full(c) THEN FinishCurrent(c)
  ELSE LET taken == [c EXCEPT !.current = CrcByte(@, byte), !.chunk_bytes = @ + 1,
                              !.total_bytes = @ + 1]
       IN  IF Full(taken) THEN FinishCurrent(taken) ELSE taken
\* The mutant begins a chunk with each call.
UpdateAligned(c, bytes) ==
  FoldLeft(UpdateByte, [c EXCEPT !.refused = FALSE, !.current = CrcInit], bytes)
Update(c, bytes) == FoldLeft(UpdateByte, [c EXCEPT !.refused = FALSE], bytes)

ChunksFinish(c) == IF c.chunk_bytes # 0 THEN FinishCurrent([c EXCEPT !.refused = FALSE]) ELSE c

-----------------------------------------------------------------------------
CheckKinds == {"calculate", "range", "whole", "chunks"}

Orders ==
  {o \in [kind : CheckKinds, length : 1 .. MaxFile, chunk_size : ChunkSizes,
          buffer_size : CheckBuffers, capacity : Capacities, transform : BOOLEAN] :
     /\ o.transform => o.kind \in {"range", "whole"}
     /\ o.buffer_size <= o.chunk_size
     /\ o.length > 1 => o.kind \in {"calculate", "range"}
     /\ \A c \in Capacities : o.capacity > c => o.kind \in {"calculate", "chunks"}}

CheckBegins ==
  /\ chunks = ChunksInit(ordered.chunk_size, ordered.capacity)
  /\ stage = IF ordered.kind = "chunks" THEN "produce" ELSE "open"
  /\ side = "source" /\ again = FALSE
  /\ pos = [source |-> 0, target |-> 0]
  /\ sum = [done |-> 0, crc |-> CrcInit]
  /\ outcome = [verified |-> 0, mismatch |-> -1, source |-> {}, target |-> {}, ret |-> "none"]
  /\ misread = FALSE

CheckInit ==
  /\ ordered \in Orders
  /\ files \in IF ordered.kind = "chunks" THEN {[source |-> <<>>, target |-> <<>>]}
               ELSE [source : FileOf(MaxFile),
                     target : IF ordered.kind = "calculate" THEN {<<>>} ELSE FileOf(MaxFile)]
  /\ CheckBegins

Returns(ret) == stage' = "closed" /\ outcome' = [outcome EXCEPT !.ret = ret]

\* Some bytes are produced and taken into the checksums; the target keeps them, well or badly.
Produce(data, stored) ==
  /\ stage = "produce" /\ Len(files.source) + Len(data) <= MaxFile
  /\ files' = [source |-> files.source \o data, target |-> files.target \o stored]
  /\ chunks' = Update(chunks, data)
  /\ UNCHANGED <<ordered, stage, side, again, pos, sum, outcome, misread>>

\* The last chunk is finished, or that is forgotten.
Produced ==
  /\ stage = "produce" /\ files.source # <<>>
  /\ chunks' \in {chunks, ChunksFinish(chunks)}
  /\ stage' = "open" /\ side' = "target"
  /\ UNCHANGED <<ordered, files, again, pos, sum, outcome, misread>>

\* How many bytes are looked at.
Length ==
  CASE ordered.kind = "whole" -> Len(files.source)
    [] ordered.kind = "chunks" -> chunks.total_bytes
    [] OTHER -> ordered.length
Required(length) == (length + ordered.chunk_size - 1) \div ordered.chunk_size
SizesDiffer ==
  CASE ordered.kind = "calculate" -> Len(files.source) < Length
    [] ordered.kind = "whole" -> Len(files.source) # Len(files.target)
    [] ordered.kind = "range" -> Len(files.source) < Length \/ Len(files.target) < Length
    [] ordered.kind = "chunks" -> Len(files.target) < Length

Shorter ==
  CASE ordered.kind = "calculate" -> -1
    [] ordered.kind = "chunks" -> Len(files.target)
    [] OTHER -> Smaller(Len(files.source), Len(files.target))

\* The manifest is refused, a stat or an open fails, the sizes do not fit, or both files are open.
OpenBoth(fails) ==
  /\ stage = "open"
  /\ IF \/ ordered.kind = "calculate" /\ Required(Length) > ordered.capacity
        \/ ordered.kind = "chunks" /\ Required(Length) # Len(chunks.values)
     THEN Returns("manifest")
     ELSE IF fails THEN Returns("error")
     ELSE IF SizesDiffer
     THEN stage' = "closed" /\ outcome' = [outcome EXCEPT !.ret = "size", !.mismatch = Shorter]
     ELSE stage' = "next" /\ UNCHANGED outcome
  /\ UNCHANGED <<ordered, files, chunks, side, again, pos, sum, misread>>

Offset == IF ordered.kind = "calculate" THEN chunks.total_bytes ELSE outcome.verified
ChunkBytes == Smaller(Length - Offset, ordered.chunk_size)

\* The loops' heads: the next chunk, or the files are closed.
NextChunk(closes) ==
  /\ stage = "next"
  /\ IF Offset < Length
     THEN /\ stage' = "read" /\ sum' = [done |-> 0, crc |-> CrcInit] /\ again' = FALSE
          /\ side' = IF ordered.kind = "chunks" THEN "target" ELSE "source"
          /\ outcome' = IF ordered.kind = "chunks"
                        THEN [outcome EXCEPT !.source = chunks.values[(Offset \div ordered.chunk_size) + 1]]
                        ELSE outcome
     ELSE Returns(IF closes THEN "ok" ELSE "error") /\ UNCHANGED <<side, again, sum>>
  /\ UNCHANGED <<ordered, files, chunks, pos, misread>>

\* read_chunk_crc: one read, and what it gave is transformed and taken into the checksum.
ReadSome(count, astray) ==
  LET from == pos[side]
      bytes == [i \in 1 .. count |-> IF astray THEN StrayByte ELSE files[side][from + i]]
      seen == IF side = "source" THEN Transformed(Offset + sum.done, bytes) ELSE bytes
  IN  /\ stage = "read" /\ sum.done < ChunkBytes
      /\ count \in 1 .. Smaller(Smaller(ChunkBytes - sum.done, ordered.buffer_size), Len(files[side]) - from)
      /\ sum' = [done |-> sum.done + count, crc |-> CrcUpdate(sum.crc, seen)]
      /\ pos' = [pos EXCEPT ![side] = @ + count]
      /\ misread' = (misread \/ astray)
      /\ UNCHANGED <<ordered, files, chunks, stage, side, again, outcome>>

\* A read, a transformation or a progress callback fails; nothing more is read.
CheckFails ==
  /\ stage \in {"read", "next"} /\ (stage = "next" => Offset > 0)
  /\ Returns("error")
  /\ UNCHANGED <<ordered, files, chunks, side, again, pos, sum, misread>>

ChunkRead == stage = "read" /\ sum.done = ChunkBytes

Calculated ==
  /\ ChunkRead /\ ordered.kind = "calculate"
  /\ chunks' = [chunks EXCEPT !.values = Append(@, CrcFinalize(sum.crc)), !.total_bytes = @ + ChunkBytes]
  /\ stage' = "next"
  /\ UNCHANGED <<ordered, files, side, again, pos, sum, outcome, misread>>

SourceRead ==
  /\ ChunkRead /\ ordered.kind \in {"range", "whole"} /\ side = "source"
  /\ outcome' = [outcome EXCEPT !.source = CrcFinalize(sum.crc)]
  /\ side' = "target" /\ sum' = [done |-> 0, crc |-> CrcInit]
  /\ UNCHANGED <<ordered, files, chunks, stage, again, pos, misread>>

\* The target's chunk against the source's. The mutant reads on where it is.
RereadOnwards == pos
Reread == [pos EXCEPT !.target = Offset]

Compared ==
  LET seen == [outcome EXCEPT !.target = CrcFinalize(sum.crc)]
  IN  /\ ChunkRead /\ ordered.kind # "calculate" /\ side = "target"
      /\ IF seen.source = seen.target
         THEN /\ outcome' = [seen EXCEPT !.verified = @ + ChunkBytes]
              /\ stage' = "next" /\ UNCHANGED <<again, pos, sum>>
         ELSE IF ordered.kind = "chunks" /\ ~again
         THEN /\ again' = TRUE /\ pos' = Reread /\ sum' = [done |-> 0, crc |-> CrcInit]
              /\ outcome' = seen /\ UNCHANGED stage
         ELSE /\ outcome' = [seen EXCEPT !.mismatch = Offset, !.ret = "mismatch"]
              /\ stage' = "closed" /\ UNCHANGED <<again, pos, sum>>
      /\ UNCHANGED <<ordered, files, chunks, side, misread>>

CheckNext ==
  \/ \E data \in FileOf(MaxFile), stored \in FileOf(MaxFile) :
       data # <<>> /\ Len(stored) = Len(data) /\ Produce(data, stored)
  \/ Produced \/ Calculated \/ SourceRead \/ Compared \/ CheckFails
  \/ \E yes \in BOOLEAN : OpenBoth(yes) \/ NextChunk(yes)
  \/ \E count \in 1 .. MaxFile, astray \in BOOLEAN : ReadSome(count, astray)

CheckSpec == CheckInit /\ [][CheckNext]_checkVars

-----------------------------------------------------------------------------
\* The chunks of bytes, and their checksums.
ChunkOf(bytes, i) ==
  SubSeq(bytes, (i - 1) * ordered.chunk_size + 1, Smaller(i * ordered.chunk_size, Len(bytes)))
Checksums(bytes) ==
  [i \in 1 .. Required(Len(bytes)) |-> CrcFinalize(CrcUpdate(CrcInit, ChunkOf(bytes, i)))]
Wanted == Transformed(0, files.source)

\* file_crc32.c, crc32_chunks.c: whatever the slices it was produced or read in, the bytes
\* that a verification counts as verified are those of the source; success is for all of
\* them, also of a manifest with too few places; a mismatch is one. Bytes read astray are found
\* out, except where two files are read only once; a manifest taken by reading is that of
\* the file.
VerifiedIsEqual ==
  IF ordered.kind = "calculate"
  THEN ~misread => chunks.values = Checksums(SubSeq(files.source, 1, chunks.total_bytes))
  ELSE ordered.kind = "chunks" \/ ~misread =>
       /\ SubSeq(files.target, 1, outcome.verified) = SubSeq(Wanted, 1, outcome.verified)
       /\ outcome.ret = "ok" =>
            outcome.verified = IF ordered.kind = "range" THEN ordered.length ELSE Len(files.source)
       /\ outcome.ret = "mismatch" /\ ~misread =>
            \E i \in outcome.mismatch + 1 .. outcome.mismatch + ChunkBytes : files.target[i] # Wanted[i]
=============================================================================
