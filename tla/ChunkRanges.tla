----------------------------- MODULE ChunkRanges -----------------------------
(***************************************************************************)
(* The byte arithmetic of src/era.rs: which chunks mark_write stamps for a *)
(* byte range, and which byte ranges ranges_since reports for the chunks   *)
(* newer than an era; and the era counter at its width, which wraps. One   *)
(* thread; the races are in EraMap, whose requests are the chunk intervals *)
(* that MarkFirst and MarkLast compute here.                               *)
(***************************************************************************)
EXTENDS Integers, Sequences

CONSTANTS
  DevSize,      \* device size; the unit of length is a sector
  Granularity,  \* chunk size (a power of two in the code)
  EraCycle,     \* the values of an era: 2^32, a u32, in the code
  MaxClosed     \* bound: the number of checkpoints

ASSUME SizesAssumption == DevSize \in Nat \ {0} /\ Granularity \in Nat \ {0}
ASSUME EraAssumption == EraCycle \in Nat \ {0, 1} /\ MaxClosed \in Nat

VARIABLES
  currentEra,   \* EraState.current_era
  eras,         \* EraState.eras; eras[i + 1] is chunk i
  epoch,        \* history: the era counted without the wrap
  lastWrite     \* history: the epoch of the last write of each sector, 0 if none

vars == <<currentEra, eras, epoch, lastWrite>>

\* EraState::new: dev_size.div_ceil(granularity).
NrChunks == (DevSize + Granularity - 1) \div Granularity

Sectors == 0 .. DevSize - 1

\* mark_write: the first and the last chunk of [offset, offset + len).
MarkFirst(offset, len) == offset \div Granularity

\* Fault variant: the length is divided without the offset in the chunk.
MarkLastUnaligned(offset, len) == MarkFirst(offset, len) + (len - 1) \div Granularity

\* Fault variant: the byte after the range is counted in.
MarkLastPastEnd(offset, len) == (offset + len) \div Granularity

\* mark_write: the chunk of the last byte.
MarkLast(offset, len) == (offset + len - 1) \div Granularity

\* mark_write: its early returns, the clamp of the slice, and the stamp.
Stamped(offset, len) ==
  IF len = 0 \/ MarkFirst(offset, len) >= NrChunks
    THEN {}
    ELSE {c \in 0 .. NrChunks - 1 :
            MarkFirst(offset, len) <= c /\ c <= MarkLast(offset, len)}

\* Fault variant: the tail chunk is reported with its full length.
ChunkLenUnclamped(idx) == Granularity

\* ranges_since: the bytes of chunk idx, clamped to the device at the tail.
ChunkLen(idx) ==
  IF Granularity <= DevSize - idx * Granularity
    THEN Granularity ELSE DevSize - idx * Granularity

\* Fault variant: a chunk next to the last range starts a range of its own.
AppendChunkUnmerged(ranges, idx) ==
  Append(ranges, [offset |-> idx * Granularity, len |-> ChunkLen(idx)])

\* ranges_since: a chunk that begins where the last range ends extends it.
AppendChunk(ranges, idx) ==
  LET off == idx * Granularity
      n   == Len(ranges)
  IN  IF n > 0 /\ ranges[n].offset + ranges[n].len = off
        THEN [ranges EXCEPT ![n].len = @ + ChunkLen(idx)]
        ELSE Append(ranges, [offset |-> off, len |-> ChunkLen(idx)])

\* ranges_since: the body of the loop, for chunk idx; a chunk no newer than
\* `since` is skipped.
Visit(ranges, idx, since) ==
  IF eras[idx + 1] <= since THEN ranges ELSE AppendChunk(ranges, idx)

\* ranges_since: the ranges after each number of iterations.
RangesUpTo(since) ==
  LET upTo[n \in 0 .. NrChunks] ==
        IF n = 0 THEN <<>> ELSE Visit(upTo[n - 1], n - 1, since)
  IN  upTo

\* ranges_since: one pass over the era array.
RangesSince(since) == RangesUpTo(since)[NrChunks]

\* Fault variant: dump answers any cursor.
AcceptedAny(since) == TRUE

\* dump: a cursor that is not below current_era is refused.
Accepted(since) == since < currentEra

Init ==
  /\ currentEra = 1
  /\ epoch = 1
  /\ eras = [i \in 1 .. NrChunks |-> 0]
  /\ lastWrite = [b \in Sectors |-> 0]

\* A write or a discard of any range inside the device, empty ones included.
\* A stamp never lowers an era (fetch_max): after a wrap the old one stays.
MarkWrite(offset, len) ==
  /\ offset + len <= DevSize
  /\ eras' = [i \in 1 .. NrChunks |->
                IF i - 1 \in Stamped(offset, len) /\ eras[i] < currentEra
                  THEN currentEra ELSE eras[i]]
  /\ lastWrite' = [b \in Sectors |->
                     IF b \in offset .. offset + len - 1 THEN epoch ELSE lastWrite[b]]
  /\ UNCHANGED <<currentEra, epoch>>

\* Fault variant: the counter is wider than the eras it is stored in.
CheckpointWider ==
  /\ epoch <= MaxClosed
  /\ currentEra' = currentEra + 1
  /\ epoch' = epoch + 1
  /\ UNCHANGED <<eras, lastWrite>>

\* fetch_add wraps; the `old + 1` of the response panics in a debug build.
Checkpoint ==
  /\ epoch <= MaxClosed
  /\ currentEra' = (currentEra + 1) % EraCycle
  /\ epoch' = epoch + 1
  /\ UNCHANGED <<eras, lastWrite>>

Next ==
  \/ \E offset \in 0 .. DevSize, len \in 0 .. DevSize : MarkWrite(offset, len)
  \/ Checkpoint

Spec == Init /\ [][Next]_vars

-----------------------------------------------------------------------------
(* Properties.                                                             *)

\* Era values fit their width, whatever the number of checkpoints.
TypeOK ==
  /\ currentEra \in 0 .. EraCycle - 1
  /\ eras \in [1 .. NrChunks -> 0 .. EraCycle - 1]
  /\ epoch \in 1 .. MaxClosed + 1
  /\ lastWrite \in [Sectors -> 0 .. epoch]

\* The epochs whose checkpoint a consumer may hold as its cursor, if it takes a
\* backup at least once in a cycle of the counter. An older cursor can come
\* back into range and is then believed.
Cursors == {c \in 0 .. epoch - 1 : epoch - c <= EraCycle /\ Accepted(c % EraCycle)}

Covered(since) ==
  LET rs == RangesSince(since)
  IN  {b \in Sectors : \E k \in 1 .. Len(rs) :
         rs[k].offset <= b /\ b < rs[k].offset + rs[k].len}

\* docs/dump-format.md property 2: a sector changed after the checkpoint of an
\* accepted cursor is never missing from the ranges, whatever its alignment in
\* chunks and at the tail, and across a wrap of the era counter, after which
\* new stamps lose against old ones.
NoSectorMissed ==
  \A c \in Cursors :
    \A b \in Sectors : lastWrite[b] > c => b \in Covered(c % EraCycle)

\* docs/dump-format.md, properties of the ranges: until the counter wraps, only
\* chunks that contain a sector changed after `since` are reported. (That all of
\* them are is NoSectorMissed.)
OnlyChangedChunks ==
  epoch < EraCycle =>
    \A since \in 0 .. currentEra :
      \A b \in Covered(since) :
        \E d \in Sectors : /\ d \div Granularity = b \div Granularity
                           /\ lastWrite[d] > since

\* docs/dump-format.md properties 3 and 4: ranges ascend, do not overlap or
\* touch, lie inside the device, and are chunk-aligned except at its end.
RangesCanonical ==
  \A since \in 0 .. EraCycle - 1 :
    LET rs == RangesSince(since)
        End(k) == rs[k].offset + rs[k].len
    IN  \A k \in 1 .. Len(rs) :
          /\ rs[k].len > 0
          /\ rs[k].offset % Granularity = 0
          /\ End(k) % Granularity = 0 \/ End(k) = DevSize
          /\ End(k) <= DevSize
          /\ k < Len(rs) => End(k) < rs[k + 1].offset

=============================================================================
