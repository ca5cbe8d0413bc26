------------------------------ MODULE FaultDisk ------------------------------
(***************************************************************************)
(* The storage contract model of the fault-injection device                *)
(* (ublkfault/src/model.rs): committed content, a volatile cache that      *)
(* drains oldest first past its capacity, flush, flush lies, failed writes *)
(* that leave a prefix behind, and crash.                                  *)
(*                                                                         *)
(* The unit of offsets, lengths and of the capacity is a logical block     *)
(* (lbs), the granularity of every decision in the code. The seeded random *)
(* numbers are nondeterministic choices. One request at a time: every      *)
(* operation runs under the mutex of the model.                            *)
(***************************************************************************)
EXTENDS Integers, Sequences, FiniteSets, FiniteSetsExt

CONSTANTS
  NrBlocks,    \* device size
  CacheCap,    \* capacity of the volatile cache
  Values       \* contents of a block; 0 is what a discard leaves

ASSUME SizesAssumption == NrBlocks \in Nat \ {0} /\ CacheCap \in Nat
ASSUME ValuesAssumption == 0 \in Values

VARIABLES
  committed,   \* Model.committed
  volatile     \* Model.volatile, oldest first: the blocks and their new value

disk == <<committed, volatile>>

Blocks == 0 .. NrBlocks - 1

\* A request is uniform: all its blocks get the same value.
Entries == [off : Blocks, len : 1 .. NrBlocks, val : Values]
Extent(e) == e.off .. e.off + e.len - 1

\* apply: an entry's blocks replace those of an image.
Apply(image, e) == [b \in Blocks |-> IF b \in Extent(e) THEN e.val ELSE image[b]]

\* Entries that reach an image one after the other, entry i at the blocks of
\* cover[i] only: on each block the last one that covers it remains.
Overlay(image, entries, cover) ==
  [b \in Blocks |->
     LET on == {i \in DOMAIN entries : b \in cover[i]}
     IN  IF on = {} THEN image[b] ELSE entries[Max(on)].val]

ApplyAll(image, entries) ==
  Overlay(image, entries, [i \in DOMAIN entries |-> Extent(entries[i])])

\* read: committed, overlaid with the volatile entries in arrival order.
Read(b) == ApplyAll(committed, volatile)[b]

\* volatile_bytes: the blocks cached, once for each entry that holds them.
Cells(entries) ==
  {ib \in (DOMAIN entries) \X Blocks : ib[2] \in Extent(entries[ib[1]])}

Bytes(entries) == Cardinality(Cells(entries))

Init ==
  /\ committed = [b \in Blocks |-> 0]
  /\ volatile = <<>>

-----------------------------------------------------------------------------
\* Number of oldest entries that leave a cache over its capacity.
Overflow(entries) ==
  CHOOSE n \in 0 .. Len(entries) :
    /\ Bytes(SubSeq(entries, n + 1, Len(entries))) <= CacheCap
    /\ \A m \in 0 .. n - 1 : Bytes(SubSeq(entries, m + 1, Len(entries))) > CacheCap

\* Fault variant: one entry at most is written back.
PushVolatileOnce(e) ==
  LET all == Append(volatile, e)
      n   == IF Bytes(all) > CacheCap THEN 1 ELSE 0
  IN  /\ committed' = ApplyAll(committed, SubSeq(all, 1, n))
      /\ volatile' = SubSeq(all, n + 1, Len(all))

\* Fault variant: the newest entry bypasses a full cache.
PushVolatileNewestFirst(e) ==
  IF Bytes(Append(volatile, e)) > CacheCap
    THEN committed' = Apply(committed, e) /\ UNCHANGED volatile
    ELSE volatile' = Append(volatile, e) /\ UNCHANGED committed

\* push_volatile: append, then write back the oldest while over capacity.
PushVolatile(e) ==
  LET all == Append(volatile, e)
      n   == Overflow(all)
  IN  /\ committed' = ApplyAll(committed, SubSeq(all, 1, n))
      /\ volatile' = SubSeq(all, n + 1, Len(all))

\* write, and discard with the value 0.
Write(e) == PushVolatile(e)

\* write with an injected error: a prefix, perhaps empty, reaches the cache.
WriteError(e, keep) ==
  /\ keep <= e.len
  /\ IF keep > 0 THEN Write([e EXCEPT !.len = keep]) ELSE UNCHANGED disk

\* Fault variant: the cache is emptied before it is applied.
FlushDiscards ==
  /\ volatile' = <<>>
  /\ UNCHANGED committed

\* flush: the whole cache, in arrival order.
Flush ==
  /\ committed' = ApplyAll(committed, volatile)
  /\ volatile' = <<>>

\* flush with a lie: acknowledged, and nothing else.
FlushLie == UNCHANGED disk

\* What a crash may keep of each entry: all its blocks, none, or any (torn).
\* The drop mode keeps nothing.
Survivors ==
  {kept \in [DOMAIN volatile -> SUBSET Blocks] :
     \A i \in DOMAIN volatile : kept[i] \subseteq Extent(volatile[i])}

\* The kept blocks of each entry are applied in arrival order.
CrashImage(kept) == Overlay(committed, volatile, kept)

\* Fault variant: the cache outlives the crash.
CrashKeepsCache(kept) ==
  /\ committed' = CrashImage(kept)
  /\ UNCHANGED volatile

\* crash: power loss. Reads now show what survived.
Crash(kept) ==
  /\ committed' = CrashImage(kept)
  /\ volatile' = <<>>

Requests == {e \in Entries : e.off + e.len <= NrBlocks}

DiskType ==
  /\ committed \in [Blocks -> Values]
  /\ volatile \in Seq(Requests)
  /\ Bytes(volatile) <= CacheCap

=============================================================================
