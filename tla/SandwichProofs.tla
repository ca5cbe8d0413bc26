--------------------------- MODULE SandwichProofs ---------------------------
(***************************************************************************)
(* Proofs about ublkera on the fault device (Sandwich), for any number of  *)
(* tags, blocks and values and any cache capacity, with the one queue the  *)
(* fault device has by default: what a flush acknowledged survives a power *)
(* loss; and a dump covers every block that differs from the consumer's    *)
(* image.                                                                  *)
(***************************************************************************)
EXTENDS Sandwich, FiniteSetTheorems, SequenceTheorems, TLAPS

-----------------------------------------------------------------------------
(* The queue.                                                              *)

\* Types of the queue and of what ublkera keeps for each tag. A tag whose
\* request is below has no result yet, and a free tag has none.
QueueType ==
  /\ slot \in [{Queue} \X Tags -> {"kernel", "server", "parked"}]
  /\ parked \in Seq(Tags)
  /\ thawResult \in {"ok", "eio"} /\ commanding \in BOOLEAN /\ efd \in BOOLEAN
  /\ poll \in [{Queue} -> BOOLEAN]
  /\ pc \in [{Queue} -> {"wait", "woken", "release"}]
  /\ thaw \in [{Queue} -> {"ok", "eio"}]
  /\ tags \in [{Queue} -> Seq(Tags)]
  /\ owed \subseteq {Queue} \X Tags
  /\ io \in [Tags -> Requests \cup {NoIO}]
  /\ res \in [Tags -> {"none", "ok", "lie", "eio"}]

InStep ==
  \A t \in Tags :
    /\ (io[t] # NoIO /\ res[t] = "none") <=> slot[<<Queue, t>>] # "kernel"
    /\ io[t] = NoIO => res[t] = "none"

\* The tags in the shared list and those the handler has taken from it name
\* parked slots, no slot twice; between wake-ups the handler has none.
Held ==
  /\ \A i \in 1 .. Len(parked) : slot[<<Queue, parked[i]>>] = "parked"
  /\ \A i \in 1 .. Len(tags[Queue]) : slot[<<Queue, tags[Queue][i]>>] = "parked"
  /\ pc[Queue] # "release" => tags[Queue] = <<>>

Once ==
  /\ \A i, j \in 1 .. Len(parked) : parked[i] = parked[j] => i = j
  /\ \A i, j \in 1 .. Len(tags[Queue]) : tags[Queue][i] = tags[Queue][j] => i = j
  /\ \A i \in 1 .. Len(parked), j \in 1 .. Len(tags[Queue]) : parked[i] # tags[Queue][j]

QInv == QueueType /\ InStep /\ Held /\ Once /\ wrong = {}

\* Empty queues satisfy the queue part.
LEMMA QueueInit == Init => QInv
<1> SUFFICES ASSUME Init
             PROVE  QInv
  OBVIOUS
<1>1. QueueType
  <2>1. <<>> \in Seq(Tags)
    OBVIOUS
  <2> QED
    BY <2>1 DEF Init, FQ!Init, FQ!Slots, QueueType
<1>2. InStep /\ wrong = {}
  BY DEF Init, FQ!Init, FQ!Slots, InStep
<1>3. Held /\ Once
  BY DEF Init, FQ!Init, Held, Once
<1> QED
  BY <1>1, <1>2, <1>3 DEF QInv

\* Serving or thawing a request leaves a result for its tag.
LEMMA PerformResult ==
  ASSUME NEW t \in Tags, Perform(t)
  PROVE  \E r \in {"ok", "lie", "eio"} : res' = [res EXCEPT ![t] = r]
BY DEF Perform, Result

\* The steps that leave the queue and the tags alone.
LEMMA QueueSame == QInv /\ UNCHANGED <<queueVars, ioVars>> => QInv'
BY DEF QInv, QueueType, InStep, Held, Once, queueVars, ioVars

\* A request is delivered to a slot that nobody holds.
LEMMA QueueSubmit ==
  ASSUME QInv, NEW t \in Tags, NEW r \in Requests, Submit(t, r)
  PROVE  QInv'
<1>1. /\ io[t] = NoIO /\ io' = [io EXCEPT ![t] = r] /\ res' = res
      /\ slot[<<Queue, t>>] = "kernel"
      /\ slot' = [slot EXCEPT ![<<Queue, t>>] = "server"]
      /\ UNCHANGED <<parked, thawResult, commanding, efd, poll, pc, thaw, tags, owed, wrong>>
  BY DEF Submit, FQ!Deliver, FQ!ctlVars
<1>2. r # NoIO
  BY DEF Requests, NoIO
<1>3. QueueType'
  BY <1>1 DEF QInv, QueueType
<1>4. InStep'
  BY <1>1, <1>2 DEF QInv, InStep, QueueType
<1>5. Held' /\ Once'
  <2>1. \A i \in 1 .. Len(parked) : parked[i] \in Tags /\ parked[i] # t
    BY <1>1 DEF QInv, Held, QueueType
  <2>2. \A i \in 1 .. Len(tags[Queue]) : tags[Queue][i] \in Tags /\ tags[Queue][i] # t
    BY <1>1 DEF QInv, Held, QueueType
  <2> QED
    BY <1>1, <2>1, <2>2 DEF QInv, Held, Once, QueueType
<1> QED
  BY <1>1, <1>3, <1>4, <1>5 DEF QInv

\* The client sees the result: the tag is free again.
LEMMA QueueComplete ==
  ASSUME QInv, NEW t \in Tags, Complete(t)
  PROVE  QInv'
<1>1. /\ res[t] # "none" /\ io' = [io EXCEPT ![t] = NoIO]
      /\ res' = [res EXCEPT ![t] = "none"] /\ UNCHANGED queueVars
  BY DEF Complete, CompleteWith
<1>2. QueueType' /\ Held' /\ Once' /\ wrong' = {}
  BY <1>1 DEF QInv, QueueType, Held, Once, queueVars
<1>3. InStep'
  BY <1>1 DEF QInv, InStep, QueueType, queueVars
<1> QED
  BY <1>2, <1>3 DEF QInv

\* A fetched request is served; no list names its slot.
LEMMA QueueServe ==
  ASSUME QInv, NEW t \in Tags, Serve(t)
  PROVE  QInv' /\ io[t] # NoIO /\ res[t] = "none"
<1>1. /\ slot[<<Queue, t>>] = "server" /\ io' = io
      /\ slot' = [slot EXCEPT ![<<Queue, t>>] = "kernel"]
      /\ UNCHANGED <<parked, thawResult, commanding, efd, poll, pc, thaw, tags, owed, wrong>>
  BY DEF Serve, FQ!Serve, FQ!ctlVars
<1>2. PICK r \in {"ok", "lie", "eio"} : res' = [res EXCEPT ![t] = r]
  BY PerformResult DEF Serve
<1>3. QueueType'
  BY <1>1, <1>2 DEF QInv, QueueType
<1>4. InStep' /\ io[t] # NoIO /\ res[t] = "none"
  BY <1>1, <1>2 DEF QInv, InStep, QueueType
<1>5. Held' /\ Once'
  <2>1. \A i \in 1 .. Len(parked) : parked[i] \in Tags /\ parked[i] # t
    BY <1>1 DEF QInv, Held, QueueType
  <2>2. \A i \in 1 .. Len(tags[Queue]) : tags[Queue][i] \in Tags /\ tags[Queue][i] # t
    BY <1>1 DEF QInv, Held, QueueType
  <2> QED
    BY <1>1, <2>1, <2>2 DEF QInv, Held, Once, QueueType
<1> QED
  BY <1>1, <1>3, <1>4, <1>5 DEF QInv

\* A request is parked: its tag was in no list, and joins the shared one.
LEMMA QueueHang ==
  ASSUME QInv, NEW t \in Tags, Hang(t)
  PROVE  QInv'
<1>1. /\ slot[<<Queue, t>>] = "server" /\ pc[Queue] = "wait"
      /\ slot' = [slot EXCEPT ![<<Queue, t>>] = "parked"]
      /\ parked' = Append(parked, t)
      /\ UNCHANGED <<thawResult, commanding, efd, poll, pc, thaw, tags, owed, wrong, io, res>>
  BY DEF Hang, FQ!Park, FQ!ctlVars, ioVars
<1>2. parked \in Seq(Tags) /\ tags[Queue] = <<>>
  BY <1>1 DEF QInv, QueueType, Held
<1>3. /\ parked' \in Seq(Tags) /\ Len(parked') = Len(parked) + 1 /\ Len(parked) \in Nat
      /\ parked'[Len(parked) + 1] = t
      /\ \A i \in 1 .. Len(parked) : parked'[i] = parked[i]
  BY <1>1, <1>2
<1>4. \A i \in 1 .. Len(parked) : parked[i] \in Tags /\ parked[i] # t
  BY <1>1, <1>2 DEF QInv, Held
<1>5. QueueType'
  BY <1>1, <1>3 DEF QInv, QueueType
<1>6. InStep'
  BY <1>1 DEF QInv, InStep, QueueType
<1>7. Held'
  <2>1. \A i \in 1 .. Len(parked) + 1 : slot'[<<Queue, parked'[i]>>] = "parked"
    <3> TAKE i \in 1 .. Len(parked) + 1
    <3>1. CASE i = Len(parked) + 1
      BY <1>1, <1>3, <3>1 DEF QInv, QueueType
    <3>2. CASE i \in 1 .. Len(parked)
      BY <1>1, <1>3, <1>4, <3>2 DEF QInv, QueueType, Held
    <3> QED
      BY <1>3, <3>1, <3>2
  <2> QED
    BY <1>1, <1>2, <1>3, <2>1 DEF Held
<1>8. Once'
  <2>1. ASSUME NEW i \in 1 .. Len(parked) + 1, NEW j \in 1 .. Len(parked) + 1,
               parked'[i] = parked'[j]
        PROVE  i = j
    <3>1. CASE i \in 1 .. Len(parked) /\ j \in 1 .. Len(parked)
      BY <1>3, <2>1, <3>1 DEF QInv, Once
    <3>2. CASE ~ (i \in 1 .. Len(parked) /\ j \in 1 .. Len(parked))
      BY <1>3, <1>4, <2>1, <3>2
    <3> QED
      BY <3>1, <3>2
  <2> QED
    BY <1>1, <1>2, <1>3, <2>1 DEF Once
<1> QED
  BY <1>1, <1>5, <1>6, <1>7, <1>8 DEF QInv

\* The control thread stores a result, and writes the eventfd.
LEMMA QueueCommand == QInv /\ (ThawCommand \/ ThawWrite) => QInv'
<1> SUFFICES ASSUME QInv, ThawCommand \/ ThawWrite
             PROVE  QInv'
  OBVIOUS
<1>1. UNCHANGED <<slot, parked, poll, pc, thaw, tags, wrong, io, res>>
  BY DEF ThawCommand, ThawWrite, FQ!ThawStore, FQ!ThawWrite, ioVars
<1>2. /\ thawResult' \in {"ok", "eio"} /\ commanding' \in BOOLEAN /\ efd' \in BOOLEAN
      /\ owed' \subseteq {Queue} \X Tags
  BY DEF ThawCommand, ThawWrite, FQ!ThawStore, FQ!ThawWrite, FQ!Slots, QInv, QueueType
<1>3. QueueType'
  BY <1>1, <1>2 DEF QInv, QueueType
<1> QED
  BY <1>1, <1>3 DEF QInv, InStep, Held, Once

\* The handler wakes up, takes the list and re-arms its poll.
LEMMA QueueWake == QInv /\ WakeStep => QInv'
<1> SUFFICES ASSUME QInv, WakeStep
             PROVE  QInv'
  OBVIOUS
<1>0. io' = io /\ res' = res
  BY DEF WakeStep, ioVars
<1>1. CASE FQ!PollFires(Queue)
  BY <1>0, <1>1 DEF QInv, QueueType, InStep, Held, Once, FQ!PollFires, FQ!ctlVars
<1>2. CASE FQ!Drain(Queue)
  <2>1. /\ pc[Queue] = "woken" /\ tags[Queue] = <<>> /\ tags'[Queue] = parked
        /\ parked' = <<>> /\ slot' = slot /\ pc'[Queue] = "release" /\ wrong' = wrong
    BY <1>2 DEF FQ!Drain, QInv, QueueType, Held
  <2>2. QueueType'
    <3>1. tags' \in [{Queue} -> Seq(Tags)] /\ parked' \in Seq(Tags)
      BY <1>2 DEF QInv, QueueType, FQ!Drain
    <3>2. pc' \in [{Queue} -> {"wait", "woken", "release"}] /\ thaw' \in [{Queue} -> {"ok", "eio"}]
      BY <1>2 DEF QInv, QueueType, FQ!Drain
    <3>3. efd' \in BOOLEAN /\ UNCHANGED <<slot, thawResult, commanding, poll, owed>>
      BY <1>2 DEF FQ!Drain
    <3> QED
      BY <1>0, <3>1, <3>2, <3>3 DEF QInv, QueueType
  <2>3. InStep'
    BY <1>0, <2>1 DEF QInv, InStep
  <2>4. Held' /\ Once'
    BY <2>1 DEF QInv, Held, Once
  <2> QED
    BY <2>1, <2>2, <2>3, <2>4 DEF QInv
<1>3. CASE FQ!Rearm(Queue)
  BY <1>0, <1>3 DEF QInv, QueueType, InStep, Held, Once, FQ!Rearm, FQ!ctlVars
<1> QED
  BY <1>1, <1>2, <1>3 DEF WakeStep, FQ!Wake

\* A thawed request was parked, so completing it is right; the rest of the
\* list and the requests parked meanwhile name other slots.
LEMMA QueueThawed ==
  ASSUME QInv, Thawed
  PROVE  /\ QInv'
         /\ Head(tags[Queue]) \in Tags
         /\ io[Head(tags[Queue])] # NoIO /\ res[Head(tags[Queue])] = "none"
<1> DEFINE own == tags[Queue]
           t == Head(own)
<1>1. /\ pc[Queue] = "release" /\ own # <<>> /\ io' = io
      /\ tags' = [tags EXCEPT ![Queue] = Tail(own)]
      /\ slot' = [slot EXCEPT ![<<Queue, t>>] = "kernel"]
      /\ wrong' = IF slot[<<Queue, t>>] = "parked" THEN wrong ELSE wrong \cup {<<Queue, t>>}
      /\ owed' = owed \ {<<Queue, t>>}
      /\ UNCHANGED <<parked, thawResult, commanding, efd, poll, pc, thaw>>
  BY DEF Thawed, FQ!Release, FQ!ctlVars
<1>2. own \in Seq(Tags) /\ parked \in Seq(Tags)
  BY DEF QInv, QueueType
<1>3. /\ Len(own) \in Nat \ {0} /\ t = own[1] /\ t \in Tags /\ Tail(own) \in Seq(Tags)
      /\ Len(Tail(own)) = Len(own) - 1
      /\ \A i \in 1 .. Len(own) - 1 : Tail(own)[i] = own[i + 1]
  BY <1>1, <1>2
<1>4. slot[<<Queue, t>>] = "parked"
  BY <1>3 DEF QInv, Held
<1>5. \E r \in {"ok", "lie", "eio"} : res' = [res EXCEPT ![t] = r]
  BY <1>3, PerformResult DEF Thawed, Result
<1>6. tags'[Queue] = Tail(own)
  BY <1>1 DEF QInv, QueueType
<1>7. /\ \A i \in 1 .. Len(parked) : parked[i] \in Tags /\ parked[i] # t
      /\ \A i \in 1 .. Len(own) - 1 : own[i + 1] \in Tags /\ own[i + 1] # t
  BY <1>2, <1>3 DEF QInv, Once
<1>8. QueueType'
  BY <1>1, <1>3, <1>5 DEF QInv, QueueType
<1>9. InStep' /\ io[t] # NoIO /\ res[t] = "none"
  BY <1>1, <1>3, <1>4, <1>5 DEF QInv, InStep, QueueType
<1>10. Held'
  <2>1. \A i \in 1 .. Len(parked) : slot'[<<Queue, parked[i]>>] = "parked"
    BY <1>1, <1>7 DEF QInv, QueueType, Held
  <2>2. \A i \in 1 .. Len(own) - 1 : slot'[<<Queue, own[i + 1]>>] = "parked"
    BY <1>1, <1>3, <1>7 DEF QInv, QueueType, Held
  <2> QED
    <3> HIDE DEF t
    <3>1. \A i \in 1 .. Len(tags'[Queue]) : tags'[Queue][i] = own[i + 1] /\ i \in 1 .. Len(own) - 1
      BY <1>3, <1>6
    <3> QED
      BY <1>1, <2>1, <2>2, <3>1 DEF Held
<1>11. Once'
  <2> HIDE DEF t
  <2>1. ASSUME NEW i \in 1 .. Len(own) - 1, NEW j \in 1 .. Len(own) - 1,
               Tail(own)[i] = Tail(own)[j]
        PROVE  i = j
    <3>1. own[i + 1] = own[j + 1] /\ i + 1 \in 1 .. Len(own) /\ j + 1 \in 1 .. Len(own)
      BY <1>3, <2>1
    <3> QED
      BY <1>3, <3>1 DEF QInv, Once
  <2>2. ASSUME NEW i \in 1 .. Len(parked), NEW j \in 1 .. Len(own) - 1
        PROVE  parked[i] # Tail(own)[j]
    <3>1. Tail(own)[j] = own[j + 1] /\ j + 1 \in 1 .. Len(own)
      BY <1>3
    <3> QED
      BY <3>1 DEF QInv, Once
  <2> QED
    BY <1>1, <1>3, <1>6, <2>1, <2>2 DEF QInv, Once
<1>12. wrong' = {}
  BY <1>1, <1>4 DEF QInv
<1> QED
  BY <1>3, <1>8, <1>9, <1>10, <1>11, <1>12 DEF QInv

\* A list that names no slot twice is no longer than the queue is deep.
LEMMA ListBound ==
  ASSUME NEW s \in Seq(Tags),
         \A i, j \in 1 .. Len(s) : s[i] = s[j] => i = j
  PROVE  s \in FQ!BoundedSeq(Tags, FQ!Cardinality(FQ!Slots))
<1>1. s \in [1 .. Len(s) -> Tags] /\ Len(s) \in Nat
  OBVIOUS
<1>2. s \in Injection(1 .. Len(s), Tags)
  BY <1>1 DEF Injection, IsInjective
<1>3. Cardinality(1 .. Len(s)) = Len(s)
  <2>1. Cardinality(1 .. Len(s)) = IF 1 > Len(s) THEN 0 ELSE Len(s) - 1 + 1
    BY <1>1, FS_Interval
  <2> QED
    BY <1>1, <2>1
<1>4. Len(s) <= Cardinality(Tags)
  BY <1>2, <1>3, TagsAssumption, FS_Injection
<1>5. IsFiniteSet({Queue}) /\ Cardinality({Queue}) = 1
  BY FS_Singleton
<1>6. Cardinality({Queue} \X Tags) = 1 * Cardinality(Tags)
  BY <1>5, TagsAssumption, FS_Product
<1>7. Cardinality(Tags) \in Nat
  BY TagsAssumption, FS_CardinalityType
<1>8. FQ!Cardinality(FQ!Slots) = Cardinality({Queue} \X Tags)
  BY DEF FQ!Slots, FQ!Cardinality, Cardinality, FQ!IsFiniteSet, IsFiniteSet
<1>9. Len(s) \in 0 .. FQ!Cardinality(FQ!Slots)
  BY <1>1, <1>4, <1>6, <1>7, <1>8
<1> QED
  BY <1>1, <1>9 DEF FQ!BoundedSeq, FQ!SeqOf

\* The queue part implies the types of ublkfault's queue: the lists hold each
\* tag once, so their length is bounded.
LEMMA QueueTypeOK == QInv => FQ!TypeOK
<1> SUFFICES ASSUME QInv
             PROVE  FQ!TypeOK
  OBVIOUS
<1>1. parked \in FQ!BoundedSeq(Tags, FQ!Cardinality(FQ!Slots))
  BY ListBound DEF QInv, QueueType, Once
<1>2. tags[Queue] \in FQ!BoundedSeq(Tags, FQ!Cardinality(FQ!Slots))
  <2>1. tags[Queue] \in Seq(Tags)
    BY DEF QInv, QueueType
  <2> QED
    BY <2>1, ListBound DEF QInv, Once
<1> HIDE DEF FQ!BoundedSeq
<1> QED
  BY <1>1, <1>2 DEF QInv, QueueType, FQ!TypeOK, FQ!Slots

-----------------------------------------------------------------------------
(* The disk. Only the lemmas of FaultDiskProofs about the disk are used;   *)
(* the histories of its contract, which they do not mention, stand for     *)
(* nothing here.                                                           *)

FP == INSTANCE FaultDiskProofs WITH latest <- image, allowed <- legal, newer <- image

Covers(b, i) == b \in FD!Extent(volatile[i])

\* A write that ublkera has sent below and that has not been performed.
Below(t) == io[t].op = "write" /\ res[t] = "none"

\* What a push does to the disk (FaultDiskProofs).
LEMMA DiskPush ==
  ASSUME FD!DiskType, NEW e \in FD!Requests, FD!PushVolatile(e)
  PROVE  /\ FD!DiskType'
         /\ \A b \in Blocks : FD!Read(b)' = IF b \in FD!Extent(e) THEN e.val ELSE FD!Read(b)
         /\ \A b \in Blocks : \A i \in 1 .. Len(volatile') :
              b \in FD!Extent(volatile'[i]) =>
                \/ b \in FD!Extent(e) /\ volatile'[i].val = e.val
                \/ \E k \in 1 .. Len(volatile) : Covers(b, k) /\ volatile'[i].val = volatile[k].val
         /\ \A b \in Blocks :
              \/ committed'[b] = committed[b]
              \/ b \in FD!Extent(e) /\ committed'[b] = e.val
              \/ \E k \in 1 .. Len(volatile) : Covers(b, k) /\ committed'[b] = volatile[k].val
<1>1. e \in FP!Requests /\ FP!DiskType /\ FP!PushVolatile(e)
  BY DEF FD!Requests, FP!Requests, FD!Entries, FP!Entries, FD!Blocks, FP!Blocks,
         FD!DiskType, FP!DiskType, FD!Bytes, FP!Bytes, FD!Cells, FP!Cells, FD!Extent,
         FP!Extent, FD!Cardinality, FP!Cardinality, FD!IsFiniteSet, FP!IsFiniteSet,
         FD!PushVolatile, FP!PushVolatile, FD!Overflow, FP!Overflow, FD!Overlay,
         FP!Overlay, FD!ApplyAll, FP!ApplyAll, FD!Max, FP!Max
<1>2. /\ FP!DiskType'
      /\ FP!ApplyAll(committed, volatile)' = FP!Apply(FP!ApplyAll(committed, volatile), e)
      /\ \E n \in 0 .. Len(volatile) + 1 :
              volatile' = SubSeq(Append(volatile, e), n + 1, Len(volatile) + 1)
      /\ \A b \in FP!Blocks :
              \/ committed'[b] = committed[b]
              \/ b \in FP!Extent(e) /\ committed'[b] = e.val
              \/ \E i \in 1 .. Len(volatile) :
                   b \in FP!Extent(volatile[i]) /\ committed'[b] = volatile[i].val
  BY <1>1, FP!PushStep, SizesAssumption, ValuesAssumption
<1>3. FD!DiskType'
  BY <1>2 DEF FD!Requests, FP!Requests, FD!Entries, FP!Entries, FD!Blocks, FP!Blocks,
         FD!DiskType, FP!DiskType, FD!Bytes, FP!Bytes, FD!Cells, FP!Cells, FD!Extent,
         FP!Extent, FD!Cardinality, FP!Cardinality, FD!IsFiniteSet, FP!IsFiniteSet
<1>4. \A b \in Blocks : FD!Read(b)' = IF b \in FD!Extent(e) THEN e.val ELSE FD!Read(b)
  <2>1. /\ FD!ApplyAll(committed, volatile) = FP!ApplyAll(committed, volatile)
        /\ FD!ApplyAll(committed', volatile') = FP!ApplyAll(committed', volatile')
    BY DEF FD!Overlay, FP!Overlay, FD!ApplyAll, FP!ApplyAll, FD!Max, FP!Max,
           FD!Extent, FP!Extent, FD!Blocks, FP!Blocks
  <2> QED
    BY <1>2, <2>1 DEF FD!Read, FP!Apply, FP!Extent, FD!Extent, Blocks, FP!Blocks, FD!Blocks
<1>5. \A b \in Blocks :
              \/ committed'[b] = committed[b]
              \/ b \in FD!Extent(e) /\ committed'[b] = e.val
              \/ \E k \in 1 .. Len(volatile) : Covers(b, k) /\ committed'[b] = volatile[k].val
  BY <1>2 DEF Covers, FP!Extent, FD!Extent, Blocks, FP!Blocks, FD!Blocks
<1>6. ASSUME NEW b \in Blocks, NEW i \in 1 .. Len(volatile'), b \in FD!Extent(volatile'[i])
      PROVE  \/ b \in FD!Extent(e) /\ volatile'[i].val = e.val
             \/ \E k \in 1 .. Len(volatile) : Covers(b, k) /\ volatile'[i].val = volatile[k].val
  <2> DEFINE all == Append(volatile, e)
             L == Len(volatile)
  <2>1. PICK n \in 0 .. L + 1 : volatile' = SubSeq(all, n + 1, L + 1)
    BY <1>2
  <2>2. /\ all \in Seq(FD!Requests) /\ Len(all) = L + 1 /\ L \in Nat
        /\ all[L + 1] = e /\ \A k \in 1 .. L : all[k] = volatile[k]
    BY DEF FD!DiskType
  <2> HIDE DEF all, L
  <2>3. Len(volatile') = L + 1 - n /\ \A k \in 1 .. L + 1 - n : volatile'[k] = all[n + k]
    BY <2>1, <2>2
  <2>4. n + i \in 1 .. L + 1 /\ volatile'[i] = all[n + i]
    BY <2>2, <2>3
  <2>5. CASE n + i = L + 1
    BY <1>6, <2>2, <2>4, <2>5
  <2>6. CASE n + i \in 1 .. L
    BY <1>6, <2>2, <2>4, <2>6 DEF Covers, L
  <2>7. n + i = L + 1 \/ n + i \in 1 .. L
    BY <2>2, <2>4
  <2> QED
    BY <2>5, <2>6, <2>7
<1> QED
  BY <1>3, <1>4, <1>5, <1>6

\* A read of a block that no cached entry covers shows the medium.
LEMMA ReadUncached ==
  ASSUME FD!DiskType, NEW b \in Blocks, \A i \in 1 .. Len(volatile) : ~ Covers(b, i)
  PROVE  FD!Read(b) = committed[b]
<1>1. volatile \in Seq(FP!Requests) /\ b \in FP!Blocks
  BY DEF FD!DiskType, FD!Requests, FP!Requests, FD!Entries, FP!Entries, FD!Blocks, FP!Blocks, Blocks
<1>2. \A i \in 1 .. Len(volatile) : b \notin FP!Extent(volatile[i])
  BY DEF Covers, FD!Extent, FP!Extent
<1>3. FP!ApplyAll(committed, volatile)[b] = committed[b]
  BY <1>1, <1>2, FP!ApplyNone, SizesAssumption, ValuesAssumption
<1> QED
  BY <1>3 DEF FD!Read, FD!Overlay, FP!Overlay, FD!ApplyAll, FP!ApplyAll, FD!Max, FP!Max,
              FD!Extent, FP!Extent, FD!Blocks, FP!Blocks

\* A read of a cached block shows what some entry that covers it holds.
LEMMA ReadCached ==
  ASSUME FD!DiskType, NEW b \in Blocks, \E i \in 1 .. Len(volatile) : Covers(b, i)
  PROVE  \E i \in 1 .. Len(volatile) : Covers(b, i) /\ FD!Read(b) = volatile[i].val
<1>1. volatile \in Seq(FP!Requests) /\ b \in FP!Blocks
  BY DEF FD!DiskType, FD!Requests, FP!Requests, FD!Entries, FP!Entries, FD!Blocks, FP!Blocks, Blocks
<1>2. \E i \in 1 .. Len(volatile) : b \in FP!Extent(volatile[i])
  BY DEF Covers, FD!Extent, FP!Extent
<1>3. PICK i \in 1 .. Len(volatile) :
             /\ b \in FP!Extent(volatile[i])
             /\ \A j \in i + 1 .. Len(volatile) : b \notin FP!Extent(volatile[j])
  BY <1>1, <1>2, FP!LastEntry, SizesAssumption, ValuesAssumption
<1>4. FP!ApplyAll(committed, volatile)[b] = volatile[i].val
  BY <1>1, <1>3, FP!ApplyLast, SizesAssumption, ValuesAssumption
<1>5. FD!Read(b) = FP!ApplyAll(committed, volatile)[b]
  BY DEF FD!Read, FD!Overlay, FP!Overlay, FD!ApplyAll, FP!ApplyAll, FD!Max, FP!Max,
         FD!Extent, FP!Extent, FD!Blocks, FP!Blocks
<1> QED
  BY <1>3, <1>4, <1>5 DEF Covers, FD!Extent, FP!Extent

\* What a read shows is a value.
LEMMA ReadType ==
  ASSUME FD!DiskType
  PROVE  FD!ApplyAll(committed, volatile) \in [Blocks -> Values]
<1>1. volatile \in Seq(FP!Requests) /\ committed \in [FP!Blocks -> Values]
  BY DEF FD!DiskType, FD!Requests, FP!Requests, FD!Entries, FP!Entries, FD!Blocks, FP!Blocks, Blocks
<1>2. FP!ApplyAll(committed, volatile) \in [FP!Blocks -> Values]
  BY <1>1, FP!OverlayType, SizesAssumption, ValuesAssumption DEF FP!ApplyAll
<1> QED
  BY <1>2 DEF FD!Overlay, FP!Overlay, FD!ApplyAll, FP!ApplyAll, FD!Max, FP!Max,
              FD!Extent, FP!Extent, FD!Blocks, FP!Blocks, Blocks

\* With an empty cache a read shows the medium, and the cache fits.
LEMMA DiskEmpty ==
  ASSUME NEW image0 \in [Blocks -> Values]
  PROVE  /\ <<>> \in Seq(FD!Requests) /\ FD!Bytes(<<>>) <= CacheCap /\ Len(<<>>) = 0
         /\ \A b \in Blocks : FD!ApplyAll(image0, <<>>)[b] = image0[b]
<1>1. FP!Bytes(<<>>) = 0
  BY FP!BytesEmpty, SizesAssumption, ValuesAssumption
<1>2. FD!Bytes(<<>>) = 0
  BY <1>1 DEF FD!Blocks, FP!Blocks, FD!Bytes, FP!Bytes, FD!Cells, FP!Cells, FD!Extent,
         FP!Extent, FD!Cardinality, FP!Cardinality, FD!IsFiniteSet, FP!IsFiniteSet
<1>3. \A b \in FP!Blocks : FP!ApplyAll(image0, <<>>)[b] = image0[b]
  BY FP!ReadEmpty, SizesAssumption, ValuesAssumption
<1>4. \A b \in Blocks : FD!ApplyAll(image0, <<>>)[b] = image0[b]
  BY <1>3 DEF FD!Overlay, FP!Overlay, FD!ApplyAll, FP!ApplyAll, FD!Max, FP!Max,
              FD!Extent, FP!Extent, FD!Blocks, FP!Blocks, Blocks
<1> QED
  BY <1>2, <1>4, SizesAssumption

\* A power loss leaves on each block what the medium or a cached entry held.
LEMMA DiskCrash ==
  ASSUME FD!DiskType, NEW kept \in FD!Survivors, FD!Crash(kept)
  PROVE  /\ committed' \in [Blocks -> Values] /\ volatile' = <<>>
         /\ \A b \in Blocks :
              \/ committed'[b] = committed[b]
              \/ \E i \in 1 .. Len(volatile) : Covers(b, i) /\ committed'[b] = volatile[i].val
<1>1. FP!DiskType /\ kept \in FP!Survivors /\ FP!Crash(kept)
  BY DEF FD!Requests, FP!Requests, FD!Entries, FP!Entries, FD!Blocks, FP!Blocks,
         FD!DiskType, FP!DiskType, FD!Bytes, FP!Bytes, FD!Cells, FP!Cells, FD!Extent,
         FP!Extent, FD!Cardinality, FP!Cardinality, FD!IsFiniteSet, FP!IsFiniteSet,
         FD!Crash, FP!Crash, FD!CrashImage, FP!CrashImage, FD!Overlay, FP!Overlay,
         FD!Max, FP!Max, FD!Survivors, FP!Survivors
<1>2. /\ committed' \in [FP!Blocks -> Values] /\ volatile' = <<>>
      /\ \A b \in FP!Blocks :
           \/ committed'[b] = committed[b]
           \/ \E i \in 1 .. Len(volatile) :
                b \in FP!Extent(volatile[i]) /\ committed'[b] = volatile[i].val
  BY <1>1, FP!CrashStep, SizesAssumption, ValuesAssumption
<1> QED
  BY <1>2 DEF Covers, FP!Extent, FD!Extent, Blocks, FP!Blocks, FD!Blocks

-----------------------------------------------------------------------------
(* The data.                                                               *)

DataType ==
  /\ FD!DiskType
  /\ dirty \subseteq Blocks /\ loose \subseteq Blocks /\ lost \subseteq Blocks
  /\ image \in [Blocks -> Values]
  /\ legal \in [Blocks -> SUBSET Values]
  /\ during \in [Tags -> [Blocks -> SUBSET Values]]

\* What may still reach the medium is legal there: entries of the cache and
\* writes on their way.
CacheLegal ==
  /\ \A b \in Blocks : \A i \in 1 .. Len(volatile) : Covers(b, i) => volatile[i].val \in legal[b]
  /\ \A t \in Tags : Below(t) => io[t].val \in legal[io[t].blk]

\* A flush under way covers what the device shows and the writes on their way;
\* once performed and honest, also what the medium and the cache hold.
FlushCovers ==
  \A t \in Flushing :
    /\ \A b \in Blocks : FD!Read(b) \in during[t][b]
    /\ \A u \in Tags : Below(u) => io[u].val \in during[t][io[u].blk]
    /\ res[t] = "ok" =>
         \A b \in Blocks :
           /\ committed[b] \in during[t][b]
           /\ \A i \in 1 .. Len(volatile) : Covers(b, i) => volatile[i].val \in during[t][b]

\* A cached block is being written, reported, or was cached at the checkpoint.
CacheKnown ==
  \A b \in Blocks : \A i \in 1 .. Len(volatile) : Covers(b, i) => b \in Busy \cup dirty \cup loose

DInv == DataType /\ FlushDurable /\ DumpCovers /\ CacheLegal /\ FlushCovers /\ CacheKnown

IInv == QInv /\ DInv

\* The steps that change neither data nor requests.
LEMMA DataSame ==
  DInv /\ UNCHANGED <<diskVars, ioVars, trackVars, clientVars, cacheVars>> => DInv'
BY DEF DInv, DataType, FlushDurable, DumpCovers, CacheLegal, FlushCovers, CacheKnown, Busy,
       Writers, Flushing, Below, Covers, diskVars, ioVars, trackVars, clientVars, cacheVars,
       FD!DiskType, FD!Read

\* A write carries a block of the device and a value; the lower request is for
\* that block.
LEMMA WriteRequest ==
  ASSUME QInv, NEW t \in Tags, io[t].op = "write"
  PROVE  LET e == [off |-> io[t].blk, len |-> 1, val |-> io[t].val]
         IN  /\ io[t].blk \in Blocks /\ io[t].val \in Values
             /\ e \in FD!Requests /\ FD!Extent(e) = {io[t].blk}
             /\ t \notin Flushing /\ io[t].blk \in Busy
<1>1. io[t] \in [op : {"write"}, blk : Blocks, val : Values]
  BY DEF QInv, QueueType, Requests, NoIO
<1>2. io[t].blk \in Blocks /\ io[t].val \in Values
  BY <1>1
<1>3. io[t].blk \in 0 .. NrBlocks - 1 /\ NrBlocks \in Nat \ {0}
  BY <1>2, SizesAssumption DEF Blocks, FD!Blocks
<1> DEFINE e == [off |-> io[t].blk, len |-> 1, val |-> io[t].val]
<1>4. e \in FD!Requests
  BY <1>2, <1>3 DEF FD!Requests, FD!Entries, FD!Blocks
<1>5. FD!Extent(e) = {io[t].blk}
  BY <1>3 DEF FD!Extent
<1>6. t \notin Flushing /\ io[t].blk \in Busy
  BY <1>2 DEF Flushing, Busy, Writers
<1> QED
  BY <1>2, <1>4, <1>5, <1>6

\* A write is performed, in whole or in part: the cache gets its block, which
\* stays busy; every flush under way was told of the value.
LEMMA DataWrite ==
  ASSUME IInv, NEW t \in Tags, Below(t),
         FD!PushVolatile([off |-> io[t].blk, len |-> 1, val |-> io[t].val]),
         NEW r \in {"ok", "eio"}, res' = [res EXCEPT ![t] = r],
         UNCHANGED <<io, trackVars, clientVars, cacheVars>>
  PROVE  DInv'
<1> DEFINE e == [off |-> io[t].blk, len |-> 1, val |-> io[t].val]
           x == io[t].blk
<1>1. /\ x \in Blocks /\ io[t].val \in Values /\ e \in FD!Requests
      /\ FD!Extent(e) = {x} /\ t \notin Flushing /\ x \in Busy
  BY WriteRequest DEF IInv, Below
<1>2. /\ FD!DiskType'
      /\ \A b \in Blocks : FD!Read(b)' = IF b \in FD!Extent(e) THEN e.val ELSE FD!Read(b)
      /\ \A b \in Blocks : \A i \in 1 .. Len(volatile') :
           b \in FD!Extent(volatile'[i]) =>
             \/ b \in FD!Extent(e) /\ volatile'[i].val = e.val
             \/ \E k \in 1 .. Len(volatile) : Covers(b, k) /\ volatile'[i].val = volatile[k].val
      /\ \A b \in Blocks :
           \/ committed'[b] = committed[b]
           \/ b \in FD!Extent(e) /\ committed'[b] = e.val
           \/ \E k \in 1 .. Len(volatile) : Covers(b, k) /\ committed'[b] = volatile[k].val
  BY <1>1, DiskPush DEF IInv, DInv, DataType
<1> DEFINE v == io[t].val
<1>3. \A b \in Blocks : FD!Read(b)' = IF b = x THEN v ELSE FD!Read(b)
  BY <1>1, <1>2
<1>4. \A b \in Blocks : \A i \in 1 .. Len(volatile') : Covers(b, i)' =>
           \/ b = x /\ volatile'[i].val = v
           \/ \E k \in 1 .. Len(volatile) : Covers(b, k) /\ volatile'[i].val = volatile[k].val
  BY <1>1, <1>2 DEF Covers
<1>5. \A b \in Blocks :
           \/ committed'[b] = committed[b]
           \/ b = x /\ committed'[b] = v
           \/ \E k \in 1 .. Len(volatile) : Covers(b, k) /\ committed'[b] = volatile[k].val
  BY <1>1, <1>2
<1>6. /\ Busy' = Busy /\ Flushing' = Flushing
      /\ UNCHANGED <<io, dirty, image, during, legal, loose, lost>>
  BY DEF Busy, Writers, Flushing, trackVars, clientVars, cacheVars
<1>7. /\ \A u \in Tags : Below(u)' => Below(u)
      /\ \A f \in Flushing : f \in Tags /\ res'[f] = res[f]
  BY <1>1, <1>6 DEF Below, Flushing, IInv, QInv, QueueType
<1>8. v \in legal[x] /\ \A f \in Flushing : v \in during[f][x]
  BY DEF IInv, DInv, CacheLegal, FlushCovers
<1> HIDE DEF e, x, v
<1>9. DataType'
  BY <1>2, <1>6 DEF IInv, DInv, DataType
<1>10. FlushDurable'
  BY <1>1, <1>5, <1>6, <1>8 DEF IInv, DInv, FlushDurable, CacheLegal
<1>11. DumpCovers'
  BY <1>1, <1>3, <1>6 DEF IInv, DInv, DumpCovers
<1>12. CacheLegal'
  BY <1>4, <1>6, <1>7, <1>8 DEF IInv, DInv, CacheLegal
<1>13. FlushCovers'
  <2> SUFFICES ASSUME NEW f \in Flushing
               PROVE  /\ \A b \in Blocks : FD!Read(b)' \in during[f][b]
                      /\ \A u \in Tags : Below(u)' => io[u].val \in during[f][io[u].blk]
                      /\ res[f] = "ok" =>
                           \A b \in Blocks :
                             /\ committed'[b] \in during[f][b]
                             /\ \A i \in 1 .. Len(volatile') :
                                  Covers(b, i)' => volatile'[i].val \in during[f][b]
    BY <1>6, <1>7 DEF FlushCovers
  <2>1. \A b \in Blocks : FD!Read(b)' \in during[f][b]
    BY <1>3, <1>8 DEF IInv, DInv, FlushCovers
  <2>2. \A u \in Tags : Below(u)' => io[u].val \in during[f][io[u].blk]
    BY <1>7 DEF IInv, DInv, FlushCovers
  <2>3. ASSUME res[f] = "ok", NEW b \in Blocks
        PROVE  committed'[b] \in during[f][b]
    BY <1>5, <1>8, <2>3 DEF IInv, DInv, FlushCovers
  <2>4. ASSUME res[f] = "ok", NEW b \in Blocks, NEW i \in 1 .. Len(volatile'), Covers(b, i)'
        PROVE  volatile'[i].val \in during[f][b]
    BY <1>4, <1>8, <2>4 DEF IInv, DInv, FlushCovers
  <2> QED
    BY <2>1, <2>2, <2>3, <2>4
<1>14. CacheKnown'
  BY <1>1, <1>4, <1>6 DEF IInv, DInv, CacheKnown
<1> QED
  BY <1>9, <1>10, <1>11, <1>12, <1>13, <1>14 DEF DInv

\* A request fails, or a flush lies: nothing reaches the disk.
LEMMA DataNothing ==
  ASSUME IInv, NEW t \in Tags,
         NEW r \in {"lie", "eio"}, res' = [res EXCEPT ![t] = r],
         UNCHANGED <<io, diskVars, trackVars, clientVars, cacheVars>>
  PROVE  DInv'
<1>1. /\ Busy' = Busy /\ Flushing' = Flushing
      /\ UNCHANGED <<io, committed, volatile, dirty, image, during, legal, loose, lost>>
  BY DEF Busy, Writers, Flushing, trackVars, clientVars, cacheVars, diskVars
<1>2. /\ \A u \in Tags : Below(u)' => Below(u)
      /\ \A f \in Flushing : res'[f] = "ok" => res[f] = "ok"
  BY <1>1 DEF Below, Flushing, IInv, QInv, QueueType
<1>3. \A b \in Blocks : FD!Read(b)' = FD!Read(b)
  BY <1>1 DEF FD!Read
<1>4. \A b, i : Covers(b, i)' <=> Covers(b, i)
  BY <1>1 DEF Covers
<1>5. DataType' /\ FlushDurable' /\ DumpCovers'
  BY <1>1, <1>3 DEF IInv, DInv, DataType, FlushDurable, DumpCovers, FD!DiskType
<1>6. CacheLegal' /\ CacheKnown'
  BY <1>1, <1>2, <1>4 DEF IInv, DInv, CacheLegal, CacheKnown
<1>7. FlushCovers'
  BY <1>1, <1>2, <1>3, <1>4 DEF IInv, DInv, FlushCovers
<1> QED
  BY <1>5, <1>6, <1>7 DEF DInv

\* An honest flush commits what a read shows, which every flush under way was
\* told of.
LEMMA DataFlush ==
  ASSUME IInv, NEW t \in Tags, io[t].op = "flush", FD!Flush, loose' = {}, lost' = lost,
         res' = [res EXCEPT ![t] = "ok"], UNCHANGED <<io, trackVars, clientVars>>
  PROVE  DInv'
<1>1. /\ Busy' = Busy /\ Flushing' = Flushing
      /\ UNCHANGED <<io, dirty, image, during, legal, lost>>
  BY DEF Busy, Writers, Flushing, trackVars, clientVars
<1>2. /\ volatile' = <<>> /\ committed' \in [Blocks -> Values]
      /\ \A b \in Blocks : committed'[b] = FD!Read(b)
  BY ReadType DEF FD!Flush, FD!Read, IInv, DInv, DataType
<1>3. /\ <<>> \in Seq(FD!Requests) /\ FD!Bytes(<<>>) <= CacheCap /\ Len(<<>>) = 0
      /\ \A b \in Blocks : FD!ApplyAll(committed', <<>>)[b] = committed'[b]
  BY <1>2, DiskEmpty
<1>4. \A b \in Blocks : FD!Read(b)' = FD!Read(b)
  BY <1>2, <1>3 DEF FD!Read
<1>5. \A u \in Tags : Below(u)' => Below(u)
  BY <1>1 DEF Below, IInv, QInv, QueueType
<1>6. DataType'
  BY <1>1, <1>2, <1>3 DEF IInv, DInv, DataType, FD!DiskType, Blocks
<1>7. FlushDurable'
  <2> SUFFICES ASSUME NEW b \in Blocks
               PROVE  FD!Read(b) \in legal[b]
    BY <1>1, <1>2 DEF FlushDurable
  <2>1. CASE \A i \in 1 .. Len(volatile) : ~ Covers(b, i)
    BY <2>1, ReadUncached DEF IInv, DInv, DataType, FlushDurable
  <2>2. CASE \E i \in 1 .. Len(volatile) : Covers(b, i)
    BY <2>2, ReadCached DEF IInv, DInv, DataType, CacheLegal
  <2> QED
    BY <2>1, <2>2
<1>8. DumpCovers'
  BY <1>1, <1>4 DEF IInv, DInv, DumpCovers
<1>9. CacheLegal' /\ CacheKnown'
  BY <1>1, <1>2, <1>3, <1>5 DEF IInv, DInv, CacheLegal, CacheKnown
<1>10. FlushCovers'
  BY <1>1, <1>2, <1>3, <1>4, <1>5 DEF IInv, DInv, FlushCovers
<1> QED
  BY <1>6, <1>7, <1>8, <1>9, <1>10 DEF DInv

\* A request of a tag is performed on the disk.
LEMMA DataPerform ==
  ASSUME IInv, NEW t \in Tags, io[t] # NoIO, res[t] = "none", Perform(t),
         UNCHANGED <<io, trackVars, clientVars>>
  PROVE  DInv'
<1> DEFINE e == [off |-> io[t].blk, len |-> 1, val |-> io[t].val]
<1>1. CASE io[t].op = "write" /\ FD!Write(e) /\ Result(t, "ok") /\ UNCHANGED cacheVars
  BY <1>1, DataWrite DEF Below, FD!Write, Result
<1>2. ASSUME io[t].op = "write", NEW keep \in 0 .. 1, FD!WriteError(e, keep), Result(t, "eio"),
             UNCHANGED cacheVars
      PROVE  DInv'
  <2>1. CASE keep = 1
    <3>1. [e EXCEPT !.len = keep] = e
      BY <2>1
    <3>2. FD!PushVolatile(e)
      BY <1>2, <2>1, <3>1 DEF FD!WriteError, FD!Write
    <3> QED
      BY <1>2, <3>2, DataWrite DEF Below, Result
  <2>2. CASE keep = 0
    <3>1. UNCHANGED diskVars
      BY <1>2, <2>2 DEF FD!WriteError, FD!disk, diskVars
    <3> QED
      BY <1>2, <3>1, DataNothing DEF Result
  <2> QED
    BY <2>1, <2>2
<1>3. CASE io[t].op = "flush" /\ FD!Flush /\ loose' = {} /\ Result(t, "ok") /\ UNCHANGED lost
  BY <1>3, DataFlush DEF Result
<1>4. CASE FD!FlushLie /\ UNCHANGED loose /\ Result(t, "lie") /\ UNCHANGED lost
  BY <1>4, DataNothing DEF FD!FlushLie, FD!disk, diskVars, Result, cacheVars
<1> QED
  BY <1>1, <1>2, <1>3, <1>4 DEF Perform

\* A write is told to every flush under way; a flush is told of what the
\* device shows and of every write on its way.
LEMMA DataSubmit ==
  ASSUME IInv, NEW t \in Tags, NEW r \in Requests, Submit(t, r)
  PROVE  DInv'
<1>1. /\ io[t] = NoIO /\ io' = [io EXCEPT ![t] = r] /\ Submitted(t, r)
      /\ UNCHANGED <<committed, volatile, res, dirty, image, loose, lost>>
  BY DEF Submit, diskVars, trackVars, cacheVars
<1>2. /\ io \in [Tags -> Requests \cup {NoIO}] /\ res[t] = "none"
      /\ \A u \in Tags : io'[u] = IF u = t THEN r ELSE io[u]
  BY <1>1 DEF IInv, QInv, QueueType, InStep
<1>3. /\ \A b \in Blocks : FD!Read(b)' = FD!Read(b)
      /\ \A b, i : Covers(b, i)' <=> Covers(b, i)
  BY <1>1 DEF FD!Read, Covers
<1>4. Busy \subseteq Busy'
  <2> SUFFICES ASSUME NEW b \in Blocks, NEW u \in Tags, io[u].op = "write", io[u].blk = b
               PROVE  b \in Busy'
    BY DEF Busy, Writers
  <2>1. u # t
    BY <1>1 DEF NoIO
  <2> QED
    BY <1>2, <2>1 DEF Busy, Writers
<1>5. DumpCovers' /\ CacheKnown'
  BY <1>1, <1>3, <1>4 DEF IInv, DInv, DumpCovers, CacheKnown
<1>6. CASE r.op = "write"
  <2>1. r.blk \in Blocks /\ r.val \in Values
    BY <1>6 DEF Requests
  <2>2. /\ legal' = [legal EXCEPT ![r.blk] = @ \cup {r.val}]
        /\ during' = [u \in Tags |-> IF u \in Flushing
                        THEN [during[u] EXCEPT ![r.blk] = @ \cup {r.val}] ELSE during[u]]
    BY <1>1, <1>6 DEF Submitted
  <2>3. Flushing' = Flushing
    BY <1>1, <1>2, <1>6 DEF Flushing, NoIO
  <2>4. /\ legal \in [Blocks -> SUBSET Values] /\ during \in [Tags -> [Blocks -> SUBSET Values]]
    BY DEF IInv, DInv, DataType
  <2>5. /\ legal' \in [Blocks -> SUBSET Values] /\ r.val \in legal'[r.blk]
        /\ \A b \in Blocks : legal[b] \subseteq legal'[b]
    BY <2>1, <2>2, <2>4
  <2>6. /\ during' \in [Tags -> [Blocks -> SUBSET Values]]
        /\ \A f \in Flushing : f \in Tags /\ r.val \in during'[f][r.blk]
        /\ \A f \in Flushing : \A b \in Blocks : during[f][b] \subseteq during'[f][b]
    BY <2>1, <2>2, <2>4 DEF Flushing
  <2>7. \A u \in Tags : Below(u)' => (u = t \/ (Below(u) /\ io[u].blk \in Blocks))
    <3> SUFFICES ASSUME NEW u \in Tags, Below(u)', u # t
                 PROVE  Below(u) /\ io[u].blk \in Blocks
      OBVIOUS
    <3>1. Below(u)
      BY <1>1, <1>2 DEF Below
    <3> QED
      BY <3>1, WriteRequest DEF Below, IInv
  <2>8. DataType'
    BY <1>1, <2>5, <2>6 DEF IInv, DInv, DataType, FD!DiskType
  <2>9. FlushDurable' /\ CacheLegal'
    BY <1>1, <1>2, <1>3, <2>5, <2>7 DEF IInv, DInv, FlushDurable, CacheLegal
  <2>10. FlushCovers'
    <3> SUFFICES ASSUME NEW f \in Flushing
                 PROVE  /\ \A b \in Blocks : FD!Read(b) \in during'[f][b]
                        /\ \A u \in Tags : Below(u)' => io'[u].val \in during'[f][io'[u].blk]
                        /\ res[f] = "ok" =>
                             \A b \in Blocks :
                               /\ committed[b] \in during'[f][b]
                               /\ \A i \in 1 .. Len(volatile) :
                                    Covers(b, i) => volatile[i].val \in during'[f][b]
      BY <1>1, <1>3, <2>3 DEF FlushCovers
    <3>1. \A u \in Tags : Below(u)' => io'[u].val \in during'[f][io'[u].blk]
      BY <1>2, <2>6, <2>7 DEF IInv, DInv, FlushCovers
    <3> QED
      BY <2>6, <3>1 DEF IInv, DInv, FlushCovers
  <2> QED
    BY <1>5, <2>8, <2>9, <2>10 DEF DInv
<1>7. CASE r.op = "flush"
  <2>1. /\ legal' = legal
        /\ during' = [during EXCEPT ![t] = [b \in Blocks |-> {FD!Read(b)} \cup InFlight(b)]]
    BY <1>1, <1>7 DEF Submitted
  <2>2. Flushing' = Flushing \cup {t} /\ t \notin Flushing
    BY <1>1, <1>2, <1>7 DEF Flushing, NoIO
  <2>3. \A b \in Blocks : FD!Read(b) \in Values /\ InFlight(b) \subseteq Values
    <3>1. \A b \in Blocks : FD!Read(b) \in Values
      BY ReadType DEF FD!Read, IInv, DInv, DataType
    <3>2. \A u \in Tags : io[u].op = "write" => io[u].val \in Values
      BY WriteRequest DEF IInv
    <3> QED
      BY <3>1, <3>2 DEF InFlight, Writers
  <2>4. /\ during \in [Tags -> [Blocks -> SUBSET Values]]
        /\ during' \in [Tags -> [Blocks -> SUBSET Values]]
    BY <2>1, <2>3 DEF IInv, DInv, DataType
  <2>5. \A u \in Tags : Below(u)' => Below(u) /\ u # t /\ io'[u] = io[u]
    BY <1>1, <1>2, <1>7 DEF Below
  <2>6. DataType'
    BY <1>1, <2>1, <2>4 DEF IInv, DInv, DataType, FD!DiskType
  <2>7. FlushDurable' /\ CacheLegal'
    BY <1>1, <1>3, <2>1, <2>5 DEF IInv, DInv, FlushDurable, CacheLegal
  <2>8. FlushCovers'
    <3> SUFFICES ASSUME NEW f \in Flushing \cup {t}
                 PROVE  /\ \A b \in Blocks : FD!Read(b) \in during'[f][b]
                        /\ \A u \in Tags : Below(u)' => io'[u].val \in during'[f][io'[u].blk]
                        /\ res[f] = "ok" =>
                             \A b \in Blocks :
                               /\ committed[b] \in during'[f][b]
                               /\ \A i \in 1 .. Len(volatile) :
                                    Covers(b, i) => volatile[i].val \in during'[f][b]
      BY <1>1, <1>3, <2>2 DEF FlushCovers
    <3>1. CASE f = t
      <4>1. \A b \in Blocks : during'[t][b] = {FD!Read(b)} \cup InFlight(b)
        BY <2>1, <2>4
      <4>2. \A u \in Tags : Below(u) => io[u].blk \in Blocks /\ io[u].val \in InFlight(io[u].blk)
        BY WriteRequest DEF IInv, Below, InFlight, Writers
      <4> QED
        BY <1>2, <2>5, <3>1, <4>1, <4>2
    <3>2. CASE f \in Flushing
      <4>1. during'[f] = during[f]
        BY <2>1, <2>2, <2>4, <3>2 DEF Flushing
      <4> QED
        BY <2>5, <3>2, <4>1 DEF IInv, DInv, FlushCovers
    <3> QED
      BY <3>1, <3>2
  <2> QED
    BY <1>5, <2>6, <2>7, <2>8 DEF DInv
<1> QED
  BY <1>6, <1>7 DEF Requests

\* A write is marked before its client sees it end; an honest flush that ends
\* leaves legal only what it covered, which is all there is.
LEMMA DataComplete ==
  ASSUME IInv, NEW t \in Tags, Complete(t)
  PROVE  DInv'
<1>1. /\ res[t] # "none" /\ io' = [io EXCEPT ![t] = NoIO] /\ res' = [res EXCEPT ![t] = "none"]
      /\ dirty' = IF io[t].op = "write" THEN dirty \cup {io[t].blk} ELSE dirty
      /\ legal' = IF io[t].op = "flush" /\ res[t] = "ok"
                    THEN [b \in Blocks |-> legal[b] \cap during[t][b]] ELSE legal
      /\ during' = [during EXCEPT ![t] = [b \in Blocks |-> {}]]
      /\ UNCHANGED <<committed, volatile, image, loose, lost>>
  BY DEF Complete, CompleteWith, MarkIf, Completed, diskVars, cacheVars
<1>2. /\ io \in [Tags -> Requests \cup {NoIO}]
      /\ res \in [Tags -> {"none", "ok", "lie", "eio"}]
      /\ legal \in [Blocks -> SUBSET Values] /\ during \in [Tags -> [Blocks -> SUBSET Values]]
  BY DEF IInv, QInv, QueueType, DInv, DataType
<1>3. /\ \A b \in Blocks : FD!Read(b)' = FD!Read(b)
      /\ \A b, i : Covers(b, i)' <=> Covers(b, i)
  BY <1>1 DEF FD!Read, Covers
<1>4. Busy \cup dirty \subseteq Busy' \cup dirty'
  <2> SUFFICES ASSUME NEW b \in Blocks, NEW u \in Tags, io[u].op = "write", io[u].blk = b
               PROVE  b \in Busy' \cup dirty'
    BY <1>1 DEF Busy, Writers
  <2>1. CASE u = t
    BY <1>1, <2>1
  <2>2. CASE u # t
    BY <1>1, <1>2, <2>2 DEF Busy, Writers
  <2> QED
    BY <2>1, <2>2
<1>5. Flushing' = Flushing \ {t}
  BY <1>1, <1>2 DEF Flushing, NoIO
<1>6. \A u \in Tags : Below(u)' => Below(u) /\ u # t /\ io'[u] = io[u] /\ io[u].blk \in Blocks
  <2> SUFFICES ASSUME NEW u \in Tags, Below(u)'
               PROVE  Below(u) /\ u # t /\ io'[u] = io[u] /\ io[u].blk \in Blocks
    OBVIOUS
  <2>1. Below(u) /\ u # t /\ io'[u] = io[u]
    BY <1>1, <1>2 DEF Below, NoIO
  <2> QED
    BY <2>1, WriteRequest DEF Below, IInv
<1>7. DataType'
  <2>1. dirty' \subseteq Blocks
    BY <1>1, WriteRequest DEF IInv, DInv, DataType
  <2>2. legal' \in [Blocks -> SUBSET Values] /\ during' \in [Tags -> [Blocks -> SUBSET Values]]
    BY <1>1, <1>2
  <2> QED
    BY <1>1, <2>1, <2>2 DEF IInv, DInv, DataType, FD!DiskType
<1>8. DumpCovers' /\ CacheKnown'
  BY <1>1, <1>3, <1>4 DEF IInv, DInv, DumpCovers, CacheKnown
<1>9. FlushDurable' /\ CacheLegal'
  <2>1. CASE io[t].op = "flush" /\ res[t] = "ok"
    <3>1. t \in Flushing /\ \A b \in Blocks : legal'[b] = legal[b] \cap during[t][b]
      BY <1>1, <2>1 DEF Flushing
    <3>2. FlushDurable'
      BY <1>1, <2>1, <3>1 DEF IInv, DInv, FlushDurable, FlushCovers
    <3>3. CacheLegal'
      BY <1>1, <1>3, <1>6, <2>1, <3>1 DEF IInv, DInv, CacheLegal, FlushCovers
    <3> QED
      BY <3>2, <3>3
  <2>2. CASE ~ (io[t].op = "flush" /\ res[t] = "ok")
    BY <1>1, <1>3, <1>6, <2>2 DEF IInv, DInv, FlushDurable, CacheLegal
  <2> QED
    BY <2>1, <2>2
<1>10. FlushCovers'
  <2>1. \A f \in Flushing' : f \in Flushing /\ during'[f] = during[f] /\ res'[f] = res[f]
    BY <1>1, <1>2, <1>5 DEF Flushing
  <2> QED
    BY <1>1, <1>3, <1>6, <2>1 DEF IInv, DInv, FlushCovers
<1> QED
  BY <1>7, <1>8, <1>9, <1>10 DEF DInv

\* A power loss: what survives was legal and, if it changed what the device
\* shows, was known to be at risk.
LEMMA DataPowerLoss ==
  ASSUME IInv, PowerLoss
  PROVE  DInv'
<1>1. PICK kept \in FD!Survivors : FD!Crash(kept)
  BY DEF PowerLoss
<1>2. /\ committed' \in [Blocks -> Values] /\ volatile' = <<>>
      /\ \A b \in Blocks :
           \/ committed'[b] = committed[b]
           \/ \E i \in 1 .. Len(volatile) : Covers(b, i) /\ committed'[b] = volatile[i].val
  BY <1>1, DiskCrash DEF IInv, DInv, DataType
<1>3. /\ <<>> \in Seq(FD!Requests) /\ FD!Bytes(<<>>) <= CacheCap /\ Len(<<>>) = 0
      /\ \A b \in Blocks : FD!ApplyAll(committed', <<>>)[b] = committed'[b]
  BY <1>2, DiskEmpty
<1>4. /\ lost' = lost \cup loose /\ loose' = {}
      /\ during' = [t \in Tags |-> IF t \in Flushing
                     THEN [b \in Blocks |-> during[t][b] \cup {committed'[b]}] ELSE during[t]]
      /\ UNCHANGED <<io, res, dirty, image, legal>>
  BY DEF PowerLoss, ioVars, trackVars
<1>5. /\ Busy' = Busy /\ Flushing' = Flushing /\ \A u : Below(u)' <=> Below(u)
  BY <1>4 DEF Busy, Writers, Flushing, Below
<1>6. \A b \in Blocks : FD!Read(b)' = committed'[b]
  BY <1>2, <1>3 DEF FD!Read
<1>7. during \in [Tags -> [Blocks -> SUBSET Values]]
  BY DEF IInv, DInv, DataType
<1>8. /\ during' \in [Tags -> [Blocks -> SUBSET Values]]
      /\ \A f \in Flushing : \A b \in Blocks : during'[f][b] = during[f][b] \cup {committed'[b]}
  BY <1>2, <1>4, <1>7 DEF Flushing
<1>9. DataType'
  BY <1>2, <1>3, <1>4, <1>8 DEF IInv, DInv, DataType, FD!DiskType, Blocks
<1>10. FlushDurable'
  BY <1>2, <1>4 DEF IInv, DInv, FlushDurable, CacheLegal
<1>11. DumpCovers'
  <2> SUFFICES ASSUME NEW b \in Blocks, image[b] # committed'[b]
               PROVE  b \in Busy \cup dirty \cup lost \cup loose
    BY <1>4, <1>5, <1>6 DEF DumpCovers
  <2>1. CASE \E i \in 1 .. Len(volatile) : Covers(b, i)
    BY <2>1 DEF IInv, DInv, CacheKnown
  <2>2. CASE \A i \in 1 .. Len(volatile) : ~ Covers(b, i)
    <3>1. FD!Read(b) = committed[b] /\ committed'[b] = committed[b]
      BY <1>2, <2>2, ReadUncached DEF IInv, DInv, DataType
    <3> QED
      BY <3>1 DEF IInv, DInv, DumpCovers
  <2> QED
    BY <2>1, <2>2
<1>12. CacheLegal' /\ CacheKnown'
  BY <1>2, <1>3, <1>4, <1>5 DEF IInv, DInv, CacheLegal, CacheKnown
<1>13. FlushCovers'
  <2>1. \A u \in Tags : Below(u) => io[u].blk \in Blocks
    BY WriteRequest DEF IInv, Below
  <2> QED
    BY <1>2, <1>3, <1>4, <1>5, <1>6, <1>8, <2>1 DEF IInv, DInv, FlushCovers
<1> QED
  BY <1>9, <1>10, <1>11, <1>12, <1>13 DEF DInv

\* A checkpoint: the image is what the device shows, and what of it is only
\* cached is loose.
LEMMA DataCheckpoint ==
  ASSUME IInv, Checkpoint
  PROVE  DInv'
<1>1. /\ dirty' = {} /\ image' = [b \in Blocks |-> FD!Read(b)] /\ loose' = Cached /\ lost' = {}
      /\ UNCHANGED <<committed, volatile, io, res, during, legal>>
  BY DEF Checkpoint, diskVars, ioVars, clientVars
<1>2. /\ \A b \in Blocks : FD!Read(b)' = FD!Read(b)
      /\ \A b, i : Covers(b, i)' <=> Covers(b, i)
  BY <1>1 DEF FD!Read, Covers
<1>3. /\ Flushing' = Flushing /\ \A u : Below(u)' <=> Below(u)
  BY <1>1 DEF Flushing, Below
<1>4. DataType'
  <2>1. image' \in [Blocks -> Values]
    BY <1>1, ReadType DEF FD!Read, IInv, DInv, DataType
  <2> QED
    BY <1>1, <2>1 DEF IInv, DInv, DataType, FD!DiskType, Cached
<1>5. FlushDurable' /\ DumpCovers'
  BY <1>1, <1>2 DEF IInv, DInv, FlushDurable, DumpCovers
<1>6. CacheLegal' /\ FlushCovers'
  BY <1>1, <1>2, <1>3 DEF IInv, DInv, CacheLegal, FlushCovers
<1>7. CacheKnown'
  <2>1. volatile \in Seq(FD!Requests)
    BY DEF IInv, DInv, DataType, FD!DiskType
  <2>2. DOMAIN volatile = 1 .. Len(volatile)
    BY <2>1
  <2> QED
    BY <1>1, <1>2, <2>2 DEF CacheKnown, Cached, Covers
<1> QED
  BY <1>4, <1>5, <1>6, <1>7 DEF DInv

\* Blank devices satisfy the data part.
LEMMA DataInit == Init => DInv
<1> SUFFICES ASSUME Init
             PROVE  DInv
  OBVIOUS
<1>1. /\ committed = [b \in Blocks |-> 0] /\ volatile = <<>> /\ io = [t \in Tags |-> NoIO]
      /\ res = [t \in Tags |-> "none"] /\ dirty = Blocks /\ image = [b \in Blocks |-> 0]
      /\ during = [t \in Tags |-> [b \in Blocks |-> {}]] /\ legal = [b \in Blocks |-> {0}]
      /\ loose = {} /\ lost = {}
  BY DEF Init, FD!Init, Blocks
<1>2. committed \in [Blocks -> Values]
  BY <1>1, ValuesAssumption
<1>3. <<>> \in Seq(FD!Requests) /\ FD!Bytes(<<>>) <= CacheCap /\ Len(<<>>) = 0
  BY <1>2, DiskEmpty
<1>4. DataType
  BY <1>1, <1>2, <1>3, ValuesAssumption DEF DataType, FD!DiskType, Blocks
<1>5. FlushDurable /\ DumpCovers
  BY <1>1 DEF FlushDurable, DumpCovers
<1>6. CacheLegal /\ FlushCovers /\ CacheKnown
  BY <1>1, <1>3 DEF CacheLegal, FlushCovers, CacheKnown, Flushing, Below, NoIO
<1> QED
  BY <1>4, <1>5, <1>6 DEF DInv

-----------------------------------------------------------------------------
(* Theorems.                                                               *)

\* Every step of the stack keeps the invariant.
LEMMA NextInv == IInv /\ [Next]_vars => IInv'
<1> SUFFICES ASSUME IInv, [Next]_vars
             PROVE  IInv'
  OBVIOUS
<1>0. QInv
  BY DEF IInv
<1>1. ASSUME NEW t \in Tags, NEW r \in Requests, Submit(t, r)
      PROVE  IInv'
  BY <1>0, <1>1, QueueSubmit, DataSubmit DEF IInv
<1>2. ASSUME NEW t \in Tags, Serve(t)
      PROVE  IInv'
  <2>1. QInv' /\ io[t] # NoIO /\ res[t] = "none"
    BY <1>0, <1>2, QueueServe
  <2>2. DInv'
    BY <1>2, <2>1, DataPerform DEF Serve
  <2> QED
    BY <2>1, <2>2 DEF IInv
<1>3. ASSUME NEW t \in Tags, Hang(t)
      PROVE  IInv'
  BY <1>0, <1>3, QueueHang, DataSame DEF IInv, Hang
<1>4. ASSUME NEW t \in Tags, Complete(t)
      PROVE  IInv'
  BY <1>0, <1>4, QueueComplete, DataComplete DEF IInv
<1>5. CASE ThawCommand \/ ThawWrite
  BY <1>0, <1>5, QueueCommand, DataSame DEF IInv, ThawCommand, ThawWrite
<1>6. CASE WakeStep
  BY <1>0, <1>6, QueueWake, DataSame DEF IInv, WakeStep
<1>7. CASE Thawed
  <2> DEFINE t == Head(tags[Queue])
  <2>1. QInv' /\ t \in Tags /\ io[t] # NoIO /\ res[t] = "none"
    BY <1>0, <1>7, QueueThawed
  <2>2. /\ UNCHANGED <<io, trackVars, clientVars>>
        /\ \/ Perform(t)
           \/ Result(t, "eio") /\ UNCHANGED <<diskVars, cacheVars>>
    BY <1>7 DEF Thawed
  <2> HIDE DEF t
  <2>3. CASE Perform(t)
    BY <2>1, <2>2, <2>3, DataPerform DEF IInv
  <2>4. CASE Result(t, "eio") /\ UNCHANGED <<diskVars, cacheVars>>
    BY <2>1, <2>2, <2>4, DataNothing DEF IInv, Result
  <2> QED
    BY <2>2, <2>3, <2>4
<1>8. CASE PowerLoss
  BY <1>0, <1>8, QueueSame, DataPowerLoss DEF IInv, PowerLoss
<1>9. CASE Checkpoint
  BY <1>0, <1>9, QueueSame, DataCheckpoint DEF IInv, Checkpoint
<1>10. CASE UNCHANGED vars
  BY <1>0, <1>10, QueueSame, DataSame DEF IInv, vars
<1> QED
  BY <1>1, <1>2, <1>3, <1>4, <1>5, <1>6, <1>7, <1>8, <1>9, <1>10 DEF Next

\* The invariant of the stack holds for any number of tags and blocks, any
\* values and any cache capacity.
THEOREM Invariance == Spec => []IInv
<1>1. Init => IInv
  BY QueueInit, DataInit DEF IInv
<1> QED
  BY <1>1, NextInv, PTL DEF Spec

\* Types of both layers; the parked list of ublkfault never outgrows the queue,
\* and ublkera waits for a result exactly while the request is below.
THEOREM TypeCorrect == Spec => []TypeOK
<1>1. IInv => TypeOK
  <2> SUFFICES ASSUME IInv
               PROVE  TypeOK
    OBVIOUS
  <2>1. FQ!TypeOK
    BY QueueTypeOK DEF IInv
  <2> QED
    BY <2>1 DEF IInv, QInv, QueueType, InStep, DInv, DataType, TypeOK
<1> QED
  BY <1>1, Invariance, PTL

\* What an fsync through ublkera acknowledged survives a power loss below it.
THEOREM FsyncDurable == Spec => []FlushDurable
<1>1. IInv => FlushDurable
  BY DEF IInv, DInv
<1> QED
  BY <1>1, Invariance, PTL

\* A dump covers every block that differs from the consumer's image, however
\* its writes failed, hung, were thawed or were lost.
THEOREM DumpComplete == Spec => []DumpCovers
<1>1. IInv => DumpCovers
  BY DEF IInv, DInv
<1> QED
  BY <1>1, Invariance, PTL

=============================================================================
