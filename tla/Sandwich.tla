------------------------------ MODULE Sandwich ------------------------------
(***************************************************************************)
(* ublkera stacked on the fault device, as docs/testing.md 3.5 runs it:    *)
(* clients -> ublkera (IO target and change tracking) -> ublkfault         *)
(* (FaultQueue serves, parks and thaws; FaultDisk holds the data).         *)
(*                                                                         *)
(* The two components are instances, so a step of the lower device is the  *)
(* queue's step together with what it does to the disk. The change tracker *)
(* is the one EraMap implements (ChangeTracking): marking is one step. A   *)
(* backing IO of ublkera's tag t uses the lower slot t. ublkera opens its  *)
(* backing O_DIRECT, so nothing is cached in between (--buffered, which    *)
(* puts the page cache there, is not modelled), and the fault device has   *)
(* one queue, the default of serve --queues. The policy of the fault       *)
(* device (set) is any: each request may err, lie or hang.                 *)
(***************************************************************************)
EXTENDS Integers, Sequences, FiniteSets

CONSTANTS
  NrBlocks, CacheCap, Values,   \* of FaultDisk; a chunk is one block
  Queue,                        \* the one queue of the fault device
  Tags                          \* its slots, and ublkera's tags

ASSUME SizesAssumption == NrBlocks \in Nat \ {0} /\ CacheCap \in Nat
ASSUME ValuesAssumption == 0 \in Values
ASSUME TagsAssumption == IsFiniteSet(Tags)

VARIABLES
  committed, volatile,
  slot, parked, thawResult, commanding, efd, poll, pc, thaw, tags, owed, wrong,
  io,        \* the request each upper tag carries, or NoIO
  res,       \* result of its backing IO waiting to be handled, or "none"
  dirty,     \* chunks a dump --since the consumer's cursor reports
  image,     \* the device at the checkpoint of that cursor
  during,    \* history: values each block held or was given during a flush
  legal,     \* history: values each block may have after a power loss
  loose,     \* history: blocks cached at that checkpoint, not flushed since
  lost       \* history: blocks that were loose at a power loss

FD == INSTANCE FaultDisk
FQ == INSTANCE FaultQueue WITH Queues <- {Queue}

diskVars    == <<committed, volatile>>
queueVars   == <<slot, parked, thawResult, commanding, efd, poll, pc, thaw, tags,
                 owed, wrong>>
ioVars      == <<io, res>>
trackVars   == <<dirty, image>>
clientVars  == <<during, legal>>
cacheVars   == <<loose, lost>>
vars        == <<diskVars, queueVars, ioVars, trackVars, clientVars,
                 cacheVars>>

Blocks == FD!Blocks

NoIO == [op |-> "none", blk |-> 0, val |-> 0]

\* Client requests: a discard is a write of zeroes to the fault device; reads
\* change nothing in either layer.
Requests ==
  [op : {"write"}, blk : Blocks, val : Values]
  \cup {[op |-> "flush", blk |-> 0, val |-> 0]}

Writers(b) == {t \in Tags : io[t].op = "write" /\ io[t].blk = b}
Busy       == {b \in Blocks : Writers(b) # {}}
InFlight(b) == {io[t].val : t \in Writers(b)}

Init ==
  /\ FD!Init
  /\ FQ!Init
  /\ io = [t \in Tags |-> NoIO]
  /\ res = [t \in Tags |-> "none"]
  /\ dirty = Blocks
  /\ image = [b \in Blocks |-> 0]
  /\ during = [t \in Tags |-> [b \in Blocks |-> {}]]
  /\ legal = [b \in Blocks |-> {0}]
  /\ loose = {}
  /\ lost = {}

-----------------------------------------------------------------------------
(* Clients and ublkera's IO target.                                        *)

Flushing == {t \in Tags : io[t].op = "flush"}

\* The history of a submission: a flush covers what its blocks hold or are
\* being given; a write may be covered by every flush under way.
Submitted(t, r) ==
  \/ /\ r.op = "flush"
     /\ during' = [during EXCEPT ![t] =
                     [b \in Blocks |-> {FD!Read(b)} \cup InFlight(b)]]
     /\ UNCHANGED legal
  \/ /\ r.op = "write"
     /\ during' = [u \in Tags |->
                     IF u \in Flushing THEN [during[u] EXCEPT ![r.blk] = @ \cup {r.val}]
                                       ELSE during[u]]
     /\ legal' = [legal EXCEPT ![r.blk] = @ \cup {r.val}]

\* Fault variant: no volatile cache is advertised, so a flush is completed
\* above ublkera and never forwarded.
SubmitNoFlush(t, r) ==
  /\ io[t] = NoIO /\ res[t] = "none"
  /\ io' = [io EXCEPT ![t] = r]
  /\ \/ r.op # "flush" /\ FQ!Deliver(Queue, t) /\ UNCHANGED res
     \/ r.op = "flush" /\ res' = [res EXCEPT ![t] = "ok"] /\ UNCHANGED queueVars
  /\ Submitted(t, r)
  /\ UNCHANGED <<diskVars, trackVars, cacheVars>>

\* A client's request reaches ublkera on a free tag, which submits the backing
\* IO: a write, or an fsync for a flush. Opened O_DIRECT, the backing sees each
\* as it is.
Submit(t, r) ==
  /\ io[t] = NoIO
  /\ io' = [io EXCEPT ![t] = r]
  /\ FQ!Deliver(Queue, t)
  /\ Submitted(t, r)
  /\ UNCHANGED <<diskVars, res, trackVars, cacheVars>>

\* The history of a completion: an honest flush that succeeded makes what it
\* covered durable.
Completed(t) ==
  /\ legal' = IF io[t].op = "flush" /\ res[t] = "ok"
                THEN [b \in Blocks |-> legal[b] \cap during[t][b]] ELSE legal
  /\ during' = [during EXCEPT ![t] = [b \in Blocks |-> {}]]

\* What the handler does to the tracker once the backing IO has ended.
MarkIf(cond, t) ==
  /\ dirty' = IF cond THEN dirty \cup {io[t].blk} ELSE dirty
  /\ UNCHANGED image

CompleteWith(t, cond) ==
  /\ res[t] # "none"
  /\ MarkIf(cond, t)
  /\ Completed(t)
  /\ io' = [io EXCEPT ![t] = NoIO]
  /\ res' = [res EXCEPT ![t] = "none"]
  /\ UNCHANGED <<diskVars, queueVars, cacheVars>>

\* Fault variant: only a write that succeeded is marked.
CompleteSuccessOnly(t) ==
  CompleteWith(t, io[t].op = "write" /\ res[t] # "eio")

\* Phase BACKEND: every data-changing op is marked whatever its result, and
\* then the client sees the result.
Complete(t) == CompleteWith(t, io[t].op = "write")

-----------------------------------------------------------------------------
(* The fault device.                                                       *)

Result(t, r) == res' = [res EXCEPT ![t] = r]

\* perform: a write may be injected an error, whole or in part before it; a
\* flush may be a lie. Blocks are no longer loose once an honest flush has
\* committed them.
Perform(t) ==
  LET r == io[t]
      e == [off |-> r.blk, len |-> 1, val |-> r.val]
  IN  \/ /\ r.op = "write"
         /\ \/ FD!Write(e) /\ Result(t, "ok")
            \/ \E keep \in 0 .. 1 : FD!WriteError(e, keep) /\ Result(t, "eio")
         /\ UNCHANGED cacheVars
      \/ /\ r.op = "flush"
         /\ \/ FD!Flush /\ loose' = {} /\ Result(t, "ok")
            \/ FD!FlushLie /\ UNCHANGED loose /\ Result(t, "lie")
         /\ UNCHANGED lost

Serve(t) ==
  /\ FQ!Serve(Queue, t)
  /\ Perform(t)
  /\ UNCHANGED <<io, trackVars, clientVars>>

Hang(t) ==
  /\ FQ!Park(Queue, t)
  /\ UNCHANGED <<diskVars, ioVars, trackVars, clientVars, cacheVars>>

\* A thawed request is performed now or failed, as the thaw commanded.
Thawed ==
  /\ FQ!Release(Queue)
  /\ LET t == Head(tags[Queue])
     IN  IF thaw[Queue] = "ok" THEN Perform(t)
         ELSE Result(t, "eio") /\ UNCHANGED <<diskVars, cacheVars>>
  /\ UNCHANGED <<io, trackVars, clientVars>>

WakeStep ==
  /\ FQ!Wake(Queue)
  /\ UNCHANGED <<diskVars, ioVars, trackVars, clientVars, cacheVars>>

ThawWrite ==
  /\ FQ!ThawWrite
  /\ UNCHANGED <<diskVars, ioVars, trackVars, clientVars, cacheVars>>

ThawCommand ==
  /\ \E r \in {"ok", "eio"} : FQ!ThawStore(r)
  /\ UNCHANGED <<diskVars, ioVars, trackVars, clientVars, cacheVars>>

\* The crash command: power loss of the lower device alone. A flush under
\* way covers what survived.
PowerLoss ==
  /\ ~commanding
  /\ \E kept \in FD!Survivors : FD!Crash(kept)
  /\ during' = [t \in Tags |->
                  IF t \in Flushing THEN [b \in Blocks |-> during[t][b] \cup {committed'[b]}]
                                    ELSE during[t]]
  /\ lost' = lost \cup loose
  /\ loose' = {}
  /\ UNCHANGED <<queueVars, ioVars, trackVars, legal>>

-----------------------------------------------------------------------------
\* The consumer takes a checkpoint and an image of the device as of then (how
\* it gets one from the live device is EraMap's matter). The image shows the
\* cached content too, which a power loss may still take back.
Cached == {b \in Blocks : \E i \in DOMAIN volatile : b \in FD!Extent(volatile[i])}

Checkpoint ==
  /\ dirty' = {}
  /\ image' = [b \in Blocks |-> FD!Read(b)]
  /\ loose' = Cached
  /\ lost' = {}
  /\ UNCHANGED <<diskVars, queueVars, ioVars, clientVars>>

-----------------------------------------------------------------------------
Next ==
  \/ \E t \in Tags : \/ \E r \in Requests : Submit(t, r)
                     \/ Serve(t) \/ Hang(t) \/ Complete(t)
  \/ ThawCommand \/ ThawWrite \/ WakeStep \/ Thawed
  \/ PowerLoss
  \/ Checkpoint

Spec == Init /\ [][Next]_vars

\* The queue thread takes the events of its ring in turn, so a thaw event is
\* reached although requests keep coming, and the control thread finishes the
\* command it has begun. Nothing makes a client command a thaw.
Fairness == WF_vars(WakeStep \/ Thawed) /\ WF_vars(ThawWrite)

FairSpec == Spec /\ Fairness

-----------------------------------------------------------------------------
(* Properties.                                                             *)

\* Types of both layers; what is parked at the fault device is carried by a
\* tag of ublkera, and no result waits for a request that is still below.
TypeOK ==
  /\ FD!DiskType
  /\ FQ!TypeOK
  /\ io \in [Tags -> Requests \cup {NoIO}]
  /\ res \in [Tags -> {"none", "ok", "lie", "eio"}]
  /\ \A t \in Tags : (io[t] # NoIO /\ res[t] = "none") <=> slot[<<Queue, t>>] # "kernel"
  /\ dirty \subseteq Blocks /\ loose \subseteq Blocks /\ lost \subseteq Blocks
  /\ image \in [Blocks -> Values]
  /\ legal \in [Blocks -> SUBSET Values]
  /\ during \in [Tags -> [Blocks -> SUBSET Values]]

\* docs/testing.md 3.5: what an fsync acknowledged remains across a power
\* loss of the lower device, seen through ublkera: whatever was parked,
\* thawed or failed meanwhile, the medium holds a value that was current when
\* the last honest flush was submitted or was written since.
FlushDurable == \A b \in Blocks : committed[b] \in legal[b]

\* docs/testing.md 3.5: writes that failed, hung, were thawed either way, or
\* were lost by a power loss appear in the dump: a block that differs from
\* the consumer's image is being written or is reported, unless a power loss
\* took back what the image had from the cache and nobody had flushed.
DumpCovers ==
  \A b \in Blocks : image[b] # FD!Read(b) => b \in Busy \cup dirty \cup lost

=============================================================================
