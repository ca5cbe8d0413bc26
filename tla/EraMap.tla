------------------------------- MODULE EraMap -------------------------------
(***************************************************************************)
(* The data plane of one tracked device: the lock-free era map of          *)
(* src/era.rs, the per-tag IO state machine of src/target.rs that stamps   *)
(* it, the checkpoint and dump requests that the single control thread     *)
(* runs against it (src/manager.rs), and the incremental-backup consumer   *)
(* those requests exist for (src/bin/chaos.rs, op_backup_verify).          *)
(*                                                                         *)
(* Every access to a shared atomic is a step of its own: the two loads of  *)
(* current_era in mark_write, each fetch_max on a chunk, the fetch_add of  *)
(* checkpoint and each load of the ranges_since scan interleave freely     *)
(* between queue threads, the control thread and the consumer.             *)
(*                                                                         *)
(* What is abstracted: data is reduced to "the consumer's image of this    *)
(* chunk may differ from the device" (stale); byte offsets are reduced to  *)
(* chunk numbers (the arithmetic is in ChunkRanges); persistence is in     *)
(* MetaStore.                                                              *)
(***************************************************************************)
EXTENDS Integers

CONSTANTS
  NrChunks,     \* number of chunks of the device (eras.len())
  Tags,         \* IO slots of all queues
  Queues,       \* queue threads
  QueueOf,      \* the queue that owns each tag
  Ops,          \* ops the driver delivers (init_tgt advertises DISCARD only
                \* when the backing supports it)
  MaxEra        \* bound: no checkpoint once current_era has reached it

ASSUME ChunksAssumption == NrChunks \in Nat \ {0}
ASSUME QueuesAssumption == QueueOf \in [Tags -> Queues]
ASSUME MaxEraAssumption == MaxEra \in Nat \ {0}

Chunks == 0 .. NrChunks - 1

NoCursor == -1  \* the consumer holds no cursor: its next backup is a full copy

DataOps == {"write", "discard"}
PassOps == DataOps \cup {"read", "flush"}
AllOps  == PassOps \cup {"other"}      \* "other": WRITE_ZEROES, zoned ops, ...
ASSUME OpsAssumption == Ops \subseteq AllOps

\* A request: its op and the chunks its byte range touches. Ops that never
\* reach the map carry the same dummy range.
Requests ==
  {r \in [op : Ops \cup {"other"}, first : Chunks, last : Chunks] :
     /\ r.first <= r.last
     /\ r.op \notin DataOps => r.first = 0 /\ r.last = 0}

NoRequest == [op |-> "other", first |-> 0, last |-> 0]

VARIABLES
  currentEra,   \* EraState.current_era
  eras,         \* EraState.eras
  pc,           \* where each tag is in handle_io_cmd / mark_write
  req,          \* the request each tag carries (the io descriptor)
  seen,         \* mark_write's local `era`
  next,         \* mark_write's position in `chunks`
  bpc,          \* where the consumer's backup is
  cursor,       \* the era the consumer's last finished backup closed
  closed,       \* closed_era of the checkpoint of the running backup
  scan,         \* position of ranges_since in the era array
  todo,         \* chunks of the dump not copied yet
  stale,        \* history: chunks whose content may differ from the image
  touched,      \* history: chunks of requests that were unacknowledged at, or
                \* arrived after, the checkpoint that closed `cursor`
  touchedNow    \* history: the same for the checkpoint of the running backup

mapVars      == <<currentEra, eras>>
ioVars       == <<pc, req, seen, next>>
consumerVars == <<bpc, cursor, closed, scan, todo>>
history      == <<stale, touched, touchedNow>>
vars         == <<mapVars, ioVars, consumerVars, history>>

PCs == {"idle",      \* fetch armed, nothing to do
        "submit",    \* phase UBLK, or a CQE with -EAGAIN that falls through to it
        "backend",   \* the backing IO is in flight
        "done",      \* phase BACKEND: it ended with a result other than -EAGAIN
        "load",      \* mark_write: about to load current_era
        "stamp",     \* mark_write: in the fetch_max loop
        "recheck",   \* mark_write: about to load current_era again
        "return",    \* mark_write: left the loop, not returned yet
        "ack"}       \* mark_write returned, about to complete the command

\* The queue thread runs one handler to its end before it takes another CQE.
InHandler == {"load", "stamp", "recheck", "return", "ack"}
QueueFree(t) == \A u \in Tags \ {t} :
                  QueueOf[u] = QueueOf[t] => pc[u] \notin InHandler

Span(t) == IF pc[t] # "idle" /\ req[t].op \in DataOps
             THEN req[t].first .. req[t].last ELSE {}

\* Chunks some request may still be changing or has not finished stamping.
Unsettled == {c \in Chunks : \E t \in Tags :
                c \in Span(t) /\ pc[t] \notin {"return", "ack"}}

\* Chunks of requests the upper layer has not seen complete.
Unacked == {c \in Chunks : \E t \in Tags : c \in Span(t)}

MaxOf(a, b) == IF a >= b THEN a ELSE b

Init ==
  /\ currentEra = 1
  /\ eras = [c \in Chunks |-> 0]
  /\ pc = [t \in Tags |-> "idle"]
  /\ req = [t \in Tags |-> NoRequest]
  /\ seen = [t \in Tags |-> 0]
  /\ next = [t \in Tags |-> 0]
  /\ bpc = "idle"
  /\ cursor = NoCursor
  /\ closed = 0
  /\ scan = 0
  /\ todo = {}
  /\ stale = Chunks
  /\ touched = Chunks
  /\ touchedNow = {}

-----------------------------------------------------------------------------
(* The IO path: handle_io_cmd, one CQE at a time.                          *)

\* The driver's FETCH completes with a new request on a free tag.
Fetch(t, r) ==
  /\ pc[t] = "idle"
  /\ pc' = [pc EXCEPT ![t] = "submit"]
  /\ req' = [req EXCEPT ![t] = r]
  /\ touched' = IF r.op \in DataOps THEN touched \cup (r.first .. r.last)
                                    ELSE touched
  /\ touchedNow' = IF r.op \in DataOps THEN touchedNow \cup (r.first .. r.last)
                                       ELSE touchedNow
  /\ UNCHANGED <<mapVars, seen, next, consumerVars, stale>>

\* The tag is committed to the driver and re-armed for the next request.
CompleteTag(t) ==
  /\ pc' = [pc EXCEPT ![t] = "idle"]
  /\ req' = [req EXCEPT ![t] = NoRequest]
  /\ UNCHANGED <<seen, next>>

\* Phase UBLK, or a retry after -EAGAIN: submit the backing IO, or reject the
\* op with -EINVAL.
HandleUblk(t) ==
  /\ pc[t] = "submit"
  /\ QueueFree(t)
  /\ \/ /\ req[t].op \in PassOps
        /\ pc' = [pc EXCEPT ![t] = "backend"]
        /\ UNCHANGED <<req, seen, next>>
     \/ /\ req[t].op \notin PassOps
        /\ CompleteTag(t)
  /\ UNCHANGED <<mapVars, consumerVars, history>>

\* External: the medium changes under an in-flight WRITE or DISCARD, chunk by
\* chunk, in any order, possibly several times, possibly not at all.
Land(t, c) ==
  /\ pc[t] = "backend"
  /\ c \in Span(t)
  /\ c \notin stale
  /\ stale' = stale \cup {c}
  /\ UNCHANGED <<mapVars, ioVars, consumerVars, touched, touchedNow>>

\* External: the backing IO completes, with success, short, or an error.
BackendResult(t) ==
  /\ pc[t] = "backend"
  /\ pc' = [pc EXCEPT ![t] = "done"]
  /\ UNCHANGED <<mapVars, req, seen, next, consumerVars, history>>

\* External: the backing IO completes with -EAGAIN; the handler will submit
\* the same IO again.
BackendAgain(t) ==
  /\ pc[t] = "backend"
  /\ pc' = [pc EXCEPT ![t] = "submit"]
  /\ UNCHANGED <<mapVars, req, seen, next, consumerVars, history>>

\* Fault variant: only a successful data op is stamped; one that ended with an
\* error is completed without touching the map.
HandleBackendSuccessOnly(t) ==
  /\ pc[t] = "done"
  /\ QueueFree(t)
  /\ \/ /\ req[t].op \in DataOps
        /\ pc' = [pc EXCEPT ![t] = "load"]
        /\ UNCHANGED <<req, seen, next>>
     \/ CompleteTag(t)
  /\ UNCHANGED <<mapVars, consumerVars, history>>

\* Phase BACKEND: whatever the result, a data-changing op calls mark_write;
\* every other op is completed in this same turn.
HandleBackend(t) ==
  /\ pc[t] = "done"
  /\ QueueFree(t)
  /\ \/ /\ req[t].op \in DataOps
        /\ pc' = [pc EXCEPT ![t] = "load"]
        /\ UNCHANGED <<req, seen, next>>
     \/ /\ req[t].op \notin DataOps
        /\ CompleteTag(t)
  /\ UNCHANGED <<mapVars, consumerVars, history>>

\* mark_write, top of the loop: era = current_era.load().
LoadEra(t) ==
  /\ pc[t] = "load"
  /\ seen' = [seen EXCEPT ![t] = currentEra]
  /\ next' = [next EXCEPT ![t] = req[t].first]
  /\ pc' = [pc EXCEPT ![t] = "stamp"]
  /\ UNCHANGED <<mapVars, req, consumerVars, history>>

\* Fault variant: the slice of chunks ends one too far.
StampChunkPastLast(t) ==
  /\ pc[t] = "stamp"
  /\ eras' = [eras EXCEPT ![next[t]] = MaxOf(@, seen[t])]
  /\ \/ /\ next[t] <= req[t].last
        /\ next' = [next EXCEPT ![t] = @ + 1]
        /\ UNCHANGED pc
     \/ /\ next[t] > req[t].last
        /\ pc' = [pc EXCEPT ![t] = "recheck"]
        /\ next' = [next EXCEPT ![t] = 0]
  /\ UNCHANGED <<currentEra, req, seen, consumerVars, history>>

\* mark_write, one turn of the for: chunk.fetch_max(era).
StampChunk(t) ==
  /\ pc[t] = "stamp"
  /\ eras' = [eras EXCEPT ![next[t]] = MaxOf(@, seen[t])]
  /\ \/ /\ next[t] < req[t].last
        /\ next' = [next EXCEPT ![t] = @ + 1]
        /\ UNCHANGED pc
     \/ /\ next[t] = req[t].last
        /\ pc' = [pc EXCEPT ![t] = "recheck"]
        /\ next' = [next EXCEPT ![t] = 0]
  /\ UNCHANGED <<currentEra, req, seen, consumerVars, history>>

\* Fault variant: mark_write without the second load.
RecheckNever(t) ==
  /\ pc[t] = "recheck"
  /\ pc' = [pc EXCEPT ![t] = "return"]
  /\ UNCHANGED <<mapVars, req, seen, next, consumerVars, history>>

\* Fault variant: the comparison of the two loads is inverted.
RecheckInverted(t) ==
  /\ pc[t] = "recheck"
  /\ \/ /\ currentEra # seen[t]
        /\ pc' = [pc EXCEPT ![t] = "return"]
     \/ /\ currentEra = seen[t]
        /\ pc' = [pc EXCEPT ![t] = "load"]
  /\ UNCHANGED <<mapVars, req, seen, next, consumerVars, history>>

\* mark_write, bottom of the loop: stop only if no checkpoint slipped in.
\* (The locals seen and next are dead from here and are reset.)
Recheck(t) ==
  /\ pc[t] = "recheck"
  /\ \/ /\ currentEra = seen[t]
        /\ pc' = [pc EXCEPT ![t] = "return"]
     \/ /\ currentEra # seen[t]
        /\ pc' = [pc EXCEPT ![t] = "load"]
  /\ seen' = [seen EXCEPT ![t] = 0]
  /\ UNCHANGED <<mapVars, req, next, consumerVars, history>>

\* mark_write returns to handle_io_cmd.
MarkReturn(t) ==
  /\ pc[t] = "return"
  /\ pc' = [pc EXCEPT ![t] = "ack"]
  /\ UNCHANGED <<mapVars, req, seen, next, consumerVars, history>>

\* The stamped op is completed: only now does the upper layer see it.
Complete(t) ==
  /\ pc[t] = "ack"
  /\ CompleteTag(t)
  /\ UNCHANGED <<mapVars, consumerVars, history>>

-----------------------------------------------------------------------------
(* The control thread and the consumer.                                    *)

\* A checkpoint nobody copies after: another client, or the operator. The
\* control thread serves one request at a time, so never during a dump.
Checkpoint ==
  /\ bpc # "scan"
  /\ currentEra < MaxEra
  /\ currentEra' = currentEra + 1
  /\ UNCHANGED <<eras, ioVars, consumerVars, history>>

\* The consumer's backup begins with a checkpoint; closed_era becomes its
\* next cursor if the backup gets to its end.
BeginBackup ==
  /\ bpc = "idle"
  /\ currentEra < MaxEra
  /\ currentEra' = currentEra + 1
  /\ closed' = currentEra
  /\ bpc' = "closed"
  /\ touchedNow' = Unacked
  /\ UNCHANGED <<eras, ioVars, cursor, scan, todo, stale, touched>>

\* Without a cursor the consumer copies the whole device.
FullCopy ==
  /\ bpc = "closed"
  /\ cursor = NoCursor
  /\ todo' = Chunks
  /\ bpc' = "copy"
  /\ UNCHANGED <<mapVars, ioVars, cursor, closed, scan, history>>

\* dump --since cursor: the control thread accepts a cursor below current_era.
DumpStart ==
  /\ bpc = "closed"
  /\ cursor # NoCursor
  /\ cursor < currentEra
  /\ bpc' = "scan"
  /\ UNCHANGED <<mapVars, ioVars, cursor, closed, scan, todo, history>>

\* What ranges_since does with one chunk, given its comparison of the loaded
\* era with `since`.
ScanWith(skip) ==
  /\ bpc = "scan"
  /\ todo' = IF skip THEN todo ELSE todo \cup {scan}
  /\ \/ /\ scan < NrChunks - 1
        /\ scan' = scan + 1
        /\ UNCHANGED bpc
     \/ /\ scan = NrChunks - 1
        /\ scan' = 0
        /\ bpc' = "copy"
  /\ UNCHANGED <<mapVars, ioVars, cursor, closed, history>>

\* Fault variants: `since` off by one in either direction.
ScanChunkSkipsNewest == ScanWith(eras[scan] <= cursor + 1)
ScanChunkInclusive   == ScanWith(eras[scan] < cursor)

\* ranges_since: load the next chunk's era and report it if it is newer.
ScanChunk == ScanWith(eras[scan] <= cursor)

\* Fault variant: the copy loop does not advance past a chunk it has copied.
CopyChunkNoAdvance(c) ==
  /\ bpc = "copy"
  /\ c \in todo
  /\ stale' = stale \ {c}
  /\ UNCHANGED <<mapVars, ioVars, bpc, cursor, closed, scan, todo,
                 touched, touchedNow>>

\* The consumer copies one reported chunk from the live device.
CopyChunk(c) ==
  /\ bpc = "copy"
  /\ c \in todo
  /\ todo' = todo \ {c}
  /\ stale' = stale \ {c}
  /\ UNCHANGED <<mapVars, ioVars, bpc, cursor, closed, scan,
                 touched, touchedNow>>

\* All ranges copied: the closed era becomes the cursor.
FinishBackup ==
  /\ bpc = "copy"
  /\ todo = {}
  /\ bpc' = "idle"
  /\ cursor' = closed
  /\ closed' = 0
  /\ touched' = touchedNow
  /\ touchedNow' = {}
  /\ UNCHANGED <<mapVars, ioVars, scan, todo, stale>>

\* The consumer dies or gives up: it keeps its old cursor.
AbortBackup ==
  /\ bpc \in {"closed", "copy"}
  /\ bpc' = "idle"
  /\ closed' = 0
  /\ todo' = {}
  /\ touchedNow' = {}
  /\ UNCHANGED <<mapVars, ioVars, cursor, scan, stale, touched>>

-----------------------------------------------------------------------------
Handler(t) ==
  \/ HandleUblk(t) \/ HandleBackend(t)
  \/ LoadEra(t) \/ StampChunk(t) \/ Recheck(t) \/ MarkReturn(t) \/ Complete(t)

Backing(t) ==
  \/ BackendResult(t) \/ BackendAgain(t)
  \/ \E c \in Chunks : Land(t, c)

ConsumerStep ==
  \/ FullCopy \/ DumpStart \/ ScanChunk \/ FinishBackup
  \/ \E c \in Chunks : CopyChunk(c)

Next ==
  \/ \E t \in Tags : \/ \E r \in Requests : r.op \in Ops /\ Fetch(t, r)
                     \/ Handler(t)
                     \/ Backing(t)
  \/ Checkpoint
  \/ BeginBackup
  \/ ConsumerStep
  \/ AbortBackup

Spec == Init /\ [][Next]_vars

\* A queue thread handles every CQE of its ring (they are served in order, so
\* a tag cannot be passed over for ever); the backing store answers every IO
\* and does not answer -EAGAIN for ever; the control thread and the consumer
\* keep going. Nothing is assumed of the arrival of requests or checkpoints.
Fairness ==
  /\ \A t \in Tags : SF_vars(Handler(t)) /\ SF_vars(BackendResult(t))
  /\ WF_vars(ConsumerStep)

FairSpec == Spec /\ Fairness

-----------------------------------------------------------------------------
(* Properties.                                                             *)

\* Every variable stays in its type; in particular the stamping and scanning
\* positions never leave the era array, which mark_write and ranges_since index
\* chunk by chunk.
TypeOK ==
  /\ currentEra \in 1 .. MaxEra
  /\ eras \in [Chunks -> 0 .. MaxEra]
  /\ pc \in [Tags -> PCs]
  /\ req \in [Tags -> Requests]
  /\ seen \in [Tags -> 0 .. MaxEra]
  /\ next \in [Tags -> Chunks]
  /\ bpc \in {"idle", "closed", "scan", "copy"}
  /\ cursor \in NoCursor .. MaxEra
  /\ closed \in 0 .. MaxEra
  /\ scan \in Chunks
  /\ todo \subseteq Chunks
  /\ stale \subseteq Chunks
  /\ touched \subseteq Chunks
  /\ touchedNow \subseteq Chunks

\* The CBT contract (docs/testing.md, "zero false negatives"): a chunk whose
\* content differs from the consumer's image is either still being written or
\* stamped by an unfinished request, or is reported by dump --since cursor.
\* It holds at every moment, so also if the running backup is abandoned.
NoLostChange ==
  \A c \in stale : c \in Unsettled \/ eras[c] > cursor

\* A change that races a backup falls into this diff or into the next one
\* (docs/concurrency.md 3 and 4): while a backup runs, a changed chunk is
\* still being written or stamped, or is ahead of the scan, or waits to be
\* copied, or carries an era the next dump --since closed reports.
CaughtNowOrNext ==
  bpc # "idle" =>
    \A c \in stale : \/ c \in Unsettled
                     \/ bpc = "closed"
                     \/ bpc = "scan" /\ c >= scan
                     \/ c \in todo
                     \/ eras[c] > closed

\* The freeze procedure of docs/dump-format.md: if IO is quiesced when the
\* checkpoint is taken and stays so until the last range is copied (no data
\* op was in flight at the checkpoint and none has arrived since), the image
\* equals the device.
FrozenBackupExact ==
  bpc = "copy" /\ todo = {} /\ touchedNow = {} => stale = {}

\* The diff is a diff: a chunk is reported only if a request that touched it
\* was unacknowledged at, or arrived after, the checkpoint that closed the
\* consumer's cursor.
OnlyTouchedReported ==
  /\ todo \subseteq touched
  /\ \A c \in Chunks : eras[c] > cursor => c \in touched

\* mark_write's retry loop ends and every request is eventually completed,
\* whatever checkpoints race it.
RequestsComplete ==
  \A t \in Tags : pc[t] # "idle" ~> pc[t] = "idle"

\* A backup that has taken its checkpoint comes to an end.
BackupEnds == bpc # "idle" ~> bpc = "idle"

-----------------------------------------------------------------------------
(* The era map implements ChangeTracking: a chunk is in `dirty` when its   *)
(* era is above the cursor and in `fresh` when it is above the closed era  *)
(* of the running backup; a request is marked once mark_write has left its *)
(* loop. A checkpoint of another client, the steps of the scan but its     *)
(* last, and everything a request does that is not stamped are stutters.   *)

Above(e)  == {c \in Chunks : eras[c] > e}

AbsSpan   == [t \in Tags |-> Span(t)]
AbsMarked == {t \in Tags : pc[t] \in {"return", "ack"}}
AbsDirty  == Above(cursor)
AbsFresh  == IF bpc = "idle" THEN {} ELSE Above(closed)
AbsStage  == IF bpc \in {"closed", "scan"} THEN "open" ELSE bpc
AbsReport == IF bpc = "copy" THEN todo ELSE {}

Abs == INSTANCE ChangeTracking WITH
         span <- AbsSpan, marked <- AbsMarked, dirty <- AbsDirty,
         fresh <- AbsFresh, stage <- AbsStage, report <- AbsReport

\* However loads, stamps, checkpoints and scan loads interleave, what the
\* consumer gets is the two-set tracking of ChangeTracking: every request is
\* marked as a whole before it is acknowledged, and a dump leaves out only
\* what the next one reports.
Tracks == Abs!Spec

=============================================================================
