-------------------------- MODULE FaultDiskContract --------------------------
(***************************************************************************)
(* The contract of the fault device's disk (ublkfault/src/model.rs, its    *)
(* comments and its tests): FaultDisk under any sequence of requests, with *)
(* the history the contract is stated in.                                  *)
(***************************************************************************)
EXTENDS FaultDisk

VARIABLES
  latest,      \* history: what the device last told its user each block holds
  allowed,     \* history: per block, the flushed value and those written since
  newer        \* history: blocks pushed since, and with, the last push of each

vars == <<disk, latest, allowed, newer>>

ContractInit ==
  /\ Init
  /\ latest = committed
  /\ allowed = [b \in Blocks |-> {0}]
  /\ newer = [b \in Blocks |-> 0]

\* The history of a push; it stops counting once past the capacity.
Pushed(e) ==
  /\ latest' = Apply(latest, e)
  /\ allowed' = [b \in Blocks |->
                   IF b \in Extent(e) THEN allowed[b] \cup {e.val} ELSE allowed[b]]
  /\ newer' = [b \in Blocks |->
                 IF b \in Extent(e) THEN e.len
                 ELSE IF newer[b] = 0 \/ newer[b] > CacheCap THEN newer[b]
                 ELSE newer[b] + e.len]

\* The history of an error: the prefix counts as written.
Failed(e, keep) ==
  IF keep > 0 THEN Pushed([e EXCEPT !.len = keep]) ELSE UNCHANGED <<latest, allowed, newer>>

Flushed ==
  /\ allowed' = [b \in Blocks |-> {latest[b]}]
  /\ newer' = [b \in Blocks |-> 0]
  /\ UNCHANGED latest

Crashed ==
  /\ latest' = committed'
  /\ newer' = [b \in Blocks |-> 0]
  /\ UNCHANGED allowed

Next ==
  \/ \E e \in Requests :
       \/ Write(e) /\ Pushed(e)
       \/ \E keep \in 0 .. e.len : WriteError(e, keep) /\ Failed(e, keep)
  \/ Flush /\ Flushed
  \/ FlushLie /\ UNCHANGED <<latest, allowed, newer>>
  \/ \E kept \in Survivors : Crash(kept) /\ Crashed

Spec == ContractInit /\ [][Next]_vars

-----------------------------------------------------------------------------
(* Properties.                                                             *)

\* Types; and volatile_bytes never stays above the capacity.
TypeOK ==
  /\ DiskType
  /\ latest \in [Blocks -> Values]
  /\ allowed \in [Blocks -> SUBSET Values]
  /\ newer \in [Blocks -> 0 .. CacheCap + NrBlocks]

\* model.rs: "read-your-writes holds". Whatever was written back, flushed or
\* lost by a crash in between, a read shows the last write that reached the
\* cache, or after a crash what the crash left.
ReadYourWrites == \A b \in Blocks : Read(b) = latest[b]

\* model.rs test "flushed must survive": at any moment a block's committed
\* content is the one of the last honest flush or one written after it, so
\* no sequence of write-backs, lies and crashes loses what was flushed.
FlushedSurvives == \A b \in Blocks : committed[b] \in allowed[b]

\* model.rs: "a crash never loses everything since boot, only the recent
\* window": a write with more than a cache of writes behind it is committed.
RecentWindow ==
  \A b \in Blocks : newer[b] > CacheCap => committed[b] = latest[b]

=============================================================================
