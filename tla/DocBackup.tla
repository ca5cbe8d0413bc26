----------------------------- MODULE DocBackup -----------------------------
(***************************************************************************)
(* The consumer as docs/dump-format.md and README.md describe its first    *)
(* backup: copy the whole device, then take a checkpoint and keep its      *)
(* closed_era as the cursor. Every later backup is that of EraMap. The     *)
(* harness (op_backup_verify in src/bin/chaos.rs) takes the checkpoint     *)
(* first, as EraMap does.                                                  *)
(***************************************************************************)
EXTENDS EraMap

\* "1. take a full backup"
DocFullCopy ==
  /\ bpc = "idle"
  /\ cursor = NoCursor
  /\ todo' = Chunks
  /\ bpc' = "copy"
  /\ UNCHANGED <<mapVars, ioVars, cursor, closed, scan, history>>

\* "2. run checkpoint and note closed_era = N"
DocCheckpoint ==
  /\ bpc = "copy"
  /\ cursor = NoCursor
  /\ todo = {}
  /\ currentEra < MaxEra
  /\ currentEra' = currentEra + 1
  /\ cursor' = currentEra
  /\ bpc' = "idle"
  /\ touched' = Unacked
  /\ UNCHANGED <<eras, ioVars, closed, scan, todo, stale, touchedNow>>

DocNext ==
  \/ \E t \in Tags : \/ \E r \in Requests : r.op \in Ops /\ Fetch(t, r)
                     \/ Handler(t)
                     \/ Backing(t)
  \/ Checkpoint
  \/ DocFullCopy \/ DocCheckpoint
  \/ cursor # NoCursor /\ (BeginBackup \/ DumpStart \/ ScanChunk \/ FinishBackup)
  \/ \E c \in Chunks : CopyChunk(c)

DocSpec == Init /\ [][DocNext]_vars

=============================================================================
