------------------------------ MODULE MetaStore ------------------------------
(***************************************************************************)
(* The metadata file of one tracked device across attach, checkpoint,      *)
(* detach and crash: EraState::save and ::load (src/era.rs), the attach    *)
(* marker and the load-or-new decision of DeviceManager::add, the save of  *)
(* checkpoint_one and the supervisor's final save (src/manager.rs), and    *)
(* the acceptance test that dump applies to a consumer's cursor.           *)
(*                                                                         *)
(* What gates an add is the registry, not the end of the last supervisor:  *)
(* a del that fails and an add that times out forget a supervisor whose    *)
(* device may be up and whose final save is still to come. An add beside   *)
(* it makes a second device, with a map of its own and the same file.      *)
(*                                                                         *)
(* save is modelled system call by system call, because two threads can    *)
(* run it on the same path and a crash can fall between any two calls.     *)
(* A file is its content; an open descriptor is the name its inode now     *)
(* has ("tmp", "path") or "gone" when that inode was replaced.             *)
(*                                                                         *)
(* The era map itself is atomic here: a write lands, and is later stamped  *)
(* in one step; EraMap justifies this for mark_write and the dump scan.    *)
(***************************************************************************)
EXTENDS Integers

CONSTANTS
  Chunks,       \* chunks of the device
  MaxEra,       \* bound: no checkpoint once the era counter has reached it
  Gens,         \* generation ids (random 64-bit numbers in the code)
  NoGen,        \* the consumer has no cursor
  MetaModes,    \* whether the device may be one with --meta, or one without
  SaveErrors,   \* kinds of save that may meet an IO error
  Faults        \* environment events beyond kill -9 and clean operation

SaveKinds == {"marker", "checkpoint", "final"}
AllFaults == {"power_loss", "external_delete", "forgotten", "add_timeout"}

ASSUME BoundsAssumption == MaxEra \in Nat \ {0}
ASSUME GensAssumption == NoGen \notin Gens
ASSUME MetaAssumption == MetaModes \subseteq BOOLEAN
ASSUME FaultsAssumption == SaveErrors \subseteq SaveKinds /\ Faults \subseteq AllFaults

VARIABLES
  withMeta,     \* whether the device is always added with --meta, or never
  path,         \* content of the file at the metadata path
  tmp,          \* content of the file at path.with_extension("tmp")
  durable,      \* content the metadata path has after a power loss
  gen, era, eras,  \* EraState: generation, current_era, eras
  att,          \* the device: "detached", "boot", "live" or "stopping"
  entry,        \* whether the registry has its entry
  old,          \* the device of a forgotten supervisor, beside this one
  cop,          \* the control thread: what it is in the middle of
  sv,           \* the save each thread is in the middle of
  pending,      \* chunks whose landed change is not stamped yet
  bk,           \* the consumer: "idle", "waiting", "closed" or "copy"
  closed,       \* closed_era the last checkpoint response carried
  todo,         \* ranges of the consumer's dump, still to be copied
  cursor,       \* the consumer's stored (generation, era)
  stale,        \* history: chunks that may differ from the consumer's image
  happened      \* history: the faults that have happened, see Harm

files == <<path, tmp, durable>>
mem   == <<gen, era, eras>>
cons  == <<bk, closed, todo, cursor>>
env   == <<withMeta, happened>>
vars  == <<files, mem, att, entry, old, cop, sv, pending, cons, stale, env>>

NoFile == [kind |-> "none"]
Torn   == [kind |-> "torn"]    \* empty, or a prefix: every load check rejects it

\* A complete file: CRC and lengths match.
Whole(g, e, m, c) == [kind |-> "whole", gen |-> g, era |-> e, eras |-> m, clean |-> c]

Wholes == {Whole(g, e, m, c) : g \in Gens, e \in 1 .. MaxEra,
                               m \in [Chunks -> 0 .. MaxEra], c \in BOOLEAN}

NoCursor == [gen |-> NoGen, era |-> 0]

\* No supervisor is left behind (bound: there is at most one).
NoOld == [att |-> "detached", gen |-> NoGen, era |-> 1, eras |-> [c \in Chunks |-> 0]]

Threads == {"ctl", "sup", "old"}
NoSave  == [pc |-> "idle", fd |-> "gone", buf |-> Torn, clean |-> FALSE]
StartSave(c) == [NoSave EXCEPT !.pc = "create", !.clean = c]

Init ==
  /\ withMeta \in MetaModes
  /\ path = NoFile /\ tmp = NoFile /\ durable = NoFile
  /\ gen = NoGen /\ era = 1 /\ eras = [c \in Chunks |-> 0]
  /\ att = "detached" /\ entry = FALSE /\ old = NoOld
  /\ cop = "idle"
  /\ sv = [s \in Threads |-> NoSave]
  /\ pending = {}
  /\ bk = "idle" /\ closed = 0 /\ todo = {} /\ cursor = NoCursor
  /\ stale = Chunks
  /\ happened = {}

\* What a fault may have broken: "behind" is a file that fell behind the
\* answer to a checkpoint, "shared" a tmp file that two saves had open,
\* "beside" a device added while a forgotten one had not ended.
Harm(f) ==
  /\ happened' = happened \cup {f}
  /\ UNCHANGED withMeta

-----------------------------------------------------------------------------
(* add: load or start fresh, then write the attach marker.                 *)

\* fetch_max of e on some chunks of a map.
Stamped(m, cs, e) == [c \in Chunks |-> IF c \in cs /\ m[c] < e THEN e ELSE m[c]]

MarkAllDirty(m, e) == Stamped(m, Chunks, e)

\* Fault variant: the attach marker claims a clean file.
MarkerClean == IF withMeta THEN StartSave(TRUE) ELSE NoSave

\* The attach marker: an unclean save before the device goes live.
Marker == IF withMeta THEN StartSave(FALSE) ELSE NoSave

\* A supervisor that has not ended goes on without the daemon: writes that
\* are in flight are stamped in its map before anything reads it again.
LeaveBehind ==
  /\ old = NoOld
  /\ old' = [att |-> att, gen |-> gen, era |-> era, eras |-> Stamped(eras, pending, era)]
  /\ sv' = [sv EXCEPT !["ctl"] = Marker, !["sup"] = NoSave, !["old"] = sv["sup"]]
  /\ bk' = "idle" /\ closed' = 0 /\ todo' = {}
  /\ Harm("beside")
  /\ UNCHANGED cursor

\* add gets past the check of the registry with a history, and goes on to the
\* marker, or to the new supervisor at once.
Attach(g, e, m) ==
  /\ cop = "idle" /\ ~entry
  /\ gen' = g /\ era' = e /\ eras' = m
  /\ att' = IF withMeta THEN "detached" ELSE "boot"
  /\ cop' = IF withMeta THEN "marker" ELSE "starting"
  /\ pending' = {}
  /\ \/ att # "detached" /\ LeaveBehind
     \/ /\ att = "detached"
        /\ sv' = [sv EXCEPT !["ctl"] = Marker]
        /\ UNCHANGED <<old, cons, env>>
  /\ UNCHANGED <<files, entry, stale>>

\* No metadata file: a new history, era 1, nothing written. Its random id
\* differs from every id that is still around.
AddFresh(g) ==
  /\ path.kind = "none"
  /\ g \notin {cursor.gen, old.gen} /\ (att # "detached" => g # gen)
  /\ durable.kind = "whole" => g # durable.gen
  /\ Attach(g, 1, [c \in Chunks |-> 0])

\* Fault variant: the clean flag is ignored.
AddLoadTrusting ==
  /\ path.kind = "whole"
  /\ Attach(path.gen, path.era, path.eras)

\* A file that loads: an unclean one makes every chunk dirty in its era. (A
\* torn file fails the load and add returns an error: nothing changes.)
AddLoad ==
  /\ path.kind = "whole"
  /\ Attach(path.gen, path.era,
            IF path.clean THEN path.eras ELSE MarkAllDirty(path.eras, path.era))

\* The supervisor has the device up: it takes IO, whether add still waits for
\* it or has given up.
DeviceUp ==
  /\ att = "boot"
  /\ att' = "live"
  /\ UNCHANGED <<files, mem, entry, old, cop, sv, pending, cons, stale, env>>

\* The readiness report reaches add, which registers the device. The device
\* may be on its way down again: a supervisor that has ended is reaped by the
\* next operation.
StartOk ==
  /\ cop = "starting" /\ att # "boot"
  /\ cop' = "idle"
  /\ entry' = (att # "detached")
  /\ UNCHANGED <<files, mem, att, old, sv, pending, cons, stale, env>>

\* 15 seconds pass: add returns an error and forgets the supervisor.
AddTimeout ==
  /\ "add_timeout" \in Faults
  /\ cop = "starting"
  /\ cop' = "idle"
  /\ UNCHANGED <<files, mem, att, entry, old, sv, pending, cons, stale, env>>

\* The control device cannot be created: no final save, the marker stays.
StartFail ==
  /\ att = "boot"
  /\ att' = "detached"
  /\ cop' = "idle"
  /\ UNCHANGED <<files, mem, entry, old, sv, pending, cons, stale, env>>

\* The supervisor is past run_target: with --meta its final, clean save runs.
FinalSave ==
  /\ att' = IF withMeta THEN "stopping" ELSE "detached"
  /\ sv' = IF withMeta THEN [sv EXCEPT !["sup"] = StartSave(TRUE)] ELSE sv

\* run_target fails before the device is ready: the supervisor still makes
\* its final save, and an add that has not given up waits for it.
RunFail ==
  /\ att = "boot"
  /\ cop' = IF withMeta /\ cop = "starting" THEN "join" ELSE "idle"
  /\ FinalSave
  /\ UNCHANGED <<files, mem, entry, old, pending, cons, stale, env>>

-----------------------------------------------------------------------------
(* save, one system call at a time.                                        *)

Kind(s) == IF s = "ctl" THEN cop ELSE "final"

\* What the caller does once save has returned, successfully or not.
AfterSave(s, ok) ==
  \/ /\ s = "ctl" /\ cop = "marker"
     /\ cop' = IF ok THEN "starting" ELSE "idle"
     /\ att' = IF ok THEN "boot" ELSE att
     /\ UNCHANGED <<entry, old, bk>>
  \/ /\ s = "ctl" /\ cop = "checkpoint"
     /\ cop' = "idle"
     /\ bk' = IF bk = "waiting" THEN "closed" ELSE bk
     /\ UNCHANGED <<att, entry, old>>
  \/ /\ s = "sup"
     /\ att' = "detached" /\ entry' = FALSE
     /\ cop' = IF cop = "join" THEN "idle" ELSE cop
     /\ UNCHANGED <<old, bk>>
  \/ /\ s = "old"
     /\ old' = NoOld
     /\ UNCHANGED <<att, entry, cop, bk>>

\* Fault variant: the file is rewritten in place, without a tmp file.
SaveCreateInPlace(s) ==
  /\ sv[s].pc = "create"
  /\ path' = Torn
  /\ sv' = [sv EXCEPT ![s] = [@ EXCEPT !.pc = "build", !.fd = "path"]]
  /\ UNCHANGED <<tmp, durable, mem, att, entry, old, cop, pending, cons, stale, env>>

\* File::create: truncates a tmp file that is already there.
SaveCreate(s) ==
  /\ sv[s].pc = "create"
  /\ tmp' = Torn
  /\ sv' = [sv EXCEPT ![s] = [@ EXCEPT !.pc = "build", !.fd = "tmp"]]
  /\ IF \E t \in Threads \ {s} : sv[t].pc # "idle" THEN Harm("shared")
                                                 ELSE UNCHANGED env
  /\ UNCHANGED <<path, durable, mem, att, entry, old, cop, pending, cons, stale>>

\* The buffer: header with the current era, then the eras.
Snapshot(s) ==
  IF s = "old" THEN Whole(old.gen, old.era, old.eras, sv[s].clean)
               ELSE Whole(gen, era, eras, sv[s].clean)

SaveBuild(s) ==
  /\ sv[s].pc = "build"
  /\ sv' = [sv EXCEPT ![s] = [@ EXCEPT !.pc = "write", !.buf = Snapshot(s)]]
  /\ UNCHANGED <<files, mem, att, entry, old, cop, pending, cons, stale, env>>

\* write_all and sync_all, into whatever name the inode has by now.
SaveWrite(s) ==
  /\ sv[s].pc = "write"
  /\ tmp' = IF sv[s].fd = "tmp" THEN sv[s].buf ELSE tmp
  /\ path' = IF sv[s].fd = "path" THEN sv[s].buf ELSE path
  /\ sv' = [sv EXCEPT ![s] = [@ EXCEPT !.pc = "rename", !.buf = Torn]]
  /\ UNCHANGED <<durable, mem, att, entry, old, cop, pending, cons, stale, env>>

\* rename(tmp, path): open descriptors follow their inodes.
SaveRename(s) ==
  /\ sv[s].pc = "rename"
  /\ tmp.kind # "none"
  /\ path' = tmp
  /\ tmp' = NoFile
  /\ sv' = [t \in Threads |->
              IF t = s THEN NoSave
              ELSE [sv[t] EXCEPT !.fd = IF @ = "tmp" THEN "path" ELSE "gone"]]
  /\ AfterSave(s, TRUE)
  /\ UNCHANGED <<durable, mem, pending, closed, todo, cursor, stale, env>>

\* An IO error at any call, or a tmp file that the other thread renamed away:
\* save returns Err and leaves the files as they are.
SaveError(s) ==
  /\ \/ sv[s].pc \in {"create", "write", "rename"} /\ Kind(s) \in SaveErrors
     \/ sv[s].pc = "rename" /\ tmp.kind = "none"
  /\ IF Kind(s) = "checkpoint" THEN Harm("behind") ELSE UNCHANGED env
  /\ sv' = [sv EXCEPT ![s] = NoSave]
  /\ AfterSave(s, FALSE)
  /\ UNCHANGED <<files, mem, pending, closed, todo, cursor, stale>>

-----------------------------------------------------------------------------
(* The attached device.                                                    *)

\* A data-changing op reaches the medium.
Land(c) ==
  /\ att = "live"
  /\ c \notin pending
  /\ pending' = pending \cup {c}
  /\ stale' = stale \cup {c}
  /\ UNCHANGED <<files, mem, att, entry, old, cop, sv, cons, env>>

\* Fault variant: the stamp is one era ahead.
StampAhead(c) ==
  /\ c \in pending
  /\ pending' = pending \ {c}
  /\ eras' = [eras EXCEPT ![c] = era + 1]
  /\ UNCHANGED <<files, gen, era, att, entry, old, cop, sv, cons, stale, env>>

\* mark_write for it returns.
Stamp(c) ==
  /\ c \in pending
  /\ pending' = pending \ {c}
  /\ eras' = Stamped(eras, {c}, era)
  /\ UNCHANGED <<files, gen, era, att, entry, old, cop, sv, cons, stale, env>>

\* checkpoint_one: the era advances first, then the unclean save. The entry
\* is in the registry until the supervisor is reaped, so a device that is
\* going down can still be checkpointed.
Advance ==
  /\ entry /\ cop = "idle"
  /\ era < MaxEra
  /\ era' = era + 1
  /\ cop' = IF withMeta THEN "checkpoint" ELSE "idle"
  /\ sv' = IF withMeta THEN [sv EXCEPT !["ctl"] = StartSave(FALSE)] ELSE sv
  /\ UNCHANGED <<files, gen, eras, att, entry, old, pending, todo, cursor, stale, env>>

\* A checkpoint that nobody bases a backup on.
Checkpoint == Advance /\ UNCHANGED <<bk, closed>>

\* Fault variant: the response carries the new era as the closed one.
BeginBackupSwapped ==
  /\ bk = "idle" /\ att = "live"
  /\ Advance
  /\ bk' = IF withMeta THEN "waiting" ELSE "closed"
  /\ closed' = era + 1

\* The consumer's checkpoint; it sees closed_era when the response arrives,
\* whether meta_saved is true or false.
BeginBackup ==
  /\ bk = "idle" /\ att = "live"
  /\ Advance
  /\ bk' = IF withMeta THEN "waiting" ELSE "closed"
  /\ closed' = era

\* del (or shutdown_all): the queues drain, and the supervisor's final save
\* runs while the control thread joins it.
Detach ==
  /\ entry /\ att = "live" /\ cop = "idle" /\ pending = {}
  /\ entry' = FALSE
  /\ FinalSave
  /\ cop' = IF withMeta THEN "join" ELSE "idle"
  /\ bk' = "idle" /\ closed' = 0 /\ todo' = {}
  /\ UNCHANGED <<files, mem, old, pending, cursor, stale, env>>

\* del of a device that is going down already, and that can still be deleted:
\* the control thread joins its supervisor.
DetachLate ==
  /\ entry /\ att = "stopping" /\ cop = "idle"
  /\ entry' = FALSE
  /\ cop' = "join"
  /\ UNCHANGED <<files, mem, att, old, sv, pending, cons, stale, env>>

\* del takes the entry out before it deletes the device: the control thread's
\* returns when the deletion fails, the signal thread's runs at any moment of
\* the control thread's work. Either way nobody knows the supervisor any more.
Forget ==
  /\ "forgotten" \in Faults
  /\ entry
  /\ entry' = FALSE
  /\ UNCHANGED <<files, mem, att, old, cop, sv, pending, cons, stale, env>>

\* The device is deleted by another tool, or by the signal thread, at any
\* moment of the control thread's work.
ExternalDelete ==
  /\ "external_delete" \in Faults
  /\ att = "live" /\ pending = {}
  /\ entry' = (entry /\ withMeta)
  /\ FinalSave
  /\ bk' = "idle" /\ closed' = 0 /\ todo' = {}
  /\ UNCHANGED <<files, mem, old, cop, pending, cursor, stale, env>>

-----------------------------------------------------------------------------
(* The device left behind: the same life, but no request reaches it.       *)

OldUp ==
  /\ old.att = "boot"
  /\ old' = [old EXCEPT !.att = "live"]
  /\ UNCHANGED <<files, mem, att, entry, cop, sv, pending, cons, stale, env>>

OldFails ==
  /\ old.att = "boot"
  /\ old' = NoOld
  /\ UNCHANGED <<files, mem, att, entry, cop, sv, pending, cons, stale, env>>

\* A write through it reaches the backing file both devices have, and the map
\* of this one only.
OldWrite(c) ==
  /\ old.att = "live"
  /\ old' = [old EXCEPT !.eras = Stamped(@, {c}, old.era)]
  /\ stale' = stale \cup {c}
  /\ UNCHANGED <<files, mem, att, entry, cop, sv, pending, cons, env>>

\* run_target fails, or the device is deleted after all.
OldDown ==
  /\ old.att \in {"boot", "live"}
  /\ old' = IF withMeta THEN [old EXCEPT !.att = "stopping"] ELSE NoOld
  /\ sv' = IF withMeta THEN [sv EXCEPT !["old"] = StartSave(TRUE)] ELSE sv
  /\ UNCHANGED <<files, mem, att, entry, cop, pending, cons, stale, env>>

-----------------------------------------------------------------------------
(* Crashes and the operator.                                               *)

\* External: the process is gone, with all its threads.
ProcessDies ==
  /\ att' = "detached" /\ entry' = FALSE /\ old' = NoOld /\ cop' = "idle"
  /\ sv' = [s \in Threads |-> NoSave]
  /\ pending' = {}
  /\ bk' = "idle" /\ closed' = 0 /\ todo' = {}
  /\ UNCHANGED <<mem, cursor, stale>>

\* kill -9 of the daemon: the page cache survives, so every completed call
\* of save does.
Kill ==
  /\ att # "detached" \/ cop # "idle" \/ old # NoOld
  /\ ProcessDies
  /\ UNCHANGED <<files, env>>

\* A power loss: a rename whose directory was never synced may be undone.
PowerLoss ==
  /\ "power_loss" \in Faults
  /\ ProcessDies
  /\ IF durable = path THEN UNCHANGED env ELSE Harm("behind")
  /\ path' = durable
  /\ tmp' = NoFile
  /\ UNCHANGED durable

\* External: the filesystem commits the directory some time after a rename.
DirectorySync ==
  /\ "power_loss" \in Faults
  /\ durable # path
  /\ durable' = path
  /\ UNCHANGED <<path, tmp, mem, att, entry, old, cop, sv, pending, cons, stale, env>>

\* The operator deletes the metadata of a backing that no device is on.
LoseMeta ==
  /\ att = "detached" /\ old = NoOld /\ cop = "idle"
  /\ path.kind # "none"
  /\ path' = NoFile
  /\ UNCHANGED <<tmp, durable, mem, att, entry, old, cop, sv, pending, cons, stale, env>>

-----------------------------------------------------------------------------
(* The consumer's dump and copy.                                           *)

\* dump accepts a cursor of this generation and below the current era.
Accepted == cursor.gen = gen /\ cursor.era < era

Reported == {c \in Chunks : eras[c] > cursor.era}

\* dump --since --generation; a rejected cursor means a full copy.
Dump ==
  /\ bk = "closed" /\ entry /\ cop = "idle"
  /\ todo' = IF Accepted THEN Reported ELSE Chunks
  /\ bk' = "copy"
  /\ UNCHANGED <<files, mem, att, entry, old, cop, sv, pending, closed, cursor, stale, env>>

\* All ranges are copied: the cursor becomes (generation, closed_era).
FinishBackup ==
  /\ bk = "copy" /\ att = "live"
  /\ stale' = stale \ todo
  /\ cursor' = [gen |-> gen, era |-> closed]
  /\ bk' = "idle" /\ closed' = 0 /\ todo' = {}
  /\ UNCHANGED <<files, mem, att, entry, old, cop, sv, pending, env>>

-----------------------------------------------------------------------------
SaveStep(s) ==
  \/ SaveCreate(s) \/ SaveBuild(s) \/ SaveWrite(s) \/ SaveRename(s) \/ SaveError(s)

Next ==
  \/ \E g \in Gens : AddFresh(g)
  \/ AddLoad \/ DeviceUp \/ StartOk \/ AddTimeout \/ StartFail \/ RunFail
  \/ \E s \in Threads : SaveStep(s)
  \/ \E c \in Chunks : Land(c) \/ Stamp(c)
  \/ Checkpoint \/ BeginBackup
  \/ Detach \/ DetachLate \/ Forget \/ ExternalDelete
  \/ OldUp \/ OldFails \/ OldDown
  \/ \E c \in Chunks : OldWrite(c)
  \/ Kill \/ PowerLoss \/ DirectorySync \/ LoseMeta
  \/ Dump \/ FinishBackup

Spec == Init /\ [][Next]_vars

-----------------------------------------------------------------------------
(* Properties.                                                             *)

Contents == {NoFile, Torn} \cup Wholes

Saves == [pc : {"idle", "create", "build", "write", "rename"},
          fd : {"tmp", "path", "gone"},
          buf : {Torn} \cup Wholes, clean : BOOLEAN]

\* Every variable stays in its type.
TypeOK ==
  /\ withMeta \in BOOLEAN /\ happened \subseteq {"behind", "shared", "beside"}
  /\ path \in Contents /\ tmp \in Contents /\ durable \in Contents
  /\ gen \in Gens \cup {NoGen} /\ era \in 1 .. MaxEra /\ eras \in [Chunks -> 0 .. MaxEra]
  /\ att \in {"detached", "boot", "live", "stopping"} /\ entry \in BOOLEAN
  /\ old \in [att : {"detached", "boot", "live", "stopping"}, gen : Gens \cup {NoGen},
             era : 1 .. MaxEra, eras : [Chunks -> 0 .. MaxEra]]
  /\ cop \in {"idle", "marker", "starting", "checkpoint", "join"}
  /\ sv \in [Threads -> Saves]
  /\ pending \subseteq Chunks
  /\ bk \in {"idle", "waiting", "closed", "copy"}
  /\ closed \in 0 .. MaxEra
  /\ todo \subseteq Chunks
  /\ cursor \in [gen : Gens \cup {NoGen}, era : 0 .. MaxEra]
  /\ stale \subseteq Chunks

\* The contract across restarts (docs/testing.md: "correct recovery, or all
\* dirty, or the cursor is rejected"): whenever the device is live and dump
\* accepts the consumer's cursor, every settled change is reported.
CrashSafe ==
  att = "live" /\ Accepted => stale \ pending \subseteq Reported

\* What the code keeps of it: it holds in spite of kills between any two calls
\* of a save, failed marker and final saves, failed dels, adds that time out,
\* deleted devices and files, as long as no checkpoint's save failed, no power
\* loss undid a rename and no device was added beside a forgotten one.
Unharmed == happened \subseteq {"shared"}

CursorSound == Unharmed => CrashSafe

\* A crash is not mistaken for a clean detach: while the device takes writes
\* the file at the metadata path is one that load calls unclean, whatever
\* saves raced, failed or were undone before, also of a device that came up
\* after its add had timed out. The exception is a device added beside a
\* forgotten one: the clean save of the one covers the marker of the other.
UncleanWhileLive ==
  "beside" \notin happened /\ att = "live" /\ withMeta
    => path.kind = "whole" /\ ~path.clean

\* Why recovery is sound: the file does not fall behind a cursor of its own
\* history, so the era in which everything is made dirty is above the cursor,
\* under the same conditions as CursorSound: the late save of a forgotten
\* supervisor would put the era of its map back.
FileAheadOfCursor ==
  Unharmed /\ path.kind = "whole" /\ path.gen = cursor.gen => path.era > cursor.era

\* era.rs and docs/concurrency.md 6: save replaces the file atomically, so
\* the metadata path never holds a partial file, whatever crashes or fails.
\* The exception is two saves that share the tmp file: of a device that goes
\* down while a checkpoint saves, or is checkpointed while it goes down, or of
\* two devices beside each other.
FileIntact == "shared" \notin happened => path.kind # "torn"

=============================================================================
