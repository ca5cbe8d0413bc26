--------------------------- MODULE MetaStoreProofs ---------------------------
(***************************************************************************)
(* Proofs about MetaStore, for any device, any number of eras and          *)
(* generations, and any mixture of kills, power losses, save errors, dels  *)
(* that fail, adds that time out and devices deleted from outside.         *)
(*                                                                         *)
(* Three arguments are kept apart. That a save replaces the file as a      *)
(* whole needs only that saves do not share the tmp file (Unshared); it    *)
(* holds of two devices beside each other too. That the file is unclean    *)
(* while the device is live needs that the marker and every checkpoint of  *)
(* a live device have the tmp file to themselves (Solo, Marked), which     *)
(* holds because the final save runs only when the device is no longer     *)
(* live, as long as no forgotten supervisor runs beside it (Alone). That   *)
(* an accepted cursor is sound needs both what is in memory and every copy *)
(* of the map that may become the file to be ahead of the cursor (Ahead)   *)
(* and, if it claims to be clean, to report every change (Sound).          *)
(***************************************************************************)
EXTENDS MetaStore, TLAPS

\* The daemon knows the device: a history is in memory.
Alive == att # "detached" \/ cop # "idle"

\* Where the threads and the consumer can be at the same time.
Shape ==
  /\ Alive => gen \in Gens
  /\ old.att # "detached" => old.gen \in Gens
  /\ sv["ctl"].pc # "idle" <=> cop \in {"marker", "checkpoint"}
  /\ sv["sup"].pc # "idle" <=> att = "stopping"
  /\ sv["old"].pc # "idle" <=> old.att = "stopping"
  /\ cop = "marker" => att = "detached"
  /\ att = "boot" => cop \in {"starting", "idle"}
  /\ entry => att \in {"live", "stopping"}
  /\ pending # {} => att = "live"
  /\ bk # "idle" => att = "live" /\ closed < era
  /\ bk = "waiting" => cop = "checkpoint"
  /\ ~withMeta => /\ path = NoFile /\ tmp = NoFile /\ durable = NoFile
                  /\ cop \notin {"marker", "checkpoint"}
                  /\ att # "stopping" /\ old.att # "stopping"

\* A forgotten supervisor is in nobody's way before the next add.
Alone == "beside" \notin happened => old = NoOld

\* What a save holds in its buffer, and that the control thread's saves are
\* unclean.
Buffers ==
  /\ \A s \in Threads : IF sv[s].pc = "write" THEN sv[s].buf \in Wholes
                                              ELSE sv[s].buf = Torn
  /\ ~sv["ctl"].clean
  /\ sv["ctl"].pc = "write" => /\ ~sv["ctl"].buf.clean
                               /\ sv["ctl"].buf.gen = gen
                               /\ sv["ctl"].buf.era = era

\* Saves that have not shared the tmp file leave only whole files behind.
Unshared ==
  "shared" \notin happened =>
    /\ path.kind # "torn" /\ durable.kind # "torn"
    /\ \A s \in Threads : sv[s].pc \in {"build", "write", "rename"} =>
         /\ sv[s].fd = "tmp"
         /\ sv[s].pc = "rename" => tmp.kind = "whole"
         /\ \A t \in Threads \ {s} : sv[t].pc \in {"idle", "create"}

\* The marker and the checkpoints of a live device have the tmp file alone.
Solo ==
  "beside" \notin happened /\ (att = "live" \/ cop = "marker") =>
    /\ sv["ctl"].pc \in {"build", "write", "rename"} => sv["ctl"].fd = "tmp"
    /\ sv["ctl"].pc = "rename" => /\ tmp.kind = "whole" /\ ~tmp.clean
                                  /\ tmp.gen = gen /\ tmp.era = era

Marked ==
  "beside" \notin happened /\ withMeta /\ att \in {"boot", "live"}
    => path.kind = "whole" /\ ~path.clean

\* No map is behind a cursor of its own history.
AheadFile(f) == f.kind = "whole" /\ f.gen = cursor.gen => f.era > cursor.era

Ahead ==
  Unharmed =>
    /\ Alive /\ cursor.gen = gen => cursor.era < era
    /\ AheadFile(path) /\ AheadFile(tmp)
    /\ \A s \in Threads : AheadFile(sv[s].buf)
    /\ bk \in {"closed", "copy"} /\ path.kind = "whole" /\ path.gen = gen
         => path.era > closed
    /\ att \in {"boot", "live"} =>
         (tmp.kind = "whole" => sv["ctl"].pc = "rename" /\ cop = "checkpoint")

\* A map that is taken for clean reports every change.
SoundFile(f) ==
  f.kind = "whole" /\ f.clean /\ f.gen = cursor.gen =>
    \A c \in stale : f.eras[c] > cursor.era

Sound ==
  Unharmed =>
    /\ Alive /\ cursor.gen = gen => \A c \in stale \ pending : eras[c] > cursor.era
    /\ bk = "copy" => \A c \in (stale \ pending) \ todo : eras[c] > closed
    /\ SoundFile(path) /\ SoundFile(tmp)
    /\ \A s \in Threads : SoundFile(sv[s].buf)

IInv ==
  TypeOK /\ Shape /\ Buffers /\ Unshared /\ Alone /\ Solo /\ Marked /\ Ahead /\ Sound

-----------------------------------------------------------------------------
(* Files and saves.                                                        *)

\* What load finds in a whole file.
LEMMA WholeFields ==
  ASSUME NEW f \in Wholes
  PROVE  /\ f.kind = "whole" /\ f.gen \in Gens /\ f.era \in 1 .. MaxEra
         /\ f.eras \in [Chunks -> 0 .. MaxEra] /\ f.clean \in BOOLEAN
  BY DEF Wholes, Whole

\* The map in memory makes a whole file.
LEMMA WholeType ==
  ASSUME NEW g \in Gens, NEW e \in 1 .. MaxEra,
         NEW m \in [Chunks -> 0 .. MaxEra], NEW c \in BOOLEAN
  PROVE  /\ Whole(g, e, m, c) \in Wholes
         /\ Whole(g, e, m, c).kind = "whole" /\ Whole(g, e, m, c).gen = g
         /\ Whole(g, e, m, c).era = e /\ Whole(g, e, m, c).eras = m
         /\ Whole(g, e, m, c).clean = c
  BY DEF Wholes, Whole

\* The kinds of file are told apart by their kind.
LEMMA ContentFacts ==
  /\ NoFile \in Contents /\ NoFile.kind = "none"
  /\ Torn \in Contents /\ Torn.kind = "torn"
  /\ \A f \in Wholes : f \in Contents /\ f.kind = "whole"
  /\ \A f \in Contents : f.kind = "whole" => f \in Wholes
  BY WholeFields DEF Contents, NoFile, Torn

\* A save that has not started, and one that starts.
LEMMA SaveTypes ==
  /\ NoSave \in Saves
  /\ NoSave.pc = "idle" /\ NoSave.buf = Torn /\ NoSave.clean = FALSE
  /\ \A c \in BOOLEAN : /\ StartSave(c) \in Saves
                        /\ StartSave(c).pc = "create" /\ StartSave(c).buf = Torn
                        /\ StartSave(c).clean = c
  BY DEF Saves, NoSave, StartSave

\* A save that goes on.
LEMMA SaveMoves ==
  ASSUME NEW r \in Saves,
         NEW p \in {"idle", "create", "build", "write", "rename"},
         NEW f \in {"tmp", "path", "gone"}, NEW b \in {Torn} \cup Wholes
  PROVE  /\ [r EXCEPT !.pc = p, !.fd = f] \in Saves
         /\ [r EXCEPT !.pc = p, !.buf = b] \in Saves
         /\ [r EXCEPT !.fd = f] \in Saves
  BY DEF Saves

\* The numeric types, apart from the rest of the type invariant.
LEMMA Numbers ==
  ASSUME TypeOK
  PROVE  /\ era \in Int /\ closed \in Int /\ cursor.era \in Int
         /\ \A c \in Chunks : eras[c] \in Int
         /\ \A f \in Wholes : f.era \in Int /\ \A c \in Chunks : f.eras[c] \in Int
  <1>1. /\ era \in Int /\ closed \in Int /\ cursor.era \in Int
        /\ \A c \in Chunks : eras[c] \in Int
    BY BoundsAssumption DEF TypeOK
  <1>2. ASSUME NEW f \in Wholes
        PROVE  f.era \in Int /\ \A c \in Chunks : f.eras[c] \in Int
    BY WholeFields, BoundsAssumption
  <1> QED BY <1>1, <1>2

\* The attach marker is an unclean save, or none.
LEMMA MarkerFacts ==
  /\ Marker \in Saves /\ Marker.buf = Torn /\ Marker.clean = FALSE
  /\ withMeta => Marker.pc = "create"
  /\ ~withMeta => Marker.pc = "idle"
  BY SaveTypes DEF Marker

\* A stamp leaves an era array.
LEMMA StampedType ==
  ASSUME NEW m \in [Chunks -> 0 .. MaxEra], NEW cs, NEW e \in 1 .. MaxEra
  PROVE  Stamped(m, cs, e) \in [Chunks -> 0 .. MaxEra]
  BY BoundsAssumption DEF Stamped

\* Nobody is left behind.
LEMMA NoOldFacts ==
  /\ NoOld.att = "detached"
  /\ NoOld \in [att : {"detached", "boot", "live", "stopping"}, gen : Gens \cup {NoGen},
               era : 1 .. MaxEra, eras : [Chunks -> 0 .. MaxEra]]
  BY BoundsAssumption DEF NoOld

\* An add past the check of the registry: a history is in memory, the marker
\* is to be written, and a supervisor that has not ended is left behind.
LEMMA AddFacts ==
  ASSUME TypeOK, AddLoad \/ \E g \in Gens : AddFresh(g)
  PROVE  /\ cop = "idle" /\ ~entry /\ entry' = entry
         /\ gen' \in Gens /\ era' \in 1 .. MaxEra /\ eras' \in [Chunks -> 0 .. MaxEra]
         /\ att' = IF withMeta THEN "detached" ELSE "boot"
         /\ cop' = IF withMeta THEN "marker" ELSE "starting"
         /\ pending' = {}
         /\ UNCHANGED <<path, tmp, durable, stale, cursor, withMeta>>
         /\ sv' \in [Threads -> Saves] /\ sv'["ctl"] = Marker
         /\ \/ /\ att = "detached"
               /\ sv'["sup"] = sv["sup"] /\ sv'["old"] = sv["old"]
               /\ UNCHANGED <<old, bk, closed, todo, happened>>
            \/ /\ att # "detached" /\ old = NoOld
               /\ sv'["sup"] = NoSave /\ sv'["old"] = sv["sup"]
               /\ old' = [att |-> att, gen |-> gen, era |-> era,
                          eras |-> Stamped(eras, pending, era)]
               /\ bk' = "idle" /\ closed' = 0 /\ todo' = {}
               /\ happened' = happened \cup {"beside"}
  <1>1. ASSUME NEW g, NEW e, NEW m, Attach(g, e, m)
        PROVE  /\ cop = "idle" /\ ~entry /\ entry' = entry
               /\ gen' = g /\ era' = e /\ eras' = m
               /\ att' = IF withMeta THEN "detached" ELSE "boot"
               /\ cop' = IF withMeta THEN "marker" ELSE "starting"
               /\ pending' = {}
               /\ UNCHANGED <<path, tmp, durable, stale, cursor, withMeta>>
               /\ sv' \in [Threads -> Saves] /\ sv'["ctl"] = Marker
               /\ \/ /\ att = "detached"
                     /\ sv'["sup"] = sv["sup"] /\ sv'["old"] = sv["old"]
                     /\ UNCHANGED <<old, bk, closed, todo, happened>>
                  \/ /\ att # "detached" /\ old = NoOld
                     /\ sv'["sup"] = NoSave /\ sv'["old"] = sv["sup"]
                     /\ old' = [att |-> att, gen |-> gen, era |-> era,
                                eras |-> Stamped(eras, pending, era)]
                     /\ bk' = "idle" /\ closed' = 0 /\ todo' = {}
                     /\ happened' = happened \cup {"beside"}
    <2>1. CASE att = "detached"
      <3>1. sv' = [sv EXCEPT !["ctl"] = Marker] /\ UNCHANGED <<old, cons, env>>
        BY <1>1, <2>1 DEF Attach
      <3> QED BY <1>1, <2>1, <3>1, MarkerFacts
          DEF Attach, Threads, TypeOK, files, cons, env
    <2>2. CASE att # "detached"
      <3>1. LeaveBehind
        BY <1>1, <2>2 DEF Attach
      <3> QED BY <1>1, <2>2, <3>1, MarkerFacts, SaveTypes
          DEF Attach, LeaveBehind, Harm, Threads, TypeOK, files
    <2> QED BY <2>1, <2>2
  <1>2. CASE AddLoad
    <2> DEFINE m == IF path.clean THEN path.eras ELSE MarkAllDirty(path.eras, path.era)
    <2>1. Attach(path.gen, path.era, m)
      BY <1>2 DEF AddLoad
    <2>2. path \in Wholes
      BY <1>2, ContentFacts DEF AddLoad, TypeOK
    <2>3. path.gen \in Gens /\ path.era \in 1 .. MaxEra /\ m \in [Chunks -> 0 .. MaxEra]
      BY <2>2, WholeFields, StampedType DEF MarkAllDirty
    <2> HIDE DEF m
    <2> QED BY <1>1, <2>1, <2>3
  <1>3. ASSUME NEW g \in Gens, AddFresh(g)
        PROVE  Attach(g, 1, [c \in Chunks |-> 0])
    BY <1>3 DEF AddFresh
  <1>4. 1 \in 1 .. MaxEra /\ [c \in Chunks |-> 0] \in [Chunks -> 0 .. MaxEra]
    BY BoundsAssumption
  <1> QED BY <1>1, <1>2, <1>3, <1>4

\* Nothing has been saved yet.
LEMMA InitInv == Init => IInv
  <1> SUFFICES ASSUME Init PROVE IInv
    OBVIOUS
  <1>1. TypeOK
    <2>1. entry \in BOOLEAN /\ withMeta \in BOOLEAN
      BY MetaAssumption DEF Init
    <2>2. sv \in [Threads -> Saves]
      BY SaveTypes DEF Init
    <2>3. path \in Contents /\ tmp \in Contents /\ durable \in Contents
      BY ContentFacts DEF Init
    <2>4. /\ era \in 1 .. MaxEra /\ eras \in [Chunks -> 0 .. MaxEra]
          /\ closed \in 0 .. MaxEra
          /\ cursor \in [gen : Gens \cup {NoGen}, era : 0 .. MaxEra]
      BY BoundsAssumption DEF Init, NoCursor
    <2> QED BY <2>1, <2>2, <2>3, <2>4, NoOldFacts DEF Init, TypeOK
  <1>2. Shape /\ Buffers
    BY SaveTypes, NoOldFacts DEF Init, Shape, Buffers, Alive, Threads
  <1>3. Unshared /\ Alone /\ Solo /\ Marked
    BY SaveTypes, ContentFacts DEF Init, Unshared, Alone, Solo, Marked, Threads
  <1>4. Ahead /\ Sound
    BY SaveTypes, ContentFacts
    DEF Init, Ahead, Sound, AheadFile, SoundFile, Alive, Threads
  <1> QED BY <1>1, <1>2, <1>3, <1>4 DEF IInv

-----------------------------------------------------------------------------
(* Types.                                                                  *)

\* Every step keeps the types.
LEMMA TypeStep ==
  ASSUME TypeOK, Shape, Buffers, [Next]_vars
  PROVE  TypeOK'
  <1> USE SaveTypes, ContentFacts, NoOldFacts DEF TypeOK
  <1>1. CASE AddLoad \/ \E g \in Gens : AddFresh(g)
    <2>1. old' \in [att : {"detached", "boot", "live", "stopping"},
                    gen : Gens \cup {NoGen}, era : 1 .. MaxEra,
                    eras : [Chunks -> 0 .. MaxEra]]
      BY <1>1, AddFacts, StampedType
    <2>2. closed' \in 0 .. MaxEra
      BY <1>1, AddFacts, BoundsAssumption
    <2> QED BY <1>1, <2>1, <2>2, AddFacts
  <1>2. CASE DeviceUp \/ StartOk \/ AddTimeout \/ StartFail \/ DetachLate \/ Forget
    BY <1>2 DEF DeviceUp, StartOk, AddTimeout, StartFail, DetachLate, Forget,
       files, mem, cons, env
  <1>3. CASE RunFail
    BY <1>3 DEF RunFail, FinalSave, files, mem, cons, env
  <1>4. CASE OldUp \/ OldFails \/ OldDown \/ \E c \in Chunks : OldWrite(c)
    <2>1. sv' \in [Threads -> Saves]
      BY <1>4 DEF OldUp, OldFails, OldDown, OldWrite
    <2>2. old' \in [att : {"detached", "boot", "live", "stopping"},
                    gen : Gens \cup {NoGen}, era : 1 .. MaxEra,
                    eras : [Chunks -> 0 .. MaxEra]]
      <3>1. CASE \E c \in Chunks : OldWrite(c)
        <4>1. PICK c \in Chunks : OldWrite(c)
          BY <3>1
        <4>2. Stamped(old.eras, {c}, old.era) \in [Chunks -> 0 .. MaxEra]
          BY StampedType
        <4>3. old' = [old EXCEPT !.eras = Stamped(old.eras, {c}, old.era)]
          BY <4>1 DEF OldWrite
        <4> QED BY <4>2, <4>3
      <3>2. CASE OldUp \/ OldFails \/ OldDown
        BY <3>2 DEF OldUp, OldFails, OldDown
      <3> QED BY <1>4, <3>1, <3>2
    <2>3. stale' \subseteq Chunks
      BY <1>4 DEF OldUp, OldFails, OldDown, OldWrite
    <2>4. UNCHANGED <<files, mem, att, entry, cop, pending, cons, env>>
      BY <1>4 DEF OldUp, OldFails, OldDown, OldWrite
    <2> QED BY <2>1, <2>2, <2>3, <2>4 DEF files, mem, cons, env
  <1>5. ASSUME NEW s \in Threads, SaveStep(s) PROVE TypeOK'
    <2>1. CASE SaveCreate(s)
      <3>1. sv' \in [Threads -> Saves]
        BY <2>1, SaveMoves DEF SaveCreate
      <3>2. happened' \subseteq {"behind", "shared", "beside"} /\ withMeta' \in BOOLEAN
        BY <2>1 DEF SaveCreate, Harm, env
      <3> QED BY <2>1, <3>1, <3>2 DEF SaveCreate, mem, cons
    <2>2. CASE SaveBuild(s)
      <3>1. sv[s].clean \in BOOLEAN
        BY <2>2 DEF Saves
      <3>2. Snapshot(s) \in Wholes
        <4>1. CASE s = "old"
          <5>1. old.gen \in Gens
            BY <2>2, <4>1 DEF SaveBuild, Shape
          <5> QED BY <3>1, <4>1, <5>1, WholeType DEF Snapshot
        <4>2. CASE s # "old"
          <5>1. gen \in Gens
            BY <2>2, <4>2 DEF SaveBuild, Shape, Alive, Threads
          <5> QED BY <3>1, <4>2, <5>1, WholeType DEF Snapshot
        <4> QED BY <4>1, <4>2
      <3>3. sv' \in [Threads -> Saves]
        BY <2>2, <3>2, SaveMoves DEF SaveBuild
      <3> QED BY <2>2, <3>3 DEF SaveBuild, files, mem, cons, env
    <2>3. CASE SaveWrite(s)
      <3>1. sv[s].buf \in Wholes
        BY <2>3 DEF SaveWrite, Buffers
      <3>2. sv' \in [Threads -> Saves]
        BY <2>3, SaveMoves DEF SaveWrite
      <3> QED BY <2>3, <3>1, <3>2 DEF SaveWrite, mem, cons, env
    <2>4. ASSUME NEW ok \in BOOLEAN, AfterSave(s, ok)
          PROVE  /\ cop' \in {"idle", "marker", "starting", "checkpoint", "join"}
                 /\ bk' \in {"idle", "waiting", "closed", "copy"}
                 /\ att' \in {"detached", "boot", "live", "stopping"}
                 /\ entry' \in BOOLEAN
                 /\ old' \in {old, NoOld}
      BY <2>4 DEF AfterSave
    <2>5. CASE SaveRename(s)
      <3>1. sv' \in [Threads -> Saves]
        BY <2>5 DEF SaveRename, Saves
      <3>2. AfterSave(s, TRUE)
        BY <2>5 DEF SaveRename
      <3> QED BY <2>4, <2>5, <3>1, <3>2 DEF SaveRename, mem, env
    <2>6. CASE SaveError(s)
      <3>1. sv' \in [Threads -> Saves]
        BY <2>6 DEF SaveError
      <3>2. AfterSave(s, FALSE)
        BY <2>6 DEF SaveError
      <3>3. happened' \subseteq {"behind", "shared", "beside"} /\ withMeta' \in BOOLEAN
        BY <2>6 DEF SaveError, Harm, env
      <3> QED BY <2>4, <2>6, <3>1, <3>2, <3>3 DEF SaveError, files, mem
    <2> QED BY <1>5, <2>1, <2>2, <2>3, <2>5, <2>6 DEF SaveStep
  <1>6. ASSUME NEW c \in Chunks, Land(c) \/ Stamp(c) PROVE TypeOK'
    <2>1. eras' \in [Chunks -> 0 .. MaxEra]
      BY <1>6, StampedType DEF Land, Stamp, mem
    <2> QED BY <1>6, <2>1 DEF Land, Stamp, files, mem, cons, env
  <1>7. CASE Checkpoint \/ BeginBackup
    <2>1. era' \in 1 .. MaxEra /\ closed' \in 0 .. MaxEra
      <3>1. era < MaxEra /\ era' = era + 1 /\ closed' \in {closed, era}
        BY <1>7 DEF Checkpoint, BeginBackup, Advance
      <3> QED BY <3>1, BoundsAssumption
    <2>2. sv' \in [Threads -> Saves]
      BY <1>7 DEF Checkpoint, BeginBackup, Advance
    <2> QED BY <1>7, <2>1, <2>2 DEF Checkpoint, BeginBackup, Advance, files, env
  <1>8. CASE Detach \/ ExternalDelete
    <2>1. sv' \in [Threads -> Saves]
      BY <1>8 DEF Detach, ExternalDelete, FinalSave
    <2>2. closed' \in 0 .. MaxEra
      BY <1>8, BoundsAssumption DEF Detach, ExternalDelete
    <2>3. entry' \in BOOLEAN
      BY <1>8 DEF Detach, ExternalDelete
    <2> QED BY <1>8, <2>1, <2>2, <2>3
        DEF Detach, ExternalDelete, FinalSave, files, mem, env
  <1>9. CASE Kill \/ PowerLoss
    <2>1. happened' \subseteq {"behind", "shared", "beside"} /\ withMeta' \in BOOLEAN
      BY <1>9 DEF Kill, PowerLoss, Harm, env
    <2>2. sv' \in [Threads -> Saves]
      BY <1>9 DEF Kill, PowerLoss, ProcessDies
    <2>3. /\ att' = "detached" /\ entry' = FALSE /\ old' = NoOld /\ cop' = "idle"
          /\ pending' = {} /\ bk' = "idle" /\ closed' = 0 /\ todo' = {}
          /\ UNCHANGED <<gen, era, eras, cursor, stale>>
          /\ path' \in {path, durable} /\ tmp' \in {tmp, NoFile} /\ durable' = durable
      BY <1>9 DEF Kill, PowerLoss, ProcessDies, files, mem
    <2>4. closed' \in 0 .. MaxEra
      BY <2>3, BoundsAssumption
    <2> QED BY <2>1, <2>2, <2>3, <2>4
  <1>10. CASE DirectorySync \/ LoseMeta
    BY <1>10 DEF DirectorySync, LoseMeta, mem, cons, env
  <1>11. CASE Dump \/ FinishBackup
    <2>1. closed' \in 0 .. MaxEra /\ todo' \subseteq Chunks
      BY <1>11, BoundsAssumption DEF Dump, FinishBackup, Reported
    <2>2. cursor' \in [gen : Gens \cup {NoGen}, era : 0 .. MaxEra]
      BY <1>11 DEF Dump, FinishBackup
    <2> QED BY <1>11, <2>1, <2>2 DEF Dump, FinishBackup, files, mem, env
  <1>12. CASE UNCHANGED vars
    BY <1>12 DEF vars, files, mem, cons, env
  <1> QED BY <1>1, <1>2, <1>3, <1>4, <1>5, <1>6, <1>7, <1>8, <1>9, <1>10, <1>11,
      <1>12 DEF Next

-----------------------------------------------------------------------------
(* What the calls of a save do to the saves in progress.                   *)

\* File::create: the save holds the tmp file.
LEMMA CreateFacts ==
  ASSUME TypeOK, NEW s \in Threads, SaveCreate(s)
  PROVE  /\ sv'[s].pc = "build" /\ sv'[s].fd = "tmp"
         /\ sv'[s].buf = sv[s].buf /\ sv'[s].clean = sv[s].clean
         /\ \A t \in Threads \ {s} : sv'[t] = sv[t]
  BY DEF TypeOK, Saves, SaveCreate

\* The buffer is the device's map at this moment, with the flag the save was
\* called with.
LEMMA BuildFacts ==
  ASSUME TypeOK, Shape, NEW s \in Threads, SaveBuild(s)
  PROVE  /\ sv'[s].pc = "write" /\ sv'[s].fd = sv[s].fd
         /\ sv'[s].buf \in Wholes /\ sv'[s].clean = sv[s].clean
         /\ sv'[s].buf.kind = "whole"
         /\ sv'[s].buf.clean <=> sv[s].clean
         /\ s # "old" => /\ sv'[s].buf.gen = gen
                         /\ sv'[s].buf.era = era /\ sv'[s].buf.eras = eras
         /\ \A t \in Threads \ {s} : sv'[t] = sv[t]
  <1>1. sv[s].clean \in BOOLEAN
    BY DEF TypeOK, Saves
  <1>2. /\ sv'[s].pc = "write" /\ sv'[s].fd = sv[s].fd
        /\ sv'[s].buf = Snapshot(s)
        /\ sv'[s].clean = sv[s].clean
        /\ \A t \in Threads \ {s} : sv'[t] = sv[t]
    BY DEF TypeOK, Saves, SaveBuild
  <1>3. CASE s = "old"
    <2>1. old.gen \in Gens
      BY <1>3 DEF SaveBuild, Shape
    <2>2. Snapshot(s) = Whole(old.gen, old.era, old.eras, sv[s].clean)
      BY <1>3 DEF Snapshot
    <2>3. old.era \in 1 .. MaxEra /\ old.eras \in [Chunks -> 0 .. MaxEra]
      BY DEF TypeOK
    <2>4. Snapshot(s).clean <=> sv[s].clean
      BY <2>2 DEF Whole
    <2> QED BY <1>1, <1>2, <1>3, <2>1, <2>2, <2>3, <2>4, WholeType
  <1>4. CASE s # "old"
    <2>1. gen \in Gens
      BY <1>4 DEF SaveBuild, Shape, Alive, Threads
    <2>2. Snapshot(s) = Whole(gen, era, eras, sv[s].clean)
      BY <1>4 DEF Snapshot
    <2>3. era \in 1 .. MaxEra /\ eras \in [Chunks -> 0 .. MaxEra]
      BY DEF TypeOK
    <2>4. Snapshot(s).clean <=> sv[s].clean
      BY <2>2 DEF Whole
    <2> QED BY <1>1, <1>2, <1>4, <2>1, <2>2, <2>3, <2>4, WholeType
  <1> QED BY <1>3, <1>4

\* write_all: the buffer has gone to the file.
LEMMA WriteFacts ==
  ASSUME TypeOK, NEW s \in Threads, SaveWrite(s)
  PROVE  /\ sv'[s].pc = "rename" /\ sv'[s].fd = sv[s].fd
         /\ sv'[s].buf = Torn /\ sv'[s].clean = sv[s].clean
         /\ \A t \in Threads \ {s} : sv'[t] = sv[t]
  BY DEF TypeOK, Saves, SaveWrite

\* rename: the save ends; another save's descriptor may now follow a renamed
\* inode.
LEMMA RenameFacts ==
  ASSUME TypeOK, NEW s \in Threads, SaveRename(s)
  PROVE  /\ sv'[s] = NoSave
         /\ \A t \in Threads \ {s} :
              /\ sv'[t].pc = sv[t].pc /\ sv'[t].buf = sv[t].buf
              /\ sv'[t].clean = sv[t].clean
  BY DEF TypeOK, Saves, SaveRename

\* A failed call ends its save and touches no other.
LEMMA ErrorFacts ==
  ASSUME TypeOK, NEW s \in Threads, SaveError(s)
  PROVE  /\ sv'[s] = NoSave
         /\ \A t \in Threads \ {s} : sv'[t] = sv[t]
  BY DEF TypeOK, SaveError

\* A save of the control thread, or of the supervisor, that starts.
LEMMA StartFacts ==
  ASSUME TypeOK, NEW s \in Threads, NEW c \in BOOLEAN,
         sv' = [sv EXCEPT ![s] = StartSave(c)]
  PROVE  /\ sv'[s].pc = "create" /\ sv'[s].buf = Torn /\ sv'[s].clean = c
         /\ \A t \in Threads \ {s} : sv'[t] = sv[t]
  BY SaveTypes DEF TypeOK

\* The caller's next state, by the thread that saved.
LEMMA AfterFacts ==
  ASSUME NEW s \in Threads, NEW ok \in BOOLEAN, AfterSave(s, ok), Shape,
         sv[s].pc # "idle"
  PROVE  \/ /\ s = "ctl" /\ cop = "marker" /\ bk' = bk
            /\ entry' = entry /\ old' = old
            /\ att' = IF ok THEN "boot" ELSE att
            /\ cop' = IF ok THEN "starting" ELSE "idle"
         \/ /\ s = "ctl" /\ cop = "checkpoint" /\ cop' = "idle" /\ att' = att
            /\ entry' = entry /\ old' = old
            /\ bk' = IF bk = "waiting" THEN "closed" ELSE bk
         \/ /\ s = "sup" /\ att = "stopping" /\ att' = "detached" /\ bk' = bk
            /\ entry' = FALSE /\ old' = old
            /\ cop' = IF cop = "join" THEN "idle" ELSE cop
         \/ /\ s = "old" /\ old.att = "stopping" /\ old' = NoOld
            /\ att' = att /\ entry' = entry /\ cop' = cop /\ bk' = bk
  BY DEF AfterSave, Shape

-----------------------------------------------------------------------------
(* Where the threads are.                                                  *)

\* Every step keeps the relation between what the threads do and the device's
\* state.
LEMMA ShapeStep ==
  ASSUME TypeOK, TypeOK', Shape, Buffers, [Next]_vars
  PROVE  Shape'
  <1> USE DEF Shape, Alive, Threads
  <1>1. CASE AddLoad \/ \E g \in Gens : AddFresh(g)
    <2>1. sv'["ctl"].pc # "idle" <=> withMeta
      BY <1>1, AddFacts, MarkerFacts
    <2>2. CASE att = "detached"
      BY <1>1, <2>1, <2>2, AddFacts
    <2>3. CASE att # "detached"
      <3>1. /\ sv'["sup"] = NoSave /\ sv'["old"] = sv["sup"]
            /\ old'.att = att /\ old'.gen = gen /\ bk' = "idle"
        BY <1>1, <2>3, AddFacts
      <3> QED BY <1>1, <2>1, <2>3, <3>1, AddFacts, SaveTypes
    <2> QED BY <2>2, <2>3
  <1>2. CASE DeviceUp \/ StartOk \/ AddTimeout \/ StartFail \/ DetachLate \/ Forget
    BY <1>2 DEF DeviceUp, StartOk, AddTimeout, StartFail, DetachLate, Forget,
       files, mem, cons, env, TypeOK
  <1>3. CASE RunFail
    BY <1>3, StartFacts DEF RunFail, FinalSave, files, mem, cons, env
  <1>4. CASE OldUp \/ OldFails \/ OldDown \/ \E c \in Chunks : OldWrite(c)
    <2>1. /\ old'.att # "detached" => old'.gen = old.gen /\ old.att # "detached"
          /\ sv'["old"].pc # "idle" <=> old'.att = "stopping"
          /\ sv'["ctl"] = sv["ctl"] /\ sv'["sup"] = sv["sup"]
          /\ ~withMeta => old'.att # "stopping"
      <3>1. CASE OldUp \/ OldFails
        BY <3>1, NoOldFacts DEF OldUp, OldFails, TypeOK
      <3>2. CASE OldDown /\ withMeta
        <4>1. /\ old.att \in {"boot", "live"} /\ old' = [old EXCEPT !.att = "stopping"]
              /\ sv' = [sv EXCEPT !["old"] = StartSave(TRUE)]
          BY <3>2 DEF OldDown
        <4>2. old'.att = "stopping" /\ old'.gen = old.gen
          BY <4>1 DEF TypeOK
        <4> QED BY <3>2, <4>1, <4>2, StartFacts
      <3>3. CASE OldDown /\ ~withMeta
        BY <3>3, NoOldFacts DEF OldDown
      <3>4. CASE \E c \in Chunks : OldWrite(c)
        BY <3>4 DEF OldWrite, TypeOK
      <3> QED BY <1>4, <3>1, <3>2, <3>3, <3>4
    <2>2. UNCHANGED <<files, mem, att, entry, cop, pending, cons, env>>
      BY <1>4 DEF OldUp, OldFails, OldDown, OldWrite
    <2> QED BY <2>1, <2>2 DEF files, mem, cons, env
  <1>5. ASSUME NEW s \in Threads, SaveStep(s) PROVE Shape'
    <2>1. CASE SaveCreate(s)
      BY <2>1, CreateFacts DEF SaveCreate, mem, cons, Harm, env
    <2>2. CASE SaveBuild(s)
      BY <2>2, BuildFacts DEF SaveBuild, files, mem, cons, env
    <2>3. CASE SaveWrite(s)
      BY <2>3, WriteFacts DEF SaveWrite, mem, cons, env
    <2>4. CASE SaveRename(s)
      <3>1. sv[s].pc # "idle" /\ AfterSave(s, TRUE)
        BY <2>4 DEF SaveRename
      <3>2. sv'[s].pc = "idle" /\ \A t \in Threads \ {s} : sv'[t].pc = sv[t].pc
        BY <2>4, RenameFacts, SaveTypes
      <3>3. UNCHANGED <<gen, era, closed, pending, withMeta, durable>>
        BY <2>4 DEF SaveRename, mem, env
      <3>4. withMeta
        BY <3>1
      <3>5. CASE s = "ctl"
        BY <3>1, <3>2, <3>3, <3>4, <3>5, AfterFacts
      <3>6. CASE s = "sup"
        BY <3>1, <3>2, <3>3, <3>4, <3>6, AfterFacts
      <3>7. CASE s = "old"
        BY <3>1, <3>2, <3>3, <3>4, <3>7, AfterFacts, NoOldFacts
      <3> QED BY <3>5, <3>6, <3>7
    <2>5. CASE SaveError(s)
      <3>1. sv[s].pc # "idle" /\ AfterSave(s, FALSE)
        BY <2>5 DEF SaveError
      <3>2. sv'[s].pc = "idle" /\ \A t \in Threads \ {s} : sv'[t].pc = sv[t].pc
        BY <2>5, ErrorFacts, SaveTypes
      <3>3. UNCHANGED <<gen, era, closed, pending, withMeta, durable>>
        BY <2>5 DEF SaveError, files, mem, Harm, env
      <3>4. withMeta
        BY <3>1
      <3>5. CASE s = "ctl"
        BY <3>1, <3>2, <3>3, <3>4, <3>5, AfterFacts
      <3>6. CASE s = "sup"
        BY <3>1, <3>2, <3>3, <3>4, <3>6, AfterFacts
      <3>7. CASE s = "old"
        BY <3>1, <3>2, <3>3, <3>4, <3>7, AfterFacts, NoOldFacts
      <3> QED BY <3>5, <3>6, <3>7
    <2> QED BY <1>5, <2>1, <2>2, <2>3, <2>4, <2>5 DEF SaveStep
  <1>6. ASSUME NEW c \in Chunks, Land(c) \/ Stamp(c) PROVE Shape'
    BY <1>6 DEF Land, Stamp, files, mem, cons, env
  <1>7. CASE Checkpoint \/ BeginBackup
    <2>1. /\ att \in {"live", "stopping"} /\ cop = "idle"
          /\ cop' = IF withMeta THEN "checkpoint" ELSE "idle"
          /\ UNCHANGED <<path, tmp, durable, gen, att, entry, old, pending, withMeta>>
          /\ withMeta => sv' = [sv EXCEPT !["ctl"] = StartSave(FALSE)]
          /\ ~withMeta => sv' = sv
      BY <1>7 DEF Checkpoint, BeginBackup, Advance, files, env
    <2>2. /\ sv'["ctl"].pc # "idle" <=> cop' = "checkpoint"
          /\ sv'["sup"] = sv["sup"] /\ sv'["old"] = sv["old"]
      BY <2>1, StartFacts
    <2>3. /\ bk' # "idle" => att = "live" /\ closed' < era'
          /\ bk' = "waiting" => cop' = "checkpoint"
      <3>1. era \in Int /\ closed \in Int /\ era' = era + 1
        BY <1>7, Numbers DEF Checkpoint, BeginBackup, Advance
      <3>2. CASE Checkpoint
        BY <3>1, <3>2, <2>1 DEF Checkpoint
      <3>3. CASE BeginBackup
        BY <3>1, <3>3, <2>1 DEF BeginBackup
      <3> QED BY <1>7, <3>2, <3>3
    <2> QED BY <2>1, <2>2, <2>3
  <1>8. CASE Detach \/ ExternalDelete
    BY <1>8, StartFacts DEF Detach, ExternalDelete, FinalSave, files, mem, env
  <1>9. CASE Kill \/ PowerLoss
    BY <1>9, SaveTypes, NoOldFacts
    DEF Kill, PowerLoss, ProcessDies, Harm, files, mem, env
  <1>10. CASE DirectorySync \/ LoseMeta
    BY <1>10 DEF DirectorySync, LoseMeta, mem, cons, env
  <1>11. CASE Dump \/ FinishBackup
    BY <1>11 DEF Dump, FinishBackup, files, mem, env
  <1>12. CASE UNCHANGED vars
    BY <1>12 DEF vars, files, mem, cons, env
  <1> QED BY <1>1, <1>2, <1>3, <1>4, <1>5, <1>6, <1>7, <1>8, <1>9, <1>10, <1>11,
      <1>12 DEF Next

\* A step that leaves the history in memory, or is taken while the control
\* thread saves nothing, keeps what is in the buffers.
LEMMA BuffersStep ==
  ASSUME TypeOK, TypeOK', Shape, Buffers, [Next]_vars
  PROVE  Buffers'
  <1> USE DEF Buffers, Threads
  <1>0. CASE AddLoad \/ \E g \in Gens : AddFresh(g)
    <2>1. /\ sv'["ctl"] = Marker
          /\ sv'["sup"] \in {sv["sup"], NoSave} /\ sv'["old"] \in {sv["old"], sv["sup"]}
      BY <1>0, AddFacts
    <2> QED BY <2>1, MarkerFacts, SaveTypes
  <1>1. CASE Checkpoint \/ BeginBackup
    <2>1. sv["ctl"].pc = "idle" /\ (sv' = [sv EXCEPT !["ctl"] = StartSave(FALSE)] \/ sv' = sv)
      BY <1>1 DEF Checkpoint, BeginBackup, Advance, Shape
    <2>2. /\ sv'["ctl"].pc \in {"idle", "create"} /\ sv'["ctl"].buf = Torn
          /\ ~sv'["ctl"].clean
          /\ sv'["sup"] = sv["sup"] /\ sv'["old"] = sv["old"]
      BY <2>1, StartFacts
    <2> QED BY <2>2
  <1>2. CASE \/ RunFail \/ Detach \/ ExternalDelete
             \/ OldUp \/ OldFails \/ OldDown \/ \E c \in Chunks : OldWrite(c)
    <2>1. \/ sv' = [sv EXCEPT !["sup"] = StartSave(TRUE)]
          \/ sv' = [sv EXCEPT !["old"] = StartSave(TRUE)]
          \/ sv' = sv
      BY <1>2 DEF RunFail, Detach, ExternalDelete, FinalSave, OldUp, OldFails, OldDown,
         OldWrite
    <2>2. UNCHANGED <<gen, era>>
      BY <1>2 DEF RunFail, Detach, ExternalDelete, OldUp, OldFails, OldDown, OldWrite,
         mem
    <2>3. /\ sv'["ctl"] = sv["ctl"]
          /\ \A t \in Threads : \/ sv'[t] = sv[t]
                                \/ sv'[t].pc = "create" /\ sv'[t].buf = Torn
      BY <2>1, StartFacts
    <2> QED BY <2>2, <2>3
  <1>3. ASSUME NEW s \in Threads, SaveStep(s) PROVE Buffers'
    <2>1. CASE SaveCreate(s)
      BY <2>1, CreateFacts DEF SaveCreate, mem
    <2>2. CASE SaveBuild(s)
      <3>1. UNCHANGED <<gen, era>>
        BY <2>2 DEF SaveBuild, mem
      <3>2. /\ sv'[s].pc = "write" /\ sv'[s].buf \in Wholes
            /\ s = "ctl" => sv'[s].buf.gen = gen /\ sv'[s].buf.era = era
            /\ \A t \in Threads \ {s} : sv'[t] = sv[t]
        BY <2>2, BuildFacts
      <3>3. s = "ctl" => ~sv'["ctl"].clean /\ ~sv'["ctl"].buf.clean
        BY <2>2, BuildFacts
      <3> QED BY <3>1, <3>2, <3>3
    <2>3. CASE SaveWrite(s)
      BY <2>3, WriteFacts DEF SaveWrite, mem
    <2>4. CASE SaveRename(s)
      BY <2>4, RenameFacts, SaveTypes DEF SaveRename, mem
    <2>5. CASE SaveError(s)
      BY <2>5, ErrorFacts, SaveTypes DEF SaveError, mem
    <2> QED BY <1>3, <2>1, <2>2, <2>3, <2>4, <2>5 DEF SaveStep
  <1>4. CASE Kill \/ PowerLoss
    BY <1>4, SaveTypes DEF Kill, PowerLoss, ProcessDies
  <1>5. CASE \/ DeviceUp \/ StartOk \/ AddTimeout \/ StartFail \/ DetachLate \/ Forget
             \/ DirectorySync \/ LoseMeta \/ Dump \/ FinishBackup
             \/ (\E c \in Chunks : Land(c) \/ Stamp(c)) \/ UNCHANGED vars
    <2>1. UNCHANGED <<sv, gen, era>>
      BY <1>5 DEF DeviceUp, StartOk, AddTimeout, StartFail, DetachLate, Forget,
         DirectorySync, LoseMeta, Dump, FinishBackup, Land, Stamp, vars, mem
    <2> QED BY <2>1
  <1> QED BY <1>0, <1>1, <1>2, <1>3, <1>4, <1>5 DEF Next

\* A save that shares its tmp file with no other replaces the file as a whole.
LEMMA UnsharedStep ==
  ASSUME TypeOK, TypeOK', Shape, Buffers, Unshared, [Next]_vars
  PROVE  Unshared'
  <1> USE DEF Unshared, Threads
  <1>0. CASE AddLoad \/ \E g \in Gens : AddFresh(g)
    <2>1. /\ "shared" \notin happened' => "shared" \notin happened
          /\ UNCHANGED <<path, tmp, durable>>
      BY <1>0, AddFacts
    <2>2. sv["ctl"].pc = "idle" /\ sv'["ctl"].pc \in {"idle", "create"}
      BY <1>0, AddFacts, MarkerFacts DEF Shape
    <2>3. CASE att = "detached"
      BY <1>0, <2>1, <2>2, <2>3, AddFacts
    <2>4. CASE att # "detached"
      <3>1. sv["old"].pc = "idle"
        BY <1>0, <2>4, AddFacts, NoOldFacts DEF Shape
      <3>2. sv'["sup"].pc = "idle" /\ sv'["old"] = sv["sup"]
        BY <1>0, <2>4, AddFacts, SaveTypes
      <3> QED BY <2>1, <2>2, <3>1, <3>2
    <2> QED BY <2>3, <2>4
  <1>1. CASE Checkpoint \/ BeginBackup
    <2>1. sv["ctl"].pc = "idle" /\ (sv' = [sv EXCEPT !["ctl"] = StartSave(FALSE)] \/ sv' = sv)
      BY <1>1 DEF Checkpoint, BeginBackup, Advance, Shape
    <2>2. UNCHANGED <<path, tmp, durable, happened>>
      BY <1>1 DEF Checkpoint, BeginBackup, Advance, files, env
    <2>3. \A t \in Threads : \/ sv'[t] = sv[t]
                             \/ sv'[t].pc = "create" /\ sv[t].pc = "idle"
      BY <2>1, StartFacts
    <2> QED BY <2>2, <2>3
  <1>2. CASE \/ RunFail \/ Detach \/ ExternalDelete
             \/ OldUp \/ OldFails \/ OldDown \/ \E c \in Chunks : OldWrite(c)
    <2>1. \/ sv["sup"].pc = "idle" /\ sv' = [sv EXCEPT !["sup"] = StartSave(TRUE)]
          \/ sv["old"].pc = "idle" /\ sv' = [sv EXCEPT !["old"] = StartSave(TRUE)]
          \/ sv' = sv
      BY <1>2 DEF RunFail, Detach, ExternalDelete, FinalSave, OldUp, OldFails, OldDown,
         OldWrite, Shape
    <2>2. UNCHANGED <<path, tmp, durable, happened>>
      BY <1>2 DEF RunFail, Detach, ExternalDelete, OldUp, OldFails, OldDown, OldWrite,
         files, env
    <2>3. \A t \in Threads : \/ sv'[t] = sv[t]
                             \/ sv'[t].pc = "create" /\ sv[t].pc = "idle"
      BY <2>1, StartFacts
    <2> QED BY <2>2, <2>3
  <1>3. ASSUME NEW s \in Threads, SaveStep(s) PROVE Unshared'
    <2>1. CASE SaveCreate(s)
      <3>1. "shared" \notin happened' =>
              "shared" \notin happened /\ \A t \in Threads \ {s} : sv[t].pc = "idle"
        BY <2>1 DEF SaveCreate, Harm, env
      <3> QED BY <2>1, <3>1, CreateFacts DEF SaveCreate
    <2>2. CASE SaveBuild(s)
      BY <2>2, BuildFacts DEF SaveBuild, files, env
    <2>3. CASE SaveWrite(s)
      <3>1. sv[s].buf.kind = "whole" /\ sv[s].pc = "write"
        BY <2>3, ContentFacts DEF SaveWrite, Buffers
      <3>2. UNCHANGED <<durable, happened>>
        BY <2>3 DEF SaveWrite, env
      <3>3. /\ tmp' = IF sv[s].fd = "tmp" THEN sv[s].buf ELSE tmp
            /\ path' = IF sv[s].fd = "path" THEN sv[s].buf ELSE path
        BY <2>3 DEF SaveWrite
      <3> QED BY <2>3, <3>1, <3>2, <3>3, WriteFacts
    <2>4. CASE SaveRename(s)
      BY <2>4, RenameFacts, SaveTypes DEF SaveRename, env
    <2>5. CASE SaveError(s)
      <3>1. "shared" \notin happened' => "shared" \notin happened
        BY <2>5 DEF SaveError, Harm, env
      <3> QED BY <2>5, <3>1, ErrorFacts, SaveTypes DEF SaveError, files
    <2> QED BY <1>3, <2>1, <2>2, <2>3, <2>4, <2>5 DEF SaveStep
  <1>4. CASE Kill \/ PowerLoss
    <2>1. "shared" \notin happened' => "shared" \notin happened
      BY <1>4 DEF Kill, PowerLoss, Harm, env
    <2> QED BY <1>4, <2>1, SaveTypes DEF Kill, PowerLoss, ProcessDies, files
  <1>5. CASE DirectorySync \/ LoseMeta
    BY <1>5, ContentFacts DEF DirectorySync, LoseMeta, env
  <1>6. CASE \/ DeviceUp \/ StartOk \/ AddTimeout \/ StartFail \/ DetachLate \/ Forget
             \/ Dump \/ FinishBackup
             \/ (\E c \in Chunks : Land(c) \/ Stamp(c)) \/ UNCHANGED vars
    <2>1. UNCHANGED <<sv, path, tmp, durable, happened>>
      BY <1>6 DEF DeviceUp, StartOk, AddTimeout, StartFail, DetachLate, Forget, Dump,
         FinishBackup, Land, Stamp, vars, files, env
    <2> QED BY <2>1
  <1> QED BY <1>0, <1>1, <1>2, <1>3, <1>4, <1>5, <1>6 DEF Next

\* What a fault has broken stays broken.
LEMMA HarmStays ==
  ASSUME TypeOK, [Next]_vars
  PROVE  happened \subseteq happened'
  <1>1. ASSUME NEW s \in Threads, SaveStep(s) PROVE happened \subseteq happened'
    BY <1>1 DEF SaveStep, SaveCreate, SaveBuild, SaveWrite, SaveRename,
       SaveError, Harm, env
  <1>2. CASE AddLoad \/ \E g \in Gens : AddFresh(g)
    BY <1>2, AddFacts
  <1> QED BY <1>1, <1>2 DEF Next, DeviceUp, StartOk, AddTimeout, StartFail, RunFail,
      Land, Stamp, Checkpoint, BeginBackup, Advance, Detach, DetachLate, Forget,
      ExternalDelete, OldUp, OldFails, OldDown, OldWrite, Kill, PowerLoss,
      DirectorySync, LoseMeta, Dump, FinishBackup, Harm, vars, env

\* Only an add leaves a supervisor behind.
LEMMA AloneStep ==
  ASSUME TypeOK, Shape, Alone, [Next]_vars
  PROVE  Alone'
  <1> SUFFICES ASSUME "beside" \notin happened' PROVE old' = NoOld
    BY DEF Alone
  <1>0. old = NoOld
    BY HarmStays DEF Alone
  <1>1. ASSUME NEW s \in Threads, SaveStep(s) PROVE old' \in {old, NoOld}
    BY <1>1 DEF SaveStep, SaveCreate, SaveBuild, SaveWrite, SaveRename, SaveError,
       AfterSave
  <1>2. CASE AddLoad \/ \E g \in Gens : AddFresh(g)
    BY <1>0, <1>2, AddFacts
  <1>3. CASE OldUp \/ OldFails \/ OldDown \/ \E c \in Chunks : OldWrite(c)
    BY <1>0, <1>3, NoOldFacts DEF OldUp, OldFails, OldDown, OldWrite
  <1> QED BY <1>0, <1>1, <1>2, <1>3 DEF Next, DeviceUp, StartOk, AddTimeout, StartFail,
      RunFail, Land, Stamp, Checkpoint, BeginBackup, Advance, Detach, DetachLate, Forget,
      ExternalDelete, Kill, PowerLoss, ProcessDies, DirectorySync, LoseMeta, Dump,
      FinishBackup, vars

\* Without an add beside a forgotten supervisor there is nobody left behind,
\* and an add finds the device gone.
LEMMA Undisturbed ==
  ASSUME TypeOK, Shape, Alone, [Next]_vars, "beside" \notin happened'
  PROVE  /\ "beside" \notin happened
         /\ sv["old"].pc = "idle"
         /\ ~(OldUp \/ OldFails \/ OldDown \/ \E c \in Chunks : OldWrite(c))
         /\ AddLoad \/ (\E g \in Gens : AddFresh(g)) =>
              /\ att = "detached" /\ UNCHANGED <<old, bk, closed, todo, happened>>
              /\ sv'["ctl"] = Marker
              /\ sv'["sup"] = sv["sup"] /\ sv'["old"] = sv["old"]
  <1>1. "beside" \notin happened
    BY HarmStays
  <1>2. old.att = "detached"
    BY <1>1, NoOldFacts DEF Alone
  <1>3. sv["old"].pc = "idle"
    BY <1>2 DEF Shape
  <1>4. ~(OldUp \/ OldFails \/ OldDown \/ \E c \in Chunks : OldWrite(c))
    BY <1>2 DEF OldUp, OldFails, OldDown, OldWrite
  <1>5. ASSUME AddLoad \/ (\E g \in Gens : AddFresh(g))
        PROVE  /\ att = "detached" /\ UNCHANGED <<old, bk, closed, todo, happened>>
               /\ sv'["ctl"] = Marker
               /\ sv'["sup"] = sv["sup"] /\ sv'["old"] = sv["old"]
    BY <1>5, AddFacts
  <1> QED BY <1>1, <1>3, <1>4, <1>5

\* The final save runs only when the device is no longer live, so that the
\* marker and the checkpoints of a live device meet no other save.
LEMMA SoloStep ==
  ASSUME TypeOK, TypeOK', Shape, Buffers, Alone, Solo, Marked, [Next]_vars
  PROVE  Solo' /\ Marked'
  <1> SUFFICES ASSUME "beside" \notin happened' PROVE Solo' /\ Marked'
    BY DEF Solo, Marked
  <1>0. "beside" \notin happened /\ sv["old"].pc = "idle"
    BY Undisturbed
  <1> USE <1>0 DEF Solo, Marked
  <1>1. CASE AddLoad \/ \E g \in Gens : AddFresh(g)
    BY <1>1, AddFacts, MarkerFacts
  <1>2. CASE DeviceUp \/ StartOk \/ AddTimeout \/ DetachLate \/ Forget
    <2>1. /\ UNCHANGED <<path, tmp, sv, gen, era, withMeta>>
          /\ att' = att \/ (att = "boot" /\ att' = "live")
          /\ cop' = "marker" => cop = "marker"
      BY <1>2 DEF DeviceUp, StartOk, AddTimeout, DetachLate, Forget, files, mem, env
    <2>2. att = "boot" => sv["ctl"].pc = "idle"
      BY DEF Shape
    <2> QED BY <2>1, <2>2
  <1>3. CASE StartFail
    BY <1>3 DEF StartFail
  <1>4. CASE Checkpoint \/ BeginBackup
    <2>1. /\ cop = "idle" /\ cop' \in {"idle", "checkpoint"}
          /\ UNCHANGED <<path, tmp, att, withMeta, gen>>
          /\ \/ sv' = [sv EXCEPT !["ctl"] = StartSave(FALSE)]
             \/ sv' = sv
      BY <1>4 DEF Checkpoint, BeginBackup, Advance, files, env
    <2>2. sv["ctl"].pc = "idle"
      BY <2>1 DEF Shape
    <2>3. sv'["ctl"].pc \in {"idle", "create"}
      BY <2>1, <2>2, StartFacts DEF Threads
    <2> QED BY <2>1, <2>3
  <1>5. CASE RunFail \/ Detach \/ ExternalDelete
    <2>1. /\ att' \notin {"boot", "live"} /\ cop' # "marker"
      BY <1>5 DEF RunFail, Detach, ExternalDelete, FinalSave, Shape
    <2> QED BY <2>1
  <1>6. ASSUME NEW s \in Threads, SaveStep(s), att = "live" \/ cop = "marker"
        PROVE  Solo' /\ Marked'
    <2>1. s = "ctl"
      BY <1>6 DEF SaveStep, SaveCreate, SaveBuild, SaveWrite, SaveRename, SaveError,
         Shape, Threads
    <2>2. CASE SaveCreate(s)
      BY <2>1, <2>2, CreateFacts DEF SaveCreate, Harm, env
    <2>3. CASE SaveBuild(s)
      BY <2>1, <2>3, BuildFacts DEF SaveBuild, files, mem, env
    <2>4. CASE SaveWrite(s)
      <3>1. sv["ctl"].pc = "write" /\ sv["ctl"].fd = "tmp"
        BY <1>6, <2>1, <2>4 DEF SaveWrite
      <3>2. sv["ctl"].buf.kind = "whole"
        BY <3>1, ContentFacts DEF Buffers, Threads
      <3>3. tmp' = sv["ctl"].buf /\ UNCHANGED <<path, gen, era, att, cop, withMeta>>
        BY <2>1, <2>4, <3>1 DEF SaveWrite, mem, env
      <3> QED BY <2>1, <2>4, <3>1, <3>2, <3>3, WriteFacts DEF Buffers
    <2>5. CASE SaveRename(s)
      <3>1. /\ path' = tmp /\ tmp.kind = "whole" /\ ~tmp.clean
        BY <1>6, <2>1, <2>5 DEF SaveRename
      <3>2. sv'["ctl"].pc = "idle"
        BY <2>1, <2>5, RenameFacts, SaveTypes
      <3>3. cop' # "marker"
        BY <2>1, <2>5, AfterFacts DEF SaveRename
      <3> QED BY <3>1, <3>2, <3>3
    <2>6. CASE SaveError(s)
      <3>1. sv'["ctl"].pc = "idle"
        BY <2>1, <2>6, ErrorFacts, SaveTypes
      <3>2. att' = att /\ cop' = "idle" /\ UNCHANGED <<path, withMeta>>
        BY <2>1, <2>6 DEF SaveError, AfterSave, files, Harm, env
      <3> QED BY <3>1, <3>2
    <2> QED BY <1>6, <2>2, <2>3, <2>4, <2>5, <2>6 DEF SaveStep
  <1>7. ASSUME NEW s \in Threads, SaveStep(s), ~(att = "live" \/ cop = "marker")
        PROVE  Solo' /\ Marked'
    <2>1. sv[s].pc # "idle" /\ s # "old" /\ att # "boot"
      BY <1>7 DEF SaveStep, SaveCreate, SaveBuild, SaveWrite, SaveRename, SaveError,
         Shape, Threads
    <2>2. att' \notin {"boot", "live"} /\ cop' # "marker"
      BY <1>7, <2>1 DEF SaveStep, SaveCreate, SaveBuild, SaveWrite, SaveRename,
         SaveError, AfterSave, TypeOK
    <2> QED BY <2>2
  <1>8. CASE Kill \/ PowerLoss
    BY <1>8 DEF Kill, PowerLoss, ProcessDies
  <1>9. CASE LoseMeta
    BY <1>9 DEF LoseMeta
  <1>10. CASE \/ DirectorySync \/ Dump \/ FinishBackup \/ UNCHANGED vars
              \/ \E c \in Chunks : Land(c) \/ Stamp(c)
    <2>1. UNCHANGED <<path, tmp, sv, gen, era, att, cop, withMeta>>
      BY <1>10 DEF DirectorySync, Dump, FinishBackup, Land, Stamp, vars, files, mem,
         env
    <2> QED BY <2>1
  <1> QED BY <1>1, <1>2, <1>3, <1>4, <1>5, <1>6, <1>7, <1>8, <1>9, <1>10, Undisturbed
      DEF Next

-----------------------------------------------------------------------------
(* The cursor.                                                             *)

\* No step moves a file or the map in memory behind the cursor, unless a
\* checkpoint's save fails, a power loss undoes a rename or a device is added
\* beside a forgotten one.
LEMMA AheadStep ==
  ASSUME TypeOK, TypeOK', Shape, Shape', Buffers, Alone, Solo, Marked, Ahead,
         [Next]_vars, Unharmed'
  PROVE  Ahead'
  <1>0. /\ Unharmed /\ "beside" \notin happened /\ "beside" \notin happened'
        /\ "behind" \notin happened' /\ sv["old"].pc = "idle"
    BY HarmStays, Undisturbed DEF Unharmed
  <1> USE <1>0, Numbers DEF Ahead, AheadFile, Alive
  <1>1. CASE \E g \in Gens : AddFresh(g)
    <2>1. PICK g \in Gens : AddFresh(g)
      BY <1>1
    <2>2. cursor.gen # gen' /\ UNCHANGED <<path, tmp, cursor, bk, withMeta>>
      BY <1>1, <2>1, Undisturbed, AddFacts DEF AddFresh, Attach
    <2>3. /\ att' = IF withMeta THEN "detached" ELSE "boot"
          /\ \A t \in Threads : sv'[t].buf \in {sv[t].buf, Torn}
      BY <1>1, Undisturbed, AddFacts, MarkerFacts DEF Threads
    <2>4. bk = "idle" /\ (~withMeta => tmp.kind = "none")
      BY <1>1, Undisturbed, ContentFacts DEF Shape
    <2> QED BY <2>2, <2>3, <2>4, ContentFacts
  <1>2. CASE AddLoad
    <2>1. /\ path.kind = "whole" /\ gen' = path.gen /\ era' = path.era
          /\ UNCHANGED <<path, tmp, cursor, bk, withMeta>>
      BY <1>2, Undisturbed, AddFacts DEF AddLoad, Attach
    <2>2. /\ att' = IF withMeta THEN "detached" ELSE "boot"
          /\ \A t \in Threads : sv'[t].buf \in {sv[t].buf, Torn}
      BY <1>2, Undisturbed, AddFacts, MarkerFacts DEF Threads
    <2>3. bk = "idle" /\ withMeta
      BY <1>2, <2>1, Undisturbed, ContentFacts DEF Shape
    <2> QED BY <2>1, <2>2, <2>3, ContentFacts
  <1>3. CASE DeviceUp \/ StartOk \/ AddTimeout \/ StartFail \/ DetachLate \/ Forget
    <2>1. /\ UNCHANGED <<path, tmp, sv, gen, era, cursor, bk, closed>>
          /\ att' \in {"boot", "live"} =>
               att \in {"boot", "live"} /\ (cop = "checkpoint" => cop' = cop)
          /\ Alive' => Alive
      BY <1>3 DEF DeviceUp, StartOk, AddTimeout, StartFail, DetachLate, Forget, files,
         mem, cons
    <2> QED BY <2>1
  <1>4. CASE Checkpoint \/ BeginBackup
    <2>1. /\ att \in {"live", "stopping"} /\ cop = "idle" /\ era' = era + 1
          /\ cop' \in {"idle", "checkpoint"}
          /\ UNCHANGED <<path, tmp, cursor, gen, att>>
          /\ \/ sv' = [sv EXCEPT !["ctl"] = StartSave(FALSE)]
             \/ sv' = sv
      BY <1>4 DEF Checkpoint, BeginBackup, Advance, files, Shape
    <2>2. \A t \in Threads : sv'[t].buf \in {sv[t].buf, Torn}
      BY <2>1, StartFacts DEF Threads
    <2>3. bk' \in {"closed", "copy"} =>
            \/ bk' = bk /\ closed' = closed
            \/ path.kind = "none"
      BY <1>4, ContentFacts DEF Checkpoint, BeginBackup, Shape
    <2>4. att = "live" => tmp.kind # "whole"
      BY <2>1
    <2> QED BY <2>1, <2>2, <2>3, <2>4, ContentFacts
  <1>5. CASE RunFail \/ Detach \/ ExternalDelete
    <2>1. /\ att # "detached" \/ cop # "idle"
          /\ att' \notin {"boot", "live"} /\ bk' = "idle"
          /\ UNCHANGED <<path, tmp, cursor, gen, era>>
          /\ \/ sv' = [sv EXCEPT !["sup"] = StartSave(TRUE)]
             \/ sv' = sv
      BY <1>5 DEF RunFail, Detach, ExternalDelete, FinalSave, files, mem, cons, Shape
    <2>2. \A t \in Threads : sv'[t].buf \in {sv[t].buf, Torn}
      BY <2>1, StartFacts DEF Threads
    <2> QED BY <2>1, <2>2, ContentFacts
  <1>6. ASSUME NEW s \in Threads, SaveStep(s) PROVE Ahead'
    <2>0. sv[s].pc # "idle" /\ Alive /\ s # "old" /\ att # "boot"
      BY <1>6 DEF SaveStep, SaveCreate, SaveBuild, SaveWrite, SaveRename, SaveError,
         Shape, Threads
    <2>1. CASE SaveCreate(s)
      <3>1. UNCHANGED <<path, gen, era, att, cop, bk, closed, cursor>> /\ tmp' = Torn
        BY <2>1 DEF SaveCreate, mem, cons
      <3>2. \A t \in Threads : sv'[t].buf = sv[t].buf
        BY <2>1, CreateFacts
      <3> QED BY <3>1, <3>2, ContentFacts
    <2>2. CASE SaveBuild(s)
      <3>1. UNCHANGED <<path, tmp, gen, era, att, cop, bk, closed, cursor>>
        BY <2>2 DEF SaveBuild, files, mem, cons
      <3>2. /\ sv'[s].buf.gen = gen /\ sv'[s].buf.era = era
            /\ \A t \in Threads \ {s} : sv'[t] = sv[t]
        BY <2>0, <2>2, BuildFacts
      <3>3. \A t \in Threads : AheadFile(sv'[t].buf)
        BY <2>0, <3>2
      <3>4. sv["ctl"].pc = "rename" => sv'["ctl"].pc = "rename"
        BY <2>2, <3>2 DEF SaveBuild, Threads
      <3> QED BY <3>1, <3>3, <3>4
    <2>3. CASE SaveWrite(s)
      <3>1. /\ UNCHANGED <<gen, era, att, cop, bk, closed, cursor>>
            /\ tmp' \in {tmp, sv[s].buf} /\ path' \in {path, sv[s].buf}
            /\ path' # path => sv[s].fd = "path"
            /\ tmp' # tmp => sv[s].fd = "tmp"
        BY <2>3 DEF SaveWrite, mem, cons
      <3>2. \A t \in Threads : sv'[t].buf \in {sv[t].buf, Torn}
        BY <2>3, WriteFacts
      <3>3. att = "live" => /\ s = "ctl" /\ path' = path
                            /\ sv'["ctl"].pc = "rename" /\ cop = "checkpoint"
        BY <2>0, <2>3, <3>1, WriteFacts DEF SaveWrite, Solo, Shape, Threads
      <3>4. bk # "idle" => att = "live"
        BY DEF Shape
      <3> QED BY <2>0, <3>1, <3>2, <3>3, <3>4, ContentFacts
    <2>4. CASE SaveRename(s)
      <3>1. /\ UNCHANGED <<gen, era, closed, cursor>>
            /\ path' = tmp /\ tmp' = NoFile
        BY <2>4 DEF SaveRename, mem
      <3>2. \A t \in Threads : sv'[t].buf \in {sv[t].buf, Torn}
        BY <2>4, RenameFacts, SaveTypes
      <3>3. bk' \in {"closed", "copy"} => /\ att = "live" /\ s = "ctl"
                                          /\ tmp.gen = gen /\ tmp.era = era
                                          /\ closed < era
        BY <2>0, <2>4, AfterFacts DEF SaveRename, Solo, Shape, Threads
      <3> QED BY <2>0, <3>1, <3>2, <3>3, ContentFacts
    <2>5. CASE SaveError(s)
      <3>1. ~(s = "ctl" /\ cop = "checkpoint")
        BY <2>5 DEF SaveError, Kind, Harm
      <3>2. UNCHANGED <<path, tmp, gen, era, closed, cursor>>
        BY <2>5 DEF SaveError, files, mem
      <3>3. \A t \in Threads : sv'[t].buf \in {sv[t].buf, Torn}
        BY <2>5, ErrorFacts, SaveTypes
      <3>4. AfterSave(s, FALSE)
        BY <2>5 DEF SaveError
      <3>5. att' \notin {"boot", "live"} /\ bk' = "idle"
        BY <2>0, <3>1, <3>4, AfterFacts DEF Shape, Threads
      <3> QED BY <2>0, <3>2, <3>3, <3>5, ContentFacts
    <2> QED BY <1>6, <2>1, <2>2, <2>3, <2>4, <2>5 DEF SaveStep
  <1>7. CASE \E c \in Chunks : Land(c) \/ Stamp(c)
    BY <1>7 DEF Land, Stamp, files, mem, cons
  <1>8. CASE Kill \/ PowerLoss
    <2>1. /\ att' = "detached" /\ cop' = "idle" /\ bk' = "idle"
          /\ UNCHANGED <<path, cursor>> /\ tmp' \in {tmp, NoFile}
          /\ sv' = [s \in Threads |-> NoSave]
      BY <1>8 DEF Kill, PowerLoss, ProcessDies, Harm, files
    <2> QED BY <2>1, SaveTypes, ContentFacts
  <1>9. CASE DirectorySync
    BY <1>9 DEF DirectorySync, mem, cons
  <1>10. CASE LoseMeta
    BY <1>10, ContentFacts DEF LoseMeta, mem, cons
  <1>11. CASE Dump
    BY <1>11 DEF Dump, files, mem
  <1>12. CASE FinishBackup
    <2>1. /\ bk = "copy" /\ att = "live" /\ cursor' = [gen |-> gen, era |-> closed]
          /\ bk' = "idle" /\ UNCHANGED <<path, tmp, gen, era, att, cop, sv>>
      BY <1>12 DEF FinishBackup, files, mem
    <2>2. closed < era /\ sv["sup"].pc = "idle"
      BY <2>1 DEF Shape
    <2>3. sv["sup"].buf = Torn /\ sv["old"].buf = Torn
      BY <2>2 DEF Buffers, Threads
    <2>4. sv["ctl"].buf.kind = "whole" => sv["ctl"].buf.era = era
      BY ContentFacts DEF Buffers, Threads
    <2>5. tmp.kind = "whole" => tmp.era = era
      BY <2>1 DEF Solo
    <2> QED BY <2>1, <2>2, <2>3, <2>4, <2>5, ContentFacts DEF Threads
  <1>13. CASE UNCHANGED vars
    BY <1>13 DEF vars, files, mem, cons
  <1> QED BY <1>1, <1>2, <1>3, <1>4, <1>5, <1>6, <1>7, <1>8, <1>9, <1>10, <1>11,
      <1>12, <1>13, Undisturbed DEF Next

\* No step makes a map that is taken for clean, or the map in memory, lose a
\* change that the cursor does not cover.
LEMMA SoundStep ==
  ASSUME TypeOK, TypeOK', Shape, Shape', Buffers, Alone, Solo, Marked, Ahead, Sound,
         [Next]_vars, Unharmed'
  PROVE  Sound'
  <1>0. /\ Unharmed /\ "beside" \notin happened /\ "beside" \notin happened'
        /\ "behind" \notin happened' /\ sv["old"].pc = "idle"
    BY HarmStays, Undisturbed DEF Unharmed
  <1> USE <1>0, Numbers DEF Sound, SoundFile, Alive
  <1>1. CASE \E g \in Gens : AddFresh(g)
    <2>1. PICK g \in Gens : AddFresh(g)
      BY <1>1
    <2>2. cursor.gen # gen' /\ UNCHANGED <<path, tmp, cursor, bk, stale>>
      BY <1>1, <2>1, Undisturbed, AddFacts DEF AddFresh, Attach
    <2>3. \A t \in Threads : sv'[t].buf \in {sv[t].buf, Torn}
      BY <1>1, Undisturbed, AddFacts, MarkerFacts DEF Threads
    <2>4. bk = "idle"
      BY <1>1, Undisturbed DEF Shape
    <2> QED BY <2>2, <2>3, <2>4, ContentFacts
  <1>2. CASE AddLoad
    <2>1. /\ path.kind = "whole" /\ gen' = path.gen /\ era' = path.era
          /\ eras' = IF path.clean THEN path.eras
                                   ELSE MarkAllDirty(path.eras, path.era)
          /\ UNCHANGED <<path, tmp, cursor, bk, stale>>
      BY <1>2, Undisturbed, AddFacts DEF AddLoad, Attach
    <2>2. \A t \in Threads : sv'[t].buf \in {sv[t].buf, Torn}
      BY <1>2, Undisturbed, AddFacts, MarkerFacts DEF Threads
    <2>3. bk = "idle" /\ stale \subseteq Chunks /\ path \in Wholes
      BY <1>2, <2>1, Undisturbed, ContentFacts DEF Shape, TypeOK
    <2>4. cursor.gen = path.gen => \A c \in stale : eras'[c] > cursor.era
      <3>1. CASE path.clean
        BY <2>1, <3>1
      <3>2. CASE ~path.clean
        <4>1. \A c \in Chunks : eras'[c] >= path.era /\ eras'[c] \in Int
          BY <2>1, <2>3, <3>2 DEF MarkAllDirty, Stamped
        <4>2. cursor.gen = path.gen => path.era > cursor.era
          BY <2>1 DEF Ahead, AheadFile
        <4> QED BY <2>3, <4>1, <4>2
      <3> QED BY <3>1, <3>2
    <2> QED BY <2>1, <2>2, <2>3, <2>4, ContentFacts
  <1>3. CASE DeviceUp \/ StartOk \/ AddTimeout \/ StartFail \/ DetachLate \/ Forget
    <2>1. /\ UNCHANGED <<path, tmp, sv, gen, eras, pending, todo, stale, cursor, bk,
                         closed>>
          /\ Alive' => Alive
      BY <1>3 DEF DeviceUp, StartOk, AddTimeout, StartFail, DetachLate, Forget, files,
         mem, cons
    <2> QED BY <2>1
  <1>4. CASE Checkpoint \/ BeginBackup
    <2>1. /\ att \in {"live", "stopping"} /\ (bk' = "copy" => bk = "copy" /\ closed' = closed)
          /\ UNCHANGED <<path, tmp, cursor, gen, eras, att, stale, pending, todo>>
          /\ \/ sv' = [sv EXCEPT !["ctl"] = StartSave(FALSE)]
             \/ sv' = sv
      BY <1>4 DEF Checkpoint, BeginBackup, Advance, files, Shape
    <2>2. \A t \in Threads : sv'[t].buf \in {sv[t].buf, Torn}
      BY <2>1, StartFacts DEF Threads
    <2> QED BY <2>1, <2>2, ContentFacts
  <1>5. CASE RunFail \/ Detach \/ ExternalDelete
    <2>1. /\ att # "detached" \/ cop # "idle"
          /\ bk' = "idle"
          /\ UNCHANGED <<path, tmp, cursor, gen, era, eras, stale, pending>>
          /\ \/ sv' = [sv EXCEPT !["sup"] = StartSave(TRUE)]
             \/ sv' = sv
      BY <1>5 DEF RunFail, Detach, ExternalDelete, FinalSave, files, mem, cons, Shape
    <2>2. \A t \in Threads : sv'[t].buf \in {sv[t].buf, Torn}
      BY <2>1, StartFacts DEF Threads
    <2> QED BY <2>1, <2>2, ContentFacts
  <1>6. ASSUME NEW s \in Threads, SaveStep(s) PROVE Sound'
    <2>0. sv[s].pc # "idle" /\ Alive /\ s # "old"
      BY <1>6 DEF SaveStep, SaveCreate, SaveBuild, SaveWrite, SaveRename, SaveError,
         Shape, Threads
    <2>1. UNCHANGED <<gen, eras, cursor, closed, todo, stale, pending>>
      BY <1>6 DEF SaveStep, SaveCreate, SaveBuild, SaveWrite, SaveRename, SaveError,
         mem, cons
    <2>2. bk' = "copy" => bk = "copy"
      BY <1>6 DEF SaveStep, SaveCreate, SaveBuild, SaveWrite, SaveRename, SaveError,
         AfterSave, cons
    <2>3. SoundFile(path') /\ SoundFile(tmp')
      <3>1. /\ path' \in {path, tmp, Torn, sv[s].buf}
            /\ tmp' \in {tmp, NoFile, Torn, sv[s].buf}
        BY <1>6 DEF SaveStep, SaveCreate, SaveBuild, SaveWrite, SaveRename, SaveError,
           files
      <3> QED BY <3>1, ContentFacts
    <2>4. \A t \in Threads : SoundFile(sv'[t].buf)
      <3>1. CASE SaveBuild(s)
        <4>1. /\ sv'[s].buf.gen = gen /\ sv'[s].buf.eras = eras
              /\ sv'[s].buf.clean <=> sv[s].clean
              /\ \A t \in Threads \ {s} : sv'[t] = sv[t]
          BY <2>0, <3>1, BuildFacts
        <4>2. sv[s].clean => pending = {}
          BY <2>0 DEF Buffers, Shape, Threads
        <4>3. SoundFile(sv'[s].buf)
          BY <2>0, <4>1, <4>2
        <4> QED BY <4>1, <4>3
      <3>2. CASE SaveCreate(s)
        BY <3>2, CreateFacts
      <3>3. CASE SaveWrite(s)
        BY <3>3, WriteFacts, ContentFacts
      <3>4. CASE SaveRename(s)
        BY <3>4, RenameFacts, SaveTypes, ContentFacts
      <3>5. CASE SaveError(s)
        BY <3>5, ErrorFacts, SaveTypes, ContentFacts
      <3> QED BY <1>6, <3>1, <3>2, <3>3, <3>4, <3>5 DEF SaveStep
    <2> QED BY <2>0, <2>1, <2>2, <2>3, <2>4
  <1>7. ASSUME NEW c \in Chunks, Land(c) PROVE Sound'
    <2>1. /\ att = "live" /\ pending' = pending \cup {c} /\ stale' = stale \cup {c}
          /\ UNCHANGED <<path, tmp, gen, eras, att, cop, sv, bk, closed, todo, cursor>>
      BY <1>7 DEF Land, files, mem, cons
    <2>2. /\ ~(path.kind = "whole" /\ path.clean)
          /\ ~(tmp.kind = "whole" /\ tmp.clean)
      <3>1. CASE withMeta
        BY <2>1, <3>1 DEF Marked, Solo, Ahead
      <3>2. CASE ~withMeta
        BY <3>2, ContentFacts DEF Shape
      <3> QED BY <3>1, <3>2
    <2>3. \A t \in Threads : ~(sv[t].buf.kind = "whole" /\ sv[t].buf.clean)
      BY <2>1, ContentFacts DEF Buffers, Shape, Threads
    <2> QED BY <2>1, <2>2, <2>3
  <1>8. ASSUME NEW c \in Chunks, Stamp(c) PROVE Sound'
    <2>1. /\ c \in pending /\ pending' = pending \ {c}
          /\ eras' = Stamped(eras, {c}, era)
          /\ UNCHANGED <<path, tmp, gen, era, att, cop, sv, bk, closed, todo, cursor, stale>>
      BY <1>8 DEF Stamp, files, cons
    <2>2. /\ eras'[c] >= era /\ eras'[c] \in Int
          /\ \A d \in Chunks \ {c} : eras'[d] = eras[d]
      BY <2>1 DEF TypeOK, Stamped
    <2>3. att = "live" /\ stale \subseteq Chunks
      BY <2>1 DEF Shape, TypeOK
    <2>4. cursor.gen = gen => eras'[c] > cursor.era
      BY <2>2, <2>3 DEF Ahead
    <2>5. bk = "copy" => eras'[c] > closed
      BY <2>2 DEF Shape
    <2> QED BY <2>1, <2>2, <2>3, <2>4, <2>5
  <1>9. CASE Kill \/ PowerLoss
    <2>1. /\ att' = "detached" /\ cop' = "idle" /\ bk' = "idle"
          /\ UNCHANGED <<path, cursor, stale>> /\ tmp' \in {tmp, NoFile}
          /\ sv' = [s \in Threads |-> NoSave]
      BY <1>9 DEF Kill, PowerLoss, ProcessDies, Harm, files
    <2> QED BY <2>1, SaveTypes, ContentFacts
  <1>10. CASE DirectorySync
    BY <1>10 DEF DirectorySync, mem, cons
  <1>11. CASE LoseMeta
    BY <1>11, ContentFacts DEF LoseMeta, mem, cons
  <1>12. CASE Dump
    <2>1. /\ Alive /\ todo' = IF Accepted THEN Reported ELSE Chunks
          /\ UNCHANGED <<path, tmp, gen, era, eras, att, cop, sv, pending, closed,
                         cursor, stale>>
      BY <1>12 DEF Dump, Shape, files, mem
    <2>2. (stale \ pending) \ todo' = {}
      BY <2>1 DEF Accepted, Reported, TypeOK
    <2> QED BY <2>1, <2>2
  <1>13. CASE FinishBackup
    <2>1. /\ bk = "copy" /\ att = "live" /\ cursor' = [gen |-> gen, era |-> closed]
          /\ bk' = "idle" /\ stale' = stale \ todo
          /\ UNCHANGED <<path, tmp, gen, era, eras, att, cop, sv, pending>>
      BY <1>13 DEF FinishBackup, files, mem
    <2>2. /\ ~(path.kind = "whole" /\ path.clean)
          /\ ~(tmp.kind = "whole" /\ tmp.clean)
      <3>1. CASE withMeta
        BY <2>1, <3>1 DEF Marked, Solo, Ahead
      <3>2. CASE ~withMeta
        BY <3>2, ContentFacts DEF Shape
      <3> QED BY <3>1, <3>2
    <2>3. \A t \in Threads : ~(sv[t].buf.kind = "whole" /\ sv[t].buf.clean)
      BY <2>1, ContentFacts DEF Buffers, Shape, Threads
    <2> QED BY <2>1, <2>2, <2>3
  <1>14. CASE UNCHANGED vars
    BY <1>14 DEF vars, files, mem, cons
  <1> QED BY <1>1, <1>2, <1>3, <1>4, <1>5, <1>6, <1>7, <1>8, <1>9, <1>10, <1>11,
      <1>12, <1>13, <1>14, Undisturbed DEF Next

-----------------------------------------------------------------------------
\* Every step of the daemon, the consumer and the environment keeps the
\* invariant.
LEMMA NextInv == IInv /\ [Next]_vars => IInv'
  <1> SUFFICES ASSUME IInv, [Next]_vars PROVE IInv'
    OBVIOUS
  <1> USE DEF IInv
  <1>1. TypeOK'
    BY TypeStep
  <1>2. Shape' /\ Buffers'
    BY <1>1, ShapeStep, BuffersStep
  <1>3. Unshared' /\ Alone' /\ Solo' /\ Marked'
    BY <1>1, UnsharedStep, AloneStep, SoloStep
  <1>4. Ahead'
    <2>1. CASE ~Unharmed'
      BY <2>1 DEF Ahead
    <2>2. CASE Unharmed'
      BY <1>1, <1>2, <2>2, AheadStep
    <2> QED BY <2>1, <2>2
  <1>5. Sound'
    <2>1. CASE ~Unharmed'
      BY <2>1 DEF Sound
    <2>2. CASE Unharmed'
      BY <1>1, <1>2, <2>2, SoundStep
    <2> QED BY <2>1, <2>2
  <1> QED BY <1>1, <1>2, <1>3, <1>4, <1>5

\* The inductive invariant of the metadata file.
THEOREM Invariance == Spec => []IInv
  BY InitInv, NextInv, PTL DEF Spec

\* Every field of the state, of the file and of a save stays in its type.
THEOREM TypeCorrect == Spec => []TypeOK
  <1>1. IInv => TypeOK
    BY DEF IInv
  <1> QED BY <1>1, Invariance, PTL

\* While the device takes writes, load would call its file unclean, whatever
\* kills, power losses, save errors, failed dels, timed out adds and racing
\* saves came before, until a device is added beside a forgotten one.
THEOREM CrashNeverClean == Spec => []UncleanWhileLive
  <1>1. IInv => UncleanWhileLive
    BY DEF IInv, Marked, UncleanWhileLive
  <1> QED BY <1>1, Invariance, PTL

\* The file does not fall behind a cursor of its own history, as long as no
\* checkpoint's save has failed, no power loss has undone a rename and no
\* device has been added beside a forgotten one.
THEOREM FileAhead == Spec => []FileAheadOfCursor
  <1>1. IInv => FileAheadOfCursor
    BY DEF IInv, Ahead, AheadFile, FileAheadOfCursor
  <1> QED BY <1>1, Invariance, PTL

\* Under the same condition every cursor that dump accepts is sound across
\* any sequence of attaches, detaches, kills, failed marker and final saves,
\* failed dels and timed out adds.
THEOREM RestartContract == Spec => []CursorSound
  <1>1. IInv => CursorSound
    <2> SUFFICES ASSUME IInv, Unharmed, att = "live", Accepted
                 PROVE  stale \ pending \subseteq Reported
      BY DEF CursorSound, CrashSafe
    <2> QED BY DEF IInv, Sound, Alive, Accepted, Reported, TypeOK
  <1> QED BY <1>1, Invariance, PTL

\* Saves that do not overlap never leave a partial file at the path, not even
\* those of two devices beside each other.
THEOREM AtomicReplace == Spec => []FileIntact
  <1>1. IInv => FileIntact
    BY DEF IInv, Unshared, FileIntact
  <1> QED BY <1>1, Invariance, PTL

=============================================================================
