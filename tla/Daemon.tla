------------------------------- MODULE Daemon -------------------------------
(***************************************************************************)
(* The control plane of the daemon: the device registry and its requests   *)
(* (src/manager.rs), the single-threaded request loop (src/ctl.rs), the    *)
(* signal thread (src/main.rs) and one supervisor thread per attachment    *)
(* (supervise_device).                                                     *)
(*                                                                         *)
(* Three kinds of threads interleave: "ctl" serves one request at a time,  *)
(* "sig" runs shutdown_all when a signal comes, and the supervisors start  *)
(* a device, wait for it to go away and make its final save. Every         *)
(* critical section of the registry mutex is one step, and so is every     *)
(* call that blocks or that another thread can see the effect of.          *)
(*                                                                         *)
(* An attachment is one call of add; its ublk device id is its own. The    *)
(* metadata file is reduced to what load would say of it (MetaStore has    *)
(* the file itself); every backing is attached with --meta.                *)
(***************************************************************************)
EXTENDS Integers, FiniteSets

CONSTANTS
  Atts,        \* attachments: the calls of add that may happen
  Backings,    \* backing devices, by path
  NoAtt,       \* a thread works on no attachment
  Faults       \* what may go wrong, see AllFaults

AllFaults ==
  {"kill",       \* kill -9 of the daemon
   "panic",      \* a supervisor panics during startup
   "external",   \* another tool deletes the ublk device, or it dies
   "signal",     \* SIGTERM or SIGINT
   "timeout",    \* a device does not come up within 15 s
   "del_error"}  \* the driver refuses to delete a device that is there

ASSUME NoAttAssumption == NoAtt \notin Atts
ASSUME FaultsAssumption == Faults \subseteq AllFaults

VARIABLES
  proc,        \* the daemon: "run" or "exited"
  backing,     \* the backing each attachment names (any; it is part of the
               \* request and never changes)
  registry,    \* DeviceManager.devices: the attachments that have an entry
  sup,         \* the supervisor (and device) of each attachment
  ready,       \* the readiness channel of each attachment
  meta,        \* each backing's metadata file: "none", "unclean" or "clean"
  pc,          \* where each registry thread is
  at,          \* the attachment it works on
  ids,         \* the ids its loop (shutdown_all, checkpoint_all) has left
  quit,        \* whether it is inside shutdown_all
  happened     \* history: the faults that have happened

devVars == <<sup, ready, meta>>
thVars  == <<pc, at, ids, quit>>
vars    == <<proc, backing, registry, devVars, thVars, happened>>

Threads == {"ctl", "sig"}

PCs == {"idle",     \* no request
        "marker",   \* add: to write the attach marker and spawn
        "wait",     \* add: in recv_timeout
        "insert",   \* add: ready, to insert the entry
        "save",     \* checkpoint, checkpoint_all: to save the next target
        "del",      \* del: to reap and to remove the entry
        "del_dev",  \* del: the entry is out, to delete the ublk device
        "join",     \* del, add: in JoinHandle::join
        "stop"}     \* shutdown_all: to take the next id

SupStates == {"none",   \* not spawned
              "boot",   \* before device_ready
              "up",     \* in run_target: the device takes IO
              "down",   \* run_target returned, the final save is to come
              "done"}   \* the thread has finished

Init ==
  /\ proc = "run"
  /\ backing \in [Atts -> Backings]
  /\ registry = {}
  /\ sup = [a \in Atts |-> "none"]
  /\ ready = [a \in Atts |-> "empty"]
  /\ meta = [b \in Backings |-> "none"]
  /\ pc = [t \in Threads |-> "idle"]
  /\ at = [t \in Threads |-> NoAtt]
  /\ ids = [t \in Threads |-> {}]
  /\ quit = [t \in Threads |-> FALSE]
  /\ happened = {}

\* reap: entries whose supervisor is_finished are removed.
Reap == {a \in registry : sup[a] # "done"}

\* The request's next blocking point, and the attachment it is about.
Goto(t, p, a) ==
  /\ pc' = [pc EXCEPT ![t] = p]
  /\ at' = [at EXCEPT ![t] = a]

\* A fault that this instance allows. (That a daemon was killed or that a
\* start failed makes no difference to what is promised.)
Fault(f) ==
  /\ f \in Faults
  /\ happened' = happened \cup ({f} \ {"kill", "panic"})

\* The call returns: to the loop of shutdown_all, or to the request loop.
Return(t) == Goto(t, IF quit[t] THEN "stop" ELSE "idle", NoAtt)

-----------------------------------------------------------------------------
(* add, on the control thread.                                             *)

\* Fault variant: add does not look for an entry with the same backing.
AddCheckNone(a) ==
  /\ proc = "run" /\ pc["ctl"] = "idle" /\ sup[a] = "none"
  /\ registry' = Reap
  /\ Goto("ctl", "marker", a)
  /\ UNCHANGED <<proc, backing, devVars, ids, quit, happened>>

\* reap, then the duplicate check; an attached backing ends the request. The
\* check compares paths, so a backing is a path here: the add command sends the
\* canonical one, and a request on the socket itself that names the same disk by
\* another path names another backing.
AddCheck(a) ==
  /\ proc = "run" /\ pc["ctl"] = "idle" /\ sup[a] = "none"
  /\ registry' = Reap
  /\ IF \E b \in registry' : backing[b] = backing[a]
       THEN UNCHANGED <<pc, at>>
       ELSE Goto("ctl", "marker", a)
  /\ UNCHANGED <<proc, backing, devVars, ids, quit, happened>>

\* Fault variant: no attach marker is written.
AddSpawnUnmarked ==
  /\ proc = "run" /\ pc["ctl"] = "marker"
  /\ sup' = [sup EXCEPT ![at["ctl"]] = "boot"]
  /\ Goto("ctl", "wait", at["ctl"])
  /\ UNCHANGED <<proc, backing, registry, ready, meta, ids, quit, happened>>

\* The attach marker is saved and the supervisor spawned.
AddSpawn ==
  /\ proc = "run" /\ pc["ctl"] = "marker"
  /\ meta' = [meta EXCEPT ![backing[at["ctl"]]] = "unclean"]
  /\ sup' = [sup EXCEPT ![at["ctl"]] = "boot"]
  /\ Goto("ctl", "wait", at["ctl"])
  /\ UNCHANGED <<proc, backing, registry, ready, ids, quit, happened>>

\* The file does not load, or the marker cannot be written: add returns.
AddFail ==
  /\ proc = "run" /\ pc["ctl"] = "marker"
  /\ Return("ctl")
  /\ UNCHANGED <<proc, backing, registry, devVars, ids, quit, happened>>

\* recv_timeout returns what the supervisor sent, or that it died.
AddReady ==
  /\ proc = "run" /\ pc["ctl"] = "wait" /\ ready[at["ctl"]] # "empty"
  /\ Goto("ctl", IF ready[at["ctl"]] = "ok" THEN "insert" ELSE "join", at["ctl"])
  /\ UNCHANGED <<proc, backing, registry, devVars, ids, quit, happened>>

\* 15 s have passed: add returns, and its JoinHandle is dropped.
AddTimeout ==
  /\ Fault("timeout")
  /\ proc = "run" /\ pc["ctl"] = "wait" /\ ready[at["ctl"]] = "empty"
  /\ Return("ctl")
  /\ UNCHANGED <<proc, backing, registry, devVars, ids, quit>>

\* Fault variant: the entry is not made.
AddInsertNone ==
  /\ proc = "run" /\ pc["ctl"] = "insert"
  /\ Return("ctl")
  /\ UNCHANGED <<proc, backing, registry, devVars, ids, quit, happened>>

AddInsert ==
  /\ proc = "run" /\ pc["ctl"] = "insert"
  /\ registry' = registry \cup {at["ctl"]}
  /\ Return("ctl")
  /\ UNCHANGED <<proc, backing, devVars, ids, quit, happened>>

-----------------------------------------------------------------------------
(* The other requests.                                                     *)

\* list, status, dump, or a request that resolves to nothing: reap only.
Query ==
  /\ proc = "run" /\ pc["ctl"] = "idle"
  /\ registry' = Reap
  /\ UNCHANGED <<proc, backing, devVars, thVars, happened>>

\* checkpoint of one device, or of all: the targets are read under the lock.
CheckpointBegin(targets) ==
  /\ proc = "run" /\ pc["ctl"] = "idle"
  /\ registry' = Reap
  /\ targets # {} /\ targets \subseteq registry'
  /\ Cardinality(targets) = 1 \/ targets = registry'
  /\ Goto("ctl", "save", NoAtt)
  /\ ids' = [ids EXCEPT !["ctl"] = targets]
  /\ UNCHANGED <<proc, backing, devVars, quit, happened>>

\* checkpoint_one: the save of a checkpoint is unclean. One that fails leaves
\* the file, and the loop goes on.
CheckpointSave(a) ==
  /\ proc = "run" /\ pc["ctl"] = "save" /\ a \in ids["ctl"]
  /\ meta' \in {meta, [meta EXCEPT ![backing[a]] = "unclean"]}
  /\ ids' = [ids EXCEPT !["ctl"] = @ \ {a}]
  /\ IF ids'["ctl"] = {} THEN Return("ctl") ELSE UNCHANGED <<pc, at>>
  /\ UNCHANGED <<proc, backing, registry, sup, ready, quit, happened>>

\* del of any id a client may name.
DelBegin(a) ==
  /\ proc = "run" /\ pc["ctl"] = "idle" /\ sup[a] # "none"
  /\ Goto("ctl", "del", a)
  /\ UNCHANGED <<proc, backing, registry, devVars, ids, quit, happened>>

\* Fault variant: the entry is looked up, not taken.
DelRemoveKeeps(t) ==
  /\ proc = "run" /\ pc[t] = "del"
  /\ registry' = Reap
  /\ IF at[t] \in registry' THEN Goto(t, "del_dev", at[t]) ELSE Return(t)
  /\ UNCHANGED <<proc, backing, devVars, ids, quit, happened>>

\* del: reap, then take the entry; without one the call fails. (A supervisor
\* that ends between reap and remove is one that ends after both.)
DelRemove(t) ==
  /\ proc = "run" /\ pc[t] = "del"
  /\ registry' = Reap \ {at[t]}
  /\ IF at[t] \in Reap THEN Goto(t, "del_dev", at[t]) ELSE Return(t)
  /\ UNCHANGED <<proc, backing, devVars, ids, quit, happened>>

\* Fault variant: del returns once the device is deleted.
DelDevNoJoin(t) ==
  /\ proc = "run" /\ pc[t] = "del_dev" /\ sup[at[t]] = "up"
  /\ sup' = [sup EXCEPT ![at[t]] = "down"]
  /\ Return(t)
  /\ UNCHANGED <<proc, backing, registry, ready, meta, ids, quit, happened>>

\* del_dev succeeds: the queues go down, and del joins the supervisor.
DelDev(t) ==
  /\ proc = "run" /\ pc[t] = "del_dev" /\ sup[at[t]] = "up"
  /\ sup' = [sup EXCEPT ![at[t]] = "down"]
  /\ Goto(t, "join", at[t])
  /\ UNCHANGED <<proc, backing, registry, ready, meta, ids, quit, happened>>

\* Fault variant: del joins the supervisor whatever del_dev returned.
DelDevFailJoins(t) ==
  /\ proc = "run" /\ pc[t] = "del_dev"
  /\ IF sup[at[t]] = "up" THEN Fault("del_error") ELSE UNCHANGED happened
  /\ Goto(t, "join", at[t])
  /\ UNCHANGED <<proc, backing, registry, devVars, ids, quit>>

\* del_dev fails, because the device has gone or for another reason: del
\* returns, the entry is not put back and its JoinHandle is dropped.
DelDevFail(t) ==
  /\ proc = "run" /\ pc[t] = "del_dev"
  /\ IF sup[at[t]] = "up" THEN Fault("del_error") ELSE UNCHANGED happened
  /\ Return(t)
  /\ UNCHANGED <<proc, backing, registry, devVars, ids, quit>>

Join(t) ==
  /\ proc = "run" /\ pc[t] = "join" /\ sup[at[t]] = "done"
  /\ Return(t)
  /\ UNCHANGED <<proc, backing, registry, devVars, ids, quit, happened>>

-----------------------------------------------------------------------------
(* Shutting down.                                                          *)

\* A shutdown request ends the loop of serve; a signal wakes its thread. Both
\* run shutdown_all, on a snapshot of the ids.
Shutdown(t) ==
  /\ proc = "run" /\ pc[t] = "idle"
  /\ IF t = "sig" THEN Fault("signal") ELSE UNCHANGED happened
  /\ quit' = [quit EXCEPT ![t] = TRUE]
  /\ ids' = [ids EXCEPT ![t] = registry]
  /\ Goto(t, "stop", NoAtt)
  /\ UNCHANGED <<proc, backing, registry, devVars>>

\* Fault variant: the loop does not move on.
ShutdownNextRepeats(t, a) ==
  /\ proc = "run" /\ pc[t] = "stop" /\ a \in ids[t]
  /\ Goto(t, "del", a)
  /\ UNCHANGED <<proc, backing, registry, devVars, ids, quit, happened>>

ShutdownNext(t, a) ==
  /\ proc = "run" /\ pc[t] = "stop" /\ a \in ids[t]
  /\ Goto(t, "del", a)
  /\ ids' = [ids EXCEPT ![t] = @ \ {a}]
  /\ UNCHANGED <<proc, backing, registry, devVars, quit, happened>>

\* exit(0) in the signal thread, or main returns: every thread ends.
Exit(t) ==
  /\ proc = "run" /\ pc[t] = "stop" /\ ids[t] = {}
  /\ proc' = "exited"
  /\ UNCHANGED <<backing, registry, devVars, thVars, happened>>

\* A new daemon, after an exit or a kill -9; what ran in the old one is gone,
\* and so is the final save of a supervisor that had not made it.
Restart ==
  /\ IF proc = "exited" THEN UNCHANGED happened ELSE Fault("kill")
  /\ proc' = "run"
  /\ registry' = {}
  /\ sup' = [a \in Atts |-> IF sup[a] = "none" THEN "none" ELSE "done"]
  /\ pc' = [t \in Threads |-> "idle"]
  /\ at' = [t \in Threads |-> NoAtt]
  /\ ids' = [t \in Threads |-> {}]
  /\ quit' = [t \in Threads |-> FALSE]
  /\ UNCHANGED <<backing, ready, meta>>

-----------------------------------------------------------------------------
(* supervise_device.                                                       *)

\* The control device cannot be built: the error is sent, nothing is saved.
BuildFail(a) ==
  /\ proc = "run" /\ sup[a] = "boot"
  /\ ready' = [ready EXCEPT ![a] = "err"]
  /\ sup' = [sup EXCEPT ![a] = "done"]
  /\ UNCHANGED <<proc, backing, registry, meta, thVars, happened>>

\* run_target fails before the hook: the error is sent, the final save runs.
RunFail(a) ==
  /\ proc = "run" /\ sup[a] = "boot"
  /\ ready' = [ready EXCEPT ![a] = "err"]
  /\ sup' = [sup EXCEPT ![a] = "down"]
  /\ UNCHANGED <<proc, backing, registry, meta, thVars, happened>>

\* device_ready: the id is sent; nobody may be listening any more.
DeviceReady(a) ==
  /\ proc = "run" /\ sup[a] = "boot"
  /\ ready' = [ready EXCEPT ![a] = "ok"]
  /\ sup' = [sup EXCEPT ![a] = "up"]
  /\ UNCHANGED <<proc, backing, registry, meta, thVars, happened>>

\* A panic during startup: the sender is dropped.
Panic(a) ==
  /\ Fault("panic")
  /\ proc = "run" /\ sup[a] = "boot"
  /\ ready' = [ready EXCEPT ![a] = "gone"]
  /\ sup' = [sup EXCEPT ![a] = "done"]
  /\ UNCHANGED <<proc, backing, registry, meta, thVars>>

\* run_target returns although this daemon did not delete the device.
DeviceGone(a) ==
  /\ Fault("external")
  /\ proc = "run" /\ sup[a] = "up"
  /\ sup' = [sup EXCEPT ![a] = "down"]
  /\ UNCHANGED <<proc, backing, registry, ready, meta, thVars>>

\* The final save, clean, and the end of the thread; one that fails is logged
\* and leaves the file as it is.
FinalSave(a) ==
  /\ proc = "run" /\ sup[a] = "down"
  /\ meta' \in {meta, [meta EXCEPT ![backing[a]] = "clean"]}
  /\ sup' = [sup EXCEPT ![a] = "done"]
  /\ UNCHANGED <<proc, backing, registry, ready, thVars, happened>>

-----------------------------------------------------------------------------
\* The steps by which a call that has begun goes on.
ThreadStep(t) ==
  \/ DelRemove(t) \/ DelDev(t) \/ DelDevFail(t) \/ Join(t)
  \/ \E a \in Atts : ShutdownNext(t, a)
  \/ Exit(t)

CtlStep ==
  \/ AddSpawn \/ AddFail \/ AddReady \/ AddTimeout \/ AddInsert
  \/ \E a \in Atts : CheckpointSave(a)
  \/ ThreadStep("ctl")

Request ==
  \/ \E a \in Atts : AddCheck(a) \/ DelBegin(a)
  \/ \E targets \in SUBSET Atts : CheckpointBegin(targets)
  \/ Query
  \/ \E t \in Threads : Shutdown(t)

\* The supervisor's own steps; DeviceGone is the environment's.
SupStep(a) ==
  \/ BuildFail(a) \/ RunFail(a) \/ DeviceReady(a) \/ Panic(a) \/ FinalSave(a)

Next ==
  \/ Request
  \/ CtlStep
  \/ ThreadStep("sig")
  \/ \E a \in Atts : SupStep(a) \/ DeviceGone(a)
  \/ Restart

Spec == Init /\ [][Next]_vars

\* Threads that can run do run, libublk answers the start of a device, and a
\* save returns. No client, signal or fault is ever required to happen.
Fairness ==
  /\ WF_vars(CtlStep)
  /\ WF_vars(ThreadStep("sig"))
  /\ \A a \in Atts : WF_vars(SupStep(a))

FairSpec == Spec /\ Fairness

-----------------------------------------------------------------------------
(* Properties.                                                             *)

\* Types; and an entry that del works on is not in the registry, so no other
\* thread can take it and reap cannot join it a second time.
TypeOK ==
  /\ proc \in {"run", "exited"}
  /\ backing \in [Atts -> Backings]
  /\ registry \subseteq Atts
  /\ sup \in [Atts -> SupStates]
  /\ ready \in [Atts -> {"empty", "ok", "err", "gone"}]
  /\ meta \in [Backings -> {"none", "unclean", "clean"}]
  /\ pc \in [Threads -> PCs]
  /\ at \in [Threads -> Atts \cup {NoAtt}]
  /\ ids \in [Threads -> SUBSET Atts]
  /\ quit \in [Threads -> BOOLEAN]
  /\ happened \subseteq AllFaults
  /\ \A t \in Threads : pc[t] \in {"del_dev", "join"} => at[t] \notin registry

Running(a) == proc = "run" /\ sup[a] = "up"

\* docs/concurrency.md 5: no interleaving of requests attaches a backing
\* twice, which would leave two maps that each see half of the writes. Failed
\* starts, crashes and devices that vanish do not change that; the signal
\* thread, a late start and a failed delete can.
NoDoubleAttach ==
  happened \subseteq {"external"} =>
    \A a, b \in Atts :
      backing[a] = backing[b] /\ Running(a) /\ Running(b) => a = b

\* A running device can always be reached, also while the signal thread works
\* beside a request: it has an entry, or the call that will make or that has
\* taken the entry is still at work on it. Only a start that outlasts the
\* timeout of add and a failed delete can leave an orphan.
NoOrphan ==
  happened \cap {"timeout", "del_error"} = {} =>
    \A a \in Atts :
      Running(a) => a \in registry \/ \E t \in Threads : at[t] = a

\* manager.rs, attach marker: from before a device goes live until it has
\* gone down its file is unclean, whatever other threads save meanwhile.
UncleanWhileUp ==
  \A a \in Atts : Running(a) => meta[backing[a]] = "unclean"

\* The same as long as only starts fail and the daemon is killed: one that is
\* true of the code.
UncleanIfUndisturbed == happened = {} => UncleanWhileUp

\* README.md: shutdown detaches every device and saves its metadata before
\* the daemon ends: at the exit no device that came up is still up, and none
\* has its final save ahead of it. (A signal that races a request, a late
\* start and a device that has just vanished can break this.)
ExitDetached ==
  proc = "exited" /\ happened = {} =>
    \A a \in Atts : ready[a] = "ok" => sup[a] \notin {"up", "down"}

\* docs/concurrency.md 5, no deadlock: the control thread always comes back
\* from a request (or the daemon ends), whatever the devices do.
RequestsReturn == pc["ctl"] # "idle" ~> pc["ctl"] = "idle" \/ proc = "exited"

\* A shutdown or a signal ends the daemon, whatever it meets on its way.
ShutdownEnds ==
  \A t \in Threads : quit[t] ~> proc = "exited" \/ ~quit[t]

=============================================================================
