---------------------------- MODULE DaemonProofs ----------------------------
(***************************************************************************)
(* Proofs about Daemon, for any number of attachments and backings and     *)
(* every set of faults.                                                    *)
(*                                                                         *)
(* A device is reached through the registry or through the call that is    *)
(* at work on it, and the properties follow from who holds what: a device  *)
(* that is starting or up is always held by one of them (Held); while only *)
(* the control thread works, no two attachments of one backing are         *)
(* (Exclusive), and a device that is going down is held by the call that   *)
(* waits for it (DownHeld), so that a final save never meets the file of   *)
(* another attachment that is up; and shutdown_all has in its list         *)
(* everything that is still in the registry (QuitCovers).                  *)
(***************************************************************************)
EXTENDS Daemon, TLAPS

Calm == happened \subseteq {"external"}    \* only the control thread works

Adding == pc["ctl"] \in {"marker", "wait", "insert"}

\* Where the threads can be, and what they know of the attachment they are at.
Places ==
  /\ \A t \in Threads : at[t] = NoAtt <=> pc[t] \in {"idle", "save", "stop"}
  /\ \A t \in Threads : quit[t] => pc[t] \in {"stop", "del", "del_dev", "join"}
  /\ \A t \in Threads : pc[t] = "stop" => quit[t]
  /\ pc["sig"] \in {"idle", "del", "del_dev", "join", "stop"}
  /\ "signal" \notin happened => pc["sig"] = "idle"
  /\ pc["ctl"] = "marker" => sup[at["ctl"]] = "none"
  /\ pc["ctl"] = "insert" => ready[at["ctl"]] = "ok"

\* What the readiness channel says of a supervisor. Entries, and what the
\* signal thread took from entries, are of devices that came up.
Channels ==
  /\ \A a \in Atts : sup[a] \in {"none", "boot"} => ready[a] = "empty"
  /\ \A a \in Atts : sup[a] = "up" => ready[a] = "ok"
  /\ \A a \in registry \cup ids["sig"] : ready[a] = "ok"
  /\ \A t \in Threads : pc[t] = "del_dev" => ready[at[t]] = "ok"
  /\ at["sig"] # NoAtt => ready[at["sig"]] = "ok"

\* An attachment that add is making is nobody else's.
OwnAdd ==
  Adding => /\ at["ctl"] \notin registry \cup ids["sig"]
            /\ at["ctl"] # at["sig"]

Held ==
  happened \cap {"timeout", "del_error"} = {} =>
    \A a \in Atts : sup[a] \in {"boot", "up"} =>
      \/ a \in registry
      \/ \E t \in Threads : at[t] = a /\ pc[t] \in {"wait", "insert", "del_dev"}

Claims(a) ==
  \/ a \in registry /\ sup[a] # "done"
  \/ a = at["ctl"] /\ pc["ctl"] # "del"

Exclusive ==
  Calm => \A a, b \in Atts :
            Claims(a) /\ Claims(b) /\ backing[a] = backing[b] => a = b

DownHeld ==
  happened = {} =>
    \A a \in Atts : sup[a] = "down" =>
      /\ a = at["ctl"]
      /\ \/ pc["ctl"] = "join"
         \/ pc["ctl"] = "wait" /\ ready[a] = "err"

UncleanLive ==
  happened = {} =>
    \A a \in Atts : sup[a] \in {"boot", "up"} => meta[backing[a]] = "unclean"

QuitCovers ==
  quit["ctl"] =>
    \A a \in registry : a \in ids["ctl"] \/ (pc["ctl"] = "del" /\ a = at["ctl"])

ExitClean ==
  proc = "exited" /\ happened = {} => \A a \in Atts : sup[a] \in {"none", "done"}

IInv ==
  /\ TypeOK /\ Places /\ Channels /\ OwnAdd
  /\ Held /\ Exclusive /\ DownHeld /\ UncleanLive
  /\ QuitCovers /\ ExitClean


-----------------------------------------------------------------------------
\* No device has been attached yet.
LEMMA InitInv == Init => IInv
  <1> SUFFICES ASSUME Init PROVE IInv
    OBVIOUS
  <1>1. TypeOK /\ Places /\ Channels /\ OwnAdd
    BY DEF Init, TypeOK, Places, Channels, OwnAdd, Adding, Threads, SupStates, PCs
  <1>2. Held /\ Exclusive /\ DownHeld /\ UncleanLive /\ QuitCovers /\ ExitClean
    BY NoAttAssumption DEF Init, Held, Exclusive, Claims, DownHeld, UncleanLive,
       QuitCovers, ExitClean, Threads
  <1> QED BY <1>1, <1>2 DEF IInv

\* A fault is one of those allowed, and it is recorded for good.
LEMMA FaultFacts ==
  ASSUME TypeOK, NEW f, Fault(f)
  PROVE  /\ happened \subseteq happened' /\ happened' \subseteq AllFaults
         /\ f \notin {"kill", "panic"} => f \in happened'
  BY FaultsAssumption DEF TypeOK, Fault

\* add begins only for a backing that no entry has.
LEMMA AddCheckStep ==
  ASSUME IInv, NEW a \in Atts, AddCheck(a)
  PROVE  IInv'
  <1> USE NoAttAssumption DEF IInv, TypeOK, Threads, Goto, Return
  <1>1. TypeOK'
    BY DEF AddCheck, Reap, devVars, PCs, SupStates, Places, Channels, OwnAdd,
       Adding
  <1>2. Places'
    BY DEF AddCheck, Reap, devVars, Places
  <1>3. Channels'
    BY DEF AddCheck, Reap, devVars, Channels, Places
  <1>4. OwnAdd'
    BY DEF AddCheck, Reap, devVars, OwnAdd, Adding, Places, Channels
  <1>5. Held'
    BY DEF AddCheck, Reap, devVars, Held, Places, Channels
  <1>6. Exclusive'
    BY DEF AddCheck, Reap, devVars, Exclusive, Claims, Calm, Places
  <1>7. DownHeld'
    BY DEF AddCheck, Reap, devVars, DownHeld, Places, Channels
  <1>8. UncleanLive'
    BY DEF AddCheck, Reap, devVars, UncleanLive, Places
  <1>9. QuitCovers'
    BY DEF AddCheck, Reap, devVars, QuitCovers, Places
  <1>10. ExitClean'
    BY DEF AddCheck, Reap, devVars, ExitClean, Places
  <1> QED BY <1>1, <1>2, <1>3, <1>4, <1>5, <1>6, <1>7, <1>8, <1>9, <1>10

\* The marker is written before the device can come up.
LEMMA AddSpawnStep ==
  ASSUME IInv, AddSpawn
  PROVE  IInv'
  <1> USE NoAttAssumption DEF IInv, TypeOK, Threads, Goto, Return
  <1>1. TypeOK'
    BY DEF AddSpawn, PCs, SupStates, Places, Channels, OwnAdd, Adding
  <1>2. Places'
    BY DEF AddSpawn, Places
  <1>3. Channels'
    BY DEF AddSpawn, Channels, Places
  <1>4. OwnAdd'
    BY DEF AddSpawn, OwnAdd, Adding, Places, Channels
  <1>5. Held'
    BY DEF AddSpawn, Held, Places, Channels
  <1>6. Exclusive'
    BY DEF AddSpawn, Exclusive, Claims, Calm, Places, Held
  <1>7. DownHeld'
    BY DEF AddSpawn, DownHeld, Places, Channels
  <1>8. UncleanLive'
    BY DEF AddSpawn, UncleanLive, Places
  <1>9. QuitCovers'
    BY DEF AddSpawn, QuitCovers, Places
  <1>10. ExitClean'
    BY DEF AddSpawn, ExitClean, Places
  <1> QED BY <1>1, <1>2, <1>3, <1>4, <1>5, <1>6, <1>7, <1>8, <1>9, <1>10

\* A start that fails leaves nothing behind; a late one is recorded.
LEMMA AddReturnStep ==
  ASSUME IInv, AddFail \/ AddTimeout
  PROVE  IInv'
  <1> USE NoAttAssumption DEF IInv, TypeOK, Threads, Goto, Return
  <1>1. TypeOK'
    BY FaultFacts DEF AddFail, AddTimeout, devVars, PCs, SupStates, Places,
       Channels, OwnAdd, Adding
  <1>2. Places'
    BY FaultFacts DEF AddFail, AddTimeout, devVars, Places
  <1>3. Channels'
    BY FaultFacts DEF AddFail, AddTimeout, devVars, Channels, Places
  <1>4. OwnAdd'
    BY FaultFacts DEF AddFail, AddTimeout, devVars, OwnAdd, Adding, Places,
       Channels
  <1>5. Held'
    BY FaultFacts DEF AddFail, AddTimeout, devVars, Held, Places, Channels
  <1>6. Exclusive'
    <2>1. Calm' => Calm
      BY FaultFacts DEF AddFail, AddTimeout, Calm
    <2>2. \A b \in Atts : Claims(b)' => Claims(b)
      BY DEF AddFail, AddTimeout, devVars, Claims, Places
    <2> QED BY <2>1, <2>2 DEF AddFail, AddTimeout, Exclusive
  <1>7. DownHeld'
    BY FaultFacts DEF AddFail, AddTimeout, devVars, DownHeld, Places, Channels
  <1>8. UncleanLive'
    BY FaultFacts DEF AddFail, AddTimeout, devVars, UncleanLive, Places
  <1>9. QuitCovers'
    BY FaultFacts DEF AddFail, AddTimeout, devVars, QuitCovers, Places
  <1>10. ExitClean'
    BY FaultFacts DEF AddFail, AddTimeout, devVars, ExitClean, Places
  <1> QED BY <1>1, <1>2, <1>3, <1>4, <1>5, <1>6, <1>7, <1>8, <1>9, <1>10

\* add goes on to insert a device that is up, or waits for one that failed.
LEMMA AddReadyStep ==
  ASSUME IInv, AddReady
  PROVE  IInv'
  <1> USE NoAttAssumption DEF IInv, TypeOK, Threads, Goto, Return
  <1>1. TypeOK'
    BY DEF AddReady, devVars, PCs, SupStates, Places, Channels, OwnAdd, Adding
  <1>2. Places'
    BY DEF AddReady, devVars, Places
  <1>3. Channels'
    BY DEF AddReady, devVars, Channels, Places
  <1>4. OwnAdd'
    BY DEF AddReady, devVars, OwnAdd, Adding, Places, Channels
  <1>5. Held'
    BY DEF AddReady, devVars, Held, Places, Channels
  <1>6. Exclusive'
    BY DEF AddReady, devVars, Exclusive, Claims, Calm, Places
  <1>7. DownHeld'
    BY DEF AddReady, devVars, DownHeld, Places, Channels
  <1>8. UncleanLive'
    BY DEF AddReady, devVars, UncleanLive, Places
  <1>9. QuitCovers'
    BY DEF AddReady, devVars, QuitCovers, Places
  <1>10. ExitClean'
    BY DEF AddReady, devVars, ExitClean, Places
  <1> QED BY <1>1, <1>2, <1>3, <1>4, <1>5, <1>6, <1>7, <1>8, <1>9, <1>10

\* The entry takes over from the call.
LEMMA AddInsertStep ==
  ASSUME IInv, AddInsert
  PROVE  IInv'
  <1> USE NoAttAssumption DEF IInv, TypeOK, Threads, Goto, Return
  <1>1. TypeOK'
    BY DEF AddInsert, devVars, PCs, SupStates, Places, Channels, OwnAdd, Adding
  <1>2. Places'
    BY DEF AddInsert, devVars, Places
  <1>3. Channels'
    BY DEF AddInsert, devVars, Channels, Places
  <1>4. OwnAdd'
    BY DEF AddInsert, devVars, OwnAdd, Adding, Places, Channels
  <1>5. Held'
    BY DEF AddInsert, devVars, Held, Places, Channels
  <1>6. Exclusive'
    BY DEF AddInsert, devVars, Exclusive, Claims, Calm, Places
  <1>7. DownHeld'
    BY DEF AddInsert, devVars, DownHeld, Places, Channels
  <1>8. UncleanLive'
    BY DEF AddInsert, devVars, UncleanLive, Places
  <1>9. QuitCovers'
    BY DEF AddInsert, devVars, QuitCovers, Places
  <1>10. ExitClean'
    BY DEF AddInsert, devVars, ExitClean, Places
  <1> QED BY <1>1, <1>2, <1>3, <1>4, <1>5, <1>6, <1>7, <1>8, <1>9, <1>10

\* reap removes entries of supervisors that have finished.
LEMMA QueryStep ==
  ASSUME IInv, Query
  PROVE  IInv'
  <1> USE NoAttAssumption DEF IInv, TypeOK, Threads, Goto, Return
  <1>1. TypeOK'
    BY DEF Query, Reap, devVars, thVars, PCs, SupStates, Places, Channels,
       OwnAdd, Adding
  <1>2. Places'
    BY DEF Query, Reap, devVars, thVars, Places
  <1>3. Channels'
    BY DEF Query, Reap, devVars, thVars, Channels, Places
  <1>4. OwnAdd'
    BY DEF Query, Reap, devVars, thVars, OwnAdd, Adding, Places, Channels
  <1>5. Held'
    BY DEF Query, Reap, devVars, thVars, Held, Places, Channels
  <1>6. Exclusive'
    BY DEF Query, Reap, devVars, thVars, Exclusive, Claims, Calm, Places
  <1>7. DownHeld'
    BY DEF Query, Reap, devVars, thVars, DownHeld, Places, Channels
  <1>8. UncleanLive'
    BY DEF Query, Reap, devVars, thVars, UncleanLive, Places
  <1>9. QuitCovers'
    BY DEF Query, Reap, devVars, thVars, QuitCovers, Places
  <1>10. ExitClean'
    BY DEF Query, Reap, devVars, thVars, ExitClean, Places
  <1> QED BY <1>1, <1>2, <1>3, <1>4, <1>5, <1>6, <1>7, <1>8, <1>9, <1>10

\* A checkpoint reads its targets under the lock.
LEMMA CheckpointBeginStep ==
  ASSUME IInv, NEW targets \in SUBSET Atts, CheckpointBegin(targets)
  PROVE  IInv'
  <1> USE NoAttAssumption DEF IInv, TypeOK, Threads, Goto, Return
  <1>1. TypeOK'
    BY DEF CheckpointBegin, Reap, devVars, PCs, SupStates, Places, Channels,
       OwnAdd, Adding
  <1>2. Places'
    BY DEF CheckpointBegin, Reap, devVars, Places
  <1>3. Channels'
    BY DEF CheckpointBegin, Reap, devVars, Channels, Places
  <1>4. OwnAdd'
    BY DEF CheckpointBegin, Reap, devVars, OwnAdd, Adding, Places, Channels
  <1>5. Held'
    BY DEF CheckpointBegin, Reap, devVars, Held, Places, Channels
  <1>6. Exclusive'
    BY DEF CheckpointBegin, Reap, devVars, Exclusive, Claims, Calm, Places
  <1>7. DownHeld'
    BY DEF CheckpointBegin, Reap, devVars, DownHeld, Places, Channels
  <1>8. UncleanLive'
    BY DEF CheckpointBegin, Reap, devVars, UncleanLive, Places
  <1>9. QuitCovers'
    BY DEF CheckpointBegin, Reap, devVars, QuitCovers, Places
  <1>10. ExitClean'
    BY DEF CheckpointBegin, Reap, devVars, ExitClean, Places
  <1> QED BY <1>1, <1>2, <1>3, <1>4, <1>5, <1>6, <1>7, <1>8, <1>9, <1>10

\* The save of a checkpoint is unclean.
LEMMA CheckpointSaveStep ==
  ASSUME IInv, NEW a \in Atts, CheckpointSave(a)
  PROVE  IInv'
  <1> USE NoAttAssumption DEF IInv, TypeOK, Threads, Goto, Return
  <1>1. TypeOK'
    BY DEF CheckpointSave, PCs, SupStates, Places, Channels, OwnAdd, Adding
  <1>2. Places'
    BY DEF CheckpointSave, Places
  <1>3. Channels'
    BY DEF CheckpointSave, Channels, Places
  <1>4. OwnAdd'
    BY DEF CheckpointSave, OwnAdd, Adding, Places, Channels
  <1>5. Held'
    BY DEF CheckpointSave, Held, Places, Channels
  <1>6. Exclusive'
    BY DEF CheckpointSave, Exclusive, Claims, Calm, Places
  <1>7. DownHeld'
    BY DEF CheckpointSave, DownHeld, Places, Channels
  <1>8. UncleanLive'
    BY DEF CheckpointSave, UncleanLive, Places
  <1>9. QuitCovers'
    BY DEF CheckpointSave, QuitCovers, Places
  <1>10. ExitClean'
    BY DEF CheckpointSave, ExitClean, Places
  <1> QED BY <1>1, <1>2, <1>3, <1>4, <1>5, <1>6, <1>7, <1>8, <1>9, <1>10

\* del has taken nothing yet.
LEMMA DelBeginStep ==
  ASSUME IInv, NEW a \in Atts, DelBegin(a)
  PROVE  IInv'
  <1> USE NoAttAssumption DEF IInv, TypeOK, Threads, Goto, Return
  <1>1. TypeOK'
    BY DEF DelBegin, devVars, PCs, SupStates, Places, Channels, OwnAdd, Adding
  <1>2. Places'
    BY DEF DelBegin, devVars, Places
  <1>3. Channels'
    BY DEF DelBegin, devVars, Channels, Places
  <1>4. OwnAdd'
    BY DEF DelBegin, devVars, OwnAdd, Adding, Places, Channels
  <1>5. Held'
    BY DEF DelBegin, devVars, Held, Places, Channels
  <1>6. Exclusive'
    BY DEF DelBegin, devVars, Exclusive, Claims, Calm, Places
  <1>7. DownHeld'
    BY DEF DelBegin, devVars, DownHeld, Places, Channels
  <1>8. UncleanLive'
    BY DEF DelBegin, devVars, UncleanLive, Places
  <1>9. QuitCovers'
    BY DEF DelBegin, devVars, QuitCovers, Places
  <1>10. ExitClean'
    BY DEF DelBegin, devVars, ExitClean, Places
  <1> QED BY <1>1, <1>2, <1>3, <1>4, <1>5, <1>6, <1>7, <1>8, <1>9, <1>10

\* del takes the entry: the call holds the device from here.
LEMMA DelRemoveStep ==
  ASSUME IInv, NEW t \in Threads, DelRemove(t)
  PROVE  IInv'
  <1> USE NoAttAssumption DEF IInv, TypeOK, Threads, Goto, Return
  <1>1. TypeOK'
    BY DEF DelRemove, Reap, devVars, PCs, SupStates, Places, Channels, OwnAdd,
       Adding
  <1>2. Places'
    BY DEF DelRemove, Reap, devVars, Places
  <1>3. Channels'
    BY DEF DelRemove, Reap, devVars, Channels, Places
  <1>4. OwnAdd'
    BY DEF DelRemove, Reap, devVars, OwnAdd, Adding, Places, Channels
  <1>5. Held'
    BY DEF DelRemove, Reap, devVars, Held, Places, Channels
  <1>6. Exclusive'
    BY DEF DelRemove, Reap, devVars, Exclusive, Claims, Calm, Places
  <1>7. DownHeld'
    BY DEF DelRemove, Reap, devVars, DownHeld, Places, Channels
  <1>8. UncleanLive'
    BY DEF DelRemove, Reap, devVars, UncleanLive, Places
  <1>9. QuitCovers'
    BY DEF DelRemove, Reap, devVars, QuitCovers, Places
  <1>10. ExitClean'
    BY DEF DelRemove, Reap, devVars, ExitClean, Places
  <1> QED BY <1>1, <1>2, <1>3, <1>4, <1>5, <1>6, <1>7, <1>8, <1>9, <1>10

\* del waits for the supervisor of the device it deleted.
LEMMA DelDevStep ==
  ASSUME IInv, NEW t \in Threads, DelDev(t)
  PROVE  IInv'
  <1> USE NoAttAssumption DEF IInv, TypeOK, Threads, Goto, Return
  <1>1. TypeOK'
    BY DEF DelDev, PCs, SupStates, Places, Channels, OwnAdd, Adding
  <1>2. Places'
    BY DEF DelDev, Places
  <1>3. Channels'
    BY DEF DelDev, Channels, Places
  <1>4. OwnAdd'
    BY DEF DelDev, OwnAdd, Adding, Places, Channels
  <1>5. Held'
    BY DEF DelDev, Held, Places, Channels
  <1>6. Exclusive'
    BY DEF DelDev, Exclusive, Claims, Calm, Places
  <1>7. DownHeld'
    BY DEF DelDev, DownHeld, Places, Channels
  <1>8. UncleanLive'
    BY DEF DelDev, UncleanLive, Places
  <1>9. QuitCovers'
    BY DEF DelDev, QuitCovers, Places
  <1>10. ExitClean'
    BY DEF DelDev, ExitClean, Places
  <1> QED BY <1>1, <1>2, <1>3, <1>4, <1>5, <1>6, <1>7, <1>8, <1>9, <1>10

\* A delete fails because the device has gone, or is recorded.
LEMMA DelDevFailStep ==
  ASSUME IInv, NEW t \in Threads, DelDevFail(t)
  PROVE  IInv'
  <1> USE NoAttAssumption DEF IInv, TypeOK, Threads, Goto, Return
  <1>1. TypeOK'
    BY FaultFacts DEF DelDevFail, devVars, PCs, SupStates, Places, Channels,
       OwnAdd, Adding
  <1>2. Places'
    BY FaultFacts DEF DelDevFail, devVars, Places
  <1>3. Channels'
    BY FaultFacts DEF DelDevFail, devVars, Channels, Places
  <1>4. OwnAdd'
    BY FaultFacts DEF DelDevFail, devVars, OwnAdd, Adding, Places, Channels
  <1>5. Held'
    BY FaultFacts DEF DelDevFail, devVars, Held, Places, Channels
  <1>6. Exclusive'
    BY FaultFacts DEF DelDevFail, devVars, Exclusive, Claims, Calm, Places
  <1>7. DownHeld'
    BY FaultFacts DEF DelDevFail, devVars, DownHeld, Places, Channels
  <1>8. UncleanLive'
    BY FaultFacts DEF DelDevFail, devVars, UncleanLive, Places
  <1>9. QuitCovers'
    BY FaultFacts DEF DelDevFail, devVars, QuitCovers, Places
  <1>10. ExitClean'
    BY FaultFacts DEF DelDevFail, devVars, ExitClean, Places
  <1> QED BY <1>1, <1>2, <1>3, <1>4, <1>5, <1>6, <1>7, <1>8, <1>9, <1>10

\* A supervisor that is joined has finished.
LEMMA JoinStep ==
  ASSUME IInv, NEW t \in Threads, Join(t)
  PROVE  IInv'
  <1> USE NoAttAssumption DEF IInv, TypeOK, Threads, Goto, Return
  <1>1. TypeOK'
    BY DEF Join, devVars, PCs, SupStates, Places, Channels, OwnAdd, Adding
  <1>2. Places'
    BY DEF Join, devVars, Places
  <1>3. Channels'
    BY DEF Join, devVars, Channels, Places
  <1>4. OwnAdd'
    BY DEF Join, devVars, OwnAdd, Adding, Places, Channels
  <1>5. Held'
    BY DEF Join, devVars, Held, Places, Channels
  <1>6. Exclusive'
    BY DEF Join, devVars, Exclusive, Claims, Calm, Places
  <1>7. DownHeld'
    BY DEF Join, devVars, DownHeld, Places, Channels
  <1>8. UncleanLive'
    BY DEF Join, devVars, UncleanLive, Places
  <1>9. QuitCovers'
    BY DEF Join, devVars, QuitCovers, Places
  <1>10. ExitClean'
    BY DEF Join, devVars, ExitClean, Places
  <1> QED BY <1>1, <1>2, <1>3, <1>4, <1>5, <1>6, <1>7, <1>8, <1>9, <1>10

\* shutdown_all begins with all entries in its list.
LEMMA ShutdownStep ==
  ASSUME IInv, NEW t \in Threads, Shutdown(t)
  PROVE  IInv'
  <1> USE NoAttAssumption DEF IInv, TypeOK, Threads, Goto, Return
  <1>1. TypeOK'
    BY FaultFacts DEF Shutdown, devVars, PCs, SupStates, Places, Channels,
       OwnAdd, Adding
  <1>2. Places'
    BY FaultFacts DEF Shutdown, devVars, Places
  <1>3. Channels'
    BY FaultFacts DEF Shutdown, devVars, Channels, Places
  <1>4. OwnAdd'
    BY FaultFacts DEF Shutdown, devVars, OwnAdd, Adding, Places, Channels
  <1>5. Held'
    BY FaultFacts DEF Shutdown, devVars, Held, Places, Channels
  <1>6. Exclusive'
    BY FaultFacts DEF Shutdown, devVars, Exclusive, Claims, Calm, Places
  <1>7. DownHeld'
    BY FaultFacts DEF Shutdown, devVars, DownHeld, Places, Channels
  <1>8. UncleanLive'
    BY FaultFacts DEF Shutdown, devVars, UncleanLive, Places
  <1>9. QuitCovers'
    BY FaultFacts DEF Shutdown, devVars, QuitCovers, Places
  <1>10. ExitClean'
    BY FaultFacts DEF Shutdown, devVars, ExitClean, Places
  <1> QED BY <1>1, <1>2, <1>3, <1>4, <1>5, <1>6, <1>7, <1>8, <1>9, <1>10

\* The entry that leaves the list is the one del works on.
LEMMA ShutdownNextStep ==
  ASSUME IInv, NEW t \in Threads, NEW a \in Atts, ShutdownNext(t, a)
  PROVE  IInv'
  <1> USE NoAttAssumption DEF IInv, TypeOK, Threads, Goto, Return
  <1>1. TypeOK'
    BY DEF ShutdownNext, devVars, PCs, SupStates, Places, Channels, OwnAdd,
       Adding
  <1>2. Places'
    BY DEF ShutdownNext, devVars, Places
  <1>3. Channels'
    BY DEF ShutdownNext, devVars, Channels, Places
  <1>4. OwnAdd'
    BY DEF ShutdownNext, devVars, OwnAdd, Adding, Places, Channels
  <1>5. Held'
    BY DEF ShutdownNext, devVars, Held, Places, Channels
  <1>6. Exclusive'
    BY DEF ShutdownNext, devVars, Exclusive, Claims, Calm, Places
  <1>7. DownHeld'
    BY DEF ShutdownNext, devVars, DownHeld, Places, Channels
  <1>8. UncleanLive'
    BY DEF ShutdownNext, devVars, UncleanLive, Places
  <1>9. QuitCovers'
    BY DEF ShutdownNext, devVars, QuitCovers, Places
  <1>10. ExitClean'
    BY DEF ShutdownNext, devVars, ExitClean, Places
  <1> QED BY <1>1, <1>2, <1>3, <1>4, <1>5, <1>6, <1>7, <1>8, <1>9, <1>10

\* With the list empty, no entry and no device is left.
LEMMA ExitStep ==
  ASSUME IInv, NEW t \in Threads, Exit(t)
  PROVE  IInv'
  <1> USE NoAttAssumption DEF IInv, TypeOK, Threads, Goto, Return
  <1>1. TypeOK'
    BY DEF Exit, devVars, thVars, PCs, SupStates, Places, Channels, OwnAdd,
       Adding
  <1>2. Places'
    BY DEF Exit, devVars, thVars, Places
  <1>3. Channels'
    BY DEF Exit, devVars, thVars, Channels, Places
  <1>4. OwnAdd'
    BY DEF Exit, devVars, thVars, OwnAdd, Adding, Places, Channels
  <1>5. Held'
    BY DEF Exit, devVars, thVars, Held, Places, Channels
  <1>6. Exclusive'
    BY DEF Exit, devVars, thVars, Exclusive, Claims, Calm, Places
  <1>7. DownHeld'
    BY DEF Exit, devVars, thVars, DownHeld, Places, Channels
  <1>8. UncleanLive'
    BY DEF Exit, devVars, thVars, UncleanLive, Places
  <1>9. QuitCovers'
    BY DEF Exit, devVars, thVars, QuitCovers, Places
  <1>10. ExitClean'
    <2> SUFFICES ASSUME happened = {}, NEW a \in Atts PROVE sup[a] \in {"none", "done"}
      BY DEF Exit, devVars, ExitClean
    <2>1. /\ pc["ctl"] = "stop" /\ quit["ctl"] /\ ids["ctl"] = {}
          /\ at["ctl"] = NoAtt /\ at["sig"] = NoAtt
      BY DEF Exit, Places
    <2>2. registry = {}
      BY <2>1 DEF QuitCovers
    <2>3. sup[a] \notin {"boot", "up"}
      BY <2>1, <2>2 DEF Held
    <2>4. sup[a] # "down"
      BY <2>1 DEF DownHeld
    <2> QED BY <2>3, <2>4 DEF SupStates
  <1> QED BY <1>1, <1>2, <1>3, <1>4, <1>5, <1>6, <1>7, <1>8, <1>9, <1>10

\* A new process starts with no entry and no thread at work.
LEMMA RestartStep ==
  ASSUME IInv, Restart
  PROVE  IInv'
  <1> USE NoAttAssumption DEF IInv, TypeOK, Threads, Goto, Return
  <1>1. TypeOK'
    BY FaultFacts DEF Restart, PCs, SupStates, Places, Channels, OwnAdd, Adding
  <1>2. Places'
    BY FaultFacts DEF Restart, Places
  <1>3. Channels'
    BY FaultFacts DEF Restart, Channels, Places
  <1>4. OwnAdd'
    BY FaultFacts DEF Restart, OwnAdd, Adding, Places, Channels
  <1>5. Held'
    BY FaultFacts DEF Restart, Held, Places, Channels
  <1>6. Exclusive'
    BY FaultFacts DEF Restart, Exclusive, Claims, Calm, Places
  <1>7. DownHeld'
    BY FaultFacts DEF Restart, DownHeld, Places, Channels
  <1>8. UncleanLive'
    BY FaultFacts DEF Restart, UncleanLive, Places
  <1>9. QuitCovers'
    BY FaultFacts DEF Restart, QuitCovers, Places
  <1>10. ExitClean'
    BY FaultFacts DEF Restart, ExitClean, Places
  <1> QED BY <1>1, <1>2, <1>3, <1>4, <1>5, <1>6, <1>7, <1>8, <1>9, <1>10

\* A start that fails is told to add.
LEMMA SupFailStep ==
  ASSUME IInv, NEW a \in Atts, BuildFail(a) \/ RunFail(a) \/ Panic(a)
  PROVE  IInv'
  <1> USE NoAttAssumption DEF IInv, TypeOK, Threads, Goto, Return
  <1>1. TypeOK'
    BY FaultFacts DEF BuildFail, RunFail, Panic, thVars, PCs, SupStates, Places,
       Channels, OwnAdd, Adding
  <1>2. Places'
    BY FaultFacts DEF BuildFail, RunFail, Panic, thVars, Places, Channels
  <1>3. Channels'
    BY FaultFacts DEF BuildFail, RunFail, Panic, thVars, Channels, Places
  <1>4. OwnAdd'
    BY FaultFacts DEF BuildFail, RunFail, Panic, thVars, OwnAdd, Adding, Places,
       Channels
  <1>5. Held'
    BY FaultFacts DEF BuildFail, RunFail, Panic, thVars, Held, Places, Channels
  <1>6. Exclusive'
    <2>1. Calm' => Calm
      BY FaultFacts DEF BuildFail, RunFail, Panic, Calm
    <2>2. \A b \in Atts : Claims(b)' => Claims(b)
      BY DEF BuildFail, RunFail, Panic, thVars, Claims
    <2> QED BY <2>1, <2>2 DEF BuildFail, RunFail, Panic, Exclusive
  <1>7. DownHeld'
    BY FaultFacts DEF BuildFail, RunFail, Panic, thVars, DownHeld, Places,
       Channels, Held
  <1>8. UncleanLive'
    BY FaultFacts DEF BuildFail, RunFail, Panic, thVars, UncleanLive, Places
  <1>9. QuitCovers'
    BY FaultFacts DEF BuildFail, RunFail, Panic, thVars, QuitCovers, Places
  <1>10. ExitClean'
    BY FaultFacts DEF BuildFail, RunFail, Panic, thVars, ExitClean, Places
  <1> QED BY <1>1, <1>2, <1>3, <1>4, <1>5, <1>6, <1>7, <1>8, <1>9, <1>10

\* A device that comes up is told to add.
LEMMA DeviceReadyStep ==
  ASSUME IInv, NEW a \in Atts, DeviceReady(a)
  PROVE  IInv'
  <1> USE NoAttAssumption DEF IInv, TypeOK, Threads, Goto, Return
  <1>1. TypeOK'
    BY DEF DeviceReady, thVars, PCs, SupStates, Places, Channels, OwnAdd, Adding
  <1>2. Places'
    BY DEF DeviceReady, thVars, Places
  <1>3. Channels'
    BY DEF DeviceReady, thVars, Channels, Places
  <1>4. OwnAdd'
    BY DEF DeviceReady, thVars, OwnAdd, Adding, Places, Channels
  <1>5. Held'
    BY DEF DeviceReady, thVars, Held, Places, Channels
  <1>6. Exclusive'
    BY DEF DeviceReady, thVars, Exclusive, Claims, Calm, Places
  <1>7. DownHeld'
    BY DEF DeviceReady, thVars, DownHeld, Places, Channels
  <1>8. UncleanLive'
    BY DEF DeviceReady, thVars, UncleanLive, Places
  <1>9. QuitCovers'
    BY DEF DeviceReady, thVars, QuitCovers, Places
  <1>10. ExitClean'
    BY DEF DeviceReady, thVars, ExitClean, Places
  <1> QED BY <1>1, <1>2, <1>3, <1>4, <1>5, <1>6, <1>7, <1>8, <1>9, <1>10

\* A device that vanishes is recorded.
LEMMA DeviceGoneStep ==
  ASSUME IInv, NEW a \in Atts, DeviceGone(a)
  PROVE  IInv'
  <1> USE NoAttAssumption DEF IInv, TypeOK, Threads, Goto, Return
  <1>1. TypeOK'
    BY FaultFacts DEF DeviceGone, thVars, PCs, SupStates, Places, Channels,
       OwnAdd, Adding
  <1>2. Places'
    BY FaultFacts DEF DeviceGone, thVars, Places
  <1>3. Channels'
    BY FaultFacts DEF DeviceGone, thVars, Channels, Places
  <1>4. OwnAdd'
    BY FaultFacts DEF DeviceGone, thVars, OwnAdd, Adding, Places, Channels
  <1>5. Held'
    BY FaultFacts DEF DeviceGone, thVars, Held, Places, Channels
  <1>6. Exclusive'
    BY FaultFacts DEF DeviceGone, thVars, Exclusive, Claims, Calm, Places
  <1>7. DownHeld'
    BY FaultFacts DEF DeviceGone, thVars, DownHeld, Places, Channels
  <1>8. UncleanLive'
    BY FaultFacts DEF DeviceGone, thVars, UncleanLive, Places
  <1>9. QuitCovers'
    BY FaultFacts DEF DeviceGone, thVars, QuitCovers, Places
  <1>10. ExitClean'
    BY FaultFacts DEF DeviceGone, thVars, ExitClean, Places
  <1> QED BY <1>1, <1>2, <1>3, <1>4, <1>5, <1>6, <1>7, <1>8, <1>9, <1>10

\* The clean save meets no attachment of its backing that is up.
LEMMA FinalSaveStep ==
  ASSUME IInv, NEW a \in Atts, FinalSave(a)
  PROVE  IInv'
  <1> USE NoAttAssumption DEF IInv, TypeOK, Threads, Goto, Return
  <1>1. TypeOK'
    BY DEF FinalSave, thVars, PCs, SupStates, Places, Channels, OwnAdd, Adding
  <1>2. Places'
    BY DEF FinalSave, thVars, Places
  <1>3. Channels'
    BY DEF FinalSave, thVars, Channels, Places
  <1>4. OwnAdd'
    BY DEF FinalSave, thVars, OwnAdd, Adding, Places, Channels
  <1>5. Held'
    BY DEF FinalSave, thVars, Held, Places, Channels
  <1>6. Exclusive'
    BY DEF FinalSave, thVars, Exclusive, Claims, Calm, Places
  <1>7. DownHeld'
    BY DEF FinalSave, thVars, DownHeld, Places, Channels
  <1>8. UncleanLive'
    BY DEF FinalSave, thVars, UncleanLive, Places, DownHeld, Held, Exclusive,
       Claims, Calm
  <1>9. QuitCovers'
    BY DEF FinalSave, thVars, QuitCovers, Places
  <1>10. ExitClean'
    BY DEF FinalSave, thVars, ExitClean, Places
  <1> QED BY <1>1, <1>2, <1>3, <1>4, <1>5, <1>6, <1>7, <1>8, <1>9, <1>10

\* The invariant is inductive: one lemma above per action of Next.
LEMMA NextInv == IInv /\ [Next]_vars => IInv'
  <1> SUFFICES ASSUME IInv, [Next]_vars PROVE IInv'
    OBVIOUS
  <1>1. CASE Request
    BY <1>1, AddCheckStep, DelBeginStep, CheckpointBeginStep, QueryStep,
       ShutdownStep DEF Request
  <1>2. ASSUME NEW t \in Threads, ThreadStep(t) PROVE IInv'
    BY <1>2, DelRemoveStep, DelDevStep, DelDevFailStep, JoinStep, ShutdownNextStep,
       ExitStep DEF ThreadStep
  <1>3. CASE CtlStep
    BY <1>2, <1>3, AddSpawnStep, AddReturnStep, AddReadyStep, AddInsertStep,
       CheckpointSaveStep DEF CtlStep, Threads
  <1>4. ASSUME NEW a \in Atts, SupStep(a) \/ DeviceGone(a) PROVE IInv'
    BY <1>4, SupFailStep, DeviceReadyStep, DeviceGoneStep, FinalSaveStep DEF SupStep
  <1>5. CASE UNCHANGED vars
    BY <1>5 DEF vars, devVars, thVars, IInv, TypeOK, Places, Channels, OwnAdd,
       Adding, Held, Exclusive, Claims, Calm, DownHeld, UncleanLive, QuitCovers,
       ExitClean
  <1> QED BY <1>1, <1>2, <1>3, <1>4, <1>5, RestartStep DEF Next, Threads

\* The inductive invariant of the control plane.
THEOREM Invariance == Spec => []IInv
  BY InitInv, NextInv, PTL DEF Spec

\* An entry that del works on has left the registry: no two calls delete, and
\* no two threads join, the same device.
THEOREM TypeCorrect == Spec => []TypeOK
  <1>1. IInv => TypeOK
    BY DEF IInv
  <1> QED BY <1>1, Invariance, PTL

\* No interleaving of requests, failed starts, crashes and devices that vanish
\* attaches a backing twice.
THEOREM SingleAttach == Spec => []NoDoubleAttach
  <1>1. IInv => NoDoubleAttach
    <2> SUFFICES ASSUME IInv, Calm, NEW a \in Atts, NEW b \in Atts,
                        backing[a] = backing[b], sup[a] = "up", sup[b] = "up"
                 PROVE  a = b
      BY DEF NoDoubleAttach, Running, Calm
    <2>1. at["sig"] = NoAtt
      BY DEF IInv, Places, Calm, Threads
    <2>2. Claims(a) /\ Claims(b)
      BY <2>1, NoAttAssumption DEF IInv, Held, Claims, Calm, Threads
    <2> QED BY <2>2 DEF IInv, Exclusive
  <1> QED BY <1>1, Invariance, PTL

\* A running device is in the registry or in the hands of a call, also while
\* the signal thread works beside a request.
THEOREM Reachable == Spec => []NoOrphan
  <1>1. IInv => NoOrphan
    BY DEF IInv, NoOrphan, Running, Held
  <1> QED BY <1>1, Invariance, PTL

\* While nothing but starts fails, a device that is up has an unclean file.
THEOREM MarkerKept == Spec => []UncleanIfUndisturbed
  <1>1. IInv => UncleanIfUndisturbed
    BY DEF IInv, UncleanIfUndisturbed, UncleanWhileUp, Running, UncleanLive
  <1> QED BY <1>1, Invariance, PTL

\* A shutdown that nothing disturbs ends with every device detached and every
\* final save made.
THEOREM CleanExit == Spec => []ExitDetached
  <1>1. IInv => ExitDetached
    BY DEF IInv, ExitDetached, ExitClean
  <1> QED BY <1>1, Invariance, PTL

=============================================================================
