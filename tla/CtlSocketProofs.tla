--------------------------- MODULE CtlSocketProofs ---------------------------
(***************************************************************************)
(* Proofs about CtlSocket, for any number of daemons on one socket path.   *)
(*                                                                         *)
(* The path is the only lock between daemons. A daemon owns it from its    *)
(* bind to the moment one of its threads removes the file; what makes the  *)
(* lock sound is that a start between its check and its bind excludes      *)
(* owners and other starts (StartsAlone), which holds until two starts     *)
(* overlap, and that at most one thread of an owner is shutting it down    *)
(* (OneEnding), which holds until a daemon is told to stop twice. Devices  *)
(* are attached only by a daemon that serves, and are gone when its thread *)
(* removes the file, unless shutdown_all has missed one (Attached).        *)
(***************************************************************************)
EXTENDS CtlSocket, TLAPS

\* The daemon has bound the file and neither thread has removed it yet.
Owner(d) == Listening(d) /\ sig[d] # "exit"

\* Starts that have passed their check are one at a time, and the file they
\* found has gone when they bind.
StartsApart ==
  ~overlapped =>
    \A d \in Daemons : Starting(d) =>
      /\ pc[d] = "bind" => path = NoOne
      /\ \A e \in Daemons : Starting(e) => e = d

Calm == ~overlapped /\ twice = {}

\* No daemon starts beside one that has the socket.
StartsAlone ==
  Calm => \A d, e \in Daemons : ~(Starting(d) /\ Owner(e))

\* A daemon that its request loop ends is not ended by its signal thread too.
OneEnding ==
  Calm => \A d \in Daemons : pc[d] \in {"stop", "remove", "exit"} => sig[d] = "wait"

\* The file is that of the daemon that listens.
OwnsPath ==
  Calm => \A d \in Daemons : Owner(d) => path = d

\* Where a daemon with devices can be.
Attached ==
  \A d \in Daemons : holds[d] /\ ~Missed(d) =>
    pc[d] \in {"accept", "read", "stop"} /\ sig[d] \in {"wait", "stop"}

IInv == TypeOK /\ StartsApart /\ StartsAlone /\ OneEnding /\ OwnsPath /\ Attached

-----------------------------------------------------------------------------
\* With no daemon started the invariant holds.
LEMMA InitInv == Init => IInv
  BY NoOneAssumption DEF Init, IInv, TypeOK, PCs, StartsApart, StartsAlone,
     OneEnding, OwnsPath, Attached, Calm, Starting, Owner, Listening

\* Every step keeps the types.
LEMMA TypeStep == TypeOK /\ [Next]_vars => TypeOK'
  <1> SUFFICES ASSUME TypeOK, [Next]_vars PROVE TypeOK'
    OBVIOUS
  <1> USE DEF TypeOK, PCs, Goto
  <1>1. ASSUME NEW d \in Daemons, Start(d) PROVE TypeOK'
    BY <1>1 DEF Start
  <1>2. ASSUME NEW d \in Daemons, Ends(d) PROVE TypeOK'
    BY <1>2 DEF Ends
  <1>3. ASSUME NEW d \in Daemons, Signal(d) PROVE TypeOK'
    BY <1>3 DEF Signal
  <1>4. ASSUME NEW d \in Daemons, Check(d) PROVE TypeOK'
    BY <1>4 DEF Check
  <1>5. ASSUME NEW d \in Daemons, Unlink(d) \/ Bind(d) \/ Daemonize(d) PROVE TypeOK'
    BY <1>5 DEF Unlink, Bind, Daemonize
  <1>6. ASSUME NEW d \in Daemons, Handle(d) \/ SilentCloses(d)
        PROVE  TypeOK'
    <2>1. holds' \in [Daemons -> BOOLEAN]
      BY <1>6 DEF Handle, SilentCloses
    <2> QED BY <1>6, <2>1 DEF Handle, SilentCloses
  <1>7. ASSUME NEW d \in Daemons, NEW k \in Clients, Accept(d, k) PROVE TypeOK'
    BY <1>7 DEF Accept
  <1>8. ASSUME NEW d \in Daemons, StopDevices(d) \/ Remove(d) PROVE TypeOK'
    <2>1. holds' \in [Daemons -> BOOLEAN]
      BY <1>8 DEF StopDevices, Remove
    <2> QED BY <1>8, <2>1 DEF StopDevices, Remove
  <1>9. ASSUME NEW d \in Daemons, SigStopDevices(d) \/ SigRemove(d) PROVE TypeOK'
    <2>1. holds' \in [Daemons -> BOOLEAN]
      BY <1>9 DEF SigStopDevices, SigRemove
    <2> QED BY <1>9, <2>1 DEF SigStopDevices, SigRemove
  <1>10. CASE UNCHANGED vars
    BY <1>10 DEF vars
  <1> QED
    BY <1>1, <1>2, <1>3, <1>4, <1>5, <1>6, <1>7, <1>8, <1>9, <1>10
    DEF Next, MainStep, SigStep, Kill, MainExit, SigExit

\* A device is attached where requests are served, and a thread that leaves
\* shutdown_all with one still there has missed it.
LEMMA AttachedStep == TypeOK /\ Attached /\ [Next]_vars => Attached'
  <1> SUFFICES ASSUME TypeOK, Attached, [Next]_vars PROVE Attached'
    OBVIOUS
  <1> USE DEF TypeOK, Attached, Missed, Goto
  <1>1. ASSUME NEW d \in Daemons, Start(d) \/ Check(d) \/ Unlink(d) \/ Bind(d) \/ Daemonize(d)
        PROVE  Attached'
    <2>1. /\ ~(pc[d] \in {"accept", "read", "stop", "remove", "exit"})
          /\ UNCHANGED <<sig, holds>> /\ \E p \in PCs : pc' = [pc EXCEPT ![d] = p]
      BY <1>1 DEF Start, Check, Unlink, Bind, Daemonize, PCs
    <2> QED BY <2>1
  <1>2. ASSUME NEW d \in Daemons, Ends(d) PROVE Attached'
    BY <1>2 DEF Ends
  <1>3. ASSUME NEW d \in Daemons, Handle(d) \/ SilentCloses(d) PROVE Attached'
    <2>1. /\ pc[d] = "read" /\ sig' = sig
          /\ pc' = [pc EXCEPT ![d] = "accept"] \/ pc' = [pc EXCEPT ![d] = "stop"]
          /\ \A e \in Daemons \ {d} : holds'[e] = holds[e]
      BY <1>3 DEF Handle, SilentCloses
    <2> QED BY <2>1
  <1>4. ASSUME NEW d \in Daemons, NEW k \in Clients, Accept(d, k) PROVE Attached'
    BY <1>4 DEF Accept
  <1>5. ASSUME NEW d \in Daemons, StopDevices(d) \/ Remove(d) PROVE Attached'
    <2>1. /\ pc[d] \in {"stop", "remove"} /\ sig' = sig
          /\ pc' = [pc EXCEPT ![d] = "remove"] \/ pc' = [pc EXCEPT ![d] = "exit"]
          /\ \A e \in Daemons \ {d} : holds'[e] = holds[e]
      BY <1>5 DEF StopDevices, Remove
    <2> QED BY <2>1
  <1>6. ASSUME NEW d \in Daemons, Signal(d) PROVE Attached'
    BY <1>6 DEF Signal
  <1>7. ASSUME NEW d \in Daemons, SigStopDevices(d) \/ SigRemove(d) PROVE Attached'
    <2>1. /\ pc' = pc
          /\ sig' = [sig EXCEPT ![d] = "remove"] \/ sig' = [sig EXCEPT ![d] = "exit"]
          /\ \A e \in Daemons \ {d} : holds'[e] = holds[e]
      BY <1>7 DEF SigStopDevices, SigRemove
    <2> QED BY <2>1
  <1>8. CASE UNCHANGED vars
    BY <1>8 DEF vars
  <1> QED
    BY <1>1, <1>2, <1>3, <1>4, <1>5, <1>6, <1>7, <1>8
    DEF Next, MainStep, SigStep, Kill, MainExit, SigExit

\* The part of the invariant that is about the file.
FileInv == TypeOK /\ StartsApart /\ StartsAlone /\ OneEnding /\ OwnsPath

\* What it says of a daemon depends on where its threads are; a step that
\* moves neither, nor the file, keeps it.
LEMMA Frame ==
  ASSUME FileInv, TypeOK', UNCHANGED <<path, pc, sig, overlapped, twice>>
  PROVE  FileInv'
  BY DEF FileInv, StartsApart, StartsAlone, OneEnding, OwnsPath, Calm, Starting,
     Owner, Listening

\* Histories are forgotten only when no daemon is alive.
LEMMA StartStep ==
  ASSUME FileInv, TypeOK', NEW d \in Daemons, Start(d)
  PROVE  FileInv'
  <1> USE DEF FileInv, TypeOK, Goto, Calm, Starting, Owner, Listening
  <1>1. CASE \E e \in Daemons : Alive(e)
    BY <1>1 DEF Start, StartsApart, StartsAlone, OneEnding, OwnsPath
  <1>2. CASE ~ \E e \in Daemons : Alive(e)
    BY <1>2 DEF Start, StartsApart, StartsAlone, OneEnding, OwnsPath, Alive
  <1> QED BY <1>1, <1>2

\* A check that finds no listener finds no owner, and a second start in its
\* window is recorded.
LEMMA CheckStep ==
  ASSUME FileInv, TypeOK', NEW d \in Daemons, Check(d)
  PROVE  FileInv'
  <1> USE DEF FileInv, TypeOK, Goto, Calm
  <1>1. CASE path # NoOne /\ Listening(path)
    BY <1>1 DEF Check, StartsApart, StartsAlone, OneEnding, OwnsPath, Starting,
       Owner, Listening
  <1>2. CASE ~(path # NoOne /\ Listening(path))
    <2>1. /\ pc[d] = "check" /\ pc' = [pc EXCEPT ![d] = "unlink"]
          /\ UNCHANGED <<path, sig, twice, holds>>
          /\ ~overlapped' => ~overlapped /\ \A e \in Daemons : ~Starting(e)
      BY <1>2 DEF Check
    <2>2. Calm => \A e \in Daemons : ~Owner(e)
      BY <1>2, NoOneAssumption DEF OwnsPath, Owner
    <2>3. \A e \in Daemons : /\ Starting(e)' <=> Starting(e) \/ e = d
                             /\ Owner(e)' <=> Owner(e)
      BY <2>1 DEF Starting, Owner, Listening
    <2>4. StartsApart'
      BY <2>1, <2>3 DEF StartsApart
    <2>5. StartsAlone' /\ OwnsPath'
      BY <2>1, <2>2, <2>3 DEF StartsAlone, OwnsPath
    <2>6. OneEnding'
      BY <2>1 DEF OneEnding
    <2> QED BY <2>4, <2>5, <2>6
  <1> QED BY <1>1, <1>2

\* A start removes the file and binds only while nobody owns it.
LEMMA BindStep ==
  ASSUME FileInv, TypeOK', NEW d \in Daemons, Unlink(d) \/ Bind(d) \/ Daemonize(d)
  PROVE  FileInv'
  <1> USE DEF FileInv, TypeOK, Goto, Calm, Starting, Owner, Listening
  <1>1. CASE Unlink(d)
    BY <1>1 DEF Unlink, StartsApart, StartsAlone, OneEnding, OwnsPath
  <1>2. CASE Bind(d)
    <2>1. CASE path = NoOne
      BY <1>2, <2>1 DEF Bind, StartsApart, StartsAlone, OneEnding, OwnsPath
    <2>2. CASE path # NoOne
      BY <1>2, <2>2 DEF Bind, StartsApart, StartsAlone, OneEnding, OwnsPath
    <2> QED BY <2>1, <2>2
  <1>3. CASE Daemonize(d)
    BY <1>3 DEF Daemonize, StartsApart, StartsAlone, OneEnding, OwnsPath
  <1> QED BY <1>1, <1>2, <1>3

\* Serving does not touch the file.
LEMMA ServeStep ==
  ASSUME FileInv, TypeOK', NEW d \in Daemons, Handle(d) \/ SilentCloses(d) \/ \E k \in Clients : Accept(d, k)
  PROVE  FileInv'
  <1> USE DEF FileInv, TypeOK, Goto, Calm, Starting, Owner, Listening
  <1>1. CASE SilentCloses(d) \/ \E k \in Clients : Accept(d, k)
    BY <1>1 DEF Accept, SilentCloses, StartsApart, StartsAlone, OneEnding, OwnsPath
  <1>2. CASE Handle(d)
    BY <1>2 DEF Handle, StartsApart, StartsAlone, OneEnding, OwnsPath
  <1> QED BY <1>1, <1>2

\* The thread that removes the file removes its own daemon's file.
LEMMA EndingStep ==
  ASSUME FileInv, TypeOK', NEW d \in Daemons,
         \/ StopDevices(d) \/ Remove(d)
         \/ Signal(d) \/ SigStopDevices(d) \/ SigRemove(d)
  PROVE  FileInv'
  <1> USE DEF FileInv, TypeOK, Goto, Calm, Starting, Owner, Listening
  <1>1. CASE StopDevices(d)
    BY <1>1 DEF StopDevices, StartsApart, StartsAlone, OneEnding, OwnsPath
  <1>2. CASE Remove(d)
    BY <1>2 DEF Remove, StartsApart, StartsAlone, OneEnding, OwnsPath
  <1>3. CASE Signal(d)
    BY <1>3 DEF Signal, StartsApart, StartsAlone, OneEnding, OwnsPath
  <1>4. CASE SigStopDevices(d)
    BY <1>4 DEF SigStopDevices, StartsApart, StartsAlone, OneEnding, OwnsPath
  <1>5. CASE SigRemove(d)
    BY <1>5 DEF SigRemove, StartsApart, StartsAlone, OneEnding, OwnsPath
  <1> QED BY <1>1, <1>2, <1>3, <1>4, <1>5

\* A process that ends leaves the file to the next check.
LEMMA EndsStep ==
  ASSUME FileInv, TypeOK', NEW d \in Daemons, Ends(d)
  PROVE  FileInv'
  BY DEF FileInv, TypeOK, Goto, Calm, Starting, Owner, Listening, Ends,
     StartsApart, StartsAlone, OneEnding, OwnsPath

\* Every step of a daemon, its signal thread, a client or a kill keeps the
\* invariant.
LEMMA NextInv == IInv /\ [Next]_vars => IInv'
  <1> SUFFICES ASSUME IInv, [Next]_vars PROVE IInv'
    OBVIOUS
  <1>0. FileInv /\ TypeOK /\ Attached
    BY DEF IInv, FileInv
  <1>1. TypeOK'
    BY <1>0, TypeStep
  <1>2. Attached'
    BY <1>0, AttachedStep
  <1>3. ASSUME UNCHANGED vars PROVE FileInv'
    BY <1>0, <1>1, <1>3, Frame DEF vars
  <1>4. FileInv'
    BY <1>0, <1>1, <1>3, StartStep, CheckStep, BindStep, ServeStep, EndingStep, EndsStep
    DEF Next, MainStep, SigStep, Kill, MainExit, SigExit
  <1> QED BY <1>2, <1>4 DEF IInv, FileInv

\* The inductive invariant of the socket path.
THEOREM Invariance == Spec => []IInv
  BY InitInv, NextInv, PTL DEF Spec

\* The signal thread acts only for a daemon that has got its socket.
THEOREM TypeCorrect == Spec => []TypeOK
  <1>1. IInv => TypeOK
    BY DEF IInv
  <1> QED BY <1>1, Invariance, PTL

\* However many daemons are started, killed, signalled and asked to shut down,
\* one at most holds devices, and it is the one the socket leads to, unless
\* starts overlapped, a daemon was told to stop twice or a device was missed.
THEOREM Exclusion == Spec => []OneDaemon
  <1>1. IInv => OneDaemon
    <2> SUFFICES ASSUME IInv, Calm, \A d \in Daemons : ~Missed(d)
                 PROVE  \A d \in Daemons : Holding(d) =>
                          path = d /\ \A e \in Daemons : Holding(e) => e = d
      BY DEF OneDaemon, Calm
    <2>1. \A d \in Daemons : Holding(d) => Owner(d)
      BY DEF IInv, Attached, Holding, Owner, Listening
    <2> QED BY <2>1 DEF IInv, OwnsPath
  <1> QED BY <1>1, Invariance, PTL

\* As long as no starts have overlapped, a stale file keeps no daemon out: a
\* check is refused by the open listener of another daemon, and a bind that
\* follows a check finds no file.
THEOREM StaleFileHarmless == Spec => RefusedOnlyByLive
  <1>1. IInv /\ [Next]_vars =>
          [\A d \in Daemons : pc[d] # "refused" /\ pc'[d] = "refused" /\ ~overlapped
             => \E e \in Daemons \ {d} : Listening(e)]_vars
    <2> SUFFICES ASSUME IInv, Next, NEW d \in Daemons, pc[d] # "refused",
                        pc'[d] = "refused", ~overlapped
                 PROVE  \E e \in Daemons \ {d} : Listening(e)
      OBVIOUS
    <2>1. Check(d) \/ Bind(d)
      <3> USE DEF IInv, TypeOK, Goto
      <3>1. PICK e \in Daemons : \/ Start(e) \/ Ends(e) \/ Signal(e)
                                 \/ MainStep(e) \/ SigStep(e) \/ SilentCloses(e)
                                 \/ \E k \in Clients : Accept(e, k)
        BY DEF Next, Kill
      <3>2. CASE Check(e) \/ Bind(e)
        BY <3>2 DEF Check, Bind
      <3>3. CASE Start(e) \/ Ends(e) \/ Signal(e) \/ SilentCloses(e)
        BY <3>3 DEF Start, Ends, Signal, SilentCloses
      <3>4. CASE Unlink(e) \/ Daemonize(e) \/ Handle(e)
        BY <3>4 DEF Unlink, Daemonize, Handle
      <3>5. CASE StopDevices(e) \/ Remove(e)
        BY <3>5 DEF StopDevices, Remove
      <3>6. CASE SigStopDevices(e) \/ SigRemove(e)
        BY <3>6 DEF SigStopDevices, SigRemove
      <3>7. CASE \E k \in Clients : Accept(e, k)
        BY <3>7 DEF Accept
      <3> QED BY <3>1, <3>2, <3>3, <3>4, <3>5, <3>6, <3>7
          DEF MainStep, SigStep, MainExit, SigExit
    <2>2. CASE Check(d)
      <3>1. path \in Daemons /\ Listening(path) /\ path # d
        BY <2>2 DEF IInv, TypeOK, Check, Goto, Listening
      <3> QED BY <3>1
    <2>3. CASE Bind(d)
      BY <2>3 DEF IInv, TypeOK, Bind, Goto, StartsApart, Starting
    <2> QED BY <2>1, <2>2, <2>3
  <1> QED BY <1>1, Invariance, PTL DEF Spec, RefusedOnlyByLive

=============================================================================
