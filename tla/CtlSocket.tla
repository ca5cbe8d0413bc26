------------------------------ MODULE CtlSocket ------------------------------
(***************************************************************************)
(* The control socket and the life of a daemon process around it: bind and *)
(* serve of src/ctl.rs, run_daemon and its signal thread of src/main.rs.   *)
(* Several daemons are started on one socket path, by hand, by a service   *)
(* manager or after a crash; clients connect, send a request, hang up or   *)
(* say nothing.                                                            *)
(*                                                                         *)
(* The socket file is reduced to the daemon whose listener it is bound to: *)
(* a connect reaches that listener if it is still open, and a file whose   *)
(* daemon has gone is stale. What requests and shutdown_all do to devices  *)
(* is in Daemon, which also shows that shutdown_all comes to its end.      *)
(***************************************************************************)
CONSTANTS
  Daemons,     \* daemon processes; one that has ended may be started again
  NoOne        \* there is no socket file

ASSUME NoOneAssumption == NoOne \notin Daemons

VARIABLES
  path,        \* the daemon that bound the socket file, or NoOne
  pc,          \* the main thread of each daemon
  sig,         \* its signal thread: "wait", "stop", "remove" or "exit"
  conn,        \* the connection being handled, or "none"
  overlapped,  \* history: a start has checked the socket during another's
               \* check and bind, since a daemon was last started alone
  twice,       \* history: daemons that got a signal and a shutdown request,
               \* since then
  holds        \* whether each daemon has devices attached

vars == <<path, pc, sig, conn, overlapped, twice, holds>>

PCs == {"off",      \* not started
        "check",    \* bind: to try a connect
        "unlink",   \* bind: to remove a stale file
        "bind",     \* bind: to bind
        "bound",    \* run_daemon: to daemonize and to install the signal thread
        "accept",   \* serve: waiting for a connection
        "read",     \* handle: in read_line, or in the request
        "stop",     \* serve: in shutdown_all
        "remove",   \* serve: to remove the file
        "exit",     \* to return from main
        "refused",  \* the start failed
        "dead"}     \* the process has ended

\* What clients do: an ordinary request (or one that does not parse), a
\* shutdown, a shutdown whose client hangs up before the reply, or nothing.
Clients == {"query", "shutdown", "hangup", "silent"}

Listening(d) == pc[d] \in {"bound", "accept", "read", "stop", "remove"}
Starting(d)  == pc[d] \in {"unlink", "bind"}
Alive(d)     == Listening(d) \/ Starting(d) \/ pc[d] \in {"check", "exit"}

Init ==
  /\ path = NoOne
  /\ pc = [d \in Daemons |-> "off"]
  /\ sig = [d \in Daemons |-> "wait"]
  /\ conn = [d \in Daemons |-> "none"]
  /\ overlapped = FALSE
  /\ twice = {}
  /\ holds = [d \in Daemons |-> FALSE]

Goto(d, p) == pc' = [pc EXCEPT ![d] = p]

-----------------------------------------------------------------------------
(* Starting: bind.                                                         *)

Start(d) ==
  /\ pc[d] \in {"off", "refused", "dead"}
  /\ Goto(d, "check")
  /\ IF \E e \in Daemons : Alive(e) THEN UNCHANGED <<overlapped, twice>>
                                   ELSE overlapped' = FALSE /\ twice' = {}
  /\ UNCHANGED <<path, sig, conn, holds>>

\* Fault variant: no connect is tried.
CheckNone(d) ==
  /\ pc[d] = "check"
  /\ Goto(d, "unlink")
  /\ overlapped' = (overlapped \/ \E e \in Daemons : Starting(e))
  /\ UNCHANGED <<path, sig, conn, twice, holds>>

\* A connect that succeeds means that another daemon is there.
Check(d) ==
  /\ pc[d] = "check"
  /\ IF path # NoOne /\ Listening(path)
       THEN Goto(d, "refused") /\ UNCHANGED overlapped
       ELSE /\ Goto(d, "unlink")
            /\ overlapped' = (overlapped \/ \E e \in Daemons : Starting(e))
  /\ UNCHANGED <<path, sig, conn, twice, holds>>

\* Fault variant: a stale file is left in place.
UnlinkNever(d) ==
  /\ pc[d] = "unlink"
  /\ Goto(d, "bind")
  /\ UNCHANGED <<path, sig, conn, overlapped, twice, holds>>

\* The file that is there now is removed, whoever has bound it since.
Unlink(d) ==
  /\ pc[d] = "unlink"
  /\ path' = NoOne
  /\ Goto(d, "bind")
  /\ UNCHANGED <<sig, conn, overlapped, twice, holds>>

\* bind fails where there is a file.
Bind(d) ==
  /\ pc[d] = "bind"
  /\ IF path = NoOne
       THEN path' = d /\ Goto(d, "bound")
       ELSE Goto(d, "refused") /\ UNCHANGED path
  /\ UNCHANGED <<sig, conn, overlapped, twice, holds>>

\* daemonize and the signal handlers; if either fails the process ends and
\* leaves its file.
Daemonize(d) ==
  /\ pc[d] = "bound"
  /\ Goto(d, "accept") \/ Goto(d, "dead")
  /\ UNCHANGED <<path, sig, conn, overlapped, twice, holds>>

-----------------------------------------------------------------------------
(* Serving: one connection at a time, one request per connection.          *)

\* The next connection. Clients may have queued up at the listener since bind,
\* so that one can be there whoever has the file by now.
Accept(d, k) ==
  /\ pc[d] = "accept"
  /\ conn' = [conn EXCEPT ![d] = k]
  /\ Goto(d, "read")
  /\ UNCHANGED <<path, sig, overlapped, twice, holds>>

\* The request is done and answered: it may have attached a device or detached
\* one, also beside a signal thread that has begun, or ended, its shutdown_all.
\* A reply that cannot be written makes handle fail, also for a shutdown,
\* which is then forgotten.
Handle(d) ==
  /\ pc[d] = "read" /\ conn[d] # "silent"
  /\ conn' = [conn EXCEPT ![d] = "none"]
  /\ IF conn[d] = "shutdown"
       THEN /\ Goto(d, "stop")
            /\ twice' = IF sig[d] # "wait" THEN twice \cup {d} ELSE twice
       ELSE Goto(d, "accept") /\ UNCHANGED twice
  /\ \E h \in IF conn[d] = "query" THEN BOOLEAN ELSE {holds[d]} :
       holds' = [holds EXCEPT ![d] = h]
  /\ UNCHANGED <<path, sig, overlapped>>

\* A silent client may close at last: an empty line is a bad request.
SilentCloses(d) ==
  /\ pc[d] = "read" /\ conn[d] = "silent"
  /\ conn' = [conn EXCEPT ![d] = "none"]
  /\ Goto(d, "accept")
  /\ UNCHANGED <<path, sig, overlapped, twice, holds>>

-----------------------------------------------------------------------------
(* Ending.                                                                 *)

\* Fault variant: the file goes before the devices.
StopDevicesAfterRemove(d) ==
  /\ pc[d] = "stop"
  /\ path' = NoOne
  /\ UNCHANGED <<pc, sig, conn, overlapped, twice, holds>>

\* shutdown_all is over. It leaves a device that could not be deleted, that an
\* earlier del or add has forgotten, or that came after its list of ids.
StopDevices(d) ==
  /\ pc[d] = "stop"
  /\ Goto(d, "remove")
  /\ \E h \in {FALSE, holds[d]} : holds' = [holds EXCEPT ![d] = h]
  /\ UNCHANGED <<path, sig, conn, overlapped, twice>>

\* serve removes the file, whoever bound it.
Remove(d) ==
  /\ pc[d] = "remove"
  /\ path' = NoOne
  /\ Goto(d, "exit")
  /\ UNCHANGED <<sig, conn, overlapped, twice, holds>>

\* The process ends, every thread, connection and device with it.
Ends(d) ==
  /\ Goto(d, "dead")
  /\ sig' = [sig EXCEPT ![d] = "wait"]
  /\ conn' = [conn EXCEPT ![d] = "none"]
  /\ holds' = [holds EXCEPT ![d] = FALSE]
  /\ UNCHANGED <<path, overlapped, twice>>

MainExit(d) == pc[d] = "exit" /\ Ends(d)

\* Fault variant: the handlers are installed before the socket is bound.
SignalEarly(d) ==
  /\ Alive(d) /\ sig[d] = "wait"
  /\ sig' = [sig EXCEPT ![d] = "stop"]
  /\ twice' = IF pc[d] \in {"stop", "remove", "exit"} THEN twice \cup {d} ELSE twice
  /\ UNCHANGED <<path, pc, conn, overlapped, holds>>

\* SIGTERM or SIGINT wakes the signal thread, which runs shutdown_all.
Signal(d) ==
  /\ pc[d] \in {"accept", "read", "stop", "remove", "exit"} /\ sig[d] = "wait"
  /\ sig' = [sig EXCEPT ![d] = "stop"]
  /\ twice' = IF pc[d] \in {"stop", "remove", "exit"} THEN twice \cup {d} ELSE twice
  /\ UNCHANGED <<path, pc, conn, overlapped, holds>>

SigStopDevices(d) ==
  /\ sig[d] = "stop"
  /\ sig' = [sig EXCEPT ![d] = "remove"]
  /\ \E h \in {FALSE, holds[d]} : holds' = [holds EXCEPT ![d] = h]
  /\ UNCHANGED <<path, pc, conn, overlapped, twice>>

\* The signal thread removes the file too, whoever bound it.
SigRemove(d) ==
  /\ sig[d] = "remove"
  /\ path' = NoOne
  /\ sig' = [sig EXCEPT ![d] = "exit"]
  /\ UNCHANGED <<pc, conn, overlapped, twice, holds>>

\* Fault variant: the signal thread returns instead of ending the process.
SigExitReturns(d) ==
  /\ sig[d] = "exit"
  /\ sig' = [sig EXCEPT ![d] = "wait"]
  /\ UNCHANGED <<path, pc, conn, overlapped, twice, holds>>

SigExit(d) == sig[d] = "exit" /\ Ends(d)

\* kill -9, or a signal before its handler is installed: the file stays.
Kill(d) == Alive(d) /\ Ends(d)

-----------------------------------------------------------------------------
MainStep(d) ==
  \/ Check(d) \/ Unlink(d) \/ Bind(d) \/ Daemonize(d)
  \/ Handle(d)
  \/ StopDevices(d) \/ Remove(d) \/ MainExit(d)

SigStep(d) == SigStopDevices(d) \/ SigRemove(d) \/ SigExit(d)

Next ==
  \E d \in Daemons :
    \/ Start(d) \/ Kill(d) \/ Signal(d)
    \/ MainStep(d) \/ SigStep(d)
    \/ SilentCloses(d)
    \/ \E k \in Clients : Accept(d, k)

Spec == Init /\ [][Next]_vars

\* Both threads of a process run, and shutdown_all ends (Daemon). Nothing is
\* assumed of clients, of signals or of who starts a daemon.
Fairness == \A d \in Daemons : WF_vars(MainStep(d)) /\ WF_vars(SigStep(d))

FairSpec == Spec /\ Fairness

-----------------------------------------------------------------------------
(* Properties.                                                             *)

\* Types; and a signal thread acts only for a daemon that has the socket.
TypeOK ==
  /\ path \in Daemons \cup {NoOne}
  /\ pc \in [Daemons -> PCs]
  /\ sig \in [Daemons -> {"wait", "stop", "remove", "exit"}]
  /\ conn \in [Daemons -> Clients \cup {"none"}]
  /\ overlapped \in BOOLEAN
  /\ twice \subseteq Daemons
  /\ holds \in [Daemons -> BOOLEAN]
  /\ \A d \in Daemons : sig[d] # "wait" =>
       pc[d] \in {"accept", "read", "stop", "remove", "exit"}

\* A daemon that has devices attached, or that serves and may attach one.
Holding(d) ==
  holds[d] \/ (pc[d] \in {"bound", "accept", "read"} /\ sig[d] = "wait")

\* A device that a shutdown_all, now over, has left attached, or that a request
\* has attached since: it stays until the process has ended.
Missed(d) ==
  holds[d] /\ (pc[d] \in {"remove", "exit"} \/ sig[d] \in {"remove", "exit"})

\* bind, "Fails if another live daemon already owns it": no two daemons hold
\* devices, so a backing is not attached by both, and the one that does can be
\* reached through the socket, in whatever stage of its shutdown it is. The
\* exceptions are starts whose check and bind overlapped, a daemon that both a
\* signal and a request shut down, and a daemon with a device that shutdown_all
\* has missed, as one that a request attaches beside the signal thread.
OneDaemon ==
  ~overlapped /\ twice = {} /\ (\A d \in Daemons : ~Missed(d)) =>
    \A d \in Daemons : Holding(d) =>
      path = d /\ \A e \in Daemons : Holding(e) => e = d

\* A file left by a kill or a failed start does not keep a new daemon out:
\* unless starts have overlapped, a start is refused only while another daemon
\* has an open listener.
RefusedOnlyByLive ==
  [][\A d \in Daemons : pc[d] # "refused" /\ pc'[d] = "refused" /\ ~overlapped =>
       \E e \in Daemons \ {d} : Listening(e)]_vars

\* Whatever the control thread is blocked in (a client that says nothing), a
\* signal ends the daemon, and so does a shutdown once it is answered.
EndsWhenTold ==
  \A d \in Daemons :
    (sig[d] = "stop" \/ pc[d] = "stop") ~> pc[d] = "dead"

=============================================================================
