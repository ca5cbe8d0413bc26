----------------------------- MODULE FaultQueue -----------------------------
(***************************************************************************)
(* The device layer of the fault-injection device (ublkfault/src/main.rs): *)
(* the per-queue handler that serves, parks or thaws requests, and the     *)
(* thaw command of the control thread, which wakes the queues through an   *)
(* eventfd that each of them polls.                                        *)
(*                                                                         *)
(* A tag numbers a slot of its queue, as in the code: parked holds bare    *)
(* tags. What a request does to the disk is in FaultDisk; Sandwich joins   *)
(* the two and puts ublkera on top.                                        *)
(***************************************************************************)
EXTENDS Integers, Sequences, FiniteSets, SequencesExt

CONSTANTS
  Queues,      \* queue threads
  Tags         \* slots of a queue (its depth)

VARIABLES
  slot,        \* who holds each slot: "kernel", "server" (a fetched request)
               \* or "parked" (by the handler, not completed)
  parked,      \* Shared.parked
  thawResult,  \* Shared.thaw_result: "ok" (perform) or "eio" (fail)
  commanding,  \* the control thread has stored thaw_result, not written efd
  efd,         \* the eventfd is readable
  poll,        \* whether each queue's PollAdd is armed
  pc,          \* where each handler is: "wait", "woken" or "release"
  thaw,        \* the handler's local `thaw`
  tags,        \* the handler's local `tags`, not completed yet
  owed,        \* history: slots parked when a thaw was last commanded, and
               \* not released since
  wrong        \* history: completions of a slot that was not parked

ctlVars == <<thawResult, commanding, efd>>
vars    == <<slot, parked, ctlVars, poll, pc, thaw, tags, owed, wrong>>

Slots == Queues \X Tags

Init ==
  /\ slot = [s \in Slots |-> "kernel"]
  /\ parked = <<>>
  /\ thawResult = "ok"
  /\ commanding = FALSE
  /\ efd = FALSE
  /\ poll = [q \in Queues |-> TRUE]
  /\ pc = [q \in Queues |-> "wait"]
  /\ thaw = [q \in Queues |-> "ok"]
  /\ tags = [q \in Queues |-> <<>>]
  /\ owed = {}
  /\ wrong = {}

\* External: the driver delivers a request to a fetched slot.
Deliver(q, t) ==
  /\ slot[<<q, t>>] = "kernel"
  /\ slot' = [slot EXCEPT ![<<q, t>>] = "server"]
  /\ UNCHANGED <<parked, ctlVars, poll, pc, thaw, tags, owed, wrong>>

\* The handler performs the request on the model and completes it.
Serve(q, t) ==
  /\ pc[q] = "wait" /\ slot[<<q, t>>] = "server"
  /\ slot' = [slot EXCEPT ![<<q, t>>] = "kernel"]
  /\ UNCHANGED <<parked, ctlVars, poll, pc, thaw, tags, owed, wrong>>

\* Fault variant: the request is parked and then served as well.
ParkAndServe(q, t) ==
  /\ pc[q] = "wait" /\ slot[<<q, t>>] = "server"
  /\ slot' = [slot EXCEPT ![<<q, t>>] = "kernel"]
  /\ parked' = Append(parked, t)
  /\ UNCHANGED <<ctlVars, poll, pc, thaw, tags, owed, wrong>>

\* The hang fault: the tag is remembered and nothing is completed.
Park(q, t) ==
  /\ pc[q] = "wait" /\ slot[<<q, t>>] = "server"
  /\ slot' = [slot EXCEPT ![<<q, t>>] = "parked"]
  /\ parked' = Append(parked, t)
  /\ UNCHANGED <<ctlVars, poll, pc, thaw, tags, owed, wrong>>

\* handle_ctl, thaw: the result is stored for the queues.
ThawStore(r) ==
  /\ ~commanding
  /\ thawResult' = r
  /\ commanding' = TRUE
  /\ owed' = {s \in Slots : slot[s] = "parked"}
  /\ UNCHANGED <<slot, parked, efd, poll, pc, thaw, tags, wrong>>

\* handle_ctl, thaw: then the eventfd is written.
ThawWrite ==
  /\ commanding
  /\ commanding' = FALSE
  /\ efd' = TRUE
  /\ UNCHANGED <<slot, parked, thawResult, poll, pc, thaw, tags, owed, wrong>>

\* The poll of a queue fires; it is one-shot.
PollFires(q) ==
  /\ pc[q] = "wait" /\ poll[q] /\ efd
  /\ poll' = [poll EXCEPT ![q] = FALSE]
  /\ pc' = [pc EXCEPT ![q] = "woken"]
  /\ UNCHANGED <<slot, parked, ctlVars, thaw, tags, owed, wrong>>

\* The eventfd is read (non-blocking: one not readable stays so), the latest
\* thaw_result loaded, which need not be the one of the command that woke the
\* queue, and the parked tags taken. One step: whichever way a store, a write
\* of the eventfd or a park falls between the three, the outcome is that of an
\* order in which it falls before or after them.
Drain(q) ==
  /\ pc[q] = "woken"
  /\ efd' = FALSE
  /\ thaw' = [thaw EXCEPT ![q] = thawResult]
  /\ tags' = [tags EXCEPT ![q] = parked]
  /\ parked' = <<>>
  /\ pc' = [pc EXCEPT ![q] = "release"]
  /\ UNCHANGED <<slot, thawResult, commanding, poll, owed, wrong>>

\* Each tag is performed or failed, and completed on the handler's own queue.
\* The driver refuses the completion of a slot it does not wait for.
Release(q) ==
  LET s == <<q, Head(tags[q])>>
  IN  /\ pc[q] = "release" /\ tags[q] # <<>>
      /\ tags' = [tags EXCEPT ![q] = Tail(@)]
      /\ slot' = [slot EXCEPT ![s] = "kernel"]
      /\ wrong' = IF slot[s] = "parked" THEN wrong ELSE wrong \cup {s}
      /\ owed' = owed \ {s}
      /\ UNCHANGED <<parked, ctlVars, poll, pc, thaw>>

\* Fault variant: the poll is armed once and for all.
RearmNever(q) ==
  /\ pc[q] = "release" /\ tags[q] = <<>>
  /\ pc' = [pc EXCEPT ![q] = "wait"]
  /\ thaw' = [thaw EXCEPT ![q] = "ok"]
  /\ UNCHANGED <<slot, parked, ctlVars, poll, tags, owed, wrong>>

\* All are completed: PollAdd is one-shot, so it is submitted again.
Rearm(q) ==
  /\ pc[q] = "release" /\ tags[q] = <<>>
  /\ poll' = [poll EXCEPT ![q] = TRUE]
  /\ pc' = [pc EXCEPT ![q] = "wait"]
  /\ thaw' = [thaw EXCEPT ![q] = "ok"]
  /\ UNCHANGED <<slot, parked, ctlVars, tags, owed, wrong>>

Wake(q) == PollFires(q) \/ Drain(q) \/ Rearm(q)

Next ==
  \/ \E q \in Queues, t \in Tags : Deliver(q, t) \/ Serve(q, t) \/ Park(q, t)
  \/ \E r \in {"ok", "eio"} : ThawStore(r)
  \/ ThawWrite
  \/ \E q \in Queues : Wake(q) \/ Release(q)

Spec == Init /\ [][Next]_vars

-----------------------------------------------------------------------------
(* Properties.                                                             *)

\* Types; and the list of parked tags never outgrows the slots there are.
TypeOK ==
  /\ slot \in [Slots -> {"kernel", "server", "parked"}]
  /\ parked \in BoundedSeq(Tags, Cardinality(Slots))
  /\ thawResult \in {"ok", "eio"}
  /\ commanding \in BOOLEAN
  /\ efd \in BOOLEAN
  /\ poll \in [Queues -> BOOLEAN]
  /\ pc \in [Queues -> {"wait", "woken", "release"}]
  /\ thaw \in [Queues -> {"ok", "eio"}]
  /\ \A q \in Queues : tags[q] \in BoundedSeq(Tags, Cardinality(Slots))
  /\ owed \subseteq Slots
  /\ wrong \subseteq Slots

\* ublkfault/src/main.rs, "each tag's buffer has a single owner at any time":
\* a handler completes by a thaw only slots of its queue that are parked, each
\* of them once. False with several queues: the list of parked tags is shared,
\* and a tag does not say whose it is.
SingleOwner == wrong = {}

\* "release every parked (hung) request": what is parked when a thaw is
\* commanded is released, whatever is parked or thawed meanwhile.
Released(s) == s \in owed ~> s \notin owed

=============================================================================
