--------------------------- MODULE ChangeTracking ---------------------------
(***************************************************************************)
(* What changed-block tracking promises, without eras, atomics or scans:   *)
(* two sets of chunks, those changed since the consumer's cursor and those *)
(* changed since the checkpoint of its running backup. A request marks its *)
(* chunks in both in one step, between the moment its data can land and    *)
(* the moment it is acknowledged; a dump reports everything in the first   *)
(* set that the next dump will not report anyway.                          *)
(*                                                                         *)
(* EraMap implements this specification (EraMap!Tracks).                   *)
(***************************************************************************)
CONSTANTS Chunks, Tags

VARIABLES
  span,     \* chunks of each tag's unacknowledged data-changing request
  marked,   \* tags whose request has been marked and waits for its ack
  dirty,    \* chunks marked since the consumer's cursor
  fresh,    \* chunks marked since the checkpoint of the running backup
  stage,    \* "idle", "open" (checkpoint taken) or "copy" (dump received)
  report,   \* chunks of the dump not copied yet
  stale     \* chunks whose content may differ from the consumer's image

requests == <<span, marked>>
tracking == <<dirty, fresh>>
backup   == <<stage, report>>
vars     == <<requests, tracking, backup, stale>>

\* Chunks of requests that are not marked yet: they may still change, and the
\* consumer learns of them later.
Busy == UNION {span[t] : t \in Tags \ marked}

Init ==
  /\ span = [t \in Tags |-> {}]
  /\ marked = {}
  /\ dirty = Chunks
  /\ fresh = {}
  /\ stage = "idle"
  /\ report = {}
  /\ stale = Chunks

\* Marks are kept per running backup only while one is running.
Freshen(S) == IF stage = "idle" THEN {} ELSE fresh \cup S

Arrive(t) ==
  /\ span[t] = {}
  /\ \E S \in (SUBSET Chunks) \ {{}} : span' = [span EXCEPT ![t] = S]
  /\ UNCHANGED <<marked, tracking, backup, stale>>

Land(t) ==
  /\ t \notin marked
  /\ \E c \in span[t] : stale' = stale \cup {c}
  /\ UNCHANGED <<requests, tracking, backup>>

\* A chunk may be reported before its request has settled.
MarkEarly(t) ==
  /\ t \notin marked
  /\ \E c \in span[t] : /\ dirty' = dirty \cup {c}
                       /\ fresh' \in {fresh, Freshen({c})}
  /\ UNCHANGED <<requests, backup, stale>>

Mark(t) ==
  /\ t \notin marked
  /\ span[t] # {}
  /\ marked' = marked \cup {t}
  /\ dirty' = dirty \cup span[t]
  /\ fresh' = Freshen(span[t])
  /\ UNCHANGED <<span, backup, stale>>

Ack(t) ==
  /\ t \in marked
  /\ marked' = marked \ {t}
  /\ span' = [span EXCEPT ![t] = {}]
  /\ UNCHANGED <<tracking, backup, stale>>

OpenBackup ==
  /\ stage = "idle"
  /\ stage' = "open"
  /\ fresh' = {}
  /\ UNCHANGED <<requests, dirty, report, stale>>

\* The dump may miss a chunk only if the next one will have it: it is marked
\* since this backup's checkpoint, or its request is still unmarked.
Dump ==
  /\ stage = "open"
  /\ stage' = "copy"
  /\ report' \in {R \in SUBSET dirty : dirty \subseteq R \cup fresh \cup Busy}
  /\ UNCHANGED <<requests, tracking, stale>>

Copy ==
  /\ stage = "copy"
  /\ \E c \in report : report' = report \ {c} /\ stale' = stale \ {c}
  /\ UNCHANGED <<requests, tracking, stage>>

Finish ==
  /\ stage = "copy"
  /\ report = {}
  /\ stage' = "idle"
  /\ dirty' = fresh
  /\ fresh' = {}
  /\ UNCHANGED <<requests, report, stale>>

Abort ==
  /\ stage # "idle"
  /\ stage' = "idle"
  /\ fresh' = {}
  /\ report' = {}
  /\ UNCHANGED <<requests, dirty, stale>>

Next ==
  \/ \E t \in Tags : Arrive(t) \/ Land(t) \/ MarkEarly(t) \/ Mark(t) \/ Ack(t)
  \/ OpenBackup \/ Dump \/ Copy \/ Finish \/ Abort

Spec == Init /\ [][Next]_vars

=============================================================================
