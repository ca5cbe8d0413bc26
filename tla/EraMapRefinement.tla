-------------------------- MODULE EraMapRefinement --------------------------
(***************************************************************************)
(* The proof that EraMap implements ChangeTracking, for any number of      *)
(* chunks, tags, queues and eras.                                          *)
(*                                                                         *)
(* Beyond IInv it takes two facts about a running backup. The cursor is    *)
(* behind the era the backup has closed, so what is fresh is dirty. And    *)
(* the scan, which takes no snapshot, has left out only chunks that the    *)
(* next dump has: a chunk stamped behind it carries an era above the       *)
(* closed one, or that of a request which is still in mark_write's loop    *)
(* and will stamp it again.                                                *)
(***************************************************************************)
EXTENDS EraMapProofs

ClosedAhead == bpc # "idle" => cursor < closed

ScanSound ==
  bpc = "scan" =>
    /\ \A c \in todo : eras[c] > cursor
    /\ \A c \in Chunks : c < scan /\ eras[c] > cursor =>
         c \in todo \/ c \in Unsettled \/ eras[c] > closed

RInv == IInv /\ ClosedAhead /\ ScanSound

-----------------------------------------------------------------------------
(* The strengthened invariant.                                             *)

\* No backup is running at the start.
LEMMA InitRInv == Init => RInv
  BY InitInv DEF Init, RInv, ClosedAhead, ScanSound

\* A step that keeps the map, the consumer and the unsettled chunks keeps what
\* the scan has established.
LEMMA ScanFrame ==
  ASSUME ScanSound, ClosedAhead, UNCHANGED <<eras, consumerVars>>,
         Unsettled \subseteq Unsettled'
  PROVE  ScanSound' /\ ClosedAhead'
  BY DEF ScanSound, ClosedAhead, consumerVars

\* A tag that changes place outside "return" and "ack" stays as unsettled.
LEMMA UnsettledMoves ==
  ASSUME TypeOK, NEW t \in Tags, NEW p, req' = req, pc' = [pc EXCEPT ![t] = p],
         pc[t] # "idle", p \notin {"idle", "return", "ack"}
  PROVE  Unsettled \subseteq Unsettled'
  BY DEF TypeOK, Unsettled, Span

\* A tag that carries no data op, or is settled, may become idle.
LEMMA UnsettledEnds ==
  ASSUME TypeOK, NEW t \in Tags, CompleteTag(t),
         pc[t] \in {"return", "ack"} \/ req[t].op \notin DataOps
  PROVE  Unsettled \subseteq Unsettled'
  BY DEF TypeOK, Unsettled, Span, CompleteTag

\* Every step of the IO path keeps what the scan has established: a chunk that
\* stops being unsettled is stamped with the current era, above the closed one.
LEMMA ScanIO ==
  ASSUME RInv, NEW t \in Tags, Handler(t) \/ Backing(t)
  PROVE  ScanSound' /\ ClosedAhead'
  <1> USE DEF RInv, IInv
  <1>1. CASE HandleUblk(t)
    <2>1. Unsettled \subseteq Unsettled'
      BY <1>1, UnsettledMoves, UnsettledEnds DEF HandleUblk, PassOps
    <2> QED BY <1>1, <2>1, ScanFrame DEF HandleUblk, mapVars
  <1>2. CASE HandleBackend(t)
    <2>1. Unsettled \subseteq Unsettled'
      BY <1>2, UnsettledMoves, UnsettledEnds DEF HandleBackend
    <2> QED BY <1>2, <2>1, ScanFrame DEF HandleBackend, mapVars
  <1>3. CASE LoadEra(t)
    <2>1. Unsettled \subseteq Unsettled'
      BY <1>3, UnsettledMoves DEF LoadEra
    <2> QED BY <1>3, <2>1, ScanFrame DEF LoadEra, mapVars
  <1>4. CASE StampChunk(t)
    <2>1. next[t] \in Span(t) /\ pc[t] = "stamp"
      BY <1>4 DEF StampChunk, MarkProgress, Span, InHandler
    <2>2. Unsettled \subseteq Unsettled'
      <3>1. CASE UNCHANGED pc
        BY <1>4, <3>1 DEF StampChunk, Unsettled, Span
      <3>2. CASE pc' = [pc EXCEPT ![t] = "recheck"]
        BY <1>4, <2>1, <3>2, UnsettledMoves DEF StampChunk
      <3> QED BY <1>4, <3>1, <3>2 DEF StampChunk
    <2>3. next[t] \in Unsettled
      BY <2>1 DEF Unsettled, TypeOK
    <2>4. /\ \A c \in Chunks \ {next[t]} : eras'[c] = eras[c]
          /\ \A c \in Chunks : eras'[c] >= eras[c]
      BY <1>4, EraTypes, MaxFacts DEF StampChunk, TypeOK
    <2>5. \A c \in Chunks : eras[c] \in Int /\ eras'[c] \in Int
      BY <1>4, EraTypes, MaxFacts DEF StampChunk, TypeOK, MaxOf
    <2>6. cursor \in Int /\ closed \in Int /\ todo \subseteq Chunks
      BY EraTypes DEF TypeOK
    <2>7. UNCHANGED <<bpc, cursor, closed, scan, todo>>
      BY <1>4 DEF StampChunk, consumerVars
    <2>8. ClosedAhead'
      BY <2>7 DEF ClosedAhead
    <2>9. ASSUME bpc = "scan", NEW c \in todo PROVE eras'[c] > cursor
      BY <2>9, <2>4, <2>5, <2>6 DEF ScanSound
    <2>10. ASSUME bpc = "scan", NEW c \in Chunks, c < scan, eras'[c] > cursor
           PROVE  c \in todo \/ c \in Unsettled' \/ eras'[c] > closed
      <3>1. CASE c = next[t]
        BY <3>1, <2>2, <2>3
      <3>2. CASE c # next[t]
        BY <2>10, <3>2, <2>2, <2>4 DEF ScanSound
      <3> QED BY <3>1, <3>2
    <2> QED BY <2>7, <2>8, <2>9, <2>10 DEF ScanSound
  <1>5. CASE Recheck(t)
    <2>1. pc[t] = "recheck" /\ UNCHANGED <<eras, currentEra, req, consumerVars>>
      BY <1>5 DEF Recheck, mapVars
    <2>2. CASE currentEra # seen[t]
      <3>1. Unsettled \subseteq Unsettled'
        BY <1>5, <2>2, UnsettledMoves DEF Recheck
      <3> QED BY <2>1, <3>1, ScanFrame
    <2>3. CASE currentEra = seen[t]
      <3>1. \A c \in Span(t) : c \in Chunks => eras[c] >= currentEra
        BY <2>1, <2>3 DEF MarkProgress, Span
      <3>2. \A c \in Unsettled : c \in Unsettled' \/ c \in Span(t)
        BY <1>5 DEF Recheck, Unsettled, Span, TypeOK
      <3>3. bpc = "scan" => closed < currentEra
        BY DEF EraBounds
      <3>4. \A c \in Chunks : bpc = "scan" /\ c \in Span(t) => eras[c] > closed
        BY <3>1, <3>3, EraTypes
      <3> QED BY <2>1, <3>2, <3>4 DEF ScanSound, ClosedAhead, consumerVars
    <2> QED BY <2>2, <2>3
  <1>6. CASE MarkReturn(t)
    <2>1. Unsettled \subseteq Unsettled'
      BY <1>6 DEF MarkReturn, Unsettled, Span, TypeOK
    <2> QED BY <1>6, <2>1, ScanFrame DEF MarkReturn, mapVars
  <1>7. CASE Complete(t)
    <2>1. Unsettled \subseteq Unsettled'
      BY <1>7, UnsettledEnds DEF Complete
    <2> QED BY <1>7, <2>1, ScanFrame DEF Complete, mapVars
  <1>8. CASE BackendResult(t) \/ BackendAgain(t)
    <2>1. Unsettled \subseteq Unsettled'
      BY <1>8, UnsettledMoves DEF BackendResult, BackendAgain
    <2> QED BY <1>8, <2>1, ScanFrame DEF BackendResult, BackendAgain, mapVars
  <1>9. ASSUME NEW c \in Chunks, Land(t, c) PROVE ScanSound' /\ ClosedAhead'
    <2>1. Unsettled \subseteq Unsettled'
      BY <1>9 DEF Land, ioVars, Unsettled, Span
    <2> QED BY <1>9, <2>1, ScanFrame DEF Land, mapVars
  <1> QED
    BY <1>1, <1>2, <1>3, <1>4, <1>5, <1>6, <1>7, <1>8, <1>9 DEF Handler, Backing

\* A request that arrives unsettles chunks.
LEMMA ScanFetch ==
  ASSUME RInv, NEW t \in Tags, NEW r \in Requests, Fetch(t, r)
  PROVE  ScanSound' /\ ClosedAhead'
  <1>1. Unsettled \subseteq Unsettled'
    BY DEF RInv, IInv, TypeOK, Fetch, Unsettled, Span
  <1> QED BY <1>1, ScanFrame DEF RInv, Fetch, mapVars

\* The scan reports what is newer than the cursor and passes the rest.
LEMMA ScanConsumer ==
  ASSUME RInv, Checkpoint \/ BeginBackup \/ ConsumerStep \/ AbortBackup
  PROVE  ScanSound' /\ ClosedAhead'
  <1> USE DEF RInv, IInv
  <1>1. CASE Checkpoint
    <2>1. Unsettled \subseteq Unsettled'
      BY <1>1 DEF Checkpoint, ioVars, Unsettled, Span
    <2> QED BY <1>1, <2>1, ScanFrame DEF Checkpoint
  <1>2. CASE BeginBackup
    BY <1>2 DEF BeginBackup, ScanSound, ClosedAhead, EraBounds
  <1>3. CASE FullCopy
    BY <1>3 DEF FullCopy, ScanSound, ClosedAhead
  <1>4. CASE DumpStart
    <2>1. scan = 0 /\ todo = {}
      BY <1>4 DEF DumpStart, ConsumerShape
    <2>2. \A c \in Chunks : ~(c < 0)
      BY ChunksAssumption DEF Chunks
    <2> QED BY <1>4, <2>1, <2>2 DEF DumpStart, ScanSound, ClosedAhead
  <1>5. CASE ScanChunk
    <2>1. /\ bpc = "scan" /\ UNCHANGED <<eras, cursor, closed>>
          /\ todo' = IF eras[scan] <= cursor THEN todo ELSE todo \cup {scan}
          /\ bpc' = "scan" => scan' = scan + 1
          /\ bpc' \in {"scan", "copy"}
      BY <1>5 DEF ScanChunk, ScanWith, mapVars
    <2>2. Unsettled' = Unsettled
      BY <1>5 DEF ScanChunk, ScanWith, ioVars, Unsettled, Span
    <2>3. scan \in Chunks /\ eras[scan] \in Int /\ cursor \in Int
      BY EraTypes DEF TypeOK
    <2>4. \A c \in Chunks : c < scan + 1 => c < scan \/ c = scan
      BY <2>3 DEF Chunks
    <2>5. \A c \in todo' : eras[c] > cursor
      BY <2>1, <2>3 DEF ScanSound
    <2>6. \A c \in Chunks : c < scan + 1 /\ eras[c] > cursor =>
            c \in todo' \/ c \in Unsettled \/ eras[c] > closed
      BY <2>1, <2>3, <2>4 DEF ScanSound
    <2> QED BY <2>1, <2>2, <2>5, <2>6 DEF ScanSound, ClosedAhead
  <1>6. CASE FinishBackup \/ AbortBackup
    BY <1>6 DEF FinishBackup, AbortBackup, ScanSound, ClosedAhead
  <1>7. ASSUME NEW c \in Chunks, CopyChunk(c) PROVE ScanSound' /\ ClosedAhead'
    BY <1>7 DEF CopyChunk, ScanSound, ClosedAhead
  <1> QED BY <1>1, <1>2, <1>3, <1>4, <1>5, <1>6, <1>7 DEF ConsumerStep

\* What the refinement needs of the scan holds in every reachable state.
LEMMA RInvariance == Spec => []RInv
  <1>1. Init => RInv
    BY InitRInv
  <1>2. RInv /\ IInv' /\ [Next]_vars => RInv'
    <2> SUFFICES ASSUME RInv, IInv', [Next]_vars PROVE ScanSound' /\ ClosedAhead'
      BY DEF RInv
    <2>1. CASE UNCHANGED vars
      BY <2>1 DEF vars, mapVars, ioVars, consumerVars, history, RInv, ScanSound,
         ClosedAhead, Unsettled, Span
    <2> QED BY <2>1, ScanIO, ScanFetch, ScanConsumer DEF Next
  <1> QED BY <1>1, <1>2, Invariance, PTL DEF Spec

-----------------------------------------------------------------------------
(* What a step leaves alone, seen through the refinement mapping.          *)

\* The abstract requests depend on the tags' phases and descriptors only.
LEMMA SameRequests ==
  ASSUME UNCHANGED <<pc, req>>
  PROVE  UNCHANGED <<AbsSpan, AbsMarked>>
  BY DEF AbsSpan, AbsMarked, Span

\* The abstract sets depend on the era array and the consumer's eras only.
LEMMA SameTracking ==
  ASSUME UNCHANGED <<eras, bpc, cursor, closed>>
  PROVE  UNCHANGED <<AbsDirty, AbsFresh>>
  BY DEF AbsDirty, AbsFresh, Above

\* The abstract backup depends on the consumer's place and its list only.
LEMMA SameBackup ==
  ASSUME UNCHANGED <<bpc, todo>>
  PROVE  UNCHANGED <<AbsStage, AbsReport>>
  BY DEF AbsStage, AbsReport

\* The abstract view of the chunks in flight.
LEMMA BusyIsUnsettled ==
  ASSUME TypeOK
  PROVE  Unsettled = Abs!Busy
  <1>1. \A t \in Tags : Span(t) \subseteq Chunks
    BY RequestFacts DEF TypeOK, Span
  <1> QED BY <1>1 DEF Unsettled, Abs!Busy, AbsSpan, AbsMarked

\* A tag that keeps its request and its side of the mark stutters.
LEMMA QuietMove ==
  ASSUME TypeOK, NEW t \in Tags, NEW p, req' = req, pc' = [pc EXCEPT ![t] = p],
         pc[t] # "idle", p # "idle",
         pc[t] \in {"return", "ack"} <=> p \in {"return", "ack"}
  PROVE  UNCHANGED <<AbsSpan, AbsMarked>>
  BY DEF TypeOK, AbsSpan, AbsMarked, Span

\* Completing a tag that carries no data op stutters.
LEMMA QuietComplete ==
  ASSUME TypeOK, NEW t \in Tags, CompleteTag(t), pc[t] \notin {"return", "ack"},
         req[t].op \notin DataOps
  PROVE  UNCHANGED <<AbsSpan, AbsMarked>>
  BY DEF TypeOK, CompleteTag, NoRequest, DataOps, AbsSpan, AbsMarked, Span

-----------------------------------------------------------------------------
(* Every step of the era map is a step of ChangeTracking or a stutter.     *)

\* A data op that arrives is a request of the abstract tag; any other op is
\* none of its business.
LEMMA FetchRefines ==
  ASSUME RInv, NEW t \in Tags, NEW r \in Requests, Fetch(t, r)
  PROVE  [Abs!Next]_Abs!vars
  <1> USE DEF RInv, IInv
  <1>1. /\ UNCHANGED <<AbsDirty, AbsFresh, AbsStage, AbsReport, stale>>
    BY SameTracking, SameBackup DEF Fetch, mapVars, consumerVars
  <1>2. AbsMarked' = AbsMarked /\ AbsSpan[t] = {}
    BY DEF Fetch, AbsMarked, AbsSpan, Span, TypeOK
  <1>3. CASE r.op \in DataOps
    <2>1. AbsSpan' = [AbsSpan EXCEPT ![t] = r.first .. r.last]
      BY <1>3 DEF Fetch, AbsSpan, Span, TypeOK
    <2>2. r.first .. r.last \in (SUBSET Chunks) \ {{}}
      BY RequestFacts, ChunksAssumption DEF Chunks
    <2>3. Abs!Arrive(t)
      BY <1>1, <1>2, <2>1, <2>2 DEF Abs!Arrive, Abs!tracking, Abs!backup
    <2> QED BY <2>3 DEF Abs!Next
  <1>4. CASE r.op \notin DataOps
    <2>1. AbsSpan' = AbsSpan
      BY <1>4 DEF Fetch, AbsSpan, Span, TypeOK
    <2> QED BY <1>1, <1>2, <2>1
        DEF Abs!vars, Abs!requests, Abs!tracking, Abs!backup
  <1> QED BY <1>3, <1>4

\* The steps of the IO path between the arrival of a request and its stamps,
\* and its way from mark_write to the completion, are stutters.
LEMMA QuietIO ==
  ASSUME RInv, NEW t \in Tags,
         \/ HandleUblk(t) \/ HandleBackend(t) \/ LoadEra(t) \/ MarkReturn(t)
         \/ BackendResult(t) \/ BackendAgain(t)
         \/ Recheck(t) /\ currentEra # seen[t]
  PROVE  UNCHANGED Abs!vars
  <1> USE DEF RInv, IInv
  <1>1. UNCHANGED <<eras, consumerVars, stale>>
    BY DEF HandleUblk, HandleBackend, LoadEra, MarkReturn, BackendResult,
       BackendAgain, Recheck, mapVars, history
  <1>2. UNCHANGED <<AbsDirty, AbsFresh, AbsStage, AbsReport>>
    BY <1>1, SameTracking, SameBackup DEF consumerVars
  <1>3. UNCHANGED <<AbsSpan, AbsMarked>>
    <2>1. CASE HandleUblk(t)
      BY <2>1, QuietMove, QuietComplete DEF HandleUblk, PassOps
    <2>2. CASE HandleBackend(t)
      BY <2>2, QuietMove, QuietComplete DEF HandleBackend
    <2>3. CASE LoadEra(t) \/ BackendResult(t) \/ BackendAgain(t)
      BY <2>3, QuietMove DEF LoadEra, BackendResult, BackendAgain
    <2>4. CASE MarkReturn(t)
      BY <2>4, QuietMove DEF MarkReturn
    <2>5. CASE Recheck(t) /\ currentEra # seen[t]
      BY <2>5, QuietMove DEF Recheck
    <2> QED BY <2>1, <2>2, <2>3, <2>4, <2>5
  <1> QED BY <1>1, <1>2, <1>3
      DEF Abs!vars, Abs!requests, Abs!tracking, Abs!backup

\* The medium changes under an unmarked request.
LEMMA LandRefines ==
  ASSUME RInv, NEW t \in Tags, NEW c \in Chunks, Land(t, c)
  PROVE  Abs!Next
  <1> USE DEF RInv, IInv
  <1>1. UNCHANGED <<AbsSpan, AbsMarked, AbsDirty, AbsFresh, AbsStage, AbsReport>>
    BY SameRequests, SameTracking, SameBackup
    DEF Land, mapVars, ioVars, consumerVars
  <1>2. t \notin AbsMarked /\ c \in AbsSpan[t]
    BY DEF Land, AbsMarked, AbsSpan
  <1>3. Abs!Land(t)
    BY <1>1, <1>2 DEF Land, Abs!Land, Abs!requests, Abs!tracking, Abs!backup
  <1> QED BY <1>3 DEF Abs!Next

\* A stamp of an era above the cursor marks its chunk early; one with an era
\* that a checkpoint has overtaken may change nothing.
LEMMA StampRefines ==
  ASSUME RInv, NEW t \in Tags, StampChunk(t)
  PROVE  [Abs!Next]_Abs!vars
  <1> USE DEF RInv, IInv
  <1> DEFINE d == next[t]
  <1>1. /\ pc[t] = "stamp" /\ d \in Chunks /\ d \in Span(t)
        /\ UNCHANGED <<req, consumerVars, stale>>
    BY EraTypes DEF StampChunk, MarkProgress, Span, InHandler, history
  <1>2. UNCHANGED <<AbsSpan, AbsMarked>>
    <2>1. CASE UNCHANGED pc
      BY <1>1, <2>1, SameRequests
    <2>2. CASE pc' = [pc EXCEPT ![t] = "recheck"]
      BY <1>1, <2>2, QuietMove
    <2> QED BY <2>1, <2>2 DEF StampChunk
  <1>3. UNCHANGED <<AbsStage, AbsReport>>
    BY <1>1, SameBackup DEF consumerVars
  <1>4. t \notin AbsMarked /\ d \in AbsSpan[t]
    BY <1>1 DEF AbsMarked, AbsSpan
  <1>5. ASSUME NEW e \in Int
        PROVE  Above(e)' = IF seen[t] > e THEN Above(e) \cup {d} ELSE Above(e)
    <2>1. /\ \A c \in Chunks \ {d} : eras'[c] = eras[c]
          /\ eras'[d] = MaxOf(eras[d], seen[t])
      BY <1>1 DEF StampChunk, TypeOK
    <2>2. eras[d] \in Int /\ seen[t] \in Int
      BY <1>1, EraTypes
    <2>3. eras'[d] > e <=> eras[d] > e \/ seen[t] > e
      BY <2>1, <2>2 DEF MaxOf
    <2> QED BY <1>1, <2>1, <2>3 DEF Above
  <1>6. cursor \in Int /\ closed \in Int /\ seen[t] \in Int
    BY EraTypes
  <1>7. /\ AbsDirty' = IF seen[t] > cursor THEN AbsDirty \cup {d} ELSE AbsDirty
        /\ bpc # "idle" => AbsFresh' = IF seen[t] > closed THEN AbsFresh \cup {d}
                                                           ELSE AbsFresh
        /\ bpc = "idle" => AbsFresh' = {} /\ AbsFresh = {}
    BY <1>1, <1>5, <1>6 DEF AbsDirty, AbsFresh, Above, consumerVars
  <1>8. CASE seen[t] > cursor
    <2>1. AbsFresh' \in {AbsFresh, Abs!Freshen({d})}
      BY <1>7 DEF Abs!Freshen, AbsStage
    <2>2. Abs!MarkEarly(t)
      BY <1>1, <1>2, <1>3, <1>4, <1>7, <1>8, <2>1
      DEF Abs!MarkEarly, Abs!requests, Abs!backup
    <2> QED BY <2>2 DEF Abs!Next
  <1>9. CASE ~(seen[t] > cursor)
    <2>1. bpc # "idle" => ~(seen[t] > closed)
      BY <1>6, <1>9 DEF ClosedAhead
    <2> QED BY <1>1, <1>2, <1>3, <1>7, <1>9, <2>1
        DEF Abs!vars, Abs!requests, Abs!tracking, Abs!backup
  <1> QED BY <1>8, <1>9

\* Leaving the retry loop marks the request as a whole: its chunks carry the
\* current era, above the cursor and above the closed era.
LEMMA RecheckRefines ==
  ASSUME RInv, NEW t \in Tags, Recheck(t), currentEra = seen[t]
  PROVE  Abs!Next
  <1> USE DEF RInv, IInv
  <1>1. /\ pc[t] = "recheck" /\ pc' = [pc EXCEPT ![t] = "return"]
        /\ UNCHANGED <<eras, req, consumerVars, stale>>
    BY DEF Recheck, mapVars, history
  <1>2. UNCHANGED <<AbsDirty, AbsFresh, AbsStage, AbsReport>>
    BY <1>1, SameTracking, SameBackup DEF consumerVars
  <1>3. /\ AbsSpan' = AbsSpan /\ t \notin AbsMarked
        /\ AbsMarked' = AbsMarked \cup {t}
    BY <1>1 DEF AbsSpan, AbsMarked, Span, TypeOK
  <1>4. AbsSpan[t] = req[t].first .. req[t].last
    BY <1>1 DEF AbsSpan, Span, MarkProgress, InHandler
  <1>5. AbsSpan[t] \subseteq Chunks /\ AbsSpan[t] # {}
    BY <1>4, RequestFacts DEF TypeOK, Chunks
  <1>6. \A c \in AbsSpan[t] : eras[c] >= currentEra
    BY <1>1, <1>4 DEF MarkProgress
  <1>7. AbsSpan[t] \subseteq AbsDirty
    BY <1>5, <1>6, EraTypes DEF EraBounds, AbsDirty, Above
  <1>8. bpc # "idle" => AbsSpan[t] \subseteq AbsFresh
    BY <1>5, <1>6, EraTypes DEF EraBounds, AbsFresh, Above
  <1>9. AbsFresh' = Abs!Freshen(AbsSpan[t])
    BY <1>2, <1>8 DEF Abs!Freshen, AbsStage, AbsFresh
  <1>10. Abs!Mark(t)
    BY <1>1, <1>2, <1>3, <1>5, <1>7, <1>9 DEF Abs!Mark, Abs!backup
  <1> QED BY <1>10 DEF Abs!Next

\* Only a marked request is acknowledged.
LEMMA CompleteRefines ==
  ASSUME RInv, NEW t \in Tags, Complete(t)
  PROVE  Abs!Next
  <1> USE DEF RInv, IInv
  <1>1. UNCHANGED <<AbsDirty, AbsFresh, AbsStage, AbsReport, stale>>
    BY SameTracking, SameBackup DEF Complete, mapVars, consumerVars, history
  <1>2. t \in AbsMarked /\ AbsMarked' = AbsMarked \ {t}
    BY DEF Complete, CompleteTag, AbsMarked, TypeOK
  <1>3. AbsSpan' = [AbsSpan EXCEPT ![t] = {}]
    BY DEF Complete, CompleteTag, AbsSpan, Span, TypeOK
  <1>4. Abs!Ack(t)
    BY <1>1, <1>2, <1>3 DEF Abs!Ack, Abs!tracking, Abs!backup
  <1> QED BY <1>4 DEF Abs!Next

\* A checkpoint of another client and the start of the scan change nothing
\* that the consumer can tell.
LEMMA QuietConsumer ==
  ASSUME RInv, Checkpoint \/ DumpStart
  PROVE  UNCHANGED Abs!vars
  <1>1. UNCHANGED <<eras, pc, req, cursor, closed, todo, stale>>
    BY DEF Checkpoint, DumpStart, mapVars, ioVars, consumerVars, history
  <1>2. \/ bpc' = bpc
        \/ bpc = "closed" /\ bpc' = "scan"
    BY DEF Checkpoint, DumpStart, consumerVars
  <1>3. UNCHANGED <<AbsDirty, AbsFresh, AbsStage, AbsReport>>
    BY <1>1, <1>2 DEF AbsDirty, AbsFresh, Above, AbsStage, AbsReport
  <1> QED BY <1>1, <1>3, SameRequests
      DEF Abs!vars, Abs!requests, Abs!tracking, Abs!backup

\* The consumer's checkpoint opens a backup with nothing fresh: no chunk is
\* stamped above the era it closes.
LEMMA BeginRefines ==
  ASSUME RInv, BeginBackup
  PROVE  Abs!Next
  <1> USE DEF RInv, IInv
  <1>1. /\ UNCHANGED <<eras, pc, req, cursor, todo, stale>>
        /\ bpc = "idle" /\ bpc' = "closed" /\ closed' = currentEra
    BY DEF BeginBackup, ioVars
  <1>2. UNCHANGED <<AbsSpan, AbsMarked, AbsDirty, AbsReport>>
    BY <1>1, SameRequests DEF AbsDirty, Above, AbsReport
  <1>3. \A c \in Chunks : ~(eras[c] > currentEra)
    BY EraTypes DEF EraBounds
  <1>4. AbsFresh' = {}
    BY <1>1, <1>3 DEF AbsFresh, Above
  <1>5. AbsStage = "idle" /\ AbsStage' = "open"
    BY <1>1 DEF AbsStage
  <1>6. Abs!OpenBackup
    BY <1>1, <1>2, <1>4, <1>5 DEF Abs!OpenBackup, Abs!requests
  <1> QED BY <1>6 DEF Abs!Next

\* Without a cursor every chunk is dirty, and all of them are reported.
LEMMA FullCopyRefines ==
  ASSUME RInv, FullCopy
  PROVE  Abs!Next
  <1> USE DEF RInv, IInv
  <1>1. /\ UNCHANGED <<eras, pc, req, cursor, closed, stale>>
        /\ bpc = "closed" /\ bpc' = "copy" /\ todo' = Chunks /\ cursor = NoCursor
    BY DEF FullCopy, mapVars, ioVars, history
  <1>2. UNCHANGED <<AbsSpan, AbsMarked, AbsDirty, AbsFresh>>
    BY <1>1, SameRequests DEF AbsDirty, AbsFresh, Above
  <1>3. AbsStage = "open" /\ AbsStage' = "copy" /\ AbsReport' = Chunks
    BY <1>1 DEF AbsStage, AbsReport
  <1>4. AbsDirty = Chunks
    BY <1>1, MaxEraAssumption DEF AbsDirty, Above, NoCursor, TypeOK
  <1>5. Abs!Dump
    BY <1>1, <1>2, <1>3, <1>4 DEF Abs!Dump, Abs!requests, Abs!tracking
  <1> QED BY <1>5 DEF Abs!Next

\* The scan is a dump taken at its last load, although the map has changed
\* behind it since the first.
LEMMA ScanRefines ==
  ASSUME RInv, ScanChunk
  PROVE  [Abs!Next]_Abs!vars
  <1> USE DEF RInv, IInv
  <1>1. /\ UNCHANGED <<eras, pc, req, cursor, closed, stale>> /\ bpc = "scan"
        /\ todo' = IF eras[scan] <= cursor THEN todo ELSE todo \cup {scan}
        /\ \/ bpc' = "scan"
           \/ bpc' = "copy" /\ scan = NrChunks - 1
    BY DEF ScanChunk, ScanWith, mapVars, ioVars, history
  <1>2. UNCHANGED <<AbsSpan, AbsMarked, AbsDirty, AbsFresh>>
    BY <1>1, SameRequests DEF AbsDirty, AbsFresh, Above
  <1>3. CASE bpc' = "scan"
    BY <1>1, <1>2, <1>3
    DEF Abs!vars, Abs!requests, Abs!tracking, Abs!backup, AbsStage, AbsReport
  <1>4. CASE bpc' = "copy" /\ scan = NrChunks - 1
    <2>1. AbsStage = "open" /\ AbsStage' = "copy" /\ AbsReport' = todo'
      BY <1>1, <1>4 DEF AbsStage, AbsReport
    <2>2. scan \in Chunks /\ eras[scan] \in Int /\ cursor \in Int
      BY EraTypes DEF TypeOK
    <2>3. \A c \in Chunks : c < scan \/ c = scan
      BY <1>4, ChunksAssumption DEF Chunks
    <2>4. todo' \subseteq AbsDirty
      BY <1>1, <2>2 DEF ScanSound, AbsDirty, Above, TypeOK
    <2>5. AbsDirty \subseteq todo' \cup AbsFresh \cup Unsettled
      <3> SUFFICES ASSUME NEW c \in Chunks, eras[c] > cursor
                   PROVE  c \in todo' \/ c \in AbsFresh \/ c \in Unsettled
        BY DEF AbsDirty, Above
      <3>1. CASE c = scan
        BY <1>1, <2>2, <3>1
      <3>2. CASE c < scan
        BY <1>1, <3>2 DEF ScanSound, AbsFresh, Above
      <3> QED BY <2>3, <3>1, <3>2
    <2>6. Abs!Dump
      BY <1>1, <1>2, <2>1, <2>4, <2>5, BusyIsUnsettled
      DEF Abs!Dump, Abs!requests, Abs!tracking
    <2> QED BY <2>6 DEF Abs!Next
  <1> QED BY <1>1, <1>3, <1>4

\* The consumer copies a reported chunk.
LEMMA CopyRefines ==
  ASSUME RInv, NEW c \in Chunks, CopyChunk(c)
  PROVE  Abs!Next
  <1>1. UNCHANGED <<AbsSpan, AbsMarked, AbsDirty, AbsFresh, AbsStage>>
    BY SameRequests, SameTracking DEF CopyChunk, mapVars, ioVars, AbsStage
  <1>2. /\ AbsStage = "copy" /\ c \in AbsReport
        /\ AbsReport' = AbsReport \ {c} /\ stale' = stale \ {c}
    BY DEF CopyChunk, AbsStage, AbsReport
  <1>3. Abs!Copy
    BY <1>1, <1>2 DEF Abs!Copy, Abs!requests, Abs!tracking
  <1> QED BY <1>3 DEF Abs!Next

\* With the closed era as cursor, dirty is what was fresh.
LEMMA FinishRefines ==
  ASSUME RInv, FinishBackup
  PROVE  Abs!Next
  <1>1. /\ UNCHANGED <<eras, pc, req, stale>> /\ cursor' = closed
        /\ bpc = "copy" /\ bpc' = "idle" /\ todo = {} /\ todo' = todo
    BY DEF FinishBackup, mapVars, ioVars
  <1>2. UNCHANGED <<AbsSpan, AbsMarked>>
    BY <1>1, SameRequests
  <1>3. AbsDirty' = AbsFresh /\ AbsFresh' = {}
    BY <1>1 DEF AbsDirty, AbsFresh, Above
  <1>4. /\ AbsStage = "copy" /\ AbsStage' = "idle"
        /\ AbsReport = {} /\ AbsReport' = {}
    BY <1>1 DEF AbsStage, AbsReport
  <1>5. Abs!Finish
    BY <1>1, <1>2, <1>3, <1>4 DEF Abs!Finish, Abs!requests
  <1> QED BY <1>5 DEF Abs!Next

\* An abandoned backup leaves what is dirty as it was.
LEMMA AbortRefines ==
  ASSUME RInv, AbortBackup
  PROVE  Abs!Next
  <1>1. /\ UNCHANGED <<eras, pc, req, cursor, stale>>
        /\ bpc \in {"closed", "copy"} /\ bpc' = "idle"
    BY DEF AbortBackup, mapVars, ioVars
  <1>2. UNCHANGED <<AbsSpan, AbsMarked, AbsDirty>>
    BY <1>1, SameRequests DEF AbsDirty, Above
  <1>3. /\ AbsFresh' = {} /\ AbsReport' = {}
        /\ AbsStage # "idle" /\ AbsStage' = "idle"
    BY <1>1 DEF AbsFresh, AbsReport, AbsStage
  <1>4. Abs!Abort
    BY <1>1, <1>2, <1>3 DEF Abs!Abort, Abs!requests
  <1> QED BY <1>4 DEF Abs!Next

-----------------------------------------------------------------------------
\* The initial states correspond: everything is dirty and stale.
LEMMA InitRefines == Init => Abs!Init
  <1> SUFFICES ASSUME Init PROVE Abs!Init
    OBVIOUS
  <1>1. AbsSpan = [t \in Tags |-> {}] /\ AbsMarked = {}
    BY DEF Init, AbsSpan, AbsMarked, Span
  <1>2. AbsDirty = Chunks /\ AbsFresh = {} /\ AbsStage = "idle" /\ AbsReport = {}
    BY DEF Init, AbsDirty, Above, NoCursor, AbsFresh, AbsStage, AbsReport
  <1> QED BY <1>1, <1>2 DEF Init, Abs!Init

\* Every step of the data plane is one step of change tracking, or none.
LEMMA NextRefines == RInv /\ [Next]_vars => [Abs!Next]_Abs!vars
  <1> SUFFICES ASSUME RInv, [Next]_vars PROVE [Abs!Next]_Abs!vars
    OBVIOUS
  <1>1. ASSUME NEW t \in Tags, Handler(t) PROVE [Abs!Next]_Abs!vars
    BY <1>1, QuietIO, StampRefines, RecheckRefines, CompleteRefines DEF Handler
  <1>2. ASSUME NEW t \in Tags, Backing(t) PROVE [Abs!Next]_Abs!vars
    BY <1>2, QuietIO, LandRefines DEF Backing
  <1>3. CASE ConsumerStep
    BY <1>3, FullCopyRefines, QuietConsumer, ScanRefines, FinishRefines,
       CopyRefines DEF ConsumerStep
  <1>4. CASE UNCHANGED vars
    <2>1. UNCHANGED <<eras, pc, req, bpc, cursor, closed, todo, stale>>
      BY <1>4 DEF vars, mapVars, ioVars, consumerVars, history
    <2> QED BY <2>1, SameRequests, SameTracking, SameBackup
        DEF Abs!vars, Abs!requests, Abs!tracking, Abs!backup
  <1> QED BY <1>1, <1>2, <1>3, <1>4, FetchRefines, QuietConsumer, BeginRefines,
      AbortRefines DEF Next

\* The era map implements change tracking, for any device, any number of
\* queues and tags and any history of checkpoints and backups: the retry of
\* mark_write makes a request's stamps one atomic mark, and the scan of
\* ranges_since, which takes no snapshot, is one atomic dump.
THEOREM Refinement == Spec => Tracks
  BY InitRefines, NextRefines, RInvariance, PTL DEF Spec, Tracks, Abs!Spec

=============================================================================
