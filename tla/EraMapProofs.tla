---------------------------- MODULE EraMapProofs ----------------------------
(***************************************************************************)
(* Proofs about EraMap, for any number of chunks, tags, queues and eras:   *)
(* the type invariant, the zero-false-negatives contract, the exactness of *)
(* a frozen backup and the precision of the diff.                          *)
(*                                                                         *)
(* None of the four is inductive alone. IInv adds what each step of        *)
(* mark_write knows: nothing is ahead of current_era (EraBounds), and the  *)
(* chunks a thread has passed carry at least the era it loaded             *)
(* (MarkProgress). The retry makes these enough: a thread leaves the loop  *)
(* only while the era it stamped is the current one, and every cursor and  *)
(* every closed era is below the current one.                              *)
(***************************************************************************)
EXTENDS EraMap, TLAPS

\* Nothing recorded is ahead of current_era; eras already closed are behind.
EraBounds ==
  /\ \A c \in Chunks : eras[c] <= currentEra
  /\ \A t \in Tags : seen[t] <= currentEra
  /\ cursor < currentEra
  /\ bpc # "idle" => closed < currentEra

\* Only data ops reach mark_write, and the chunks it has passed are stamped.
MarkProgress ==
  \A t \in Tags :
    /\ pc[t] \in InHandler => req[t].op \in DataOps
    /\ pc[t] = "stamp" =>
         /\ next[t] \in req[t].first .. req[t].last
         /\ \A c \in req[t].first .. next[t] - 1 : eras[c] >= seen[t]
    /\ pc[t] = "recheck" =>
         \A c \in req[t].first .. req[t].last : eras[c] >= seen[t]

\* The consumer's locals between its steps.
ConsumerShape ==
  /\ bpc # "scan" => scan = 0
  /\ bpc \in {"idle", "closed"} => todo = {}

\* Chunks that carry an era above a closed one were touched after it.
TouchedAbove ==
  /\ \A t \in Tags : Span(t) \subseteq touched
  /\ bpc # "idle" => /\ \A t \in Tags : Span(t) \subseteq touchedNow
                     /\ \A c \in Chunks : eras[c] > closed => c \in touchedNow

IInv ==
  /\ TypeOK
  /\ EraBounds
  /\ MarkProgress
  /\ ConsumerShape
  /\ TouchedAbove
  /\ NoLostChange
  /\ CaughtNowOrNext
  /\ OnlyTouchedReported

-----------------------------------------------------------------------------
\* What a typed request provides.
LEMMA RequestFacts ==
  ASSUME NEW r \in Requests
  PROVE  /\ r.first \in Chunks /\ r.last \in Chunks
         /\ r.first <= r.last
         /\ r.op \in AllOps
         /\ r.first .. r.last \subseteq Chunks
  BY ChunksAssumption, OpsAssumption DEF Requests, Chunks, AllOps

\* Intervals between chunks stay inside the era array.
LEMMA IntervalFacts ==
  ASSUME NEW a \in Chunks, NEW b \in Chunks
  PROVE  a .. b \subseteq Chunks /\ a .. b - 1 \subseteq Chunks
  BY ChunksAssumption DEF Chunks

\* fetch_max keeps the newer of the two eras.
LEMMA MaxFacts ==
  ASSUME NEW a \in Int, NEW b \in Int
  PROVE  /\ MaxOf(a, b) >= a /\ MaxOf(a, b) >= b
         /\ \A m \in Int : a <= m /\ b <= m => MaxOf(a, b) <= m
  BY DEF MaxOf

\* The numeric types, apart from the rest of the type invariant.
LEMMA EraTypes ==
  ASSUME TypeOK
  PROVE  /\ Chunks \subseteq Int
         /\ currentEra \in Int /\ cursor \in Int /\ closed \in Int
         /\ \A c \in Chunks : eras[c] \in Int
         /\ \A t \in Tags : seen[t] \in Int /\ next[t] \in Chunks
  BY ChunksAssumption, MaxEraAssumption DEF TypeOK, Chunks, NoCursor

\* A re-armed tag carries a well-typed descriptor.
LEMMA NoRequestType == NoRequest \in Requests
  BY ChunksAssumption DEF NoRequest, Requests, Chunks, DataOps

\* Every initial state satisfies the inductive invariant.
LEMMA InitInv == Init => IInv
  <1> SUFFICES ASSUME Init PROVE IInv
    OBVIOUS
  <1>1. TypeOK
    BY NoRequestType, ChunksAssumption, MaxEraAssumption
    DEF Init, TypeOK, Chunks, PCs, NoCursor
  <1>2. EraBounds /\ MarkProgress /\ ConsumerShape
    BY ChunksAssumption DEF Init, EraBounds, MarkProgress, ConsumerShape,
       InHandler, Chunks, NoCursor
  <1>3. TouchedAbove
    BY DEF Init, TouchedAbove, Span
  <1>4. NoLostChange /\ CaughtNowOrNext /\ OnlyTouchedReported
    BY DEF Init, NoLostChange, CaughtNowOrNext, OnlyTouchedReported, NoCursor,
       Chunks
  <1> QED BY <1>1, <1>2, <1>3, <1>4 DEF IInv

\* Every step keeps the type invariant.
LEMMA TypeStep == IInv /\ [Next]_vars => TypeOK'
  <1> SUFFICES ASSUME IInv, [Next]_vars PROVE TypeOK'
    OBVIOUS
  <1> USE ChunksAssumption, MaxEraAssumption, NoRequestType
  <1> USE DEF IInv, TypeOK, PCs, NoCursor, Chunks
  <1>1. ASSUME NEW t \in Tags, NEW r \in Requests, Fetch(t, r) PROVE TypeOK'
    BY <1>1, RequestFacts DEF Fetch, mapVars, consumerVars
  <1>2. ASSUME NEW t \in Tags, HandleUblk(t) PROVE TypeOK'
    BY <1>2 DEF HandleUblk, CompleteTag, mapVars, consumerVars, history
  <1>3. ASSUME NEW t \in Tags, HandleBackend(t) PROVE TypeOK'
    BY <1>3 DEF HandleBackend, CompleteTag, mapVars, consumerVars, history
  <1>4. ASSUME NEW t \in Tags, LoadEra(t) PROVE TypeOK'
    <2>1. req[t].first \in Chunks
      BY RequestFacts
    <2>2. currentEra \in 0 .. MaxEra
      OBVIOUS
    <2>3. seen' \in [Tags -> 0 .. MaxEra] /\ next' \in [Tags -> Chunks]
      BY <1>4, <2>1, <2>2 DEF LoadEra
    <2> QED BY <1>4, <2>3 DEF LoadEra, mapVars, consumerVars, history
  <1>5. ASSUME NEW t \in Tags, StampChunk(t) PROVE TypeOK'
    <2>1. next[t] \in Chunks /\ req[t].last \in Chunks
      BY RequestFacts
    <2>2. eras' \in [Chunks -> 0 .. MaxEra]
      BY <1>5, <2>1 DEF StampChunk, MaxOf
    <2>3. 0 \in Chunks /\ (next[t] < req[t].last => next[t] + 1 \in Chunks)
      BY <2>1
    <2>4. next' \in [Tags -> Chunks]
      BY <1>5, <2>3 DEF StampChunk
    <2>5. pc' \in [Tags -> PCs]
      BY <1>5 DEF StampChunk
    <2> QED BY <1>5, <2>2, <2>4, <2>5 DEF StampChunk, consumerVars, history
  <1>6. ASSUME NEW t \in Tags, Recheck(t) PROVE TypeOK'
    <2>1. seen' \in [Tags -> 0 .. MaxEra]
      BY <1>6 DEF Recheck
    <2>2. pc' \in [Tags -> PCs]
      BY <1>6 DEF Recheck
    <2> QED BY <1>6, <2>1, <2>2 DEF Recheck, mapVars, consumerVars, history
  <1>7. ASSUME NEW t \in Tags, MarkReturn(t) PROVE TypeOK'
    BY <1>7 DEF MarkReturn, mapVars, consumerVars, history
  <1>8. ASSUME NEW t \in Tags, Complete(t) PROVE TypeOK'
    BY <1>8 DEF Complete, CompleteTag, mapVars, consumerVars, history
  <1>9. ASSUME NEW t \in Tags, Backing(t) PROVE TypeOK'
    BY <1>9 DEF Backing, BackendResult, BackendAgain, Land, mapVars, ioVars,
       consumerVars, history
  <1>10. ASSUME Checkpoint PROVE TypeOK'
    BY <1>10 DEF Checkpoint, ioVars, consumerVars, history
  <1>11. ASSUME BeginBackup PROVE TypeOK'
    BY <1>11 DEF BeginBackup, Unacked, ioVars
  <1>12. ASSUME ConsumerStep PROVE TypeOK'
    <2>1. CASE FullCopy
      BY <2>1 DEF FullCopy, mapVars, ioVars, history
    <2>2. CASE DumpStart
      BY <2>2 DEF DumpStart, mapVars, ioVars, history
    <2>3. CASE ScanChunk
      BY <2>3 DEF ScanChunk, ScanWith, mapVars, ioVars, history
    <2>4. CASE FinishBackup
      BY <2>4 DEF FinishBackup, mapVars, ioVars
    <2>5. ASSUME NEW c \in Chunks, CopyChunk(c) PROVE TypeOK'
      BY <2>5 DEF CopyChunk, mapVars, ioVars
    <2> QED BY <1>12, <2>1, <2>2, <2>3, <2>4, <2>5 DEF ConsumerStep
  <1>13. ASSUME AbortBackup PROVE TypeOK'
    BY <1>13 DEF AbortBackup, mapVars, ioVars
  <1>14. CASE UNCHANGED vars
    BY <1>14 DEF vars, mapVars, ioVars, consumerVars, history
  <1> QED
    BY <1>1, <1>2, <1>3, <1>4, <1>5, <1>6, <1>7, <1>8, <1>9, <1>10, <1>11,
       <1>12, <1>13, <1>14
    DEF Next, Handler

\* A new request is unsettled until it is stamped, and it is touched.
LEMMA FetchStep ==
  ASSUME IInv, TypeOK', NEW t \in Tags, NEW r \in Requests, Fetch(t, r)
  PROVE  IInv'
  <1> USE ChunksAssumption DEF IInv, TypeOK, Chunks, NoCursor
  <1>1. EraBounds' /\ MarkProgress' /\ ConsumerShape'
    BY RequestFacts DEF Fetch, mapVars, consumerVars, EraBounds, MarkProgress,
       ConsumerShape, InHandler
  <1>2. TouchedAbove' /\ OnlyTouchedReported'
    BY RequestFacts DEF Fetch, mapVars, consumerVars, TouchedAbove,
       OnlyTouchedReported, Span
  <1>3. NoLostChange'
    BY RequestFacts DEF Fetch, mapVars, consumerVars, NoLostChange, Unsettled,
       Span
  <1>4. CaughtNowOrNext'
    BY RequestFacts DEF Fetch, mapVars, consumerVars, NoLostChange,
       CaughtNowOrNext, Unsettled, Span
  <1> QED BY <1>1, <1>2, <1>3, <1>4

\* Only an op that never changes data is completed here.
LEMMA HandleUblkStep ==
  ASSUME IInv, TypeOK', NEW t \in Tags, HandleUblk(t)
  PROVE  IInv'
  <1> USE ChunksAssumption DEF IInv, TypeOK, Chunks, NoCursor
  <1>1. EraBounds' /\ MarkProgress' /\ ConsumerShape'
    BY DEF HandleUblk, CompleteTag, mapVars, consumerVars, history, EraBounds,
       MarkProgress, ConsumerShape, InHandler
  <1>2. TouchedAbove' /\ OnlyTouchedReported'
    BY DEF HandleUblk, CompleteTag, mapVars, consumerVars, history,
       TouchedAbove, OnlyTouchedReported, Span
  <1>3. NoLostChange'
    BY DEF HandleUblk, CompleteTag, mapVars, consumerVars, history,
       NoLostChange, Unsettled, Span, PassOps
  <1>4. CaughtNowOrNext'
    BY DEF HandleUblk, CompleteTag, mapVars, consumerVars, history,
       NoLostChange, CaughtNowOrNext, Unsettled, Span, PassOps
  <1> QED BY <1>1, <1>2, <1>3, <1>4

\* The medium changes only under an unsettled request.
LEMMA LandStep ==
  ASSUME IInv, TypeOK', NEW t \in Tags, NEW d \in Chunks, Land(t, d)
  PROVE  IInv'
  <1> USE ChunksAssumption DEF IInv, TypeOK, Chunks, NoCursor
  <1>1. EraBounds' /\ MarkProgress' /\ ConsumerShape'
    BY RequestFacts DEF Land, mapVars, ioVars, consumerVars, EraBounds,
       MarkProgress, ConsumerShape, InHandler
  <1>2. TouchedAbove' /\ OnlyTouchedReported'
    BY RequestFacts DEF Land, mapVars, ioVars, consumerVars, TouchedAbove,
       OnlyTouchedReported, Span
  <1>3. NoLostChange'
    BY RequestFacts DEF Land, mapVars, ioVars, consumerVars, NoLostChange,
       Unsettled, Span
  <1>4. CaughtNowOrNext'
    BY RequestFacts DEF Land, mapVars, ioVars, consumerVars, NoLostChange,
       CaughtNowOrNext, Unsettled, Span
  <1> QED BY <1>1, <1>2, <1>3, <1>4

\* A completed backing IO stays unsettled until it is stamped.
LEMMA BackendResultStep ==
  ASSUME IInv, TypeOK', NEW t \in Tags, BackendResult(t)
  PROVE  IInv'
  <1> USE ChunksAssumption DEF IInv, TypeOK, Chunks, NoCursor
  <1>1. EraBounds' /\ MarkProgress' /\ ConsumerShape'
    BY DEF BackendResult, mapVars, consumerVars, history, EraBounds,
       MarkProgress, ConsumerShape, InHandler
  <1>2. TouchedAbove' /\ OnlyTouchedReported'
    BY DEF BackendResult, mapVars, consumerVars, history, TouchedAbove,
       OnlyTouchedReported, Span
  <1>3. NoLostChange'
    BY DEF BackendResult, mapVars, consumerVars, history, NoLostChange,
       Unsettled, Span
  <1>4. CaughtNowOrNext'
    BY DEF BackendResult, mapVars, consumerVars, history, NoLostChange,
       CaughtNowOrNext, Unsettled, Span
  <1> QED BY <1>1, <1>2, <1>3, <1>4

\* A request to be resubmitted stays unsettled.
LEMMA BackendAgainStep ==
  ASSUME IInv, TypeOK', NEW t \in Tags, BackendAgain(t)
  PROVE  IInv'
  <1> USE ChunksAssumption DEF IInv, TypeOK, Chunks, NoCursor
  <1>1. EraBounds' /\ MarkProgress' /\ ConsumerShape'
    BY DEF BackendAgain, mapVars, consumerVars, history, EraBounds,
       MarkProgress, ConsumerShape, InHandler
  <1>2. TouchedAbove' /\ OnlyTouchedReported'
    BY DEF BackendAgain, mapVars, consumerVars, history, TouchedAbove,
       OnlyTouchedReported, Span
  <1>3. NoLostChange'
    BY DEF BackendAgain, mapVars, consumerVars, history, NoLostChange,
       Unsettled, Span
  <1>4. CaughtNowOrNext'
    BY DEF BackendAgain, mapVars, consumerVars, history, NoLostChange,
       CaughtNowOrNext, Unsettled, Span
  <1> QED BY <1>1, <1>2, <1>3, <1>4

\* Only an op that does not change data is completed unstamped.
LEMMA HandleBackendStep ==
  ASSUME IInv, TypeOK', NEW t \in Tags, HandleBackend(t)
  PROVE  IInv'
  <1> USE ChunksAssumption DEF IInv, TypeOK, Chunks, NoCursor
  <1>1. EraBounds' /\ MarkProgress' /\ ConsumerShape'
    BY DEF HandleBackend, CompleteTag, mapVars, consumerVars, history,
       EraBounds, MarkProgress, ConsumerShape, InHandler
  <1>2. TouchedAbove' /\ OnlyTouchedReported'
    BY DEF HandleBackend, CompleteTag, mapVars, consumerVars, history,
       TouchedAbove, OnlyTouchedReported, Span
  <1>3. NoLostChange'
    BY DEF HandleBackend, CompleteTag, mapVars, consumerVars, history,
       NoLostChange, Unsettled, Span
  <1>4. CaughtNowOrNext'
    BY DEF HandleBackend, CompleteTag, mapVars, consumerVars, history,
       NoLostChange, CaughtNowOrNext, Unsettled, Span
  <1> QED BY <1>1, <1>2, <1>3, <1>4

\* Loading the era settles nothing.
LEMMA LoadEraStep ==
  ASSUME IInv, TypeOK', NEW t \in Tags, LoadEra(t)
  PROVE  IInv'
  <1>1. /\ TypeOK /\ EraBounds /\ MarkProgress /\ ConsumerShape /\ TouchedAbove
        /\ NoLostChange /\ CaughtNowOrNext /\ OnlyTouchedReported
    BY DEF IInv
  <1>2. EraBounds' /\ ConsumerShape'
    BY <1>1 DEF LoadEra, EraBounds, ConsumerShape, TypeOK, mapVars, consumerVars
  <1>3. MarkProgress'
    <2>1. /\ \A u \in Tags : req'[u] = req[u]
          /\ \A u \in Tags \ {t} : pc'[u] = pc[u] /\ next'[u] = next[u] /\ seen'[u] = seen[u]
          /\ pc'[t] = "stamp" /\ next'[t] = req[t].first /\ eras' = eras
      BY <1>1 DEF LoadEra, TypeOK, mapVars
    <2>2. /\ req[t].first \in Int /\ req[t].last \in Int
          /\ req[t].first <= req[t].last
      BY <1>1, RequestFacts, EraTypes DEF TypeOK
    <2>3. /\ next'[t] \in req[t].first .. req[t].last
          /\ req[t].first .. next'[t] - 1 = {}
      BY <2>1, <2>2
    <2> QED BY <1>1, <2>1, <2>3 DEF LoadEra, MarkProgress, InHandler
  <1>4. TouchedAbove' /\ OnlyTouchedReported'
    BY <1>1 DEF LoadEra, TouchedAbove, OnlyTouchedReported, Span, TypeOK,
       mapVars, consumerVars, history
  <1>5. NoLostChange'
    BY <1>1 DEF LoadEra, NoLostChange, Unsettled, Span, TypeOK, mapVars,
       consumerVars, history
  <1>6. CaughtNowOrNext'
    BY <1>1 DEF LoadEra, CaughtNowOrNext, Unsettled, Span, TypeOK, mapVars,
       consumerVars, history
  <1> QED BY <1>2, <1>3, <1>4, <1>5, <1>6 DEF IInv

\* Stamping only raises eras, of chunks that the request touched.
LEMMA StampChunkStep ==
  ASSUME IInv, TypeOK', NEW t \in Tags, StampChunk(t)
  PROVE  IInv'
  <1>1. /\ TypeOK /\ EraBounds /\ MarkProgress /\ ConsumerShape /\ TouchedAbove
        /\ NoLostChange /\ CaughtNowOrNext /\ OnlyTouchedReported
    BY DEF IInv
  <1>2. \A u \in Tags : req[u] \in Requests
    BY <1>1 DEF TypeOK
  <1>3. /\ req[t].op \in DataOps
        /\ next[t] \in req[t].first .. req[t].last
        /\ next[t] \in Chunks
    BY <1>1, EraTypes DEF StampChunk, MarkProgress, InHandler
  <1>4. eras' = [eras EXCEPT ![next[t]] = MaxOf(eras[next[t]], seen[t])]
    BY DEF StampChunk
  <1>5. /\ \A c \in Chunks \ {next[t]} : eras'[c] = eras[c]
        /\ eras'[next[t]] = MaxOf(eras[next[t]], seen[t])
    BY <1>1, <1>3, <1>4 DEF TypeOK
  <1>6. /\ eras'[next[t]] >= eras[next[t]] /\ eras'[next[t]] >= seen[t]
        /\ eras'[next[t]] <= currentEra
    BY <1>1, <1>3, <1>5, EraTypes, MaxFacts DEF EraBounds
  <1>7. /\ \A c \in Chunks : eras'[c] \in Int /\ eras[c] \in Int
        /\ \A c \in Chunks : eras'[c] >= eras[c]
        /\ \A c \in Chunks : eras'[c] <= currentEra
    <2>1. \A c \in Chunks : eras'[c] \in Int /\ eras[c] \in Int
      BY <1>1, MaxEraAssumption DEF TypeOK
    <2> QED BY <1>1, <1>5, <1>6, <2>1 DEF EraBounds
  <1>8. /\ \A u \in Tags : Span(u)' = Span(u)
        /\ Unsettled' = Unsettled
    <2>1. \A u \in Tags : Span(u)' = Span(u)
      BY <1>1 DEF StampChunk, Span, TypeOK
    <2>2. \A u \in Tags : pc'[u] \in {"return", "ack"} <=> pc[u] \in {"return", "ack"}
      BY <1>1 DEF StampChunk, TypeOK
    <2> QED BY <2>1, <2>2 DEF Unsettled
  <1>9. EraBounds' /\ ConsumerShape'
    BY <1>1, <1>7 DEF StampChunk, EraBounds, ConsumerShape, consumerVars
  <1>10. MarkProgress'
    <2> SUFFICES ASSUME NEW u \in Tags
                 PROVE  /\ pc'[u] \in InHandler => req'[u].op \in DataOps
                        /\ pc'[u] = "stamp" =>
                             /\ next'[u] \in req'[u].first .. req'[u].last
                             /\ \A c \in req'[u].first .. next'[u] - 1 : eras'[c] >= seen'[u]
                        /\ pc'[u] = "recheck" =>
                             \A c \in req'[u].first .. req'[u].last : eras'[c] >= seen'[u]
      BY DEF MarkProgress
    <2>1. /\ req[u].first \in Chunks /\ req[u].last \in Chunks
          /\ req[u].first \in Int /\ req[u].last \in Int
          /\ next[u] \in Chunks /\ next[u] \in Int /\ seen[u] \in Int
          /\ req' = req /\ seen' = seen
      BY <1>1, <1>2, RequestFacts, EraTypes DEF StampChunk
    <2>2. \A c \in Chunks : eras[c] >= seen[u] => eras'[c] >= seen[u]
      BY <1>7, <2>1
    <2>3. CASE u = t
      <3>1. \A c \in req[t].first .. next[t] - 1 : eras[c] >= seen[t]
        BY <1>1 DEF StampChunk, MarkProgress
      <3>2. \A c \in req[t].first .. next[t] : c = next[t] \/ c \in req[t].first .. next[t] - 1
        BY <2>1, <2>3
      <3>3. \A c \in req[t].first .. next[t] : eras'[c] >= seen[t]
        BY <1>6, <2>1, <2>2, <2>3, <3>1, <3>2, IntervalFacts
      <3>4. CASE next[t] < req[t].last
        <4>1. pc'[t] = "stamp" /\ next'[t] = next[t] + 1
          BY <1>1, <3>4, <2>1, <2>3 DEF StampChunk, TypeOK
        <4> QED BY <1>3, <2>1, <2>3, <3>3, <3>4, <4>1
      <3>5. CASE next[t] = req[t].last
        <4>1. pc'[t] = "recheck"
          BY <1>1, <3>5, <2>1, <2>3 DEF StampChunk, TypeOK
        <4> QED BY <1>3, <2>1, <2>3, <3>3, <3>5, <4>1
      <3> QED BY <3>4, <3>5 DEF StampChunk
    <2>4. CASE u # t
      <3>1. pc'[u] = pc[u] /\ next'[u] = next[u]
        BY <1>1, <2>4 DEF StampChunk, TypeOK
      <3> QED BY <1>1, <2>1, <2>2, <3>1, IntervalFacts DEF MarkProgress
    <2> QED BY <2>3, <2>4
  <1>11. next[t] \in Span(t)
    BY <1>3 DEF StampChunk, Span
  <1>12. TouchedAbove' /\ OnlyTouchedReported'
    BY <1>1, <1>5, <1>8, <1>11 DEF StampChunk, TouchedAbove,
       OnlyTouchedReported, consumerVars, history
  <1>13. NoLostChange'
    BY <1>1, <1>7, <1>8, EraTypes DEF StampChunk, NoLostChange, TypeOK,
       consumerVars, history
  <1>14. CaughtNowOrNext'
    BY <1>1, <1>7, <1>8, EraTypes DEF StampChunk, CaughtNowOrNext, TypeOK,
       consumerVars, history
  <1> QED BY <1>9, <1>10, <1>12, <1>13, <1>14 DEF IInv

\* The step the retry exists for: a request settles only with the current era
\* on all its chunks, which is above the cursor and above every closed era.
LEMMA RecheckStep ==
  ASSUME IInv, TypeOK', NEW t \in Tags, Recheck(t)
  PROVE  IInv'
  <1> USE ChunksAssumption DEF IInv, TypeOK, Chunks
  <1>1. EraBounds' /\ MarkProgress' /\ ConsumerShape'
    BY DEF Recheck, EraBounds, MarkProgress, InHandler, ConsumerShape, mapVars,
       consumerVars
  <1>2. \A u \in Tags : Span(u)' = Span(u)
    BY DEF Recheck, Span
  <1>3. TouchedAbove' /\ OnlyTouchedReported'
    BY <1>2 DEF Recheck, TouchedAbove, OnlyTouchedReported, mapVars,
       consumerVars, history
  <1>4. ASSUME NEW c \in Chunks, c \in Unsettled, c \notin Unsettled'
        PROVE  eras[c] >= currentEra
    <2>1. PICK u \in Tags : c \in Span(u) /\ pc[u] \notin {"return", "ack"}
      BY <1>4 DEF Unsettled
    <2>2. pc'[u] \in {"return", "ack"}
      BY <1>2, <1>4, <2>1 DEF Unsettled
    <2>3. u = t /\ currentEra = seen[t]
      BY <2>1, <2>2 DEF Recheck
    <2>4. c \in req[t].first .. req[t].last
      BY <2>1, <2>3 DEF Span
    <2> QED BY <2>3, <2>4 DEF Recheck, MarkProgress
  <1>5. NoLostChange'
    BY <1>4 DEF Recheck, NoLostChange, EraBounds, mapVars, consumerVars, history
  <1>6. CaughtNowOrNext'
    BY <1>4 DEF Recheck, CaughtNowOrNext, EraBounds, mapVars, consumerVars,
       history
  <1> QED BY <1>1, <1>3, <1>5, <1>6

\* Returning from mark_write changes no shared state.
LEMMA MarkReturnStep ==
  ASSUME IInv, TypeOK', NEW t \in Tags, MarkReturn(t)
  PROVE  IInv'
  <1> USE ChunksAssumption DEF IInv, TypeOK, Chunks, NoCursor
  <1>1. EraBounds' /\ MarkProgress' /\ ConsumerShape'
    BY DEF MarkReturn, mapVars, consumerVars, history, EraBounds, MarkProgress,
       ConsumerShape, InHandler
  <1>2. TouchedAbove' /\ OnlyTouchedReported'
    BY DEF MarkReturn, mapVars, consumerVars, history, TouchedAbove,
       OnlyTouchedReported, Span
  <1>3. NoLostChange'
    BY DEF MarkReturn, mapVars, consumerVars, history, NoLostChange, Unsettled,
       Span
  <1>4. CaughtNowOrNext'
    BY DEF MarkReturn, mapVars, consumerVars, history, NoLostChange,
       CaughtNowOrNext, Unsettled, Span
  <1> QED BY <1>1, <1>2, <1>3, <1>4

\* A request is completed only after it has settled.
LEMMA CompleteStep ==
  ASSUME IInv, TypeOK', NEW t \in Tags, Complete(t)
  PROVE  IInv'
  <1> USE ChunksAssumption DEF IInv, TypeOK, Chunks, NoCursor
  <1>1. EraBounds' /\ MarkProgress' /\ ConsumerShape'
    BY DEF Complete, CompleteTag, mapVars, consumerVars, history, EraBounds,
       MarkProgress, ConsumerShape, InHandler
  <1>2. TouchedAbove' /\ OnlyTouchedReported'
    BY DEF Complete, CompleteTag, mapVars, consumerVars, history, TouchedAbove,
       OnlyTouchedReported, Span
  <1>3. NoLostChange'
    BY DEF Complete, CompleteTag, mapVars, consumerVars, history, NoLostChange,
       Unsettled, Span
  <1>4. CaughtNowOrNext'
    BY DEF Complete, CompleteTag, mapVars, consumerVars, history, NoLostChange,
       CaughtNowOrNext, Unsettled, Span
  <1> QED BY <1>1, <1>2, <1>3, <1>4

\* A checkpoint moves only current_era, and only up.
LEMMA CheckpointStep ==
  ASSUME IInv, TypeOK', Checkpoint
  PROVE  IInv'
  <1> USE ChunksAssumption DEF IInv, TypeOK, Chunks, NoCursor
  <1>1. EraBounds' /\ MarkProgress' /\ ConsumerShape'
    BY DEF Checkpoint, ioVars, consumerVars, history, EraBounds, MarkProgress,
       ConsumerShape, InHandler
  <1>2. TouchedAbove' /\ OnlyTouchedReported'
    BY DEF Checkpoint, ioVars, consumerVars, history, TouchedAbove,
       OnlyTouchedReported, Span
  <1>3. NoLostChange'
    BY DEF Checkpoint, ioVars, consumerVars, history, NoLostChange, Unsettled,
       Span
  <1>4. CaughtNowOrNext'
    BY DEF Checkpoint, ioVars, consumerVars, history, NoLostChange,
       CaughtNowOrNext, Unsettled, Span
  <1> QED BY <1>1, <1>2, <1>3, <1>4

\* Nothing is stamped above the era the backup closes.
LEMMA BeginBackupStep ==
  ASSUME IInv, TypeOK', BeginBackup
  PROVE  IInv'
  <1> USE ChunksAssumption DEF IInv, TypeOK, Chunks, NoCursor
  <1>1. EraBounds' /\ MarkProgress' /\ ConsumerShape'
    BY RequestFacts DEF BeginBackup, ioVars, EraBounds, MarkProgress,
       ConsumerShape, InHandler
  <1>2. TouchedAbove'
    <2>1. touchedNow' = Unacked /\ touched' = touched /\ closed' = currentEra
      BY DEF BeginBackup
    <2>2. \A t \in Tags : Span(t)' = Span(t) /\ Span(t) \subseteq Unacked
      BY RequestFacts DEF BeginBackup, ioVars, Span, Unacked
    <2>3. \A c \in Chunks : ~(eras'[c] > closed')
      BY <2>1 DEF BeginBackup, EraBounds
    <2> QED BY <2>1, <2>2, <2>3 DEF TouchedAbove
  <1>2a. OnlyTouchedReported'
    BY DEF BeginBackup, OnlyTouchedReported
  <1>3. NoLostChange'
    BY RequestFacts DEF BeginBackup, ioVars, NoLostChange, Unsettled, Span
  <1>4. CaughtNowOrNext'
    BY RequestFacts DEF BeginBackup, ioVars, NoLostChange, CaughtNowOrNext,
       Unsettled, Span
  <1> QED BY <1>1, <1>2, <1>2a, <1>3, <1>4

\* Every chunk is going to be copied.
LEMMA FullCopyStep ==
  ASSUME IInv, TypeOK', FullCopy
  PROVE  IInv'
  <1> USE ChunksAssumption DEF IInv, TypeOK, Chunks, NoCursor
  <1>1. EraBounds' /\ MarkProgress' /\ ConsumerShape'
    BY DEF FullCopy, mapVars, ioVars, history, EraBounds, MarkProgress,
       ConsumerShape, InHandler
  <1>2. TouchedAbove' /\ OnlyTouchedReported'
    BY DEF FullCopy, mapVars, ioVars, history, TouchedAbove,
       OnlyTouchedReported, Span
  <1>3. NoLostChange'
    BY DEF FullCopy, mapVars, ioVars, history, NoLostChange, Unsettled, Span
  <1>4. CaughtNowOrNext'
    BY DEF FullCopy, mapVars, ioVars, history, NoLostChange, CaughtNowOrNext,
       Unsettled, Span
  <1> QED BY <1>1, <1>2, <1>3, <1>4

\* Every chunk is ahead of the scan.
LEMMA DumpStartStep ==
  ASSUME IInv, TypeOK', DumpStart
  PROVE  IInv'
  <1> USE ChunksAssumption DEF IInv, TypeOK, Chunks, NoCursor
  <1>1. EraBounds' /\ MarkProgress' /\ ConsumerShape'
    BY DEF DumpStart, mapVars, ioVars, history, EraBounds, MarkProgress,
       ConsumerShape, InHandler
  <1>2. TouchedAbove' /\ OnlyTouchedReported'
    BY DEF DumpStart, mapVars, ioVars, history, TouchedAbove,
       OnlyTouchedReported, Span
  <1>3. NoLostChange'
    BY DEF DumpStart, mapVars, ioVars, history, NoLostChange, Unsettled, Span,
       ConsumerShape
  <1>4. CaughtNowOrNext'
    BY DEF DumpStart, mapVars, ioVars, history, NoLostChange, CaughtNowOrNext,
       Unsettled, Span, ConsumerShape
  <1> QED BY <1>1, <1>2, <1>3, <1>4

\* The scan skips only chunks that the old cursor already covers.
LEMMA ScanChunkStep ==
  ASSUME IInv, TypeOK', ScanChunk
  PROVE  IInv'
  <1> USE ChunksAssumption DEF IInv, TypeOK, Chunks, NoCursor
  <1>1. EraBounds' /\ MarkProgress' /\ ConsumerShape'
    BY DEF ScanChunk, ScanWith, mapVars, ioVars, history, EraBounds,
       MarkProgress, ConsumerShape, InHandler
  <1>2. TouchedAbove' /\ OnlyTouchedReported'
    BY DEF ScanChunk, ScanWith, mapVars, ioVars, history, TouchedAbove,
       OnlyTouchedReported, Span
  <1>3. NoLostChange'
    BY DEF ScanChunk, ScanWith, mapVars, ioVars, history, NoLostChange,
       Unsettled, Span, ConsumerShape
  <1>4. CaughtNowOrNext'
    BY DEF ScanChunk, ScanWith, mapVars, ioVars, history, NoLostChange,
       CaughtNowOrNext, Unsettled, Span, ConsumerShape
  <1> QED BY <1>1, <1>2, <1>3, <1>4

\* The copied chunk is not stale any more.
LEMMA CopyChunkStep ==
  ASSUME IInv, TypeOK', NEW d \in Chunks, CopyChunk(d)
  PROVE  IInv'
  <1> USE ChunksAssumption DEF IInv, TypeOK, Chunks, NoCursor
  <1>1. EraBounds' /\ MarkProgress' /\ ConsumerShape'
    BY DEF CopyChunk, mapVars, ioVars, EraBounds, MarkProgress, ConsumerShape,
       InHandler
  <1>2. TouchedAbove' /\ OnlyTouchedReported'
    BY DEF CopyChunk, mapVars, ioVars, TouchedAbove, OnlyTouchedReported, Span
  <1>3. NoLostChange'
    BY DEF CopyChunk, mapVars, ioVars, NoLostChange, Unsettled, Span
  <1>4. CaughtNowOrNext'
    BY DEF CopyChunk, mapVars, ioVars, NoLostChange, CaughtNowOrNext, Unsettled,
       Span
  <1> QED BY <1>1, <1>2, <1>3, <1>4

\* A changed chunk that is not reported by the closed era is copied.
LEMMA FinishBackupStep ==
  ASSUME IInv, TypeOK', FinishBackup
  PROVE  IInv'
  <1> USE ChunksAssumption DEF IInv, TypeOK, Chunks, NoCursor
  <1>1. EraBounds' /\ MarkProgress' /\ ConsumerShape'
    BY DEF FinishBackup, mapVars, ioVars, EraBounds, MarkProgress,
       ConsumerShape, InHandler
  <1>2. TouchedAbove' /\ OnlyTouchedReported'
    BY DEF FinishBackup, mapVars, ioVars, TouchedAbove, OnlyTouchedReported, Span
  <1>3. NoLostChange'
    BY DEF FinishBackup, mapVars, ioVars, NoLostChange, Unsettled, Span,
       CaughtNowOrNext
  <1>4. CaughtNowOrNext'
    BY DEF FinishBackup, mapVars, ioVars, NoLostChange, CaughtNowOrNext,
       Unsettled, Span, CaughtNowOrNext
  <1> QED BY <1>1, <1>2, <1>3, <1>4

\* The old cursor still reports every changed chunk.
LEMMA AbortBackupStep ==
  ASSUME IInv, TypeOK', AbortBackup
  PROVE  IInv'
  <1> USE ChunksAssumption DEF IInv, TypeOK, Chunks, NoCursor
  <1>1. EraBounds' /\ MarkProgress' /\ ConsumerShape'
    BY DEF AbortBackup, mapVars, ioVars, EraBounds, MarkProgress, ConsumerShape,
       InHandler
  <1>2. TouchedAbove' /\ OnlyTouchedReported'
    BY DEF AbortBackup, mapVars, ioVars, TouchedAbove, OnlyTouchedReported, Span
  <1>3. NoLostChange'
    BY DEF AbortBackup, mapVars, ioVars, NoLostChange, Unsettled, Span
  <1>4. CaughtNowOrNext'
    BY DEF AbortBackup, mapVars, ioVars, NoLostChange, CaughtNowOrNext,
       Unsettled, Span
  <1> QED BY <1>1, <1>2, <1>3, <1>4

\* The invariant is inductive: one lemma above per action of Next.
LEMMA NextInv == IInv /\ [Next]_vars => IInv'
  <1> SUFFICES ASSUME IInv, [Next]_vars PROVE IInv'
    OBVIOUS
  <1>1. TypeOK'
    BY TypeStep
  <1>2. ASSUME NEW t \in Tags, Handler(t) PROVE IInv'
    BY <1>1, <1>2, HandleUblkStep, HandleBackendStep, LoadEraStep, StampChunkStep,
       RecheckStep, MarkReturnStep, CompleteStep DEF Handler
  <1>3. ASSUME NEW t \in Tags, Backing(t) PROVE IInv'
    BY <1>1, <1>3, BackendResultStep, BackendAgainStep, LandStep DEF Backing
  <1>4. ASSUME ConsumerStep PROVE IInv'
    BY <1>1, <1>4, FullCopyStep, DumpStartStep, ScanChunkStep, CopyChunkStep,
       FinishBackupStep DEF ConsumerStep
  <1>5. CASE UNCHANGED vars
    <2>1. /\ UNCHANGED <<currentEra, eras, pc, req, seen, next>>
          /\ UNCHANGED <<bpc, cursor, closed, scan, todo, stale, touched, touchedNow>>
      BY <1>5 DEF vars, mapVars, ioVars, consumerVars, history
    <2> QED
      BY <1>1, <2>1 DEF IInv, EraBounds, MarkProgress, ConsumerShape,
         TouchedAbove,
         NoLostChange, CaughtNowOrNext, OnlyTouchedReported, Span, Unsettled
  <1> QED
    BY <1>1, <1>2, <1>3, <1>4, <1>5, FetchStep, CheckpointStep, BeginBackupStep,
       AbortBackupStep DEF Next

\* The inductive invariant holds in every reachable state of the data plane.
THEOREM Invariance == Spec => []IInv
  BY InitInv, NextInv, PTL DEF Spec

\* mark_write and ranges_since never index outside the era array, for any
\* device size, number of queues, depth and history of checkpoints.
THEOREM TypeCorrect == Spec => []TypeOK
  <1>1. IInv => TypeOK
    BY DEF IInv
  <1> QED BY <1>1, Invariance, PTL

\* Zero false negatives: with checkpoints racing any number of in-flight
\* writes and discards on any number of queues, a chunk that differs from the
\* consumer's image is unsettled or is reported by the consumer's cursor.
THEOREM Contract == Spec => []NoLostChange
  <1>1. IInv => NoLostChange
    BY DEF IInv
  <1> QED BY <1>1, Invariance, PTL

\* A change that races a backup is in this diff or in the next one.
THEOREM NowOrNext == Spec => []CaughtNowOrNext
  <1>1. IInv => CaughtNowOrNext
    BY DEF IInv
  <1> QED BY <1>1, Invariance, PTL

\* A backup taken with IO frozen from its checkpoint to its end is exact.
THEOREM FrozenExact == Spec => []FrozenBackupExact
  <1>1. IInv => FrozenBackupExact
    <2> SUFFICES ASSUME IInv, bpc = "copy", todo = {}, touchedNow = {},
                        NEW c \in stale
                 PROVE  FALSE
      BY DEF FrozenBackupExact
    <2>1. c \in Chunks /\ \A t \in Tags : Span(t) = {}
      BY DEF IInv, TypeOK, TouchedAbove
    <2>2. c \notin Unsettled
      BY <2>1 DEF Unsettled
    <2>3. eras[c] > closed
      BY <2>2 DEF IInv, CaughtNowOrNext
    <2> QED BY <2>1, <2>3 DEF IInv, TouchedAbove
  <1> QED BY <1>1, Invariance, PTL

\* The diff never contains a chunk that no request has touched since the
\* checkpoint it is taken against.
THEOREM Precision == Spec => []OnlyTouchedReported
  <1>1. IInv => OnlyTouchedReported
    BY DEF IInv
  <1> QED BY <1>1, Invariance, PTL

=============================================================================
