-------------------------- MODULE HistoryGapProofs --------------------------
(* The rows of a channel have no holes, and a run that ends cleanly leaves   *)
(* nothing out: theorems about HistorySync for every value of its constants  *)
(* with which they are true.                                                 *)
EXTENDS HistorySyncProofs

\* The counters.  Whoever writes rows counts them afterwards.
Counted ==
    (\A r \in Runs : pc[r] = "idle") /\ clearing = "idle" /\ ~importing =>
        /\ videoCount = Cardinality(videos)
        /\ photoCount = Cardinality(photos)

Unexpired == \A r \in Runs : ~expired[r]

LEMMA NextUnexpired ==
    ASSUME "timeout" \notin Hazards, TypeOK, Unexpired, [Next]_vars
    PROVE  Unexpired'
<1>1. UNCHANGED expired \/ Crash \/ \E r \in Runs : FinishRun(r)
  BY DEF Next, Post, DeleteMessage, Handler, UpdateChannel, Rebackfill, RebackfillJoin,
         ClearDeleteVideos, ClearDeletePhotos, ClearResetHistory, ClearRecount, ClearAborted,
         ImportBegin, ImportMessage, ImportRecount, ImportAborted, ManualStart,
         ScheduledStart, RebackfillStart, SyncStart, RunStep, ReadMaxSeen, Probe, ProbeFails,
         FetchPage, UpsertVideos, UpsertPhotos, PropagateCaptions, WalkFails, StartBackfill,
         SkipBackfill, SetHistoryComplete, ClearRunning, Expire, vars
<1>2. QED
  BY <1>1 DEF Unexpired, Crash, FinishRun, TypeOK

\* A step with no writer left that has not counted.
LEMMA NextCounted ==
    ASSUME Hazards \cap {"crash", "timeout", "handlerAbort"} = {}, TypeOK, Unexpired, Counted,
           [Next]_vars
    PROVE  Counted'
<1> USE DEF telegram, rows, flags, recount, walk, run, registry, handlers
<1>1. CASE UNCHANGED <<rows, videoCount, photoCount, pc, clearing, importing>>
  BY <1>1 DEF Counted
<1>2. ASSUME NEW r \in Runs, pc'[r] # "idle" PROVE Counted'
  BY <1>2 DEF Counted
<1>3. CASE clearing' # "idle" \/ importing'
  BY <1>3 DEF Counted
<1>4. ASSUME NEW r \in Runs, FinishRun(r) PROVE Counted'
  BY <1>4 DEF FinishRun, MarkChannelIndexed, Counted, Unexpired
<1>5. CASE ClearRecount \/ ImportRecount
  BY <1>5 DEF ClearRecount, ImportRecount, MarkChannelIndexed, Counted
<1>6. ASSUME NEW r \in Runs, RunStep(r) \/ ManualStart(r) \/ ScheduledStart(r) \/ RebackfillStart(r)
      PROVE  FinishRun(r) \/ pc'[r] # "idle"
  BY <1>6 DEF ManualStart, ScheduledStart, RebackfillStart, SyncStart, RunStep, ReadMaxSeen,
         Probe, ProbeFails, FirstWalk, FetchPage, WalkDone, UpsertVideos, UpsertPhotos,
         PropagateCaptions, WalkFails, Stop, StartBackfill, SkipBackfill, SetHistoryComplete,
         ClearRunning, Step, TypeOK
<1>7. CASE Post \/ DeleteMessage \/ UpdateChannel \/ Rebackfill \/ RebackfillJoin
            \/ (\E r \in Runs : Expire(r)) \/ UNCHANGED vars
  BY <1>7, <1>1 DEF Post, DeleteMessage, UpdateChannel, Rebackfill, RebackfillJoin, Expire, vars
<1>8. CASE ClearDeleteVideos \/ ClearDeletePhotos \/ ClearResetHistory \/ ImportBegin
            \/ ImportMessage
  BY <1>8, <1>3 DEF ClearDeleteVideos, ClearDeletePhotos, ClearResetHistory, ClearStep,
         ImportBegin, ImportMessage
<1>9. ~Crash /\ ~ClearAborted /\ ~ImportAborted
  BY DEF Crash, ClearAborted, ImportAborted
<1>10. QED
  BY <1>2, <1>4, <1>5, <1>6, <1>7, <1>8, <1>9 DEF Next, Handler

\* Whatever starts, clears and imports, and in any order, the channel's counters are the
\* numbers of its rows once all of them are done: each recounts after its last write
\* (MarkChannelIndexed).  A crash, a timeout or an aborted request may leave them behind.
THEOREM CountsAreFresh ==
    ASSUME Hazards \cap {"crash", "timeout", "handlerAbort"} = {}
    PROVE  Spec => []CountsFresh
<1>1. Init => Counted /\ Unexpired
  BY DEF Init, Counted, Unexpired
<1>2. Counted => CountsFresh
  BY DEF Counted, CountsFresh, Quiescent
<1>3. TypeOK /\ Unexpired /\ Counted /\ [Next]_vars => Unexpired' /\ Counted'
  BY NextUnexpired, NextCounted
<1>4. QED
  BY <1>1, <1>2, <1>3, TypeCorrect, PTL DEF Spec

-----------------------------------------------------------------------------
(* Cursors.  A message is due when the run was started after it was posted,  *)
(* or when the rows have gone past it.                                       *)

\* A message r has to have, or has gone past.
Due(r, m) == m \in Media(history) /\ (m <= upTo[r] \/ \E t \in Stored : m < t)

\* From b on, nothing that is due is missing.
Joined(r, b) == \A m \in Ids : Due(r, m) /\ b <= m => m \in Stored

\* Above the oldest row, nothing that is due is missing.
Topped(r) == \A m \in Ids : Due(r, m) /\ (\E s \in Stored : s < m) => m \in Stored

GapFree ==
    \A m \in Media(history) : (\E s, t \in Stored : s < m /\ m < t) => m \in Stored

\* The rows under the incremental walk.
Base(r) ==
    /\ MinId(r) # 0 => MinId(r) \in Stored
    /\ \A m \in Media(history) : m < MinId(r) /\ (\E s \in Stored : s < m) => m \in Stored

\* A page has every message between its own, and up to the offset or to upTo.
PageTop(r) ==
    /\ page[r] # {}
    /\ \A p \in page[r] :
         /\ MinId(r) < p
         /\ offset[r] = 0 \/ p < offset[r]
         /\ \A m \in history :
              /\ p < m
              /\ IF offset[r] # 0 THEN m < offset[r]
                 ELSE m <= upTo[r] \/ \E q \in page[r] : m < q
              => m \in page[r]

\* The rows the walk has written: from the offset on, or from the page on.
WalkInv(r) ==
    /\ Base(r)
    /\ pc[r] \in {"fetch", "videos", "photos"} =>
         /\ offset[r] # 0 => Joined(r, offset[r])
         /\ \A s \in Stored : \/ s <= MinId(r)
                              \/ offset[r] # 0 /\ offset[r] <= s
                              \/ pc[r] = "photos" /\ s \in page[r]
    /\ pc[r] \in {"videos", "photos"} => PageTop(r)
    /\ pc[r] = "photos" => page[r] \cap VideoIds \subseteq Stored
    /\ pc[r] = "captions" =>
         /\ page[r] # {}
         /\ \A p \in page[r] : MinId(r) < p /\ (offset[r] = 0 \/ p < offset[r]) /\ Joined(r, p)
         /\ \A s \in Stored : s <= MinId(r) \/ \E p \in page[r] : p <= s

Bounded ==
    /\ history \subseteq 1 .. top /\ Stored \subseteq 1 .. top
    /\ \A r \in Runs : /\ ~expired[r] /\ upTo[r] <= top /\ offset[r] <= top
                       /\ page[r] \subseteq 1 .. top

GapInv ==
    /\ Bounded
    /\ ~importing
    /\ clearing # "idle" => \A r \in Runs : pc[r] \notin Writing
    /\ clearing = "photos" => videos = {}
    /\ clearing \in {"rearm", "mark"} => Stored = {}
    /\ clearing = "idle" /\ (\A r \in Runs : pc[r] \notin Walking) => GapFree
    /\ \A r \in Runs :
         /\ pc[r] = "probe" => IsMaxCursor(maxSeen[r])
         /\ pc[r] \in Walking => WalkInv(r)
         /\ pc[r] = "backfill" => Topped(r)
         /\ pc[r] = "complete" => CaughtUp(r)
\* No hazard that leaves a hole: what interrupts the incremental walk or a page, and what
\* writes or wipes rows behind a run's back.
Orderly ==
    Hazards \cap {"import", "clearWhileSyncing", "handlerAbort", "crash", "timeout",
                  "cursorRead", "incremental", "torn"} = {}

\* The model starts with rows that have no hole.
SeedJoined ==
    \A m \in MediaIds \cap (1 .. SeedTop) :
        (\E s, t \in SeedVideos \cup SeedPhotos : s < m /\ m < t)
            => m \in SeedVideos \cup SeedPhotos

LEMMA GapTypes ==
    ASSUME TypeOK
    PROVE  /\ top \in Nat /\ \A m \in Ids : m \in Int /\ 1 <= m /\ m <= MaxId
           /\ \A r \in Runs : /\ maxSeen[r] \in Nat /\ offset[r] \in Nat /\ upTo[r] \in Nat
                              /\ MinId(r) \in Nat
           /\ Stored \subseteq Ids /\ history \subseteq Ids
<1>1. MaxId \in Nat /\ VideoIds \subseteq Ids /\ PhotoIds \subseteq Ids
  BY SyncAssumption
<1>2. \A n \in 0 .. MaxId : n \in Nat
  BY <1>1
<1>3. /\ \A m \in Ids : m \in Int /\ 1 <= m /\ m <= MaxId
      /\ Stored \subseteq Ids /\ history \subseteq Ids
  BY <1>1 DEF TypeOK, Ids, Stored
<1>4. \A r \in Runs : maxSeen[r] \in 0 .. MaxId /\ offset[r] \in 0 .. MaxId /\ upTo[r] \in 0 .. MaxId
  BY DEF TypeOK
<1>5. \A r \in Runs : MinId(r) \in Nat
  BY <1>2, <1>4 DEF MinId
<1>6. QED
  BY <1>2, <1>3, <1>4, <1>5 DEF TypeOK

\* The rows and the runs stay: a message that is posted is newer than all of them.
LEMMA SameRuns ==
    ASSUME TypeOK, TypeOK', GapInv, top <= top', history' \subseteq 1 .. top',
           \A m \in history' : m \in history \/ top < m,
           UNCHANGED <<rows, walk, run, pc, expired, importing>>,
           clearing' = clearing
    PROVE  GapInv'
<1> USE DEF rows, walk, run
<1>t. /\ top \in Nat /\ top' \in Nat
      /\ \A m \in Ids : m \in Int /\ 1 <= m
      /\ \A r \in Runs : offset[r] \in Int /\ upTo[r] \in Int /\ MinId(r) \in Int
      /\ history' \subseteq Ids /\ Stored \subseteq Ids
  BY GapTypes, SyncAssumption DEF TypeOK
<1>1. Stored' = Stored /\ \A r \in Runs : MinId(r)' = MinId(r)
  BY DEF Stored, MinId
<1>2. Bounded'
  BY <1>t, <1>1 DEF GapInv, Bounded, TypeOK, Ids
<1>3. ASSUME NEW m \in Media(history)'
      PROVE  /\ m \in Ids
             /\ (m <= top \/ \E t \in Stored : m < t) => m \in Media(history)
  <2>1. m \in history' /\ m \in MediaIds /\ m \in Ids
    BY <1>3, <1>t DEF Media
  <2>2. \A t \in Stored : t <= top /\ t \in Int
    BY <1>t DEF GapInv, Bounded, Ids
  <2>3. (m <= top \/ \E t \in Stored : m < t) => m \in history
    BY <1>t, <2>1, <2>2
  <2>4. QED
    BY <2>1, <2>3 DEF Media
<1>4. ASSUME NEW r \in Runs, NEW m \in Ids, Due(r, m)' PROVE Due(r, m)
  BY <1>1, <1>3, <1>4, <1>t DEF Due, GapInv, Bounded
<1>5. ASSUME NEW r \in Runs
      PROVE  /\ Topped(r) => Topped(r)'
             /\ CaughtUp(r) => CaughtUp(r)'
             /\ \A b : Joined(r, b) => Joined(r, b)'
             /\ Base(r) => Base(r)'
             /\ PageTop(r) => PageTop(r)'
  <2>1. Topped(r) => Topped(r)'
    BY <1>1, <1>4 DEF Topped
  <2>2. CaughtUp(r) => CaughtUp(r)'
    BY <1>1, <1>3, <1>t DEF CaughtUp, GapInv, Bounded
  <2>3. \A b : Joined(r, b) => Joined(r, b)'
    BY <1>1, <1>4 DEF Joined
  <2>4. ASSUME Base(r) PROVE Base(r)'
    <3>1. MinId(r) # 0 => MinId(r) <= top
      BY <1>t, <2>4 DEF Base, GapInv, Bounded
    <3>2. ASSUME NEW m \in Media(history)', m < MinId(r) PROVE m \in Media(history)
      BY <1>3, <1>t, <3>1, <3>2
    <3>3. QED
      BY <1>1, <2>4, <3>2 DEF Base
  <2>5. ASSUME PageTop(r) PROVE PageTop(r)'
    <3>1. \A q \in page[r] : q \in Int /\ q <= top
      BY <1>t DEF GapInv, Bounded
    <3>2. ASSUME NEW m \in history', \/ offset[r] # 0 /\ m < offset[r]
                                     \/ m <= upTo[r] \/ \E q \in page[r] : m < q
          PROVE  m \in history
      <4>1. offset[r] <= top /\ upTo[r] <= top /\ m \in Int
        BY <1>t DEF GapInv, Bounded
      <4>2. m <= top
        BY <1>t, <3>1, <3>2, <4>1
      <4>3. QED
        BY <1>t, <4>1, <4>2
    <3>3. QED
      BY <1>1, <2>5, <3>2 DEF PageTop
  <2>6. QED
    BY <2>1, <2>2, <2>3, <2>4, <2>5
<1>6. ASSUME NEW r \in Runs, WalkInv(r) PROVE WalkInv(r)'
  BY <1>1, <1>5, <1>6 DEF WalkInv
<1>7. GapFree => GapFree'
  BY <1>1, <1>3 DEF GapFree
<1>8. \A r \in Runs : IsMaxCursor(maxSeen[r]) => IsMaxCursor(maxSeen[r])'
  BY <1>1 DEF IsMaxCursor
<1>9. QED
  BY <1>1, <1>2, <1>5, <1>6, <1>7, <1>8 DEF GapInv

\* One run goes on: no other may write.
LEMMA OneRunGap ==
    ASSUME TypeOK, Registry, GapInv, NEW r \in Runs, pc[r] \in Writing,
           NEW to, pc' = [pc EXCEPT ![r] = to],
           UNCHANGED <<clearing, importing>>, Bounded',
           to \notin Walking => GapFree',
           to = "probe" => IsMaxCursor(maxSeen[r])',
           to \in Walking => WalkInv(r)',
           to = "backfill" => Topped(r)',
           to = "complete" => CaughtUp(r)'
    PROVE  GapInv'
<1>1. pc'[r] = to /\ \A q \in Runs : q # r => pc'[q] = pc[q] /\ pc[q] \notin Writing
  BY DEF TypeOK, Registry
<1>2. clearing = "idle" /\ clearing' = "idle" /\ ~importing'
  BY DEF GapInv
<1>3. ASSUME NEW q \in Runs, pc'[q] \in Writing PROVE q = r
  BY <1>1, <1>3
<1>4. Walking \subseteq Writing /\ {"probe", "backfill", "complete"} \subseteq Writing
  BY DEF Writing
<1>5. ASSUME NEW q \in Runs
      PROVE  /\ pc'[q] = "probe" => IsMaxCursor(maxSeen[q])'
             /\ pc'[q] \in Walking => WalkInv(q)'
             /\ pc'[q] = "backfill" => Topped(q)'
             /\ pc'[q] = "complete" => CaughtUp(q)'
  BY <1>1, <1>3, <1>4
<1>6. QED
  BY <1>1, <1>2, <1>5 DEF GapInv

\* Nobody walks: the beginning and the end of a run, and the steps of a clear.
LEMMA StartGap ==
    ASSUME TypeOK, Registry, GapInv, Orderly, NEW r \in Runs, SyncStart(r),
           UNCHANGED <<clearing, importing>>
    PROVE  GapInv'
<1>1. \A q \in Runs : pc[q] \notin Writing
  BY SyncAssumption DEF Registry, SyncStart, MayStart, Syncing
<1>2. pc'[r] = "start" /\ \A q \in Runs : q # r => pc'[q] = pc[q]
  BY DEF SyncStart, TypeOK
<1>3. clearing = "idle"
  BY DEF SyncStart, Orderly
<1>4. GapFree /\ ~importing
  BY <1>1, <1>3 DEF GapInv, Writing
<1>5. GapFree'
  BY <1>4 DEF SyncStart, telegram, rows, GapFree, Stored, Media
<1>6. upTo'[r] = top /\ \A q \in Runs : q # r => upTo'[q] = upTo[q]
  BY DEF SyncStart, TypeOK
<1>7. Bounded'
  BY <1>6, GapTypes DEF GapInv, Bounded, SyncStart, telegram, rows, walk, Stored
<1>8. \A q \in Runs : pc'[q] \notin Walking \cup {"probe", "backfill", "complete"}
  BY <1>1, <1>2 DEF Writing, Walking
<1>9. QED
  BY <1>3, <1>4, <1>5, <1>7, <1>8 DEF GapInv

LEMMA FinishGap ==
    ASSUME TypeOK, GapInv, NEW r \in Runs, FinishRun(r)
    PROVE  GapInv'
<1>1. /\ pc[r] = "mark" /\ pc'[r] = "idle" /\ UNCHANGED <<history, top, videos, photos>>
      /\ UNCHANGED <<clearing, importing>>
      /\ expired'[r] = FALSE /\ upTo'[r] = 0 /\ offset'[r] = 0 /\ page'[r] = {}
      /\ \A q \in Runs : q # r =>
           /\ pc'[q] = pc[q] /\ maxSeen'[q] = maxSeen[q] /\ phase'[q] = phase[q]
           /\ offset'[q] = offset[q] /\ page'[q] = page[q] /\ upTo'[q] = upTo[q]
           /\ expired'[q] = expired[q]
  BY DEF FinishRun, Step, TypeOK, telegram, rows, handlers
<1>2. Stored' = Stored
  BY <1>1 DEF Stored
<1>3. Bounded'
  BY <1>1, <1>2, GapTypes DEF GapInv, Bounded
<1>4. ASSUME NEW q \in Runs, q # r
      PROVE  /\ WalkInv(q)' <=> WalkInv(q)
             /\ Topped(q)' <=> Topped(q)
             /\ CaughtUp(q)' <=> CaughtUp(q)
             /\ IsMaxCursor(maxSeen[q])' <=> IsMaxCursor(maxSeen[q])
  <2>1. /\ pc'[q] = pc[q] /\ maxSeen'[q] = maxSeen[q] /\ phase'[q] = phase[q]
        /\ offset'[q] = offset[q] /\ page'[q] = page[q] /\ upTo'[q] = upTo[q]
        /\ history' = history /\ Stored' = Stored
    BY <1>1, <1>2, <1>4
  <2>2. MinId(q)' = MinId(q)
    BY <2>1 DEF MinId
  <2>3. \A m : Due(q, m)' <=> Due(q, m)
    BY <2>1 DEF Due
  <2>4. /\ Base(q)' <=> Base(q)
        /\ PageTop(q)' <=> PageTop(q)
        /\ \A b : Joined(q, b)' <=> Joined(q, b)
    BY <2>1, <2>2, <2>3 DEF Base, PageTop, Joined
  <2>5. WalkInv(q)' <=> WalkInv(q)
    BY <2>1, <2>2, <2>4 DEF WalkInv
  <2>6. /\ Topped(q)' <=> Topped(q)
        /\ CaughtUp(q)' <=> CaughtUp(q)
        /\ IsMaxCursor(maxSeen[q])' <=> IsMaxCursor(maxSeen[q])
    BY <2>1, <2>3 DEF Topped, CaughtUp, IsMaxCursor
  <2>7. QED
    BY <2>5, <2>6
<1>5. GapFree' <=> GapFree
  BY <1>1, <1>2 DEF GapFree
<1>6. \A q \in Runs : pc'[q] \in Writing => pc[q] \in Writing /\ q # r
  BY <1>1 DEF Writing, Walking
<1>7. (\A q \in Runs : pc'[q] \notin Walking) => \A q \in Runs : pc[q] \notin Walking
  BY <1>1 DEF Walking
<1>8. ASSUME NEW q \in Runs
      PROVE  /\ pc'[q] = "probe" => IsMaxCursor(maxSeen[q])'
             /\ pc'[q] \in Walking => WalkInv(q)'
             /\ pc'[q] = "backfill" => Topped(q)'
             /\ pc'[q] = "complete" => CaughtUp(q)'
  <2>1. CASE q = r
    BY <1>1, <2>1 DEF Walking
  <2>2. CASE q # r
    BY <1>1, <1>4, <2>2 DEF GapInv
  <2>3. QED
    BY <2>1, <2>2
<1>9. QED
  BY <1>1, <1>2, <1>3, <1>5, <1>6, <1>7, <1>8 DEF GapInv

LEMMA ClearGap ==
    ASSUME TypeOK, GapInv, Orderly,
           ClearDeleteVideos \/ ClearDeletePhotos \/ ClearResetHistory \/ ClearRecount
    PROVE  GapInv'
<1> USE DEF telegram, rows, walk, run
<1>1. \A r \in Runs : pc[r] \notin Writing
  BY DEF GapInv, Orderly, ClearDeleteVideos, ClearDeletePhotos, ClearResetHistory, ClearRecount,
         ClearStep
<1>2. /\ UNCHANGED <<history, top, pc, maxSeen, phase, offset, page, upTo, expired, importing>>
      /\ Stored' \subseteq Stored
      /\ clearing' = "photos" => videos' = {}
      /\ clearing' \in {"rearm", "mark"} => Stored' = {}
      /\ clearing' = "idle" => Stored' = {}
  BY DEF GapInv, ClearDeleteVideos, ClearDeletePhotos, ClearResetHistory, ClearRecount,
         ClearStep, Stored
<1>3. Bounded'
  BY <1>2 DEF GapInv, Bounded
<1>4. \A r \in Runs : pc'[r] \notin Walking \cup {"probe", "backfill", "complete"}
  BY <1>1, <1>2 DEF Writing
<1>5. clearing' = "idle" => GapFree'
  BY <1>2 DEF GapFree
<1>6. QED
  BY <1>1, <1>2, <1>3, <1>4, <1>5 DEF GapInv

\* Before a walk: the cursor is read, and one message asked for.
LEMMA ReadGap ==
    ASSUME TypeOK, Registry, GapInv, Orderly, NEW r \in Runs,
           ReadMaxSeen(r) \/ Probe(r) \/ ProbeFails(r)
    PROVE  GapInv'
<1> USE DEF telegram, rows, run, handlers
<1>1. /\ UNCHANGED <<history, top, videos, photos, upTo, expired, clearing, importing>>
      /\ pc[r] \in {"start", "probe"}
  BY DEF ReadMaxSeen, Probe, ProbeFails, Step
<1>2. pc[r] \in Writing /\ Stored' = Stored /\ ~expired[r]
  BY <1>1 DEF Writing, Stored, GapInv, Bounded
<1>3. GapFree /\ GapFree'
  <2>1. \A q \in Runs : pc[q] \notin Walking
    BY <1>1, <1>2 DEF Registry, Writing, Walking
  <2>2. GapFree
    BY <1>2, <2>1 DEF GapInv
  <2>3. QED
    BY <1>1, <1>2, <2>2 DEF GapFree
<1>4. CASE ReadMaxSeen(r)
  <2>1. PICK n \in 0 .. MaxId : IsMaxCursor(n) /\ maxSeen' = [maxSeen EXCEPT ![r] = n]
    BY <1>2, <1>4 DEF ReadMaxSeen, Orderly
  <2>2. IsMaxCursor(maxSeen'[r])
    BY <2>1 DEF TypeOK
  <2>3. IsMaxCursor(maxSeen[r])'
    BY <1>2, <2>2 DEF IsMaxCursor
  <2>4. Bounded'
    BY <1>1, <1>2, <1>4 DEF ReadMaxSeen, GapInv, Bounded
  <2>5. pc' = [pc EXCEPT ![r] = "probe"]
    BY <1>4 DEF ReadMaxSeen, Step
  <2>6. QED
    BY <1>1, <1>2, <1>3, <2>3, <2>4, <2>5, OneRunGap DEF Walking
<1>5. CASE Probe(r)
  <2>1. /\ pc' = [pc EXCEPT ![r] = FirstWalk(r)] /\ maxSeen' = maxSeen
        /\ phase'[r] = "A" /\ offset'[r] = 0 /\ page' = page
        /\ \A q \in Runs : q # r => offset'[q] = offset[q]
        /\ IsMaxCursor(maxSeen[r])
    BY <1>5 DEF Probe, Step, TypeOK, GapInv
  <2>2. Bounded'
    BY <1>1, <1>2, <2>1, GapTypes DEF GapInv, Bounded
  <2>3. MinId(r)' = maxSeen[r]
    BY <2>1 DEF MinId
  <2>4. CASE maxSeen[r] > 0
    <3>1. maxSeen[r] \in Stored /\ \A s \in Stored : s <= maxSeen[r]
      BY <2>1, <2>4, GapTypes DEF IsMaxCursor
    <3>2. pc' = [pc EXCEPT ![r] = "fetch"] /\ pc'[r] = "fetch"
      BY <2>1, <2>4 DEF FirstWalk, TypeOK
    <3>3. Base(r)'
      BY <1>1, <1>2, <1>3, <2>3, <3>1 DEF Base, GapFree
    <3>4. WalkInv(r)'
      BY <1>2, <2>1, <2>3, <3>1, <3>2, <3>3 DEF WalkInv
    <3>5. QED
      BY <1>1, <1>2, <1>3, <2>2, <3>2, <3>4, OneRunGap
  <2>5. CASE ~(maxSeen[r] > 0)
    <3>1. Stored = {}
      BY <2>1, <2>5, GapTypes DEF IsMaxCursor
    <3>2. pc' = [pc EXCEPT ![r] = "backfill"]
      BY <2>1, <2>5 DEF FirstWalk
    <3>3. Topped(r)'
      BY <1>2, <3>1 DEF Topped
    <3>4. QED
      BY <1>1, <1>2, <1>3, <2>2, <3>2, <3>3, OneRunGap DEF Walking
  <2>6. QED
    BY <2>4, <2>5
<1>6. CASE ProbeFails(r)
  <2>1. Bounded' /\ pc' = [pc EXCEPT ![r] = "end"]
    BY <1>1, <1>2, <1>6 DEF ProbeFails, Step, GapInv, Bounded, walk
  <2>2. QED
    BY <1>1, <1>2, <1>3, <2>1, OneRunGap DEF Walking
<1>7. QED
  BY <1>4, <1>5, <1>6

\* The backfill keeps the rows in one piece, except in the middle of a page.
LEMMA BackfillGapFree ==
    ASSUME TypeOK, NEW r \in Runs, WalkInv(r), phase[r] = "B", pc[r] \in Walking \ {"photos"}
    PROVE  GapFree
<1>1. MinId(r) = 0 /\ \A s \in Stored : ~(s <= 0) /\ s \in Int
  BY GapTypes DEF MinId
<1>2. SUFFICES ASSUME NEW m \in Media(history), NEW s \in Stored, NEW t \in Stored,
                      s < m, m < t
               PROVE  m \in Stored
  BY DEF GapFree
<1>3. Due(r, m) /\ m \in Ids /\ m \in Int
  BY <1>2, GapTypes DEF Due, Media
<1>4. CASE pc[r] \in {"fetch", "videos"}
  <2>1. offset[r] # 0 /\ offset[r] <= s /\ Joined(r, offset[r])
    BY <1>1, <1>4 DEF WalkInv
  <2>2. offset[r] <= m
    BY <1>1, <1>2, <1>3, <2>1, GapTypes
  <2>3. QED
    BY <1>3, <2>1, <2>2 DEF Joined
<1>5. CASE pc[r] = "captions"
  <2>1. PICK p \in page[r] : p <= s /\ Joined(r, p)
    BY <1>1, <1>5 DEF WalkInv
  <2>2. p <= m
    <3>1. p \in Int
      BY GapTypes DEF TypeOK
    <3>2. QED
      BY <1>1, <1>2, <1>3, <2>1, <3>1
  <2>3. QED
    BY <1>3, <2>1, <2>2 DEF Joined
<1>6. QED
  BY <1>4, <1>5 DEF Walking

\* A request or a transaction of the backfill fails.
LEMMA FailGap ==
    ASSUME TypeOK, Registry, GapInv, Orderly, NEW r \in Runs, WalkFails(r)
    PROVE  GapInv'
<1> USE DEF telegram, rows, run, walk, handlers
<1>1. /\ UNCHANGED <<history, top, videos, photos, upTo, expired, clearing, importing>>
      /\ UNCHANGED <<offset, page>>
      /\ pc[r] \in Walking /\ pc' = [pc EXCEPT ![r] = "end"]
  BY DEF WalkFails, Stop, Step, Walking
<1>2. pc[r] \in Writing /\ Stored' = Stored /\ WalkInv(r)
  BY <1>1 DEF Writing, Stored, GapInv
<1>3. pc[r] # "photos" /\ phase[r] # "A" /\ phase[r] = "B"
  <2>1. MayFail(r)
    BY DEF WalkFails, GapInv, Bounded
  <2>2. phase[r] \in {"A", "B"}
    BY DEF TypeOK
  <2>3. QED
    BY <2>1, <2>2 DEF MayFail, Orderly
<1>4. GapFree'
  <2>1. GapFree
    BY <1>1, <1>2, <1>3, BackfillGapFree
  <2>2. QED
    BY <1>1, <1>2, <2>1 DEF GapFree
<1>5. Bounded'
  BY <1>1, <1>2 DEF GapInv, Bounded
<1>6. QED
  BY <1>1, <1>2, <1>4, <1>5, OneRunGap DEF Walking

\* What is due and not under the offset is stored; an empty window leaves no more.
LEMMA EmptyWindow ==
    ASSUME TypeOK, GapInv, NEW r \in Runs, pc[r] = "fetch", WalkInv(r), Window(r) = {}
    PROVE  /\ Topped(r) /\ GapFree
           /\ phase[r] = "B" => CaughtUp(r)
<1>1. ASSUME NEW m \in Ids, Due(r, m), MinId(r) < m PROVE m \in Stored
  <2>1. m \in history /\ m \in Int
    BY <1>1, GapTypes DEF Due, Media
  <2>2. offset[r] # 0 /\ ~(m < offset[r])
    BY <1>1, <2>1 DEF Window
  <2>3. offset[r] <= m
    BY <2>1, <2>2, GapTypes
  <2>4. QED
    BY <1>1, <2>2, <2>3 DEF WalkInv, Joined
<1>2. Topped(r)
  <2> SUFFICES ASSUME NEW m \in Ids, Due(r, m), NEW s \in Stored, s < m PROVE m \in Stored
    BY DEF Topped
  <2>1. m \in Media(history) /\ m \in Int /\ MinId(r) \in Nat /\ 1 <= m
    BY GapTypes DEF Due
  <2>2. m < MinId(r) => m \in Stored
    BY <2>1 DEF WalkInv, Base
  <2>3. m = MinId(r) => m \in Stored
    BY <2>1 DEF WalkInv, Base
  <2>4. QED
    BY <1>1, <2>1, <2>2, <2>3
<1>3. GapFree
  BY <1>2, GapTypes DEF GapFree, Topped, Due, Media
<1>4. ASSUME phase[r] = "B" PROVE CaughtUp(r)
  <2>1. MinId(r) = 0
    BY <1>4 DEF MinId
  <2>2. \A m \in Media(history) \cap (1 .. upTo[r]) : m \in Ids /\ Due(r, m) /\ 0 < m
    BY GapTypes DEF Due, Media
  <2>3. QED
    BY <1>1, <2>1, <2>2 DEF CaughtUp
<1>5. QED
  BY <1>2, <1>3, <1>4

\* A page has every message of the window that is newer than one of its own.
LEMMA FetchGap ==
    ASSUME TypeOK, Registry, GapInv, NEW r \in Runs, FetchPage(r)
    PROVE  GapInv'
<1> USE DEF telegram, rows, run, handlers
<1>1. PICK S \in SUBSET Window(r) :
         /\ IsPage(S, Window(r)) /\ page' = [page EXCEPT ![r] = S]
         /\ pc' = [pc EXCEPT ![r] = IF S # {} THEN "videos" ELSE WalkDone(r)]
  BY DEF FetchPage, Step
<1>2. /\ UNCHANGED <<history, top, videos, photos, upTo, expired, clearing, importing>>
      /\ UNCHANGED <<maxSeen, phase, offset>>
      /\ pc[r] = "fetch" /\ pc[r] \in Writing
      /\ page'[r] = S /\ \A q \in Runs : q # r => page'[q] = page[q]
  BY <1>1 DEF FetchPage, Step, Writing, Walking, TypeOK
<1>3. /\ Stored' = Stored /\ MinId(r)' = MinId(r) /\ WalkInv(r) /\ S \subseteq history
      /\ \A m \in Window(r) : m > MinId(r) /\ (offset[r] = 0 \/ m < offset[r])
  BY <1>2 DEF Stored, MinId, GapInv, Window, Walking
<1>4. Bounded'
  BY <1>2, <1>3 DEF GapInv, Bounded
<1>5. CASE S = {}
  <2>1. Window(r) = {}
    BY <1>1, <1>5 DEF IsPage
  <2>2. Topped(r) /\ GapFree /\ (phase[r] = "B" => CaughtUp(r))
    BY <1>2, <1>3, <2>1, EmptyWindow
  <2>3. Topped(r)' /\ GapFree' /\ (phase[r] = "B" => CaughtUp(r)')
    BY <1>2, <1>3, <2>2 DEF Topped, Due, GapFree, CaughtUp
  <2>4. pc' = [pc EXCEPT ![r] = WalkDone(r)] /\ (WalkDone(r) = "complete" => phase[r] = "B")
        /\ WalkDone(r) \in {"backfill", "complete"}
    BY <1>1, <1>5 DEF WalkDone, TypeOK
  <2>5. QED
    BY <1>2, <1>4, <2>3, <2>4, OneRunGap DEF Walking
<1>6. CASE S # {}
  <2>1. pc' = [pc EXCEPT ![r] = "videos"] /\ pc'[r] = "videos"
    BY <1>1, <1>6 DEF TypeOK
  <2>2. ASSUME NEW p \in S
        PROVE  /\ MinId(r) < p /\ (offset[r] = 0 \/ p < offset[r])
               /\ \A m \in history :
                    /\ p < m
                    /\ offset[r] # 0 => m < offset[r]
                    => m \in S
    <3>1. p \in Window(r) /\ p \in history /\ p \in Int
      BY <1>1, <1>3, GapTypes
    <3>2. MinId(r) < p /\ (offset[r] = 0 \/ p < offset[r])
      BY <1>3, <3>1, GapTypes
    <3>3. ASSUME NEW m \in history, p < m, offset[r] # 0 => m < offset[r] PROVE m \in S
      <4>1. m \in Int /\ m > MinId(r)
        BY <3>1, <3>2, <3>3, GapTypes
      <4>2. m \in Window(r)
        BY <3>3, <4>1 DEF Window
      <4>3. m > p
        BY <3>1, <3>3, <4>1
      <4>4. QED
        BY <1>1, <4>2, <4>3 DEF IsPage
    <3>4. QED
      BY <3>2, <3>3
  <2>3. PageTop(r)'
    BY <1>2, <1>3, <1>6, <2>2 DEF PageTop
  <2>4. \A b : Joined(r, b)' <=> Joined(r, b)
    BY <1>2, <1>3 DEF Joined, Due
  <2>5. Base(r)'
    BY <1>2, <1>3 DEF WalkInv, Base
  <2>6. WalkInv(r)'
    BY <1>2, <1>3, <2>1, <2>3, <2>4, <2>5 DEF WalkInv
  <2>7. QED
    BY <1>2, <1>4, <2>1, <2>6, OneRunGap DEF Walking
<1>7. QED
  BY <1>5, <1>6

\* Rows of the page leave everything above the offset and under the walk as it was.
LEMMA PageWritten ==
    ASSUME TypeOK, TypeOK', NEW r \in Runs, WalkInv(r), PageTop(r),
           pc[r] \in {"videos", "photos"},
           Stored' \subseteq Stored \cup page[r], Stored \subseteq Stored',
           UNCHANGED <<history, maxSeen, phase, offset, page, upTo>>
    PROVE  /\ MinId(r)' = MinId(r) /\ Base(r)' /\ PageTop(r)'
           /\ offset[r] # 0 => Joined(r, offset[r])'
<1>1. MinId(r)' = MinId(r)
  BY DEF MinId
<1>2. Base(r)'
  <2>1. ASSUME NEW m \in Media(history), m < MinId(r), NEW s \in Stored', s < m
        PROVE  m \in Stored
    <3>1. m \in Int /\ s \in Int /\ MinId(r) \in Int
      BY GapTypes DEF TypeOK, Stored, Media
    <3>2. s \in Stored
      BY <2>1, <3>1 DEF PageTop
    <3>3. QED
      BY <2>1, <3>2 DEF WalkInv, Base
  <2>2. QED
    BY <1>1, <2>1 DEF WalkInv, Base
<1>3. PageTop(r)'
  BY <1>1 DEF PageTop
<1>4. ASSUME offset[r] # 0, NEW m \in Ids, Due(r, m)', offset[r] <= m PROVE m \in Stored'
  <2>1. offset[r] \in Int /\ m \in Int /\ \A t \in page[r] : t \in Int /\ t < offset[r]
    BY <1>4, GapTypes DEF PageTop, TypeOK
  <2>2. \A t \in Stored' : m < t => t \in Stored
    BY <1>4, <2>1
  <2>3. Due(r, m)
    BY <1>4, <2>2 DEF Due
  <2>4. QED
    BY <1>4, <2>3 DEF WalkInv, Joined
<1>5. QED
  BY <1>1, <1>2, <1>3, <1>4 DEF Joined

LEMMA VideosGap ==
    ASSUME TypeOK, TypeOK', Registry, GapInv, NEW r \in Runs, UpsertVideos(r)
    PROVE  GapInv'
<1> USE DEF telegram, walk, run, handlers
<1>1. /\ UNCHANGED <<history, top, maxSeen, phase, offset, page, upTo, expired>>
      /\ UNCHANGED <<clearing, importing>>
      /\ pc[r] = "videos" /\ pc' = [pc EXCEPT ![r] = "photos"] /\ pc'[r] = "photos"
      /\ Stored' = Stored \cup (page[r] \cap VideoIds)
  BY DEF UpsertVideos, Step, Stored, TypeOK
<1>2. WalkInv(r) /\ PageTop(r) /\ pc[r] \in Writing
  BY <1>1 DEF GapInv, WalkInv, Walking, Writing
<1>3. Bounded'
  BY <1>1 DEF GapInv, Bounded
<1>4. /\ MinId(r)' = MinId(r) /\ Base(r)' /\ PageTop(r)'
      /\ offset[r] # 0 => Joined(r, offset[r])'
  BY <1>1, <1>2, PageWritten
<1>5. WalkInv(r)'
  BY <1>1, <1>2, <1>4 DEF WalkInv
<1>6. QED
  BY <1>1, <1>2, <1>3, <1>5, OneRunGap DEF Walking

LEMMA PhotosGap ==
    ASSUME TypeOK, TypeOK', Registry, GapInv, NEW r \in Runs, UpsertPhotos(r)
    PROVE  GapInv'
<1> USE DEF telegram, walk, run, handlers
<1>1. /\ UNCHANGED <<history, top, maxSeen, phase, offset, page, upTo, expired>>
      /\ UNCHANGED <<clearing, importing>>
      /\ pc[r] = "photos" /\ pc' = [pc EXCEPT ![r] = "captions"] /\ pc'[r] = "captions"
      /\ Stored' = Stored \cup (page[r] \cap PhotoIds)
  BY DEF UpsertPhotos, Step, Stored, TypeOK
<1>2. WalkInv(r) /\ PageTop(r) /\ pc[r] \in Writing
  BY <1>1 DEF GapInv, WalkInv, Walking, Writing
<1>3. Bounded'
  BY <1>1 DEF GapInv, Bounded
<1>4. /\ MinId(r)' = MinId(r) /\ Base(r)' /\ PageTop(r)'
      /\ offset[r] # 0 => Joined(r, offset[r])'
  BY <1>1, <1>2, PageWritten
<1>5. page[r] \cap MediaIds \subseteq Stored'
  BY <1>1, <1>2 DEF WalkInv, MediaIds
<1>6. ASSUME NEW s \in Stored'
      PROVE  s <= MinId(r) \/ s \in page[r] \/ (offset[r] # 0 /\ offset[r] <= s)
  BY <1>1, <1>2 DEF WalkInv
<1>7. ASSUME NEW p \in page[r] PROVE Joined(r, p)'
  <2> SUFFICES ASSUME NEW m \in Ids, Due(r, m)', p <= m PROVE m \in Stored'
    BY DEF Joined
  <2>1. /\ m \in Int /\ p \in Int /\ offset[r] \in Int /\ MinId(r) \in Int
        /\ m \in history /\ m \in MediaIds /\ MinId(r) < p
        /\ \A t \in Stored' : t \in Int
    BY <1>1, <1>2, GapTypes DEF Due, Media, PageTop, TypeOK, Stored
  <2>2. CASE m = p
    BY <1>5, <2>1, <2>2
  <2>3. CASE m # p /\ offset[r] # 0 /\ offset[r] <= m
    BY <1>1, <1>4, <2>3 DEF Joined
  <2>4. CASE m # p /\ offset[r] # 0 /\ ~(offset[r] <= m)
    BY <1>2, <1>5, <2>1, <2>4 DEF PageTop
  <2>5. CASE m # p /\ offset[r] = 0
    <3>1. m <= upTo[r] \/ \E q \in page[r] : m < q
      <4>1. ASSUME NEW t \in Stored', m < t PROVE t \in page[r]
        BY <1>6, <2>1, <2>5, <4>1
      <4>2. QED
        BY <1>1, <4>1 DEF Due
    <3>2. p < m
      BY <2>1, <2>5
    <3>3. m \in page[r]
      BY <1>2, <2>1, <2>5, <3>1, <3>2 DEF PageTop
    <3>4. QED
      BY <1>5, <2>1, <3>3
  <2>6. QED
    BY <2>2, <2>3, <2>4, <2>5
<1>8. ASSUME NEW s \in Stored' PROVE s <= MinId(r) \/ \E p \in page[r] : p <= s
  <2>1. s \in Int /\ offset[r] \in Int /\ \A p \in page[r] : p \in Int
    <3>1. page[r] \subseteq Ids /\ s \in Stored \cup page[r]
      BY <1>1 DEF TypeOK
    <3>2. QED
      BY <3>1, GapTypes
  <2>2. CASE s \in page[r]
    BY <2>1, <2>2
  <2>3. CASE offset[r] # 0 /\ offset[r] <= s
    BY <1>2, <2>1, <2>3 DEF PageTop
  <2>4. QED
    BY <1>6, <2>2, <2>3
<1>9. WalkInv(r)'
  BY <1>1, <1>2, <1>4, <1>7, <1>8 DEF WalkInv, PageTop
<1>10. QED
  BY <1>1, <1>2, <1>3, <1>9, OneRunGap DEF Walking

\* The cursor moves to the oldest message of the page.
LEMMA CaptionsGap ==
    ASSUME TypeOK, Registry, GapInv, NEW r \in Runs, PropagateCaptions(r)
    PROVE  GapInv'
<1> USE DEF telegram, rows, run, handlers
<1>1. PICK b \in 0 .. MaxId :
         /\ IsBatchMin(b, page[r]) /\ offset' = [offset EXCEPT ![r] = b]
         /\ pc' = [pc EXCEPT ![r] = IF b \in {0, offset[r]} THEN WalkDone(r) ELSE "fetch"]
  BY DEF PropagateCaptions, Step
<1>2. /\ UNCHANGED <<history, top, videos, photos, upTo, expired, clearing, importing>>
      /\ UNCHANGED <<maxSeen, phase>>
      /\ pc[r] = "captions" /\ pc[r] \in Writing
      /\ page'[r] = {} /\ offset'[r] = b
      /\ \A q \in Runs : q # r => page'[q] = page[q] /\ offset'[q] = offset[q]
  BY <1>1 DEF PropagateCaptions, Step, Writing, Walking, TypeOK
<1>3. Stored' = Stored /\ MinId(r)' = MinId(r) /\ WalkInv(r)
  BY <1>2 DEF Stored, MinId, GapInv, Walking
<1>4. /\ b \in page[r] /\ \A p \in page[r] : b <= p /\ p \in Int
      /\ b \in Int /\ 1 <= b /\ b <= top
      /\ offset[r] = 0 \/ b < offset[r]
      /\ offset[r] \in Int /\ Joined(r, b)
  <2>1. b \in page[r] /\ \A p \in page[r] : b <= p
    BY <1>1 DEF IsBatchMin
  <2>2. page[r] \subseteq Ids /\ page[r] \subseteq 1 .. top
    BY DEF TypeOK, GapInv, Bounded
  <2>3. (offset[r] = 0 \/ b < offset[r]) /\ Joined(r, b)
    BY <1>2, <1>3, <2>1 DEF WalkInv
  <2>4. QED
    BY <2>1, <2>2, <2>3, GapTypes
<1>5. pc' = [pc EXCEPT ![r] = "fetch"] /\ pc'[r] = "fetch"
  <2>1. b # 0 /\ b # offset[r]
    BY <1>4
  <2>2. pc' = [pc EXCEPT ![r] = "fetch"]
    BY <1>1, <2>1
  <2>3. QED
    BY <2>2 DEF TypeOK
<1>6. Bounded'
  BY <1>2, <1>3, <1>4 DEF GapInv, Bounded
<1>7. \A s \in Stored : s <= MinId(r) \/ b <= s
  <2> SUFFICES ASSUME NEW s \in Stored, ~(s <= MinId(r)) PROVE b <= s
    OBVIOUS
  <2>1. PICK p \in page[r] : p <= s
    BY <1>2, <1>3 DEF WalkInv
  <2>2. s \in Int
    BY GapTypes
  <2>3. QED
    BY <1>4, <2>1, <2>2
<1>8. Joined(r, b)'
  BY <1>2, <1>3, <1>4 DEF Joined, Due
<1>9. Base(r)'
  BY <1>2, <1>3 DEF WalkInv, Base
<1>10. Joined(r, offset[r])'
  BY <1>2, <1>8 DEF Joined
<1>11. WalkInv(r)'
  BY <1>2, <1>3, <1>4, <1>5, <1>7, <1>9, <1>10 DEF WalkInv
<1>12. QED
  BY <1>2, <1>5, <1>6, <1>11, OneRunGap DEF Walking

\* The backfill goes on from the oldest row.
LEMMA BackfillGap ==
    ASSUME TypeOK, Registry, GapInv, Orderly, NEW r \in Runs, StartBackfill(r)
    PROVE  GapInv'
<1> USE DEF telegram, rows, run, handlers
<1>1. PICK n \in 0 .. MaxId : IsMinCursor(n) /\ offset' = [offset EXCEPT ![r] = n]
  BY DEF StartBackfill, Orderly, GapInv, Bounded
<1>2. /\ UNCHANGED <<history, top, videos, photos, upTo, expired, clearing, importing>>
      /\ UNCHANGED <<maxSeen, page>>
      /\ pc[r] = "backfill" /\ pc[r] \in Writing
      /\ pc' = [pc EXCEPT ![r] = "fetch"] /\ pc'[r] = "fetch"
      /\ phase'[r] = "B" /\ offset'[r] = n
      /\ \A q \in Runs : q # r => offset'[q] = offset[q]
  BY <1>1 DEF StartBackfill, Step, Writing, Walking, TypeOK
<1>3. Stored' = Stored /\ MinId(r)' = 0 /\ Topped(r)
  BY <1>2 DEF Stored, MinId, GapInv
<1>4. n \in Nat /\ n <= top
  <2>1. CASE Stored = {}
    BY <2>1, <1>1, GapTypes DEF IsMinCursor
  <2>2. CASE Stored # {}
    BY <2>2, <1>1, GapTypes DEF IsMinCursor, GapInv, Bounded
  <2>3. QED
    BY <2>1, <2>2
<1>5. Bounded'
  BY <1>2, <1>3, <1>4 DEF GapInv, Bounded
<1>6. ASSUME n # 0
      PROVE  /\ \A m \in Ids : Due(r, m)' /\ n <= m => m \in Stored
             /\ \A s \in Stored : n <= s
  <2>1. n \in Stored /\ \A s \in Stored : n <= s
    BY <1>1, <1>6 DEF IsMinCursor
  <2>2. ASSUME NEW m \in Ids, Due(r, m)', n <= m PROVE m \in Stored
    <3>1. Due(r, m)
      BY <1>2, <1>3, <2>2 DEF Due
    <3>2. m = n \/ n < m
      BY <1>4, <2>2, GapTypes
    <3>3. QED
      BY <1>3, <2>1, <2>2, <3>1, <3>2 DEF Topped
  <2>3. QED
    BY <2>1, <2>2
<1>7. n = 0 => Stored = {}
  BY <1>1, GapTypes DEF IsMinCursor
<1>8. Base(r)'
  <2>1. \A m \in Media(history) : ~(m < 0)
    BY GapTypes DEF Media
  <2>2. QED
    BY <1>2, <1>3, <2>1 DEF Base
<1>9. offset'[r] # 0 => Joined(r, offset[r])'
  BY <1>2, <1>3, <1>6 DEF Joined
<1>10. WalkInv(r)'
  BY <1>2, <1>3, <1>6, <1>7, <1>8, <1>9 DEF WalkInv
<1>11. QED
  BY <1>2, <1>5, <1>10, OneRunGap DEF Walking

\* The end of a run.
LEMMA EndGap ==
    ASSUME TypeOK, Registry, GapInv, NEW r \in Runs,
           SkipBackfill(r) \/ SetHistoryComplete(r) \/ ClearRunning(r)
    PROVE  GapInv'
<1> USE DEF telegram, rows, run, walk, handlers
<1>1. /\ UNCHANGED <<history, top, videos, photos, upTo, expired, clearing, importing>>
      /\ UNCHANGED <<offset, page>>
      /\ pc[r] \in {"backfill", "complete", "end"}
      /\ \E to \in {"end", "mark"} : pc' = [pc EXCEPT ![r] = to]
  BY DEF SkipBackfill, SetHistoryComplete, ClearRunning, Step
<1>2. pc[r] \in Writing /\ Stored' = Stored
  BY <1>1 DEF Writing, Stored
<1>3. GapFree'
  <2>1. \A q \in Runs : pc[q] \notin Walking
    BY <1>1, <1>2 DEF Registry, Writing, Walking
  <2>2. GapFree
    BY <1>2, <2>1 DEF GapInv
  <2>3. QED
    BY <1>1, <1>2, <2>2 DEF GapFree
<1>4. Bounded'
  BY <1>1, <1>2 DEF GapInv, Bounded
<1>5. QED
  BY <1>1, <1>2, <1>3, <1>4, OneRunGap DEF Walking

LEMMA InitGap ==
    ASSUME Init, SeedJoined
    PROVE  GapInv
<1>1. Stored = SeedVideos \cup SeedPhotos /\ history = 1 .. SeedTop /\ top = SeedTop
  BY DEF Init, Stored
<1>2. Bounded
  BY <1>1, SyncAssumption DEF Init, Bounded
<1>3. GapFree
  BY <1>1 DEF SeedJoined, GapFree, Media
<1>4. QED
  BY <1>2, <1>3 DEF Init, GapInv, Writing, Walking

LEMMA NextGap ==
    ASSUME Orderly, TypeOK, TypeOK', Registry, GapInv, [Next]_vars
    PROVE  GapInv'
<1> USE DEF telegram, flags, recount, registry, handlers
<1>1. CASE Post \/ DeleteMessage \/ UpdateChannel \/ Rebackfill \/ RebackfillJoin \/ UNCHANGED vars
  <2>1. \/ top' = top /\ history' \subseteq history
        \/ top' = top + 1 /\ history' = history \cup {top'}
    BY <1>1 DEF Post, DeleteMessage, UpdateChannel, Rebackfill, RebackfillJoin, vars
  <2>2. UNCHANGED <<rows, walk, run, pc, expired, importing>> /\ clearing' = clearing
    BY <1>1 DEF Post, DeleteMessage, UpdateChannel, Rebackfill, RebackfillJoin, vars
  <2>3. /\ top <= top' /\ history' \subseteq 1 .. top'
        /\ \A m \in history' : m \in history \/ top < m
    <3>1. top \in Int /\ history \subseteq 1 .. top /\ \A m \in history : m \in Int
      <4>1. history \subseteq 1 .. top
        BY DEF GapInv, Bounded
      <4>2. top \in Nat
        BY GapTypes
      <4>3. QED
        BY <4>1, <4>2
    <3>2. CASE top' = top /\ history' \subseteq history
      BY <3>1, <3>2
    <3>3. CASE top' = top + 1 /\ history' = history \cup {top'}
      <4>1. top < top' /\ 1 <= top' /\ top' \in Int
        BY <3>1, <3>3, GapTypes
      <4>2. \A m \in 1 .. top : m \in 1 .. top'
        BY <3>1, <4>1
      <4>3. QED
        BY <3>1, <3>3, <4>1, <4>2
    <3>4. QED
      BY <2>1, <3>2, <3>3
  <2>4. QED
    BY <2>2, <2>3, SameRuns
<1>2. ASSUME NEW r \in Runs, ManualStart(r) \/ ScheduledStart(r) \/ RebackfillStart(r)
      PROVE  GapInv'
  BY <1>2, StartGap DEF ManualStart, ScheduledStart, RebackfillStart
<1>3. ASSUME NEW r \in Runs, RunStep(r) PROVE GapInv'
  BY <1>3, ReadGap, FetchGap, VideosGap, PhotosGap, CaptionsGap, FailGap, BackfillGap, EndGap,
     FinishGap DEF RunStep
<1>4. CASE ClearDeleteVideos \/ ClearDeletePhotos \/ ClearResetHistory \/ ClearRecount
  BY <1>4, ClearGap
<1>5. /\ ~Crash /\ ~ClearAborted /\ ~ImportBegin /\ ~ImportMessage /\ ~ImportRecount
      /\ ~ImportAborted /\ \A r \in Runs : ~Expire(r)
  BY DEF Orderly, GapInv, Crash, ClearAborted, ImportBegin, ImportMessage, ImportRecount,
         ImportAborted, Expire
<1>6. QED
  BY <1>1, <1>2, <1>3, <1>4, <1>5 DEF Next, Handler

LEMMA GapInvariant ==
    ASSUME Orderly, SeedJoined
    PROVE  Spec => [](TypeOK /\ Registry /\ GapInv)
<1>1. Init => GapInv
  BY InitGap
<1>2. TypeOK /\ TypeOK' /\ Registry /\ GapInv /\ [Next]_vars => GapInv'
  BY NextGap
<1>3. QED
  BY <1>1, <1>2, TypeCorrect, RegistryInvariant, PTL DEF Spec

\* The rows of a channel stay in one piece: what pages newest first between MAX and the top
\* closes the hole before the run ends, and what pages downwards from MIN makes none, so
\* that MIN and MAX tell what is stored (walkHistory, Phases A and B of runSync).  The
\* hazards left out each make a hole (the run v_resume shows what becomes of one).
THEOREM RowsInOnePiece ==
    ASSUME Orderly, SeedJoined
    PROVE  Spec => []NoGap
<1>1. TypeOK /\ Registry /\ GapInv => NoGap
  <2> SUFFICES ASSUME TypeOK, GapInv, clearing = "idle",
                      \A r \in Runs : ~InIncremental(r) /\ ~MidPage(r)
               PROVE  GapFree
    BY DEF NoGap, GapFree
  <2>1. CASE \A r \in Runs : pc[r] \notin Walking
    BY <2>1 DEF GapInv
  <2>2. ASSUME NEW r \in Runs, pc[r] \in Walking PROVE GapFree
    <3>1. phase[r] = "B" /\ pc[r] # "photos"
      BY <2>2 DEF InIncremental, MidPage, TypeOK
    <3>2. QED
      BY <2>2, <3>1, BackfillGapFree DEF GapInv
  <2>3. QED
    BY <2>1, <2>2
<1>2. QED
  BY <1>1, GapInvariant, PTL

-----------------------------------------------------------------------------
(* Runs that end cleanly.  A channel whose history is complete has a row     *)
(* under every message, so that what the backfill skips is stored.           *)

Bottomed == \A m \in Media(history) : \E s \in Stored : s <= m

\* The model starts with media, and rows that cover its bottom or history_complete off.
SeedBottomed ==
    /\ MediaIds \cap (1 .. SeedTop) # {}
    /\ SeedComplete => \A m \in MediaIds \cap (1 .. SeedTop) :
                           \E s \in SeedVideos \cup SeedPhotos : s <= m

CleanInv ==
    /\ SeedTop <= top /\ MediaIds \cap (1 .. SeedTop) \subseteq history
    /\ historyComplete /\ clearing = "idle" => Bottomed
    /\ clearing = "mark" => ~historyComplete
    /\ \A r \in Runs :
         /\ pc[r] # "idle" => SeedTop <= upTo[r]
         /\ pc[r] \in Writing /\ chComplete[r] => Bottomed
         /\ EndsCleanly(r) => CaughtUp(r)

\* Some message with media is older than all that will be posted.
LEMMA OldMedia ==
    ASSUME CleanInv, SeedBottomed
    PROVE  \E h \in Media(history) : h \in Int /\ h <= SeedTop
BY SyncAssumption DEF SeedBottomed, CleanInv, Media

\* Rows come, messages are posted.
LEMMA CalmClean ==
    ASSUME TypeOK, GapInv, CleanInv, SeedBottomed,
           top <= top', history \subseteq history', \A m \in history' : m \in history \/ top < m,
           history' \subseteq Ids, top' \in Nat,
           Stored \subseteq Stored',
           historyComplete' /\ clearing' = "idle" => (historyComplete /\ clearing = "idle") \/ Bottomed,
           clearing' = "mark" => ~historyComplete',
           \A r \in Runs :
               /\ pc'[r] # "idle" => SeedTop <= upTo'[r]
               /\ pc'[r] \in Writing /\ chComplete'[r] =>
                      (pc[r] \in Writing /\ chComplete[r]) \/ Bottomed
               /\ EndsCleanly(r)' => CaughtUp(r) /\ upTo'[r] = upTo[r]
    PROVE  CleanInv'
<1>1. SeedTop \in Int /\ top \in Int /\ top' \in Int /\ SeedTop <= top'
  BY SyncAssumption, GapTypes DEF CleanInv
<1>2. ASSUME Bottomed PROVE Bottomed'
  <2>1. PICK s \in Stored : s \in Int /\ s <= SeedTop
    <3>1. PICK h \in Media(history) : h \in Int /\ h <= SeedTop
      BY OldMedia
    <3>2. PICK s \in Stored : s <= h
      BY <1>2, <3>1 DEF Bottomed
    <3>3. s \in Int
      BY GapTypes
    <3>4. QED
      BY <1>1, <3>1, <3>2, <3>3
  <2>2. ASSUME NEW m \in Media(history)' PROVE \E t \in Stored' : t <= m
    <3>1. m \in Int /\ (m \in Media(history) \/ top < m)
      BY GapTypes DEF Media
    <3>2. CASE m \in Media(history)
      BY <1>2, <3>2 DEF Bottomed
    <3>3. CASE top < m
      <4>1. s <= m
        BY <1>1, <2>1, <3>1, <3>3 DEF CleanInv
      <4>2. QED
        BY <2>1, <4>1
    <3>4. QED
      BY <3>1, <3>2, <3>3
  <2>3. QED
    BY <2>2 DEF Bottomed
<1>3. ASSUME NEW r \in Runs, EndsCleanly(r)' PROVE CaughtUp(r)'
  <2>1. CaughtUp(r) /\ upTo'[r] = upTo[r] /\ upTo[r] <= top /\ upTo[r] \in Int
    BY <1>3, GapTypes DEF GapInv, Bounded
  <2>2. ASSUME NEW m \in Media(history)', m \in 1 .. upTo[r] PROVE m \in Media(history)
    BY <1>1, <2>1, <2>2 DEF Media
  <2>3. QED
    BY <2>1, <2>2 DEF CaughtUp
<1>4. SeedTop <= top' /\ MediaIds \cap (1 .. SeedTop) \subseteq history'
  BY <1>1 DEF CleanInv
<1>5. historyComplete' /\ clearing' = "idle" => Bottomed'
  BY <1>2 DEF CleanInv
<1>6. \A r \in Runs : pc'[r] \in Writing /\ chComplete'[r] => Bottomed'
  BY <1>2 DEF CleanInv
<1>7. QED
  BY <1>3, <1>4, <1>5, <1>6 DEF CleanInv

\* What is above the oldest row, and what is not, make everything.
LEMMA BothParts ==
    ASSUME TypeOK, NEW r \in Runs, Topped(r), Bottomed
    PROVE  CaughtUp(r)
<1> SUFFICES ASSUME NEW m \in Media(history) \cap (1 .. upTo[r]) PROVE m \in Stored
  BY DEF CaughtUp
<1>1. m \in Ids /\ m \in Int /\ Due(r, m)
  BY GapTypes DEF Due, Media
<1>2. PICK s \in Stored : s <= m
  BY DEF Bottomed
<1>3. s \in Int
  BY GapTypes
<1>4. s = m \/ s < m
  BY <1>1, <1>2, <1>3
<1>5. QED
  BY <1>1, <1>2, <1>4 DEF Topped

\* A run that caught up has stored the oldest message.
LEMMA CaughtUpBottomed ==
    ASSUME TypeOK, CleanInv, SeedBottomed, NEW r \in Runs, pc[r] # "idle", CaughtUp(r)
    PROVE  Bottomed
<1>1. PICK h \in Media(history) : h \in Int /\ h <= SeedTop
  BY OldMedia
<1>2. SeedTop \in Int /\ upTo[r] \in Int /\ SeedTop <= upTo[r]
  BY SyncAssumption, GapTypes DEF CleanInv
<1>3. 1 <= h /\ h \in Stored
  <2>1. 1 <= h
    BY <1>1, GapTypes DEF Media
  <2>2. h \in 1 .. upTo[r]
    BY <1>1, <1>2, <2>1
  <2>3. QED
    BY <1>1, <2>1, <2>2 DEF CaughtUp
<1>4. ASSUME NEW m \in Media(history) PROVE \E s \in Stored : s <= m
  <2>1. m \in Int /\ 1 <= m
    BY GapTypes DEF Media
  <2>2. CASE m <= upTo[r]
    <3>1. m \in Stored
      BY <1>2, <2>1, <2>2 DEF CaughtUp
    <3>2. QED
      BY <2>1, <3>1
  <2>3. CASE ~(m <= upTo[r])
    BY <1>1, <1>2, <1>3, <2>1, <2>3
  <2>4. QED
    BY <2>2, <2>3
<1>5. QED
  BY <1>4 DEF Bottomed

\* A step of a run: only a run whose bottom was there or that reached it ends cleanly.
LEMMA RunStepClean ==
    ASSUME TypeOK, Registry, GapInv, CleanInv, SeedBottomed, NEW r \in Runs, RunStep(r)
    PROVE  CleanInv'
<1> USE DEF telegram, rows, flags, run, handlers
<1>1. /\ UNCHANGED <<history, top, clearing>> /\ Stored \subseteq Stored'
      /\ \A q \in Runs : q # r => /\ pc'[q] = pc[q] /\ upTo'[q] = upTo[q]
                                 /\ chComplete'[q] = chComplete[q] /\ status'[q] = status[q]
  BY DEF RunStep, ReadMaxSeen, Probe, ProbeFails, FetchPage, UpsertVideos, UpsertPhotos,
         PropagateCaptions, WalkFails, Stop, StartBackfill, SkipBackfill, SetHistoryComplete,
         ClearRunning, FinishRun, Step, TypeOK, Stored
<1>2. /\ pc[r] # "idle"
      /\ \/ UNCHANGED <<chComplete, upTo>> /\ pc[r] \in Writing
         \/ pc'[r] = "idle"
  <2>1. CASE FinishRun(r)
    BY <2>1 DEF FinishRun, Step, TypeOK
  <2>2. CASE ~FinishRun(r)
    <3>1. UNCHANGED <<chComplete, upTo>>
      BY <2>2 DEF RunStep, ReadMaxSeen, Probe, ProbeFails, FetchPage, UpsertVideos,
             UpsertPhotos, PropagateCaptions, WalkFails, StartBackfill, SkipBackfill,
             SetHistoryComplete, ClearRunning
    <3>2. pc[r] \in Writing
      BY <2>2 DEF RunStep, ReadMaxSeen, Probe, ProbeFails, FetchPage, UpsertVideos,
             UpsertPhotos, PropagateCaptions, WalkFails, Stop, StartBackfill, SkipBackfill,
             SetHistoryComplete, ClearRunning, Step, Writing, Walking
    <3>3. QED
      BY <3>1, <3>2 DEF Writing, Walking
  <2>3. QED
    BY <2>1, <2>2
<1>3. \/ historyComplete' = historyComplete
      \/ pc[r] = "complete"
  BY DEF RunStep, ReadMaxSeen, Probe, ProbeFails, FetchPage, UpsertVideos, UpsertPhotos,
         PropagateCaptions, WalkFails, StartBackfill, SkipBackfill, SetHistoryComplete,
         ClearRunning, FinishRun, Step
<1>4. EndsCleanly(r)' => pc[r] = "complete" \/ (pc[r] = "backfill" /\ chComplete[r])
  <2>1. CASE SkipBackfill(r) \/ SetHistoryComplete(r)
    BY <2>1 DEF SkipBackfill, SetHistoryComplete, Step
  <2>2. CASE ProbeFails(r) \/ WalkFails(r)
    BY <2>2 DEF ProbeFails, WalkFails, Stop, EndsCleanly, TypeOK
  <2>3. CASE ~SkipBackfill(r) /\ ~SetHistoryComplete(r) /\ ~ProbeFails(r) /\ ~WalkFails(r)
    BY <2>3 DEF RunStep, ReadMaxSeen, Probe, FirstWalk, FetchPage, WalkDone, UpsertVideos,
           UpsertPhotos, PropagateCaptions, StartBackfill, ClearRunning, FinishRun, Step,
           EndsCleanly, TypeOK
  <2>4. QED
    BY <2>1, <2>2, <2>3
<1>5. pc[r] = "complete" \/ (pc[r] = "backfill" /\ chComplete[r]) => CaughtUp(r)
  BY BothParts DEF GapInv, CleanInv, Writing
<1>6. pc[r] = "complete" => Bottomed
  BY <1>5, CaughtUpBottomed
<1>7. pc[r] \in {"complete", "backfill"} => pc[r] \in Writing
  BY DEF Writing
<1>8. ASSUME NEW q \in Runs, EndsCleanly(q)' PROVE CaughtUp(q) /\ upTo'[q] = upTo[q]
  <2>1. CASE q = r
    BY <1>2, <1>4, <1>5, <1>8, <2>1 DEF EndsCleanly
  <2>2. CASE q # r
    BY <1>1, <1>8, <2>2 DEF EndsCleanly, CleanInv
  <2>3. QED
    BY <2>1, <2>2
<1>9. ASSUME NEW q \in Runs
      PROVE  /\ pc'[q] # "idle" => SeedTop <= upTo'[q]
             /\ pc'[q] \in Writing /\ chComplete'[q] =>
                    (pc[q] \in Writing /\ chComplete[q]) \/ Bottomed
  <2>1. CASE q = r
    BY <1>2, <2>1 DEF CleanInv, Writing, Walking
  <2>2. CASE q # r
    BY <1>1, <2>2 DEF CleanInv
  <2>3. QED
    BY <2>1, <2>2
<1>10. /\ historyComplete' /\ clearing' = "idle" =>
              (historyComplete /\ clearing = "idle") \/ Bottomed
       /\ clearing' = "mark" => ~historyComplete'
  <2>1. clearing # "idle" => pc[r] # "complete"
    BY <1>7 DEF GapInv
  <2>2. QED
    BY <1>1, <1>3, <1>6, <2>1 DEF CleanInv
<1>11. /\ top' \in Nat /\ top <= top' /\ history' \subseteq Ids
  BY <1>1, GapTypes
<1>12. QED
  BY <1>1, <1>8, <1>9, <1>10, <1>11, CalmClean

\* A clear: no run is there to be misled, and history_complete goes off before it ends.
LEMMA ClearClean ==
    ASSUME TypeOK, GapInv, CleanInv, Orderly,
           ClearDeleteVideos \/ ClearDeletePhotos \/ ClearResetHistory \/ ClearRecount
    PROVE  CleanInv'
<1> USE DEF telegram, rows, flags, run
<1>1. UNCHANGED <<history, top, pc, upTo, chComplete, status>>
  BY DEF ClearDeleteVideos, ClearDeletePhotos, ClearResetHistory, ClearRecount
<1>2. \A r \in Runs : pc[r] \notin Writing
  BY DEF ClearDeleteVideos, ClearDeletePhotos, ClearResetHistory, ClearRecount, ClearStep,
         Orderly, GapInv
<1>3. /\ historyComplete' => clearing' # "idle"
      /\ clearing' = "mark" => ~historyComplete'
  BY DEF ClearDeleteVideos, ClearDeletePhotos, ClearResetHistory, ClearRecount, ClearStep,
         CleanInv
<1>4. \A r \in Runs : ~EndsCleanly(r)'
  BY <1>1, <1>2 DEF EndsCleanly, Writing
<1>5. QED
  BY <1>1, <1>2, <1>3, <1>4 DEF CleanInv

LEMMA StartClean ==
    ASSUME TypeOK, Registry, GapInv, CleanInv, SeedBottomed, Orderly, NEW r \in Runs,
           SyncStart(r), UNCHANGED clearing
    PROVE  CleanInv'
<1> USE DEF telegram, rows, flags
<1>1. \A q \in Runs : pc[q] \notin Writing
  BY SyncAssumption DEF Registry, SyncStart, MayStart, Syncing
<1>2. /\ clearing = "idle" /\ UNCHANGED <<history, top, videos, photos, historyComplete, clearing>>
      /\ pc'[r] = "start" /\ upTo'[r] = top /\ chComplete'[r] = historyComplete
      /\ \A q \in Runs : q # r => pc'[q] = pc[q] /\ upTo'[q] = upTo[q]
  BY DEF SyncStart, Orderly, TypeOK
<1>3. Stored' = Stored
  BY <1>2 DEF Stored
<1>4. ASSUME NEW q \in Runs
      PROVE  /\ pc'[q] # "idle" => SeedTop <= upTo'[q]
             /\ pc'[q] \in Writing /\ chComplete'[q] => Bottomed
             /\ ~EndsCleanly(q)'
  <2>1. CASE q = r
    BY <1>2, <2>1 DEF CleanInv, EndsCleanly
  <2>2. CASE q # r
    BY <1>1, <1>2, <2>2 DEF CleanInv, EndsCleanly, Writing
  <2>3. QED
    BY <2>1, <2>2
<1>5. Bottomed' <=> Bottomed
  BY <1>2, <1>3 DEF Bottomed
<1>6. QED
  BY <1>2, <1>4, <1>5 DEF CleanInv

LEMMA NextClean ==
    ASSUME Orderly, "delete" \notin Hazards, SeedBottomed,
           TypeOK, Registry, GapInv, CleanInv, [Next]_vars
    PROVE  CleanInv'
<1> USE DEF telegram, rows, flags, run
<1>1. CASE Post \/ UpdateChannel \/ Rebackfill \/ RebackfillJoin \/ UNCHANGED vars
  <2>1. /\ UNCHANGED <<videos, photos, pc, upTo, chComplete, status, clearing>>
        /\ historyComplete' => historyComplete
    BY <1>1 DEF Post, UpdateChannel, Rebackfill, RebackfillJoin, handlers, vars, TypeOK
  <2>2. \/ UNCHANGED <<top, history>>
        \/ top < MaxId /\ top' = top + 1 /\ history' = history \cup {top + 1}
    BY <1>1 DEF Post, UpdateChannel, Rebackfill, RebackfillJoin, vars
  <2>3. /\ top' \in Nat /\ top <= top' /\ history' \subseteq Ids /\ history \subseteq history'
        /\ \A m \in history' : m \in history \/ top < m
    <3>1. top \in Nat /\ MaxId \in Nat /\ history \subseteq Ids
      BY GapTypes, SyncAssumption
    <3>2. top < MaxId => top + 1 \in Ids /\ top + 1 \in Nat /\ top <= top + 1 /\ top < top + 1
      BY <3>1 DEF Ids
    <3>3. CASE UNCHANGED <<top, history>>
      BY <3>1, <3>3
    <3>4. CASE top < MaxId /\ top' = top + 1 /\ history' = history \cup {top + 1}
      BY <3>1, <3>2, <3>4
    <3>5. QED
      BY <2>2, <3>3, <3>4
  <2>4. Stored' = Stored
    BY <2>1 DEF Stored
  <2>5. ASSUME NEW r \in Runs
        PROVE  /\ pc'[r] # "idle" => SeedTop <= upTo'[r]
               /\ EndsCleanly(r)' => CaughtUp(r) /\ upTo'[r] = upTo[r]
    BY <2>1 DEF CleanInv, EndsCleanly
  <2>6. clearing' = "mark" => ~historyComplete'
    BY <2>1 DEF CleanInv
  <2>7. QED
    BY <2>1, <2>3, <2>4, <2>5, <2>6, CalmClean
<1>2. ASSUME NEW r \in Runs, ManualStart(r) \/ ScheduledStart(r) \/ RebackfillStart(r)
      PROVE  CleanInv'
  BY <1>2, StartClean DEF ManualStart, ScheduledStart, RebackfillStart, handlers
<1>3. ASSUME NEW r \in Runs, RunStep(r) PROVE CleanInv'
  BY <1>3, RunStepClean
<1>4. CASE ClearDeleteVideos \/ ClearDeletePhotos \/ ClearResetHistory \/ ClearRecount
  BY <1>4, ClearClean
<1>5. /\ ~DeleteMessage /\ ~Crash /\ ~ClearAborted /\ ~ImportBegin /\ ~ImportMessage
      /\ ~ImportRecount /\ ~ImportAborted /\ \A r \in Runs : ~Expire(r)
  BY DEF Orderly, GapInv, DeleteMessage, Crash, ClearAborted, ImportBegin, ImportMessage,
         ImportRecount, ImportAborted, Expire
<1>6. QED
  BY <1>1, <1>2, <1>3, <1>4, <1>5 DEF Next, Handler

LEMMA InitClean ==
    ASSUME Init, SeedBottomed
    PROVE  CleanInv
<1>1. /\ SeedTop \in Nat /\ SeedTop <= top
      /\ MediaIds \cap (1 .. SeedTop) \subseteq history
  BY SyncAssumption DEF Init
<1>2. historyComplete => Bottomed
  BY DEF Init, SeedBottomed, Bottomed, Stored, Media
<1>3. QED
  BY <1>1, <1>2 DEF Init, CleanInv, Writing, Walking, EndsCleanly

\* A run that ends without reporting anything leaves no media message out that was there
\* when it was started, whatever was posted, clicked, cleared or failing before it: the
\* incremental walk and the backfill leave everything above the oldest row stored, and
\* below it there is nothing when the bottom was once reached (runSync).  Deletions are
\* left out, and so is a channel that was complete without media: the rows no longer
\* show what history_complete was set for.
THEOREM CleanRunsCatchUp ==
    ASSUME Orderly, "delete" \notin Hazards, SeedJoined, SeedBottomed
    PROVE  Spec => []CleanRunCatchesUp
<1>1. Init => CleanInv
  BY InitClean
<1>2. TypeOK /\ Registry /\ GapInv /\ CleanInv /\ [Next]_vars => CleanInv'
  BY NextClean
<1>3. CleanInv => CleanRunCatchesUp
  BY DEF CleanInv, CleanRunCatchesUp
<1>4. QED
  BY <1>1, <1>2, <1>3, GapInvariant, PTL DEF Spec

=============================================================================
