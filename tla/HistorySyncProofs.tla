------------------------- MODULE HistorySyncProofs -------------------------
(* Theorems about HistorySync, for every value of its constants.            *)
EXTENDS HistorySync, FiniteSetTheorems, TLAPS

\* The row counts are numbers: tables are finite.
LEMMA RowCounts ==
    ASSUME TypeOK
    PROVE  /\ Cardinality(videos) \in Nat
           /\ Cardinality(photos) \in Nat
<1>1. IsFiniteSet(Ids)
  BY FS_Interval, SyncAssumption DEF Ids
<1>2. VideoIds \subseteq Ids /\ PhotoIds \subseteq Ids
  BY SyncAssumption
<1>3. IsFiniteSet(videos) /\ IsFiniteSet(photos)
  BY <1>1, <1>2, FS_Subset DEF TypeOK
<1> QED
  BY <1>3, FS_CardinalityType

LEMMA ZeroBound == 0 \in 0 .. MaxId
BY SyncAssumption

LEMMA InitType == Init => TypeOK
<1> SUFFICES ASSUME Init PROVE TypeOK
  OBVIOUS
<1>1. IsFiniteSet(Ids)
  BY FS_Interval, SyncAssumption DEF Ids
<1>2. IsFiniteSet(SeedVideos) /\ IsFiniteSet(SeedPhotos)
  <2>1. SeedVideos \subseteq Ids /\ SeedPhotos \subseteq Ids
    BY SyncAssumption
  <2> QED BY <1>1, <2>1, FS_Subset
<1>3. Cardinality(SeedVideos) \in Nat /\ Cardinality(SeedPhotos) \in Nat
  BY <1>2, FS_CardinalityType
<1>4. history \subseteq Ids /\ top \in 0 .. MaxId
  BY SyncAssumption DEF Init, Ids
<1>5. videos \subseteq VideoIds /\ photos \subseteq PhotoIds /\ historyComplete \in BOOLEAN
  BY SyncAssumption DEF Init
<1>6. indexed \in BOOLEAN
  BY DEF Init
<1> QED
  BY <1>3, <1>4, <1>5, <1>6, ZeroBound DEF Init, TypeOK

\* Steps of the environment and of the handlers keep the types.
LEMMA EnvironmentType ==
    ASSUME TypeOK, Post \/ DeleteMessage \/ Crash \/ Handler
    PROVE  TypeOK'
<1> USE DEF telegram, rows, flags, recount, walk, run, registry, handlers
<1>1. CASE Post
  BY <1>1, SyncAssumption DEF Post, TypeOK, Ids
<1>2. CASE DeleteMessage
  BY <1>2 DEF DeleteMessage, TypeOK
<1>3. CASE Crash
  BY <1>3, ZeroBound DEF Crash, TypeOK
<1>4. CASE UpdateChannel \/ Rebackfill \/ RebackfillJoin
  BY <1>4 DEF UpdateChannel, Rebackfill, RebackfillJoin, TypeOK
<1>5. CASE ClearDeleteVideos \/ ClearDeletePhotos \/ ClearResetHistory \/ ClearAborted
  BY <1>5 DEF ClearDeleteVideos, ClearDeletePhotos, ClearResetHistory,
              ClearAborted, ClearStep, TypeOK
<1>6. CASE ClearRecount \/ ImportRecount
  BY <1>6, RowCounts DEF ClearRecount, ImportRecount, MarkChannelIndexed,
                         ClearStep, TypeOK
<1>7. CASE ImportBegin
  <2>1. left' \subseteq Ids
    BY <1>7, SyncAssumption DEF ImportBegin
  <2> QED
    BY <1>7, <2>1 DEF ImportBegin, TypeOK
<1>8. CASE ImportMessage \/ ImportAborted
  BY <1>8 DEF ImportMessage, ImportAborted, TypeOK
<1> QED
  BY <1>1, <1>2, <1>3, <1>4, <1>5, <1>6, <1>7, <1>8 DEF Handler

LEMMA StartType ==
    ASSUME TypeOK, NEW r \in Runs,
           ManualStart(r) \/ ScheduledStart(r) \/ RebackfillStart(r)
    PROVE  TypeOK'
<1> USE DEF telegram, rows, flags, recount, walk, run, registry, handlers
<1>1. /\ SyncStart(r)
      /\ rearming' \in BOOLEAN
      /\ UNCHANGED <<clearing, importing, left>>
  BY DEF ManualStart, ScheduledStart, RebackfillStart, TypeOK
<1> QED
  BY <1>1 DEF SyncStart, TypeOK, Writing, Walking

\* Steps of a sync goroutine keep the types.
LEMMA RunType ==
    ASSUME TypeOK, NEW r \in Runs, RunStep(r) \/ Expire(r)
    PROVE  TypeOK'
<1> USE DEF telegram, rows, flags, recount, walk, run, registry, handlers, Step
<1>1. CASE ReadMaxSeen(r)
  BY <1>1 DEF ReadMaxSeen, TypeOK, Writing, Walking
<1>2. CASE Probe(r)
  BY <1>2, SyncAssumption DEF Probe, FirstWalk, TypeOK, Writing, Walking
<1>3. CASE ProbeFails(r)
  BY <1>3 DEF ProbeFails, TypeOK, Writing, Walking
<1>4. CASE FetchPage(r)
  <2>1. Window(r) \subseteq Ids
    BY DEF Window, TypeOK
  <2> QED
    BY <1>4, <2>1 DEF FetchPage, WalkDone, TypeOK, Writing, Walking
<1>5. CASE UpsertVideos(r) \/ UpsertPhotos(r)
  BY <1>5 DEF UpsertVideos, UpsertPhotos, TypeOK, Writing, Walking
<1>6. CASE PropagateCaptions(r)
  BY <1>6 DEF PropagateCaptions, WalkDone, TypeOK, Writing, Walking
<1>7. CASE WalkFails(r)
  BY <1>7 DEF WalkFails, Stop, TypeOK, Writing, Walking
<1>8. CASE StartBackfill(r)
  BY <1>8 DEF StartBackfill, TypeOK, Writing, Walking
<1>9. CASE SkipBackfill(r) \/ SetHistoryComplete(r) \/ ClearRunning(r)
  BY <1>9 DEF SkipBackfill, SetHistoryComplete, ClearRunning, TypeOK, Writing, Walking
<1>10. CASE FinishRun(r)
  <2>1. indexed' \in BOOLEAN /\ videoCount' \in Nat /\ photoCount' \in Nat
    BY <1>10, RowCounts DEF FinishRun, MarkChannelIndexed, TypeOK
  <2> QED
    BY <1>10, <2>1, ZeroBound DEF FinishRun, TypeOK, Writing, Walking
<1>11. CASE Expire(r)
  BY <1>11 DEF Expire, TypeOK
<1> QED
  BY <1>1, <1>2, <1>3, <1>4, <1>5, <1>6, <1>7, <1>8, <1>9, <1>10, <1>11 DEF RunStep

\* Every variable has its type in every reachable state.
THEOREM TypeCorrect == Spec => []TypeOK
<1>1. TypeOK /\ [Next]_vars => TypeOK'
  <2> SUFFICES ASSUME TypeOK, [Next]_vars PROVE TypeOK'
    OBVIOUS
  <2>1. CASE UNCHANGED vars
    BY <2>1 DEF vars, telegram, rows, flags, recount, walk, run, registry,
                handlers, TypeOK
  <2>2. CASE Next
    BY <2>2, EnvironmentType, StartType, RunType DEF Next
  <2> QED
    BY <2>1, <2>2
<1> QED
  BY <1>1, InitType, PTL DEF Spec

-----------------------------------------------------------------------------
(* One writer.  The entry of the channel is the run whose Running flag is   *)
(* on, and the flag is on exactly while the run may still write.            *)

Registry ==
    /\ \A r \in Runs : pc[r] \in Writing <=> running[r]
    /\ \A r \in Runs : running[r] => entry = r

LEMMA RegistryStep == TypeOK /\ Registry /\ [Next]_vars => Registry'
<1> SUFFICES ASSUME TypeOK, Registry, [Next]_vars PROVE Registry'
  OBVIOUS
<1> USE DEF Registry, registry
<1>1. CASE UNCHANGED <<pc, registry>>
  BY <1>1
<1>2. ASSUME NEW r \in Runs, SyncStart(r) PROVE Registry'
  BY <1>2, SyncAssumption DEF SyncStart, MayStart, Syncing, TypeOK, Writing, Walking
<1>3. ASSUME NEW r \in Runs, pc[r] \in Writing, UNCHANGED registry,
             \E to \in Writing : pc' = [pc EXCEPT ![r] = to]
      PROVE  Registry'
  BY <1>3 DEF TypeOK
<1>4. ASSUME NEW r \in Runs, ClearRunning(r) PROVE Registry'
  BY <1>4 DEF ClearRunning, Step, TypeOK, Writing, Walking
<1>5. ASSUME NEW r \in Runs, FinishRun(r) PROVE Registry'
  BY <1>5 DEF FinishRun, Step, TypeOK, Writing, Walking
<1>6. CASE Crash
  BY <1>6 DEF Crash, Writing, Walking
<1>7. ASSUME NEW r \in Runs, RunStep(r) PROVE Registry'
  <2>1. CASE ReadMaxSeen(r) \/ Probe(r) \/ ProbeFails(r)
    BY <2>1, <1>3 DEF ReadMaxSeen, Probe, ProbeFails, FirstWalk, Step, Writing, Walking
  <2>2. CASE FetchPage(r) \/ UpsertVideos(r) \/ UpsertPhotos(r) \/ PropagateCaptions(r)
    BY <2>2, <1>3 DEF FetchPage, UpsertVideos, UpsertPhotos, PropagateCaptions,
                      WalkDone, Step, Writing, Walking
  <2>3. CASE WalkFails(r)
    BY <2>3, <1>3 DEF WalkFails, Stop, Step, Writing, Walking
  <2>4. CASE StartBackfill(r) \/ SkipBackfill(r) \/ SetHistoryComplete(r)
    BY <2>4, <1>3 DEF StartBackfill, SkipBackfill, SetHistoryComplete, Step,
                      Writing, Walking
  <2> QED
    BY <1>7, <2>1, <2>2, <2>3, <2>4, <1>4, <1>5 DEF RunStep
<1>8. CASE Post \/ DeleteMessage \/ \E r \in Runs : Expire(r)
  BY <1>8, <1>1 DEF Post, DeleteMessage, Expire
<1>9. CASE Handler
  BY <1>9, <1>1 DEF Handler, UpdateChannel, Rebackfill, RebackfillJoin,
     ClearDeleteVideos, ClearDeletePhotos, ClearResetHistory, ClearRecount,
     ClearAborted, ImportBegin, ImportMessage, ImportRecount, ImportAborted
<1>10. CASE UNCHANGED vars
  BY <1>10, <1>1 DEF vars
<1> QED
  BY <1>2, <1>6, <1>7, <1>8, <1>9, <1>10
     DEF Next, ManualStart, ScheduledStart, RebackfillStart

LEMMA RegistryInvariant == Spec => []Registry
<1>1. Init => Registry
  BY DEF Init, Registry, Writing, Walking
<1> QED
  BY <1>1, RegistryStep, TypeCorrect, PTL DEF Spec

\* At most one sync goroutine of the channel may still write, whatever the
\* button, the scheduler and the re-backfill button do (SyncStart's check of
\* the entry's Running flag under syncMu).
THEOREM OneRun == Spec => []OneRunWrites
<1>1. Registry => OneRunWrites
  BY DEF Registry, OneRunWrites
<1> QED
  BY <1>1, RegistryInvariant, PTL

-----------------------------------------------------------------------------
(* The bottom of the history.  Without imports and without a clear that     *)
(* overlaps a run or is cut short, a backfill never skips a message that is  *)
(* older than everything stored: Below names those messages, and the        *)
(* invariant follows them through the steps of a page.                       *)

SerialClears == Hazards \cap {"import", "clearWhileSyncing", "handlerAbort"} = {}

Below(m) == m \in Media(history) /\ \A s \in Stored : m < s

\* Every message of the history below the rows is a candidate of the walk.
CoversBelow(r) ==
    Stored # {} => \A m \in Ids : Below(m) =>
        CASE pc[r] = "fetch"    -> offset[r] = 0 \/ m < offset[r]
          [] pc[r] = "videos"   -> m \in page[r] \/ \A p \in page[r] : m < p
          [] pc[r] = "photos"   -> m \in page[r] \ VideoIds \/ \A p \in page[r] : m < p
          [] pc[r] = "captions" -> \A p \in page[r] : m < p
          [] OTHER              -> FALSE

BackfillWalk ==
    \A r \in Runs : pc[r] \in Walking \cup {"complete"} /\ phase[r] = "B" =>
        ~chComplete[r] /\ CoversBelow(r)

\* A page is a run of consecutive messages of the history under the offset,
\* and its videos are in before its photos.
PageShape ==
    \A r \in Runs :
        /\ page[r] \subseteq 1 .. top
        /\ pc[r] \in {"videos", "photos"} =>
             \A m \in history : \A p, q \in page[r] : p < m /\ m < q => m \in page[r]
        /\ pc[r] \in {"videos", "photos", "captions"} =>
             \A p \in page[r] : offset[r] = 0 \/ p < offset[r]
        /\ pc[r] = "photos" => page[r] \cap VideoIds \subseteq Stored

BackfillInv ==
    /\ BottomCovered
    /\ history \subseteq 1 .. top /\ Stored \subseteq 1 .. top
    /\ ~importing
    /\ clearing # "idle" => \A r \in Runs : pc[r] \notin Writing
    /\ clearing = "mark" => ~historyComplete
    /\ \A r \in Runs :
         pc[r] \in Writing \ {"end"} /\ ~chComplete[r] => ~historyComplete
    /\ \A r \in Runs :
         (pc[r] = "probe" /\ maxSeen[r] > 0) \/ InIncremental(r) => Stored # {}
    /\ \A r \in Runs : pc[r] = "complete" => phase[r] = "B"
    /\ PageShape
    /\ BackfillWalk

\* The photos of a page: a message below every row is either below the page
\* or, when the page brought the first rows, would lie inside the page.
LEMMA PhotosKeepBackfillInv ==
    ASSUME SerialClears, TypeOK, Registry, BackfillInv, NEW r \in Runs, UpsertPhotos(r)
    PROVE  BackfillInv'
<1> USE DEF telegram, flags, walk, run, registry, handlers, UpsertPhotos, Step,
            TypeOK, Registry, BackfillInv, Stored, Media, Ids, Walking, Writing
<1>1. BottomCovered'
  BY DEF BottomCovered, BackfillWalk, InIncremental
<1>2. PageShape'
  BY DEF PageShape
<1>3. BackfillWalk'
  <2> SUFFICES ASSUME NEW q \in Runs, pc'[q] \in Walking \cup {"complete"},
                      phase'[q] = "B"
               PROVE  (~chComplete[q] /\ CoversBelow(q))'
    BY DEF BackfillWalk
  <2>1. CASE q # r
    BY <2>1
  <2>2. CASE q = r
    <3>1. ~chComplete[r] /\ CoversBelow(r)
      BY <2>2 DEF BackfillWalk
    <3>2. SUFFICES ASSUME NEW m \in Ids, Stored' # {}, Below(m)'
                   PROVE  \A p \in page[r] : m < p
      BY <2>2, <3>1 DEF CoversBelow
    <3>3. /\ Stored \subseteq Stored'
          /\ page[r] \cap PhotoIds \subseteq Stored'
          /\ pc[r] = "photos"
      OBVIOUS
    <3>4. m \in Media(history) /\ Below(m)
      BY <3>2, <3>3 DEF Below
    <3>5. CASE Stored # {}
      BY <3>1, <3>2, <3>3, <3>4, <3>5 DEF CoversBelow, MediaIds, Below
    <3>6. CASE Stored = {}
      <4>1. PICK s \in page[r] : m < s
        BY <3>2, <3>6 DEF Below
      <4>2. m \notin page[r] \cap PhotoIds
        BY <3>2, <3>3 DEF Below
      <4> QED
        BY <3>3, <3>4, <3>6, <4>1, <4>2 DEF PageShape, MediaIds, Below
    <3> QED
      BY <3>5, <3>6
  <2> QED
    BY <2>1, <2>2
<1>4. /\ history' \subseteq 1 .. top' /\ Stored' \subseteq 1 .. top'
      /\ \A q \in Runs :
           (pc'[q] = "probe" /\ maxSeen'[q] > 0) \/ InIncremental(q)' => Stored' # {}
  BY DEF PageShape, InIncremental
<1> QED
  BY <1>1, <1>2, <1>3, <1>4

\* Every other step of a sync goroutine.
LEMMA RunKeepsBackfillInv ==
    ASSUME SerialClears, TypeOK, Registry, BackfillInv, NEW r \in Runs,
           RunStep(r) \/ Expire(r)
    PROVE  BackfillInv'
<1> USE DEF telegram, rows, flags, recount, walk, run, registry, handlers, Step,
            TypeOK, Registry, BackfillInv, Stored, Media, Ids, Walking, Writing,
            InIncremental, BottomCovered, PageShape, BackfillWalk, CoversBelow, Below
<1>1. CASE ReadMaxSeen(r)
  BY <1>1, SMTT(30) DEF ReadMaxSeen, IsMaxCursor
<1>2. CASE Probe(r) \/ ProbeFails(r)
  BY <1>2, SMTT(30) DEF Probe, ProbeFails, FirstWalk
<1>3. CASE FetchPage(r)
  BY <1>3, SMTT(30) DEF FetchPage, Window, IsPage, MinId, WalkDone
<1>4. CASE UpsertVideos(r)
  <2> USE <1>4 DEF UpsertVideos
  <2>1. /\ Stored \subseteq Stored' /\ Stored' \subseteq 1 .. top
        /\ page[r] \cap VideoIds \subseteq Stored'
    OBVIOUS
  <2>2. PageShape'
    BY <2>1
  <2>3. BottomCovered'
    OBVIOUS
  <2>4. BackfillWalk'
    BY SMTT(30)
  <2> QED
    BY <2>1, <2>2, <2>3, <2>4
<1>5. CASE UpsertPhotos(r)
  BY <1>5, PhotosKeepBackfillInv
<1>6. CASE PropagateCaptions(r)
  BY <1>6, SMTT(30) DEF PropagateCaptions, IsBatchMin, WalkDone
<1>7. CASE WalkFails(r)
  BY <1>7, SMTT(30) DEF WalkFails, Stop
<1>8. CASE StartBackfill(r)
  BY <1>8, SMTT(30) DEF StartBackfill, IsMinCursor
<1>9. CASE SkipBackfill(r)
  BY <1>9, SMTT(30) DEF SkipBackfill
<1>10. CASE SetHistoryComplete(r)
  BY <1>10, SMTT(30) DEF SetHistoryComplete
<1>11. CASE ClearRunning(r)
  BY <1>11, SMTT(30) DEF ClearRunning
<1>12. CASE FinishRun(r)
  BY <1>12, SMTT(30) DEF FinishRun
<1>13. CASE Expire(r)
  BY <1>13, SMTT(30) DEF Expire
<1> QED
  BY <1>1, <1>2, <1>3, <1>4, <1>5, <1>6, <1>7, <1>8, <1>9, <1>10, <1>11, <1>12,
     <1>13 DEF RunStep

\* Telegram, the handlers, a crash and the start of a run.
LEMMA EnvironmentKeepsBackfillInv ==
    ASSUME SerialClears, TypeOK, Registry, BackfillInv,
           Post \/ DeleteMessage \/ Crash \/ Handler
    PROVE  BackfillInv'
<1> USE DEF telegram, rows, flags, recount, walk, run, registry, handlers,
            TypeOK, BackfillInv, Stored, Media, Ids, Walking, Writing,
            InIncremental, BottomCovered, PageShape, BackfillWalk, CoversBelow, Below
<1>1. CASE Post
  BY <1>1, SMTT(30) DEF Post
<1>2. CASE DeleteMessage
  BY <1>2, SMTT(30) DEF DeleteMessage
<1>3. CASE Crash
  BY <1>3, SMTT(30) DEF Crash, SerialClears
<1>4. CASE UpdateChannel \/ Rebackfill \/ RebackfillJoin
  BY <1>4, SMTT(30) DEF UpdateChannel, Rebackfill, RebackfillJoin
<1>5. CASE ClearDeleteVideos
  BY <1>5, SMTT(30) DEF ClearDeleteVideos, ClearStep, SerialClears
<1>6. CASE ClearDeletePhotos
  BY <1>6, SMTT(30) DEF ClearDeletePhotos, ClearStep
<1>7. CASE ClearResetHistory
  BY <1>7, SMTT(30) DEF ClearResetHistory, ClearStep
<1>8. CASE ClearRecount
  BY <1>8, SMTT(30) DEF ClearRecount, ClearStep
<1>9. CASE ClearAborted \/ ImportBegin \/ ImportMessage \/ ImportRecount \/ ImportAborted
  BY <1>9 DEF ClearAborted, ImportBegin, ImportMessage, ImportRecount,
              ImportAborted, SerialClears
<1> QED
  BY <1>1, <1>2, <1>3, <1>4, <1>5, <1>6, <1>7, <1>8, <1>9 DEF Handler

LEMMA StartKeepsBackfillInv ==
    ASSUME SerialClears, TypeOK, Registry, BackfillInv, NEW r \in Runs,
           SyncStart(r), UNCHANGED <<clearing, importing>>
    PROVE  BackfillInv'
BY SMTT(30)
   DEF telegram, rows, flags, recount, walk, SyncStart, MayStart, Syncing, TypeOK,
       Registry, BackfillInv, Stored, Media, Ids, Walking, Writing, InIncremental,
       BottomCovered, PageShape, BackfillWalk, CoversBelow, Below, SerialClears

\* The model starts with rows that cover the bottom of the history, or with
\* history_complete off.
SeedCovered ==
    SeedComplete =>
        \A m \in MediaIds \cap (1 .. SeedTop) :
            SeedVideos \cup SeedPhotos # {} =>
                \E s \in SeedVideos \cup SeedPhotos : s <= m

\* history_complete never hides work that the backfill still has below the
\* oldest row: interruptions, timeouts, crashes, torn pages, failed cursor
\* reads, re-backfills, deletions and clears of an idle channel cannot make a
\* run switch the backfill off too early (walkHistory, Phase B of runSync).
THEOREM BottomNeverSkipped ==
    ASSUME SerialClears, SeedCovered
    PROVE  Spec => []BottomCovered
<1>1. Init => BackfillInv
  BY SyncAssumption
     DEF Init, SeedCovered, BackfillInv, Stored, Media, Ids, Walking, Writing,
         InIncremental, BottomCovered, PageShape, BackfillWalk
<1>2. TypeOK /\ Registry /\ BackfillInv /\ [Next]_vars => BackfillInv'
  <2> SUFFICES ASSUME TypeOK, Registry, BackfillInv, [Next]_vars
               PROVE  BackfillInv'
    OBVIOUS
  <2>1. CASE UNCHANGED vars
    BY <2>1 DEF vars, telegram, rows, flags, walk, run, handlers, BackfillInv,
       Stored, Media, InIncremental, BottomCovered, PageShape, BackfillWalk,
       CoversBelow, Below
  <2>2. CASE \E r \in Runs : ManualStart(r) \/ ScheduledStart(r) \/ RebackfillStart(r)
    BY <2>2, StartKeepsBackfillInv
       DEF ManualStart, ScheduledStart, RebackfillStart, handlers
  <2> QED
    BY <2>1, <2>2, RunKeepsBackfillInv, EnvironmentKeepsBackfillInv DEF Next
<1>3. BackfillInv => BottomCovered
  BY DEF BackfillInv
<1> QED
  BY <1>1, <1>2, <1>3, TypeCorrect, RegistryInvariant, PTL DEF Spec
=============================================================================
