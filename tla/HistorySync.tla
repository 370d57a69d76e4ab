---------------------------- MODULE HistorySync ----------------------------
(***************************************************************************)
(* Synchronisation of one channel's Telegram history into the videos and   *)
(* photos tables (internal/indexer/sync.go, scheduler.go), together with   *)
(* the HTTP handlers that write the same rows: the sync button, the        *)
(* re-backfill button, the auto-sync switch, clearing a channel and        *)
(* importing a JSON export (internal/api/handlers/channels.go, import.go). *)
(*                                                                         *)
(* A message is its tg_msg_id.  Whether it carries a video, a photo or     *)
(* neither is fixed by the constants VideoIds and PhotoIds; a table is the *)
(* set of message ids it has rows for.  Every database statement and every *)
(* Telegram request is one step.                                           *)
(***************************************************************************)
EXTENDS Integers, FiniteSets

CONSTANTS
    MaxId,          \* bound: the newest message id ever posted
    PageSize,       \* messages.getHistory limit (100 in the code)
    VideoIds,       \* ids of messages that carry a video
    PhotoIds,       \* ids of messages that carry a photo
    Runs,           \* identities of sync goroutines
    NoRun,          \* no sync entry for the channel
    Exports,        \* the sets of ids a JSON export may hold
    Hazards,        \* which optional environment steps may happen
    SeedTop,        \* newest message when the model starts
    SeedVideos,     \* rows stored when the model starts
    SeedPhotos,
    SeedComplete    \* history_complete when the model starts

Ids == 1 .. MaxId
MediaIds == VideoIds \cup PhotoIds

\* The optional steps: user operations that race the sync, and faults.
AllHazards ==
    {"delete", "rebackfill", "toggle", "clear", "clearWhileSyncing", "import",
     "crash", "timeout", "probe", "cursorRead", "incremental", "backfill", "torn",
     "handlerAbort"}

ASSUME SyncAssumption ==
    /\ MaxId \in Nat
    /\ PageSize \in Nat \ {0}
    /\ VideoIds \subseteq Ids
    /\ PhotoIds \subseteq Ids
    /\ VideoIds \cap PhotoIds = {}
    /\ NoRun \notin Runs
    /\ Exports \subseteq SUBSET Ids
    /\ Hazards \subseteq AllHazards
    /\ SeedTop \in 0 .. MaxId
    /\ SeedVideos \subseteq VideoIds \cap (1 .. SeedTop)
    /\ SeedPhotos \subseteq PhotoIds \cap (1 .. SeedTop)
    /\ SeedComplete \in BOOLEAN

VARIABLES
    \* Telegram
    history,         \* ids of the messages that exist
    top,             \* newest id ever posted
    \* PostgreSQL: tables videos and photos, the channels row
    videos,
    photos,
    historyComplete,
    indexed,         \* last_indexed_at IS NOT NULL
    autoSync,
    videoCount,      \* channels.video_count
    photoCount,      \* channels.photo_count
    \* Indexer.syncs[channel]: the entry's run, and every run's Running flag
    entry,
    running,
    \* locals of each runSync goroutine
    pc,
    chComplete,      \* ch.HistoryComplete as read by SyncStart
    maxSeen,
    phase,           \* "A" incremental walk, "B" backfill walk
    offset,          \* offsetID of the next page, 0 = from the newest message
    page,            \* ids of the page being written
    expired,         \* the run context's SYNC_RUN_TIMEOUT has passed
    status,          \* SyncState: "ok", "error" (LastError), "interrupted" (Note)
    upTo,            \* history variable: the newest message at SyncStart
    \* the handlers that are in flight
    clearing,        \* ClearVideos: next statement
    rearming,        \* Backfill: between ResetHistoryComplete and SyncStart
    importing,       \* Import: inside the row loop
    left             \* Import: messages of the export not yet upserted

telegram == <<history, top>>
rows     == <<videos, photos>>
flags    == <<historyComplete, autoSync>>
recount  == <<indexed, videoCount, photoCount>>
walk     == <<maxSeen, phase, offset, page>>
run      == <<chComplete, upTo>>
registry == <<entry, running>>
handlers == <<clearing, rearming, importing, left>>
vars == <<telegram, rows, flags, recount, walk, run, registry, handlers,
          pc, expired, status>>

-----------------------------------------------------------------------------
Stored == videos \cup photos
Media(S) == S \cap MediaIds

\* MaxMsgIDForChannel and MinMsgIDForChannel: both tables together, 0 when empty.
IsMaxCursor(n) ==
    IF Stored = {} THEN n = 0 ELSE n \in Stored /\ \A m \in Stored : m <= n
IsMinCursor(n) ==
    IF Stored = {} THEN n = 0 ELSE n \in Stored /\ \A m \in Stored : n <= m

\* Lower bound of the walk: MinID is the stored maximum for the incremental
\* walk and unbounded for the backfill.
MinId(r) == IF phase[r] = "A" THEN maxSeen[r] ELSE 0

\* The messages a history request can return: strictly below the offset
\* (0 = no bound) and strictly above the lower bound.
Window_SkipsOldest(r) ==
    {m \in history : (offset[r] = 0 \/ m < offset[r]) /\ m > MinId(r) + 1}
Window(r) ==
    {m \in history : (offset[r] = 0 \/ m < offset[r]) /\ m > MinId(r)}

\* A page: the newest messages of the window, at most PageSize of them.
\* Telegram may return fewer than asked, but none only when there are none.
IsPage(S, W) ==
    /\ S \subseteq W
    /\ Cardinality(S) <= PageSize
    /\ S = {} => W = {}
    /\ \A m \in S : \A n \in W : n > m => n \in S

\* The cursor after a page is its oldest id.
IsBatchMin_OffByOne(n, S) == n + 1 \in S /\ \A m \in S : n + 1 <= m
IsBatchMin(n, S) == n \in S /\ \A m \in S : n <= m

\* Where runSync goes when a walk is exhausted, and after the probe: the
\* incremental walk is skipped when nothing is stored.
WalkDone_KeepsPolling(r) == "fetch"
WalkDone(r) == IF phase[r] = "A" THEN "backfill" ELSE "complete"

FirstWalk_NeverIncremental(r) == "backfill"
FirstWalk(r) == IF maxSeen[r] > 0 THEN "fetch" ELSE "backfill"

\* UPDATE channels SET video_count = count(*), ..., last_indexed_at = NOW()
MarkChannelIndexed_Delta ==
    /\ indexed' = TRUE
    /\ videoCount' = Cardinality(videos) - videoCount
    /\ photoCount' = Cardinality(photos)
MarkChannelIndexed_VideosOnly ==
    /\ indexed' = TRUE
    /\ videoCount' = Cardinality(videos)
    /\ photoCount' = photoCount
MarkChannelIndexed ==
    /\ indexed' = TRUE
    /\ videoCount' = Cardinality(videos)
    /\ photoCount' = Cardinality(photos)

\* Where a run may still write rows or flags, and where it is inside a walk.
Walking == {"fetch", "videos", "photos", "captions"}
Writing == Walking \cup {"start", "probe", "backfill", "complete", "end"}

Syncing == entry # NoRun /\ running[entry]

-----------------------------------------------------------------------------
Init ==
    /\ history = 1 .. SeedTop
    /\ top = SeedTop
    /\ videos = SeedVideos
    /\ photos = SeedPhotos
    /\ historyComplete = SeedComplete
    /\ indexed = (SeedVideos \cup SeedPhotos # {})
    /\ autoSync = TRUE
    /\ videoCount = Cardinality(SeedVideos)
    /\ photoCount = Cardinality(SeedPhotos)
    /\ entry = NoRun
    /\ running = [r \in Runs |-> FALSE]
    /\ pc = [r \in Runs |-> "idle"]
    /\ chComplete = [r \in Runs |-> FALSE]
    /\ maxSeen = [r \in Runs |-> 0]
    /\ phase = [r \in Runs |-> "A"]
    /\ offset = [r \in Runs |-> 0]
    /\ page = [r \in Runs |-> {}]
    /\ expired = [r \in Runs |-> FALSE]
    /\ status = [r \in Runs |-> "ok"]
    /\ upTo = [r \in Runs |-> 0]
    /\ clearing = "idle"
    /\ rearming = FALSE
    /\ importing = FALSE
    /\ left = {}

-----------------------------------------------------------------------------
(* Telegram: messages are posted with growing ids, and may be deleted. *)

Post ==
    /\ top < MaxId
    /\ top' = top + 1
    /\ history' = history \cup {top + 1}
    /\ UNCHANGED <<rows, flags, recount, walk, run, registry, handlers,
                   pc, expired, status>>

DeleteMessage ==
    /\ "delete" \in Hazards
    /\ \E m \in history : history' = history \ {m}
    /\ UNCHANGED <<top, rows, flags, recount, walk, run, registry, handlers,
                   pc, expired, status>>

-----------------------------------------------------------------------------
(* SyncStart: under syncMu, refuse while the channel's entry is running,   *)
(* otherwise snapshot the channel row, install a fresh entry and start the *)
(* goroutine.                                                              *)

MayStart_Always == TRUE
MayStart == ~Syncing

SyncStart(r) ==
    /\ MayStart
    /\ clearing # "idle" => "clearWhileSyncing" \in Hazards
    /\ pc[r] = "idle"
    /\ entry' = r
    /\ running' = [running EXCEPT ![r] = TRUE]
    /\ pc' = [pc EXCEPT ![r] = "start"]
    /\ chComplete' = [chComplete EXCEPT ![r] = historyComplete]
    /\ upTo' = [upTo EXCEPT ![r] = top]
    /\ UNCHANGED <<telegram, rows, flags, recount, walk, expired, status>>

ManualStart(r) == SyncStart(r) /\ UNCHANGED handlers

\* ChannelsForAutoSync: indexed at least once, and auto_sync still on.
AutoSyncEligible == indexed /\ autoSync

\* One channel of a scheduler sweep.
ScheduledStart(r) ==
    /\ AutoSyncEligible
    /\ SyncStart(r)
    /\ UNCHANGED handlers

-----------------------------------------------------------------------------
(* runSync                                                                 *)

Step(r, from, to) == pc[r] = from /\ pc' = [pc EXCEPT ![r] = to]

\* The run ends early: reportSyncErr notes an interruption when the run
\* context is over and an error otherwise.
Stop_AsBottom(r, from) == Step(r, from, "complete") /\ UNCHANGED status
Stop(r, from) ==
    /\ Step(r, from, "end")
    /\ status' = [status EXCEPT ![r] = IF expired[r] THEN "interrupted" ELSE "error"]

\* maxSeen, _ := MaxMsgIDForChannel: a failed read leaves 0.
ReadMaxSeen(r) ==
    /\ Step(r, "start", "probe")
    /\ \E n \in 0 .. MaxId :
        /\ \/ IsMaxCursor(n) /\ ~expired[r]
           \/ n = 0 /\ (expired[r] \/ "cursorRead" \in Hazards)
        /\ maxSeen' = [maxSeen EXCEPT ![r] = n]
    /\ UNCHANGED <<telegram, rows, flags, recount, phase, offset, page, run,
                   registry, handlers, expired, status>>

\* One message is requested: an empty history or an error ends the run.
Probe(r) ==
    /\ ~expired[r]
    /\ history # {}
    /\ Step(r, "probe", FirstWalk(r))
    /\ phase' = [phase EXCEPT ![r] = "A"]
    /\ offset' = [offset EXCEPT ![r] = 0]
    /\ UNCHANGED <<telegram, rows, flags, recount, maxSeen, page, run,
                   registry, handlers, expired, status>>

ProbeFails(r) ==
    /\ expired[r] \/ history = {} \/ "probe" \in Hazards
    /\ Step(r, "probe", "end")
    /\ status' = [status EXCEPT ![r] = "error"]
    /\ UNCHANGED <<telegram, rows, flags, recount, walk, run, registry,
                   handlers, expired>>

\* walkHistory: fetch the next page; an empty one means the walk is exhausted.
FetchPage(r) ==
    /\ ~expired[r]
    /\ \E S \in SUBSET Window(r) :
        /\ IsPage(S, Window(r))
        /\ page' = [page EXCEPT ![r] = S]
        /\ Step(r, "fetch", IF S # {} THEN "videos" ELSE WalkDone(r))
    /\ UNCHANGED <<telegram, rows, flags, recount, maxSeen, phase, offset, run,
                   registry, handlers, expired, status>>

\* flushPage: one transaction for the page's videos, a second for its photos.
UpsertVideos(r) ==
    /\ ~expired[r]
    /\ Step(r, "videos", "photos")
    /\ videos' = videos \cup (page[r] \cap VideoIds)
    /\ UNCHANGED <<telegram, photos, flags, recount, walk, run, registry,
                   handlers, expired, status>>

UpsertPhotos(r) ==
    /\ ~expired[r]
    /\ Step(r, "photos", "captions")
    /\ photos' = photos \cup (page[r] \cap PhotoIds)
    /\ UNCHANGED <<telegram, videos, flags, recount, walk, run, registry,
                   handlers, expired, status>>

\* A third transaction propagates captions; then the cursor moves to the
\* oldest id of the page, or the walk stops when it would not move.
PropagateCaptions(r) ==
    /\ ~expired[r]
    /\ \E batchMin \in 0 .. MaxId :
        /\ IsBatchMin(batchMin, page[r])
        /\ offset' = [offset EXCEPT ![r] = batchMin]
        /\ Step(r, "captions",
                IF batchMin \in {0, offset[r]} THEN WalkDone(r) ELSE "fetch")
    /\ page' = [page EXCEPT ![r] = {}]
    /\ UNCHANGED <<telegram, rows, flags, recount, maxSeen, phase, run,
                   registry, handlers, expired, status>>

\* A failed request or transaction leaves the walk at once.  Which of them
\* may fail: those of the incremental walk, those of the backfill, and the
\* photo transaction that follows a committed video transaction.
MayFail(r) ==
    IF pc[r] = "photos" THEN "torn" \in Hazards
    ELSE IF phase[r] = "A" THEN "incremental" \in Hazards
    ELSE "backfill" \in Hazards

WalkFails(r) ==
    /\ expired[r] \/ MayFail(r)
    /\ \E from \in {"fetch", "videos", "photos", "captions"} : Stop(r, from)
    /\ UNCHANGED <<telegram, rows, flags, recount, walk, run, registry,
                   handlers, expired>>

\* Backfill starts below the oldest stored message (a failed read: from the
\* newest), and is skipped when the snapshot says the history is complete.
StartBackfill(r) ==
    /\ ~chComplete[r]
    /\ Step(r, "backfill", "fetch")
    /\ phase' = [phase EXCEPT ![r] = "B"]
    /\ \E n \in 0 .. MaxId :
        /\ \/ IsMinCursor(n) /\ ~expired[r]
           \/ n = 0 /\ (expired[r] \/ "cursorRead" \in Hazards)
        /\ offset' = [offset EXCEPT ![r] = n]
    /\ UNCHANGED <<telegram, rows, flags, recount, maxSeen, page, run,
                   registry, handlers, expired, status>>

SkipBackfill(r) ==
    /\ chComplete[r]
    /\ Step(r, "backfill", "end")
    /\ UNCHANGED <<telegram, rows, flags, recount, walk, run, registry,
                   handlers, expired, status>>

\* The bottom was reached: an error of this statement is swallowed.
SetHistoryComplete(r) ==
    /\ Step(r, "complete", "end")
    /\ historyComplete' = (historyComplete \/ ~expired[r])
    /\ UNCHANGED <<telegram, rows, autoSync, recount, walk, run, registry,
                   handlers, expired, status>>

\* The deferred function: first Running = false, then the recount, which is
\* still made under the run's context and is lost when that has expired.
\* The goroutine is gone afterwards.  (The code keeps the final SyncState for
\* the status endpoint; only its value up to the end of the run is used here.)
ClearRunning(r) ==
    /\ Step(r, "end", "mark")
    /\ running' = [running EXCEPT ![r] = FALSE]
    /\ UNCHANGED <<telegram, rows, flags, recount, walk, run, entry,
                   handlers, expired, status>>

FinishRun(r) ==
    /\ Step(r, "mark", "idle")
    /\ IF expired[r] THEN UNCHANGED recount ELSE MarkChannelIndexed
    /\ chComplete' = [chComplete EXCEPT ![r] = FALSE]
    /\ maxSeen' = [maxSeen EXCEPT ![r] = 0]
    /\ phase' = [phase EXCEPT ![r] = "A"]
    /\ offset' = [offset EXCEPT ![r] = 0]
    /\ page' = [page EXCEPT ![r] = {}]
    /\ expired' = [expired EXCEPT ![r] = FALSE]
    /\ upTo' = [upTo EXCEPT ![r] = 0]
    /\ status' = [status EXCEPT ![r] = "ok"]
    /\ UNCHANGED <<telegram, rows, flags, registry, handlers>>

\* SYNC_RUN_TIMEOUT passes.
Expire(r) ==
    /\ "timeout" \in Hazards
    /\ pc[r] # "idle"
    /\ ~expired[r]
    /\ expired' = [expired EXCEPT ![r] = TRUE]
    /\ UNCHANGED <<telegram, rows, flags, recount, walk, run, registry,
                   handlers, pc, status>>

RunStep(r) ==
    \/ ReadMaxSeen(r) \/ Probe(r) \/ ProbeFails(r)
    \/ FetchPage(r) \/ UpsertVideos(r) \/ UpsertPhotos(r)
    \/ PropagateCaptions(r) \/ WalkFails(r)
    \/ StartBackfill(r) \/ SkipBackfill(r) \/ SetHistoryComplete(r)
    \/ ClearRunning(r) \/ FinishRun(r)

-----------------------------------------------------------------------------
(* The server process dies: goroutines, handlers and the sync registry are *)
(* gone, the database stays.                                               *)

Crash ==
    /\ "crash" \in Hazards
    /\ clearing # "idle" => "handlerAbort" \in Hazards
    /\ entry' = NoRun
    /\ running' = [r \in Runs |-> FALSE]
    /\ pc' = [r \in Runs |-> "idle"]
    /\ chComplete' = [r \in Runs |-> FALSE]
    /\ maxSeen' = [r \in Runs |-> 0]
    /\ phase' = [r \in Runs |-> "A"]
    /\ offset' = [r \in Runs |-> 0]
    /\ page' = [r \in Runs |-> {}]
    /\ expired' = [r \in Runs |-> FALSE]
    /\ status' = [r \in Runs |-> "ok"]
    /\ upTo' = [r \in Runs |-> 0]
    /\ clearing' = "idle"
    /\ rearming' = FALSE
    /\ importing' = FALSE
    /\ left' = {}
    /\ UNCHANGED <<telegram, rows, flags, recount>>

-----------------------------------------------------------------------------
(* The handlers of channels.go and import.go.                              *)

UpdateChannel ==
    /\ "toggle" \in Hazards
    /\ autoSync' = ~autoSync
    /\ UNCHANGED <<telegram, rows, historyComplete, recount, walk, run,
                   registry, handlers, pc, expired, status>>

\* Backfill: clear history_complete, then SyncStart, which may find a run.
Rebackfill ==
    /\ "rebackfill" \in Hazards
    /\ ~rearming
    /\ rearming' = TRUE
    /\ historyComplete' = FALSE
    /\ UNCHANGED <<telegram, rows, autoSync, recount, walk, run, registry,
                   clearing, importing, left, pc, expired, status>>

RebackfillStart(r) ==
    /\ rearming
    /\ rearming' = FALSE
    /\ SyncStart(r)
    /\ UNCHANGED <<clearing, importing, left>>

\* SyncStart finds a run in progress and returns its state, or fails because
\* the request is over.
RebackfillJoin ==
    /\ rearming
    /\ ~MayStart \/ "handlerAbort" \in Hazards
    /\ rearming' = FALSE
    /\ UNCHANGED <<telegram, rows, flags, recount, walk, run, registry,
                   clearing, importing, left, pc, expired, status>>

\* ClearVideos: four statements, each its own transaction.
ClearStep(from, to) == clearing = from /\ clearing' = to

ClearDeleteVideos ==
    /\ "clear" \in Hazards
    /\ (\E r \in Runs : pc[r] \in Writing) => "clearWhileSyncing" \in Hazards
    /\ ClearStep("idle", "photos")
    /\ videos' = {}
    /\ UNCHANGED <<telegram, photos, flags, recount, walk, run, registry,
                   rearming, importing, left, pc, expired, status>>

ClearDeletePhotos ==
    /\ ClearStep("photos", "rearm")
    /\ photos' = {}
    /\ UNCHANGED <<telegram, videos, flags, recount, walk, run, registry,
                   rearming, importing, left, pc, expired, status>>

ClearResetHistory ==
    /\ ClearStep("rearm", "mark")
    /\ historyComplete' = FALSE
    /\ UNCHANGED <<telegram, rows, autoSync, recount, walk, run, registry,
                   rearming, importing, left, pc, expired, status>>

ClearRecount ==
    /\ ClearStep("mark", "idle")
    /\ MarkChannelIndexed
    /\ UNCHANGED <<telegram, rows, flags, walk, run, registry,
                   rearming, importing, left, pc, expired, status>>

\* The request context ends between two statements: the rest fails.
ClearAborted ==
    /\ "handlerAbort" \in Hazards
    /\ \E from \in {"photos", "rearm", "mark"} : ClearStep(from, "idle")
    /\ UNCHANGED <<telegram, rows, flags, recount, walk, run, registry,
                   rearming, importing, left, pc, expired, status>>

\* Import: one upsert per message of the export, in file order.
ImportBegin ==
    /\ "import" \in Hazards
    /\ ~importing
    /\ \E E \in Exports : E \subseteq history /\ left' = E
    /\ importing' = TRUE
    /\ UNCHANGED <<telegram, rows, flags, recount, walk, run, registry,
                   clearing, rearming, pc, expired, status>>

ImportMessage ==
    /\ importing
    /\ \E m \in left :
        /\ left' = left \ {m}
        /\ videos' = videos \cup ({m} \cap VideoIds)
        /\ photos' = photos \cup ({m} \cap PhotoIds)
    /\ UNCHANGED <<telegram, flags, recount, walk, run, registry,
                   clearing, rearming, importing, pc, expired, status>>

ImportRecount ==
    /\ importing
    /\ left = {}
    /\ importing' = FALSE
    /\ MarkChannelIndexed
    /\ UNCHANGED <<telegram, rows, flags, walk, run, registry,
                   clearing, rearming, left, pc, expired, status>>

ImportAborted ==
    /\ "handlerAbort" \in Hazards
    /\ importing
    /\ importing' = FALSE
    /\ left' = {}
    /\ UNCHANGED <<telegram, rows, flags, recount, walk, run, registry,
                   clearing, rearming, pc, expired, status>>

Handler ==
    \/ UpdateChannel \/ Rebackfill \/ RebackfillJoin
    \/ ClearDeleteVideos \/ ClearDeletePhotos \/ ClearResetHistory
    \/ ClearRecount \/ ClearAborted
    \/ ImportBegin \/ ImportMessage \/ ImportRecount \/ ImportAborted

-----------------------------------------------------------------------------
Next ==
    \/ Post \/ DeleteMessage \/ Crash \/ Handler
    \/ \E r \in Runs :
        \/ ManualStart(r) \/ ScheduledStart(r) \/ RebackfillStart(r)
        \/ RunStep(r) \/ Expire(r)

Spec == Init /\ [][Next]_vars

\* Goroutines and handlers keep running, and the scheduler's ticker keeps
\* firing; nothing obliges users, Telegram or faults.
Fairness ==
    /\ \A r \in Runs : WF_vars(RunStep(r))
    /\ WF_vars(\E r \in Runs : ScheduledStart(r))
    /\ WF_vars(RebackfillJoin \/ \E r \in Runs : RebackfillStart(r))
    /\ WF_vars(ClearDeletePhotos \/ ClearResetHistory \/ ClearRecount)
    /\ WF_vars(ImportMessage \/ ImportRecount)

FairSpec == Spec /\ Fairness

-----------------------------------------------------------------------------
(* Properties                                                              *)

\* Every variable has its type.
TypeOK ==
    /\ history \subseteq Ids
    /\ top \in 0 .. MaxId
    /\ videos \subseteq VideoIds
    /\ photos \subseteq PhotoIds
    /\ historyComplete \in BOOLEAN
    /\ indexed \in BOOLEAN
    /\ autoSync \in BOOLEAN
    /\ videoCount \in Nat
    /\ photoCount \in Nat
    /\ entry \in Runs \cup {NoRun}
    /\ running \in [Runs -> BOOLEAN]
    /\ pc \in [Runs -> Writing \cup {"idle", "mark"}]
    /\ chComplete \in [Runs -> BOOLEAN]
    /\ maxSeen \in [Runs -> 0 .. MaxId]
    /\ phase \in [Runs -> {"A", "B"}]
    /\ offset \in [Runs -> 0 .. MaxId]
    /\ page \in [Runs -> SUBSET Ids]
    /\ expired \in [Runs -> BOOLEAN]
    /\ status \in [Runs -> {"ok", "error", "interrupted"}]
    /\ upTo \in [Runs -> 0 .. MaxId]
    /\ clearing \in {"idle", "photos", "rearm", "mark"}
    /\ rearming \in BOOLEAN
    /\ importing \in BOOLEAN
    /\ left \subseteq Ids

\* A channel has at most one run between SyncStart and the moment it clears
\* Running: the sync button, the scheduler and the re-backfill button cannot
\* make two goroutines move the same cursor.
OneRunWrites ==
    \A r, s \in Runs : pc[r] \in Writing /\ pc[s] \in Writing => r = s

\* history_complete is only ever on when nothing older than the oldest stored
\* row is missing: whatever crashed, expired, failed or was clicked, a
\* backfill that still has work below the cursor is not switched off.
BottomCovered ==
    clearing = "idle" /\ historyComplete /\ Stored # {} =>
        \A m \in Media(history) : \E s \in Stored : s <= m

\* The incremental walk of r is under way: the newest messages are written
\* before the ones that join them to what was stored.
InIncremental(r) == phase[r] = "A" /\ pc[r] \in Walking

MidPage(r) == pc[r] = "photos"

\* Below the newest stored message nothing newer than the oldest one is
\* missing, except while an incremental walk, a page write or a clear is under way:
\* MIN and MAX describe the stored rows, which is what makes them cursors.
NoGap ==
    clearing = "idle" /\ (\A r \in Runs : ~InIncremental(r) /\ ~MidPage(r)) =>
        \A m \in Media(history) :
            (\E s, t \in Stored : s < m /\ m < t) => m \in Stored

Quiescent ==
    /\ \A r \in Runs : pc[r] = "idle"
    /\ clearing = "idle" /\ ~rearming /\ ~importing

\* With nothing in flight the channel's counters are the numbers of rows,
\* whichever recount came last.
CountsFresh ==
    Quiescent =>
        /\ videoCount = Cardinality(videos)
        /\ photoCount = Cardinality(photos)

CaughtUp(r) == Media(history) \cap (1 .. upTo[r]) \subseteq Stored

EndsCleanly(r) == pc[r] = "end" /\ status[r] = "ok"

\* A run that ends without reporting an error or an interruption leaves every
\* media message that existed when it was started in the tables, also when
\* runs before it were interrupted.
CleanRunCatchesUp == \A r \in Runs : EndsCleanly(r) => CaughtUp(r)

\* The incremental walk is skipped when the channel is empty; the backfill
\* covers that case.
EmptyChannelCovered ==
    \A r \in Runs : EndsCleanly(r) /\ maxSeen[r] = 0 => CaughtUp(r)

\* A run with history_complete off, such as the one Backfill starts, walks
\* the full history.
RebackfillRewalks ==
    \A r \in Runs : EndsCleanly(r) /\ ~chComplete[r] => CaughtUp(r)

\* A channel with saved progress is picked up by the next scheduler sweep.
ProgressIsSchedulable ==
    Quiescent /\ autoSync /\ Stored # {} => AutoSyncEligible

\* A channel that was cleared and not synced since is re-armed: its wiped
\* history comes back with the next sync.
WipedIsRearmed ==
    Quiescent /\ Stored = {} /\ Media(history) # {} => ~historyComplete

\* Every sync ends, whatever is posted, clicked or failing meanwhile.
SyncTerminates ==
    \A r \in Runs : pc[r] = "start" ~> pc[r] = "idle"

\* Every media message of a channel on auto-sync ends up stored.
EventuallyStored ==
    \A m \in MediaIds : m \in history ~> m \in Stored
=============================================================================
