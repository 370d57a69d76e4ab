----------------------------- MODULE MediaCache -----------------------------
(****************************************************************************)
(* The media cache: internal/cache/cache.go with its table                  *)
(* (internal/db/cache_entries.go), the requests that use it (the stream and *)
(* image handlers, adding and removing a favorite) and eviction.            *)
(*                                                                          *)
(* A key is one cached file: the document of a video or one photo.  Every   *)
(* SQL statement, file system call and critical section of m.mu is a step;  *)
(* any other process may move between two of them.                          *)
(****************************************************************************)
EXTENDS Naturals, Sequences, FiniteSets

CONSTANTS
    Keys,        \* cached files
    VideoKeys,   \* those that are documents of videos; the others are photos
    Users,
    Requests,    \* the HTTP requests ever made
    Kind,        \* Kind[q] \in {"play", "view", "add", "remove"}
    Target,      \* Target[q]: the key of request q
    Client,      \* Client[q]: the user who makes it
    Worker,      \* the goroutine of workerLoop
    Collector,   \* the goroutine of gcLoop
    QueueCap,    \* capacity of the job channel (256 in the code)
    DiskCap,     \* CACHE_CAP_GB, in files; 0 turns eviction off
    Truncated,   \* videos an earlier version left truncated on disk
    MaxCrashes,  \* how often the process dies
    NoKey, NoEntry

Procs == Requests \cup {Worker, Collector}

ASSUME CacheAssumption ==
    /\ IsFiniteSet(Keys) /\ VideoKeys \subseteq Keys
    /\ Truncated \subseteq VideoKeys
    /\ Kind \in [Requests -> {"play", "view", "add", "remove"}]
    /\ Target \in [Requests -> Keys]
    /\ Client \in [Requests -> Users]
    /\ Worker \notin Requests /\ Collector \notin Requests
    /\ Worker # Collector
    /\ NoKey \notin Keys
    /\ NoEntry \notin [pinned : BOOLEAN, completed : BOOLEAN]
    /\ QueueCap \in Nat \ {0} /\ DiskCap \in Nat /\ MaxCrashes \in Nat
    /\ \A q \in Requests : /\ Kind[q] = "play" => Target[q] \in VideoKeys
                           /\ Kind[q] = "view" => Target[q] \notin VideoKeys

VARIABLES
    entry,    \* rows of cache_entries
    lru,      \* the keys with a row by last_accessed_at, oldest first
    fav,      \* rows of favorites and photo_favorites: key -> users
    file,     \* <dir>/<id>.bin of each key
    tmp,      \* <dir>/tmp/<id>.dl of each key
    queue,    \* Manager.queue
    queued,   \* Manager.queued
    pc,       \* what each process does next
    job,      \* the key it works on
    handle,   \* where the file is that a downloading process writes to
    fresh,    \* nobody truncated that file since the process created it
    plan,     \* locals of evictIfNeeded
    served,   \* what a request found when it opened the file (history)
    bare,     \* favorites that lost or never got their pin (history)
    crashes

vars == <<entry, lru, fav, file, tmp, queue, queued, pc, job, handle, fresh,
          plan, served, bare, crashes>>
table == <<entry, lru, fav, bare>>
disk  == <<file, tmp, handle, fresh>>
jobs  == <<queue, queued>>

Files  == {"none", "part", "whole"}
NoPlan == [scan |-> {}, orphans |-> {}, stale |-> {}, victims |-> <<>>, total |-> 0]

-----------------------------------------------------------------------------
(* Rows and files *)

Completed(k) == entry[k] # NoEntry /\ entry[k].completed
OnDisk(k)    == file[k] # "none"

\* CompletePathFor; DownloadPhoto makes the same test.
Cached(k) == Completed(k) /\ OnDisk(k)

MovedToEnd(s, k) == Append(SelectSeq(s, LAMBDA x : x # k), k)

\* ON CONFLICT: pinned and completed are or-ed with what the row has.
Merged_Overwrites(row, pin, done) == [pinned |-> pin, completed |-> done]
Merged(row, pin, done) ==
    IF row = NoEntry THEN [pinned |-> pin, completed |-> done]
    ELSE [pinned |-> row.pinned \/ pin, completed |-> row.completed \/ done]

UpsertEntry(k, pin, done) ==
    /\ entry' = [entry EXCEPT ![k] = Merged(@, pin, done)]
    /\ lru' = MovedToEnd(lru, k)

DeleteEntry(k) ==
    /\ entry' = [entry EXCEPT ![k] = NoEntry]
    /\ lru' = SelectSeq(lru, LAMBDA x : x # k)
    /\ bare' = IF fav[k] # {} THEN bare \cup {k} ELSE bare

\* Unlinking the file at a path leaves its writers with a file nobody can see.
Unlinked(path, k) ==
    [p \in Procs |-> IF job[p] = k /\ handle[p] = path THEN "lost" ELSE handle[p]]

RemoveFile(k) ==
    /\ file' = [file EXCEPT ![k] = "none"]
    /\ handle' = Unlinked("file", k)
    /\ UNCHANGED <<tmp, fresh>>

\* Where a process can be: in a download, an eviction pass, or a handler.
Transferring == {"check", "create", "recreate", "write", "rewrite", "tmpstat",
                 "rename", "cleanup", "store"}
Evicting == {"scan", "load", "sweep", "row"}
Handling == {"start", "stat", "touch", "open", "drop", "mark", "ensure", "place",
             "submit", "send", "unqueue", "lock", "recheck", "pin", "placepin",
             "unpin", "done"}

Goto(p, l) == pc' = [pc EXCEPT ![p] = l]
At(p, l)   == pc[p] = l

-----------------------------------------------------------------------------
(* StreamServer.Handler and PhotoFileHandler, the parts that use the cache *)

\* The first CompletePathFor of either handler.
LookUp(q) ==
    /\ At(q, "start") /\ Kind[q] \in {"play", "view"}
    /\ Goto(q, IF Cached(job[q])
               THEN IF Kind[q] = "play" THEN "stat" ELSE "touch"
               ELSE IF Kind[q] = "play" THEN "ensure" ELSE "lock")
    /\ UNCHANGED <<table, disk, jobs, job, plan, served, crashes>>

\* The size check of a cached video.
IntegrityOK_ExistsOnly(k) == OnDisk(k)
IntegrityOK(k) == file[k] = "whole"

StatFile(q) ==
    /\ At(q, "stat")
    /\ Goto(q, IF IntegrityOK(job[q]) THEN "touch" ELSE "drop")
    /\ UNCHANGED <<table, disk, jobs, job, plan, served, crashes>>

Touch(q) ==
    /\ At(q, "touch") /\ Goto(q, "open")
    /\ lru' = IF entry[job[q]] # NoEntry THEN MovedToEnd(lru, job[q]) ELSE lru
    /\ UNCHANGED <<entry, fav, bare, disk, jobs, job, plan, served, crashes>>

\* http.ServeFile; whoever opens the file keeps it, whatever happens to its name.
ServeFile(q) ==
    /\ At(q, "open") /\ Goto(q, "done")
    /\ served' = [served EXCEPT ![q] = file[job[q]]]
    /\ UNCHANGED <<table, disk, jobs, job, plan, crashes>>

\* InvalidateCorrupt
DropCorrupt(q) ==
    /\ At(q, "drop") /\ Goto(q, "mark")
    /\ RemoveFile(job[q])
    /\ UNCHANGED <<table, jobs, job, plan, served, crashes>>

MarkIncomplete(q) ==
    /\ At(q, "mark") /\ Goto(q, "ensure")
    /\ entry' = [entry EXCEPT ![job[q]] =
                    IF @ = NoEntry THEN @ ELSE [@ EXCEPT !.completed = FALSE]]
    /\ UNCHANGED <<lru, fav, bare, disk, jobs, job, plan, served, crashes>>

\* EnsureCached
CheckEntry(q) ==
    /\ At(q, "ensure")
    /\ Goto(q, IF Completed(job[q]) THEN "done" ELSE "place")
    /\ UNCHANGED <<table, disk, jobs, job, plan, served, crashes>>

Placeholder(q) ==
    /\ At(q, "place") /\ Goto(q, "submit")
    /\ UpsertEntry(job[q], FALSE, FALSE)
    /\ UNCHANGED <<fav, bare, disk, jobs, job, plan, served, crashes>>

\* The lock of media.Server is per photo row, and every user has rows of their own.
Locked == {"recheck", "open"} \cup Transferring \cup Evicting

LockRow(q) ==
    /\ At(q, "lock") /\ Goto(q, "recheck")
    /\ \A r \in Requests \ {q} :
         Kind[r] = "view" /\ Target[r] = Target[q] /\ Client[r] = Client[q]
            => pc[r] \notin Locked
    /\ UNCHANGED <<table, disk, jobs, job, plan, served, crashes>>

Recheck(q) ==
    /\ At(q, "recheck")
    /\ Goto(q, IF Cached(job[q]) THEN "open" ELSE "check")
    /\ UNCHANGED <<table, disk, jobs, job, plan, served, crashes>>

-----------------------------------------------------------------------------
(* Favorites *)

AddFavorite(q) ==
    /\ At(q, "start") /\ Kind[q] = "add" /\ Goto(q, "pin")
    /\ fav' = [fav EXCEPT ![job[q]] = @ \cup {Client[q]}]
    /\ UNCHANGED <<entry, lru, bare, disk, jobs, job, plan, served, crashes>>

\* PinByVideoID, PinByPhotoID: one UPDATE; a completed file needs no download.
Pin(q) ==
    /\ At(q, "pin")
    /\ Goto(q, IF Completed(job[q]) THEN "done" ELSE "placepin")
    /\ IF entry[job[q]] = NoEntry THEN UNCHANGED <<entry, bare>>
       ELSE /\ entry' = [entry EXCEPT ![job[q]].pinned = TRUE]
            /\ bare' = bare \ {job[q]}
    /\ UNCHANGED <<lru, fav, disk, jobs, job, plan, served, crashes>>

PlacePinned(q) ==
    /\ At(q, "placepin") /\ Goto(q, "submit")
    /\ UpsertEntry(job[q], TRUE, FALSE)
    /\ bare' = bare \ {job[q]}
    /\ UNCHANGED <<fav, disk, jobs, job, plan, served, crashes>>

RemoveFavorite(q) ==
    /\ At(q, "start") /\ Kind[q] = "remove" /\ Goto(q, "unpin")
    /\ fav' = [fav EXCEPT ![job[q]] = @ \ {Client[q]}]
    /\ UNCHANGED <<entry, lru, bare, disk, jobs, job, plan, served, crashes>>

\* UnpinIfNotFavorited, UnpinPhotoIfNotFavorited: one UPDATE over every user's rows.
Unpin(q) ==
    /\ At(q, "unpin") /\ Goto(q, "done")
    /\ entry' = [entry EXCEPT ![job[q]] =
                    IF @ = NoEntry \/ fav[job[q]] # {} THEN @
                    ELSE [@ EXCEPT !.pinned = FALSE]]
    /\ UNCHANGED <<lru, fav, bare, disk, jobs, job, plan, served, crashes>>

-----------------------------------------------------------------------------
(* submit and workerLoop *)

MayQueue_Always(k) == TRUE
MayQueue(k) == k \notin queued

Submit(q) ==
    /\ At(q, "submit")
    /\ IF MayQueue(job[q])
       THEN Goto(q, "send") /\ queued' = queued \cup {job[q]}
       ELSE Goto(q, "done") /\ UNCHANGED queued
    /\ UNCHANGED <<table, disk, queue, job, plan, served, crashes>>

Send(q) ==
    /\ At(q, "send")
    /\ IF Len(queue) < QueueCap
       THEN Goto(q, "done") /\ queue' = Append(queue, job[q])
       ELSE Goto(q, "unqueue") /\ UNCHANGED queue
    /\ UNCHANGED <<table, disk, queued, job, plan, served, crashes>>

\* The queue was full: the request is dropped.
Unqueue(q) ==
    /\ At(q, "unqueue") /\ Goto(q, "done")
    /\ queued' = queued \ {job[q]}
    /\ UNCHANGED <<table, disk, queue, job, plan, served, crashes>>

TakeJob ==
    /\ At(Worker, "idle") /\ queue # <<>> /\ Goto(Worker, "check")
    /\ job' = [job EXCEPT ![Worker] = Head(queue)]
    /\ queue' = Tail(queue)
    /\ UNCHANGED <<table, disk, queued, plan, served, crashes>>

ReleaseJob ==
    /\ At(Worker, "release") /\ Goto(Worker, "idle")
    /\ queued' = queued \ {job[Worker]}
    /\ job' = [job EXCEPT ![Worker] = NoKey]
    /\ UNCHANGED <<table, disk, queue, plan, served, crashes>>

-----------------------------------------------------------------------------
(* downloadDoc and DownloadPhoto.  The worker runs either; an image request  *)
(* runs the second itself.                                                   *)

AfterFailure_KeepsJob(p) == IF p = Worker THEN "idle" ELSE "done"
AfterFailure(p) == IF p = Worker THEN "release" ELSE "done"
AfterSuccess_AsRequest(p) == "open"
AfterSuccess(p) == IF p = Worker THEN "release"
                   ELSE IF p = Collector THEN "idle" ELSE "open"

CheckCached(p) ==
    /\ At(p, "check")
    /\ LET k == job[p]
           have == IF k \in VideoKeys THEN Completed(k) ELSE Cached(k)
       IN  Goto(p, IF have THEN AfterSuccess(p) ELSE "create")
    /\ UNCHANGED <<table, disk, jobs, job, plan, served, crashes>>

\* No session client, or the channel is gone: an error before the file exists.
NoClient(p) ==
    /\ At(p, "create") /\ Goto(p, AfterFailure(p))
    /\ UNCHANGED <<table, disk, jobs, job, plan, served, crashes>>

\* os.Create truncates what is there, under the feet of whoever else writes it.
CreateTmp(p) ==
    /\ pc[p] \in {"create", "recreate"}
    /\ Goto(p, IF pc[p] = "create" THEN "write" ELSE "rewrite")
    /\ tmp' = [tmp EXCEPT ![job[p]] = "part"]
    /\ handle' = [handle EXCEPT ![p] = "tmp"]
    /\ fresh' = [r \in Procs |->
                    r = p \/ (fresh[r] /\ ~(job[r] = job[p] /\ handle[r] = "tmp"))]
    /\ UNCHANGED <<file, table, jobs, job, plan, served, crashes>>

Close(p) == /\ handle' = [handle EXCEPT ![p] = "none"]
            /\ fresh' = [fresh EXCEPT ![p] = FALSE]

\* The transfer ends without an error and the file is closed.  The threaded
\* download of a video may have dropped bytes.
Transfer(p) ==
    /\ pc[p] \in {"write", "rewrite"} /\ Goto(p, "tmpstat")
    /\ Close(p)
    /\ \E whole \in IF job[p] \in VideoKeys THEN {TRUE, FALSE} ELSE {TRUE} :
         LET k == job[p]
             written(path, old) ==
                IF whole /\ fresh[p] /\ handle[p] = path THEN "whole" ELSE old
         IN  /\ tmp'  = [tmp  EXCEPT ![k] = written("tmp", @)]
             /\ file' = [file EXCEPT ![k] = written("file", @)]
    /\ UNCHANGED <<table, jobs, job, plan, served, crashes>>

\* FILE_REFERENCE_EXPIRED: refresh the locator and start over, once.
RefreshAndRetry(p) ==
    /\ At(p, "write") /\ Goto(p, "recreate")
    /\ Close(p)
    /\ UNCHANGED <<file, tmp, table, jobs, job, plan, served, crashes>>

TransferFails(p) ==
    /\ pc[p] \in {"write", "rewrite"} /\ Goto(p, "cleanup")
    /\ Close(p)
    /\ UNCHANGED <<file, tmp, table, jobs, job, plan, served, crashes>>

\* The file is looked up by its path; a video must have its exact size.
Accepts(k) == tmp[k] # "none" /\ (k \in VideoKeys => tmp[k] = "whole")

StatTmp(p) ==
    /\ At(p, "tmpstat")
    /\ Goto(p, IF Accepts(job[p]) THEN "rename" ELSE "cleanup")
    /\ UNCHANGED <<table, disk, jobs, job, plan, served, crashes>>

\* os.Rename: the temporary file, and its writers, are now under the final name.
Promote(p) ==
    /\ At(p, "rename")
    /\ LET k == job[p] IN
       IF tmp[k] = "none"
       THEN Goto(p, "cleanup") /\ UNCHANGED disk
       ELSE /\ Goto(p, "store")
            /\ file' = [file EXCEPT ![k] = tmp[k]]
            /\ tmp' = [tmp EXCEPT ![k] = "none"]
            /\ handle' = [r \in Procs |->
                            IF job[r] # k THEN handle[r]
                            ELSE CASE handle[r] = "tmp"  -> "file"
                                   [] handle[r] = "file" -> "lost"
                                   [] OTHER -> handle[r]]
            /\ UNCHANGED fresh
    /\ UNCHANGED <<table, jobs, job, plan, served, crashes>>

\* os.Remove(tmp): whoever else is writing that file loses it.
Cleanup(p) ==
    /\ At(p, "cleanup") /\ Goto(p, AfterFailure(p))
    /\ tmp' = [tmp EXCEPT ![job[p]] = "none"]
    /\ handle' = Unlinked("tmp", job[p])
    /\ UNCHANGED <<file, fresh, table, jobs, job, plan, served, crashes>>

StoreEntry(p) ==
    /\ At(p, "store") /\ Goto(p, "scan")
    /\ UpsertEntry(job[p], FALSE, TRUE)
    /\ UNCHANGED <<fav, bare, disk, jobs, job, plan, served, crashes>>

StoreFails(p) ==
    /\ At(p, "store") /\ Goto(p, AfterFailure(p))
    /\ UNCHANGED <<table, disk, jobs, job, plan, served, crashes>>

-----------------------------------------------------------------------------
(* gcLoop and evictIfNeeded *)

Tick ==
    /\ At(Collector, "idle") /\ Goto(Collector, "scan")
    /\ UNCHANGED <<table, disk, jobs, job, plan, served, crashes>>

\* Without a cap nothing is reconciled either.
NoCap(p) ==
    /\ At(p, "scan") /\ DiskCap = 0 /\ Goto(p, AfterSuccess(p))
    /\ UNCHANGED <<table, disk, jobs, job, plan, served, crashes>>

ScanDisk(p) ==
    /\ At(p, "scan") /\ DiskCap > 0 /\ Goto(p, "load")
    /\ plan' = [plan EXCEPT ![p].scan = {k \in Keys : OnDisk(k)}]
    /\ UNCHANGED <<table, disk, jobs, job, served, crashes>>

\* Unpinned files first, each group by last access.
Goes(j, k) ==
    IF entry[j].pinned # entry[k].pinned THEN ~entry[j].pinned
    ELSE \E m, n \in DOMAIN lru : m < n /\ lru[m] = j /\ lru[n] = k

\* The candidates, sorted.
Sorted(S) == {s \in [1..Cardinality(S) -> S] :
                 \A m, n \in DOMAIN s : m < n => Goes(s[m], s[n])}

StaleRows_Ignored(listed, scan) == {}
StaleRows(listed, scan) == listed \ scan

\* AllCompletedCacheEntries, and what the rest of the pass does with it.
LoadEntries(p) ==
    /\ At(p, "load") /\ Goto(p, "sweep")
    /\ LET scan   == plan[p].scan
           listed == {k \in Keys : Completed(k)}
           both   == scan \cap listed
       IN  \E order \in Sorted(both) :
             plan' = [plan EXCEPT ![p] =
                [scan    |-> {},
                 orphans |-> scan \ listed,
                 stale   |-> StaleRows(listed, scan),
                 victims |-> order,
                 total   |-> Cardinality(both)]]
    /\ UNCHANGED <<table, disk, jobs, job, served, crashes>>

RemoveOrphan(p) ==
    /\ At(p, "sweep")
    /\ \E k \in plan[p].orphans :
         /\ RemoveFile(k)
         /\ plan' = [plan EXCEPT ![p].orphans = @ \ {k}]
    /\ UNCHANGED <<table, jobs, pc, job, served, crashes>>

DropStaleEntry(p) ==
    /\ At(p, "sweep") /\ plan[p].orphans = {}
    /\ \E k \in plan[p].stale :
         /\ DeleteEntry(k)
         /\ plan' = [plan EXCEPT ![p].stale = @ \ {k}]
    /\ UNCHANGED <<fav, disk, jobs, pc, job, served, crashes>>

Reconciled(p) == plan[p].orphans = {} /\ plan[p].stale = {}
OverCap_OffByOne(p) == plan[p].total > DiskCap + 1 /\ plan[p].victims # <<>>
OverCap(p) == plan[p].total > DiskCap /\ plan[p].victims # <<>>

EvictFile(p) ==
    /\ At(p, "sweep") /\ Reconciled(p) /\ OverCap(p) /\ Goto(p, "row")
    /\ RemoveFile(Head(plan[p].victims))
    /\ UNCHANGED <<table, jobs, job, plan, served, crashes>>

EvictEntry(p) ==
    /\ At(p, "row") /\ Goto(p, "sweep")
    /\ DeleteEntry(Head(plan[p].victims))
    /\ plan' = [plan EXCEPT ![p].victims = Tail(@), ![p].total = @ - 1]
    /\ UNCHANGED <<fav, disk, jobs, job, served, crashes>>

EvictionDone(p) ==
    /\ At(p, "sweep") /\ Reconciled(p) /\ ~OverCap(p) /\ Goto(p, AfterSuccess(p))
    /\ plan' = [plan EXCEPT ![p] = NoPlan]
    /\ UNCHANGED <<table, disk, jobs, job, served, crashes>>

-----------------------------------------------------------------------------
(* The process dies and is started again: cleanPartials, empty queue. *)

Adding(k) == {q \in Requests : Kind[q] = "add" /\ Target[q] = k /\ pc[q] \in {"pin", "placepin"}}

Crash ==
    /\ crashes < MaxCrashes
    /\ crashes' = crashes + 1
    /\ queue' = <<>> /\ queued' = {}
    /\ pc' = [p \in Procs |->
                IF p \in {Worker, Collector} THEN "idle"
                ELSE IF pc[p] = "start" THEN "start" ELSE "done"]
    /\ job' = [job EXCEPT ![Worker] = NoKey]
    /\ tmp' = [k \in Keys |-> "none"]
    /\ handle' = [p \in Procs |-> "none"]
    /\ plan' = [p \in Procs |-> NoPlan]
    /\ bare' = bare \cup {k \in Keys : Adding(k) # {}}
    /\ fresh' = [p \in Procs |-> FALSE]
    /\ UNCHANGED <<entry, lru, fav, file, served>>

-----------------------------------------------------------------------------
Init ==
    /\ \E t \in SUBSET Truncated :
         /\ entry = [k \in Keys |-> IF k \in t THEN [pinned |-> FALSE, completed |-> TRUE]
                                    ELSE NoEntry]
         /\ file = [k \in Keys |-> IF k \in t THEN "part" ELSE "none"]
         /\ lru \in {s \in [1..Cardinality(t) -> t] : {s[i] : i \in DOMAIN s} = t}
    /\ fav = [k \in Keys |-> {}]
    /\ tmp = [k \in Keys |-> "none"]
    /\ queue = <<>> /\ queued = {}
    /\ pc = [p \in Procs |-> IF p \in Requests THEN "start" ELSE "idle"]
    /\ job = [p \in Procs |-> IF p \in Requests THEN Target[p] ELSE NoKey]
    /\ handle = [p \in Procs |-> "none"]
    /\ fresh = [p \in Procs |-> FALSE]
    /\ plan = [p \in Procs |-> NoPlan]
    /\ served = [q \in Requests |-> "none"]
    /\ bare = {}
    /\ crashes = 0

Download(p) ==
    \/ CheckCached(p) \/ NoClient(p) \/ CreateTmp(p) \/ Transfer(p) \/ RefreshAndRetry(p)
    \/ TransferFails(p) \/ StatTmp(p) \/ Promote(p) \/ Cleanup(p)
    \/ StoreEntry(p) \/ StoreFails(p)

Evict(p) ==
    \/ NoCap(p) \/ ScanDisk(p) \/ LoadEntries(p) \/ RemoveOrphan(p) \/ DropStaleEntry(p)
    \/ EvictFile(p) \/ EvictEntry(p) \/ EvictionDone(p)

Request(q) ==
    \/ LookUp(q) \/ StatFile(q) \/ Touch(q) \/ ServeFile(q) \/ DropCorrupt(q)
    \/ MarkIncomplete(q) \/ CheckEntry(q) \/ Placeholder(q) \/ LockRow(q) \/ Recheck(q)
    \/ AddFavorite(q) \/ Pin(q) \/ PlacePinned(q) \/ RemoveFavorite(q) \/ Unpin(q)
    \/ Submit(q) \/ Send(q) \/ Unqueue(q)

Next ==
    \/ TakeJob \/ ReleaseJob \/ Tick \/ Crash
    \/ \E q \in Requests : Request(q)
    \/ \E p \in Procs : Download(p) \/ Evict(p)

Spec == Init /\ [][Next]_vars

WorkerStep    == TakeJob \/ Download(Worker) \/ Evict(Worker) \/ ReleaseJob
CollectorStep == Tick \/ Evict(Collector)

\* Goroutines run; a request, once started, goes on; the ticker of gcLoop fires.
FairSpec ==
    /\ Spec
    /\ WF_vars(WorkerStep) /\ WF_vars(CollectorStep)
    /\ \A q \in Requests : WF_vars(pc[q] # "start" /\ (Request(q) \/ Download(q) \/ Evict(q)))

-----------------------------------------------------------------------------
(* Properties *)

Entries == [pinned : BOOLEAN, completed : BOOLEAN] \cup {NoEntry}

\* Every variable has its type; the collector never downloads, and neither
\* goroutine of the Manager ever runs a handler's code.
TypeOK ==
    /\ pc \in [Procs -> Transferring \cup Evicting \cup Handling \cup {"idle", "release"}]
    /\ pc[Worker] \in Transferring \cup Evicting \cup {"idle", "release"}
    /\ pc[Collector] \in Evicting \cup {"idle"}
    /\ \A q \in Requests : pc[q] \notin {"idle", "release"}
    /\ entry \in [Keys -> Entries]
    /\ fav \in [Keys -> SUBSET Users]
    /\ file \in [Keys -> Files] /\ tmp \in [Keys -> Files]
    /\ queue \in Seq(Keys) /\ queued \subseteq Keys
    /\ job \in [Procs -> Keys \cup {NoKey}]
    /\ handle \in [Procs -> {"none", "tmp", "file", "lost"}]
    /\ fresh \in [Procs -> BOOLEAN]
    /\ served \in [Requests -> Files]
    /\ bare \subseteq Keys /\ crashes \in 0..MaxCrashes

\* The requests that registered k and have neither sent it nor taken it back.
Sending(k) == {q \in Requests : Target[q] = k /\ pc[q] \in {"send", "unqueue"}}

\* A key in Manager.queued is held by exactly one of: a request about to send it,
\* the queue, the worker; and a key anywhere in the queue or being downloaded by
\* the worker is in the set.  So no file is ever downloaded twice by the worker
\* at a time, and no key is kept out for ever by a job that no longer exists.
QueuedOnce ==
    /\ \A i, j \in DOMAIN queue : queue[i] = queue[j] => i = j
    /\ \A k \in Keys :
         LET inQueue  == \E i \in DOMAIN queue : queue[i] = k
             inWorker == job[Worker] = k
             sending  == Sending(k) # {}
         IN  /\ k \in queued <=> inQueue \/ inWorker \/ sending
             /\ ~(inQueue /\ inWorker) /\ ~(inQueue /\ sending)
             /\ ~(inWorker /\ sending)
             /\ \A q, r \in Sending(k) : q = r

\* A video is never served from a truncated file, whether an older version left
\* it, a transfer dropped bytes, or the file was replaced while the request looked.
ServedWhole ==
    \A q \in Requests : Target[q] \in VideoKeys => served[q] # "part"

\* The entry of a favorite is pinned, unless its row was deleted since (eviction)
\* or the request that would pin it is still on its way or died: no download,
\* replay, invalidation or another user's removal takes the pin away.
FavoritePinned ==
    \A k \in Keys :
        fav[k] # {} /\ entry[k] # NoEntry /\ Adding(k) = {} /\ k \notin bare
            => entry[k].pinned

\* Every key a request or the worker holds is let go, whatever fails.
QueuedReleased == \A k \in Keys : k \in queued ~> k \notin queued

\* Table and disk agree again: a completed row without its file, or a file
\* without its row, is found and removed by some pass of the collector.
Mismatch(k) == Completed(k) # OnDisk(k)
Reconciles == \A k \in Keys : Mismatch(k) ~> ~Mismatch(k)

\* The cap is enforced in the end, even against pinned files.
UnderCapAgain ==
    Cardinality({k \in Keys : OnDisk(k)}) > DiskCap
        ~> Cardinality({k \in Keys : OnDisk(k)}) <= DiskCap

\* DownloadPhoto's comment: concurrent downloads of one photo are safe, "the
\* worst case is a duplicated download".
PhotoWhole ==
    \A k \in Keys \ VideoKeys : Cached(k) => file[k] = "whole"
=============================================================================
