-------------------------- MODULE MediaCacheProofs --------------------------
(* Theorems about MediaCache, for any number of files, users and requests,  *)
(* any queue and disk capacity and any number of crashes.                   *)
EXTENDS MediaCache, FiniteSetTheorems, TLAPS

-----------------------------------------------------------------------------
(* Where each process can be *)

\* The stops of a request depend on its kind; the worker downloads and evicts,
\* the collector only evicts.
Stops(p) ==
    IF p = Worker THEN Transferring \cup Evicting \cup {"idle", "release"}
    ELSE IF p = Collector THEN Evicting \cup {"idle"}
    ELSE CASE Kind[p] = "play" -> {"start", "stat", "touch", "open", "drop", "mark", "ensure",
                                   "place", "submit", "send", "unqueue", "done"}
           [] Kind[p] = "view" -> {"start", "touch", "lock", "recheck", "open", "done"}
                                    \cup Transferring \cup Evicting
           [] Kind[p] = "add"  -> {"start", "pin", "placepin", "submit", "send", "unqueue",
                                   "done"}
           [] OTHER            -> {"start", "unpin", "done"}

PcOK == /\ pc = [p \in Procs |-> pc[p]]
        /\ \A p \in Procs : pc[p] \in Stops(p)

LEMMA MovePc ==
    ASSUME PcOK, NEW p \in Procs, NEW l \in Stops(p), Goto(p, l)
    PROVE  PcOK'
BY DEF PcOK, Goto, Stops

\* The guard of an action tells its process, or at least the kind of its request.
LEMMA NextPc == PcOK /\ Next => PcOK'
<1> SUFFICES ASSUME PcOK, Next PROVE PcOK'
  OBVIOUS
<1> USE CacheAssumption DEF At
<1>p. Requests \subseteq Procs /\ Worker \in Procs /\ Collector \in Procs
  BY DEF Procs
<1>s. \A p \in Procs : pc[p] \in Stops(p)
  BY DEF PcOK
<1>1. CASE TakeJob \/ ReleaseJob
  <2>1. "check" \in Stops(Worker) /\ "idle" \in Stops(Worker)
    BY DEF Stops, Transferring
  <2>2. QED
    BY <1>1, <1>p, <2>1, MovePc DEF TakeJob, ReleaseJob
<1>2. CASE Tick
  <2>1. "scan" \in Stops(Collector)
    BY DEF Stops, Evicting
  <2>2. QED
    BY <1>2, <1>p, <2>1, MovePc DEF Tick
<1>3. CASE Crash
  BY <1>3, <1>s DEF Crash, PcOK, Stops, Procs
<1>4. ASSUME NEW q \in Requests, Request(q) PROVE PcOK'
  <2>1. /\ q \in Procs /\ q # Worker /\ q # Collector /\ pc[q] \in Stops(q)
        /\ Kind[q] \in {"play", "view", "add", "remove"}
    BY <1>p, <1>s
  <2>2. PICK l : Goto(q, l) /\ l \in Stops(q)
    BY <1>4, <2>1 DEF Request, LookUp, StatFile, Touch, ServeFile, DropCorrupt, MarkIncomplete,
       CheckEntry, Placeholder, LockRow, Recheck, AddFavorite, Pin, PlacePinned, RemoveFavorite,
       Unpin, Submit, Send, Unqueue, Stops, Transferring, Evicting
  <2>3. QED
    BY <2>1, <2>2, MovePc
<1>5. ASSUME NEW p \in Procs, Download(p) PROVE PcOK'
  <2>1. pc[p] \in Stops(p) /\ p # Collector
    BY <1>5, <1>s DEF Download, CheckCached, NoClient, CreateTmp, Transfer, RefreshAndRetry,
       TransferFails, StatTmp, Promote, Cleanup, StoreEntry, StoreFails, Stops, Evicting
  <2>2. PICK l : Goto(p, l) /\ l \in Stops(p)
    BY <1>5, <2>1 DEF Download, CheckCached, NoClient, CreateTmp, Transfer, RefreshAndRetry,
       TransferFails, StatTmp, Promote, Cleanup, StoreEntry, StoreFails, Stops, Evicting,
       Transferring, AfterFailure, AfterSuccess
  <2>3. QED
    BY <2>2, MovePc
<1>6. ASSUME NEW p \in Procs, Evict(p) PROVE PcOK'
  <2>1. pc[p] \in Stops(p)
    BY <1>s
  <2>2. CASE UNCHANGED pc
    BY <2>2 DEF PcOK
  <2>3. ASSUME NEW l, Goto(p, l), l \in Stops(p) PROVE PcOK'
    BY <2>3, MovePc
  <2>4. UNCHANGED pc \/ \E l : Goto(p, l) /\ l \in Stops(p)
    BY <1>6, <2>1 DEF Evict, NoCap, ScanDisk, LoadEntries, RemoveOrphan, DropStaleEntry,
       EvictFile, EvictEntry, EvictionDone, Stops, Evicting, Transferring, AfterSuccess
  <2>5. QED
    BY <2>2, <2>3, <2>4
<1>7. QED
  BY <1>1, <1>2, <1>3, <1>4, <1>5, <1>6 DEF Next

-----------------------------------------------------------------------------
(* Manager.queue, Manager.queued and the worker's job *)

\* A request works on its target, the worker on a key until it is idle.
JobOK ==
    /\ job = [p \in Procs |-> job[p]]
    /\ \A q \in Requests : job[q] = Target[q]
    /\ job[Collector] = NoKey
    /\ IF pc[Worker] = "idle" THEN job[Worker] = NoKey ELSE job[Worker] \in Keys
    /\ queue \in Seq(Keys) /\ queued \subseteq Keys

QueueInv == PcOK /\ JobOK /\ QueuedOnce

OnQueue == {"send", "unqueue"}

\* The steps that QueuedOnce is about, and what all others leave alone.
LEMMA QueueSteps ==
    ASSUME PcOK, Next
    PROVE  \/ TakeJob \/ ReleaseJob \/ Crash
           \/ \E q \in Requests : Submit(q) \/ Send(q) \/ Unqueue(q)
           \/ /\ UNCHANGED <<job, queue, queued>>
              /\ pc'[Worker] = "idle" <=> pc[Worker] = "idle"
              /\ \A q \in Requests : pc'[q] \in OnQueue <=> pc[q] \in OnQueue
<1> DEFINE Frame == /\ UNCHANGED <<job, queue, queued>>
                    /\ pc'[Worker] = "idle" <=> pc[Worker] = "idle"
                    /\ \A q \in Requests : pc'[q] \in OnQueue <=> pc[q] \in OnQueue
<1> USE CacheAssumption DEF At
<1>p. Requests \subseteq Procs /\ Worker \in Procs /\ Collector \in Procs
  BY DEF Procs
<1>s. /\ \A p \in Procs : pc[p] \in Stops(p)
      /\ pc = [p \in Procs |-> pc[p]]
  BY DEF PcOK
<1>m. ASSUME NEW p \in Procs, NEW l, Goto(p, l), pc[p] \notin OnQueue \cup {"idle"},
             l \notin OnQueue \cup {"idle"}, UNCHANGED <<job, queue, queued>>
      PROVE  Frame
  BY <1>m, <1>s, <1>p DEF Goto, OnQueue
<1>c. ASSUME NEW l, Goto(Collector, l), UNCHANGED <<job, queue, queued>>
      PROVE  Frame
  BY <1>c, <1>s, <1>p DEF Goto, OnQueue
<1>1. CASE Tick
  BY <1>1, <1>c DEF Tick, jobs
<1>2. ASSUME NEW q \in Requests, Request(q)
      PROVE  Submit(q) \/ Send(q) \/ Unqueue(q) \/ Frame
  <2>1. CASE Submit(q) \/ Send(q) \/ Unqueue(q)
    BY <2>1
  <2>2. CASE \/ LookUp(q) \/ StatFile(q) \/ Touch(q) \/ ServeFile(q) \/ DropCorrupt(q)
             \/ MarkIncomplete(q) \/ CheckEntry(q) \/ Placeholder(q) \/ LockRow(q)
             \/ Recheck(q) \/ AddFavorite(q) \/ Pin(q) \/ PlacePinned(q)
             \/ RemoveFavorite(q) \/ Unpin(q)
    <3> USE DEF LookUp, StatFile, Touch, ServeFile, DropCorrupt, MarkIncomplete, CheckEntry,
            Placeholder, LockRow, Recheck, AddFavorite, Pin, PlacePinned, RemoveFavorite, Unpin
    <3>1. pc[q] \notin OnQueue \cup {"idle"}
      BY <2>2 DEF OnQueue
    <3>2. \E l : Goto(q, l) /\ l \notin OnQueue \cup {"idle"}
      <4>1. pc'[q] \notin OnQueue \cup {"idle"}
        BY <2>2, <1>s, <1>p DEF OnQueue, Goto
      <4>2. PICK l : Goto(q, l)
        BY <2>2
      <4>3. QED
        BY <4>1, <4>2, <1>s, <1>p DEF Goto
    <3>3. UNCHANGED <<job, queue, queued>>
      BY <2>2 DEF jobs
    <3>4. QED
      BY <1>p, <1>m, <3>1, <3>2, <3>3
  <2>3. QED
    BY <1>2, <2>1, <2>2 DEF Request
<1>3. ASSUME NEW p \in Procs, Download(p) PROVE Frame
  <2> USE DEF Download, CheckCached, NoClient, CreateTmp, Transfer, RefreshAndRetry,
          TransferFails, StatTmp, Promote, Cleanup, StoreEntry, StoreFails
  <2>1. p # Collector
    BY <1>3, <1>s DEF Stops, Evicting
  <2>2. pc[p] \notin OnQueue \cup {"idle"}
    BY <1>3 DEF OnQueue
  <2>3. \E l : Goto(p, l) /\ l \notin OnQueue \cup {"idle"}
    <3>1. pc'[p] \notin OnQueue \cup {"idle"}
      BY <1>3, <1>s, <2>1 DEF OnQueue, AfterFailure, AfterSuccess, Goto
    <3>2. PICK l : Goto(p, l)
      BY <1>3
    <3>3. QED
      BY <3>1, <3>2, <1>s DEF Goto
  <2>4. UNCHANGED <<job, queue, queued>>
    BY <1>3 DEF jobs
  <2>5. QED
    BY <1>m, <2>2, <2>3, <2>4
<1>4. ASSUME NEW p \in Procs, Evict(p) PROVE Frame
  <2>1. CASE UNCHANGED pc
    BY <1>4, <2>1 DEF Evict, NoCap, ScanDisk, LoadEntries, RemoveOrphan, DropStaleEntry,
       EvictFile, EvictEntry, EvictionDone, jobs
  <2>2. ASSUME ~UNCHANGED pc
        PROVE  /\ pc[p] \notin OnQueue \cup {"idle"}
               /\ \E l : Goto(p, l) /\ l \notin OnQueue /\ (l = "idle" => p = Collector)
               /\ UNCHANGED <<job, queue, queued>>
    BY <1>4, <2>2 DEF Evict, NoCap, ScanDisk, LoadEntries, RemoveOrphan, DropStaleEntry,
       EvictFile, EvictEntry, EvictionDone, AfterSuccess, jobs, OnQueue
  <2>3. QED
    BY <2>1, <2>2, <1>m, <1>c
<1>5. QED
  BY <1>1, <1>2, <1>3, <1>4 DEF Next

\* Only the steps above disturb who holds a key.
LEMMA NextQueue == QueueInv /\ Next => QueueInv'
<1> SUFFICES ASSUME QueueInv, Next PROVE JobOK' /\ QueuedOnce'
  BY NextPc DEF QueueInv
<1> USE CacheAssumption DEF At
<1>p. Requests \subseteq Procs /\ Worker \in Procs /\ Collector \in Procs
  BY DEF Procs
<1>j. JobOK /\ QueuedOnce /\ PcOK
  BY DEF QueueInv
<1>s. /\ pc = [p \in Procs |-> pc[p]]
      /\ pc[Worker] # "start" /\ \A q \in Requests : pc[q] # "idle"
  BY <1>j, <1>p DEF PcOK, Stops, Transferring, Evicting
<1>1. CASE TakeJob
  <2>1. queue # <<>> /\ queue \in Seq(Keys) /\ Head(queue) \in Keys /\ Tail(queue) \in Seq(Keys)
    BY <1>1, <1>j DEF TakeJob, JobOK
  <2>2. JobOK'
    BY <1>1, <1>j, <1>s, <1>p, <2>1 DEF TakeJob, JobOK, Goto
  <2>3. \A k \in Keys : Sending(k)' = Sending(k)
    BY <1>1, <1>s, <1>p DEF TakeJob, Goto, Sending
  <2>4. /\ \A i \in DOMAIN queue' : i + 1 \in DOMAIN queue /\ queue'[i] = queue[i + 1]
        /\ \A i \in DOMAIN queue : i # 1 => i - 1 \in DOMAIN queue' /\ queue'[i - 1] = queue[i]
        /\ 1 \in DOMAIN queue /\ Head(queue) = queue[1]
        /\ DOMAIN queue \subseteq Nat /\ DOMAIN queue' \subseteq Nat \ {0}
    BY <1>1, <2>1 DEF TakeJob
  <2>5. job[Worker] = NoKey /\ job'[Worker] = queue[1] /\ queued' = queued
    BY <1>1, <1>j, <1>p, <2>4 DEF TakeJob, JobOK
  <2>6. \A i, j \in DOMAIN queue' : queue'[i] = queue'[j] => i = j
    BY <1>j, <2>4 DEF QueuedOnce
  <2>7. \A k \in Keys : /\ (\E i \in DOMAIN queue : queue[i] = k)
                             <=> (\E i \in DOMAIN queue' : queue'[i] = k) \/ k = queue[1]
                        /\ ~(k = queue[1] /\ \E i \in DOMAIN queue' : queue'[i] = k)
    <3> SUFFICES ASSUME NEW k \in Keys
                 PROVE  /\ (\E i \in DOMAIN queue : queue[i] = k)
                             <=> (\E i \in DOMAIN queue' : queue'[i] = k) \/ k = queue[1]
                        /\ ~(k = queue[1] /\ \E i \in DOMAIN queue' : queue'[i] = k)
      OBVIOUS
    <3>1. ASSUME NEW i \in DOMAIN queue, queue[i] = k
          PROVE  (\E m \in DOMAIN queue' : queue'[m] = k) \/ k = queue[1]
      <4>1. CASE i = 1
        BY <4>1, <3>1
      <4>2. CASE i # 1
        <5>1. i - 1 \in DOMAIN queue' /\ queue'[i - 1] = k
          BY <4>2, <3>1, <2>4
        <5>2. QED
          BY <5>1
      <4>3. QED
        BY <4>1, <4>2
    <3>2. ASSUME NEW i \in DOMAIN queue', queue'[i] = k
          PROVE  i + 1 \in DOMAIN queue /\ queue[i + 1] = k /\ i + 1 # 1
      BY <3>2, <2>4
    <3>3. ASSUME NEW i \in DOMAIN queue', queue'[i] = k, k = queue[1] PROVE FALSE
      BY <3>2, <3>3, <2>4, <1>j DEF QueuedOnce
    <3>4. QED
      BY <3>1, <3>2, <3>3, <2>4
  <2>8. QueuedOnce'
    BY <1>j, <2>1, <2>3, <2>4, <2>5, <2>6, <2>7 DEF QueuedOnce
  <2>9. QED
    BY <2>2, <2>8
<1>2. CASE ReleaseJob
  <2>1. JobOK'
    BY <1>2, <1>j, <1>s, <1>p DEF ReleaseJob, JobOK, Goto
  <2>2. \A k \in Keys : Sending(k)' = Sending(k)
    BY <1>2, <1>s, <1>p DEF ReleaseJob, Goto, Sending
  <2>3. /\ job'[Worker] = NoKey /\ queued' = queued \ {job[Worker]} /\ queue' = queue
    BY <1>2, <1>j, <1>p DEF ReleaseJob, JobOK
  <2>4. QueuedOnce'
    BY <1>j, <2>2, <2>3 DEF QueuedOnce
  <2>5. QED
    BY <2>1, <2>4
<1>3. CASE Crash
  <2>1. JobOK'
    <3>1. job' = [p \in Procs |-> job'[p]] /\ job'[Worker] = NoKey
          /\ \A p \in Procs : p # Worker => job'[p] = job[p]
      BY <1>3, <1>j, <1>p DEF Crash, JobOK
    <3>2. pc'[Worker] = "idle" /\ queue' = <<>> /\ queued' = {}
      BY <1>3, <1>p DEF Crash
    <3>3. queue' \in Seq(Keys) /\ queued' \subseteq Keys
      BY <3>2
    <3>4. /\ \A q \in Requests : job'[q] = Target[q]
          /\ job'[Collector] = NoKey
      BY <3>1, <1>j, <1>p DEF JobOK
    <3>5. QED
      BY <3>1, <3>2, <3>3, <3>4 DEF JobOK
  <2>2. \A k \in Keys : Sending(k)' = {}
    BY <1>3, <1>s, <1>p DEF Crash, Sending
  <2>3. QueuedOnce'
    <3>1. /\ queue' = <<>> /\ DOMAIN queue' = {} /\ queued' = {}
          /\ \A k \in Keys : job'[Worker] # k
      BY <1>3, <1>j, <1>p DEF Crash, JobOK
    <3>2. QED
      BY <2>2, <3>1 DEF QueuedOnce
  <2>4. QED
    BY <2>1, <2>3
<1>4. ASSUME NEW q \in Requests, Submit(q) \/ Send(q) \/ Unqueue(q)
      PROVE  JobOK' /\ QueuedOnce'
  <2>1. job[q] = Target[q] /\ Target[q] \in Keys /\ q # Worker /\ q \in Procs
    BY <1>j, <1>p DEF JobOK
  <2>2. JobOK'
    <3>1. pc'[Worker] = pc[Worker] /\ job' = job
      BY <1>4, <1>s, <1>p, <2>1 DEF Submit, Send, Unqueue, Goto
    <3>2. queue' \in Seq(Keys) /\ queued' \subseteq Keys
      <4>1. queue \in Seq(Keys) /\ queued \subseteq Keys /\ Append(queue, Target[q]) \in Seq(Keys)
        BY <1>j, <2>1 DEF JobOK
      <4>2. /\ queue' \in {queue, Append(queue, Target[q])}
            /\ queued' \in {queued, queued \cup {Target[q]}, queued \ {Target[q]}}
        BY <1>4, <2>1 DEF Submit, Send, Unqueue
      <4>3. QED
        BY <4>1, <4>2, <2>1
    <3>3. QED
      BY <1>j, <3>1, <3>2 DEF JobOK
  <2>3. job' = job
    BY <1>4 DEF Submit, Send, Unqueue
  <2>f. PICK l : Goto(q, l)
    BY <1>4 DEF Submit, Send, Unqueue
  <2>g. pc'[q] = l /\ \A r \in Requests : r # q => pc'[r] = pc[r]
    BY <2>f, <1>s, <1>p DEF Goto
  <2>4. \A k \in Keys : k # Target[q] => Sending(k)' = Sending(k)
    BY <2>g DEF Sending
  <2>5. CASE Submit(q)
    <3>1. CASE UNCHANGED queued
      <4>1. Sending(Target[q])' = Sending(Target[q])
        <5>1. pc'[q] = "done" /\ pc[q] = "submit"
          BY <2>5, <3>1, <1>s, <2>1 DEF Submit, Goto, MayQueue
        <5>2. QED
          BY <5>1, <2>g DEF Sending
      <4>2. QED
        BY <2>5, <3>1, <1>j, <2>2, <2>3, <2>4, <4>1 DEF Submit, jobs, QueuedOnce
    <3>2. CASE ~UNCHANGED queued
      <4>1. Target[q] \notin queued /\ queued' = queued \cup {Target[q]} /\ queue' = queue
        BY <2>5, <3>2, <2>1 DEF Submit, MayQueue
      <4>2. Sending(Target[q]) = {}
        BY <4>1, <1>j, <2>1 DEF QueuedOnce
      <4>3. Sending(Target[q])' = {q}
        <5>1. pc'[q] = "send"
          BY <2>5, <3>2, <1>s, <2>1 DEF Submit, Goto, MayQueue
        <5>2. QED
          BY <5>1, <2>g, <4>2 DEF Sending
      <4>4. QED
        BY <1>j, <2>1, <2>2, <2>3, <2>4, <4>1, <4>2, <4>3 DEF QueuedOnce
    <3>3. QED
      BY <3>1, <3>2
  <2>6. CASE Send(q) /\ Len(queue) < QueueCap
    <3>1. q \in Sending(Target[q]) /\ Sending(Target[q]) = {q}
      <4>1. q \in Sending(Target[q])
        BY <2>6 DEF Send, Sending
      <4>2. QED
        BY <4>1, <1>j, <2>1 DEF QueuedOnce
    <3>2. Sending(Target[q])' = {}
      <4>1. pc'[q] = "done"
        BY <2>6, <1>s, <2>1 DEF Send, Goto
      <4>2. QED
        BY <4>1, <2>g, <3>1 DEF Sending
    <3>3. queue' = Append(queue, Target[q]) /\ queued' = queued /\ queue \in Seq(Keys)
      BY <2>6, <2>1, <1>j DEF Send, JobOK
    <3>4. /\ DOMAIN queue' = DOMAIN queue \cup {Len(queue) + 1}
          /\ Len(queue) + 1 \notin DOMAIN queue
          /\ \A i \in DOMAIN queue : queue'[i] = queue[i]
          /\ queue'[Len(queue) + 1] = Target[q]
      BY <3>3, <2>1
    <3>5. /\ Target[q] \in queued /\ job[Worker] # Target[q]
          /\ \A i \in DOMAIN queue : queue[i] # Target[q]
      BY <1>j, <2>1, <3>1 DEF QueuedOnce
    <3>6. \A i, j \in DOMAIN queue' : queue'[i] = queue'[j] => i = j
      BY <1>j, <3>4, <3>5 DEF QueuedOnce
    <3>7. \A k \in Keys : (\E i \in DOMAIN queue' : queue'[i] = k)
                             <=> (\E i \in DOMAIN queue : queue[i] = k) \/ k = Target[q]
      BY <3>4
    <3>8. QED
      BY <1>j, <2>1, <2>2, <2>3, <2>4, <3>1, <3>2, <3>3, <3>5, <3>6, <3>7 DEF QueuedOnce
  <2>7. CASE Send(q) /\ ~(Len(queue) < QueueCap)
    <3>1. Sending(Target[q])' = Sending(Target[q])
      <4>1. pc[q] = "send" /\ pc'[q] = "unqueue"
        BY <2>7, <1>s, <2>1 DEF Send, Goto
      <4>2. QED
        BY <4>1, <2>g DEF Sending
    <3>2. QED
      BY <2>7, <1>j, <2>2, <2>3, <2>4, <3>1 DEF Send, QueuedOnce
  <2>8. CASE Unqueue(q)
    <3>1. q \in Sending(Target[q]) /\ Sending(Target[q]) = {q}
      <4>1. q \in Sending(Target[q])
        BY <2>8 DEF Unqueue, Sending
      <4>2. QED
        BY <4>1, <1>j, <2>1 DEF QueuedOnce
    <3>2. Sending(Target[q])' = {}
      BY <2>8, <3>1, <1>s, <2>1 DEF Unqueue, Goto, Sending
    <3>3. queue' = queue /\ queued' = queued \ {Target[q]}
      BY <2>8, <2>1 DEF Unqueue
    <3>4. QED
      BY <1>j, <2>1, <2>2, <2>3, <2>4, <3>1, <3>2, <3>3 DEF QueuedOnce
  <2>9. QED
    BY <1>4, <2>5, <2>6, <2>7, <2>8
<1>5. CASE /\ UNCHANGED <<job, queue, queued>>
           /\ pc'[Worker] = "idle" <=> pc[Worker] = "idle"
           /\ \A q \in Requests : pc'[q] \in OnQueue <=> pc[q] \in OnQueue
  <2>1. JobOK'
    BY <1>5, <1>j DEF JobOK
  <2>2. \A k \in Keys : Sending(k)' = Sending(k)
    BY <1>5 DEF Sending, OnQueue
  <2>3. QueuedOnce'
    BY <1>5, <1>j, <2>2 DEF QueuedOnce
  <2>4. QED
    BY <2>1, <2>3
<1>6. QED
  BY <1>1, <1>2, <1>3, <1>4, <1>5, <1>j, QueueSteps

-----------------------------------------------------------------------------
(* Rows, files and plans have their types *)

Plans == [scan : SUBSET Keys, orphans : SUBSET Keys, stale : SUBSET Keys,
          victims : Seq(Keys), total : Int]

TableOK == /\ entry \in [Keys -> Entries] /\ fav \in [Keys -> SUBSET Users]
           /\ bare \subseteq Keys
DiskOK  == /\ file \in [Keys -> Files] /\ tmp \in [Keys -> Files]
           /\ handle \in [Procs -> {"none", "tmp", "file", "lost"}]
           /\ fresh \in [Procs -> BOOLEAN]
PlanOK  == /\ plan \in [Procs -> Plans]
           /\ \A p \in Procs : pc[p] = "row" => plan[p].victims # <<>>
RestOK  == served \in [Requests -> Files] /\ crashes \in 0..MaxCrashes

Typed == PcOK /\ JobOK /\ TableOK /\ DiskOK /\ PlanOK /\ RestOK

\* A candidate list is a list of keys.
LEMMA SortedKeys ==
    ASSUME NEW S \in SUBSET Keys, NEW s \in Sorted(S)
    PROVE  s \in Seq(Keys) /\ Cardinality(S) \in Nat
<1>1. IsFiniteSet(S)
  BY CacheAssumption, FS_Subset
<1>2. Cardinality(S) \in Nat
  BY <1>1, FS_CardinalityType
<1>3. s \in [1..Cardinality(S) -> S]
  BY DEF Sorted
<1>4. s \in Seq(S)
  BY <1>2, <1>3
<1>5. QED
  BY <1>2, <1>4

\* An upsert and a removal leave a well-typed table.
LEMMA UpsertTyped ==
    ASSUME TableOK, NEW k \in Keys, NEW pin \in BOOLEAN, NEW done \in BOOLEAN,
           UpsertEntry(k, pin, done)
    PROVE  /\ entry' \in [Keys -> Entries]
           /\ entry'[k] \in Entries \ {NoEntry}
           /\ pin => entry'[k].pinned
           /\ entry[k] # NoEntry => (entry[k].pinned => entry'[k].pinned)
           /\ \A j \in Keys : j # k => entry'[j] = entry[j]
<1>1. entry' = [entry EXCEPT ![k] = Merged(entry[k], pin, done)]
  BY DEF UpsertEntry, TableOK
<1>2. entry[k] \in Entries
  BY DEF TableOK
<1>3. /\ Merged(entry[k], pin, done) \in Entries \ {NoEntry}
      /\ pin => Merged(entry[k], pin, done).pinned
      /\ entry[k] # NoEntry => (entry[k].pinned => Merged(entry[k], pin, done).pinned)
  BY <1>2, CacheAssumption DEF Merged, Entries
<1>4. QED
  BY <1>1, <1>3 DEF TableOK

LEMMA DeleteTyped ==
    ASSUME TableOK, NEW k \in Keys, DeleteEntry(k)
    PROVE  /\ entry' = [entry EXCEPT ![k] = NoEntry]
           /\ entry' \in [Keys -> Entries]
           /\ bare' = IF fav[k] # {} THEN bare \cup {k} ELSE bare
           /\ bare' \subseteq Keys
BY DEF TableOK, DeleteEntry, Entries

LEMMA RemoveTyped ==
    ASSUME DiskOK, NEW k \in Keys, RemoveFile(k)
    PROVE  DiskOK'
BY DEF DiskOK, RemoveFile, Unlinked, Files

LEMMA RequestTyped ==
    ASSUME Typed, NEW q \in Requests, Request(q)
    PROVE  TableOK' /\ DiskOK' /\ PlanOK' /\ RestOK'
<1> USE CacheAssumption
<1>p. q \in Procs /\ job[q] \in Keys /\ Client[q] \in Users
  BY DEF Typed, JobOK, Procs
<1>t. TableOK /\ DiskOK /\ PlanOK /\ RestOK /\ PcOK
  BY DEF Typed
<1>1. PlanOK'
  <2> USE DEF Request, LookUp, StatFile, Touch, ServeFile, DropCorrupt, MarkIncomplete,
          CheckEntry, Placeholder, LockRow, Recheck, AddFavorite, Pin, PlacePinned,
          RemoveFavorite, Unpin, Submit, Send, Unqueue
  <2>1. plan' = plan
    OBVIOUS
  <2>2. PICK l : Goto(q, l)
    OBVIOUS
  <2>3. l = pc'[q] /\ l # "row" /\ \A p \in Procs : p # q => pc'[p] = pc[p]
    BY <2>2, <1>p, <1>t DEF Goto, PcOK
  <2>4. QED
    BY <2>1, <2>3, <1>t DEF PlanOK
<1>2. DiskOK'
  <2>1. CASE DropCorrupt(q)
    BY <2>1, <1>p, <1>t, RemoveTyped DEF DropCorrupt
  <2>2. CASE ~DropCorrupt(q)
    <3>1. UNCHANGED <<file, tmp, handle, fresh>>
      BY <2>2 DEF Request, LookUp, StatFile, Touch, ServeFile, MarkIncomplete,
         CheckEntry, Placeholder, LockRow, Recheck, AddFavorite, Pin, PlacePinned,
         RemoveFavorite, Unpin, Submit, Send, Unqueue, disk
    <3>2. QED
      BY <3>1, <1>t DEF DiskOK
  <2>3. QED
    BY <2>1, <2>2
<1>3. RestOK'
  <2>1. CASE ServeFile(q)
    BY <2>1, <1>p, <1>t DEF ServeFile, RestOK, DiskOK
  <2>2. CASE ~ServeFile(q)
    BY <2>2, <1>t DEF Request, LookUp, StatFile, Touch, DropCorrupt, MarkIncomplete,
       CheckEntry, Placeholder, LockRow, Recheck, AddFavorite, Pin, PlacePinned,
       RemoveFavorite, Unpin, Submit, Send, Unqueue, RestOK
  <2>3. QED
    BY <2>1, <2>2
<1>4. TableOK'
  <2>e. entry[job[q]] \in Entries /\ fav[job[q]] \in SUBSET Users
    BY <1>p, <1>t DEF TableOK
  <2>1. CASE MarkIncomplete(q)
    <3>1. (IF entry[job[q]] = NoEntry THEN entry[job[q]]
           ELSE [entry[job[q]] EXCEPT !.completed = FALSE]) \in Entries
      BY <2>e DEF Entries
    <3>2. QED
      BY <2>1, <3>1, <1>p, <1>t DEF MarkIncomplete, TableOK
  <2>2. CASE Placeholder(q)
    BY <2>2, <1>p, <1>t, UpsertTyped DEF Placeholder, TableOK
  <2>3. CASE AddFavorite(q) \/ RemoveFavorite(q)
    BY <2>3, <2>e, <1>p, <1>t DEF AddFavorite, RemoveFavorite, TableOK
  <2>4. CASE Pin(q)
    <3>1. entry[job[q]] # NoEntry => [entry[job[q]] EXCEPT !.pinned = TRUE] \in Entries
      BY <2>e DEF Entries
    <3>2. QED
      BY <2>4, <3>1, <1>p, <1>t DEF Pin, TableOK
  <2>5. CASE PlacePinned(q)
    BY <2>5, <1>p, <1>t, UpsertTyped DEF PlacePinned, TableOK
  <2>6. CASE Unpin(q)
    <3>1. (IF entry[job[q]] = NoEntry \/ fav[job[q]] # {} THEN entry[job[q]]
           ELSE [entry[job[q]] EXCEPT !.pinned = FALSE]) \in Entries
      BY <2>e DEF Entries
    <3>2. QED
      BY <2>6, <3>1, <1>p, <1>t DEF Unpin, TableOK
  <2>7. CASE UNCHANGED <<entry, fav, bare>>
    BY <2>7, <1>t DEF TableOK
  <2>8. QED
    BY <2>1, <2>2, <2>3, <2>4, <2>5, <2>6, <2>7 DEF Request, LookUp, StatFile, Touch, ServeFile,
       DropCorrupt, CheckEntry, LockRow, Recheck, Submit, Send, Unqueue, table
<1>5. QED
  BY <1>1, <1>2, <1>3, <1>4

\* Whoever downloads works on a key.
LEMMA Downloader ==
    ASSUME PcOK, JobOK, NEW p \in Procs, pc[p] \in Transferring
    PROVE  p \in Requests \cup {Worker} /\ job[p] \in Keys
<1>1. p # Collector
  BY CacheAssumption DEF PcOK, Stops, Transferring, Evicting
<1>2. p = Worker => pc[p] # "idle"
  BY DEF Transferring
<1>3. QED
  BY <1>1, <1>2, CacheAssumption DEF JobOK, Procs

LEMMA DownloadTyped ==
    ASSUME Typed, NEW p \in Procs, Download(p)
    PROVE  TableOK' /\ DiskOK' /\ PlanOK' /\ RestOK'
<1> USE CacheAssumption
<1>t. TableOK /\ DiskOK /\ PlanOK /\ RestOK /\ PcOK /\ JobOK
  BY DEF Typed
<1>p. job[p] \in Keys
  <2>1. pc[p] \in Transferring
    BY DEF Download, CheckCached, NoClient, CreateTmp, Transfer, RefreshAndRetry,
       TransferFails, StatTmp, Promote, Cleanup, StoreEntry, StoreFails, At, Transferring
  <2>2. QED
    BY <2>1, <1>t, Downloader
<1>1. PlanOK' /\ RestOK'
  <2> USE DEF Download, CheckCached, NoClient, CreateTmp, Transfer, RefreshAndRetry,
          TransferFails, StatTmp, Promote, Cleanup, StoreEntry, StoreFails
  <2>1. plan' = plan /\ served' = served /\ crashes' = crashes
    OBVIOUS
  <2>2. PICK l : Goto(p, l)
    OBVIOUS
  <2>3. \A r \in Procs : r # p => pc'[r] = pc[r]
    BY <2>2, <1>t DEF Goto, PcOK
  <2>4. pc'[p] # "row"
    BY <1>t DEF Goto, PcOK, AfterFailure, AfterSuccess
  <2>5. QED
    BY <2>1, <2>3, <2>4, <1>t DEF PlanOK, RestOK
<1>2. TableOK'
  <2>1. CASE StoreEntry(p)
    BY <2>1, <1>p, <1>t, UpsertTyped DEF StoreEntry, TableOK
  <2>2. CASE ~StoreEntry(p)
    <3>1. UNCHANGED <<entry, fav, bare>>
      BY <2>2 DEF Download, CheckCached, NoClient, CreateTmp, Transfer, RefreshAndRetry,
         TransferFails, StatTmp, Promote, Cleanup, StoreFails, table
    <3>2. QED
      BY <3>1, <1>t DEF TableOK
  <2>3. QED
    BY <2>1, <2>2
<1>3. DiskOK'
  <2> USE DEF Files
  <2>1. CASE CreateTmp(p)
    BY <2>1, <1>p, <1>t DEF CreateTmp, DiskOK
  <2>2. CASE Transfer(p)
    BY <2>2, <1>p, <1>t DEF Transfer, Close, DiskOK
  <2>3. CASE RefreshAndRetry(p) \/ TransferFails(p)
    BY <2>3, <1>p, <1>t DEF RefreshAndRetry, TransferFails, Close, DiskOK
  <2>4. CASE Promote(p)
    BY <2>4, <1>p, <1>t DEF Promote, DiskOK, disk
  <2>5. CASE Cleanup(p)
    BY <2>5, <1>p, <1>t DEF Cleanup, Unlinked, DiskOK
  <2>6. CASE UNCHANGED disk
    BY <2>6, <1>t DEF disk, DiskOK
  <2>7. QED
    BY <2>1, <2>2, <2>3, <2>4, <2>5, <2>6 DEF Download, CheckCached, NoClient, StatTmp,
       StoreEntry, StoreFails
<1>4. QED
  BY <1>1, <1>2, <1>3

\* An eviction pass only ever names keys.
LEMMA EvictTyped ==
    ASSUME Typed, NEW p \in Procs, Evict(p)
    PROVE  TableOK' /\ DiskOK' /\ PlanOK' /\ RestOK'
<1> USE CacheAssumption DEF At
<1>t. TableOK /\ DiskOK /\ PlanOK /\ RestOK /\ PcOK
  BY DEF Typed
<1>r. RestOK'
  BY <1>t DEF Evict, NoCap, ScanDisk, LoadEntries, RemoveOrphan, DropStaleEntry, EvictFile,
     EvictEntry, EvictionDone, RestOK
<1>p. /\ plan[p] \in Plans
      /\ plan[p].orphans \subseteq Keys /\ plan[p].stale \subseteq Keys
      /\ plan[p].victims \in Seq(Keys) /\ plan[p].total \in Int
      /\ plan[p].scan \subseteq Keys
      /\ plan[p].victims # <<>> => /\ Head(plan[p].victims) \in Keys
                                   /\ Tail(plan[p].victims) \in Seq(Keys)
  BY <1>t DEF PlanOK, Plans
<1>m. ASSUME NEW r \in Plans, plan' = [plan EXCEPT ![p] = r], NEW l, Goto(p, l), l # "row"
      PROVE  PlanOK'
  <2>1. pc'[p] = l /\ \A s \in Procs : s # p => pc'[s] = pc[s]
    BY <1>m, <1>t DEF Goto, PcOK
  <2>2. /\ plan' \in [Procs -> Plans] /\ plan'[p] = r
        /\ \A s \in Procs : s # p => plan'[s] = plan[s]
    BY <1>m, <1>t DEF PlanOK
  <2>3. QED
    BY <1>m, <2>1, <2>2, <1>t DEF PlanOK
<1>u. ASSUME NEW l, Goto(p, l), UNCHANGED plan, l = "row" => plan[p].victims # <<>>
      PROVE  PlanOK'
  <2>1. pc'[p] = l /\ \A s \in Procs : s # p => pc'[s] = pc[s]
    BY <1>u, <1>t DEF Goto, PcOK
  <2>2. QED
    BY <1>u, <2>1, <1>t DEF PlanOK
<1>s. ASSUME UNCHANGED pc, pc[p] = "sweep", NEW r \in Plans, plan' = [plan EXCEPT ![p] = r]
      PROVE  PlanOK'
  BY <1>s, <1>t DEF PlanOK
<1>1. CASE NoCap(p)
  BY <1>1, <1>r, <1>t, <1>u DEF NoCap, TableOK, DiskOK, table, disk, AfterSuccess
<1>2. CASE ScanDisk(p)
  <2> DEFINE r == [plan[p] EXCEPT !.scan = {k \in Keys : OnDisk(k)}]
  <2>1. r \in Plans /\ plan' = [plan EXCEPT ![p] = r]
    BY <1>2, <1>p, <1>t DEF ScanDisk, Plans, PlanOK
  <2> HIDE DEF r
  <2>2. Goto(p, "load")
    BY <1>2 DEF ScanDisk
  <2>3. PlanOK'
    BY <2>1, <2>2, <1>m
  <2>4. QED
    BY <1>2, <2>3, <1>r, <1>t DEF ScanDisk, TableOK, DiskOK, table, disk
<1>3. CASE LoadEntries(p)
  <2> DEFINE listed == {k \in Keys : Completed(k)}
             both   == plan[p].scan \cap listed
  <2>1. PICK order \in Sorted(both) :
          plan' = [plan EXCEPT ![p] =
                     [scan |-> {}, orphans |-> plan[p].scan \ listed,
                      stale |-> StaleRows(listed, plan[p].scan), victims |-> order,
                      total |-> Cardinality(both)]]
    BY <1>3 DEF LoadEntries
  <2>2. order \in Seq(Keys) /\ Cardinality(both) \in Nat
    BY <1>p, SortedKeys
  <2> DEFINE r == [scan |-> {}, orphans |-> plan[p].scan \ listed,
                   stale |-> StaleRows(listed, plan[p].scan), victims |-> order,
                   total |-> Cardinality(both)]
  <2>3. r \in Plans
    BY <2>2, <1>p DEF Plans, StaleRows
  <2>4. plan' = [plan EXCEPT ![p] = r] /\ Goto(p, "sweep")
    BY <2>1, <1>3 DEF LoadEntries
  <2> HIDE DEF r
  <2>5. PlanOK'
    BY <2>3, <2>4, <1>m
  <2>6. QED
    BY <1>3, <2>5, <1>r, <1>t DEF LoadEntries, TableOK, DiskOK, table, disk
<1>4. CASE RemoveOrphan(p)
  <2>1. PICK k \in plan[p].orphans : /\ RemoveFile(k)
                                     /\ plan' = [plan EXCEPT ![p].orphans = @ \ {k}]
    BY <1>4 DEF RemoveOrphan
  <2> DEFINE r == [plan[p] EXCEPT !.orphans = @ \ {k}]
  <2>2. r \in Plans /\ plan' = [plan EXCEPT ![p] = r]
    BY <2>1, <1>p, <1>t DEF Plans, PlanOK
  <2> HIDE DEF r
  <2>3. DiskOK'
    BY <2>1, <1>p, <1>t, RemoveTyped
  <2>4. PlanOK'
    BY <2>2, <1>4, <1>s DEF RemoveOrphan
  <2>5. QED
    BY <1>4, <2>3, <2>4, <1>r, <1>t DEF RemoveOrphan, TableOK, table
<1>5. CASE DropStaleEntry(p)
  <2>1. PICK k \in plan[p].stale : /\ DeleteEntry(k)
                                   /\ plan' = [plan EXCEPT ![p].stale = @ \ {k}]
    BY <1>5 DEF DropStaleEntry
  <2> DEFINE r == [plan[p] EXCEPT !.stale = @ \ {k}]
  <2>2. r \in Plans /\ plan' = [plan EXCEPT ![p] = r]
    BY <2>1, <1>p, <1>t DEF Plans, PlanOK
  <2> HIDE DEF r
  <2>3. TableOK'
    BY <2>1, <1>p, <1>t, <1>5, DeleteTyped DEF DropStaleEntry, TableOK
  <2>4. PlanOK'
    BY <2>2, <1>5, <1>s DEF DropStaleEntry
  <2>5. QED
    BY <1>5, <2>3, <2>4, <1>r, <1>t DEF DropStaleEntry, DiskOK, disk
<1>6. CASE EvictFile(p)
  <2>1. plan[p].victims # <<>>
    BY <1>6 DEF EvictFile, OverCap
  <2>2. DiskOK'
    BY <1>6, <2>1, <1>p, <1>t, RemoveTyped DEF EvictFile
  <2>3. PlanOK'
    BY <1>6, <2>1, <1>u DEF EvictFile
  <2>4. QED
    BY <1>6, <2>2, <2>3, <1>r, <1>t DEF EvictFile, TableOK, table
<1>7. CASE EvictEntry(p)
  <2>1. plan[p].victims # <<>>
    BY <1>7, <1>t DEF EvictEntry, PlanOK
  <2> DEFINE r == [plan[p] EXCEPT !.victims = Tail(@), !.total = @ - 1]
  <2>2. r \in Plans /\ plan' = [plan EXCEPT ![p] = r]
    BY <2>1, <1>7, <1>p, <1>t DEF EvictEntry, Plans, PlanOK
  <2> HIDE DEF r
  <2>3. TableOK'
    BY <2>1, <1>p, <1>t, <1>7, DeleteTyped DEF EvictEntry, TableOK
  <2>4. PlanOK'
    <3>1. Goto(p, "sweep")
      BY <1>7 DEF EvictEntry
    <3>2. QED
      BY <2>2, <3>1, <1>m
  <2>5. QED
    BY <1>7, <2>3, <2>4, <1>r, <1>t DEF EvictEntry, DiskOK, disk
<1>8. CASE EvictionDone(p)
  <2>1. NoPlan \in Plans
    BY DEF NoPlan, Plans
  <2>2. PlanOK'
    <3>1. AfterSuccess(p) # "row" /\ Goto(p, AfterSuccess(p)) /\ plan' = [plan EXCEPT ![p] = NoPlan]
      BY <1>8 DEF EvictionDone, AfterSuccess
    <3>2. QED
      BY <2>1, <3>1, <1>m
  <2>3. QED
    BY <1>8, <2>2, <1>r, <1>t DEF EvictionDone, TableOK, DiskOK, table, disk
<1>9. QED
  BY <1>1, <1>2, <1>3, <1>4, <1>5, <1>6, <1>7, <1>8 DEF Evict

\* A disk that an earlier version left, and nothing else.
LEMMA InitTyped == Init => Typed /\ QueueInv
<1> SUFFICES ASSUME Init PROVE Typed /\ QueueInv
  OBVIOUS
<1> USE CacheAssumption
<1>1. PcOK
  <2>1. \A p \in Procs : pc[p] \in Stops(p)
    BY DEF Init, Stops, Procs
  <2>2. QED
    BY <2>1 DEF Init, PcOK
<1>2. JobOK
  <2>1. /\ job = [p \in Procs |-> job[p]]
        /\ \A q \in Requests : job[q] = Target[q]
        /\ job[Collector] = NoKey /\ job[Worker] = NoKey /\ pc[Worker] = "idle"
    BY DEF Init, Procs
  <2>2. queue \in Seq(Keys) /\ queued \subseteq Keys
    BY DEF Init
  <2>3. QED
    BY <2>1, <2>2 DEF JobOK
<1>3. TableOK
  BY DEF Init, TableOK, Entries
<1>4. DiskOK
  BY DEF Init, DiskOK, Files
<1>5. PlanOK
  <2>1. NoPlan \in Plans
    BY DEF NoPlan, Plans
  <2>2. \A p \in Procs : pc[p] # "row"
    BY DEF Init
  <2>3. QED
    BY <2>1, <2>2 DEF Init, PlanOK
<1>6. RestOK
  BY DEF Init, RestOK, Files
<1>7. QueuedOnce
  <2>1. \A k \in Keys : Sending(k) = {} /\ job[Worker] # k
    BY DEF Init, Sending, Procs
  <2>2. DOMAIN queue = {} /\ queued = {}
    BY DEF Init
  <2>3. QED
    BY <2>1, <2>2 DEF QueuedOnce
<1>8. QED
  BY <1>1, <1>2, <1>3, <1>4, <1>5, <1>6, <1>7 DEF Typed, QueueInv

LEMMA NextTyped == Typed /\ QueueInv /\ Next => Typed' /\ QueueInv'
<1> SUFFICES ASSUME Typed, QueueInv, Next PROVE TableOK' /\ DiskOK' /\ PlanOK' /\ RestOK'
  BY NextPc, NextQueue DEF Typed, QueueInv
<1> USE CacheAssumption
<1>t. TableOK /\ DiskOK /\ PlanOK /\ RestOK /\ PcOK
  BY DEF Typed
<1>1. CASE TakeJob \/ ReleaseJob \/ Tick
  <2>1. UNCHANGED <<entry, fav, bare, file, tmp, handle, fresh, plan, served, crashes>>
    BY <1>1 DEF TakeJob, ReleaseJob, Tick, table, disk
  <2>2. \A p \in Procs : pc'[p] = "row" => pc[p] = "row"
    BY <1>1, <1>t DEF TakeJob, ReleaseJob, Tick, Goto, PcOK
  <2>3. QED
    BY <2>1, <2>2, <1>t DEF TableOK, DiskOK, PlanOK, RestOK
<1>2. CASE Crash
  <2>1. TableOK'
    BY <1>2, <1>t DEF Crash, TableOK
  <2>2. DiskOK'
    BY <1>2, <1>t DEF Crash, DiskOK, Files
  <2>3. PlanOK'
    <3>1. NoPlan \in Plans
      BY DEF NoPlan, Plans
    <3>2. \A p \in Procs : pc'[p] # "row"
      BY <1>2 DEF Crash
    <3>3. QED
      BY <1>2, <3>1, <3>2 DEF Crash, PlanOK
  <2>4. RestOK'
    BY <1>2, <1>t DEF Crash, RestOK
  <2>5. QED
    BY <2>1, <2>2, <2>3, <2>4
<1>3. QED
  BY <1>1, <1>2, RequestTyped, DownloadTyped, EvictTyped DEF Next

LEMMA StutterTyped == Typed /\ QueueInv /\ UNCHANGED vars => Typed' /\ QueueInv'
<1> SUFFICES ASSUME Typed, QueueInv, UNCHANGED vars PROVE Typed' /\ QueueInv'
  OBVIOUS
<1>1. \A k \in Keys : Sending(k)' = Sending(k)
  BY DEF vars, Sending
<1>2. QueuedOnce'
  BY <1>1 DEF vars, QueueInv, QueuedOnce
<1>3. PcOK' /\ JobOK'
  BY DEF vars, QueueInv, PcOK, JobOK
<1>4. TableOK' /\ DiskOK' /\ PlanOK' /\ RestOK'
  BY DEF vars, Typed, TableOK, DiskOK, PlanOK, RestOK
<1>5. QED
  BY <1>2, <1>3, <1>4 DEF Typed, QueueInv

LEMMA SpecTyped == Spec => [](Typed /\ QueueInv)
<1>1. Typed /\ QueueInv /\ [Next]_vars => (Typed /\ QueueInv)'
  BY NextTyped, StutterTyped
<1>2. QED
  BY <1>1, InitTyped, PTL DEF Spec

\* Every variable keeps its type, whatever requests, worker, collector and
\* crashes do: the collector never gets into a download or a handler's code, an
\* eviction pass never removes a key it did not list.
THEOREM TypesHold == Spec => []TypeOK
<1>1. Typed => TypeOK
  <2> SUFFICES ASSUME Typed PROVE TypeOK
    OBVIOUS
  <2> USE CacheAssumption
  <2>1. /\ Requests \subseteq Procs /\ Worker \in Procs /\ Collector \in Procs
        /\ \A p \in Procs : p \in Requests \cup {Worker, Collector}
    BY DEF Procs
  <2>2. \A p \in Procs : pc[p] \in Stops(p)
    BY DEF Typed, PcOK
  <2>3. /\ pc[Worker] \in Transferring \cup Evicting \cup {"idle", "release"}
        /\ pc[Collector] \in Evicting \cup {"idle"}
    BY <2>1, <2>2 DEF Stops
  <2>4. \A q \in Requests : pc[q] \in Transferring \cup Evicting \cup Handling
    <3> SUFFICES ASSUME NEW q \in Requests
                 PROVE  pc[q] \in Transferring \cup Evicting \cup Handling
      OBVIOUS
    <3>1. pc[q] \in Stops(q) /\ q # Worker /\ q # Collector
      BY <2>1, <2>2
    <3>2. QED
      BY <3>1 DEF Stops, Handling
  <2>5. \A q \in Requests : pc[q] \notin {"idle", "release"}
    BY <2>4 DEF Transferring, Evicting, Handling
  <2>6. pc \in [Procs -> Transferring \cup Evicting \cup Handling \cup {"idle", "release"}]
    BY <2>1, <2>3, <2>4 DEF Typed, PcOK
  <2>7. job \in [Procs -> Keys \cup {NoKey}] /\ queue \in Seq(Keys) /\ queued \subseteq Keys
    <3>1. \A p \in Procs : job[p] \in Keys \cup {NoKey}
      BY <2>1 DEF Typed, JobOK
    <3>2. QED
      BY <3>1 DEF Typed, JobOK
  <2>8. QED
    BY <2>3, <2>5, <2>6, <2>7 DEF TypeOK, Typed, TableOK, DiskOK, RestOK
<1>2. QED
  BY <1>1, SpecTyped, PTL

\* Manager.queued is exact for any number of requests and any queue: a key in it
\* is held by one request about to send it, or by the queue, or by the worker, and
\* a key that any of them holds is in it.
THEOREM QueueHolds == Spec => []QueuedOnce
<1>1. QueueInv => QueuedOnce
  BY DEF QueueInv
<1>2. QED
  BY <1>1, SpecTyped, PTL

-----------------------------------------------------------------------------
(* The pin of a favorite *)

\* FavoritePinned alone is not inductive: without a row there would be nothing to
\* merge the pin from.  A favorite whose pin is neither on its way nor lost has one.
PinInv ==
    \A k \in Keys :
        fav[k] # {} /\ Adding(k) = {} /\ k \notin bare
            => entry[k] # NoEntry /\ entry[k].pinned

\* The requests of another key, and other steps, leave it alone.
LEMMA PinRequest ==
    ASSUME Typed, PinInv, NEW q \in Requests, Request(q)
    PROVE  PinInv'
<1> USE CacheAssumption DEF At
<1>t. TableOK /\ PcOK
  BY DEF Typed
<1>q. q \in Procs /\ job[q] = Target[q] /\ Target[q] \in Keys
  BY DEF Typed, JobOK, Procs
<1>l. PICK l : Goto(q, l)
  BY DEF Request, LookUp, StatFile, Touch, ServeFile, DropCorrupt, MarkIncomplete,
     CheckEntry, Placeholder, LockRow, Recheck, AddFavorite, Pin, PlacePinned,
     RemoveFavorite, Unpin, Submit, Send, Unqueue
<1>g. pc'[q] = l /\ \A r \in Requests : r # q => pc'[r] = pc[r]
  BY <1>l, <1>q, <1>t DEF Goto, PcOK, Procs
<1>o. \A k \in Keys : k # Target[q] => Adding(k)' = Adding(k)
  BY <1>g DEF Adding
<1>e. entry[Target[q]] \in Entries
  BY <1>q, <1>t DEF TableOK
<1>s. ASSUME \A k \in Keys : k # Target[q] => entry'[k] = entry[k] /\ fav'[k] = fav[k],
             bare \ {Target[q]} = bare' \ {Target[q]},
             fav'[Target[q]] # {} /\ Adding(Target[q])' = {} /\ Target[q] \notin bare'
                => entry'[Target[q]] # NoEntry /\ entry'[Target[q]].pinned
      PROVE  PinInv'
  <2> SUFFICES ASSUME NEW k \in Keys, fav'[k] # {}, Adding(k)' = {}, k \notin bare'
               PROVE  entry'[k] # NoEntry /\ entry'[k].pinned
    BY DEF PinInv
  <2>1. CASE k = Target[q]
    BY <2>1, <1>s
  <2>2. CASE k # Target[q]
    BY <2>2, <1>s, <1>o DEF PinInv
  <2>3. QED
    BY <2>1, <2>2
<1>n. ASSUME pc[q] \notin {"pin", "placepin"}, pc'[q] \notin {"pin", "placepin"}
      PROVE  Adding(Target[q])' = Adding(Target[q])
  BY <1>n, <1>g DEF Adding
<1>1. CASE MarkIncomplete(q)
  <2>1. pc'[q] = "ensure"
    BY <1>1, <1>q, <1>t DEF MarkIncomplete, Goto, PcOK
  <2>2. Adding(Target[q])' = Adding(Target[q])
    BY <1>1, <2>1, <1>n DEF MarkIncomplete
  <2>3. /\ UNCHANGED <<fav, bare>>
        /\ \A k \in Keys : k # Target[q] => entry'[k] = entry[k]
        /\ entry'[Target[q]] = IF entry[Target[q]] = NoEntry THEN entry[Target[q]]
                               ELSE [entry[Target[q]] EXCEPT !.completed = FALSE]
    BY <1>1, <1>q, <1>t DEF MarkIncomplete, TableOK
  <2>4. entry[Target[q]] # NoEntry =>
          /\ [entry[Target[q]] EXCEPT !.completed = FALSE] # NoEntry
          /\ [entry[Target[q]] EXCEPT !.completed = FALSE].pinned = entry[Target[q]].pinned
    BY <1>e DEF Entries
  <2>5. QED
    BY <2>2, <2>3, <2>4, <1>q, <1>s DEF PinInv
<1>2. CASE Placeholder(q)
  <2>1. pc'[q] = "submit"
    BY <1>2, <1>q, <1>t DEF Placeholder, Goto, PcOK
  <2>2. Adding(Target[q])' = Adding(Target[q])
    BY <1>2, <2>1, <1>n DEF Placeholder
  <2>3. UNCHANGED <<fav, bare>> /\ UpsertEntry(Target[q], FALSE, FALSE)
    BY <1>2, <1>q DEF Placeholder
  <2>4. QED
    BY <2>2, <2>3, <1>q, <1>s, <1>t, UpsertTyped DEF PinInv
<1>3. CASE AddFavorite(q)
  <2>1. pc'[q] = "pin" /\ Kind[q] = "add"
    BY <1>3, <1>q, <1>t DEF AddFavorite, Goto, PcOK
  <2>2. q \in Adding(Target[q])'
    BY <2>1 DEF Adding
  <2>3. UNCHANGED <<entry, bare>> /\ \A k \in Keys : k # Target[q] => fav'[k] = fav[k]
    BY <1>3, <1>q, <1>t DEF AddFavorite, TableOK
  <2>4. QED
    BY <2>2, <2>3, <1>s
<1>4. CASE RemoveFavorite(q)
  <2>1. pc'[q] = "unpin"
    BY <1>4, <1>q, <1>t DEF RemoveFavorite, Goto, PcOK
  <2>2. Adding(Target[q])' = Adding(Target[q])
    BY <1>4, <2>1, <1>n DEF RemoveFavorite
  <2>3. /\ UNCHANGED <<entry, bare>> /\ \A k \in Keys : k # Target[q] => fav'[k] = fav[k]
        /\ fav'[Target[q]] \subseteq fav[Target[q]]
    BY <1>4, <1>q, <1>t DEF RemoveFavorite, TableOK
  <2>4. QED
    BY <2>2, <2>3, <1>q, <1>s DEF PinInv
<1>5. CASE Pin(q)
  <2>1. CASE entry[Target[q]] = NoEntry
    <3>1. pc'[q] = "placepin" /\ Kind[q] = "add"
      BY <1>5, <2>1, <1>q, <1>t DEF Pin, Goto, PcOK, Completed, Stops, Transferring, Evicting
    <3>2. q \in Adding(Target[q])'
      BY <3>1 DEF Adding
    <3>3. UNCHANGED <<entry, fav, bare>>
      BY <1>5, <2>1, <1>q DEF Pin
    <3>4. QED
      BY <3>2, <3>3, <1>s
  <2>2. CASE entry[Target[q]] # NoEntry
    <3>1. /\ fav' = fav /\ bare' = bare \ {Target[q]}
          /\ \A k \in Keys : k # Target[q] => entry'[k] = entry[k]
          /\ entry'[Target[q]] = [entry[Target[q]] EXCEPT !.pinned = TRUE]
      BY <1>5, <2>2, <1>q, <1>t DEF Pin, TableOK
    <3>2. /\ [entry[Target[q]] EXCEPT !.pinned = TRUE] # NoEntry
          /\ [entry[Target[q]] EXCEPT !.pinned = TRUE].pinned
      BY <2>2, <1>e DEF Entries
    <3>3. QED
      BY <3>1, <3>2, <1>s
  <2>3. QED
    BY <2>1, <2>2
<1>6. CASE PlacePinned(q)
  <2>1. fav' = fav /\ bare' = bare \ {Target[q]} /\ UpsertEntry(Target[q], TRUE, FALSE)
    BY <1>6, <1>q DEF PlacePinned
  <2>2. QED
    BY <2>1, <1>q, <1>s, <1>t, UpsertTyped
<1>7. CASE Unpin(q)
  <2>1. pc'[q] = "done"
    BY <1>7, <1>q, <1>t DEF Unpin, Goto, PcOK
  <2>2. Adding(Target[q])' = Adding(Target[q])
    BY <1>7, <2>1, <1>n DEF Unpin
  <2>3. /\ UNCHANGED <<fav, bare>>
        /\ \A k \in Keys : k # Target[q] => entry'[k] = entry[k]
        /\ fav[Target[q]] # {} => entry'[Target[q]] = entry[Target[q]]
    BY <1>7, <1>q, <1>t DEF Unpin, TableOK
  <2>4. QED
    BY <2>2, <2>3, <1>q, <1>s DEF PinInv
<1>8. CASE \/ LookUp(q) \/ StatFile(q) \/ Touch(q) \/ ServeFile(q) \/ DropCorrupt(q)
           \/ CheckEntry(q) \/ LockRow(q) \/ Recheck(q) \/ Submit(q) \/ Send(q) \/ Unqueue(q)
  <2> USE DEF LookUp, StatFile, Touch, ServeFile, DropCorrupt, CheckEntry, LockRow, Recheck,
          Submit, Send, Unqueue
  <2>1. UNCHANGED <<entry, fav, bare>>
    BY <1>8 DEF table
  <2>2. pc[q] \notin {"pin", "placepin"}
    BY <1>8
  <2>3. pc'[q] \notin {"pin", "placepin"}
    BY <1>8, <1>q, <1>t DEF Goto, PcOK
  <2>4. QED
    BY <2>1, <2>2, <2>3, <1>n, <1>q, <1>s DEF PinInv
<1>9. QED
  BY <1>1, <1>2, <1>3, <1>4, <1>5, <1>6, <1>7, <1>8 DEF Request

LEMMA NextPinned == Typed /\ PinInv /\ Next => PinInv'
<1> SUFFICES ASSUME Typed, PinInv, Next PROVE PinInv'
  OBVIOUS
<1> USE CacheAssumption DEF At
<1>t. TableOK /\ PlanOK /\ PcOK /\ JobOK
  BY DEF Typed
<1>p. /\ Worker \notin Requests /\ Collector \notin Requests
      /\ \A p \in Procs : p \in Requests \cup {Worker, Collector}
  BY DEF Procs
<1>a. ASSUME UNCHANGED <<entry, fav, bare>>, \A k \in Keys : Adding(k)' = Adding(k)
      PROVE  PinInv'
  BY <1>a DEF PinInv
\* A worker, a collector or a viewer adds no favorite.
<1>m. ASSUME NEW p \in Procs, NEW l, Goto(p, l), p \in Requests => Kind[p] # "add"
      PROVE  \A k \in Keys : Adding(k)' = Adding(k)
  <2>1. \A r \in Requests : Kind[r] = "add" => pc'[r] = pc[r]
    BY <1>m, <1>t DEF Goto, PcOK, Procs
  <2>2. QED
    BY <2>1 DEF Adding
<1>k. \A p \in Procs : pc[p] \in Transferring \cup Evicting => (p \in Requests => Kind[p] # "add")
  <2> SUFFICES ASSUME NEW p \in Procs, pc[p] \in Transferring \cup Evicting, p \in Requests
               PROVE  Kind[p] # "add"
    OBVIOUS
  <2>1. pc[p] \in Stops(p)
    BY <1>t DEF PcOK
  <2>2. QED
    BY <2>1, <1>p DEF Stops, Transferring, Evicting
<1>1. CASE TakeJob \/ ReleaseJob \/ Tick
  <2>1. UNCHANGED <<entry, fav, bare>>
    BY <1>1 DEF TakeJob, ReleaseJob, Tick, table
  <2>2. \A k \in Keys : Adding(k)' = Adding(k)
    BY <1>1, <1>p, <1>m DEF TakeJob, ReleaseJob, Tick, Procs
  <2>3. QED
    BY <2>1, <2>2, <1>a
<1>2. CASE Crash
  <2>1. /\ UNCHANGED <<entry, fav>>
        /\ bare' = bare \cup {k \in Keys : Adding(k) # {}}
    BY <1>2 DEF Crash
  <2>2. QED
    BY <2>1 DEF PinInv
<1>3. ASSUME NEW q \in Requests, Request(q) PROVE PinInv'
  BY <1>3, PinRequest
<1>4. ASSUME NEW p \in Procs, Download(p) PROVE PinInv'
  <2> USE DEF Download, CheckCached, NoClient, CreateTmp, Transfer, RefreshAndRetry,
          TransferFails, StatTmp, Promote, Cleanup, StoreFails
  <2>1. pc[p] \in Transferring
    BY <1>4 DEF Transferring, StoreEntry
  <2>2. PICK l : Goto(p, l)
    BY <1>4 DEF StoreEntry
  <2>3. \A k \in Keys : Adding(k)' = Adding(k)
    BY <2>1, <2>2, <1>k, <1>m
  <2>4. CASE StoreEntry(p)
    <3>1. job[p] \in Keys
      BY <2>1, <1>t, Downloader
    <3>2. UNCHANGED <<fav, bare>> /\ UpsertEntry(job[p], FALSE, TRUE)
      BY <2>4 DEF StoreEntry
    <3>3. QED
      BY <2>3, <3>1, <3>2, <1>t, UpsertTyped DEF PinInv
  <2>5. CASE ~StoreEntry(p)
    <3>1. UNCHANGED <<entry, fav, bare>>
      BY <1>4, <2>5 DEF table
    <3>2. QED
      BY <3>1, <2>3, <1>a
  <2>6. QED
    BY <2>4, <2>5
<1>5. ASSUME NEW p \in Procs, Evict(p) PROVE PinInv'
  <2>1. pc[p] \in Evicting
    BY <1>5 DEF Evict, NoCap, ScanDisk, LoadEntries, RemoveOrphan, DropStaleEntry, EvictFile,
       EvictEntry, EvictionDone, Evicting
  <2>2. (\E l : Goto(p, l)) \/ UNCHANGED pc
    BY <1>5 DEF Evict, NoCap, ScanDisk, LoadEntries, RemoveOrphan, DropStaleEntry, EvictFile,
       EvictEntry, EvictionDone
  <2>3. \A k \in Keys : Adding(k)' = Adding(k)
    <3>1. CASE UNCHANGED pc
      BY <3>1 DEF Adding
    <3>2. QED
      BY <2>1, <2>2, <3>1, <1>k, <1>m
  <2>4. plan[p] \in Plans
    BY <1>t DEF PlanOK
  <2>d. ASSUME NEW k \in Keys, DeleteEntry(k), UNCHANGED fav PROVE PinInv'
    <3>1. /\ entry' = [entry EXCEPT ![k] = NoEntry]
          /\ bare' = IF fav[k] # {} THEN bare \cup {k} ELSE bare
      BY <2>d, <1>t, DeleteTyped
    <3>2. \A j \in Keys : j # k => entry'[j] = entry[j]
      BY <3>1, <1>t DEF TableOK
    <3>3. QED
      BY <2>d, <2>3, <3>1, <3>2 DEF PinInv
  <2>5. CASE DropStaleEntry(p)
    BY <2>5, <2>4, <2>d DEF DropStaleEntry, Plans
  <2>6. CASE EvictEntry(p)
    <3>1. plan[p].victims # <<>> /\ plan[p].victims \in Seq(Keys)
      BY <2>6, <2>4, <1>t DEF EvictEntry, PlanOK, Plans
    <3>2. Head(plan[p].victims) \in Keys
      BY <3>1
    <3>3. QED
      BY <2>6, <3>2, <2>d DEF EvictEntry
  <2>7. CASE ~(DropStaleEntry(p) \/ EvictEntry(p))
    <3>1. UNCHANGED <<entry, fav, bare>>
      BY <1>5, <2>7 DEF Evict, NoCap, ScanDisk, LoadEntries, RemoveOrphan, EvictFile,
         EvictionDone, table
    <3>2. QED
      BY <3>1, <2>3, <1>a
  <2>8. QED
    BY <2>5, <2>6, <2>7
<1>6. QED
  BY <1>1, <1>2, <1>3, <1>4, <1>5 DEF Next

\* No download, replay, invalidation, eviction pass or other user's removal takes
\* the pin of a favorite away, for any number of users and requests.
THEOREM PinHolds == Spec => []FavoritePinned
<1>1. Init => PinInv
  BY DEF Init, PinInv
<1>2. Typed /\ PinInv /\ [Next]_vars => PinInv'
  <2>1. PinInv /\ UNCHANGED vars => PinInv'
    BY DEF PinInv, Adding, vars
  <2>2. QED
    BY <2>1, NextPinned
<1>3. PinInv => FavoritePinned
  BY DEF PinInv, FavoritePinned
<1>4. QED
  BY <1>1, <1>2, <1>3, SpecTyped, PTL DEF Spec

-----------------------------------------------------------------------------
(* What is served *)

\* Only the worker downloads videos, and it renames a file it found whole; so a
\* play request between its size check and http.ServeFile sees no truncated file.
WholeInv ==
    /\ pc[Worker] = "rename" /\ job[Worker] \in VideoKeys => tmp[job[Worker]] = "whole"
    /\ \A q \in Requests :
         Kind[q] = "play" /\ pc[q] \in {"touch", "open"} => file[Target[q]] # "part"
    /\ ServedWhole

\* A request that downloads, downloads a photo.
LEMMA VideosByWorker ==
    ASSUME PcOK, JobOK, NEW p \in Procs, pc[p] \in Transferring, job[p] \in VideoKeys
    PROVE  p = Worker
<1>1. p \in Requests \cup {Worker} /\ pc[p] \in Stops(p)
  BY Downloader DEF PcOK
<1>2. ASSUME p \in Requests PROVE FALSE
  <2>1. p # Worker /\ p # Collector /\ job[p] = Target[p] /\ Kind[p] # "view"
    BY <1>2, CacheAssumption DEF JobOK
  <2>2. QED
    BY <1>1, <2>1, <1>2, CacheAssumption DEF Stops, Transferring
<1>3. QED
  BY <1>1, <1>2

LEMMA WholeRequest ==
    ASSUME Typed, WholeInv, NEW q \in Requests, Request(q)
    PROVE  WholeInv'
<1> USE CacheAssumption DEF At
<1>t. DiskOK /\ PcOK /\ JobOK /\ RestOK
  BY DEF Typed
<1>q. /\ q \in Procs /\ q # Worker /\ q # Collector /\ job[q] = Target[q] /\ Target[q] \in Keys
      /\ pc[q] \in Stops(q) /\ Worker \in Procs
  BY <1>t DEF JobOK, PcOK, Procs
<1> USE DEF Request, LookUp, StatFile, Touch, ServeFile, DropCorrupt, MarkIncomplete,
        CheckEntry, Placeholder, LockRow, Recheck, AddFavorite, Pin, PlacePinned,
        RemoveFavorite, Unpin, Submit, Send, Unqueue
<1>l. PICK l : Goto(q, l)
  OBVIOUS
<1>g. \A p \in Procs : p # q => pc'[p] = pc[p]
  BY <1>l, <1>t DEF Goto, PcOK
<1>1. UNCHANGED <<tmp, job>>
  BY DEF disk, RemoveFile
<1>2. \A k \in Keys : file'[k] \in {"none", file[k]}
  BY <1>q, <1>t DEF disk, RemoveFile, DiskOK
<1>3. \A r \in Requests : r # q => served'[r] = served[r]
  BY <1>t DEF RestOK
<1>4. Kind[q] = "play" /\ pc'[q] \in {"touch", "open"} => file'[Target[q]] # "part"
  <2> SUFFICES ASSUME Kind[q] = "play", pc'[q] \in {"touch", "open"}
               PROVE  file'[Target[q]] # "part"
    OBVIOUS
  <2>1. CASE StatFile(q)
    <3>1. IntegrityOK(job[q]) /\ file' = file
      BY <2>1, <1>q, <1>t DEF Goto, PcOK, disk
    <3>2. QED
      BY <3>1, <1>q DEF IntegrityOK
  <2>2. CASE Touch(q)
    BY <2>2, <1>q DEF WholeInv, disk
  <2>3. CASE ~StatFile(q) /\ ~Touch(q)
    <3>1. FALSE
      BY <2>3, <1>q, <1>t DEF Goto, PcOK, Stops
    <3>2. QED
      BY <3>1
  <2>4. QED
    BY <2>1, <2>2, <2>3
<1>5. Target[q] \in VideoKeys => served'[q] # "part"
  <2> SUFFICES ASSUME Target[q] \in VideoKeys PROVE served'[q] # "part"
    OBVIOUS
  <2>1. CASE ServeFile(q)
    <3>1. pc[q] = "open" /\ served'[q] = file[Target[q]]
      BY <2>1, <1>q, <1>t DEF RestOK
    <3>2. Kind[q] = "play"
      BY <3>1, <1>q DEF Stops
    <3>3. QED
      BY <3>1, <3>2 DEF WholeInv
  <2>2. CASE ~ServeFile(q)
    BY <2>2 DEF WholeInv, ServedWhole
  <2>3. QED
    BY <2>1, <2>2
<1>6. ServedWhole'
  BY <1>3, <1>5 DEF WholeInv, ServedWhole
<1>7. pc'[Worker] = "rename" /\ job'[Worker] \in VideoKeys => tmp'[job'[Worker]] = "whole"
  BY <1>1, <1>g, <1>q DEF WholeInv
<1>8. \A r \in Requests : Kind[r] = "play" /\ pc'[r] \in {"touch", "open"}
                            => file'[Target[r]] # "part"
  <2> SUFFICES ASSUME NEW r \in Requests, r # q, Kind[r] = "play", pc'[r] \in {"touch", "open"}
               PROVE  file'[Target[r]] # "part"
    BY <1>4
  <2>1. pc'[r] = pc[r] /\ Target[r] \in Keys
    BY <1>g DEF Procs
  <2>2. QED
    BY <2>1, <1>2 DEF WholeInv
<1>9. QED
  BY <1>6, <1>7, <1>8 DEF WholeInv

\* A video's file and temporary file change by the worker's hand only; photos are
\* nobody's target who plays.
LEMMA WholeDownload ==
    ASSUME Typed, WholeInv, NEW p \in Procs, Download(p)
    PROVE  WholeInv'
<1> USE CacheAssumption DEF At
<1>t. DiskOK /\ PcOK /\ JobOK /\ RestOK
  BY DEF Typed
<1>c. pc[p] \in Transferring
  BY DEF Download, CheckCached, NoClient, CreateTmp, Transfer, RefreshAndRetry,
     TransferFails, StatTmp, Promote, Cleanup, StoreEntry, StoreFails, Transferring
<1>p. job[p] \in Keys /\ Worker \in Procs /\ (job[p] \in VideoKeys => p = Worker)
  BY <1>c, <1>t, Downloader, VideosByWorker DEF Procs
<1>g. PICK l : Goto(p, l)
  BY DEF Download, CheckCached, NoClient, CreateTmp, Transfer, RefreshAndRetry,
     TransferFails, StatTmp, Promote, Cleanup, StoreEntry, StoreFails
<1>h. pc'[p] = l /\ \A r \in Procs : r # p => pc'[r] = pc[r]
  BY <1>g, <1>t DEF Goto, PcOK
<1>j. UNCHANGED <<job, served>>
  BY DEF Download, CheckCached, NoClient, CreateTmp, Transfer, RefreshAndRetry,
     TransferFails, StatTmp, Promote, Cleanup, StoreEntry, StoreFails
<1>o. \A k \in Keys : k # job[p] => file'[k] = file[k] /\ tmp'[k] = tmp[k]
  BY <1>p, <1>t DEF Download, CheckCached, NoClient, CreateTmp, Transfer, RefreshAndRetry,
     TransferFails, StatTmp, Promote, Cleanup, StoreEntry, StoreFails, disk, DiskOK
<1>1. pc'[Worker] = "rename" /\ job'[Worker] \in VideoKeys => tmp'[job'[Worker]] = "whole"
  <2> SUFFICES ASSUME pc'[Worker] = "rename", job[Worker] \in VideoKeys
               PROVE  tmp'[job[Worker]] = "whole"
    BY <1>j
  <2>1. CASE p = Worker
    <3>1. StatTmp(p)
      BY <2>1, <1>t, <1>p DEF Download, CheckCached, NoClient, CreateTmp, Transfer,
         RefreshAndRetry, TransferFails, StatTmp, Promote, Cleanup, StoreEntry, StoreFails,
         Goto, PcOK, AfterFailure, AfterSuccess
    <3>2. Accepts(job[p]) /\ tmp' = tmp
      BY <2>1, <3>1, <1>t, <1>p DEF StatTmp, Goto, PcOK, disk
    <3>3. QED
      BY <2>1, <3>2 DEF Accepts
  <2>2. CASE p # Worker
    <3>1. pc[Worker] = "rename" /\ job[Worker] \in Keys /\ job[p] # job[Worker]
      BY <2>2, <1>h, <1>p
    <3>2. QED
      BY <3>1, <1>o DEF WholeInv
  <2>3. QED
    BY <2>1, <2>2
<1>2. ASSUME job[p] \in VideoKeys, file'[job[p]] # file[job[p]]
      PROVE  file'[job[p]] = "whole"
  <2>1. CASE Transfer(p)
    BY <2>1, <1>2, <1>p, <1>t DEF Transfer, DiskOK
  <2>2. CASE Promote(p)
    <3>1. tmp[job[p]] = "whole"
      BY <2>2, <1>2, <1>p DEF Promote, WholeInv
    <3>2. QED
      BY <2>2, <3>1, <1>2, <1>p, <1>t DEF Promote, DiskOK, disk
  <2>3. CASE ~Transfer(p) /\ ~Promote(p)
    BY <2>3, <1>2 DEF Download, CheckCached, NoClient, CreateTmp, RefreshAndRetry,
       TransferFails, StatTmp, Cleanup, StoreEntry, StoreFails, disk
  <2>4. QED
    BY <2>1, <2>2, <2>3
<1>3. \A q \in Requests : Kind[q] = "play" /\ pc'[q] \in {"touch", "open"}
                            => file'[Target[q]] # "part"
  <2> SUFFICES ASSUME NEW q \in Requests, Kind[q] = "play", pc'[q] \in {"touch", "open"}
               PROVE  file'[Target[q]] # "part"
    OBVIOUS
  <2>1. Target[q] \in VideoKeys /\ Target[q] \in Keys /\ q \in Procs /\ q # Worker
    BY DEF Procs
  <2>2. p # q
    <3>1. pc[q] \in Stops(q) /\ q # Collector
      BY <2>1, <1>t DEF PcOK
    <3>2. pc[q] \notin Transferring
      BY <2>1, <3>1 DEF Stops, Transferring
    <3>3. QED
      BY <3>2, <1>c
  <2>3. pc[q] \in {"touch", "open"}
    BY <2>1, <2>2, <1>h
  <2>4. file[Target[q]] # "part"
    BY <2>3 DEF WholeInv
  <2>5. QED
    BY <2>1, <2>4, <1>2, <1>o
<1>4. ServedWhole'
  BY <1>j DEF WholeInv, ServedWhole
<1>5. QED
  BY <1>1, <1>3, <1>4 DEF WholeInv

LEMMA NextWhole == Typed /\ WholeInv /\ Next => WholeInv'
<1> SUFFICES ASSUME Typed, WholeInv, Next PROVE WholeInv'
  OBVIOUS
<1> USE CacheAssumption DEF At
<1>t. DiskOK /\ PcOK /\ JobOK /\ PlanOK
  BY DEF Typed
<1>p. Requests \subseteq Procs /\ Worker \in Procs /\ Collector \in Procs
  BY DEF Procs
<1>1. CASE TakeJob \/ ReleaseJob \/ Tick
  <2>1. UNCHANGED <<file, tmp, served>>
    BY <1>1 DEF TakeJob, ReleaseJob, Tick, disk
  <2>2. /\ \A q \in Requests : pc'[q] = pc[q]
        /\ pc'[Worker] # "rename" \/ (UNCHANGED job /\ pc'[Worker] = pc[Worker])
    <3>1. CASE TakeJob \/ ReleaseJob
      <4>1. Goto(Worker, "check") \/ Goto(Worker, "idle")
        BY <3>1 DEF TakeJob, ReleaseJob
      <4>2. pc'[Worker] \in {"check", "idle"} /\ \A p \in Procs : p # Worker => pc'[p] = pc[p]
        BY <4>1, <1>p, <1>t DEF Goto, PcOK
      <4>3. QED
        BY <4>2, <1>p
    <3>2. CASE Tick
      BY <3>2, <1>p, <1>t DEF Tick, Goto, PcOK
    <3>3. QED
      BY <1>1, <3>1, <3>2
  <2>3. QED
    BY <2>1, <2>2 DEF WholeInv, ServedWhole
<1>2. CASE Crash
  <2>1. /\ UNCHANGED <<file, served>> /\ pc'[Worker] = "idle"
        /\ \A q \in Requests : pc'[q] \in {"start", "done"}
    BY <1>2, <1>p DEF Crash
  <2>2. QED
    BY <2>1 DEF WholeInv, ServedWhole
<1>3. ASSUME NEW q \in Requests, Request(q) PROVE WholeInv'
  BY <1>3, WholeRequest
<1>4. ASSUME NEW p \in Procs, Download(p) PROVE WholeInv'
  BY <1>4, WholeDownload
<1>5. ASSUME NEW p \in Procs, Evict(p) PROVE WholeInv'
  <2> USE DEF Evict, NoCap, ScanDisk, LoadEntries, RemoveOrphan, DropStaleEntry, EvictFile,
          EvictEntry, EvictionDone
  <2>1. UNCHANGED <<tmp, job, served>>
    BY <1>5 DEF disk, RemoveFile
  <2>2. \A k \in Keys : file'[k] \in {"none", file[k]}
    BY <1>5, <1>t DEF disk, RemoveFile, DiskOK
  <2>3. \A r \in Procs : pc'[r] = pc[r] \/ r = p
    BY <1>5, <1>t DEF Goto, PcOK
  <2>4. pc'[p] = pc[p] \/ (pc'[p] # "rename" /\ (p \in Requests => Kind[p] # "play"))
    <3>1. pc[p] \in Evicting /\ pc[p] \in Stops(p)
      BY <1>5, <1>t DEF Evicting, PcOK
    <3>2. p \in Requests => Kind[p] # "play"
      BY <3>1, <1>p DEF Stops, Evicting
    <3>3. pc'[p] # "rename"
      BY <1>5, <1>t, <3>1 DEF Goto, PcOK, AfterSuccess, Evicting
    <3>4. QED
      BY <3>2, <3>3
  <2>5. ServedWhole'
    BY <2>1 DEF WholeInv, ServedWhole
  <2>6. pc'[Worker] = "rename" => pc[Worker] = "rename"
    BY <2>3, <2>4, <1>p
  <2>7. \A q \in Requests : Kind[q] = "play" /\ pc'[q] \in {"touch", "open"}
                              => file'[Target[q]] # "part"
    <3> SUFFICES ASSUME NEW q \in Requests, Kind[q] = "play", pc'[q] \in {"touch", "open"}
                 PROVE  file'[Target[q]] # "part"
      OBVIOUS
    <3>1. pc'[q] = pc[q] /\ Target[q] \in Keys
      BY <2>3, <2>4, <1>p
    <3>2. QED
      BY <3>1, <2>2 DEF WholeInv
  <2>8. QED
    BY <2>1, <2>5, <2>6, <2>7 DEF WholeInv
<1>6. QED
  BY <1>1, <1>2, <1>3, <1>4, <1>5 DEF Next

\* No video is ever served from a truncated file, for any number of videos,
\* requests, truncated files of an earlier version and crashes.
THEOREM ServesWhole == Spec => []ServedWhole
<1>1. Init => WholeInv
  BY CacheAssumption DEF Init, WholeInv, ServedWhole, Procs
<1>2. Typed /\ WholeInv /\ [Next]_vars => WholeInv'
  <2>1. WholeInv /\ UNCHANGED vars => WholeInv'
    BY DEF WholeInv, ServedWhole, vars
  <2>2. QED
    BY <2>1, NextWhole
<1>3. WholeInv => ServedWhole
  BY DEF WholeInv
<1>4. QED
  BY <1>1, <1>2, <1>3, SpecTyped, PTL DEF Spec

=============================================================================
