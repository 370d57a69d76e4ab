---------------------------- MODULE StreamWindow ----------------------------
(* One request to /api/videos/{id}/stream answered from Telegram            *)
(* (internal/video/stream.go, refresh.go): the Range header, the pool of    *)
(* workers that fetch blocks ahead of the in-order writer, the sequential   *)
(* reader for files of unknown size, and the renewal of an expired locator. *)
(*                                                                          *)
(* A byte is its position in the file.  The size is counted in bytes and    *)
(* ChunkSize is small; nothing depends on how small.                        *)
EXTENDS Integers, Sequences, FiniteSets

CONSTANTS
    ChunkSize,    \* 1 MiB in the code
    ReadAhead,    \* readAheadWorkers, 4 in the code
    Attempts,     \* fetchAttempts, 3 in the code
    MaxStream,    \* maxStream, the end of a range when the size is unknown
    FileSize,     \* what Telegram holds
    Recorded,     \* values videos.file_size may have; 0 is unknown
    Headers,      \* Range headers a client may send
    MaxExpiries   \* how often Telegram expires a file reference

Absent == -1   \* a number left out of the Range header
Bad    == -2   \* text that is not a number

ASSUME StreamAssumption ==
    /\ ChunkSize \in Nat \ {0} /\ ReadAhead \in Nat \ {0} /\ Attempts \in Nat \ {0}
    /\ FileSize \in Nat \ {0} /\ Recorded \subseteq Nat /\ MaxExpiries \in Nat
    /\ MaxStream \in Nat /\ \A n \in Recorded \cup {FileSize} : n <= MaxStream
    /\ Headers \subseteq [unit : {"none", "bytes", "other"}, first : Int, last : Int]

Passes  == {1, 2}                       \* streamWindowed is called at most twice
Workers == Passes \X (0..(ReadAhead - 1))

VARIABLES
    method, header,  \* of the request
    size,       \* v.FileSize
    locator,    \* version of v.FileReference; 0 for an imported row
    expired,    \* Telegram refuses versions up to this one
    main,       \* what the handler does next
    after,      \* where it goes once the locator is renewed
    status,     \* of the response; 0 before the headers
    lo, hi,     \* the range being answered
    out,        \* the body written so far
    refreshed,
    pass, from, \* the current call of streamWindowed; where each began
    i,          \* blocks its writer has taken
    wpc, wblk,  \* per worker: what it does next, and for which block of the pass
    wreq,       \* the locator in its request
    wtry, wres, \* failed attempts; the result it has to hand over
    chan,       \* its channel of size one
    cancelled,  \* passes whose context is cancelled
    gone,       \* the client disconnected
    result      \* how streamRange ended

vars == <<method, header, size, locator, expired, main, after, status, lo, hi, out,
          refreshed, pass, from, i, wpc, wblk, wreq, wtry, wres, chan, cancelled,
          gone, result>>
request == <<method, header>>
reply   == <<status, lo, hi>>
window  == <<pass, from, i, cancelled>>
workers == <<wpc, wblk, wreq, wtry, wres, chan>>
ref     == <<size, locator>>

-----------------------------------------------------------------------------
(* Range header *)

Least(a, b) == IF a <= b THEN a ELSE b

NotSatisfiable == [ok |-> FALSE, start |-> 0, end |-> 0]
Satisfied(a, b) == [ok |-> TRUE, start |-> a, end |-> b]

parseRange_EndUnclamped(h, n) ==
    IF n > 0 /\ h.unit = "bytes" /\ h.first \in 0..(n - 1) /\ h.last >= h.first
    THEN Satisfied(h.first, h.last)
    ELSE IF n > 0 /\ h.unit = "none" THEN Satisfied(0, n - 1) ELSE NotSatisfiable

parseRange(h, n) ==
    CASE n <= 0 -> NotSatisfiable
      [] n > 0 /\ h.unit = "none" -> Satisfied(0, n - 1)
      [] n > 0 /\ h.unit = "bytes" /\ h.first = Absent ->
            IF h.last <= 0 THEN NotSatisfiable
            ELSE Satisfied(n - Least(h.last, n), n - 1)
      [] n > 0 /\ h.unit = "bytes" /\ h.first \in 0..(n - 1) ->
            IF h.last = Bad \/ (h.last # Absent /\ h.last < h.first) THEN NotSatisfiable
            ELSE Satisfied(h.first, IF h.last = Absent THEN n - 1 ELSE Least(h.last, n - 1))
      [] OTHER -> NotSatisfiable

\* Reference: the bytes of an n byte file the header asks for.
Asked(h, n) ==
    {b \in 0..(n - 1) :
        \/ h.unit = "none"
        \/ /\ h.unit = "bytes" /\ h.first = Absent
           /\ h.last # Bad /\ b >= n - h.last
        \/ /\ h.unit = "bytes" /\ h.first >= 0 /\ b >= h.first
           /\ h.last = Absent \/ (h.last >= h.first /\ b <= h.last)}

-----------------------------------------------------------------------------
(* Blocks *)

Aligned(pos) == pos - (pos % ChunkSize)

\* What upload.getFile returns: up to ChunkSize bytes, fewer at the end of the file.
BlockLen_PastEnd(offset) == Least(ChunkSize, FileSize - offset)
BlockLen(offset) == IF offset >= FileSize THEN 0 ELSE Least(ChunkSize, FileSize - offset)

Offset(p, b) == Aligned(from[p]) + b * ChunkSize

\* No more workers than blocks.
PoolSize(a, b) == Least(ReadAhead, (Aligned(b) - Aligned(a)) \div ChunkSize + 1)
Pool(p) == PoolSize(from[p], hi)

NextBlock(w) == wblk[w] + Pool(w[1])

Data(n)  == [err |-> "none", len |-> n]
Error(e) == [err |-> e, len |-> 0]
Nothing  == Error("empty")

\* The part of a block the client is sent: the alignment skipped, the tail cut off.
Trimmed_NoSkip(offset, n, pos) == [k \in 1..Least(n, hi + 1 - pos) |-> offset + k - 1]
Trimmed(offset, n, pos) ==
    [k \in 1..Least(offset + n - pos, hi + 1 - pos) |-> pos + k - 1]

Cursor == lo + Len(out)

\* A block that is not full is the last.
Short_OffByOne(n) == n <= ChunkSize
Short(n) == n < ChunkSize

Goto(l) == main' = l

Cancelled_OnlyClient(p) == gone
Cancelled(p) == gone \/ p \in cancelled

Finish(r) ==
    /\ Goto("done") /\ result' = r
    /\ cancelled' = cancelled \cup {pass}

-----------------------------------------------------------------------------
(* serveFromTelegram *)

Lookup ==
    /\ main = "lookup"
    /\ \/ Goto(IF locator = 0 THEN "refresh" ELSE "headers") /\ UNCHANGED status
       \/ Goto("done") /\ status' = 503   \* no channel, or no client of its session
    /\ UNCHANGED <<request, ref, expired, after, lo, hi, out, refreshed, window, workers,
                   gone, result>>

\* A pass begins with every worker on its first block.
StartPass(p, a, b) ==
    /\ pass' = p /\ from' = [from EXCEPT ![p] = a] /\ i' = 0
    /\ wpc' = [w \in Workers |-> IF w[1] = p /\ w[2] < PoolSize(a, b)
                                 THEN "build" ELSE wpc[w]]
    /\ UNCHANGED <<wblk, wreq, wtry, wres, chan, cancelled>>

SendHeaders ==
    /\ main = "headers"
    /\ LET r == parseRange(header, size) IN
       \/ /\ size <= 0   \* unknown size: everything, from the start
          /\ status' = 200 /\ lo' = 0 /\ hi' = MaxStream
          /\ Goto(IF method = "HEAD" THEN "done" ELSE "sequential")
          /\ UNCHANGED <<window, workers>>
       \/ /\ size > 0 /\ ~r.ok
          /\ status' = 416 /\ Goto("done")
          /\ UNCHANGED <<lo, hi, window, workers>>
       \/ /\ size > 0 /\ r.ok
          /\ status' = IF header.unit = "none" THEN 200 ELSE 206
          /\ lo' = r.start /\ hi' = r.end
          /\ IF method = "HEAD"
             THEN Goto("done") /\ UNCHANGED <<window, workers>>
             ELSE Goto("stream") /\ StartPass(1, r.start, r.end)
    /\ UNCHANGED <<request, ref, expired, after, out, refreshed, gone, result>>

-----------------------------------------------------------------------------
(* The workers of streamWindowed, and fetchBlock *)

StepOf(w, l) == wpc' = [wpc EXCEPT ![w] = l]

\* The request is built from v, cancelled or not.
BuildRequest(w) ==
    /\ wpc[w] = "build" /\ StepOf(w, "call")
    /\ wreq' = [wreq EXCEPT ![w] = locator]
    /\ UNCHANGED <<request, ref, expired, main, after, reply, out, refreshed, window, wblk,
                   wtry, wres, chan, gone, result>>

\* fetchBlock returns.
HandOver(w, r) ==
    /\ StepOf(w, "send") /\ wres' = [wres EXCEPT ![w] = r]
    /\ wreq' = [wreq EXCEPT ![w] = 0] /\ wtry' = [wtry EXCEPT ![w] = 0]

FetchBlock(w) ==
    /\ wpc[w] = "call"
    /\ \/ wreq[w] > expired /\ HandOver(w, Data(BlockLen(Offset(w[1], wblk[w]))))
       \/ wreq[w] <= expired /\ HandOver(w, Error("expired"))
       \/ Cancelled(w[1]) /\ HandOver(w, Error("cancelled"))
       \/ wtry[w] + 1 = Attempts /\ HandOver(w, Error("failed"))
       \/ /\ wtry[w] + 1 < Attempts /\ wtry' = [wtry EXCEPT ![w] = @ + 1]
          /\ UNCHANGED <<wpc, wreq, wres>>
    /\ UNCHANGED <<request, ref, expired, main, after, reply, out, refreshed, window, wblk,
                   chan, gone, result>>

CanSend_Unbounded(w) == TRUE
CanSend(w) == chan[w] = Nothing

\* A worker ends after an error, which it hands over, and after its last block.
SendBlock(w) ==
    /\ wpc[w] = "send" /\ CanSend(w)
    /\ chan' = [chan EXCEPT ![w] = wres[w]]
    /\ wres' = [wres EXCEPT ![w] = Nothing]
    /\ IF wres[w].err = "none" /\ Offset(w[1], NextBlock(w)) <= hi
       THEN StepOf(w, "build") /\ wblk' = [wblk EXCEPT ![w] = NextBlock(w)]
       ELSE StepOf(w, "done") /\ UNCHANGED wblk
    /\ UNCHANGED <<request, ref, expired, main, after, reply, out, refreshed, window,
                   wreq, wtry, gone, result>>

SendCancelled(w) ==
    /\ wpc[w] = "send" /\ Cancelled(w[1])
    /\ StepOf(w, "done") /\ wres' = [wres EXCEPT ![w] = Nothing]
    /\ UNCHANGED <<request, ref, expired, main, after, reply, out, refreshed, window,
                   wblk, wreq, wtry, chan, gone, result>>

-----------------------------------------------------------------------------
(* The in-order writer of streamWindowed, and streamRange around it *)

Owner == <<pass, i % Pool(pass)>>   \* the worker whose channel holds block i

\* The next block is there: trim it, write it, go on, stop, or fail.
TakeBlock ==
    /\ main = "stream" /\ chan[Owner] # Nothing
    /\ LET r     == chan[Owner]
           piece == IF r.err = "none" THEN Trimmed(Offset(pass, i), r.len, Cursor) ELSE <<>>
       IN  /\ chan' = [chan EXCEPT ![Owner] = Nothing]
           /\ \/ /\ r.err = "none" /\ out' = out \o piece /\ i' = i + 1
                 /\ IF Cursor + Len(piece) > hi \/ Short(r.len)
                    THEN Finish("ok") ELSE UNCHANGED <<main, cancelled, result>>
                 /\ UNCHANGED <<refreshed, after>>
              \/ /\ r.err = "none" /\ piece # <<>>   \* dst.Write fails
                 /\ Finish("failed")
                 /\ UNCHANGED <<out, i, refreshed, after>>
              \/ /\ r.err = "expired" /\ ~refreshed
                 /\ refreshed' = TRUE /\ Goto("refresh") /\ after' = "stream"
                 /\ cancelled' = cancelled \cup {pass}
                 /\ UNCHANGED <<out, i, result>>
              \/ /\ r.err # "none" /\ ~(r.err = "expired" /\ ~refreshed)
                 /\ Finish("failed")
                 /\ UNCHANGED <<out, i, refreshed, after>>
    /\ UNCHANGED <<request, ref, expired, reply, pass, from, wpc, wblk, wreq, wtry, wres, gone>>

StopOnDisconnect ==
    /\ main = "stream" /\ gone /\ Finish("failed")
    /\ UNCHANGED <<request, ref, expired, after, reply, out, refreshed, pass, from, i,
                   workers, gone>>

-----------------------------------------------------------------------------
(* RefreshFileReference *)

\* getMessages answers with the message and its document, or does not.
AskTelegram ==
    /\ main = "refresh"
    /\ \/ Goto("assign") /\ UNCHANGED <<status, result>>
       \/ /\ Goto("done")
          /\ status' = IF status = 0 THEN 502 ELSE status
          /\ result' = IF status = 0 THEN result ELSE "failed"
    /\ UNCHANGED <<request, ref, expired, after, lo, hi, out, refreshed, window, workers, gone>>

\* The fields of v, which the workers read without a lock.
AssignLocator ==
    /\ main = "assign" /\ Goto("persist")
    /\ locator' = expired + 1
    /\ size' = IF size = 0 THEN FileSize ELSE size
    /\ UNCHANGED <<request, expired, after, reply, out, refreshed, window, workers, gone, result>>

\* UpdateVideoLocator
PersistLocator ==
    /\ main = "persist"
    /\ \/ /\ after # "stream" /\ Goto(after)
          /\ UNCHANGED <<status, result, window, workers>>
       \/ /\ after = "stream" /\ Goto("stream") /\ StartPass(2, Cursor, hi)
          /\ UNCHANGED <<status, result, lo, hi>>
       \/ /\ Goto("done")
          /\ status' = IF status = 0 THEN 502 ELSE status
          /\ result' = IF status = 0 THEN result ELSE "failed"
          /\ UNCHANGED <<window, workers>>
    /\ UNCHANGED <<request, ref, expired, after, lo, hi, out, refreshed, gone>>

-----------------------------------------------------------------------------
(* streamSequential *)

ReadNext ==
    /\ main = "sequential"
    /\ LET offset == Aligned(Cursor)
           n      == BlockLen(offset)
           piece  == Trimmed(offset, n, Cursor)
       IN  \/ /\ locator > expired /\ ~gone
              /\ out' = out \o piece
              /\ IF n = 0 \/ Short(n) THEN Goto("done") /\ result' = "ok"
                 ELSE UNCHANGED <<main, result>>
              /\ UNCHANGED <<refreshed, after>>
           \/ /\ locator <= expired /\ ~refreshed
              /\ refreshed' = TRUE /\ Goto("refresh") /\ after' = "sequential"
              /\ UNCHANGED <<out, result>>
           \/ /\ locator > expired \/ refreshed   \* no retries here; or Write fails
              /\ Goto("done") /\ result' = "failed"
              /\ UNCHANGED <<out, refreshed, after>>
    /\ UNCHANGED <<request, ref, expired, reply, window, workers, gone>>

-----------------------------------------------------------------------------
(* The client and Telegram *)

Disconnect ==
    /\ ~gone /\ main # "done" /\ gone' = TRUE
    /\ UNCHANGED <<request, ref, expired, main, after, reply, out, refreshed, window,
                   workers, result>>

Expire ==
    /\ locator > expired /\ locator <= MaxExpiries /\ expired' = locator
    /\ UNCHANGED <<request, ref, main, after, reply, out, refreshed, window, workers,
                   gone, result>>

-----------------------------------------------------------------------------
Init ==
    /\ method \in {"GET", "HEAD"} /\ header \in Headers
    /\ size \in Recorded /\ locator \in {0, 1} /\ expired = 0
    /\ main = "lookup" /\ after = "headers"
    /\ status = 0 /\ lo = 0 /\ hi = -1 /\ out = <<>> /\ refreshed = FALSE
    /\ pass = 1 /\ from = [p \in Passes |-> 0] /\ i = 0
    /\ wpc = [w \in Workers |-> "off"] /\ wblk = [w \in Workers |-> w[2]]
    /\ wreq = [w \in Workers |-> 0] /\ wtry = [w \in Workers |-> 0]
    /\ wres = [w \in Workers |-> Nothing] /\ chan = [w \in Workers |-> Nothing]
    /\ cancelled = {} /\ gone = FALSE /\ result = "none"

Handler ==
    \/ Lookup \/ SendHeaders \/ TakeBlock \/ StopOnDisconnect \/ ReadNext
    \/ AskTelegram \/ AssignLocator \/ PersistLocator

Worker(w) == BuildRequest(w) \/ FetchBlock(w) \/ SendBlock(w) \/ SendCancelled(w)

Next == Handler \/ Disconnect \/ Expire \/ \E w \in Workers : Worker(w)

Spec == Init /\ [][Next]_vars

\* The goroutines of the request run; every Telegram call ends (chunkTimeout).
FairSpec == Spec /\ WF_vars(Handler) /\ \A w \in Workers : WF_vars(Worker(w))

-----------------------------------------------------------------------------
(* Properties *)

Results == [err : {"none", "expired", "cancelled", "failed", "empty"}, len : 0..ChunkSize]

\* Every variable has its type; in particular no block is longer than asked for or
\* of negative length, and only bytes of the file are ever sent.
TypeOK ==
    /\ method \in {"GET", "HEAD"} /\ header \in Headers
    /\ size \in Recorded \cup {FileSize} /\ locator \in Nat /\ expired \in 0..locator
    /\ main \in {"lookup", "headers", "stream", "sequential", "refresh", "assign",
                 "persist", "done"}
    /\ after \in {"headers", "stream", "sequential"}
    /\ status \in {0, 200, 206, 416, 502, 503}
    /\ lo \in Nat /\ hi \in Nat \cup {-1} /\ out \in Seq(0..(FileSize - 1))
    /\ refreshed \in BOOLEAN /\ pass \in Passes /\ i \in Nat
    /\ from \in [Passes -> Nat]
    /\ wpc \in [Workers -> {"off", "build", "call", "send", "done"}]
    /\ wreq \in [Workers -> 0..locator] /\ wtry \in [Workers -> 0..(Attempts - 1)]
    /\ wres \in [Workers -> Results] /\ chan \in [Workers -> Results]
    /\ wblk \in [Workers -> Nat] /\ cancelled \subseteq Passes /\ gone \in BOOLEAN
    /\ result \in {"none", "ok", "failed"}

\* The body the headers have settled.
HasBody == status \in {200, 206} /\ method = "GET"
Want == IF HasBody THEN [k \in 1..(Least(hi, FileSize - 1) + 1 - lo) |-> lo + k - 1] ELSE <<>>

\* The handler and its pool, whatever the interleaving of the workers, the order
\* in which blocks arrive, a refresh in mid-stream or a disconnect, answer as a
\* byte stream: in order, nothing missing, nothing twice, and come to an end.
Stream == INSTANCE ByteStream WITH
    Bytes <- 0..(FileSize - 1),
    want  <- Want,
    sent  <- out,
    phase <- CASE main = "done" -> "closed"
               [] main # "done" /\ HasBody -> "open"
               [] OTHER -> "asked"
StreamsBytes == Stream!Spec

\* Headers tell the truth: the announced range is exactly what the client asked
\* for of the recorded size, and 416 means that there is no such byte.
HonestHeaders ==
    /\ status = 206 => lo..hi = Asked(header, size)
    /\ status = 200 /\ hi # MaxStream => lo..hi = 0..(size - 1)
    /\ status = 416 => Asked(header, size) = {}

\* A GET that ends without an error has sent all there is of the range.
CompleteOnSuccess == result = "ok" => out = Want

\* "bounding read-ahead to ~2 W blocks": no worker is further ahead of the writer
\* than one block in its channel and one in its hands.
ReadAheadBounded ==
    \A w \in Workers :
        w[1] = pass /\ wpc[w] \in {"build", "call", "send"} /\ main = "stream"
            => wblk[w] < i + 2 * Pool(pass)

\* However the request ends, no worker stays blocked on its channel for ever.
WorkersEnd == <>[](\A w \in Workers : wpc[w] \in {"off", "done"})

\* The comment of streamWindowed: "v's locator is only mutated by
\* RefreshFileReference between windowed passes (never during one), so concurrent
\* reads here are race-free."
LocatorRaceFree == ~(main = "assign" /\ \E w \in Workers : wpc[w] = "build")
=============================================================================
