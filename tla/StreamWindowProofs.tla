------------------------- MODULE StreamWindowProofs -------------------------
(* Theorems about StreamWindow, for any file, any recorded size, any Range   *)
(* header, any chunk size and any number of workers: the handler and its     *)
(* pool answer as ByteStream promises.                                       *)
EXTENDS StreamWindow, SequenceTheorems, TLAPS

-----------------------------------------------------------------------------
(* Division with remainder *)

LEMMA Division ==
    ASSUME NEW x \in Int, NEW c \in Nat \ {0}
    PROVE  x \div c \in Int /\ x % c \in 0..(c - 1) /\ x % c = x - c * (x \div c)
<1>1. x \div c \in Int /\ x % c \in 0..(c - 1)
  OBVIOUS
<1>2. x % c = x - c * (x \div c)
  BY SMTT(30)
<1>3. QED
  BY <1>1, <1>2

LEMMA Remainder ==
    ASSUME NEW x \in Int, NEW c \in Nat \ {0}, NEW q \in Int, NEW r \in 0..(c - 1), x = c * q + r
    PROVE  x % c = r
BY SMTT(30)

\* Blocks of one worker are a pool apart.
LEMMA RemainderRepeats ==
    ASSUME NEW a \in Nat, NEW c \in Nat \ {0}
    PROVE  (a + c) % c = a % c
<1> DEFINE q == a \div c
           r == a % c
           x == a + c
           t == q + 1
<1>1. q \in Int /\ r \in 0..(c - 1) /\ r = a - c * q
  BY Division
<1> HIDE DEF q, r
<1>2. x \in Int /\ t \in Int /\ x = c * t + r
  BY <1>1
<1> HIDE DEF x, t
<1>3. x % c = r
  BY <1>1, <1>2, Remainder
<1>4. QED
  BY <1>3 DEF r, x

\* Among as many consecutive blocks as there are workers, each worker has one.
LEMMA RemainderUnique ==
    ASSUME NEW a \in Nat, NEW b \in Nat, NEW c \in Nat \ {0},
           a <= b, b < a + c, a % c = b % c
    PROVE  a = b
<1> DEFINE q == a \div c
           p == b \div c
           r == a % c
<1>1. q \in Int /\ p \in Int /\ r \in Int /\ r = a - c * q /\ r = b - c * p
  BY Division
<1> HIDE DEF q, p, r
<1>2. b - a = c * (p - q)
  BY <1>1
<1>3. p - q <= 0
  <2> DEFINE d == p - q
  <2>1. d \in Int /\ c * d < c
    BY <1>1, <1>2
  <2> HIDE DEF d
  <2>2. d <= 0
    BY <2>1
  <2>3. QED
    BY <2>2 DEF d
<1>4. p = q \/ p - q < 0
  BY <1>1, <1>3
<1>5. p - q < 0 => c * (p - q) < 0
  BY <1>1
<1>6. QED
  BY <1>1, <1>2, <1>4, <1>5

LEMMA AlignedPosition ==
    ASSUME NEW a \in Nat
    PROVE  Aligned(a) \in Nat /\ Aligned(a) <= a /\ a < Aligned(a) + ChunkSize
<1>1. a % ChunkSize \in 0..(ChunkSize - 1) /\ a % ChunkSize <= a
  BY StreamAssumption
<1>2. QED
  BY <1>1, StreamAssumption DEF Aligned

LEMMA AlignedMonotone ==
    ASSUME NEW a \in Nat, NEW b \in Nat, a <= b
    PROVE  Aligned(a) <= Aligned(b)
BY StreamAssumption DEF Aligned

\* A range that is not empty has a worker, and never more than there are.
LEMMA PoolOfRange ==
    ASSUME NEW a \in Nat, NEW b \in Int
    PROVE  /\ PoolSize(a, b) \in Int /\ PoolSize(a, b) <= ReadAhead
           /\ a <= b => PoolSize(a, b) \in 1..ReadAhead
<1> DEFINE d == Aligned(b) - Aligned(a)
           n == d \div ChunkSize
<1>1. ChunkSize \in Nat \ {0} /\ ReadAhead \in Nat \ {0}
  BY StreamAssumption
<1>2. b % ChunkSize \in Int /\ a % ChunkSize \in Int
  BY <1>1
<1>3. d \in Int
  BY <1>2 DEF Aligned
<1>4. n \in Int
  BY <1>1, <1>3
<1>5. ASSUME a <= b PROVE n >= 0
  <2>1. d >= 0
    BY <1>5, AlignedMonotone, AlignedPosition
  <2> HIDE DEF d
  <2>2. QED
    BY <1>1, <1>3, <2>1
<1>6. PoolSize(a, b) = Least(ReadAhead, n + 1)
  BY DEF PoolSize
<1> HIDE DEF n
<1>7. QED
  BY <1>1, <1>4, <1>5, <1>6 DEF Least

LEMMA BlockFits ==
    ASSUME NEW n \in Nat
    PROVE  /\ BlockLen(n) \in 0..ChunkSize
           /\ BlockLen(n) > 0 => n + BlockLen(n) <= FileSize
           /\ BlockLen(n) < ChunkSize => n + BlockLen(n) >= FileSize
BY StreamAssumption DEF BlockLen, Least

-----------------------------------------------------------------------------
(* The Range header *)

\* What parseRange accepts is a range of the file, exactly the one asked for, and
\* it refuses only what asks for no byte.
LEMMA RangeHonest ==
    ASSUME NEW h \in Headers, NEW n \in Nat \ {0}
    PROVE  LET r == parseRange(h, n)
           IN  IF r.ok THEN /\ r.start \in Nat /\ r.end \in Nat
                            /\ r.start <= r.end /\ r.end < n
                            /\ r.start..r.end = Asked(h, n)
                            /\ h.unit = "none" => r.start = 0 /\ r.end = n - 1
               ELSE Asked(h, n) = {}
<1>1. h \in [unit : {"none", "bytes", "other"}, first : Int, last : Int]
  BY StreamAssumption
<1>2. h.unit \in {"none", "bytes", "other"} /\ h.first \in Int /\ h.last \in Int
  BY <1>1
<1> USE DEF Asked, Satisfied, NotSatisfiable, Least, Absent, Bad
<1>3. CASE h.unit = "none"
  BY <1>2, <1>3 DEF parseRange
<1>4. CASE h.unit = "other"
  BY <1>2, <1>4 DEF parseRange
<1>5. CASE h.unit = "bytes" /\ h.first = Absent
  BY <1>2, <1>5 DEF parseRange
<1>6. CASE h.unit = "bytes" /\ h.first \in 0..(n - 1)
  BY <1>2, <1>6 DEF parseRange
<1>7. CASE h.unit = "bytes" /\ h.first # Absent /\ h.first \notin 0..(n - 1)
  BY <1>2, <1>7 DEF parseRange
<1>8. QED
  BY <1>2, <1>3, <1>4, <1>5, <1>6, <1>7

-----------------------------------------------------------------------------
(* Runs of consecutive bytes *)

Run(a, n) == [k \in 1..n |-> a + k - 1]

LEMMA RunLength ==
    ASSUME NEW a \in Nat, NEW n \in Nat
    PROVE  Run(a, n) \in Seq(Nat) /\ Len(Run(a, n)) = n /\ (n = 0 => Run(a, n) = <<>>)
<1>1. Run(a, n) \in [1..n -> Nat]
  BY DEF Run
<1>2. Run(a, n) \in Seq(Nat)
  BY <1>1
<1>3. Len(Run(a, n)) = n
  BY <1>1, <1>2 DEF Run
<1>4. QED
  BY <1>2, <1>3

\* What a piece of length n, or none, adds to a run.
LEMMA RunExtends ==
    ASSUME NEW a \in Nat, NEW m \in Nat, NEW n \in Int
    PROVE  Run(a, m) \o Run(a + m, n) = Run(a, m + IF n > 0 THEN n ELSE 0)
<1>1. CASE n > 0
  <2> DEFINE s == Run(a, m)
             t == Run(a + m, n)
  <2>1. n \in Nat /\ a + m \in Nat /\ m + n \in Nat
    BY <1>1
  <2>2. s \in Seq(Nat) /\ Len(s) = m /\ t \in Seq(Nat) /\ Len(t) = n
    BY <2>1, RunLength
  <2>3. Run(a, m + n) \in Seq(Nat) /\ Len(Run(a, m + n)) = m + n
    BY <2>1, RunLength
  <2>4. /\ s \o t \in Seq(Nat) /\ Len(s \o t) = m + n
        /\ \A k \in 1..(m + n) : (s \o t)[k] = IF k <= m THEN s[k] ELSE t[k - m]
    <3> HIDE DEF s, t
    <3>1. QED
      BY <2>2, ConcatProperties
  <2>5. \A k \in 1..(m + n) : (s \o t)[k] = Run(a, m + n)[k]
    <3>1. ASSUME NEW k \in 1..(m + n)
          PROVE  (IF k <= m THEN s[k] ELSE t[k - m]) = Run(a, m + n)[k]
      BY <2>1 DEF Run
    <3>2. QED
      BY <3>1, <2>4
  <2>6. s \o t = Run(a, m + n)
    <3> HIDE DEF s, t
    <3>1. QED
      BY <2>3, <2>4, <2>5, SeqEqual
  <2>7. QED
    BY <1>1, <2>6 DEF s, t
<1>2. CASE n <= 0
  <2>1. Run(a + m, n) = <<>>
    BY <1>2 DEF Run
  <2>2. QED
    BY <1>2, <2>1, RunLength
<1>3. QED
  BY <1>1, <1>2

LEMMA RunPrefix ==
    ASSUME NEW a \in Nat, NEW m \in Nat, NEW n \in 0..m
    PROVE  SubSeq(Run(a, m), 1, n) = Run(a, n)
<1>1. Run(a, m) \in Seq(Nat) /\ Len(Run(a, m)) = m
  BY RunLength
<1>2. Run(a, n) \in Seq(Nat) /\ Len(Run(a, n)) = n
  BY RunLength
<1>3. /\ SubSeq(Run(a, m), 1, n) \in Seq(Nat) /\ Len(SubSeq(Run(a, m), 1, n)) = n
      /\ \A k \in 1..n : SubSeq(Run(a, m), 1, n)[k] = Run(a, m)[k]
  <2>1. \A k \in 1..n : Run(a, m)[k] \in Nat
    BY DEF Run
  <2>2. QED
    BY <2>1, SubSeqProperties
<1>4. \A k \in 1..n : Run(a, m)[k] = Run(a, n)[k]
  BY DEF Run
<1>5. QED
  BY <1>2, <1>3, <1>4, SeqEqual

LEMMA RunOfBytes ==
    ASSUME NEW a \in Nat, NEW n \in Nat, n > 0 => a + n - 1 < FileSize
    PROVE  Run(a, n) \in Seq(0..(FileSize - 1))
<1>1. Run(a, n) \in [1..n -> 0..(FileSize - 1)]
  BY StreamAssumption DEF Run
<1>2. QED
  BY <1>1, SeqDef

-----------------------------------------------------------------------------
(* The handler's stages *)

Refreshing == main \in {"refresh", "assign", "persist"}
In(stage)  == main = stage \/ (Refreshing /\ after = stage)

\* TypeOK but for the body, which is a run of the file's bytes from the range on;
\* the locator is never ahead of the version Telegram would give next.
Typed ==
    /\ method \in {"GET", "HEAD"} /\ header \in Headers
    /\ size \in Recorded \cup {FileSize} /\ locator \in Nat /\ expired \in 0..locator
    /\ locator <= expired + 1
    /\ main \in {"lookup", "headers", "stream", "sequential", "refresh", "assign",
                 "persist", "done"}
    /\ after \in {"headers", "stream", "sequential"}
    /\ status \in {0, 200, 206, 416, 502, 503}
    /\ lo \in Nat /\ hi \in Nat \cup {-1}
    /\ refreshed \in BOOLEAN /\ pass \in Passes /\ i \in Nat
    /\ from \in [Passes -> Nat]
    /\ wpc \in [Workers -> {"off", "build", "call", "send", "done"}]
    /\ wreq \in [Workers -> 0..locator] /\ wtry \in [Workers -> 0..(Attempts - 1)]
    /\ wres \in [Workers -> Results] /\ chan \in [Workers -> Results]
    /\ wblk \in [Workers -> Nat] /\ cancelled \subseteq Passes /\ gone \in BOOLEAN
    /\ result \in {"none", "ok", "failed"}

\* What has been written of the range [lo, hi] of the file.
Wrote(n) ==
    /\ out = Run(lo, n)
    /\ n > 0 => lo + n - 1 <= hi /\ lo + n - 1 < FileSize

\* Status and range are settled together, before any reader starts.
Staged ==
    /\ main \in {"lookup", "headers"} => status = 0 /\ after = "headers"
    /\ Refreshing /\ after = "headers" => status = 0
    /\ after = "headers" <=> ~refreshed
    /\ In("stream") \/ In("sequential") => HasBody
    /\ In("sequential") => lo = 0 /\ hi = MaxStream
    /\ In("stream") => lo <= Cursor /\ Cursor <= hi
    /\ ~HasBody => out = <<>>
    /\ \E n \in Nat : Wrote(n)

\* A worker that the handler has not started.
Untouched(w) == wpc[w] = "off" /\ wblk[w] = w[2] /\ chan[w] = Nothing

\* Every pass starts with fresh workers, and a worker that was started is one of
\* the pool and carries the block it says.
Pooled ==
    /\ status = 0 => \A w \in Workers : Untouched(w)
    /\ pass = 1 => \A w \in Workers : w[1] = 2 => Untouched(w)
    /\ Refreshing \/ ~refreshed => pass = 1
    /\ \A w \in Workers : wpc[w] # "off" => w[2] < Pool(w[1])
    /\ \A w \in Workers : wpc[w] = "send" /\ wres[w].err = "none"
                             => wres[w].len = BlockLen(Offset(w[1], wblk[w]))

LEMMA WorkersAre ==
    ASSUME NEW w \in Workers
    PROVE  w[1] \in Passes /\ w[2] \in 0..(ReadAhead - 1) /\ w[2] \in Nat /\ w = <<w[1], w[2]>>
BY StreamAssumption DEF Workers

\* A started worker's next block is a block.
LEMMA NextBlockTyped ==
    ASSUME Typed, Pooled, NEW w \in Workers, wpc[w] # "off"
    PROVE  Pool(w[1]) \in 1..ReadAhead /\ NextBlock(w) \in Nat
<1>1. w[1] \in Passes /\ w[2] \in Nat /\ w[2] < Pool(w[1]) /\ wblk[w] \in Nat
  BY WorkersAre DEF Pooled, Typed
<1>2. Pool(w[1]) \in Int /\ Pool(w[1]) <= ReadAhead
  <2>1. from[w[1]] \in Nat /\ hi \in Int
    BY <1>1 DEF Typed
  <2>2. QED
    BY <2>1, PoolOfRange DEF Pool
<1>3. Pool(w[1]) \in 1..ReadAhead
  BY <1>1, <1>2, StreamAssumption
<1>4. QED
  BY <1>1, <1>3 DEF NextBlock

\* A block's offset and length.
LEMMA OffsetTyped ==
    ASSUME Typed, NEW p \in Passes, NEW b \in Nat
    PROVE  Offset(p, b) \in Nat
<1>1. Aligned(from[p]) \in Nat /\ ChunkSize \in Nat
  BY AlignedPosition, StreamAssumption DEF Typed
<1>2. QED
  BY <1>1 DEF Offset

-----------------------------------------------------------------------------
(* Steps of the workers *)

LEMMA WorkerTyped ==
    ASSUME Typed, Staged, Pooled, NEW w \in Workers, Worker(w)
    PROVE  Typed' /\ Pooled'
<1> USE StreamAssumption
<1>w. w[1] \in Passes /\ w[2] \in Nat
  BY WorkersAre
<1>t. /\ wpc \in [Workers -> {"off", "build", "call", "send", "done"}]
      /\ wreq \in [Workers -> 0..locator] /\ wtry \in [Workers -> 0..(Attempts - 1)]
      /\ wres \in [Workers -> Results] /\ chan \in [Workers -> Results]
      /\ wblk \in [Workers -> Nat] /\ locator \in Nat
      /\ wres[w] \in Results /\ chan[w] \in Results /\ wblk[w] \in Nat /\ wtry[w] \in Nat
  BY DEF Typed
<1>o. wpc[w] # "off" /\ status # 0 /\ (pass = 1 => w[1] # 2)
  <2>1. wpc[w] # "off"
    BY DEF Worker, BuildRequest, FetchBlock, SendBlock, SendCancelled
  <2>2. QED
    BY <2>1 DEF Pooled, Untouched
<1>r. Nothing \in Results /\ \A n \in 0..ChunkSize : Data(n) \in Results
  BY DEF Nothing, Error, Data, Results
<1>1. CASE BuildRequest(w)
  <2>1. Typed'
    BY <1>1, <1>t DEF BuildRequest, StepOf, request, ref, reply, window, Typed
  <2>2. \A v \in Workers : v # w => wpc'[v] = wpc[v]
    BY <1>1, <1>t DEF BuildRequest, StepOf
  <2>3. UNCHANGED <<status, pass, from, hi, refreshed, main, wblk, chan, wres>> /\ wpc'[w] = "call"
    BY <1>1, <1>t DEF BuildRequest, StepOf, reply, window
  <2>4. Pooled'
    BY <2>2, <2>3, <1>o DEF Pooled, Untouched, Refreshing, Pool, Offset
  <2>5. QED
    BY <2>1, <2>4
<1>2. CASE FetchBlock(w)
  <2>1. Offset(w[1], wblk[w]) \in Nat /\ BlockLen(Offset(w[1], wblk[w])) \in 0..ChunkSize
    BY <1>w, <1>t, OffsetTyped, BlockFits
  <2> DEFINE Returns == \E r \in Results :
                          /\ HandOver(w, r)
                          /\ r.err = "none" => r.len = BlockLen(Offset(w[1], wblk[w]))
             Retries == /\ wtry[w] + 1 < Attempts /\ wtry' = [wtry EXCEPT ![w] = @ + 1]
                        /\ UNCHANGED <<wpc, wreq, wres>>
  <2>2. /\ UNCHANGED <<request, ref, expired, main, after, reply, out, refreshed, window, wblk,
                       chan, gone, result>>
        /\ Returns \/ Retries
    <3>1. Data(BlockLen(Offset(w[1], wblk[w]))) \in Results
      BY <2>1, <1>r
    <3>2. /\ Data(BlockLen(Offset(w[1], wblk[w]))).len = BlockLen(Offset(w[1], wblk[w]))
          /\ \A e \in {"expired", "cancelled", "failed"} : Error(e) \in Results /\ Error(e).err # "none"
      BY DEF Data, Error, Results
    <3>3. QED
      BY <1>2, <3>1, <3>2 DEF FetchBlock
  <2>3. CASE Retries
    <3>1. wtry' \in [Workers -> 0..(Attempts - 1)]
      BY <2>3, <1>t
    <3>2. UNCHANGED <<status, pass, from, hi, refreshed, main, wblk, chan, wres, wpc>>
      BY <2>2, <2>3 DEF reply, window
    <3>3. Typed'
      BY <2>2, <2>3, <3>1 DEF request, ref, reply, window, Typed
    <3>4. Pooled'
      BY <3>2 DEF Pooled, Untouched, Refreshing, Pool, Offset
    <3>5. QED
      BY <3>3, <3>4
  <2>4. ASSUME NEW r \in Results, HandOver(w, r),
               r.err = "none" => r.len = BlockLen(Offset(w[1], wblk[w]))
        PROVE  Typed' /\ Pooled'
    <3>1. /\ wtry' \in [Workers -> 0..(Attempts - 1)] /\ wres' \in [Workers -> Results]
          /\ wreq' \in [Workers -> 0..locator]
          /\ wpc' \in [Workers -> {"off", "build", "call", "send", "done"}]
          /\ wpc'[w] = "send" /\ wres'[w] = r
          /\ \A v \in Workers : v # w => wpc'[v] = wpc[v] /\ wres'[v] = wres[v]
      BY <2>4, <1>t DEF HandOver, StepOf
    <3>2. Typed'
      BY <2>2, <3>1 DEF request, ref, reply, window, Typed
    <3>3. UNCHANGED <<status, pass, from, hi, refreshed, main, wblk, chan>>
      BY <2>2 DEF reply, window
    <3>4. Pooled'
      BY <3>1, <3>3, <2>4, <1>o DEF Pooled, Untouched, Refreshing, Pool, Offset
    <3>5. QED
      BY <3>2, <3>4
  <2>5. CASE Returns
    BY <2>4, <2>5
  <2> HIDE DEF Returns, Retries
  <2>6. QED
    BY <2>2, <2>3, <2>5
<1>3. CASE SendBlock(w)
  <2>1. NextBlock(w) \in Nat
    BY <1>o, NextBlockTyped
  <2>2. /\ wres' \in [Workers -> Results] /\ chan' \in [Workers -> Results]
        /\ wblk' \in [Workers -> Nat]
        /\ wpc' \in [Workers -> {"off", "build", "call", "send", "done"}]
        /\ wpc'[w] \in {"build", "done"}
        /\ \A v \in Workers : v # w => /\ wpc'[v] = wpc[v] /\ wres'[v] = wres[v]
                                       /\ chan'[v] = chan[v] /\ wblk'[v] = wblk[v]
    BY <1>3, <2>1, <1>t, <1>r DEF SendBlock, StepOf
  <2>3. UNCHANGED <<request, ref, expired, main, after, reply, out, refreshed, window,
                    wreq, wtry, gone, result>>
    BY <1>3 DEF SendBlock
  <2>4. Typed'
    BY <2>2, <2>3 DEF request, ref, reply, window, Typed
  <2>5. UNCHANGED <<status, pass, from, hi, refreshed, main>>
    BY <2>3 DEF reply, window
  <2>6. Pooled'
    BY <2>2, <2>5, <1>o DEF Pooled, Untouched, Refreshing, Pool, Offset
  <2>7. QED
    BY <2>4, <2>6
<1>4. CASE SendCancelled(w)
  <2>1. /\ wres' \in [Workers -> Results]
        /\ wpc' \in [Workers -> {"off", "build", "call", "send", "done"}]
        /\ wpc'[w] = "done"
        /\ \A v \in Workers : v # w => wpc'[v] = wpc[v] /\ wres'[v] = wres[v]
    BY <1>4, <1>t, <1>r DEF SendCancelled, StepOf
  <2>2. Typed'
    BY <1>4, <2>1 DEF SendCancelled, request, ref, reply, window, Typed
  <2>3. UNCHANGED <<status, pass, from, hi, refreshed, main, wblk, chan>>
    BY <1>4 DEF SendCancelled, reply, window
  <2>4. Pooled'
    BY <2>1, <2>3, <1>o DEF Pooled, Untouched, Refreshing, Pool, Offset
  <2>5. QED
    BY <2>2, <2>4
<1>5. QED
  BY <1>1, <1>2, <1>3, <1>4 DEF Worker

\* Nor do workers, the client or Telegram change what is settled or written.
LEMMA OthersStaged ==
    ASSUME Typed, Staged, Pooled, Disconnect \/ Expire \/ \E w \in Workers : Worker(w)
    PROVE  Staged' /\ Typed' /\ Pooled'
<1>1. UNCHANGED <<main, after, method, status, refreshed, lo, hi, out>>
  BY DEF Disconnect, Expire, Worker, BuildRequest, FetchBlock, SendBlock, SendCancelled,
     reply, request
<1>2. Staged'
  BY <1>1 DEF Staged, Refreshing, In, HasBody, Cursor, Wrote
<1>3. ASSUME NEW w \in Workers, Worker(w) PROVE Typed' /\ Pooled'
  BY <1>3, WorkerTyped
<1>4. CASE Disconnect \/ Expire
  <2>1. UNCHANGED <<status, pass, from, hi, refreshed, main, wblk, chan, wres, wpc>>
    BY <1>4 DEF Disconnect, Expire, reply, window, workers
  <2>2. Pooled'
    BY <2>1 DEF Pooled, Untouched, Refreshing, Pool, Offset
  <2>3. UNCHANGED <<method, header, size, locator, main, after, status, lo, hi, refreshed, pass, i,
                    from, wpc, wreq, wtry, wres, chan, wblk, cancelled, result>>
    BY <1>4 DEF Disconnect, Expire, request, ref, reply, window, workers
  <2>4. gone' \in BOOLEAN /\ expired' \in 0..locator /\ locator <= expired' + 1
    <3>1. gone \in BOOLEAN /\ expired \in 0..locator /\ locator <= expired + 1 /\ locator \in Nat
      BY DEF Typed
    <3>2. CASE Disconnect
      BY <3>1, <3>2 DEF Disconnect
    <3>3. CASE Expire
      BY <3>1, <3>3 DEF Expire
    <3>4. QED
      BY <1>4, <3>2, <3>3
  <2>5. locator' = locator /\ wreq' = wreq
    BY <2>3
  <2>6. Typed'
    <3>1. /\ wpc' \in [Workers -> {"off", "build", "call", "send", "done"}]
          /\ wreq' \in [Workers -> 0..locator'] /\ wtry' \in [Workers -> 0..(Attempts - 1)]
          /\ wres' \in [Workers -> Results] /\ chan' \in [Workers -> Results]
          /\ wblk' \in [Workers -> Nat] /\ cancelled' \subseteq Passes
          /\ result' \in {"none", "ok", "failed"}
      BY <2>3, <2>5 DEF Typed
    <3>2. /\ method' \in {"GET", "HEAD"} /\ header' \in Headers
          /\ size' \in Recorded \cup {FileSize} /\ locator' \in Nat
          /\ main' \in {"lookup", "headers", "stream", "sequential", "refresh", "assign",
                       "persist", "done"}
          /\ after' \in {"headers", "stream", "sequential"}
          /\ status' \in {0, 200, 206, 416, 502, 503}
          /\ lo' \in Nat /\ hi' \in Nat \cup {-1}
          /\ refreshed' \in BOOLEAN /\ pass' \in Passes /\ i' \in Nat
          /\ from' \in [Passes -> Nat]
      BY <2>3 DEF Typed
    <3>3. QED
      BY <2>4, <2>5, <3>1, <3>2 DEF Typed
  <2>7. QED
    BY <1>2, <2>2, <2>6
<1>5. QED
  BY <1>2, <1>3, <1>4

-----------------------------------------------------------------------------
(* The window *)

Active(w) == wpc[w] \in {"build", "call", "send"}

\* Block n is the next one the writer takes from worker w: its channel holds that
\* block or nothing, and it works on that block or on its next.
Awaits(w, n) ==
    /\ i <= n /\ n < i + Pool(pass) /\ n % Pool(pass) = w[2]
    /\ chan[w].err = "none" => chan[w].len = BlockLen(Offset(pass, n))
    /\ Active(w) => wblk[w] = IF chan[w] = Nothing THEN n ELSE n + Pool(pass)

\* The writer has written up to the block it waits for, and every worker of the
\* pool is within one pool of it.
Windowed ==
    main = "stream" =>
        /\ from[pass] <= hi
        /\ Cursor = IF i = 0 THEN from[pass] ELSE Offset(pass, i)
        /\ \A w \in Workers : w[1] = pass /\ w[2] < Pool(pass) => \E n \in Nat : Awaits(w, n)

LEMMA PoolOfPass ==
    ASSUME Typed, from[pass] <= hi
    PROVE  Pool(pass) \in 1..ReadAhead
<1>1. from[pass] \in Nat /\ hi \in Int
  BY DEF Typed
<1>2. QED
  BY <1>1, PoolOfRange DEF Pool

LEMMA ResultsDiffer ==
    /\ \A n : Data(n) # Nothing
    /\ Nothing.err # "none"
    /\ \A r \in Results : r.err = "none" => r # Nothing
BY DEF Data, Nothing, Error, Results

\* A worker's step keeps its place in the window, the others' steps too.
LEMMA WorkerWindowed ==
    ASSUME Typed, Staged, Pooled, Windowed, NEW w \in Workers, Worker(w)
    PROVE  Windowed'
<1> SUFFICES ASSUME main' = "stream" PROVE Windowed'
  BY DEF Windowed
<1>1. UNCHANGED <<main, lo, hi, out, pass, from, i, cancelled>>
  BY DEF Worker, BuildRequest, FetchBlock, SendBlock, SendCancelled, reply, window
<1>2. /\ from[pass] <= hi
      /\ Cursor = IF i = 0 THEN from[pass] ELSE Offset(pass, i)
      /\ \A v \in Workers : v[1] = pass /\ v[2] < Pool(pass) => \E n \in Nat : Awaits(v, n)
  BY <1>1 DEF Windowed
<1>p. Pool(pass)' = Pool(pass) /\ pass' = pass /\ Pool(pass) \in 1..ReadAhead
      /\ \A n : Offset(pass, n)' = Offset(pass, n)
  BY <1>1, <1>2, PoolOfPass DEF Pool, Offset
<1>t. /\ wpc \in [Workers -> {"off", "build", "call", "send", "done"}]
      /\ wres \in [Workers -> Results] /\ chan \in [Workers -> Results]
      /\ wblk \in [Workers -> Nat]
  BY DEF Typed
<1>o. wpc[w] \in {"build", "call", "send"}
  BY DEF Worker, BuildRequest, FetchBlock, SendBlock, SendCancelled
<1>3. ASSUME NEW v \in Workers, v[1] = pass, v[2] < Pool(pass)
      PROVE  \E n \in Nat : Awaits(v, n)'
  <2>1. PICK n \in Nat : Awaits(v, n)
    BY <1>2, <1>3
  <2>2. CASE v # w
    <3>1. wpc'[v] = wpc[v] /\ chan'[v] = chan[v] /\ wblk'[v] = wblk[v]
      BY <2>2, <1>t DEF Worker, BuildRequest, FetchBlock, SendBlock, SendCancelled, StepOf,
         HandOver
    <3>2. Awaits(v, n)'
      BY <2>1, <3>1, <1>1, <1>p DEF Awaits, Active
    <3>3. QED
      BY <3>2
  <2>3. CASE v = w /\ ~SendBlock(w)
    <3>1. chan' = chan /\ wblk' = wblk
      BY <2>3 DEF Worker, BuildRequest, FetchBlock, SendCancelled
    <3>2. Awaits(v, n)'
      BY <2>1, <2>3, <3>1, <1>1, <1>p, <1>o DEF Awaits, Active
    <3>3. QED
      BY <3>2
  <2>4. CASE v = w /\ SendBlock(w)
    <3>1. /\ chan[w] = Nothing /\ wblk[w] = n /\ wpc[w] = "send"
          /\ wres[w].err = "none" => wres[w].len = BlockLen(Offset(pass, n))
      BY <2>1, <2>4, <1>3 DEF SendBlock, CanSend, Awaits, Active, Pooled
    <3>2. chan'[w] = wres[w] /\ wres[w] \in Results
      BY <2>4, <1>t DEF SendBlock
    <3>3. CASE wpc'[w] = "build"
      <4>1. wres[w].err = "none" /\ wblk'[w] = n + Pool(pass)
        BY <2>4, <3>1, <3>3, <1>3, <1>t DEF SendBlock, StepOf, NextBlock
      <4>2. Awaits(v, n)'
        BY <2>1, <2>4, <3>1, <3>2, <4>1, <1>1, <1>p, ResultsDiffer DEF Awaits, Active
      <4>3. QED
        BY <4>2
    <3>4. CASE wpc'[w] = "done"
      <4>1. Awaits(v, n)'
        BY <2>1, <2>4, <3>1, <3>2, <3>4, <1>1, <1>p DEF Awaits, Active
      <4>2. QED
        BY <4>1
    <3>5. QED
      BY <2>4, <3>3, <3>4, <1>t DEF SendBlock, StepOf
  <2>5. QED
    BY <2>2, <2>3, <2>4
<1>4. QED
  <2>1. (from[pass] <= hi)' /\ (Cursor = IF i = 0 THEN from[pass] ELSE Offset(pass, i))'
    BY <1>1, <1>2 DEF Cursor, Offset
  <2>2. (\A v \in Workers : v[1] = pass /\ v[2] < Pool(pass) => \E n \in Nat : Awaits(v, n))'
    BY <1>1, <1>3, <1>p
  <2>3. QED
    BY <2>1, <2>2 DEF Windowed

-----------------------------------------------------------------------------
(* The writer *)

Want0 == Least(hi, FileSize - 1) + 1 - lo

\* Once the cursor is past the range or past the file, the body is complete.
LEMMA WrittenAll ==
    ASSUME Typed, HasBody, NEW n \in Nat,
           n > 0 => lo + n - 1 <= hi /\ lo + n - 1 < FileSize,
           lo + n > hi \/ lo + n >= FileSize
    PROVE  Run(lo, n) = Want
<1>1. lo \in Nat /\ hi \in Int /\ FileSize \in Nat
  BY StreamAssumption DEF Typed
<1>2. Want = Run(lo, Want0) /\ Want0 \in Int
  <2>1. Want = Run(lo, Want0)
    BY DEF Want, Want0, Run
  <2>2. Want0 \in Int
    BY <1>1 DEF Want0, Least
  <2>3. QED
    BY <2>1, <2>2
<1>3. CASE n > 0
  <2>1. Want0 = n
    BY <1>1, <1>3 DEF Want0, Least
  <2>2. QED
    BY <1>2, <2>1
<1>4. CASE n = 0
  <2>1. Want0 <= 0
    BY <1>1, <1>4 DEF Want0, Least
  <2>2. Run(lo, Want0) = <<>>
    BY <1>2, <2>1 DEF Run
  <2>3. QED
    BY <1>1, <1>2, <1>4, <2>2, RunLength
<1>5. QED
  BY <1>3, <1>4

\* How far the writer is.
LEMMA CursorIs ==
    ASSUME Typed, NEW n \in Nat, Wrote(n)
    PROVE  Len(out) = n /\ Cursor = lo + n /\ Cursor \in Nat
<1>1. lo \in Nat
  BY DEF Typed
<1>2. out = Run(lo, n)
  BY DEF Wrote
<1>3. Len(out) = n
  BY <1>1, <1>2, RunLength
<1>4. QED
  BY <1>1, <1>3 DEF Cursor

\* The piece of a block at an offset that is not past the cursor continues the
\* body; after a short block there is nothing left of the range.
LEMMA PieceFits ==
    ASSUME Typed, NEW n \in Nat, Wrote(n), NEW offset \in Nat, offset <= Cursor,
           n > 0 => Cursor <= hi + 1
    PROVE  LET len   == BlockLen(offset)
               piece == Trimmed(offset, len, Cursor)
           IN  \E k \in Nat :
                  /\ out \o piece = Run(lo, k) /\ Cursor + Len(piece) = lo + k
                  /\ n <= k /\ (k = n <=> piece = <<>>)
                  /\ k > 0 => lo + k - 1 <= hi /\ lo + k - 1 < FileSize
                  /\ Short(len) => lo + k > hi \/ lo + k >= FileSize
                  /\ ~Short(len) /\ Cursor < offset + ChunkSize
                        => lo + k > hi \/ lo + k = offset + ChunkSize
<1> DEFINE len   == BlockLen(offset)
           piece == Trimmed(offset, len, Cursor)
           l     == Least(offset + len - Cursor, hi + 1 - Cursor)
           m     == IF l > 0 THEN l ELSE 0
<1>1. /\ lo \in Nat /\ hi \in Int /\ FileSize \in Nat /\ ChunkSize \in Nat
      /\ Cursor = lo + n /\ Cursor \in Nat
  BY StreamAssumption, CursorIs DEF Typed
<1>2. /\ len \in 0..ChunkSize
      /\ len > 0 => offset + len <= FileSize
      /\ len < ChunkSize => offset + len >= FileSize
  BY BlockFits
<1>3. piece = Run(Cursor, l)
  BY <1>1, <1>2 DEF Trimmed, Run
<1> HIDE DEF len
<1>4. l \in Int /\ m \in Nat
  BY <1>1, <1>2 DEF Least
<1>5. out \o piece = Run(lo, n + m)
  <2> HIDE DEF l, piece
  <2>1. Run(lo, n) \o Run(lo + n, l) = Run(lo, n + m)
    BY <1>1, <1>4, RunExtends
  <2>2. QED
    BY <1>1, <1>3, <2>1 DEF Wrote
<1>6. n + m > 0 => lo + (n + m) - 1 <= hi /\ lo + (n + m) - 1 < FileSize
  BY <1>1, <1>2 DEF Wrote, Least
<1>7. Short(len) => Cursor + m > hi \/ Cursor + m >= FileSize
  BY <1>1, <1>2 DEF Short, Least
<1>8. ~Short(len) /\ Cursor < offset + ChunkSize
         => Cursor + m > hi \/ Cursor + m = offset + ChunkSize
  BY <1>1, <1>2 DEF Short, Least
<1>9. Len(piece) = m /\ (m = 0 <=> piece = <<>>)
  <2> HIDE DEF l, piece
  <2>1. CASE l > 0
    <3>1. l \in Nat /\ m = l /\ m # 0
      BY <1>4, <2>1
    <3>2. QED
      BY <1>1, <1>3, <3>1, RunLength
  <2>2. CASE ~(l > 0)
    <3>1. Run(Cursor, l) = <<>>
      BY <1>4, <2>2 DEF Run
    <3>2. QED
      BY <1>3, <2>2, <3>1
  <2>3. QED
    BY <2>1, <2>2
<1>10. n + m \in Nat /\ n <= n + m /\ (n + m = n <=> m = 0) /\ Cursor + m = lo + (n + m)
  <2> HIDE DEF l, m
  <2>1. QED
    BY <1>1, <1>4
<1>11. PICK k \in Nat : k = n + m
  BY <1>10
<1>12. /\ out \o piece = Run(lo, k) /\ Cursor + Len(piece) = lo + k
       /\ n <= k /\ (k = n <=> piece = <<>>)
       /\ k > 0 => lo + k - 1 <= hi /\ lo + k - 1 < FileSize
       /\ Short(len) => lo + k > hi \/ lo + k >= FileSize
       /\ ~Short(len) /\ Cursor < offset + ChunkSize
             => lo + k > hi \/ lo + k = offset + ChunkSize
  <2> HIDE DEF l, m, piece
  <2>1. QED
    BY <1>5, <1>6, <1>7, <1>8, <1>9, <1>10, <1>11
<1>13. QED
  BY <1>12 DEF len

-----------------------------------------------------------------------------
(* Steps of the handler *)

\* Success is only reported at the end of a complete body; headers are honest, and
\* the size they were computed from stays.
Answered ==
    /\ result = "ok" => main = "done" /\ out = Want
    /\ HonestHeaders
    /\ status \in {206, 416} => size > 0
    /\ status = 200 /\ hi # MaxStream => size > 0

Inv == Typed /\ Staged /\ Pooled /\ Windowed /\ Answered

LEMMA LookupKeeps ==
    ASSUME Inv, Lookup
    PROVE  Inv'
<1>1. /\ main = "lookup" /\ status = 0 /\ after = "headers" /\ ~refreshed /\ pass = 1
      /\ result # "ok" /\ ~HasBody /\ out = <<>>
  BY DEF Lookup, Inv, Staged, Pooled, Answered, HasBody
<1>2. /\ \/ main' \in {"refresh", "headers"} /\ status' = 0
         \/ main' = "done" /\ status' = 503
      /\ UNCHANGED <<request, ref, expired, after, lo, hi, out, refreshed, window, workers,
                     gone, result>>
  BY <1>1 DEF Lookup, Goto
<1>3. Typed'
  BY <1>1, <1>2 DEF Inv, Typed, request, ref, window, workers
<1>4. Staged'
  BY <1>1, <1>2 DEF Inv, Staged, Refreshing, In, HasBody, Wrote
<1>5. UNCHANGED <<pass, from, hi, refreshed, wblk, chan, wres, wpc>>
  BY <1>2 DEF window, workers
<1>6. Pooled'
  BY <1>1, <1>2, <1>5 DEF Inv, Pooled, Untouched, Refreshing, Pool, Offset
<1>7. Windowed'
  BY <1>2 DEF Windowed
<1>8. Answered'
  <2>1. result' # "ok" /\ status' \notin {200, 206, 416}
    BY <1>1, <1>2
  <2>2. QED
    BY <2>1 DEF Answered, HonestHeaders
<1>9. QED
  BY <1>3, <1>4, <1>6, <1>7, <1>8 DEF Inv

LEMMA AskTelegramKeeps ==
    ASSUME Inv, AskTelegram
    PROVE  Inv'
<1>1. /\ main = "refresh" /\ Refreshing /\ pass = 1 /\ result # "ok"
      /\ status = 0 => ~HasBody /\ out = <<>>
  BY DEF AskTelegram, Inv, Refreshing, Staged, Pooled, Answered, HasBody
<1>2. \/ main' = "assign" /\ status' = status /\ result' = result
      \/ /\ main' = "done" /\ status' = (IF status = 0 THEN 502 ELSE status)
         /\ result' \in {result, "failed"}
  BY DEF AskTelegram, Goto
<1>3. UNCHANGED <<request, ref, expired, after, lo, hi, out, refreshed, window, workers, gone>>
  BY DEF AskTelegram
<1>4. Typed'
  <2>1. /\ main' \in {"assign", "done"} /\ status' \in {0, 200, 206, 416, 502, 503}
        /\ result' \in {"none", "ok", "failed"}
    BY <1>2 DEF Inv, Typed
  <2>2. QED
    BY <1>3, <2>1 DEF Inv, Typed, request, ref, window, workers
<1>5. Staged'
  BY <1>1, <1>2, <1>3 DEF Inv, Staged, Refreshing, In, HasBody, Wrote, Cursor, request
<1>6. UNCHANGED <<pass, from, hi, refreshed, wblk, chan, wres, wpc>>
  BY <1>3 DEF window, workers
<1>7. Pooled'
  BY <1>1, <1>2, <1>6 DEF Inv, Pooled, Untouched, Refreshing, Pool, Offset
<1>8. Windowed'
  BY <1>2 DEF Windowed
<1>9. Answered'
  BY <1>1, <1>2, <1>3 DEF Inv, Answered, HonestHeaders, Asked, request, ref
<1>10. QED
  BY <1>4, <1>5, <1>7, <1>8, <1>9 DEF Inv

LEMMA AssignLocatorKeeps ==
    ASSUME Inv, AssignLocator
    PROVE  Inv'
<1>1. main = "assign" /\ main' = "persist" /\ Refreshing /\ pass = 1 /\ result # "ok"
  BY DEF AssignLocator, Goto, Inv, Refreshing, Pooled, Answered
<1>2. /\ locator' = expired + 1 /\ size' = (IF size = 0 THEN FileSize ELSE size)
      /\ UNCHANGED <<request, expired, after, reply, out, refreshed, window, workers, gone, result>>
  BY DEF AssignLocator
<1>3. Typed'
  <2>1. /\ locator' \in Nat /\ expired' \in 0..locator' /\ locator' <= expired' + 1
        /\ wreq' \in [Workers -> 0..locator']
    <3>1. locator \in Nat /\ expired \in 0..locator /\ locator <= expired + 1
      BY DEF Inv, Typed
    <3>2. locator' \in Nat /\ expired' \in 0..locator' /\ locator' <= expired' + 1 /\ locator <= locator'
      BY <1>2, <3>1
    <3>3. wreq' = wreq /\ wreq \in [Workers -> 0..locator]
      BY <1>2 DEF Inv, Typed, workers
    <3>4. wreq' \in [Workers -> 0..locator']
      BY <3>1, <3>2, <3>3
    <3>5. QED
      BY <3>2, <3>4
  <2>2. size' \in Recorded \cup {FileSize}
    BY <1>2 DEF Inv, Typed
  <2>3. QED
    BY <1>1, <1>2, <2>1, <2>2 DEF Inv, Typed, request, reply, window, workers
<1>4. Staged'
  BY <1>1, <1>2 DEF Inv, Staged, Refreshing, In, HasBody, Wrote, Cursor, request, reply
<1>5. UNCHANGED <<status, pass, from, hi, refreshed, wblk, chan, wres, wpc>>
  BY <1>2 DEF window, workers, reply
<1>6. Pooled'
  BY <1>1, <1>5 DEF Inv, Pooled, Untouched, Refreshing, Pool, Offset
<1>7. Windowed'
  BY <1>1 DEF Windowed
<1>8. Answered'
  <2>1. size > 0 => size' = size
    BY <1>2
  <2>2. UNCHANGED <<header, status, lo, hi>> /\ result' # "ok"
    BY <1>1, <1>2 DEF request, reply
  <2>3. QED
    BY <2>1, <2>2 DEF Inv, Answered, HonestHeaders, Asked
<1>9. QED
  BY <1>3, <1>4, <1>6, <1>7, <1>8 DEF Inv

LEMMA StopOnDisconnectKeeps ==
    ASSUME Inv, StopOnDisconnect
    PROVE  Inv'
<1>1. main = "stream" /\ main' = "done" /\ result' = "failed" /\ cancelled' = cancelled \cup {pass}
  BY DEF StopOnDisconnect, Finish, Goto
<1>2. UNCHANGED <<request, ref, expired, after, reply, out, refreshed, pass, from, i, workers, gone>>
  BY DEF StopOnDisconnect
<1>3. Typed'
  BY <1>1, <1>2 DEF Inv, Typed, request, ref, reply, workers
<1>4. Staged'
  BY <1>1, <1>2 DEF Inv, Staged, Refreshing, In, HasBody, Wrote, Cursor, request, reply
<1>5. UNCHANGED <<status, pass, from, hi, refreshed, wblk, chan, wres, wpc>>
  BY <1>2 DEF workers, reply
<1>6. Pooled'
  BY <1>1, <1>5 DEF Inv, Pooled, Untouched, Refreshing, Pool, Offset
<1>7. Windowed'
  BY <1>1 DEF Windowed
<1>8. Answered'
  BY <1>1, <1>2 DEF Inv, Answered, HonestHeaders, Asked, request, ref, reply
<1>9. QED
  BY <1>3, <1>4, <1>6, <1>7, <1>8 DEF Inv

\* A pass begins with its workers on its first blocks and the writer at its start.
LEMMA PassStarts ==
    ASSUME Typed, Pooled, NEW p \in Passes, NEW a \in Nat, NEW b \in Nat, a <= b,
           StartPass(p, a, b), hi' = b, Cursor' = a,
           \A w \in Workers : w[1] = p => Untouched(w),
           \A w \in Workers : w[1] # p /\ wpc[w] # "off" => hi' = hi
    PROVE  /\ Windowed'
           /\ pass' = p /\ i' = 0 /\ from' \in [Passes -> Nat]
           /\ wpc' \in [Workers -> {"off", "build", "call", "send", "done"}]
           /\ UNCHANGED <<wblk, wreq, wtry, wres, chan, cancelled>>
           /\ \A w \in Workers : w[1] # p => wpc'[w] = wpc[w]
           /\ \A w \in Workers : wpc'[w] # "off" => w[2] < Pool(w[1])'
           /\ \A w \in Workers : wpc'[w] = "send" /\ wres'[w].err = "none"
                                    => wres'[w].len = BlockLen(Offset(w[1], wblk[w])')
<1>1. /\ pass' = p /\ from' = [from EXCEPT ![p] = a] /\ i' = 0
      /\ wpc' = [w \in Workers |-> IF w[1] = p /\ w[2] < PoolSize(a, b) THEN "build" ELSE wpc[w]]
      /\ UNCHANGED <<wblk, wreq, wtry, wres, chan, cancelled>>
  BY DEF StartPass
<1>2. /\ from \in [Passes -> Nat] /\ from' \in [Passes -> Nat] /\ from'[p] = a
      /\ \A q \in Passes : q # p => from'[q] = from[q]
  BY <1>1 DEF Typed
<1>3. Pool(p)' = PoolSize(a, b) /\ PoolSize(a, b) \in 1..ReadAhead
  BY <1>2, PoolOfRange DEF Pool
<1>4. /\ wpc' \in [Workers -> {"off", "build", "call", "send", "done"}]
      /\ \A w \in Workers : w[1] # p => wpc'[w] = wpc[w]
      /\ \A w \in Workers : w[1] = p => IF w[2] < PoolSize(a, b) THEN wpc'[w] = "build"
                                                                  ELSE wpc'[w] = "off"
  BY <1>1 DEF Typed, Untouched
<1>5. \A w \in Workers : w[1] # p /\ wpc[w] # "off"
         => Pool(w[1])' = Pool(w[1]) /\ \A n : Offset(w[1], n)' = Offset(w[1], n)
  BY <1>2, WorkersAre DEF Pool, Offset
<1>6. ASSUME NEW w \in Workers, wpc'[w] # "off" PROVE w[2] < Pool(w[1])'
  <2>1. CASE w[1] = p
    BY <1>3, <1>4, <1>6, <2>1
  <2>2. CASE w[1] # p
    BY <1>4, <1>5, <1>6, <2>2 DEF Pooled
  <2>3. QED
    BY <2>1, <2>2
<1>7. ASSUME NEW w \in Workers, wpc'[w] = "send" /\ wres'[w].err = "none"
      PROVE  wres'[w].len = BlockLen(Offset(w[1], wblk[w])')
  <2>1. w[1] # p /\ wpc[w] = "send" /\ wpc[w] # "off"
    BY <1>4, <1>7
  <2>2. QED
    BY <1>1, <1>5, <1>7, <2>1 DEF Pooled
<1>8. ASSUME NEW v \in Workers, v[1] = p, v[2] < Pool(p)'
      PROVE  \E n \in Nat : Awaits(v, n)'
  <2>1. v[2] \in Nat /\ wpc'[v] = "build" /\ chan'[v] = Nothing /\ wblk'[v] = v[2]
    BY <1>1, <1>3, <1>4, <1>8, WorkersAre DEF Untouched
  <2>2. v[2] % Pool(p)' = v[2]
    BY <1>3, <1>8, <2>1, StreamAssumption
  <2>3. Pool(pass)' = Pool(p)'
    BY <1>1 DEF Pool
  <2>4. /\ i' = 0 /\ Pool(pass)' \in Nat /\ v[2] < Pool(pass)' /\ v[2] % Pool(pass)' = v[2]
        /\ Nothing.err # "none"
    BY <1>1, <1>3, <1>8, <2>2, <2>3, ResultsDiffer, StreamAssumption
  <2>5. Awaits(v, v[2])'
    BY <2>1, <2>4 DEF Awaits, Active
  <2>6. QED
    BY <2>1, <2>5
<1>9. Windowed'
  <2>1. (from[pass] <= hi)' /\ (Cursor = IF i = 0 THEN from[pass] ELSE Offset(pass, i))'
    BY <1>1, <1>2
  <2>2. Pool(pass)' = Pool(p)'
    BY <1>1 DEF Pool
  <2>3. (\A v \in Workers : v[1] = pass /\ v[2] < Pool(pass) => \E n \in Nat : Awaits(v, n))'
    BY <1>1, <1>8, <2>2
  <2>4. QED
    BY <2>1, <2>3 DEF Windowed
<1>10. QED
  BY <1>1, <1>2, <1>4, <1>6, <1>7, <1>9

LEMMA PersistLocatorKeeps ==
    ASSUME Inv, PersistLocator
    PROVE  Inv'
<1>1. main = "persist" /\ Refreshing /\ pass = 1 /\ result # "ok"
  BY DEF PersistLocator, Inv, Refreshing, Pooled, Answered
<1>2. UNCHANGED <<request, ref, expired, after, lo, hi, out, refreshed, gone>>
  BY DEF PersistLocator
<1>3. /\ status' \in {status, 502} /\ (status # 0 => status' = status)
      /\ status = 0 => ~HasBody /\ out = <<>>
      /\ result' \in {result, "failed"}
  BY DEF PersistLocator, Inv, Staged, HasBody
<1>4. Answered'
  BY <1>1, <1>2, <1>3 DEF Inv, Answered, HonestHeaders, Asked, request, ref
<1>5. CASE UNCHANGED <<window, workers>>
  <2>1. /\ main' \in {after, "done"} /\ (main' = after => after # "stream")
        /\ main' # "done" => status' = status
    BY <1>1, <1>5 DEF PersistLocator, Goto, Inv, Typed, StartPass, window
  <2>2. Typed'
    <3>1. /\ main' \in {"headers", "sequential", "done"} /\ status' \in {0, 200, 206, 416, 502, 503}
          /\ result' \in {"none", "ok", "failed"}
      BY <1>3, <2>1 DEF Inv, Typed
    <3>2. QED
      BY <1>2, <1>5, <3>1 DEF Inv, Typed, request, ref, window, workers
  <2>3. Staged'
    BY <1>1, <1>2, <1>3, <2>1 DEF Inv, Typed, Staged, Refreshing, In, HasBody, Wrote, Cursor, request
  <2>4. UNCHANGED <<pass, from, hi, refreshed, wblk, chan, wres, wpc>>
    BY <1>2, <1>5 DEF window, workers
  <2>5. Pooled'
    BY <1>1, <1>3, <2>4 DEF Inv, Pooled, Untouched, Refreshing, Pool, Offset
  <2>6. main' # "stream"
    BY <2>1 DEF Inv, Typed
  <2>7. Windowed'
    BY <2>6 DEF Windowed
  <2>8. QED
    BY <1>4, <2>2, <2>3, <2>5, <2>7 DEF Inv
<1>6. CASE /\ after = "stream" /\ main' = "stream" /\ StartPass(2, Cursor, hi)
           /\ UNCHANGED <<status, result>>
  <2>1. HasBody /\ lo <= Cursor /\ Cursor <= hi /\ refreshed
    BY <1>1, <1>6 DEF Inv, Staged, In
  <2>2. Cursor \in Nat /\ hi \in Nat /\ Cursor' = Cursor /\ 2 \in Passes
    <3>1. PICK n \in Nat : Wrote(n)
      BY DEF Inv, Staged
    <3>2. Cursor \in Nat
      BY <3>1, CursorIs DEF Inv
    <3>3. hi \in Nat
      BY <2>1, <3>2 DEF Inv, Typed
    <3>4. QED
      BY <1>2, <3>2, <3>3 DEF Cursor, Passes
  <2>3. \A w \in Workers : w[1] = 2 => Untouched(w)
    BY <1>1 DEF Inv, Pooled
  <2>4. /\ Windowed'
        /\ pass' = 2 /\ i' = 0 /\ from' \in [Passes -> Nat]
        /\ wpc' \in [Workers -> {"off", "build", "call", "send", "done"}]
        /\ UNCHANGED <<wblk, wreq, wtry, wres, chan, cancelled>>
        /\ \A w \in Workers : w[1] # 2 => wpc'[w] = wpc[w]
        /\ \A w \in Workers : wpc'[w] # "off" => w[2] < Pool(w[1])'
        /\ \A w \in Workers : wpc'[w] = "send" /\ wres'[w].err = "none"
                                 => wres'[w].len = BlockLen(Offset(w[1], wblk[w])')
    BY <1>2, <1>6, <2>1, <2>2, <2>3, PassStarts DEF Inv
  <2>5. Typed'
    BY <1>2, <1>6, <2>2, <2>4 DEF Inv, Typed, request, ref
  <2>6. Staged'
    BY <1>1, <1>2, <1>6, <2>1 DEF Inv, Staged, Refreshing, In, HasBody, Wrote, Cursor, request
  <2>7. Pooled'
    <3>1. status' # 0 /\ pass' = 2 /\ ~Refreshing' /\ refreshed'
      BY <1>2, <1>6, <2>1, <2>4 DEF HasBody, Refreshing
    <3>2. QED
      BY <3>1, <2>4 DEF Pooled
  <2>8. QED
    BY <1>4, <2>4, <2>5, <2>6, <2>7 DEF Inv
<1>7. QED
  BY <1>5, <1>6 DEF PersistLocator, Goto

LEMMA SendHeadersKeeps ==
    ASSUME Inv, SendHeaders
    PROVE  Inv'
<1> DEFINE r == parseRange(header, size)
<1>1. /\ main = "headers" /\ status = 0 /\ after = "headers" /\ ~refreshed /\ pass = 1
      /\ result # "ok" /\ ~HasBody /\ out = <<>> /\ Cursor \in Int
      /\ \A w \in Workers : Untouched(w)
  <2>1. /\ main = "headers" /\ status = 0 /\ after = "headers" /\ ~refreshed /\ pass = 1
        /\ result # "ok" /\ ~HasBody /\ out = <<>>
        /\ \A w \in Workers : Untouched(w)
    BY DEF SendHeaders, Inv, Staged, Pooled, Answered, HasBody
  <2>2. QED
    BY <2>1 DEF Cursor, Inv, Typed
<1>2. UNCHANGED <<request, ref, expired, after, out, refreshed, gone, result>>
  BY DEF SendHeaders
<1>3. size \in Nat /\ header \in Headers /\ MaxStream \in Nat /\ method \in {"GET", "HEAD"}
  BY StreamAssumption DEF Inv, Typed
<1> DEFINE Unknown == /\ size = 0 /\ status' = 200 /\ lo' = 0 /\ hi' = MaxStream
                      /\ main' = IF method = "HEAD" THEN "done" ELSE "sequential"
                      /\ UNCHANGED <<window, workers>>
           Refused == /\ size > 0 /\ ~r.ok /\ status' = 416 /\ main' = "done"
                      /\ UNCHANGED <<lo, hi, window, workers>>
           Ranged  == /\ size > 0 /\ r.ok
                      /\ status' = IF header.unit = "none" THEN 200 ELSE 206
                      /\ lo' = r.start /\ hi' = r.end
           NoBody  == /\ Ranged /\ method = "HEAD" /\ main' = "done"
                      /\ UNCHANGED <<window, workers>>
           Body    == /\ Ranged /\ method = "GET" /\ main' = "stream"
                      /\ StartPass(1, r.start, r.end)
<1>4. Unknown \/ Refused \/ NoBody \/ Body
  BY <1>3 DEF SendHeaders, Goto
<1>5. size > 0 => IF r.ok THEN /\ r.start \in Nat /\ r.end \in Nat
                               /\ r.start <= r.end /\ r.end < size
                               /\ r.start..r.end = Asked(header, size)
                               /\ header.unit = "none" => r.start = 0 /\ r.end = size - 1
                  ELSE Asked(header, size) = {}
  BY <1>3, RangeHonest
<1> HIDE DEF r
<1>6. /\ lo' \in Nat /\ hi' \in Nat \cup {-1} /\ status' \in {200, 206, 416}
      /\ main' \in {"done", "sequential", "stream"}
      /\ main' = "sequential" => lo' = 0 /\ hi' = MaxStream /\ HasBody'
      /\ main' = "stream" => lo' <= hi' /\ HasBody'
  BY <1>2, <1>3, <1>4, <1>5 DEF Inv, Typed, HasBody, request
<1>7. Cursor' = lo'
  <2>1. Cursor' = lo' + 0
    BY <1>1, <1>2 DEF Cursor
  <2>2. \A n \in Nat : n + 0 = n
    OBVIOUS
  <2>3. lo' \in Nat
    BY <1>6
  <2>4. QED
    BY <2>1, <2>2, <2>3, Zenon
<1>8. Staged'
  <2>1. Wrote(0)'
    BY <1>1, <1>2, <1>6, RunLength DEF Wrote
  <2>2. QED
    BY <1>1, <1>2, <1>6, <1>7, <2>1 DEF Inv, Staged, Refreshing, In
<1>9. Answered'
  <2>1. header' = header /\ size' = size /\ result' = result
    BY <1>2 DEF request, ref
  <2>2. Asked(header, size)' = Asked(header, size)
    BY <2>1 DEF Asked
  <2>3. /\ status' = 206 => size > 0 /\ lo'..hi' = Asked(header, size)
        /\ status' = 200 /\ hi' # MaxStream => size > 0 /\ lo'..hi' = 0..(size - 1)
        /\ status' = 416 => size > 0 /\ Asked(header, size) = {}
    BY <1>4, <1>5
  <2>4. QED
    BY <1>1, <2>1, <2>2, <2>3 DEF Answered, HonestHeaders
<1>10. CASE UNCHANGED <<window, workers>> /\ main' # "stream"
  <2>1. Typed'
    BY <1>2, <1>6, <1>10 DEF Inv, Typed, request, ref, window, workers
  <2>2. UNCHANGED <<pass, refreshed, wblk, chan, wpc, wres>>
    BY <1>2, <1>10 DEF window, workers
  <2>3. Pooled'
    BY <1>1, <2>2 DEF Pooled, Untouched
  <2>4. Windowed'
    BY <1>10 DEF Windowed
  <2>5. QED
    BY <1>8, <1>9, <2>1, <2>3, <2>4 DEF Inv
<1>11. CASE Body
  <2>1. /\ r.start \in Nat /\ r.end \in Nat /\ r.start <= r.end /\ 1 \in Passes
        /\ hi' = r.end /\ Cursor' = r.start
    BY <1>5, <1>7, <1>11 DEF Passes
  <2>2. \A w \in Workers : wpc[w] = "off"
    BY <1>1 DEF Untouched
  <2>3. /\ Windowed'
        /\ pass' = 1 /\ i' = 0 /\ from' \in [Passes -> Nat]
        /\ wpc' \in [Workers -> {"off", "build", "call", "send", "done"}]
        /\ UNCHANGED <<wblk, wreq, wtry, wres, chan, cancelled>>
        /\ \A w \in Workers : w[1] # 1 => wpc'[w] = wpc[w]
        /\ \A w \in Workers : wpc'[w] # "off" => w[2] < Pool(w[1])'
        /\ \A w \in Workers : wpc'[w] = "send" /\ wres'[w].err = "none"
                                 => wres'[w].len = BlockLen(Offset(w[1], wblk[w])')
    BY <1>1, <1>11, <2>1, <2>2, PassStarts DEF Inv
  <2>4. Typed'
    BY <1>2, <1>6, <2>3 DEF Inv, Typed, request, ref, Passes
  <2>5. Pooled'
    <3>1. status' # 0 /\ pass' = 1 /\ \A w \in Workers : w[1] = 2 => Untouched(w)'
      BY <1>1, <1>6, <2>3 DEF Untouched
    <3>2. QED
      BY <3>1, <2>3 DEF Pooled
  <2>6. QED
    BY <1>8, <1>9, <2>3, <2>4, <2>5 DEF Inv
<1>12. QED
  BY <1>4, <1>10, <1>11

\* The writer's block: whose it is, what it holds and where it begins.
LEMMA OwnersBlock ==
    ASSUME Inv, TakeBlock
    PROVE  /\ main = "stream" /\ HasBody /\ pass \in Passes /\ i \in Nat
           /\ from[pass] <= hi /\ Pool(pass) \in 1..ReadAhead
           /\ Owner \in Workers /\ Owner[1] = pass /\ Owner[2] = i % Pool(pass)
           /\ chan[Owner] \in Results /\ chan[Owner] # Nothing
           /\ chan[Owner].err = "none" => chan[Owner].len = BlockLen(Offset(pass, i))
           /\ Active(Owner) => wblk[Owner] = i + Pool(pass)
           /\ Offset(pass, i) \in Nat /\ Offset(pass, i) <= Cursor
           /\ Cursor < Offset(pass, i) + ChunkSize
           /\ Offset(pass, i + 1) = Offset(pass, i) + ChunkSize
<1>1. /\ main = "stream" /\ chan[Owner] # Nothing /\ HasBody /\ pass \in Passes /\ i \in Nat
      /\ from[pass] \in Nat /\ ChunkSize \in Nat /\ ReadAhead \in Nat \ {0}
  BY StreamAssumption DEF TakeBlock, Inv, Staged, In, Typed
<1>2. /\ from[pass] <= hi
      /\ Cursor = IF i = 0 THEN from[pass] ELSE Offset(pass, i)
      /\ \A v \in Workers : v[1] = pass /\ v[2] < Pool(pass) => \E n \in Nat : Awaits(v, n)
  BY <1>1 DEF Inv, Windowed
<1>3. Pool(pass) \in 1..ReadAhead
  BY <1>2, PoolOfPass DEF Inv
<1>4. i % Pool(pass) \in 0..(Pool(pass) - 1)
  BY <1>1, <1>3
<1>5. Owner \in Workers /\ Owner[1] = pass /\ Owner[2] = i % Pool(pass)
  BY <1>1, <1>3, <1>4 DEF Owner, Workers
<1>6. PICK n \in Nat : Awaits(Owner, n)
  BY <1>2, <1>3, <1>4, <1>5
<1>7. n = i
  <2>1. i <= n /\ n < i + Pool(pass) /\ i % Pool(pass) = n % Pool(pass)
    BY <1>5, <1>6 DEF Awaits
  <2>2. Pool(pass) \in Nat \ {0}
    BY <1>1, <1>3
  <2>3. QED
    BY <1>1, <2>1, <2>2, RemainderUnique
<1>8. chan[Owner] \in Results
  BY <1>5 DEF Inv, Typed
<1>9. /\ chan[Owner].err = "none" => chan[Owner].len = BlockLen(Offset(pass, i))
      /\ Active(Owner) => wblk[Owner] = i + Pool(pass)
  BY <1>1, <1>6, <1>7 DEF Awaits
<1>10. /\ Aligned(from[pass]) \in Nat /\ Aligned(from[pass]) <= from[pass]
       /\ from[pass] < Aligned(from[pass]) + ChunkSize
  BY <1>1, AlignedPosition
<1>11. Offset(pass, i) \in Nat /\ Offset(pass, i + 1) = Offset(pass, i) + ChunkSize
  <2>1. (i + 1) * ChunkSize = i * ChunkSize + ChunkSize
    BY <1>1
  <2>2. i * ChunkSize \in Nat
    BY <1>1
  <2>3. QED
    BY <1>10, <1>1, <2>1, <2>2 DEF Offset
<1>12. Offset(pass, i) <= Cursor /\ Cursor < Offset(pass, i) + ChunkSize
  <2>1. CASE i = 0
    <3>1. Offset(pass, 0) = Aligned(from[pass])
      BY <1>1, <1>10 DEF Offset
    <3>2. QED
      BY <1>2, <1>10, <2>1, <3>1
  <2>2. CASE i # 0
    BY <1>1, <1>2, <1>11, <2>2, StreamAssumption
  <2>3. QED
    BY <2>1, <2>2
<1>13. QED
  BY <1>1, <1>2, <1>3, <1>5, <1>8, <1>9, <1>11, <1>12

\* Taking a block moves the window by one: its worker now owes the block a pool
\* further on, the others what they owed.
LEMMA WindowMoves ==
    ASSUME Inv, TakeBlock, i' = i + 1, Cursor' = Offset(pass, i + 1)
    PROVE  Windowed'
<1>1. /\ main = "stream" /\ pass \in Passes /\ i \in Nat
      /\ from[pass] <= hi /\ Pool(pass) \in 1..ReadAhead
      /\ Owner \in Workers /\ Owner[1] = pass /\ Owner[2] = i % Pool(pass)
      /\ chan[Owner] # Nothing
      /\ Active(Owner) => wblk[Owner] = i + Pool(pass)
  BY OwnersBlock
<1>2. UNCHANGED <<lo, hi, pass, from, wpc, wblk>> /\ chan' = [chan EXCEPT ![Owner] = Nothing]
  BY DEF TakeBlock, reply
<1>3. Pool(pass)' = Pool(pass) /\ \A n : Offset(pass, n)' = Offset(pass, n)
  BY <1>2 DEF Pool, Offset
<1>4. chan \in [Workers -> Results]
  BY DEF Inv, Typed
<1>5. chan'[Owner] = Nothing /\ \A v \in Workers : v # Owner => chan'[v] = chan[v]
  BY <1>1, <1>2, <1>4
<1>6. ASSUME NEW v \in Workers, v[1] = pass, v[2] < Pool(pass)
      PROVE  \E n \in Nat : Awaits(v, n)'
  <2>1. PICK n \in Nat : Awaits(v, n)
    BY <1>1, <1>6 DEF Inv, Windowed
  <2>2. CASE v = Owner
    <3>1. PICK m \in Nat : m = i + Pool(pass)
      BY <1>1, StreamAssumption
    <3>2. m % Pool(pass) = i % Pool(pass)
      <4> DEFINE c == Pool(pass)
      <4>1. i \in Nat /\ c \in Nat \ {0} /\ m = i + c
        BY <1>1, <3>1, StreamAssumption
      <4> HIDE DEF c
      <4>2. m % c = i % c
        BY <4>1, RemainderRepeats
      <4>3. QED
        BY <4>2 DEF c
    <3>3. i' <= m /\ m < i' + Pool(pass)' /\ m % Pool(pass)' = v[2]
      BY <1>1, <1>3, <2>2, <3>1, <3>2, StreamAssumption
    <3>4. /\ chan'[v].err # "none" /\ chan'[v] = Nothing
          /\ Active(v)' => wblk'[v] = m
      BY <1>1, <1>2, <1>5, <2>2, <3>1, ResultsDiffer DEF Active
    <3>5. Awaits(v, m)'
      BY <3>3, <3>4 DEF Awaits
    <3>6. QED
      BY <3>5
  <2>3. CASE v # Owner
    <3>1. n # i
      BY <1>1, <1>6, <2>1, <2>3, WorkersAre DEF Awaits
    <3>2. i' <= n /\ n < i' + Pool(pass)' /\ n % Pool(pass)' = v[2]
      BY <1>1, <1>3, <2>1, <3>1, StreamAssumption DEF Awaits
    <3>3. chan'[v] = chan[v] /\ wblk'[v] = wblk[v] /\ wpc'[v] = wpc[v]
      BY <1>2, <1>5, <2>3
    <3>4. Awaits(v, n)'
      BY <1>3, <2>1, <3>2, <3>3 DEF Awaits, Active
    <3>5. QED
      BY <3>4
  <2>4. QED
    BY <2>2, <2>3
<1>7. (from[pass] <= hi)' /\ (Cursor = IF i = 0 THEN from[pass] ELSE Offset(pass, i))'
  <2>1. i' # 0 /\ Offset(pass, i)' = Offset(pass, i + 1)
    BY <1>1, <1>2 DEF Offset
  <2>2. QED
    BY <1>1, <1>2, <2>1
<1>8. (\A v \in Workers : v[1] = pass /\ v[2] < Pool(pass) => \E n \in Nat : Awaits(v, n))'
  BY <1>2, <1>3, <1>6
<1>9. QED
  BY <1>7, <1>8 DEF Windowed

LEMMA TakeBlockKeeps ==
    ASSUME Inv, TakeBlock
    PROVE  Inv'
<1> DEFINE r      == chan[Owner]
           offset == Offset(pass, i)
           piece  == IF r.err = "none" THEN Trimmed(offset, r.len, Cursor) ELSE <<>>
           Taken  == /\ r.err = "none" /\ out' = out \o piece /\ i' = i + 1
                     /\ IF Cursor + Len(piece) > hi \/ Short(r.len)
                        THEN Finish("ok") ELSE UNCHANGED <<main, cancelled, result>>
                     /\ UNCHANGED <<refreshed, after>>
           Failed == Finish("failed") /\ UNCHANGED <<out, i, refreshed, after>>
           Again  == /\ ~refreshed /\ refreshed' = TRUE /\ main' = "refresh" /\ after' = "stream"
                     /\ cancelled' = cancelled \cup {pass}
                     /\ UNCHANGED <<out, i, result>>
<1>1. /\ main = "stream" /\ HasBody /\ pass \in Passes /\ i \in Nat /\ Owner \in Workers
      /\ Owner[1] = pass
      /\ r.err = "none" => r.len = BlockLen(offset)
      /\ offset \in Nat /\ offset <= Cursor /\ Cursor < offset + ChunkSize
      /\ Offset(pass, i + 1) = offset + ChunkSize
  BY OwnersBlock
<1>2. /\ chan' = [chan EXCEPT ![Owner] = Nothing]
      /\ UNCHANGED <<request, ref, expired, reply, pass, from, wpc, wblk, wreq, wtry, wres, gone>>
      /\ Taken \/ Failed \/ Again
  BY DEF TakeBlock, Goto
<1>3. status \in {200, 206} /\ result # "ok" /\ lo <= Cursor /\ Cursor <= hi
  BY <1>1 DEF Inv, Answered, Staged, In, HasBody
<1>4. /\ chan' \in [Workers -> Results] /\ chan'[Owner] = Nothing
      /\ \A w \in Workers : w # Owner => chan'[w] = chan[w]
  <2>1. Nothing \in Results
    BY StreamAssumption DEF Nothing, Error, Results
  <2>2. QED
    BY <1>1, <1>2, <2>1 DEF Inv, Typed
<1>5. /\ main' \in {"stream", "done", "refresh"} /\ after' \in {after, "stream"}
      /\ refreshed' \in BOOLEAN /\ i' \in Nat /\ cancelled' \subseteq Passes
      /\ result' \in {"none", "ok", "failed"}
      /\ main' = "refresh" => ~refreshed
  <2>1. CASE Taken
    BY <1>1, <2>1 DEF Inv, Typed, Finish, Goto
  <2>2. CASE Failed
    BY <1>1, <2>2 DEF Inv, Typed, Finish, Goto
  <2>3. CASE Again
    BY <1>1, <2>3 DEF Inv, Typed
  <2>4. QED
    BY <1>2, <2>1, <2>2, <2>3
<1> HIDE DEF Taken, Failed, Again
<1>6. Typed'
  BY <1>2, <1>4, <1>5 DEF Inv, Typed, request, ref, reply
<1>7. Pooled'
  <2>1. /\ UNCHANGED <<status, pass, from, hi, wblk, wpc, wres>> /\ status # 0
        /\ Refreshing' \/ ~refreshed' => pass = 1
    BY <1>2, <1>3, <1>5 DEF Inv, Pooled, Refreshing, reply, Taken, Failed, Again
  <2>2. \A w \in Workers : Untouched(w) => Untouched(w)'
    BY <1>4, <2>1 DEF Untouched
  <2>3. QED
    BY <2>1, <2>2 DEF Inv, Pooled, Pool, Offset
<1>8. PICK n \in Nat : Wrote(n)
  BY DEF Inv, Staged
<1>9. Len(out) = n /\ Cursor = lo + n /\ Cursor \in Nat /\ hi \in Int /\ FileSize \in Nat
  BY <1>8, CursorIs, StreamAssumption DEF Inv, Typed
<1>10. HasBody' /\ Want' = Want /\ lo' = lo /\ hi' = hi /\ UNCHANGED <<status, size, header>>
  BY <1>1, <1>2 DEF HasBody, Want, request, reply, ref
<1>11. CASE Taken
  <2>1. r.err = "none" /\ r.len = BlockLen(offset) /\ Offset(pass, i + 1) = offset + ChunkSize
    <3>1. r.err = "none"
      BY <1>11 DEF Taken
    <3>2. QED
      BY <1>1, <3>1
  <2>2. /\ out' = out \o piece /\ piece = Trimmed(offset, r.len, Cursor) /\ i' = i + 1
        /\ refreshed' = refreshed /\ after' = after
        /\ \/ /\ main' = "stream" /\ result' = result
              /\ ~(Cursor + Len(piece) > hi) /\ ~Short(r.len)
           \/ main' = "done" /\ result' = "ok" /\ (Cursor + Len(piece) > hi \/ Short(r.len))
    BY <1>1, <1>11, <2>1 DEF Taken, Finish, Goto
  <2> HIDE DEF r, offset
  <2>3. n > 0 => Cursor <= hi + 1
    BY <1>3, <1>9
  <2>4. PICK k \in Nat :
           /\ out' = Run(lo, k) /\ Cursor + Len(piece) = lo + k
           /\ k > 0 => lo + k - 1 <= hi /\ lo + k - 1 < FileSize
           /\ Short(r.len) => lo + k > hi \/ lo + k >= FileSize
           /\ ~Short(r.len) => lo + k > hi \/ lo + k = offset + ChunkSize
           /\ n <= k
    <3>1. offset \in Nat /\ offset <= Cursor /\ Cursor < offset + ChunkSize /\ Typed
      BY <1>1 DEF Inv
    <3> DEFINE len == BlockLen(offset)
               p   == Trimmed(offset, len, Cursor)
    <3>2. \E k \in Nat :
             /\ out \o p = Run(lo, k) /\ Cursor + Len(p) = lo + k
             /\ n <= k /\ (k = n <=> p = <<>>)
             /\ k > 0 => lo + k - 1 <= hi /\ lo + k - 1 < FileSize
             /\ Short(len) => lo + k > hi \/ lo + k >= FileSize
             /\ ~Short(len) /\ Cursor < offset + ChunkSize
                   => lo + k > hi \/ lo + k = offset + ChunkSize
      BY <1>8, <2>3, <3>1, PieceFits
    <3>3. len = r.len /\ p = piece
      BY <2>1, <2>2
    <3> HIDE DEF len, p, piece
    <3>4. QED
      BY <2>2, <3>1, <3>2, <3>3
  <2>5. Wrote(k)' /\ Cursor' = lo + k
    <3>1. Wrote(k)'
      BY <1>10, <2>4 DEF Wrote
    <3>2. Cursor' = lo' + k
      BY <1>6, <3>1, RunLength DEF Typed, Wrote, Cursor
    <3>3. QED
      BY <1>10, <3>1, <3>2
  <2>6. Staged'
    <3>1. main' = "stream" => lo' <= Cursor' /\ Cursor' <= hi'
      <4>1. lo \in Nat /\ hi \in Int /\ lo <= lo + k
        BY DEF Inv, Typed
      <4>2. main' = "stream" => ~(Cursor + Len(piece) > hi)
        BY <2>2
      <4>3. Cursor + Len(piece) = lo + k
        BY <2>4
      <4> HIDE DEF piece
      <4>4. QED
        BY <1>10, <2>5, <4>1, <4>2, <4>3
    <3>2. \E x \in Nat : Wrote(x)'
      BY <2>5
    <3>3. QED
      BY <1>1, <1>10, <2>2, <3>1, <3>2 DEF Inv, Staged, Refreshing, In
  <2>7. Windowed'
    <3>1. CASE main' = "stream"
      <4>1. Cursor' = Offset(pass, i + 1)
        BY <2>1, <2>2, <2>4, <2>5, <3>1
      <4>2. QED
        BY <2>2, <4>1, WindowMoves
    <3>2. CASE main' # "stream"
      BY <3>2 DEF Windowed
    <3>3. QED
      BY <3>1, <3>2
  <2>8. Answered'
    <3>1. ASSUME result' = "ok" PROVE main' = "done" /\ out' = Want'
      <4>1. main' = "done" /\ (Cursor + Len(piece) > hi \/ Short(r.len))
        BY <1>3, <2>2, <3>1
      <4>2. lo + k > hi \/ lo + k >= FileSize
        BY <2>4, <4>1
      <4>3. Run(lo, k) = Want
        BY <1>1, <2>4, <4>2, WrittenAll DEF Inv
      <4>4. QED
        BY <1>10, <2>4, <4>1, <4>3
    <3>2. HonestHeaders'
      BY <1>10 DEF Inv, Answered, HonestHeaders, Asked
    <3>3. QED
      BY <1>10, <3>1, <3>2 DEF Inv, Answered
  <2>9. QED
    BY <1>6, <1>7, <2>6, <2>7, <2>8 DEF Inv
<1>12. CASE Failed \/ Again
  <2>1. /\ main' # "stream" /\ out' = out /\ Wrote(n)'
        /\ result' # "ok" /\ main' \in {"done", "refresh"}
        /\ \/ refreshed' = TRUE /\ after' = "stream"
           \/ refreshed' = refreshed /\ after' = after
    BY <1>3, <1>8, <1>10, <1>12 DEF Failed, Again, Finish, Goto, Wrote
  <2>2. Staged'
    <3>1. main' = "refresh" => after' = "stream"
      BY <1>12 DEF Failed, Again, Finish, Goto
    <3>2. Cursor' = Cursor
      BY <1>10, <2>1 DEF Cursor
    <3>3. QED
      BY <1>1, <1>3, <1>10, <2>1, <3>1, <3>2 DEF Inv, Staged, Refreshing, In
  <2>3. Windowed'
    BY <2>1 DEF Windowed
  <2>4. Answered'
    BY <1>10, <2>1 DEF Inv, Answered, HonestHeaders, Asked
  <2>5. QED
    BY <1>6, <1>7, <2>2, <2>3, <2>4 DEF Inv
<1>13. QED
  BY <1>2, <1>11, <1>12

LEMMA ReadNextKeeps ==
    ASSUME Inv, ReadNext
    PROVE  Inv'
<1> DEFINE offset == Aligned(Cursor)
           len    == BlockLen(offset)
           piece  == Trimmed(offset, len, Cursor)
           Taken  == /\ out' = out \o piece
                     /\ \/ (len = 0 \/ Short(len)) /\ main' = "done" /\ result' = "ok"
                        \/ UNCHANGED <<main, result>>
                     /\ UNCHANGED <<refreshed, after>>
           Again  == /\ refreshed' = TRUE /\ main' = "refresh" /\ after' = "sequential"
                     /\ ~refreshed /\ UNCHANGED <<out, result>>
           Failed == main' = "done" /\ result' = "failed" /\ UNCHANGED <<out, refreshed, after>>
<1>1. /\ main = "sequential" /\ HasBody /\ lo = 0 /\ hi = MaxStream
      /\ status \in {200, 206} /\ result # "ok"
  BY DEF ReadNext, Inv, Staged, In, Answered, HasBody
<1>2. UNCHANGED <<request, ref, expired, reply, window, workers, gone>>
  BY DEF ReadNext
<1>3. Taken \/ Again \/ Failed
  BY DEF ReadNext, Goto
<1>4. PICK n \in Nat : Wrote(n)
  BY DEF Inv, Staged
<1>5. /\ Cursor = lo + n /\ Cursor \in Nat /\ hi \in Int /\ FileSize \in Nat /\ ChunkSize \in Nat \ {0}
      /\ MaxStream >= FileSize
  <2>1. Cursor = lo + n /\ Cursor \in Nat
    BY <1>4, CursorIs DEF Inv
  <2>2. hi \in Int
    BY DEF Inv, Typed
  <2>3. FileSize \in Nat /\ ChunkSize \in Nat \ {0} /\ MaxStream >= FileSize
    BY StreamAssumption
  <2>4. QED
    BY <2>1, <2>2, <2>3
<1>6. offset \in Nat /\ offset <= Cursor
  BY <1>5, AlignedPosition
<1> HIDE DEF offset
<1>7. PICK k \in Nat :
         /\ out \o piece = Run(lo, k)
         /\ k > 0 => lo + k - 1 <= hi /\ lo + k - 1 < FileSize
         /\ Short(len) => lo + k > hi \/ lo + k >= FileSize
  <2>1. n > 0 => Cursor <= hi + 1
    BY <1>1, <1>4, <1>5 DEF Wrote
  <2>2. \E k \in Nat :
           /\ out \o piece = Run(lo, k) /\ Cursor + Len(piece) = lo + k
           /\ n <= k /\ (k = n <=> piece = <<>>)
           /\ k > 0 => lo + k - 1 <= hi /\ lo + k - 1 < FileSize
           /\ Short(len) => lo + k > hi \/ lo + k >= FileSize
           /\ ~Short(len) /\ Cursor < offset + ChunkSize
                 => lo + k > hi \/ lo + k = offset + ChunkSize
    BY <1>4, <1>6, <2>1, PieceFits DEF Inv
  <2> HIDE DEF len, piece
  <2>3. QED
    BY <2>2
<1>8. len = 0 => Short(len)
  BY <1>5 DEF Short
<1> HIDE DEF len, piece
<1>9. /\ main' \in {"sequential", "refresh", "done"} /\ after' \in {after, "sequential"}
      /\ refreshed' \in BOOLEAN /\ result' \in {"none", "ok", "failed"}
      /\ main' = "refresh" => ~refreshed /\ refreshed' /\ after' = "sequential"
      /\ main' # "refresh" => refreshed' = refreshed /\ after' = after
  <2>1. refreshed \in BOOLEAN /\ result \in {"none", "ok", "failed"}
    BY DEF Inv, Typed
  <2>2. QED
    BY <1>1, <1>3, <2>1
<1>10. Typed'
  <2>1. after' \in {"headers", "stream", "sequential"} /\ main' \in {"sequential", "refresh", "done"}
    BY <1>9 DEF Inv, Typed
  <2>2. QED
    BY <1>2, <1>9, <2>1 DEF Inv, Typed, request, ref, reply, window, workers
<1>11. UNCHANGED <<method, header, size, status, lo, hi, pass, from, wblk, chan, wres, wpc>>
  BY <1>2 DEF request, ref, reply, window, workers
<1>12. Pooled'
  <2>1. Refreshing' \/ ~refreshed' => pass = 1
    BY <1>9 DEF Inv, Pooled, Refreshing
  <2>2. QED
    BY <1>11, <2>1 DEF Inv, Pooled, Untouched, Pool, Offset
<1>13. Windowed'
  BY <1>9 DEF Windowed
<1>14. \E x \in Nat : out' = Run(lo, x) /\ (x > 0 => lo + x - 1 <= hi /\ lo + x - 1 < FileSize)
  <2>1. out' = Run(lo, k) \/ out' = Run(lo, n)
    BY <1>3, <1>4, <1>7 DEF Wrote
  <2>2. QED
    BY <1>4, <1>7, <2>1 DEF Wrote
<1>15. HasBody' /\ Want' = Want
  BY <1>1, <1>11 DEF HasBody, Want
<1>16. Staged'
  <2>1. \E x \in Nat : Wrote(x)'
    BY <1>11, <1>14 DEF Wrote
  <2>2. /\ In("sequential")' => lo' = 0 /\ hi' = MaxStream
        /\ main' \notin {"lookup", "headers", "stream"}
        /\ Refreshing' => after' = "sequential"
    BY <1>1, <1>9, <1>11 DEF Refreshing
  <2>3. QED
    BY <1>9, <1>15, <2>1, <2>2 DEF Inv, Staged, In
<1>17. Answered'
  <2>1. ASSUME result' = "ok" PROVE main' = "done" /\ out' = Want'
    <3>1. main' = "done" /\ out' = out \o piece /\ Short(len)
      BY <1>1, <1>3, <1>8, <2>1
    <3>2. Run(lo, k) = Want
      BY <1>1, <1>7, <3>1, WrittenAll DEF Inv
    <3>3. QED
      BY <1>7, <1>15, <3>1, <3>2
  <2>2. QED
    BY <1>11, <2>1 DEF Inv, Answered, HonestHeaders, Asked
<1>18. QED
  BY <1>10, <1>12, <1>13, <1>16, <1>17 DEF Inv

LEMMA OthersKeep ==
    ASSUME Inv, Disconnect \/ Expire \/ \E w \in Workers : Worker(w)
    PROVE  Inv'
<1>1. Staged' /\ Typed' /\ Pooled'
  BY OthersStaged DEF Inv
<1>2. CASE Disconnect \/ Expire
  <2>1. UNCHANGED <<main, lo, hi, out, pass, from, i, wpc, wblk, chan>>
    BY <1>2 DEF Disconnect, Expire, reply, window, workers
  <2>2. Windowed'
    BY <2>1 DEF Inv, Windowed, Awaits, Active, Pool, Offset, Cursor
  <2>3. UNCHANGED <<main, result, out, method, header, size, status, lo, hi>>
    BY <1>2 DEF Disconnect, Expire, reply, request, ref
  <2>4. Answered'
    BY <2>3 DEF Inv, Answered, HonestHeaders, Asked, Want, HasBody
  <2>5. QED
    BY <1>1, <2>2, <2>4 DEF Inv
<1>3. ASSUME NEW w \in Workers, Worker(w) PROVE Inv'
  <2>1. Windowed'
    BY <1>3, WorkerWindowed DEF Inv
  <2>2. UNCHANGED <<main, result, out, method, header, size, status, lo, hi>>
    BY <1>3 DEF Worker, BuildRequest, FetchBlock, SendBlock, SendCancelled, reply, request, ref
  <2>3. Answered'
    BY <2>2 DEF Inv, Answered, HonestHeaders, Asked, Want, HasBody
  <2>4. QED
    BY <1>1, <2>1, <2>3 DEF Inv
<1>4. QED
  BY <1>2, <1>3

-----------------------------------------------------------------------------
(* The invariants *)

LEMMA InitInv ==
    ASSUME Init
    PROVE  Inv
<1> USE StreamAssumption
<1>1. Typed
  <2>1. Nothing \in Results
    BY DEF Nothing, Error, Results
  <2>2. \A w \in Workers : w[2] \in Nat
    BY WorkersAre
  <2>3. /\ wpc \in [Workers -> {"off", "build", "call", "send", "done"}]
        /\ wreq \in [Workers -> 0..locator] /\ wtry \in [Workers -> 0..(Attempts - 1)]
        /\ wres \in [Workers -> Results] /\ chan \in [Workers -> Results]
        /\ wblk \in [Workers -> Nat]
    BY <2>1, <2>2 DEF Init
  <2>4. locator \in Nat /\ expired \in 0..locator /\ locator <= expired + 1
    BY DEF Init
  <2>5. /\ method \in {"GET", "HEAD"} /\ header \in Headers /\ size \in Recorded \cup {FileSize}
        /\ lo \in Nat /\ hi \in Nat \cup {-1} /\ i \in Nat
        /\ from \in [Passes -> Nat] /\ cancelled \subseteq Passes
    BY DEF Init
  <2>6. QED
    BY <2>3, <2>4, <2>5 DEF Init, Typed, Passes
<1>2. Staged
  <2>1. Wrote(0)
    BY RunLength DEF Init, Wrote
  <2>2. ~HasBody /\ ~In("stream") /\ ~In("sequential")
    BY DEF Init, HasBody, In, Refreshing
  <2>3. QED
    BY <2>1, <2>2 DEF Init, Staged, Refreshing
<1>3. Pooled
  <2>1. \A w \in Workers : Untouched(w) /\ wpc[w] = "off"
    BY DEF Init, Untouched
  <2>2. QED
    BY <2>1 DEF Init, Pooled
<1>4. Windowed
  BY DEF Init, Windowed
<1>5. Answered
  BY DEF Init, Answered, HonestHeaders
<1>6. QED
  BY <1>1, <1>2, <1>3, <1>4, <1>5 DEF Inv

LEMMA NextInv ==
    ASSUME Inv, [Next]_vars
    PROVE  Inv'
<1>1. CASE Handler
  BY <1>1, LookupKeeps, SendHeadersKeeps, TakeBlockKeeps, StopOnDisconnectKeeps, ReadNextKeeps,
     AskTelegramKeeps, AssignLocatorKeeps, PersistLocatorKeeps DEF Handler
<1>2. CASE Disconnect \/ Expire \/ \E w \in Workers : Worker(w)
  BY <1>2, OthersKeep
<1>3. CASE UNCHANGED vars
  <2>1. Typed'
    BY <1>3 DEF Inv, Typed, vars
  <2>2. Staged' /\ Pooled'
    BY <1>3 DEF Inv, Staged, Pooled, vars, Refreshing, In, HasBody, Cursor, Wrote, Untouched,
       Pool, Offset
  <2>3. Windowed'
    BY <1>3 DEF Inv, Windowed, vars, Awaits, Active, Pool, Offset, Cursor
  <2>4. Answered'
    BY <1>3 DEF Inv, Answered, vars, HonestHeaders, Asked, Want, HasBody
  <2>5. QED
    BY <2>1, <2>2, <2>3, <2>4 DEF Inv
<1>4. QED
  BY <1>1, <1>2, <1>3 DEF Next

THEOREM StreamInvariant == Spec => []Inv
<1>1. Init => Inv
  BY InitInv
<1>2. Inv /\ [Next]_vars => Inv'
  BY NextInv
<1>3. QED
  BY <1>1, <1>2, PTL DEF Spec

LEMMA InvTypes ==
    ASSUME Inv
    PROVE  TypeOK
<1>1. PICK n \in Nat : Wrote(n)
  BY DEF Inv, Staged
<1>2. out \in Seq(0..(FileSize - 1))
  <2>1. lo \in Nat /\ out = Run(lo, n) /\ (n > 0 => lo + n - 1 < FileSize)
    BY <1>1 DEF Inv, Typed, Wrote
  <2>2. QED
    BY <2>1, RunOfBytes
<1>3. QED
  BY <1>2 DEF Inv, Typed, TypeOK

\* Whatever the file, the recorded size, the header and the pool: no block is
\* longer than asked for, no worker asks with a locator nobody issued, and only
\* bytes of the file are sent.
THEOREM TypesHold == Spec => []TypeOK
<1>1. Inv => TypeOK
  BY InvTypes
<1>2. QED
  BY <1>1, StreamInvariant, PTL

\* The status and the range in the headers are what the client asked for of the
\* recorded size, for every header and across a refresh that learns the size.
THEOREM HeadersHold == Spec => []HonestHeaders
<1>1. Inv => HonestHeaders
  BY DEF Inv, Answered
<1>2. QED
  BY <1>1, StreamInvariant, PTL

\* streamRange reports success only when every byte of the range that the file has
\* is written, once and in order, whatever the workers' interleaving.
THEOREM CompleteHolds == Spec => []CompleteOnSuccess
<1>1. Inv => CompleteOnSuccess
  BY DEF Inv, Answered, CompleteOnSuccess
<1>2. QED
  BY <1>1, StreamInvariant, PTL

LEMMA InvBoundsReadAhead ==
    ASSUME Inv
    PROVE  ReadAheadBounded
<1> SUFFICES ASSUME NEW w \in Workers, w[1] = pass, Active(w), main = "stream"
             PROVE  wblk[w] < i + 2 * Pool(pass)
  BY DEF ReadAheadBounded, Active
<1>1. w[2] < Pool(pass)
  BY DEF Inv, Pooled, Active
<1>2. from[pass] <= hi /\ \E n \in Nat : Awaits(w, n)
  BY <1>1 DEF Inv, Windowed
<1>3. Pool(pass) \in Nat /\ i \in Nat
  BY <1>2, PoolOfPass, StreamAssumption DEF Inv, Typed
<1>4. PICK n \in Nat : Awaits(w, n)
  BY <1>2
<1>5. n < i + Pool(pass) /\ wblk[w] \in {n, n + Pool(pass)}
  BY <1>4 DEF Awaits
<1>6. QED
  BY <1>3, <1>5

\* The memory a stream holds is bounded: no worker is further ahead of the writer
\* than one block in its channel and one in its hands.
THEOREM ReadAheadHolds == Spec => []ReadAheadBounded
<1>1. Inv => ReadAheadBounded
  BY InvBoundsReadAhead
<1>2. QED
  BY <1>1, StreamInvariant, PTL

-----------------------------------------------------------------------------
(* The handler and its pool implement ByteStream *)

Phase == CASE main = "done" -> "closed"
           [] main # "done" /\ HasBody -> "open"
           [] OTHER -> "asked"

\* What a range leaves of the file is a run of its bytes, or nothing.
LEMMA RangeIsInterval ==
    ASSUME NEW a \in Nat, NEW b \in Int
    PROVE  [k \in 1..(Least(b, FileSize - 1) + 1 - a) |-> a + k - 1]
              \in {<<>>} \cup {Stream!Interval(x, y) : x, y \in 0..(FileSize - 1)}
<1>1. FileSize \in Nat \ {0}
  BY StreamAssumption
<1> DEFINE e == Least(b, FileSize - 1)
<1>2. e \in Int /\ e <= FileSize - 1
  BY <1>1 DEF Least
<1> HIDE DEF e
<1>3. CASE a <= e
  <2>1. a \in 0..(FileSize - 1) /\ e \in 0..(FileSize - 1)
    BY <1>1, <1>2, <1>3
  <2>2. [k \in 1..(e + 1 - a) |-> a + k - 1] = Stream!Interval(a, e)
    BY DEF Stream!Interval
  <2>3. QED
    BY <2>1, <2>2 DEF e
<1>4. CASE ~(a <= e)
  <2>1. 1..(e + 1 - a) = {}
    BY <1>1, <1>2, <1>4
  <2>2. [k \in 1..(e + 1 - a) |-> a + k - 1] = <<>>
    BY <2>1
  <2>3. QED
    BY <2>2 DEF e
<1>5. QED
  BY <1>3, <1>4

\* A step of the handler that neither settles nor writes a byte is none of
\* ByteStream, or ends the answer.
LEMMA QuietStep ==
    ASSUME Want' = Want, out' = out, HasBody' <=> HasBody, main # "done"
    PROVE  Stream!Close \/ UNCHANGED Stream!vars
<1>1. CASE main' = "done"
  <2>1. Phase # "closed" /\ Phase' = "closed"
    BY <1>1 DEF Phase
  <2>2. QED
    BY <2>1 DEF Stream!Close, Phase
<1>2. CASE main' # "done"
  <2>1. Phase' = Phase
    BY <1>2 DEF Phase
  <2>2. QED
    BY <2>1 DEF Stream!vars, Phase
<1>3. QED
  BY <1>1, <1>2

\* A step that extends the body within what was settled is a Deliver.
LEMMA WriteStep ==
    ASSUME Typed, HasBody, HasBody', Want' = Want, main # "done",
           NEW n \in Nat, out = Run(lo, n), NEW k \in Nat, n < k, out' = Run(lo, k),
           lo + k - 1 <= hi, lo + k - 1 < FileSize
    PROVE  Stream!Deliver
<1>1. lo \in Nat /\ hi \in Int /\ FileSize \in Nat
  BY StreamAssumption DEF Typed
<1>2. Want = Run(lo, Want0) /\ Want0 \in Nat /\ k <= Want0
  <2>1. Want = Run(lo, Want0)
    BY DEF Want, Want0, Run
  <2>2. Want0 \in Int /\ k <= Want0
    BY <1>1 DEF Want0, Least
  <2>3. QED
    BY <2>1, <2>2
<1> HIDE DEF Want0
<1>3. Len(out) = n /\ Len(Want) = Want0
  BY <1>1, <1>2, RunLength
<1>4. k \in (Len(out) + 1)..Len(Want)
  BY <1>2, <1>3
<1>5. out' = SubSeq(Want, 1, k)
  BY <1>1, <1>2, RunPrefix
<1>6. Phase = "open" /\ Phase' \in {"open", "closed"}
  BY DEF Phase
<1>7. QED
  BY <1>4, <1>5, <1>6 DEF Stream!Deliver, Phase

\* What a reader takes never shortens the body.
LEMMA ReaderExtends ==
    ASSUME Inv, TakeBlock \/ ReadNext
    PROVE  Len(out') >= Len(out)
<1>1. PICK n \in Nat : Wrote(n)
  BY DEF Inv, Staged
<1>2. /\ out \in Seq(Nat) /\ Len(out) \in Nat /\ Cursor \in Nat /\ hi \in Int
  <2>1. lo \in Nat /\ out = Run(lo, n) /\ hi \in Int
    BY <1>1 DEF Inv, Typed, Wrote
  <2>2. out \in Seq(Nat) /\ Len(out) = n
    BY <2>1, RunLength
  <2>3. Cursor \in Nat
    BY <2>1, <2>2 DEF Cursor
  <2>4. QED
    BY <2>1, <2>2, <2>3
<1>3. ASSUME NEW a \in Nat, NEW len \in Nat PROVE Trimmed(a, len, Cursor) \in Seq(Nat)
  <2> DEFINE l == Least(a + len - Cursor, hi + 1 - Cursor)
  <2>1. l \in Int /\ Trimmed(a, len, Cursor) = [k \in 1..l |-> Cursor + k - 1]
    BY <1>2 DEF Trimmed, Least
  <2> HIDE DEF l
  <2>2. CASE l > 0
    <3>1. l \in Nat /\ Trimmed(a, len, Cursor) \in [1..l -> Nat]
      BY <1>2, <2>1, <2>2
    <3>2. QED
      BY <3>1
  <2>3. CASE ~(l > 0)
    <3>1. 1..l = {}
      BY <2>1, <2>3
    <3>2. Trimmed(a, len, Cursor) = [k \in {} |-> Cursor + k - 1]
      BY <2>1, <3>1
    <3>3. QED
      BY <3>2
  <2>4. QED
    BY <2>2, <2>3
<1>4. ASSUME NEW t \in Seq(Nat), out' = out \o t PROVE Len(out') >= Len(out)
  <2>1. Len(out') = Len(out) + Len(t) /\ Len(t) \in Nat
    BY <1>2, <1>4, ConcatProperties
  <2>2. QED
    BY <1>2, <2>1
<1>5. CASE TakeBlock
  <2> DEFINE r == chan[Owner]
             p == IF r.err = "none" THEN Trimmed(Offset(pass, i), r.len, Cursor) ELSE <<>>
  <2>1. out' = out \o p \/ out' = out
    BY <1>5 DEF TakeBlock
  <2>2. Offset(pass, i) \in Nat /\ r.len \in Nat
    BY <1>5, OwnersBlock DEF Results
  <2>3. p \in Seq(Nat)
    <3>1. Trimmed(Offset(pass, i), r.len, Cursor) \in Seq(Nat)
      <4> HIDE DEF r
      <4>1. QED
        BY <1>3, <2>2, Zenon
    <3>2. <<>> \in Seq(Nat)
      OBVIOUS
    <3>3. QED
      BY <3>1, <3>2
  <2> HIDE DEF p
  <2>4. QED
    BY <1>2, <1>4, <2>1, <2>3
<1>6. CASE ReadNext
  <2> DEFINE o == Aligned(Cursor)
             p == Trimmed(o, BlockLen(o), Cursor)
  <2>1. out' = out \o p \/ out' = out
    BY <1>6 DEF ReadNext
  <2>2. o \in Nat
    BY <1>2, AlignedPosition
  <2>3. p \in Seq(Nat)
    <3> HIDE DEF o
    <3>1. BlockLen(o) \in Nat
      BY <2>2, BlockFits
    <3>2. QED
      BY <1>3, <2>2, <3>1
  <2> HIDE DEF p
  <2>4. QED
    BY <1>2, <1>4, <2>1, <2>3
<1>7. QED
  BY <1>5, <1>6

LEMMA ReaderImplements ==
    ASSUME Inv, Inv', TakeBlock \/ ReadNext
    PROVE  [Stream!Next]_(Stream!vars)
<1>1. main # "done" /\ HasBody /\ UNCHANGED <<method, status, lo, hi>>
  BY DEF TakeBlock, ReadNext, Inv, Staged, In, request, reply
<1>2. HasBody' /\ Want' = Want
  BY <1>1 DEF HasBody, Want
<1>3. PICK n \in Nat : Wrote(n)
  BY DEF Inv, Staged
<1>4. PICK k \in Nat : Wrote(k)'
  BY DEF Inv, Staged
<1>5. lo \in Nat /\ out = Run(lo, n) /\ out' = Run(lo, k)
      /\ (k > 0 => lo + k - 1 <= hi /\ lo + k - 1 < FileSize)
  BY <1>1, <1>3, <1>4 DEF Inv, Typed, Wrote
<1>6. n <= k
  <2>1. Len(out) = n /\ Len(out') = k
    BY <1>5, RunLength
  <2>2. QED
    BY <2>1, ReaderExtends
<1>7. CASE n = k
  <2>1. out' = out
    BY <1>5, <1>7
  <2>2. QED
    BY <1>1, <1>2, <2>1, QuietStep DEF Stream!Next
<1>8. CASE n < k
  <2>1. Stream!Deliver
    BY <1>1, <1>2, <1>5, <1>8, WriteStep DEF Inv
  <2>2. QED
    BY <2>1 DEF Stream!Next
<1>9. QED
  BY <1>6, <1>7, <1>8

\* The headers settle a run of the file's bytes, or end the answer.
LEMMA HeadersImplement ==
    ASSUME Inv, Inv', SendHeaders
    PROVE  [Stream!Next]_(Stream!vars)
<1>1. main = "headers" /\ ~HasBody /\ out' = out /\ method' = method /\ Want = <<>>
  BY DEF SendHeaders, Inv, Staged, HasBody, request, Want
<1>2. CASE HasBody'
  <2>1. main' # "done" /\ Phase = "asked" /\ Phase' = "open"
    <3>1. main' # "done"
      BY <1>1, <1>2 DEF SendHeaders, Goto, HasBody, Inv, Typed
    <3>2. QED
      BY <1>1, <1>2, <3>1 DEF Phase
  <2>2. Want' \in {<<>>} \cup {Stream!Interval(a, b) : a, b \in 0..(FileSize - 1)}
    <3>1. lo' \in Nat /\ hi' \in Int
      BY DEF Inv, Typed
    <3>2. Want' = [k \in 1..(Least(hi', FileSize - 1) + 1 - lo') |-> lo' + k - 1]
      BY <1>2 DEF Want
    <3>3. QED
      BY <3>1, <3>2, RangeIsInterval
  <2>3. Stream!Open
    BY <1>1, <2>1, <2>2 DEF Stream!Open, Phase
  <2>4. QED
    BY <2>3 DEF Stream!Next
<1>3. CASE ~HasBody'
  <2>1. Want' = <<>> /\ main # "done"
    BY <1>1, <1>3 DEF Want
  <2>2. QED
    BY <1>1, <1>3, <2>1, QuietStep DEF Stream!Next
<1>4. QED
  BY <1>2, <1>3

LEMMA StepImplements ==
    ASSUME Inv, Inv', [Next]_vars
    PROVE  [Stream!Next]_(Stream!vars)
<1>1. CASE TakeBlock \/ ReadNext
  BY <1>1, ReaderImplements
<1>2. CASE SendHeaders
  BY <1>2, HeadersImplement
<1>3. CASE Lookup \/ StopOnDisconnect \/ AskTelegram \/ AssignLocator \/ PersistLocator
  <2>1. main # "done" /\ UNCHANGED <<method, lo, hi, out>>
    BY <1>3 DEF Lookup, StopOnDisconnect, AskTelegram, AssignLocator, PersistLocator, request, reply
  <2>2. HasBody' <=> HasBody
    <3>1. status' = status \/ (status \notin {200, 206} /\ status' \notin {200, 206})
      BY <1>3 DEF Lookup, StopOnDisconnect, AskTelegram, AssignLocator, PersistLocator, reply, Inv, Staged
    <3>2. QED
      BY <2>1, <3>1 DEF HasBody
  <2>3. Want' = Want
    BY <2>1, <2>2 DEF Want
  <2>4. QED
    BY <2>1, <2>2, <2>3, QuietStep DEF Stream!Next
<1>4. CASE Disconnect \/ Expire \/ (\E w \in Workers : Worker(w)) \/ UNCHANGED vars
  <2>1. UNCHANGED <<main, method, status, lo, hi, out>>
    BY <1>4 DEF Disconnect, Expire, Worker, BuildRequest, FetchBlock, SendBlock, SendCancelled,
       request, reply, vars
  <2>2. HasBody' = HasBody /\ Want' = Want
    BY <2>1 DEF HasBody, Want
  <2>3. Phase' = Phase
    BY <2>1, <2>2 DEF Phase
  <2>4. QED
    BY <2>1, <2>2, <2>3 DEF Stream!vars, Phase
<1>5. QED
  BY <1>1, <1>2, <1>3, <1>4 DEF Next, Handler

\* Whatever the interleaving of the workers, however often the locator expires and
\* whenever the client goes: every step of the handler and its pool is a step of
\* ByteStream or none.  What is settled with the headers is a run of the file's
\* bytes, and the body is at every moment a prefix of it.
THEOREM ImplementsByteStream == Spec => Stream!Init /\ [][Stream!Next]_(Stream!vars)
<1>1. Init => Stream!Init
  <2> SUFFICES ASSUME Init PROVE Stream!Init
    OBVIOUS
  <2>1. ~HasBody /\ out = <<>> /\ main # "done"
    BY DEF Init, HasBody
  <2>2. Want = <<>> /\ Phase = "asked"
    BY <2>1 DEF Want, Phase
  <2>3. QED
    BY <2>1, <2>2 DEF Stream!Init, Phase
<1>2. Inv /\ Inv' /\ [Next]_vars => [Stream!Next]_(Stream!vars)
  BY StepImplements
<1>3. QED
  BY <1>1, <1>2, StreamInvariant, PTL DEF Spec

=============================================================================
