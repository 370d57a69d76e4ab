----------------------------- MODULE MediaPaging -----------------------------
(* One user scrolling a merged list of videos and photos: DB.ListMedia with *)
(* its two keyset queries (internal/db/media.go, videos.go, photos.go), the *)
(* handlers that return a page and its two cursors, and rows that come and  *)
(* go between two queries.                                                  *)
EXTENDS Naturals, Sequences, FiniteSets

CONSTANTS
    Items,     \* <<kind, id>>; ids of the two kinds are drawn independently
    Values,    \* dates, names or times added, as numbers
    Null,      \* no date, no name
    Orders,    \* orders asked for: subset of [by : {"column", "added"}, asc : BOOLEAN]
    Kinds,     \* kind filters asked for: subset of {"", "video", "photo"}
    Limits,    \* page sizes asked for
    MaxEdits   \* how many rows come or go while the list is read

KindOf(x) == x[1]
IdOf(x)   == x[2]

ASSUME PagingAssumption ==
    /\ IsFiniteSet(Items) /\ Items \subseteq {"video", "photo"} \X (Nat \ {0})
    /\ Values \subseteq Nat /\ Null \notin Values
    /\ Orders \subseteq [by : {"column", "added"}, asc : BOOLEAN]
    /\ Kinds \subseteq {"", "video", "photo"}
    /\ Limits \subseteq Nat \ {0} /\ MaxEdits \in Nat

VARIABLES
    row,      \* "none" yet, "row", "member" of the favorites or collection, "gone"
    key,      \* the column the list is sorted by
    order, scope, kind, limit,   \* of the listing; scope is "all" or "members"
    cursor,   \* MediaCursor: the last id of each kind; 0 before the first
    pc,       \* "videos", "photos", "merge", or "done"
    batch,    \* rows read for this page
    full,     \* a query has returned as many rows as asked for
    seen,     \* what the client has been shown, in order
    edits,
    steady,   \* rows in the list ever since it was opened (history)
    lost      \* a row a cursor names is gone (history)

vars == <<row, key, order, scope, kind, limit, cursor, pc, batch, full, seen,
          edits, steady, lost>>
listing == <<order, scope, kind, limit>>
tables  == <<row, key, edits, steady, lost>>

-----------------------------------------------------------------------------
(* Orders *)

\* compareNullableTime, compareNullableString: NULLs last in both directions.
KeyBefore(a, b) ==
    \/ a # Null /\ b = Null
    \/ a # Null /\ b # Null /\ (IF order.asc THEN a < b ELSE b < a)

IdBefore(m, n) == IF order.asc THEN m < n ELSE n < m

\* ORDER BY of one table.
RowBefore(k, x, y) ==
    \/ KeyBefore(k[x], k[y])
    \/ k[x] = k[y] /\ IdBefore(IdOf(x), IdOf(y))

\* sortMedia: equal keys by id, though the ids are of two tables; then by kind.
MergedBefore(k, x, y) ==
    \/ RowBefore(k, x, y)
    \/ k[x] = k[y] /\ IdOf(x) = IdOf(y) /\ KindOf(x) = "photo" /\ KindOf(y) = "video"

\* The first n rows of S: LIMIT of a query, where all are of one kind, and the cut
\* of the merged page.
First(k, S, n) == {x \in S : Cardinality({y \in S : MergedBefore(k, y, x)}) < n}

\* s is S in order.
Sorts(k, s, S) ==
    /\ \A i, j \in DOMAIN s : i < j => MergedBefore(k, s[i], s[j])
    /\ \A x \in S : \E i \in DOMAIN s : s[i] = x

-----------------------------------------------------------------------------
(* Queries *)

InTable(x) == row[x] \in {"row", "member"}
Listed(x)  == IF scope = "members" THEN row[x] = "member" ELSE InTable(x)
List       == {x \in Items : Listed(x) /\ kind \in {"", KindOf(x)}}

\* The boundary row's key, looked up by id: in the table itself, or, for the time
\* added, among the members.  NULL when it is not found.
Boundary(x) ==
    IF IF order.by = "added" THEN row[x] = "member" ELSE InTable(x)
    THEN key[x] ELSE Null

\* keysetCursorOn and favKeyset: the rows after the boundary.
After_PlainId(x, b) == IdBefore(IdOf(b), IdOf(x))
After_Inclusive(x, b) == Boundary(b) # Null /\ ~KeyBefore(key[x], Boundary(b))
After(x, b) ==
    IF Boundary(b) = Null
    THEN order.by = "column" /\ key[x] = Null /\ IdBefore(IdOf(b), IdOf(x))
    ELSE \/ KeyBefore(Boundary(b), key[x])
         \/ key[x] = Boundary(b) /\ IdBefore(IdOf(b), IdOf(x))

\* SearchVideos, SearchPhotos
Page(kd) ==
    LET rest == {x \in Items : KindOf(x) = kd /\ Listed(x)
                     /\ (cursor[kd] # 0 => After(x, <<kd, cursor[kd]>>))}
    IN  First(key, rest, limit)

Query(kd, next) ==
    /\ pc' = next
    /\ IF kind \in {"", kd}
       THEN /\ batch' = batch \cup Page(kd)
            /\ full' = (full \/ Cardinality(Page(kd)) = limit)
       ELSE UNCHANGED <<batch, full>>
    /\ UNCHANGED <<tables, listing, cursor, seen>>

ReadVideos == pc = "videos" /\ Query("video", "photos")
ReadPhotos == pc = "photos" /\ Query("photo", "merge")

LastId(S, kd, old) ==
    LET of == {x \in S : KindOf(x) = kd}
    IN  IF of = {} THEN old
        ELSE IdOf(CHOOSE x \in of : \A y \in of : y = x \/ MergedBefore(key, y, x))

\* The cursors name the last row of each kind that is in the page.
Advanced_LastRead(page) == [kd \in {"video", "photo"} |-> LastId(batch, kd, cursor[kd])]
Advanced(page) == [kd \in {"video", "photo"} |-> LastId(page, kd, cursor[kd])]

HasMore_Always == TRUE
HasMore == full \/ Cardinality(batch) > limit

\* sortMedia, the cut to one page, and the answer; the client asks for the next
\* page as long as there is more.
Merge ==
    /\ pc = "merge"
    /\ LET page == First(key, batch, limit)
       IN  /\ \E s \in [1..Cardinality(page) -> page] : Sorts(key, s, page) /\ seen' = seen \o s
           /\ cursor' = Advanced(page)
    /\ pc' = IF HasMore THEN "videos" ELSE "done"
    \* A row may have gone between the query and now.
    /\ lost' = (lost \/ \E kd \in {"video", "photo"} :
                   /\ cursor'[kd] # cursor[kd]
                   /\ Boundary(<<kd, cursor'[kd]>>) # key[<<kd, cursor'[kd]>>])
    /\ batch' = {} /\ full' = FALSE
    /\ UNCHANGED <<row, key, edits, steady, listing>>

-----------------------------------------------------------------------------
(* Rows come and go: sync and import, clearing, favorites, collections *)

IsCursor(x) == cursor[KindOf(x)] = IdOf(x)

\* A new row has an id above all of its table.
Insert(x) ==
    /\ edits < MaxEdits /\ pc # "done" /\ edits' = edits + 1
    /\ row[x] = "none"
    /\ \A y \in Items : KindOf(y) = KindOf(x) /\ IdOf(y) > IdOf(x) => row[y] = "none"
    /\ row' = [row EXCEPT ![x] = IF scope = "members" THEN "member" ELSE "row"]
    /\ \E v \in Values : key' = [key EXCEPT ![x] = v]
    /\ UNCHANGED <<steady, lost, listing, cursor, pc, batch, full, seen>>

Gone(x, left) ==
    /\ edits < MaxEdits /\ pc # "done" /\ edits' = edits + 1
    /\ row' = [row EXCEPT ![x] = left]
    /\ steady' = steady \ {x}
    /\ UNCHANGED <<key, listing, cursor, pc, batch, full, seen>>

Delete(x) ==
    /\ InTable(x) /\ Gone(x, "gone")
    /\ lost' = (lost \/ (IsCursor(x) /\ key[x] # Null))

\* No longer a favorite, or taken out of the collection.
Unlist(x) ==
    /\ row[x] = "member" /\ Gone(x, "row")
    /\ lost' = (lost \/ (IsCursor(x) /\ order.by = "added"))

-----------------------------------------------------------------------------
\* normalizeFavOrder: only a members' listing is sorted by the time added, and
\* that time is never NULL.
Init ==
    /\ order \in Orders /\ scope \in {"all", "members"} /\ kind \in Kinds /\ limit \in Limits
    /\ order.by = "added" => scope = "members"
    /\ row \in [Items -> {"none", IF scope = "members" THEN "member" ELSE "row"}]
    /\ key \in [Items -> Values \cup IF order.by = "added" THEN {} ELSE {Null}]
    /\ \A x \in Items : row[x] = "none" => key[x] = CHOOSE v \in Values : TRUE
    /\ cursor = [kd \in {"video", "photo"} |-> 0]
    /\ pc = "videos" /\ batch = {} /\ full = FALSE /\ seen = <<>>
    /\ edits = 0 /\ lost = FALSE
    /\ steady = List

Paging == ReadVideos \/ ReadPhotos \/ Merge

Next == Paging \/ \E x \in Items : Insert(x) \/ Delete(x) \/ Unlist(x)

Spec == Init /\ [][Next]_vars

\* The client goes on asking, and a request is answered.
FairSpec == Spec /\ WF_vars(Paging)

-----------------------------------------------------------------------------
(* Properties *)

Shown == {seen[i] : i \in DOMAIN seen}

\* While nothing changes, the pages put together are the merged list, in order,
\* from its first row on: two keysets over two tables amount to one order.
PagesInOrder ==
    edits = 0 =>
        /\ \A i, j \in DOMAIN seen : i < j => MergedBefore(key, seen[i], seen[j])
        /\ Shown \subseteq List
        /\ \A x \in List \ Shown : \A y \in Shown : MergedBefore(key, y, x)
        /\ pc = "done" => List \subseteq Shown

\* No row is shown twice, whatever comes and goes between two queries.
NoneTwice == \A i, j \in DOMAIN seen : seen[i] = seen[j] => i = j

\* Once the list ends, every row that was in it all along has been shown, unless
\* a row that a cursor names went away.
SteadyShown == pc = "done" /\ ~lost => steady \subseteq Shown

\* Scrolling comes to an end.
PagingEnds == <>(pc = "done")

\* The comment of ListMedia without that exception: a page takes up where the last
\* ended, "correct by construction".
SteadyAlwaysShown == pc = "done" => steady \subseteq Shown
=============================================================================
