------------------------- MODULE MediaPagingProofs -------------------------
(* Theorems about MediaPaging, for any rows, any order and page size, and    *)
(* any number of rows that come and go.                                      *)
EXTENDS MediaPaging, FiniteSetTheorems, SequenceTheorems, WellFoundedInduction, TLAPS

-----------------------------------------------------------------------------
(* Least numbers.  What is shown by induction elsewhere is shown here by the *)
(* least counterexample.                                                     *)

Smaller == {p \in Nat \X Nat : p[1] < p[2]}

LEMMA LeastNumber ==
    ASSUME NEW T \in SUBSET Nat, T # {}
    PROVE  \E x \in T : \A y \in T : x <= y
<1>1. IsWellFoundedOn(Smaller, Nat)
  BY NatLessThanWellFounded DEF OpToRel, Smaller
<1>2. PICK x \in T : \A y \in T : <<y, x>> \notin Smaller
  BY <1>1, WFMin
<1>3. \A y \in T : ~(y < x)
  BY <1>2 DEF Smaller
<1>4. QED
  BY <1>3

-----------------------------------------------------------------------------
(* The merged order *)

\* Every variable has its type.
Typed ==
    /\ row \in [Items -> {"none", "row", "member", "gone"}]
    /\ key \in [Items -> Values \cup {Null}]
    /\ order \in [by : {"column", "added"}, asc : BOOLEAN]
    /\ order.by = "added" => scope = "members" /\ \A x \in Items : key[x] # Null
    /\ limit \in Nat \ {0}
    /\ cursor \in [{"video", "photo"} -> Nat]
    /\ pc \in {"videos", "photos", "merge", "done"}
    /\ batch \subseteq Items /\ full \in BOOLEAN
    /\ seen \in Seq(Items)
    /\ edits \in Nat /\ steady \subseteq Items /\ lost \in BOOLEAN

Before(x, y) == MergedBefore(key, x, y)

Ordering ==
    /\ \A x \in Items : ~Before(x, x)
    /\ \A x, y \in Items : x = y \/ Before(x, y) \/ Before(y, x)
    /\ \A x, y, z \in Items : Before(x, y) /\ Before(y, z) => Before(x, z)

LEMMA ItemTypes ==
    ASSUME NEW x \in Items
    PROVE  /\ KindOf(x) \in {"video", "photo"} /\ IdOf(x) \in Nat \ {0}
           /\ x = <<KindOf(x), IdOf(x)>>
<1>1. x \in {"video", "photo"} \X (Nat \ {0})
  BY PagingAssumption
<1>2. QED
  BY <1>1 DEF KindOf, IdOf

LEMMA OrderingHolds ==
    ASSUME Typed
    PROVE  Ordering
<1>1. \A x \in Items : key[x] = Null \/ key[x] \in Nat
  BY PagingAssumption DEF Typed
<1>2. \A x \in Items : ~Before(x, x)
  BY <1>1, ItemTypes DEF Before, MergedBefore, RowBefore, KeyBefore, IdBefore
<1>3. ASSUME NEW x \in Items, NEW y \in Items
      PROVE  x = y \/ Before(x, y) \/ Before(y, x)
  <2>1. KindOf(x) = KindOf(y) /\ IdOf(x) = IdOf(y) => x = y
    BY ItemTypes
  <2>2. IdOf(x) \in Nat /\ IdOf(y) \in Nat /\ KindOf(x) \in {"video", "photo"}
        /\ KindOf(y) \in {"video", "photo"}
    BY ItemTypes
  <2>3. KeyBefore(key[x], key[y]) \/ KeyBefore(key[y], key[x]) \/ key[x] = key[y]
    BY <1>1 DEF KeyBefore
  <2>4. IdBefore(IdOf(x), IdOf(y)) \/ IdBefore(IdOf(y), IdOf(x)) \/ IdOf(x) = IdOf(y)
    BY <2>2 DEF IdBefore
  <2>5. QED
    BY <2>1, <2>2, <2>3, <2>4 DEF Before, MergedBefore, RowBefore
<1>4. ASSUME NEW x \in Items, NEW y \in Items, NEW z \in Items, Before(x, y), Before(y, z)
      PROVE  Before(x, z)
  <2>1. IdOf(x) \in Nat /\ IdOf(y) \in Nat /\ IdOf(z) \in Nat
    BY ItemTypes
  <2>2. /\ KeyBefore(key[x], key[y]) /\ KeyBefore(key[y], key[z]) => KeyBefore(key[x], key[z])
        /\ ~(IdBefore(IdOf(x), IdOf(y)) /\ IdOf(x) = IdOf(y))
    BY <1>1, <2>1 DEF KeyBefore, IdBefore
  <2>3. IdBefore(IdOf(x), IdOf(y)) /\ IdBefore(IdOf(y), IdOf(z)) => IdBefore(IdOf(x), IdOf(z))
    BY <2>1 DEF IdBefore
  <2>4. QED
    BY <1>4, <2>2, <2>3 DEF Before, MergedBefore, RowBefore
<1>5. QED
  BY <1>2, <1>3, <1>4 DEF Ordering

-----------------------------------------------------------------------------
(* The first rows of a set *)

Ahead(S, x) == {y \in S : Before(y, x)}

LEMMA AheadCounts ==
    ASSUME NEW S \in SUBSET Items, NEW x
    PROVE  /\ IsFiniteSet(S) /\ Cardinality(S) \in Nat
           /\ Ahead(S, x) \subseteq S /\ IsFiniteSet(Ahead(S, x))
           /\ Cardinality(Ahead(S, x)) \in Nat /\ Cardinality(Ahead(S, x)) <= Cardinality(S)
<1>1. IsFiniteSet(S)
  BY FS_Subset, PagingAssumption
<1>2. Ahead(S, x) \subseteq S
  BY DEF Ahead
<1>3. QED
  BY <1>1, <1>2, FS_Subset, FS_CardinalityType

\* A row that comes later has more rows ahead.
LEMMA LaterCounts ==
    ASSUME Ordering, NEW S \in SUBSET Items, NEW x \in S, NEW y \in S, Before(x, y)
    PROVE  Cardinality(Ahead(S, x)) < Cardinality(Ahead(S, y))
<1>1. Ahead(S, x) \subseteq Ahead(S, y) /\ x \in Ahead(S, y) /\ x \notin Ahead(S, x)
  BY DEF Ordering, Ahead
<1>2. IsFiniteSet(Ahead(S, y))
  BY AheadCounts
<1>3. QED
  BY <1>1, <1>2, FS_Subset, FS_CardinalityType

LEMMA LastExists ==
    ASSUME Ordering, NEW S \in SUBSET Items, S # {}
    PROVE  \E x \in S : \A y \in S : y = x \/ Before(y, x)
<1> DEFINE Rest(x) == Cardinality(S) - Cardinality(Ahead(S, x))
           Rests   == {Rest(x) : x \in S}
<1>1. Rests \in SUBSET Nat /\ Rests # {}
  BY AheadCounts
<1> HIDE DEF Rests
<1>2. PICK n \in Rests : \A m \in Rests : n <= m
  BY <1>1, LeastNumber
<1> USE DEF Rests
<1>3. PICK x \in S : n = Rest(x)
  BY <1>2
<1>4. ASSUME NEW y \in S, Before(x, y) PROVE FALSE
  <2>1. Rest(x) <= Rest(y)
    BY <1>2, <1>3
  <2>2. Cardinality(Ahead(S, x)) < Cardinality(Ahead(S, y))
    BY <1>4, LaterCounts
  <2>3. /\ Cardinality(S) \in Nat /\ Cardinality(Ahead(S, x)) \in Nat
        /\ Cardinality(Ahead(S, y)) \in Nat
    BY AheadCounts
  <2>4. QED
    BY <2>1, <2>2, <2>3
<1>5. QED
  BY <1>4 DEF Ordering

LEMMA FirstExists ==
    ASSUME Ordering, NEW S \in SUBSET Items, S # {}
    PROVE  \E x \in S : \A y \in S : y = x \/ Before(x, y)
<1> DEFINE Counts == {Cardinality(Ahead(S, x)) : x \in S}
<1>1. Counts \in SUBSET Nat /\ Counts # {}
  BY AheadCounts
<1> HIDE DEF Counts
<1>2. PICK n \in Counts : \A m \in Counts : n <= m
  BY <1>1, LeastNumber
<1> USE DEF Counts
<1>3. PICK x \in S : n = Cardinality(Ahead(S, x))
  BY <1>2
<1>4. ASSUME NEW y \in S, Before(y, x) PROVE FALSE
  <2>1. Cardinality(Ahead(S, x)) <= Cardinality(Ahead(S, y))
    BY <1>2, <1>3
  <2>2. Cardinality(Ahead(S, y)) < Cardinality(Ahead(S, x))
    BY <1>4, LaterCounts
  <2>3. Cardinality(Ahead(S, x)) \in Nat /\ Cardinality(Ahead(S, y)) \in Nat
    BY AheadCounts
  <2>4. QED
    BY <2>1, <2>2, <2>3
<1>5. QED
  BY <1>4 DEF Ordering

\* What is cut off comes after what is kept.
LEMMA CutOff ==
    ASSUME Ordering, NEW S \in SUBSET Items, NEW n \in Nat,
           NEW x \in S \ First(key, S, n), NEW y \in First(key, S, n)
    PROVE  Before(y, x)
<1>1. y \in S /\ Cardinality(Ahead(S, y)) < n /\ ~(Cardinality(Ahead(S, x)) < n)
  BY DEF First, Ahead, Before
<1>2. ~Before(x, y)
  BY <1>1, LaterCounts, AheadCounts
<1>3. QED
  BY <1>1, <1>2 DEF Ordering

\* Nothing is cut off a set that fits.
LEMMA CutNothing ==
    ASSUME Ordering, NEW S \in SUBSET Items, NEW n \in Nat, Cardinality(S) <= n
    PROVE  First(key, S, n) = S
<1>1. ASSUME NEW x \in S PROVE Cardinality(Ahead(S, x)) < n
  <2>1. Ahead(S, x) \subseteq S /\ x \notin Ahead(S, x) /\ IsFiniteSet(S)
    BY AheadCounts DEF Ordering, Ahead
  <2>2. Cardinality(Ahead(S, x)) < Cardinality(S)
    BY <2>1, FS_Subset, FS_CardinalityType
  <2>3. QED
    BY <2>2, AheadCounts
<1>2. QED
  BY <1>1 DEF First, Ahead, Before

\* A set from which something is cut off is cut to n.
LEMMA CutToSize ==
    ASSUME Ordering, NEW S \in SUBSET Items, NEW n \in Nat \ {0}, First(key, S, n) # S
    PROVE  Cardinality(First(key, S, n)) = n
<1> DEFINE F == First(key, S, n)
<1>1. F \subseteq S /\ \A x \in S : x \in F <=> Cardinality(Ahead(S, x)) < n
  BY DEF First, Ahead, Before
<1>2. PICK x \in S \ F : \A y \in S \ F : y = x \/ Before(x, y)
  BY <1>1, FirstExists
<1>3. F = Ahead(S, x)
  <2>1. \A y \in F : Before(y, x)
    BY <1>2, CutOff
  <2>2. ASSUME NEW y \in S, Before(y, x) PROVE y \in F
    BY <1>2, <2>2 DEF Ordering
  <2>3. QED
    BY <1>1, <2>1, <2>2 DEF Ahead
<1>4. Cardinality(F) \in Nat /\ n <= Cardinality(F) /\ IsFiniteSet(F)
  BY <1>1, <1>2, <1>3, AheadCounts
<1>5. F # {}
  BY <1>4, FS_EmptySet
<1>6. PICK z \in F : \A y \in F : y = z \/ Before(y, z)
  BY <1>1, <1>5, LastExists
<1>7. Ahead(S, z) = F \ {z}
  <2>1. ASSUME NEW y \in S, Before(y, z) PROVE y \in F
    BY <1>1, <1>3, <1>6, <2>1 DEF Ahead, Ordering
  <2>2. QED
    BY <1>1, <1>6, <2>1 DEF Ahead, Ordering
<1>8. Cardinality(F \ {z}) = Cardinality(F) - 1
  BY <1>4, <1>6, FS_RemoveElement
<1>9. Cardinality(Ahead(S, z)) < n
  BY <1>1, <1>6
<1>10. QED
  BY <1>4, <1>7, <1>8, <1>9

-----------------------------------------------------------------------------
(* The invariants *)

\* A row is still to come when it is after the last one shown of its kind.
Coming(x) == cursor[KindOf(x)] # 0 => Before(<<KindOf(x), cursor[KindOf(x)]>>, x)

Of(kd) == {x \in batch : KindOf(x) = kd}

\* The page's query of the kind has been made.
HasRead(kd) == pc = "merge" \/ (pc = "photos" /\ kd = "video")

\* The cursor stands at or after all that was shown, and before all that was read.
Once ==
    /\ \A kd \in {"video", "photo"} : cursor[kd] # 0 => <<kd, cursor[kd]>> \in Shown
    /\ \A x \in Shown : row[x] # "none" /\ ~Coming(x)
    /\ \A x \in batch : row[x] # "none" /\ Coming(x)
    /\ pc \in {"videos", "done"} => batch = {} /\ ~full
    /\ pc = "photos" => Of("photo") = {}
    /\ NoneTwice

\* A row that was there all along and is not yet shown was read, or is cut off by a
\* full query, or is still to come.
Steadily ==
    /\ steady \subseteq List
    /\ ~lost => /\ \A kd \in {"video", "photo"} :
                     cursor[kd] # 0 => Boundary(<<kd, cursor[kd]>>) = key[<<kd, cursor[kd]>>]
                /\ \A x \in steady \ Shown : Coming(x)
                /\ \A x \in steady \ (Shown \cup batch) :
                     HasRead(KindOf(x)) => full /\ \A y \in Of(KindOf(x)) : Before(y, x)
    /\ SteadyShown

\* While nothing changes, the whole list is steady, and a full query has as many rows
\* as the page.
Ordered ==
    edits = 0 =>
        /\ ~lost /\ steady = List /\ Shown \subseteq List /\ batch \subseteq List
        /\ \A x \in List \ (Shown \cup batch) :
             HasRead(KindOf(x)) => Cardinality(Of(KindOf(x))) = limit
        /\ \A i, j \in DOMAIN seen : i < j => Before(seen[i], seen[j])
        /\ \A x \in List \ Shown : \A y \in Shown : Before(y, x)

-----------------------------------------------------------------------------
(* A page *)

LEMMA LastIdNames ==
    ASSUME Typed, NEW S \in SUBSET Items, NEW kd \in {"video", "photo"}, NEW old
    PROVE  \/ LastId(S, kd, old) = old /\ \A y \in S : KindOf(y) # kd
           \/ \E z \in S : /\ <<kd, LastId(S, kd, old)>> = z /\ KindOf(z) = kd
                           /\ LastId(S, kd, old) \in Nat \ {0}
                           /\ \A y \in S : KindOf(y) = kd => y = z \/ Before(y, z)
<1> DEFINE of == {x \in S : KindOf(x) = kd}
<1>1. CASE of = {}
  BY <1>1 DEF LastId
<1>2. CASE of # {}
  <2>1. \E x \in of : \A y \in of : y = x \/ MergedBefore(key, y, x)
    <3>1. of \in SUBSET Items
      OBVIOUS
    <3> HIDE DEF of
    <3>2. QED
      BY <1>2, <3>1, LastExists, OrderingHolds DEF Before
  <2> DEFINE z == CHOOSE x \in of : \A y \in of : y = x \/ MergedBefore(key, y, x)
  <2>2. z \in of /\ \A y \in of : y = z \/ MergedBefore(key, y, z)
    BY <2>1
  <2>3. LastId(S, kd, old) = IdOf(z)
    BY <1>2 DEF LastId
  <2> HIDE DEF z
  <2>4. z \in S /\ KindOf(z) = kd /\ z = <<kd, IdOf(z)>> /\ IdOf(z) \in Nat \ {0}
    BY <2>2, ItemTypes
  <2>5. QED
    BY <2>2, <2>3, <2>4 DEF Before
<1>3. QED
  BY <1>1, <1>2

LEMMA PageAppended ==
    ASSUME NEW t \in Seq(Items), NEW P \in SUBSET Items, NEW n \in Nat, NEW s \in [1..n -> P]
    PROVE  /\ t \o s \in Seq(Items)
           /\ DOMAIN (t \o s) = 1..(Len(t) + n)
           /\ Len(t) \in Nat /\ DOMAIN t = 1..Len(t)
           /\ \A i \in 1..Len(t) : (t \o s)[i] = t[i]
           /\ \A i \in (Len(t) + 1)..(Len(t) + n) :
                (t \o s)[i] = s[i - Len(t)] /\ i - Len(t) \in 1..n
<1>1. s \in Seq(Items) /\ Len(s) = n
  <2>1. s \in [1..n -> Items]
    OBVIOUS
  <2>2. s \in Seq(Items)
    BY <2>1
  <2>3. QED
    BY <2>2
<1>2. /\ t \o s \in Seq(Items) /\ Len(t \o s) = Len(t) + n /\ Len(t) \in Nat
  BY <1>1, ConcatProperties, LenProperties
<1>3. \A i \in 1..(Len(t) + n) : (t \o s)[i] = IF i <= Len(t) THEN t[i] ELSE s[i - Len(t)]
  BY <1>1, ConcatProperties
<1>4. QED
  BY <1>2, <1>3, LenProperties

\* What Merge does: the first rows of the batch are shown, in order, and the cursors
\* move to the last of them.
LEMMA MergeShows ==
    ASSUME Typed, Merge
    PROVE  \E P \in SUBSET batch :
             /\ P = First(key, batch, limit)
             /\ Shown' = Shown \cup P /\ seen' \in Seq(Items)
             /\ NoneTwice /\ Shown \cap P = {} => NoneTwice'
             /\ /\ \A i, j \in DOMAIN seen : i < j => Before(seen[i], seen[j])
                /\ \A y \in Shown : \A x \in P : Before(y, x)
                => \A i, j \in DOMAIN seen' : i < j => Before(seen'[i], seen'[j])
             /\ \A kd \in {"video", "photo"} :
                  \/ cursor'[kd] = cursor[kd] /\ \A y \in P : KindOf(y) # kd
                  \/ \E z \in P : /\ <<kd, cursor'[kd]>> = z /\ KindOf(z) = kd
                                  /\ cursor'[kd] \in Nat \ {0}
                                  /\ \A y \in P : KindOf(y) = kd => y = z \/ Before(y, z)
<1> DEFINE P == First(key, batch, limit)
           n == Cardinality(P)
<1>1. P \in SUBSET batch /\ P \in SUBSET Items
  BY DEF First, Typed
<1>2. n \in Nat
  BY <1>1, AheadCounts
<1>3. PICK s \in [1..n -> P] : Sorts(key, s, P) /\ seen' = seen \o s
  BY DEF Merge
<1>4. cursor' = [kd \in {"video", "photo"} |-> LastId(P, kd, cursor[kd])]
  BY DEF Merge, Advanced
<1>5. /\ \A i, j \in 1..n : i < j => Before(s[i], s[j])
      /\ \A x \in P : \E i \in 1..n : s[i] = x
      /\ \A i \in 1..n : s[i] \in P
  BY <1>3 DEF Sorts, Before
<1>6. seen \in Seq(Items)
  BY DEF Typed
<1> HIDE DEF P, n
<1> DEFINE m == Len(seen)
<1>7. /\ seen' \in Seq(Items) /\ DOMAIN seen' = 1..(m + n)
      /\ m \in Nat /\ DOMAIN seen = 1..m
      /\ \A i \in 1..m : seen'[i] = seen[i]
      /\ \A i \in (m + 1)..(m + n) : seen'[i] = s[i - m] /\ i - m \in 1..n
  BY <1>1, <1>2, <1>3, <1>6, PageAppended
<1> HIDE DEF m
<1>8. Shown' = Shown \cup P
  <2>1. \A i \in 1..(m + n) : i \in 1..m \/ i \in (m + 1)..(m + n)
    BY <1>2, <1>7
  <2>2. \A i \in 1..n : m + i \in (m + 1)..(m + n) /\ m + i - m = i
    BY <1>2, <1>7
  <2>3. \A i \in 1..m : i \in 1..(m + n)
    BY <1>2, <1>7
  <2>4. \A i \in 1..n : m + i \in 1..(m + n)
    BY <1>2, <1>7
  <2>5. ASSUME NEW x \in Shown' PROVE x \in Shown \cup P
    BY <1>5, <1>7, <2>1, <2>5 DEF Shown
  <2>6. ASSUME NEW x \in Shown PROVE x \in Shown'
    BY <1>7, <2>3, <2>6 DEF Shown
  <2>7. ASSUME NEW x \in P PROVE x \in Shown'
    <3>1. PICK i \in 1..n : s[i] = x
      BY <1>5
    <3>2. seen'[m + i] = x
      BY <1>7, <2>2, <3>1
    <3>3. QED
      BY <1>7, <2>4, <3>2 DEF Shown
  <2>8. QED
    BY <2>5, <2>6, <2>7
<1>9. ASSUME NEW i \in DOMAIN seen', NEW j \in DOMAIN seen', i < j
      PROVE  \/ i \in 1..m /\ j \in 1..m /\ seen'[i] = seen[i] /\ seen'[j] = seen[j]
             \/ seen'[i] \in Shown /\ seen'[j] \in P
             \/ seen'[i] \in P /\ seen'[j] \in P /\ Before(seen'[i], seen'[j])
  <2>1. i \in Int /\ j \in Int /\ 1 <= i /\ j <= m + n
    BY <1>2, <1>7
  <2>2. CASE j <= m
    <3>1. i \in 1..m /\ j \in 1..m
      BY <1>7, <1>9, <2>1, <2>2
    <3>2. QED
      BY <1>7, <3>1
  <2>3. CASE i <= m /\ ~(j <= m)
    <3>1. i \in 1..m /\ j \in (m + 1)..(m + n)
      BY <1>2, <1>7, <2>1, <2>3
    <3>2. QED
      BY <1>5, <1>7, <3>1 DEF Shown
  <2>4. CASE ~(i <= m)
    <3>1. i \in (m + 1)..(m + n) /\ j \in (m + 1)..(m + n) /\ i - m < j - m
      BY <1>2, <1>7, <1>9, <2>1, <2>4
    <3>2. QED
      BY <1>5, <1>7, <3>1
  <2>5. QED
    BY <2>2, <2>3, <2>4
<1>10. ASSUME NoneTwice, Shown \cap P = {} PROVE NoneTwice'
  <2>1. ASSUME NEW i \in DOMAIN seen', NEW j \in DOMAIN seen', i < j, seen'[i] = seen'[j]
        PROVE  FALSE
    <3>1. \A x \in P : ~Before(x, x)
      BY <1>1, OrderingHolds DEF Ordering
    <3>2. \A k \in 1..m : \A l \in 1..m : k < l => seen[k] # seen[l]
      BY <1>7, <1>10 DEF NoneTwice
    <3>3. QED
      BY <1>9, <1>10, <2>1, <3>1, <3>2
  <2>2. \A i, j \in DOMAIN seen' : i < j \/ j < i \/ i = j
    BY <1>2, <1>7
  <2>3. QED
    BY <2>1, <2>2 DEF NoneTwice
<1>11. ASSUME \A i, j \in DOMAIN seen : i < j => Before(seen[i], seen[j]),
              \A y \in Shown : \A x \in P : Before(y, x)
       PROVE  \A i, j \in DOMAIN seen' : i < j => Before(seen'[i], seen'[j])
  BY <1>7, <1>9, <1>11
<1>12. ASSUME NEW kd \in {"video", "photo"}
       PROVE  \/ cursor'[kd] = cursor[kd] /\ \A y \in P : KindOf(y) # kd
              \/ \E z \in P : /\ <<kd, cursor'[kd]>> = z /\ KindOf(z) = kd
                              /\ cursor'[kd] \in Nat \ {0}
                              /\ \A y \in P : KindOf(y) = kd => y = z \/ Before(y, z)
  BY <1>1, <1>4, LastIdNames
<1>13. QED
  BY <1>1, <1>7, <1>8, <1>10, <1>11, <1>12 DEF P

-----------------------------------------------------------------------------
(* The queries *)

\* The keyset condition says that a row comes after the boundary's, provided the
\* boundary's key is found; and never that it does when it does not.
LEMMA AfterComes ==
    ASSUME Typed, NEW x \in Items, NEW b \in Items, KindOf(x) = KindOf(b)
    PROVE  /\ After(x, b) => Before(b, x)
           /\ Boundary(b) = key[b] /\ Before(b, x) => After(x, b)
<1>1. Boundary(b) \in {key[b], Null}
  BY DEF Boundary
<1>2. IdOf(x) \in Nat /\ IdOf(b) \in Nat
  BY ItemTypes
<1>3. Before(b, x) <=> RowBefore(key, b, x)
  BY <1>2 DEF Before, MergedBefore
<1>4. After(x, b) => Before(b, x)
  BY <1>1, <1>3 DEF After, RowBefore, KeyBefore
<1>5. ASSUME Boundary(b) = key[b], Before(b, x) PROVE After(x, b)
  <2>1. CASE key[b] = Null
    <3>1. key[x] = Null /\ IdBefore(IdOf(b), IdOf(x))
      BY <1>3, <1>5, <2>1 DEF RowBefore, KeyBefore
    <3>2. order.by = "column"
      BY <2>1 DEF Typed
    <3>3. QED
      BY <1>5, <2>1, <3>1, <3>2 DEF After
  <2>2. CASE key[b] # Null
    BY <1>3, <1>5, <2>2 DEF After, RowBefore
  <2>3. QED
    BY <2>1, <2>2
<1>6. QED
  BY <1>4, <1>5

LEMMA ShownItems ==
    ASSUME Typed
    PROVE  Shown \subseteq Items
BY LenProperties DEF Typed, Shown

\* What a query can return.
Rest(kd) == {x \in Items : KindOf(x) = kd /\ Listed(x)
                               /\ (cursor[kd] # 0 => After(x, <<kd, cursor[kd]>>))}

LEMMA RestComes ==
    ASSUME Typed, Once, NEW kd \in {"video", "photo"}
    PROVE  /\ Page(kd) = First(key, Rest(kd), limit) /\ Page(kd) \subseteq Rest(kd)
           /\ Rest(kd) \in SUBSET Items
           /\ \A x \in Rest(kd) : KindOf(x) = kd /\ Listed(x) /\ Coming(x)
<1>1. Page(kd) = First(key, Rest(kd), limit) /\ Page(kd) \subseteq Rest(kd)
  BY DEF Page, Rest, First
<1>2. ASSUME NEW x \in Rest(kd) PROVE x \in Items /\ KindOf(x) = kd /\ Listed(x) /\ Coming(x)
  <2>1. x \in Items /\ KindOf(x) = kd /\ Listed(x)
        /\ (cursor[kd] # 0 => After(x, <<kd, cursor[kd]>>))
    BY <1>2 DEF Rest
  <2>2. ASSUME cursor[kd] # 0 PROVE Before(<<kd, cursor[kd]>>, x)
    <3>1. <<kd, cursor[kd]>> \in Items
      BY <2>2, ShownItems DEF Once
    <3>2. KindOf(<<kd, cursor[kd]>>) = kd
      BY DEF KindOf
    <3>3. QED
      BY <2>1, <2>2, <3>1, <3>2, AfterComes
  <2>3. QED
    BY <2>1, <2>2 DEF Coming
<1>3. QED
  BY <1>1, <1>2

-----------------------------------------------------------------------------
(* Types, and no row twice *)

LEMMA InitInvariants ==
    ASSUME Init
    PROVE  Typed /\ Once /\ Steadily /\ Ordered
<1>1. Shown = {}
  BY DEF Init, Shown
<1>2. order \in [by : {"column", "added"}, asc : BOOLEAN] /\ limit \in Nat \ {0}
  BY PagingAssumption DEF Init
<1>3. order.by = "added" => scope = "members" /\ \A x \in Items : key[x] # Null
  <2>1. ASSUME order.by = "added" PROVE key \in [Items -> Values]
    BY <2>1 DEF Init
  <2>2. order.by = "added" => scope = "members"
    BY DEF Init
  <2>3. QED
    BY <2>1, <2>2, PagingAssumption
<1>4. Typed
  <2>1. key \in [Items -> Values \cup {Null}]
    BY DEF Init
  <2>2. row \in [Items -> {"none", "row", "member", "gone"}]
    BY DEF Init
  <2>3. seen \in Seq(Items)
    <3>1. <<>> \in Seq(Items)
      OBVIOUS
    <3>2. QED
      BY <3>1 DEF Init
  <2>6. batch = {} /\ steady \subseteq Items
    BY DEF Init, List
  <2>4. cursor \in [{"video", "photo"} -> Nat]
    BY DEF Init
  <2>5. QED
    BY <1>2, <1>3, <2>1, <2>2, <2>3, <2>4, <2>6 DEF Init, Typed
<1>5. Once
  BY <1>1 DEF Init, Once, Of, NoneTwice
<1>6. Steadily
  <2>1. steady = List /\ pc = "videos" /\ \A kd \in {"video", "photo"} : cursor[kd] = 0
    BY DEF Init
  <2>2. \A x \in steady : KindOf(x) \in {"video", "photo"}
    BY <2>1, ItemTypes DEF List
  <2>3. \A x \in steady : Coming(x) /\ ~HasRead(KindOf(x))
    BY <2>1, <2>2 DEF Coming, HasRead
  <2>4. QED
    BY <2>1, <2>3 DEF Steadily, SteadyShown
<1>7. Ordered
  BY <1>1 DEF Init, Ordered, HasRead
<1>8. QED
  BY <1>4, <1>5, <1>6, <1>7

Edits == \E x \in Items : Insert(x) \/ Delete(x) \/ Unlist(x)

\* Rows that come were not there, rows that go keep their key, and nothing else moves.
LEMMA EditFrame ==
    ASSUME Typed, Edits
    PROVE  /\ UNCHANGED <<listing, cursor, pc, batch, full, seen>> /\ edits' \in Nat /\ edits' # 0
           /\ pc # "done" /\ steady' \subseteq steady /\ lost' \in BOOLEAN /\ (lost => lost')
           /\ row' \in [Items -> {"none", "row", "member", "gone"}]
           /\ key' \in [Items -> Values \cup {Null}]
           /\ order.by = "added" => \A x \in Items : key[x] # Null => key'[x] # Null
           /\ \A x \in Items : row[x] # "none" => row'[x] # "none" /\ key'[x] = key[x]
<1>1. edits \in Nat
  BY DEF Typed
<1>2. ASSUME NEW x \in Items, Insert(x)
      PROVE  /\ \E v \in Values : key' = [key EXCEPT ![x] = v]
             /\ row[x] = "none" /\ row' = [row EXCEPT ![x] = row'[x]]
             /\ row'[x] \in {"member", "row"}
             /\ edits' = edits + 1 /\ pc # "done"
             /\ UNCHANGED <<listing, cursor, pc, batch, full, seen, steady, lost>>
  BY <1>2 DEF Insert, Typed
<1>3. ASSUME NEW x \in Items, Delete(x) \/ Unlist(x)
      PROVE  /\ key' = key /\ row' = [row EXCEPT ![x] = row'[x]]
             /\ row'[x] \in {"gone", "row"}
             /\ edits' = edits + 1 /\ pc # "done"
             /\ steady' \subseteq steady /\ lost' \in BOOLEAN /\ (lost => lost')
             /\ UNCHANGED <<listing, cursor, pc, batch, full, seen>>
  BY <1>3 DEF Delete, Unlist, Gone, Typed
<1>4. CASE \E x \in Items : Insert(x)
  <2>1. PICK x \in Items : Insert(x)
    BY <1>4
  <2>2. PICK v \in Values : key' = [key EXCEPT ![x] = v]
    BY <1>2, <2>1
  <2>3. v # Null
    BY PagingAssumption
  <2>4. QED
    BY <1>1, <1>2, <2>1, <2>2, <2>3 DEF Typed
<1>5. CASE \E x \in Items : Delete(x) \/ Unlist(x)
  BY <1>1, <1>3, <1>5 DEF Typed
<1>6. QED
  BY <1>4, <1>5 DEF Edits

LEMMA QueryFrame ==
    ASSUME Typed, Once, NEW kd \in {"video", "photo"}, NEW to, Query(kd, to)
    PROVE  /\ UNCHANGED <<tables, listing, cursor, seen>> /\ full' \in BOOLEAN /\ pc' = to
           /\ (full => full') /\ batch' \in SUBSET Items
           /\ \/ kind \in {"", kd} /\ batch' = batch \cup Page(kd)
                 /\ full' = (full \/ Cardinality(Page(kd)) = limit)
              \/ kind \notin {"", kd} /\ batch' = batch
           /\ \A x \in batch' \ batch : x \in Rest(kd)
BY RestComes DEF Query, Typed

LEMMA NextTyped ==
    ASSUME Typed, Once, [Next]_vars
    PROVE  Typed'
<1>1. CASE UNCHANGED vars
  BY <1>1 DEF vars, listing, tables, Typed
<1>2. ASSUME NEW kd \in {"video", "photo"}, NEW to \in {"photos", "merge"}, Query(kd, to)
      PROVE  Typed'
  BY <1>2, QueryFrame DEF Typed, listing, tables
<1>3. CASE Merge
  <2>1. seen' \in Seq(Items)
    BY <1>3, MergeShows
  <2>2. cursor' \in [{"video", "photo"} -> Nat]
    <3>1. \A kd \in {"video", "photo"} : cursor'[kd] \in Nat
      BY <1>3, MergeShows DEF Typed
    <3>2. cursor' = [kd \in {"video", "photo"} |-> cursor'[kd]]
      BY <1>3 DEF Merge, Advanced
    <3>3. QED
      BY <3>1, <3>2
  <2>3. pc' \in {"videos", "done"} /\ lost' \in BOOLEAN
    BY <1>3 DEF Merge, Typed
  <2>4. UNCHANGED <<row, key, edits, steady, listing>> /\ batch' = {} /\ full' = FALSE
    BY <1>3 DEF Merge
  <2>5. QED
    BY <2>1, <2>2, <2>3, <2>4 DEF Typed, listing
<1>4. CASE Edits
  BY <1>4, EditFrame DEF Typed, listing
<1>5. QED
  BY <1>1, <1>2, <1>3, <1>4 DEF Next, Paging, ReadVideos, ReadPhotos, Edits

\* What a query has to do with the invariants: its state before and after.
Queried(kd) ==
    \/ kd = "video" /\ pc = "videos" /\ pc' = "photos"
    \/ kd = "photo" /\ pc = "photos" /\ pc' = "merge"

LEMMA Steps ==
    ASSUME [Next]_vars
    PROVE  \/ UNCHANGED vars
           \/ \E kd \in {"video", "photo"} : Queried(kd) /\ \E to \in {"photos", "merge"} : Query(kd, to)
           \/ Merge
           \/ Edits
<1>1. \A kd, to : Query(kd, to) => pc' = to
  BY DEF Query
<1>2. QED
  BY <1>1 DEF Next, Paging, ReadVideos, ReadPhotos, Edits, Queried

\* A row that there is, is still to come or not whatever comes and goes.
LEMMA EditsComing ==
    ASSUME Typed, Once, Edits, NEW x \in Items, row[x] # "none"
    PROVE  /\ (Coming(x))' <=> Coming(x)
           /\ \A y \in Items : row[y] # "none" => ((Before(y, x))' <=> Before(y, x))
<1>1. order' = order /\ cursor' = cursor /\ \A y \in Items : row[y] # "none" => key'[y] = key[y]
  BY EditFrame DEF listing
<1>2. \A y \in Items : row[y] # "none" => ((Before(y, x))' <=> Before(y, x))
  BY <1>1 DEF Before, MergedBefore, RowBefore, KeyBefore, IdBefore
<1>3. KindOf(x) \in {"video", "photo"}
  BY ItemTypes
<1>4. cursor[KindOf(x)] # 0 =>
        LET c == <<KindOf(x), cursor[KindOf(x)]>> IN c \in Items /\ row[c] # "none"
  BY <1>3, ShownItems DEF Once
<1>5. (Coming(x))' <=> Coming(x)
  BY <1>1, <1>2, <1>4 DEF Coming
<1>6. QED
  BY <1>2, <1>5

\* A page moves the cursors forward, up to the page.
LEMMA MergeComing ==
    ASSUME Typed, Once, Merge, NEW x \in Items
    PROVE  /\ ~Coming(x) => ~(Coming(x))'
           /\ x \in First(key, batch, limit) => ~(Coming(x))'
           /\ /\ Coming(x)
              /\ \A y \in First(key, batch, limit) : KindOf(y) = KindOf(x) => Before(y, x)
              => (Coming(x))'
<1>1. PICK P \in SUBSET batch :
        /\ P = First(key, batch, limit)
        /\ \A kd \in {"video", "photo"} :
             \/ cursor'[kd] = cursor[kd] /\ \A y \in P : KindOf(y) # kd
             \/ \E z \in P : /\ <<kd, cursor'[kd]>> = z /\ KindOf(z) = kd
                             /\ cursor'[kd] \in Nat \ {0}
                             /\ \A y \in P : KindOf(y) = kd => y = z \/ Before(y, z)
  BY MergeShows
<1>2. P \subseteq Items /\ P \subseteq batch
  BY DEF Typed
<1>3. \A a, b : (Before(a, b))' <=> Before(a, b)
  BY DEF Merge, listing, Before, MergedBefore, RowBefore, KeyBefore, IdBefore
<1> DEFINE kd == KindOf(x)
<1>4. kd \in {"video", "photo"}
  BY ItemTypes
<1>5. CASE cursor'[kd] = cursor[kd] /\ \A y \in P : KindOf(y) # kd
  <2>1. (Coming(x))' <=> Coming(x)
    BY <1>3, <1>5 DEF Coming
  <2>2. x \notin P
    BY <1>5
  <2>3. QED
    BY <1>1, <2>1, <2>2
<1>6. CASE \E z \in P : /\ <<kd, cursor'[kd]>> = z /\ KindOf(z) = kd
                        /\ cursor'[kd] \in Nat \ {0}
                        /\ \A y \in P : KindOf(y) = kd => y = z \/ Before(y, z)
  <2>1. PICK z \in P : /\ <<kd, cursor'[kd]>> = z /\ KindOf(z) = kd
                       /\ cursor'[kd] \in Nat \ {0}
                       /\ \A y \in P : KindOf(y) = kd => y = z \/ Before(y, z)
    BY <1>6
  <2>2. (Coming(x))' <=> Before(z, x)
    BY <1>3, <2>1 DEF Coming
  <2>3. z \in Items /\ Coming(z) /\ Ordering
    BY <1>2, OrderingHolds DEF Once
  <2>4. ASSUME ~Coming(x) PROVE ~Before(z, x)
    <3>1. cursor[kd] # 0 /\ ~Before(<<kd, cursor[kd]>>, x)
      BY <2>4 DEF Coming
    <3>2. Before(<<kd, cursor[kd]>>, z) /\ <<kd, cursor[kd]>> \in Items
      BY <1>4, <2>1, <2>3, <3>1, ShownItems DEF Coming, Once
    <3>3. QED
      BY <2>3, <3>1, <3>2 DEF Ordering
  <2>5. ASSUME x \in P PROVE ~Before(z, x)
    BY <2>1, <2>3, <2>5 DEF Ordering
  <2>6. QED
    BY <1>1, <2>1, <2>2, <2>4, <2>5
<1>7. QED
  BY <1>1, <1>4, <1>5, <1>6

LEMMA NextOnce ==
    ASSUME Typed, Once, [Next]_vars
    PROVE  Once'
<1>1. CASE UNCHANGED vars
  BY <1>1 DEF vars, listing, tables, Once, Shown, Coming, Of, NoneTwice, Before, MergedBefore,
     RowBefore, KeyBefore, IdBefore
<1>2. ASSUME NEW kd \in {"video", "photo"}, NEW to \in {"photos", "merge"}, Queried(kd), Query(kd, to)
      PROVE  Once'
  <2>1. /\ row' = row /\ key' = key /\ order' = order /\ cursor' = cursor /\ seen' = seen
        /\ \A x \in batch' \ batch : x \in Rest(kd)
    BY <1>2, QueryFrame DEF tables, listing
  <2>2. Shown' = Shown /\ (NoneTwice' <=> NoneTwice) /\ \A x : (Coming(x))' <=> Coming(x)
    BY <2>1 DEF Shown, NoneTwice, Coming, Before, MergedBefore, RowBefore, KeyBefore, IdBefore
  <2>3. \A x \in batch' \ batch : Coming(x) /\ row[x] # "none" /\ KindOf(x) = kd
    BY <2>1, RestComes DEF Listed, InTable
  <2>4. pc' = "photos" => (Of("photo"))' = {}
    BY <1>2, <2>3 DEF Once, Of, Queried
  <2>5. pc' \notin {"videos", "done"}
    BY <1>2 DEF Queried
  <2>6. QED
    BY <2>1, <2>2, <2>3, <2>4, <2>5 DEF Once
<1>3. CASE Merge
  <2>1. PICK P \in SUBSET batch :
          /\ P = First(key, batch, limit) /\ Shown' = Shown \cup P
          /\ NoneTwice /\ Shown \cap P = {} => NoneTwice'
          /\ \A kd \in {"video", "photo"} :
               \/ cursor'[kd] = cursor[kd]
               \/ <<kd, cursor'[kd]>> \in P
    BY <1>3, MergeShows
  <2>2. Shown \cap P = {}
    BY DEF Once
  <2>3. \A kd \in {"video", "photo"} : cursor'[kd] # 0 => <<kd, cursor'[kd]>> \in Shown'
    BY <2>1 DEF Once
  <2>4. P \subseteq Items /\ Shown \subseteq Items
    BY ShownItems DEF Typed
  <2>5. \A x \in Shown' : ~(Coming(x))'
    BY <1>3, <2>1, <2>4, MergeComing DEF Once
  <2>6. row' = row /\ batch' = {} /\ full' = FALSE /\ pc' # "photos"
    BY <1>3 DEF Merge
  <2>7. \A x \in Shown' : row[x] # "none"
    BY <2>1 DEF Once
  <2>8. NoneTwice'
    BY <2>1, <2>2 DEF Once
  <2>9. QED
    BY <2>3, <2>5, <2>6, <2>7, <2>8 DEF Once
<1>4. CASE Edits
  <2>1. /\ UNCHANGED <<listing, cursor, pc, batch, full, seen>>
        /\ \A x \in Items : row[x] # "none" => row'[x] # "none"
    BY <1>4, EditFrame
  <2>2. Shown' = Shown /\ (NoneTwice' <=> NoneTwice) /\ \A kd : (Of(kd))' = Of(kd)
    BY <2>1 DEF Shown, NoneTwice, Of
  <2>3. Shown \subseteq Items /\ batch \subseteq Items
    BY ShownItems DEF Typed
  <2>4. \A x \in Shown \cup batch : row[x] # "none" /\ row'[x] # "none" /\ ((Coming(x))' <=> Coming(x))
    BY <1>4, <2>1, <2>3, EditsComing DEF Once
  <2>5. QED
    BY <2>1, <2>2, <2>4 DEF Once
<1>5. QED
  BY <1>1, <1>2, <1>3, <1>4, Steps

-----------------------------------------------------------------------------
(* Every steady row is shown *)

\* A query returns the rows still to come, or as many as the page has, all of them
\* before those it leaves.
LEMMA QueryReads ==
    ASSUME Typed, Once, Steadily, ~lost,
           NEW kd \in {"video", "photo"}, NEW to, Queried(kd), Query(kd, to),
           NEW x \in List, KindOf(x) = kd, Coming(x), x \notin batch'
    PROVE  /\ full' /\ (Of(kd))' = Page(kd) /\ Cardinality(Page(kd)) = limit
           /\ \A y \in Page(kd) : Before(y, x)
<1>1. x \in Items /\ Listed(x) /\ kind \in {"", kd}
  BY DEF List
<1>2. x \in Rest(kd)
  <2>1. ASSUME cursor[kd] # 0 PROVE After(x, <<kd, cursor[kd]>>)
    <3>1. <<kd, cursor[kd]>> \in Items /\ KindOf(<<kd, cursor[kd]>>) = kd
      BY <2>1, ShownItems DEF Once, KindOf
    <3>2. Boundary(<<kd, cursor[kd]>>) = key[<<kd, cursor[kd]>>]
      BY <2>1 DEF Steadily
    <3>3. Before(<<kd, cursor[kd]>>, x)
      BY <2>1 DEF Coming
    <3>4. QED
      BY <1>1, <3>1, <3>2, <3>3, AfterComes
  <2>2. QED
    BY <1>1, <2>1 DEF Rest
<1>3. batch' = batch \cup Page(kd) /\ full' = (full \/ Cardinality(Page(kd)) = limit)
  BY <1>1, QueryFrame
<1>4. /\ Page(kd) = First(key, Rest(kd), limit) /\ Rest(kd) \in SUBSET Items
      /\ Page(kd) \subseteq Rest(kd)
      /\ \A y \in Rest(kd) : KindOf(y) = kd
  BY RestComes
<1>5. x \notin Page(kd)
  BY <1>3
<1>6. Ordering /\ limit \in Nat \ {0}
  BY OrderingHolds DEF Typed
<1>7. Cardinality(Page(kd)) = limit
  BY <1>2, <1>4, <1>5, <1>6, CutToSize
<1>8. ASSUME NEW y \in Page(kd) PROVE Before(y, x)
  <2>1. x \in Rest(kd) \ First(key, Rest(kd), limit) /\ y \in First(key, Rest(kd), limit)
    BY <1>2, <1>4, <1>5
  <2>2. limit \in Nat
    BY <1>6
  <2>3. QED
    BY <1>4, <1>6, <2>1, <2>2, CutOff
<1>9. (Of(kd))' = Page(kd)
  <2>1. Of(kd) = {}
    BY DEF Queried, Once, Of
  <2>2. QED
    BY <1>3, <1>4, <2>1 DEF Of
<1>10. QED
  BY <1>3, <1>7, <1>8, <1>9

\* A query leaves the rows of the other kind alone.
LEMMA QueryOthers ==
    ASSUME Typed, Once, NEW kd \in {"video", "photo"}, NEW to, Queried(kd), Query(kd, to),
           NEW k \in {"video", "photo"}, k # kd
    PROVE  (Of(k))' = Of(k) /\ ((HasRead(k))' => HasRead(k))
<1>1. batch \subseteq batch' /\ \A y \in batch' \ batch : KindOf(y) = kd
  BY QueryFrame, RestComes
<1>2. QED
  BY <1>1 DEF Of, HasRead, Queried

\* A row not in the page is after those of its kind that are.
LEMMA PageBefore ==
    ASSUME Typed, Steadily, pc = "merge", ~lost, NEW x \in steady \ Shown,
           x \notin First(key, batch, limit)
    PROVE  \A y \in First(key, batch, limit) : KindOf(y) = KindOf(x) => Before(y, x)
<1>1. CASE x \in batch
  <2>1. Ordering /\ limit \in Nat /\ batch \in SUBSET Items
    BY OrderingHolds DEF Typed
  <2>2. QED
    BY <1>1, <2>1, CutOff
<1>2. CASE x \notin batch
  <2>1. \A y \in Of(KindOf(x)) : Before(y, x)
    BY <1>2 DEF Steadily, HasRead
  <2>2. QED
    BY <2>1 DEF Of, First
<1>3. QED
  BY <1>1, <1>2

LEMMA QuerySteadily ==
    ASSUME Typed, Once, Steadily, NEW kd \in {"video", "photo"}, NEW to, Queried(kd), Query(kd, to)
    PROVE  Steadily'
<1>1. /\ UNCHANGED <<row, key, steady, lost, order, scope, kind, cursor, seen>>
      /\ (full => full')
  BY QueryFrame DEF tables, listing
<1>2. /\ Shown' = Shown /\ List' = List
      /\ \A x : (Boundary(x))' = Boundary(x)
      /\ \A x, y : (Before(x, y))' <=> Before(x, y)
  BY <1>1 DEF Shown, List, Listed, InTable, Boundary, Before, MergedBefore, RowBefore, KeyBefore, IdBefore
<1>3. \A x : (Coming(x))' <=> Coming(x)
  BY <1>1, <1>2 DEF Coming
<1>4. pc' # "done"
  BY DEF Queried
<1>5. ASSUME ~lost, NEW x \in steady \ (Shown \cup batch'), (HasRead(KindOf(x)))'
      PROVE  full' /\ \A y \in (Of(KindOf(x)))' : Before(y, x)
  <2>1. x \in List /\ Coming(x) /\ x \in steady \ (Shown \cup batch)
    BY <1>5, QueryFrame DEF Steadily
  <2>2. KindOf(x) \in {"video", "photo"}
    BY <2>1, ItemTypes DEF List
  <2>3. CASE KindOf(x) = kd
    BY <1>5, <2>1, <2>3, QueryReads
  <2>4. CASE KindOf(x) # kd
    <3>1. (Of(KindOf(x)))' = Of(KindOf(x)) /\ HasRead(KindOf(x))
      BY <1>5, <2>2, <2>4, QueryOthers
    <3>2. QED
      BY <1>1, <1>5, <2>1, <3>1 DEF Steadily
  <2>5. QED
    BY <2>3, <2>4
<1>6. QED
  BY <1>1, <1>2, <1>3, <1>4, <1>5 DEF Steadily, SteadyShown

LEMMA MergeSteadily ==
    ASSUME Typed, Once, Steadily, Merge
    PROVE  Steadily'
<1>1. /\ UNCHANGED <<row, key, steady, order, scope, kind>> /\ pc = "merge"
      /\ pc' \in {"videos", "done"} /\ (pc' = "done" => ~full /\ ~(Cardinality(batch) > limit))
      /\ ~lost' => /\ ~lost
                   /\ \A kd \in {"video", "photo"} :
                        \/ cursor'[kd] = cursor[kd]
                        \/ Boundary(<<kd, cursor'[kd]>>) = key[<<kd, cursor'[kd]>>]
  BY DEF Merge, HasMore, listing
<1>2. List' = List /\ \A x : (Boundary(x))' = Boundary(x)
  BY <1>1 DEF List, Listed, InTable, Boundary
<1>3. PICK P \in SUBSET batch : P = First(key, batch, limit) /\ Shown' = Shown \cup P
  BY MergeShows
<1>4. ASSUME ~lost', NEW kd \in {"video", "photo"}, cursor'[kd] # 0
      PROVE  (Boundary(<<kd, cursor[kd]>>) = key[<<kd, cursor[kd]>>])'
  <2>1. Boundary(<<kd, cursor'[kd]>>) = key[<<kd, cursor'[kd]>>]
    BY <1>1, <1>4 DEF Steadily
  <2>2. QED
    BY <1>1, <2>1 DEF Boundary, InTable
<1>5. ASSUME ~lost', NEW x \in steady \ Shown' PROVE (Coming(x))'
  <2>1. x \in Items /\ Coming(x) /\ x \in steady \ Shown /\ x \notin First(key, batch, limit)
    BY <1>1, <1>3, <1>5 DEF Steadily, Typed
  <2>2. \A y \in First(key, batch, limit) : KindOf(y) = KindOf(x) => Before(y, x)
    BY <1>1, <1>5, <2>1, PageBefore
  <2>3. QED
    BY <2>1, <2>2, MergeComing
<1>6. \A kd : ~(HasRead(kd))'
  BY <1>1 DEF HasRead
<1>7. ASSUME ~lost', pc' = "done", NEW x \in steady PROVE x \in Shown'
  <2>1. Ordering /\ limit \in Nat /\ batch \in SUBSET Items /\ Cardinality(batch) \in Nat
    BY OrderingHolds, AheadCounts DEF Typed
  <2>2. Cardinality(batch) <= limit
    BY <1>1, <1>7, <2>1
  <2>3. P = batch
    BY <1>3, <2>1, <2>2, CutNothing
  <2>4. x \in Shown \cup batch
    BY <1>1, <1>7 DEF Steadily, HasRead
  <2>5. QED
    BY <1>3, <2>3, <2>4
<1>8. QED
  BY <1>1, <1>2, <1>4, <1>5, <1>6, <1>7 DEF Steadily, SteadyShown

LEMMA EditSteadily ==
    ASSUME Typed, Once, Steadily, Edits
    PROVE  Steadily'
<1>1. /\ UNCHANGED <<listing, cursor, pc, batch, full, seen>>
      /\ pc # "done" /\ steady' \subseteq steady /\ (lost => lost')
      /\ \A x \in Items : row[x] # "none" => key'[x] = key[x]
  BY EditFrame
<1>2. UNCHANGED <<order, scope, kind>>
  BY <1>1 DEF listing
<1>3. \A y \in List : y \in Items /\ row[y] # "none"
  BY DEF List, Listed, InTable
<1>4. steady' \subseteq List'
  <2>1. ASSUME NEW x \in Items, Insert(x) PROVE steady' \subseteq List'
    <3>1. steady' = steady /\ row[x] = "none" /\ \A y \in Items \ {x} : row'[y] = row[y]
      BY <2>1 DEF Insert, Typed
    <3>2. \A y \in steady : y \in List /\ y \in Items \ {x}
      BY <1>3, <3>1 DEF Steadily
    <3>3. QED
      BY <1>2, <3>1, <3>2 DEF List, Listed, InTable
  <2>2. ASSUME NEW x \in Items, Delete(x) \/ Unlist(x) PROVE steady' \subseteq List'
    <3>1. steady' = steady \ {x} /\ \A y \in Items \ {x} : row'[y] = row[y]
      BY <2>2 DEF Delete, Unlist, Gone, Typed
    <3>2. \A y \in steady : y \in List /\ y \in Items
      BY <1>3 DEF Steadily
    <3>3. QED
      BY <1>2, <3>1, <3>2 DEF List, Listed, InTable
  <2>3. QED
    BY <2>1, <2>2 DEF Edits
<1>5. ASSUME ~lost', NEW kd \in {"video", "photo"}, cursor'[kd] # 0
      PROVE  (Boundary(<<kd, cursor[kd]>>))' = key'[<<kd, cursor[kd]>>]
  <2>1. PICK c \in Items : /\ c = <<kd, cursor[kd]>> /\ row[c] # "none"
                           /\ KindOf(c) = kd /\ IdOf(c) = cursor[kd]
    BY <1>1, <1>5, ShownItems DEF Once, KindOf, IdOf
  <2>2. Boundary(c) = key[c] /\ key'[c] = key[c] /\ IsCursor(c)
    BY <1>1, <1>5, <2>1 DEF Steadily, IsCursor
  <2>3. ASSUME row'[c] = row[c] PROVE (Boundary(c))' = key'[c]
    BY <1>2, <2>2, <2>3 DEF Boundary, InTable
  <2>4. ASSUME NEW x \in Items, Insert(x) PROVE row'[c] = row[c]
    BY <2>1, <2>4 DEF Insert, Typed
  <2>5. ASSUME NEW x \in Items, Delete(x) PROVE row'[c] = row[c] \/ key[c] = Null
    BY <1>5, <2>1, <2>2, <2>5 DEF Delete, Gone, Typed
  <2>6. ASSUME NEW x \in Items, Unlist(x) PROVE row'[c] = row[c] \/ (row'[c] = "row" /\ order.by # "added")
    BY <1>5, <2>1, <2>2, <2>6 DEF Unlist, Gone, Typed
  <2>7. ASSUME key[c] = Null PROVE (Boundary(c))' = key'[c]
    BY <2>2, <2>7 DEF Boundary
  <2>8. ASSUME row'[c] = "row", order.by # "added" PROVE (Boundary(c))' = key'[c]
    BY <1>2, <2>8 DEF Boundary, InTable
  <2>9. QED
    BY <1>1, <2>1, <2>3, <2>4, <2>5, <2>6, <2>7, <2>8 DEF Edits
<1>6. Shown' = Shown /\ \A kd : (Of(kd))' = Of(kd) /\ ((HasRead(kd))' <=> HasRead(kd))
  BY <1>1 DEF Shown, Of, HasRead
<1>7. ASSUME ~lost', NEW x \in steady' \ Shown
      PROVE  /\ (Coming(x))'
             /\ x \notin batch /\ HasRead(KindOf(x)) =>
                  full /\ \A y \in Of(KindOf(x)) : (Before(y, x))'
  <2>1. x \in steady \ Shown /\ x \in Items /\ row[x] # "none" /\ ~lost
    BY <1>1, <1>3, <1>7 DEF Steadily
  <2>2. (Coming(x))'
    BY <2>1, EditsComing DEF Steadily
  <2>3. \A y \in batch : y \in Items /\ row[y] # "none"
    BY DEF Once, Typed
  <2>4. ASSUME x \notin batch, HasRead(KindOf(x))
        PROVE  full /\ \A y \in Of(KindOf(x)) : (Before(y, x))'
    <3>1. full /\ \A y \in Of(KindOf(x)) : Before(y, x)
      BY <2>1, <2>4 DEF Steadily
    <3>2. QED
      BY <2>1, <2>3, <3>1, EditsComing DEF Of
  <2>5. QED
    BY <2>2, <2>4
<1>8. QED
  BY <1>1, <1>4, <1>5, <1>6, <1>7 DEF Steadily, SteadyShown

LEMMA NextSteadily ==
    ASSUME Typed, Once, Steadily, [Next]_vars
    PROVE  Steadily'
<1>1. CASE UNCHANGED vars
  <2>1. UNCHANGED <<row, key, order, scope, kind, cursor, pc, batch, full, seen, steady, lost>>
    BY <1>1 DEF vars, listing, tables
  <2>2. /\ Shown' = Shown /\ List' = List
        /\ \A x : /\ (Boundary(x))' = Boundary(x) /\ (Of(x))' = Of(x)
                  /\ (HasRead(x))' <=> HasRead(x)
        /\ \A x, y : (Before(x, y))' <=> Before(x, y)
    BY <2>1 DEF List, Listed, InTable, Boundary, HasRead, Of, Shown, Before, MergedBefore, RowBefore,
       KeyBefore, IdBefore
  <2>3. \A x : (Coming(x))' <=> Coming(x)
    BY <2>1, <2>2 DEF Coming
  <2>4. QED
    BY <2>1, <2>2, <2>3 DEF Steadily, SteadyShown
<1>2. QED
  BY <1>1, QuerySteadily, MergeSteadily, EditSteadily, Steps

-----------------------------------------------------------------------------
(* The pages in order *)

LEMMA QueryOrdered ==
    ASSUME Typed, Once, Steadily, Ordered,
           NEW kd \in {"video", "photo"}, NEW to, Queried(kd), Query(kd, to)
    PROVE  Ordered'
<1>1. UNCHANGED <<row, key, steady, lost, edits, order, scope, kind, cursor, seen>>
  BY QueryFrame DEF tables, listing
<1>2. Shown' = Shown /\ List' = List /\ \A x, y : (Before(x, y))' <=> Before(x, y)
  BY <1>1 DEF Shown, List, Listed, InTable, Before, MergedBefore, RowBefore, KeyBefore, IdBefore
<1>3. SUFFICES ASSUME edits = 0 PROVE Ordered'
  BY <1>1 DEF Ordered
<1>4. batch' \subseteq List
  <2>1. \A x \in Rest(kd) : x \in Items /\ Listed(x) /\ KindOf(x) = kd
    BY RestComes
  <2>2. \A x \in batch' \ batch : x \in Rest(kd) /\ kind \in {"", kd}
    BY QueryFrame
  <2>3. QED
    BY <1>3, <2>1, <2>2 DEF Ordered, List
<1>5. ASSUME NEW x \in List \ (Shown \cup batch'), (HasRead(KindOf(x)))'
      PROVE  Cardinality((Of(KindOf(x)))') = limit
  <2>1. x \in List /\ x \in steady \ Shown /\ ~lost /\ x \in List \ (Shown \cup batch)
    BY <1>3, <1>5, QueryFrame DEF Ordered
  <2>2. KindOf(x) \in {"video", "photo"}
    BY <2>1, ItemTypes DEF List
  <2>3. CASE KindOf(x) = kd
    <3>1. Coming(x)
      BY <2>1 DEF Steadily
    <3>2. QED
      BY <1>5, <2>1, <2>3, <3>1, QueryReads
  <2>4. CASE KindOf(x) # kd
    <3>1. (Of(KindOf(x)))' = Of(KindOf(x)) /\ HasRead(KindOf(x))
      BY <1>5, <2>2, <2>4, QueryOthers
    <3>2. QED
      BY <1>3, <2>1, <3>1 DEF Ordered
  <2>5. QED
    BY <2>3, <2>4
<1>6. limit' = limit
  BY QueryFrame DEF listing
<1>7. QED
  BY <1>1, <1>2, <1>3, <1>4, <1>5, <1>6 DEF Ordered

\* What the page leaves comes after all of it, of whichever kind.
LEMMA PageFirst ==
    ASSUME Typed, Steadily, Ordered, edits = 0, pc = "merge", NEW x \in List \ Shown,
           x \notin First(key, batch, limit), NEW y \in First(key, batch, limit)
    PROVE  Before(y, x)
<1>1. Ordering /\ limit \in Nat /\ batch \in SUBSET Items /\ x \in Items /\ y \in batch /\ y \in Items
  BY OrderingHolds DEF Typed, First, List
<1>2. CASE x \in batch
  BY <1>1, <1>2, CutOff
<1>3. CASE x \notin batch
  <2>1. SUFFICES ASSUME ~Before(y, x) PROVE FALSE
    OBVIOUS
  <2>2. Before(x, y)
    BY <1>1, <1>3, <2>1 DEF Ordering
  <2>3. /\ Cardinality(Of(KindOf(x))) = limit
        /\ \A z \in Of(KindOf(x)) : Before(z, x)
    BY <1>3 DEF Ordered, Steadily, HasRead
  <2>4. Of(KindOf(x)) \subseteq Ahead(batch, y)
    BY <1>1, <2>2, <2>3 DEF Of, Ahead, Ordering
  <2>5. IsFiniteSet(Ahead(batch, y)) /\ Cardinality(Ahead(batch, y)) \in Nat
    BY <1>1, AheadCounts
  <2>6. Cardinality(Of(KindOf(x))) <= Cardinality(Ahead(batch, y))
    BY <2>4, <2>5, FS_Subset
  <2>7. Cardinality(Ahead(batch, y)) < limit
    BY DEF First, Ahead, Before
  <2>8. QED
    BY <1>1, <2>3, <2>5, <2>6, <2>7
<1>4. QED
  BY <1>2, <1>3

LEMMA MergeOrdered ==
    ASSUME Typed, Once, Steadily, Ordered, Merge
    PROVE  Ordered'
<1>1. /\ UNCHANGED <<row, key, steady, edits, order, scope, kind, limit>> /\ pc = "merge"
      /\ pc' \in {"videos", "done"} /\ batch' = {}
      /\ lost' = (lost \/ \E kd \in {"video", "photo"} :
                    /\ cursor'[kd] # cursor[kd]
                    /\ Boundary(<<kd, cursor'[kd]>>) # key[<<kd, cursor'[kd]>>])
  BY DEF Merge, listing, Boundary, InTable
<1>2. List' = List /\ \A x, y : (Before(x, y))' <=> Before(x, y)
  BY <1>1 DEF List, Listed, InTable, Before, MergedBefore, RowBefore, KeyBefore, IdBefore
<1>3. SUFFICES ASSUME edits = 0 PROVE Ordered'
  BY <1>1 DEF Ordered
<1>4. PICK P \in SUBSET batch :
        /\ P = First(key, batch, limit) /\ Shown' = Shown \cup P
        /\ /\ \A i, j \in DOMAIN seen : i < j => Before(seen[i], seen[j])
           /\ \A y \in Shown : \A x \in P : Before(y, x)
           => \A i, j \in DOMAIN seen' : i < j => Before(seen'[i], seen'[j])
        /\ \A kd \in {"video", "photo"} :
             \/ cursor'[kd] = cursor[kd]
             \/ <<kd, cursor'[kd]>> \in P
  BY MergeShows
<1>5. /\ ~lost /\ steady = List /\ Shown \subseteq List /\ batch \subseteq List
      /\ \A i, j \in DOMAIN seen : i < j => Before(seen[i], seen[j])
      /\ \A x \in List \ Shown : \A y \in Shown : Before(y, x)
  BY <1>3 DEF Ordered
<1>6. \A x \in List : Boundary(x) = key[x]
  BY DEF List, Listed, Boundary, InTable, Typed
<1>7. ~lost'
  BY <1>1, <1>4, <1>5, <1>6
<1>8. Shown \cap P = {}
  BY DEF Once
<1>9. \A i, j \in DOMAIN seen' : i < j => Before(seen'[i], seen'[j])
  BY <1>4, <1>5, <1>8
<1>10. ASSUME NEW x \in List \ Shown', NEW y \in Shown' PROVE Before(y, x)
  <2>1. CASE y \in Shown
    BY <1>4, <1>5, <1>10, <2>1
  <2>2. CASE y \in P
    BY <1>1, <1>3, <1>4, <1>10, <2>2, PageFirst
  <2>3. QED
    BY <1>4, <1>10, <2>1, <2>2
<1>11. \A kd : ~(HasRead(kd))'
  BY <1>1 DEF HasRead
<1>12. Shown' \subseteq List
  BY <1>4, <1>5
<1>13. QED
  BY <1>1, <1>2, <1>5, <1>7, <1>9, <1>10, <1>11, <1>12 DEF Ordered

LEMMA NextOrdered ==
    ASSUME Typed, Once, Steadily, Ordered, [Next]_vars
    PROVE  Ordered'
<1>1. CASE UNCHANGED vars
  <2>1. UNCHANGED <<row, key, order, scope, kind, limit, pc, batch, seen, steady, lost, edits>>
    BY <1>1 DEF vars, listing, tables
  <2>2. /\ Shown' = Shown /\ List' = List
        /\ \A x : (Of(x))' = Of(x) /\ ((HasRead(x))' <=> HasRead(x))
        /\ \A x, y : (Before(x, y))' <=> Before(x, y)
    BY <2>1 DEF List, Listed, InTable, HasRead, Of, Shown, Before, MergedBefore, RowBefore, KeyBefore,
       IdBefore
  <2>3. QED
    BY <2>1, <2>2 DEF Ordered
<1>2. CASE Edits
  BY <1>2, EditFrame DEF Ordered
<1>3. QED
  BY <1>1, <1>2, QueryOrdered, MergeOrdered, Steps

-----------------------------------------------------------------------------
(* The theorems *)

PagingInv == Typed /\ Once /\ Steadily /\ Ordered

LEMMA PagingInvariant == Spec => []PagingInv
<1>1. Init => PagingInv
  BY InitInvariants DEF PagingInv
<1>2. PagingInv /\ [Next]_vars => PagingInv'
  BY NextTyped, NextOnce, NextSteadily, NextOrdered DEF PagingInv
<1>3. QED
  BY <1>1, <1>2, PTL DEF Spec

\* No row is shown twice, for any rows, keys, order, page size and number of rows that
\* come and go between the queries (ListMedia, keysetCursorOn, favKeyset): the cursors
\* stand at or after all that was shown, and a query returns what is after them.
THEOREM NoneIsTwice == Spec => []NoneTwice
<1>1. PagingInv => NoneTwice
  BY DEF PagingInv, Once
<1>2. QED
  BY <1>1, PagingInvariant, PTL

\* A list read to its end has shown every row that was in it all along, whatever else
\* came and went, as long as the rows the cursors name are there (the cursors and
\* hasMore of ListMedia).
THEOREM SteadyIsShown == Spec => []SteadyShown
<1>1. PagingInv => SteadyShown
  BY DEF PagingInv, Steadily
<1>2. QED
  BY <1>1, PagingInvariant, PTL

\* While nothing changes, the pages of two keysets over two tables put together are the
\* merged list, in order and from its first row on (ListMedia, sortMedia).
THEOREM PagesAreInOrder == Spec => []PagesInOrder
<1>1. PagingInv => PagesInOrder
  BY DEF PagingInv, Ordered, Steadily, SteadyShown, PagesInOrder, Before
<1>2. QED
  BY <1>1, PagingInvariant, PTL

=============================================================================
