-------------------------- MODULE ForumSyncProofs --------------------------
(* Theorems about ForumSync, for any number of topics, any page size and    *)
(* any number of messages and events.                                       *)
EXTENDS ForumSync, FiniteSetTheorems, SequenceTheorems, TLAPS

\* The entry's flag is on exactly while one goroutine runs the topic.  This is
\* why a second claim finds the flag on, and why the end of a run, which clears
\* the flag without looking, cannot clear it under somebody else's run.
Claimed ==
    /\ running \in [Topics -> BOOLEAN]
    /\ runs \in [Topics -> {{}, {"group"}, {"button"}}]
    /\ \A t \in Topics : running[t] <=> runs[t] # {}

\* One run at most by the shape of runs: what the invariant is for.
LEMMA ClaimedIsOne == Claimed => OneRunPerTopic
<1> SUFFICES ASSUME Claimed, NEW t \in Topics PROVE Cardinality(runs[t]) <= 1
  BY DEF OneRunPerTopic
<1>1. runs[t] \in {{}, {"group"}, {"button"}}
  BY DEF Claimed
<1>2. Cardinality({}) = 0 /\ Cardinality({"group"}) = 1 /\ Cardinality({"button"}) = 1
  BY FS_EmptySet, FS_Singleton
<1>3. Cardinality(runs[t]) \in {0, 1}
  BY <1>1, <1>2
<1>4. QED
  BY <1>3

\* A topic is claimed only when its flag is off.
LEMMA BeginKeepsClaimed ==
    ASSUME Claimed, NEW t \in Topics, NEW who \in {"group", "button"},
           MayClaim(t), BeginTopic(t, who)
    PROVE  Claimed'
<1>1. runs[t] = {} /\ runs[t] \cup {who} = {who}
  BY DEF Claimed, MayClaim
<1>2. runs' = [runs EXCEPT ![t] = {who}] /\ running' = [running EXCEPT ![t] = TRUE]
  BY <1>1 DEF BeginTopic, Claimed
<1>3. QED
  BY <1>2 DEF Claimed

\* The run that ends is the only one.
LEMMA EndKeepsClaimed ==
    ASSUME Claimed, NEW t, NEW who \in {"group", "button"}, EndTopic(t, who)
    PROVE  Claimed'
<1>1. CASE t \in Topics
  <2>1. runs[t] = {who} /\ runs[t] \ {who} = {}
    BY <1>1 DEF Claimed, EndTopic
  <2>2. runs' = [runs EXCEPT ![t] = {}] /\ running' = [running EXCEPT ![t] = FALSE]
    BY <2>1, <1>1 DEF EndTopic, Claimed
  <2>3. QED
    BY <2>2, <1>1 DEF Claimed
<1>2. CASE t \notin Topics
  <2>1. runs' = runs /\ running' = running
    BY <1>2 DEF EndTopic, Claimed
  <2>2. QED
    BY <2>1 DEF Claimed
<1>3. QED
  BY <1>1, <1>2

\* Every step keeps it: two begin a run, two end one, and a crash ends all.
LEMMA NextKeepsClaimed == Claimed /\ [Next]_vars => Claimed'
<1> SUFFICES ASSUME Claimed, [Next]_vars PROVE Claimed'
  OBVIOUS
<1>1. ASSUME NEW t \in Topics, StartTopicSync(t) PROVE Claimed'
  BY <1>1, BeginKeepsClaimed DEF StartTopicSync
<1>2. ASSUME NEW t \in Topics, EndTopicSync(t) PROVE Claimed'
  BY <1>2, EndKeepsClaimed DEF EndTopicSync
<1>3. ASSUME NEW t \in Topics, SyncTopic(t) PROVE Claimed'
  BY <1>3, BeginKeepsClaimed DEF SyncTopic
<1>4. CASE TopicSynced
  BY <1>4, EndKeepsClaimed DEF TopicSynced
<1>5. CASE Crash
  BY <1>5 DEF Crash, Claimed
<1>6. CASE UNCHANGED <<running, runs>>
  BY <1>6 DEF Claimed
<1>7. ASSUME NEW t \in Topics, Post(t) \/ DeleteNewest(t) \/ SkipTopic(t)
      PROVE  UNCHANGED <<running, runs>>
  BY <1>7 DEF Post, DeleteNewest, SkipTopic, topicRuns
<1>8. ASSUME NEW l \in Listers, ListStep(l) \/ FailList(l)
      PROVE  UNCHANGED <<running, runs>>
  BY <1>8 DEF ListStep, FetchTopics, UpsertTopic, FinishList, FailList, topicRuns
<1>9. ASSUME \/ StartGroupSync \/ ProbeFails \/ ProbeForum \/ EndPlainSync
             \/ LoadTopics \/ EndGroupSync \/ RefreshTopics \/ Convert
      PROVE  UNCHANGED <<running, runs>>
  BY <1>9 DEF StartGroupSync, ProbeFails, ProbeForum, EndPlainSync, LoadTopics,
              EndGroupSync, RefreshTopics, Convert, topicRuns
<1>10. UNCHANGED vars => UNCHANGED <<running, runs>>
  BY DEF vars
<1>11. QED
  BY <1>1, <1>2, <1>3, <1>4, <1>5, <1>6, <1>7, <1>8, <1>9, <1>10 DEF Next, GroupStep

\* The group's sync, the topic's own button, crashes and failures in any order:
\* no topic ever has two runs (SyncStart and runForumSync of sync.go).
THEOREM OneRunOfTopic == Spec => []OneRunPerTopic
<1>1. Init => Claimed
  BY DEF Init, Claimed
<1>2. QED
  BY <1>1, NextKeepsClaimed, ClaimedIsOne, PTL DEF Spec

-----------------------------------------------------------------------------
(* Types *)

Stamped == Seq([topic : Topics, top : 1..MaxStamp])

ListerType == [pc : {"off", "fetch", "upsert", "finish"}, page : Stamped, at : Nat,
               offset : 0..MaxStamp, cursor : Topics \cup {None}, steady : SUBSET Topics]
GroupType  == [pc : {"off", "probe", "plain", "list", "load", "next", "topic"},
               forum : BOOLEAN, topic : Topics \cup {None}, owed : SUBSET Topics]

Typed ==
    /\ stamp \in [Topics -> 0..MaxStamp]
    /\ forum \in BOOLEAN /\ flag \in BOOLEAN
    /\ rows \subseteq Topics /\ todo \subseteq Topics /\ touched \subseteq Topics
    /\ lister \in [Listers -> ListerType]
    /\ \A l \in Listers : lister[l].pc = "upsert" => lister[l].at \in 1..Len(lister[l].page)
    /\ group \in GroupType
    /\ running \in [Topics -> BOOLEAN]
    /\ runs \in [Topics -> SUBSET {"group", "button"}]
    /\ events \in 0..MaxEvents

LEMMA TypedIsTypeOK == Typed => TypeOK
BY DEF Typed, TypeOK, ListerType, GroupType, Stamped

LEMMA IdleTypes ==
    /\ IdleLister \in ListerType /\ IdleLister.pc = "off"
    /\ IdleGroup \in GroupType /\ IdleGroup.pc = "off"
BY ForumAssumption DEF IdleLister, IdleGroup, ListerType, GroupType, Stamped

LEMMA ListingType == Listing \in ListerType /\ Listing.pc = "fetch"
BY IdleTypes DEF Listing, IdleLister, ListerType, Existing

\* A page is a sequence of existing topics.
LEMMA PageType ==
    ASSUME Typed, NEW n \in Nat, NEW p \in Pages(n)
    PROVE  /\ Len(p) \in Nat /\ p \in [1..Len(p) -> Below(n)] /\ Below(n) \subseteq Existing
           /\ [i \in 1..Len(p) |-> [topic |-> p[i], top |-> stamp[p[i]]]] \in Stamped
           /\ Len([i \in 1..Len(p) |-> [topic |-> p[i], top |-> stamp[p[i]]]]) = Len(p)
<1>1. PICK k \in 0..PageSize : p \in [1..k -> Below(n)]
  BY DEF Pages
<1>2. k \in Nat /\ Len(p) = k
  BY <1>1, ForumAssumption
<1>3. Below(n) \subseteq Existing
  BY DEF Below
<1> DEFINE q == [i \in 1..Len(p) |-> [topic |-> p[i], top |-> stamp[p[i]]]]
<1>4. ASSUME NEW i \in 1..Len(p)
      PROVE  [topic |-> p[i], top |-> stamp[p[i]]] \in [topic : Topics, top : 1..MaxStamp]
  <2>1. p[i] \in Existing
    BY <1>1, <1>2, <1>3
  <2>2. p[i] \in Topics /\ stamp[p[i]] \in 1..MaxStamp
    BY <2>1, ForumAssumption DEF Existing, Typed
  <2>3. QED
    BY <2>2
<1>5. q \in [1..Len(p) -> [topic : Topics, top : 1..MaxStamp]]
  BY <1>4
<1>6. q \in Stamped /\ Len(q) = Len(p)
  BY <1>2, <1>5 DEF Stamped
<1>7. QED
  BY <1>1, <1>2, <1>3, <1>6

\* What an action leaves of the listings and of the group.
LEMMA ListerKept ==
    ASSUME Typed, NEW l \in Listers, NEW r \in ListerType,
           r.pc = "upsert" => r.at \in 1..Len(r.page),
           lister' = [lister EXCEPT ![l] = r]
    PROVE  /\ lister' \in [Listers -> ListerType]
           /\ \A m \in Listers : lister'[m].pc = "upsert" => lister'[m].at \in 1..Len(lister'[m].page)
           /\ lister'[l] = r /\ \A m \in Listers : m # l => lister'[m] = lister[m]
BY DEF Typed

\* The lister after its page's last topic.
AfterPage(r) ==
    [r EXCEPT !.page = <<>>, !.at = 1, !.cursor = r.page[r.at].topic,
              !.pc = IF WalkOver(r, r.page[r.at].topic) THEN "finish" ELSE "fetch",
              !.offset = r.page[r.at].top]

NextOnPage(r) == [r EXCEPT !.at = @ + 1, !.offset = r.page[r.at].top]

\* The two outcomes of an upsert.
LEMMA UpsertCases ==
    ASSUME Typed, NEW l \in Listers, UpsertTopic(l)
    PROVE  /\ lister[l].pc = "upsert" /\ lister[l] \in ListerType
           /\ lister[l].at \in 1..Len(lister[l].page) /\ Len(lister[l].page) \in Nat
           /\ lister[l].page[lister[l].at] \in [topic : Topics, top : 1..MaxStamp]
           /\ rows' = rows \cup {lister[l].page[lister[l].at].topic}
           /\ \/ /\ lister[l].at < Len(lister[l].page)
                 /\ lister' = [lister EXCEPT ![l] = NextOnPage(lister[l])]
                 /\ NextOnPage(lister[l]) \in ListerType
              \/ /\ lister[l].at = Len(lister[l].page)
                 /\ lister' = [lister EXCEPT ![l] = AfterPage(lister[l])]
                 /\ AfterPage(lister[l]) \in ListerType
           /\ UNCHANGED <<stamp, forum, flag, group, todo, topicRuns, events>>
<1> DEFINE r == lister[l]
           e == r.page[r.at]
<1>1. r \in ListerType /\ r.pc = "upsert" /\ r.at \in 1..Len(r.page)
  BY DEF UpsertTopic, Typed
<1>2. r.page \in Stamped /\ Len(r.page) \in Nat /\ r.at \in Nat
      /\ e \in [topic : Topics, top : 1..MaxStamp]
  <2>1. r.page \in Stamped /\ r.at \in Nat
    BY <1>1 DEF ListerType
  <2>2. Len(r.page) \in Nat /\ r.page \in [1..Len(r.page) -> [topic : Topics, top : 1..MaxStamp]]
    BY <2>1, LenProperties DEF Stamped
  <2>3. QED
    BY <1>1, <2>1, <2>2
<1>3. NextOnPage(r) \in ListerType /\ AfterPage(r) \in ListerType
  <2>1. e.topic \in Topics /\ e.top \in 0..MaxStamp /\ r.at + 1 \in Nat /\ <<>> \in Stamped
    BY <1>2, ForumAssumption DEF Stamped
  <2>2. NextOnPage(r) \in ListerType
    BY <1>1, <2>1 DEF NextOnPage, ListerType
  <2>3. AfterPage(r) \in ListerType
    BY <1>1, <2>1 DEF AfterPage, ListerType
  <2>4. QED
    BY <2>2, <2>3
<1>4. rows' = rows \cup {e.topic} /\ UNCHANGED <<stamp, forum, flag, group, todo, topicRuns, events>>
  BY DEF UpsertTopic
<1>5. CASE MoreOnPage(r)
  <2>1. lister' = [lister EXCEPT ![l] = NextOnPage(r)]
    BY <1>1, <1>5 DEF UpsertTopic, NextOnPage, ListerType
  <2>2. r.at < Len(r.page)
    BY <1>5 DEF MoreOnPage
  <2>3. QED
    BY <1>1, <1>2, <1>3, <1>4, <2>1, <2>2
<1>6. CASE ~MoreOnPage(r)
  <2>1. lister' = [lister EXCEPT ![l] = AfterPage(r)]
    BY <1>1, <1>6 DEF UpsertTopic, AfterPage, ListerType
  <2>2. r.at = Len(r.page)
    BY <1>1, <1>2, <1>6 DEF MoreOnPage
  <2>3. QED
    BY <1>1, <1>2, <1>3, <1>4, <2>1, <2>2
<1>7. QED
  BY <1>5, <1>6

\* What a request's answer leaves.
LEMMA FetchCases ==
    ASSUME Typed, NEW l \in Listers, FetchTopics(l)
    PROVE  /\ \E p \in Pages(lister[l].offset) :
                 /\ lister'[l].page = [i \in 1..Len(p) |-> [topic |-> p[i], top |-> stamp[p[i]]]]
                 /\ lister'[l].at = 1 /\ lister'[l].pc = AfterFetch(p)
           /\ lister'[l].offset = lister[l].offset /\ lister'[l].cursor = lister[l].cursor
           /\ lister'[l].steady = lister[l].steady
           /\ \A m \in Listers : m # l => lister'[m] = lister[m]
<1> DEFINE r == lister[l]
<1>1. r \in ListerType
  BY DEF Typed
<1>2. PICK p \in Pages(r.offset) :
         lister' = [lister EXCEPT ![l].page = [i \in 1..Len(p) |->
                                                [topic |-> p[i], top |-> stamp[p[i]]]],
                                  ![l].at = 1,
                                  ![l].pc = AfterFetch(p)]
  BY DEF FetchTopics
<1> DEFINE q == [i \in 1..Len(p) |-> [topic |-> p[i], top |-> stamp[p[i]]]]
<1>3. lister' = [lister EXCEPT ![l] = [r EXCEPT !.page = q, !.at = 1, !.pc = AfterFetch(p)]]
  BY <1>2 DEF Typed
<1> HIDE DEF q
<1>4. /\ \A m \in Listers : m # l => lister'[m] = lister[m]
      /\ lister'[l] = [r EXCEPT !.page = q, !.at = 1, !.pc = AfterFetch(p)]
  BY <1>3 DEF Typed
<1>5. /\ lister'[l].page = q /\ lister'[l].at = 1 /\ lister'[l].pc = AfterFetch(p)
      /\ lister'[l].offset = r.offset /\ lister'[l].cursor = r.cursor
      /\ lister'[l].steady = r.steady
  BY <1>1, <1>4 DEF ListerType
<1>6. QED
  BY <1>4, <1>5 DEF q

LEMMA ListStepTyped ==
    ASSUME Typed, NEW l \in Listers, ListStep(l) \/ FailList(l)
    PROVE  Typed'
<1>1. CASE FetchTopics(l)
  <2>1. lister[l] \in ListerType /\ lister[l].offset \in Nat
    BY ForumAssumption DEF Typed, ListerType
  <2>2. PICK p \in Pages(lister[l].offset) :
           lister' = [lister EXCEPT ![l].page = [i \in 1..Len(p) |->
                                                  [topic |-> p[i], top |-> stamp[p[i]]]],
                                    ![l].at = 1,
                                    ![l].pc = AfterFetch(p)]
    BY <1>1 DEF FetchTopics
  <2> DEFINE q == [i \in 1..Len(p) |-> [topic |-> p[i], top |-> stamp[p[i]]]]
             r == [lister[l] EXCEPT !.page = q, !.at = 1, !.pc = AfterFetch(p)]
  <2>3. q \in Stamped /\ Len(q) = Len(p) /\ Len(p) \in Nat /\ p \in [1..Len(p) -> Below(lister[l].offset)]
    BY <2>1, <2>2, PageType
  <2>4. Len(p) = 0 => p = <<>>
    BY <2>3
  <2>5. lister' = [lister EXCEPT ![l] = r]
    BY <2>2 DEF Typed
  <2> HIDE DEF q
  <2>6. r \in ListerType /\ (r.pc = "upsert" => r.at \in 1..Len(r.page))
    <3>1. r.page = q /\ r.at = 1 /\ r.pc = AfterFetch(p)
      BY <2>1 DEF ListerType
    <3>2. r.pc = "upsert" => Len(p) >= 1
      BY <2>3, <2>4, <3>1 DEF AfterFetch
    <3>3. r \in ListerType
      BY <2>1, <2>3 DEF ListerType, AfterFetch
    <3>4. QED
      BY <2>3, <3>1, <3>2, <3>3
  <2> HIDE DEF r
  <2>7. /\ lister' \in [Listers -> ListerType]
        /\ \A m \in Listers : lister'[m].pc = "upsert" => lister'[m].at \in 1..Len(lister'[m].page)
    BY <2>5, <2>6, ListerKept
  <2>8. QED
    BY <1>1, <2>7 DEF FetchTopics, Typed, topicRuns
<1>2. CASE UpsertTopic(l)
  <2>1. /\ lister' \in [Listers -> ListerType]
        /\ \A m \in Listers : lister'[m].pc = "upsert" => lister'[m].at \in 1..Len(lister'[m].page)
    <3>1. CASE /\ lister[l].at < Len(lister[l].page)
               /\ lister' = [lister EXCEPT ![l] = NextOnPage(lister[l])]
               /\ NextOnPage(lister[l]) \in ListerType
      <4>1. NextOnPage(lister[l]) \in ListerType
            /\ NextOnPage(lister[l]).at \in 1..Len(NextOnPage(lister[l]).page)
        <5>1. /\ lister[l] \in ListerType /\ NextOnPage(lister[l]) \in ListerType
              /\ lister[l].at \in 1..Len(lister[l].page) /\ Len(lister[l].page) \in Nat
          BY <1>2, <3>1, UpsertCases
        <5>2. /\ NextOnPage(lister[l]).at = lister[l].at + 1
              /\ NextOnPage(lister[l]).page = lister[l].page
          BY <5>1 DEF NextOnPage, ListerType
        <5>3. QED
          BY <3>1, <5>1, <5>2
      <4>2. QED
        BY <3>1, <4>1, ListerKept
    <3>2. CASE lister' = [lister EXCEPT ![l] = AfterPage(lister[l])] /\ AfterPage(lister[l]) \in ListerType
      <4>1. AfterPage(lister[l]).pc # "upsert"
        BY <1>2, UpsertCases DEF AfterPage, ListerType
      <4>2. QED
        BY <3>2, <4>1, ListerKept
    <3>3. QED
      BY <1>2, <3>1, <3>2, UpsertCases
  <2>2. rows' \subseteq Topics /\ UNCHANGED <<stamp, forum, flag, group, todo, topicRuns, events>>
    BY <1>2, UpsertCases DEF Typed
  <2>3. QED
    BY <2>1, <2>2 DEF Typed, topicRuns
<1>3. CASE FinishList(l) \/ FailList(l)
  <2>1. lister' = [lister EXCEPT ![l] = IdleLister]
    BY <1>3 DEF FinishList, FailList
  <2>2. /\ lister' \in [Listers -> ListerType]
        /\ \A m \in Listers : lister'[m].pc = "upsert" => lister'[m].at \in 1..Len(lister'[m].page)
    BY <2>1, IdleTypes, ListerKept
  <2>3. group' \in GroupType
    BY <1>3, IdleTypes DEF FinishList, FailList, Typed, GroupType
  <2>4. flag' \in BOOLEAN /\ events' \in 0..MaxEvents
    <3>1. flag \in BOOLEAN /\ events \in 0..MaxEvents /\ MaxEvents \in Nat
      BY ForumAssumption DEF Typed
    <3>2. CASE FinishList(l)
      BY <3>1, <3>2 DEF FinishList
    <3>3. CASE FailList(l)
      BY <3>1, <3>3 DEF FailList, Event
    <3>4. QED
      BY <1>3, <3>2, <3>3
  <2>5. UNCHANGED <<stamp, forum, rows, todo, topicRuns>>
    BY <1>3 DEF FinishList, FailList
  <2>6. QED
    BY <2>2, <2>3, <2>4, <2>5 DEF Typed, topicRuns
<1>4. QED
  BY <1>1, <1>2, <1>3 DEF ListStep

\* What happens at Telegram moves stamps and takes topics from what is owed.
LEMMA TelegramTyped ==
    ASSUME Typed, Convert \/ \E t \in Topics : Post(t) \/ DeleteNewest(t)
    PROVE  Typed'
<1>1. CASE Convert
  BY <1>1, ForumAssumption DEF Convert, Event, Typed, topicRuns
<1>2. ASSUME NEW t \in Topics, Post(t) \/ DeleteNewest(t)
      PROVE  Typed'
  <2>1. stamp' \in [Topics -> 0..MaxStamp]
    <3>1. PICK n \in 1..MaxStamp : stamp' = [stamp EXCEPT ![t] = n]
      BY <1>2 DEF Post, DeleteNewest
    <3>2. QED
      BY <3>1, ForumAssumption DEF Typed
  <2>2. ASSUME NEW l \in Listers
        PROVE  \E s \in SUBSET Topics : lister'[l] = [lister[l] EXCEPT !.steady = s]
    <3>1. lister[l].steady \in SUBSET Topics
      BY DEF Typed, ListerType
    <3>2. QED
      BY <1>2, <3>1 DEF Post, DeleteNewest
  <2>3. lister' = [l \in Listers |-> lister'[l]]
    BY <1>2 DEF Post, DeleteNewest
  <2>4. ASSUME NEW l \in Listers
        PROVE  lister'[l] \in ListerType /\ (lister'[l].pc = "upsert" => lister'[l].at \in 1..Len(lister'[l].page))
    <3>1. PICK s \in SUBSET Topics : lister'[l] = [lister[l] EXCEPT !.steady = s]
      BY <2>2
    <3>2. lister[l] \in ListerType /\ (lister[l].pc = "upsert" => lister[l].at \in 1..Len(lister[l].page))
      BY DEF Typed
    <3>3. QED
      BY <3>1, <3>2 DEF ListerType
  <2>5. group' \in GroupType
    <3>1. Unlisted(t) \subseteq Topics /\ group.owed \cap rows \subseteq Topics
      BY DEF Unlisted, Typed, GroupType
    <3>2. \E s \in SUBSET Topics : group' = [group EXCEPT !.owed = s]
      BY <1>2, <3>1 DEF Post, DeleteNewest
    <3>3. QED
      BY <3>2 DEF Typed, GroupType
  <2>6. events' \in 0..MaxEvents /\ UNCHANGED <<forum, rows, flag, todo, topicRuns>>
    BY <1>2, ForumAssumption DEF Post, DeleteNewest, Event, Typed
  <2>7. QED
    BY <2>1, <2>3, <2>4, <2>5, <2>6 DEF Typed, topicRuns
<1>3. QED
  BY <1>1, <1>2

LEMMA GroupTyped ==
    ASSUME Typed,
           \/ StartGroupSync \/ ProbeFails \/ ProbeForum \/ EndPlainSync \/ LoadTopics
           \/ TopicSynced \/ EndGroupSync \/ \E t \in Topics : SkipTopic(t) \/ SyncTopic(t)
    PROVE  Typed'
<1> USE DEF topicRuns
<1>g. group \in GroupType
  BY DEF Typed
<1>1. CASE StartGroupSync
  <2>1. group' \in GroupType /\ touched' \subseteq Topics
    BY <1>1, IdleTypes DEF StartGroupSync, IdleGroup, GroupType, Existing, Typed
  <2>2. QED
    BY <1>1, <2>1 DEF StartGroupSync, Typed
<1>2. CASE ProbeForum \/ ProbeFails
  <2>1. PICK b \in BOOLEAN : Route(b)
    BY <1>2 DEF ProbeForum, ProbeFails, Typed, GroupType
  <2>2. group' \in GroupType
    BY <1>g, <2>1 DEF Route, GroupType
  <2>3. /\ lister' \in [Listers -> ListerType]
        /\ \A m \in Listers : lister'[m].pc = "upsert" => lister'[m].at \in 1..Len(lister'[m].page)
    <3>1. CASE lister' = lister
      BY <3>1 DEF Typed
    <3>2. CASE lister' = [lister EXCEPT !["sync"] = Listing]
      BY <3>2, ListingType, ListerKept DEF Listers
    <3>3. QED
      BY <2>1, <3>1, <3>2 DEF Route
  <2>4. flag' \in BOOLEAN /\ events' \in 0..MaxEvents
    BY <1>2, ForumAssumption DEF ProbeForum, ProbeFails, Event, Typed
  <2>5. UNCHANGED <<stamp, forum, rows, todo, topicRuns>>
    BY <1>2 DEF ProbeForum, ProbeFails
  <2>6. QED
    BY <2>2, <2>3, <2>4, <2>5 DEF Typed
<1>3. CASE EndPlainSync \/ LoadTopics \/ EndGroupSync
  <2>1. group' \in GroupType
    BY <1>3, <1>g, IdleTypes DEF EndPlainSync, LoadTopics, EndGroupSync, GroupType
  <2>2. todo' \subseteq Topics /\ touched' \subseteq Topics
    BY <1>3 DEF EndPlainSync, LoadTopics, EndGroupSync, Typed
  <2>3. UNCHANGED <<stamp, forum, rows, flag, lister, running, runs, events>>
    BY <1>3 DEF EndPlainSync, LoadTopics, EndGroupSync
  <2>4. QED
    BY <2>1, <2>2, <2>3 DEF Typed
<1>4. CASE TopicSynced
  <2>1. group' \in GroupType
    BY <1>4, <1>g DEF TopicSynced, GroupType
  <2>2. running' \in [Topics -> BOOLEAN] /\ runs' \in [Topics -> SUBSET {"group", "button"}]
    BY <1>4 DEF TopicSynced, EndTopic, Typed
  <2>3. QED
    BY <1>4, <2>1, <2>2 DEF TopicSynced, EndTopic, Typed
<1>5. ASSUME NEW t \in Topics, SkipTopic(t) PROVE Typed'
  BY <1>5 DEF SkipTopic, AfterSkip, Typed
<1>6. ASSUME NEW t \in Topics, SyncTopic(t) PROVE Typed'
  <2>1. group' \in GroupType
    BY <1>6, <1>g DEF SyncTopic, GroupType
  <2>2. running' \in [Topics -> BOOLEAN] /\ runs' \in [Topics -> SUBSET {"group", "button"}]
        /\ touched' \subseteq Topics
    BY <1>6 DEF SyncTopic, BeginTopic, Typed
  <2>3. QED
    BY <1>6, <2>1, <2>2 DEF SyncTopic, Typed
<1>7. QED
  BY <1>1, <1>2, <1>3, <1>4, <1>5, <1>6

LEMMA NextTyped ==
    ASSUME Typed, [Next]_vars
    PROVE  Typed'
<1> USE DEF topicRuns
<1>1. ASSUME NEW t \in Topics, StartTopicSync(t) \/ EndTopicSync(t) PROVE Typed'
  <2>1. CASE StartTopicSync(t)
    <3>1. running' \in [Topics -> BOOLEAN] /\ runs' \in [Topics -> SUBSET {"group", "button"}]
          /\ touched' \subseteq Topics
      BY <2>1 DEF StartTopicSync, BeginTopic, Typed
    <3>2. QED
      BY <2>1, <3>1 DEF StartTopicSync, Typed
  <2>2. CASE EndTopicSync(t)
    <3>1. running' \in [Topics -> BOOLEAN] /\ runs' \in [Topics -> SUBSET {"group", "button"}]
          /\ touched' \subseteq Topics
      BY <2>2 DEF EndTopicSync, EndTopic, Typed
    <3>2. QED
      BY <2>2, <3>1 DEF EndTopicSync, Typed
  <2>3. QED
    BY <1>1, <2>1, <2>2
<1>2. CASE RefreshTopics
  <2>1. lister' = [lister EXCEPT !["refresh"] = Listing]
    BY <1>2 DEF RefreshTopics
  <2>2. /\ lister' \in [Listers -> ListerType]
        /\ \A m \in Listers : lister'[m].pc = "upsert" => lister'[m].at \in 1..Len(lister'[m].page)
    BY <2>1, ListingType, ListerKept DEF Listers
  <2>3. QED
    BY <1>2, <2>2, ForumAssumption DEF RefreshTopics, Event, Typed
<1>3. CASE Crash
  <2>1. /\ lister' \in [Listers -> ListerType]
        /\ \A m \in Listers : lister'[m].pc = "upsert" => lister'[m].at \in 1..Len(lister'[m].page)
        /\ group' \in GroupType
    BY <1>3, IdleTypes DEF Crash
  <2>2. QED
    BY <1>3, <2>1, ForumAssumption DEF Crash, Event, Typed
<1>4. CASE UNCHANGED vars
  BY <1>4 DEF vars, Typed
<1>5. QED
  BY <1>1, <1>2, <1>3, <1>4, ListStepTyped, TelegramTyped, GroupTyped DEF Next, GroupStep

\* The group's run, the listings, the topics' runs, failures and crashes keep every
\* variable typed, and no listing reads past its page.
THEOREM TypesHold == Spec => []TypeOK
<1>1. Init => Typed
  BY IdleTypes, ForumAssumption DEF Init, Typed
<1>2. Typed /\ [Next]_vars => Typed'
  BY NextTyped
<1>3. QED
  BY <1>1, <1>2, TypedIsTypeOK, PTL DEF Spec

-----------------------------------------------------------------------------
(* A walk loses no topic *)

StampsDiffer == \A s, t \in Topics : stamp[s] = stamp[t] => s = t \/ stamp[s] = 0

\* Whatever a page leaves out is older than its last topic.
LEMMA PageComplete ==
    ASSUME Typed, StampsDiffer, NEW n \in Nat, NEW p \in Pages(n), p # <<>>, NEW t \in Below(n)
    PROVE  /\ Len(p) \in Nat \ {0} /\ p \in [1..Len(p) -> Below(n)]
           /\ (\E i \in 1..Len(p) : p[i] = t) \/ stamp[t] < stamp[p[Len(p)]]
<1> DEFINE k == Len(p)
           Newer(i) == {s \in Below(n) : stamp[s] > stamp[p[i]]}
<1>1. k \in Nat /\ p \in [1..k -> Below(n)] /\ Below(n) \subseteq Topics
  BY PageType DEF Existing
<1>2. k # 0
  BY <1>1
<1>3. \A i \in 1..k : Cardinality(Newer(i)) = i - 1
  BY DEF Pages
<1>4. \A s \in Below(n) : stamp[s] \in Nat /\ stamp[s] # 0
  BY <1>1, ForumAssumption DEF Typed, Below, Existing
<1>5. IsFiniteSet(Below(n))
  BY <1>1, FS_Subset, ForumAssumption
<1>6. \A i \in 1..k : IsFiniteSet(Newer(i))
  BY <1>5, FS_Subset
<1>7. ASSUME NEW i \in 1..k, NEW j \in 1..k, i < j PROVE stamp[p[i]] > stamp[p[j]]
  <2> SUFFICES ASSUME ~(stamp[p[i]] > stamp[p[j]]) PROVE FALSE
    OBVIOUS
  <2>1. stamp[p[i]] \in Nat /\ stamp[p[j]] \in Nat
    BY <1>1, <1>4
  <2>2. Newer(j) \in SUBSET Newer(i)
    BY <1>4, <2>1
  <2>3. Cardinality(Newer(j)) <= Cardinality(Newer(i))
    BY <1>6, <2>2, FS_Subset
  <2> HIDE DEF Newer
  <2>4. QED
    BY <1>1, <1>3, <1>7, <2>3
<1> SUFFICES ASSUME ~(stamp[t] < stamp[p[k]]) PROVE \E i \in 1..k : p[i] = t
  BY <1>1, <1>2
<1>8. CASE stamp[t] = stamp[p[k]]
  BY <1>1, <1>2, <1>4, <1>8 DEF StampsDiffer
<1>9. CASE stamp[t] # stamp[p[k]]
  <2> DEFINE f == [i \in 1..(k - 1) |-> p[i]]
  <2>1. t \in Newer(k)
    BY <1>1, <1>2, <1>4, <1>9
  <2>2. f \in [1..(k - 1) -> Newer(k)]
    BY <1>1, <1>2, <1>7
  <2>3. \A i, j \in 1..(k - 1) : f[i] = f[j] => i = j
    <3>1. ASSUME NEW i \in 1..(k - 1), NEW j \in 1..(k - 1), i # j PROVE f[i] # f[j]
      <4>1. i \in 1..k /\ j \in 1..k /\ (i < j \/ j < i)
        BY <1>1, <1>2, <3>1
      <4>2. stamp[p[i]] \in Nat /\ stamp[p[j]] \in Nat /\ stamp[p[i]] # stamp[p[j]]
        BY <1>1, <1>4, <1>7, <4>1
      <4>3. QED
        BY <4>2
    <3>2. QED
      BY <3>1
  <2>4. f \in Injection(1..(k - 1), Newer(k))
    BY <2>2, <2>3 DEF Injection, IsInjective
  <2>5. Cardinality(1..(k - 1)) = k - 1
    BY <1>1, <1>2, FS_Interval
  <2>6. Cardinality(Newer(k)) = k - 1 /\ IsFiniteSet(Newer(k))
    BY <1>1, <1>2, <1>3, <1>6
  <2>7. f \in Surjection(1..(k - 1), Newer(k))
    <3> HIDE DEF f, Newer
    <3>1. QED
      BY <2>4, <2>5, <2>6, FS_Injection
  <2>8. \E i \in 1..(k - 1) : f[i] = t
    BY <2>1, <2>7 DEF Surjection
  <2>9. QED
    BY <1>1, <1>2, <2>8
<1>10. QED
  BY <1>8, <1>9

\* Where a topic that did not move is, as seen from a walk: saved, still on the
\* page, or below it.
Due(r, t) ==
    \/ t \in rows
    \/ r.pc = "fetch" /\ (r.offset = 0 \/ stamp[t] < r.offset)
    \/ /\ r.pc = "upsert"
       /\ \/ \E i \in r.at..Len(r.page) : r.page[i].topic = t
          \/ stamp[t] < r.page[Len(r.page)].top

\* The cursor does not show up again below the offset, which would end the walk,
\* unless its newest message was deleted; then nothing is claimed any more.
Walk(r) ==
    /\ r.steady \subseteq Existing
    /\ \A t \in r.steady : Due(r, t)
    /\ r.steady # {} =>
         /\ r.pc = "fetch" /\ r.cursor # None
               => r.cursor \in Topics /\ r.offset # 0 /\ stamp[r.cursor] >= r.offset
         /\ r.pc = "upsert" => \A i \in 1..Len(r.page) :
                                  /\ r.page[i].topic # r.cursor
                                  /\ stamp[r.page[i].topic] >= r.page[i].top

Walks == StampsDiffer /\ \A l \in Listers : Walk(lister[l])

\* A walk that is not there, and one that begins.
LEMMA WalkBegins == Walk(IdleLister) /\ Walk(Listing)
BY DEF Walk, IdleLister, Listing, Due

\* Saving topics disturbs no walk.
LEMMA WalkKept ==
    ASSUME NEW r, Walk(r), stamp' = stamp, rows \subseteq rows'
    PROVE  Walk(r)'
BY DEF Walk, Due, Existing

\* Nothing but the walk of one listing, and the rows, moved.
LEMMA WalksFrom ==
    ASSUME Walks, NEW l \in Listers, stamp' = stamp, rows \subseteq rows',
           \A m \in Listers : m # l => lister'[m] = lister[m],
           Walk(lister[l])'
    PROVE  Walks'
<1>1. StampsDiffer'
  BY DEF Walks, StampsDiffer
<1>2. ASSUME NEW m \in Listers, m # l PROVE Walk(lister[m])'
  <2>1. PICK r : r = lister[m]
    OBVIOUS
  <2>2. Walk(r)'
    BY <2>1, WalkKept DEF Walks
  <2>3. lister'[m] = r
    BY <1>2, <2>1
  <2>4. QED
    BY <2>2, <2>3 DEF Walk, Due, Existing
<1>3. QED
  BY <1>1, <1>2 DEF Walks

\* A page that is not empty holds, or lies above, every topic still due.
LEMMA FetchWalks ==
    ASSUME Typed, Walks, NEW l \in Listers, FetchTopics(l)
    PROVE  Walks'
<1> DEFINE r == lister[l]
<1>1. /\ r \in ListerType /\ r.pc = "fetch" /\ r.offset \in Nat /\ Walk(r)
      /\ UNCHANGED <<stamp, rows>>
  <2>1. r \in ListerType
    BY DEF Typed
  <2>2. r.offset \in Nat
    BY <2>1, ForumAssumption DEF ListerType
  <2>3. QED
    BY <2>1, <2>2 DEF FetchTopics, Walks
<1>2. PICK p \in Pages(r.offset) :
         /\ lister'[l].page = [i \in 1..Len(p) |-> [topic |-> p[i], top |-> stamp[p[i]]]]
         /\ lister'[l].at = 1 /\ lister'[l].pc = AfterFetch(p)
  BY FetchCases
<1> DEFINE q == [i \in 1..Len(p) |-> [topic |-> p[i], top |-> stamp[p[i]]]]
<1>3. /\ \A m \in Listers : m # l => lister'[m] = lister[m]
      /\ lister'[l].page = q /\ lister'[l].at = 1 /\ lister'[l].pc = AfterFetch(p)
      /\ lister'[l].offset = r.offset /\ lister'[l].cursor = r.cursor /\ lister'[l].steady = r.steady
  BY <1>2, FetchCases
<1>4. \A t \in r.steady : t \in Existing /\ (t \in rows \/ t \in Below(r.offset))
  BY <1>1 DEF Walk, Due, Below
<1> DEFINE n == lister'[l]
<1>5. CASE p = <<>>
  <2>1. Below(r.offset) = {} /\ n.pc = "finish"
    BY <1>2, <1>3, <1>5 DEF Pages, AfterFetch
  <2>2. Walk(lister[l])'
    BY <1>1, <1>3, <1>4, <2>1 DEF Walk, Due, Existing
  <2>3. QED
    BY <1>1, <1>3, <2>2, WalksFrom
<1>6. CASE p # <<>>
  <2>1. /\ n.pc = "upsert" /\ Len(p) \in Nat \ {0} /\ p \in [1..Len(p) -> Below(r.offset)]
        /\ Len(q) = Len(p)
        /\ \A t \in Below(r.offset) :
              (\E i \in 1..Len(p) : p[i] = t) \/ stamp[t] < stamp[p[Len(p)]]
    <3>1. /\ Len(p) \in Nat \ {0} /\ p \in [1..Len(p) -> Below(r.offset)]
          /\ \A t \in Below(r.offset) :
                (\E i \in 1..Len(p) : p[i] = t) \/ stamp[t] < stamp[p[Len(p)]]
      <4>1. Len(p) \in Nat /\ p \in [1..Len(p) -> Below(r.offset)]
        BY <1>1, <1>2, PageType
      <4>2. Len(p) # 0
        BY <1>6, <4>1
      <4>3. ASSUME NEW t \in Below(r.offset)
            PROVE  (\E i \in 1..Len(p) : p[i] = t) \/ stamp[t] < stamp[p[Len(p)]]
        BY <1>1, <1>2, <1>6, <4>3, PageComplete DEF Walks
      <4>4. QED
        BY <4>1, <4>2, <4>3
    <3>2. Len(q) = Len(p)
      BY <1>1, <1>2, PageType
    <3>3. QED
      BY <1>3, <1>6, <3>1, <3>2 DEF AfterFetch
  <2>2. \A i \in 1..Len(p) : q[i].topic = p[i] /\ q[i].top = stamp[p[i]] /\ stamp[p[i]] \in Nat
           /\ p[i] \in Topics /\ (r.offset = 0 \/ stamp[p[i]] < r.offset)
    <3>1. \A i \in 1..Len(p) : q[i].topic = p[i] /\ q[i].top = stamp[p[i]]
      OBVIOUS
    <3>2. \A i \in 1..Len(p) : p[i] \in Below(r.offset)
      BY <2>1
    <3> HIDE DEF q
    <3>3. QED
      BY <3>1, <3>2, ForumAssumption DEF Below, Existing, Typed
  <2> HIDE DEF q
  <2>3. ASSUME NEW t \in r.steady
        PROVE  t \in rows \/ (\E i \in 1..Len(q) : q[i].topic = t) \/ stamp[t] < q[Len(q)].top
    BY <1>4, <2>1, <2>2, <2>3
  <2>4. ASSUME r.steady # {}, NEW i \in 1..Len(q)
        PROVE  q[i].topic # r.cursor /\ stamp[q[i].topic] >= q[i].top
    <3>1. i \in 1..Len(p)
      BY <2>1, <2>4
    <3>2. r.cursor # None => r.cursor \in Topics /\ r.offset # 0 /\ stamp[r.cursor] >= r.offset
      BY <1>1, <2>4 DEF Walk
    <3>3. r.cursor \in Topics => stamp[r.cursor] \in Nat
      BY ForumAssumption DEF Typed
    <3>4. QED
      BY <1>1, <2>2, <3>1, <3>2, <3>3, ForumAssumption
  <2>5. Walk(lister[l])'
    BY <1>1, <1>3, <1>4, <2>1, <2>3, <2>4 DEF Walk, Due, Existing
  <2>6. QED
    BY <1>1, <1>3, <2>5, WalksFrom
<1>7. QED
  BY <1>5, <1>6

\* A saved topic is saved; at the end of the page the others lie below its last
\* topic, which becomes the cursor.
LEMMA UpsertWalks ==
    ASSUME Typed, Walks, NEW l \in Listers, UpsertTopic(l)
    PROVE  Walks'
<1> DEFINE r == lister[l]
           e == r.page[r.at]
<1>1. /\ r.pc = "upsert" /\ r \in ListerType /\ Walk(r)
      /\ r.at \in 1..Len(r.page) /\ Len(r.page) \in Nat
      /\ e \in [topic : Topics, top : 1..MaxStamp]
      /\ rows' = rows \cup {e.topic} /\ stamp' = stamp
  BY UpsertCases DEF Walks
<1>2. CASE r.at < Len(r.page) /\ lister' = [lister EXCEPT ![l] = NextOnPage(r)]
  <2>1. /\ \A m \in Listers : m # l => lister'[m] = lister[m]
        /\ lister'[l] = NextOnPage(r)
    BY <1>2 DEF Typed
  <2>2. /\ lister'[l].pc = "upsert" /\ lister'[l].page = r.page /\ lister'[l].at = r.at + 1
        /\ lister'[l].cursor = r.cursor /\ lister'[l].steady = r.steady
    BY <1>1, <2>1 DEF NextOnPage, ListerType
  <2>3. ASSUME NEW t \in r.steady
        PROVE  \/ t \in rows' \/ (\E i \in (r.at + 1)..Len(r.page) : r.page[i].topic = t)
               \/ stamp[t] < r.page[Len(r.page)].top
    <3>1. t \in rows \/ (\E i \in r.at..Len(r.page) : r.page[i].topic = t)
          \/ stamp[t] < r.page[Len(r.page)].top
      BY <1>1, <2>3 DEF Walk, Due
    <3>2. ASSUME NEW i \in r.at..Len(r.page) PROVE i = r.at \/ i \in (r.at + 1)..Len(r.page)
      BY <1>1
    <3>3. QED
      BY <1>1, <3>1, <3>2
  <2>4. Walk(lister[l])'
    BY <1>1, <2>2, <2>3 DEF Walk, Due, Existing
  <2>5. QED
    BY <1>1, <2>1, <2>4, WalksFrom
<1>3. CASE r.at = Len(r.page) /\ lister' = [lister EXCEPT ![l] = AfterPage(r)]
  <2>1. /\ \A m \in Listers : m # l => lister'[m] = lister[m]
        /\ lister'[l] = AfterPage(r)
    BY <1>3 DEF Typed
  <2>2. /\ lister'[l].pc = (IF WalkOver(r, e.topic) THEN "finish" ELSE "fetch")
        /\ lister'[l].cursor = e.topic /\ lister'[l].offset = e.top /\ lister'[l].steady = r.steady
    BY <1>1, <2>1 DEF AfterPage, ListerType
  <2>3. r.steady # {} => ~WalkOver(r, e.topic) /\ stamp[e.topic] >= e.top
    BY <1>1 DEF Walk, WalkOver
  <2>4. ASSUME NEW t \in r.steady
        PROVE  t \in rows' \/ stamp[t] < e.top
    <3>1. t \in rows \/ (\E i \in r.at..Len(r.page) : r.page[i].topic = t)
          \/ stamp[t] < r.page[Len(r.page)].top
      BY <1>1, <2>4 DEF Walk, Due
    <3>2. ASSUME NEW i \in r.at..Len(r.page) PROVE i = r.at
      BY <1>1, <1>3
    <3>3. QED
      BY <1>1, <1>3, <3>1, <3>2
  <2>5. e.topic \in Topics /\ e.top # 0
    BY <1>1, ForumAssumption
  <2>6. Walk(lister[l])'
    <3>1. r.steady \subseteq Existing'
      BY <1>1 DEF Walk, Existing
    <3>2. CASE r.steady = {}
      BY <2>2, <3>2 DEF Walk
    <3>3. CASE r.steady # {}
      <4>1. lister'[l].pc = "fetch"
        BY <2>2, <2>3, <3>3
      <4>2. QED
        BY <1>1, <2>2, <2>3, <2>4, <2>5, <3>1, <3>3, <4>1 DEF Walk, Due
    <3>4. QED
      BY <3>2, <3>3
  <2>7. QED
    BY <1>1, <2>1, <2>6, WalksFrom
<1>4. QED
  BY <1>2, <1>3, UpsertCases

\* The stamp of one topic moves: up, or down where the walk does not stand.
LEMMA MoveWalks ==
    ASSUME Typed, NEW t \in Topics, NEW n \in 1..MaxStamp, stamp' = [stamp EXCEPT ![t] = n],
           rows' = rows, NEW r \in ListerType, Walk(r), NEW S \in SUBSET (r.steady \ {t}),
           S # {} => stamp[t] < n \/ ~StandsAt(r, t),
           NEW q, q = [r EXCEPT !.steady = S]
    PROVE  Walk(q)'
<1>1. /\ q.pc = r.pc /\ q.page = r.page /\ q.at = r.at /\ q.offset = r.offset
      /\ q.cursor = r.cursor /\ q.steady = S /\ r.offset \in Nat
      /\ r.page \in Stamped
  BY ForumAssumption DEF ListerType
<1>2. \A s \in Topics : s # t => stamp'[s] = stamp[s]
  BY DEF Typed
<1>3. stamp'[t] = n /\ n \in Nat /\ n # 0 /\ stamp \in [Topics -> Nat]
  BY ForumAssumption DEF Typed
<1>4. \A s \in S : s \in Topics /\ s # t /\ s \in Existing' /\ Due(r, s)
  BY <1>2 DEF Walk, Existing
<1>5. \A s \in S : Due(q, s)'
  BY <1>1, <1>2, <1>4 DEF Due
<1>6. ASSUME S # {}
      PROVE  q.pc = "fetch" /\ q.cursor # None
               => q.cursor \in Topics /\ q.offset # 0 /\ stamp'[q.cursor] >= q.offset
  <2>1. SUFFICES ASSUME r.pc = "fetch", r.cursor # None
                 PROVE  r.cursor \in Topics /\ r.offset # 0 /\ stamp'[r.cursor] >= r.offset
    BY <1>1
  <2>2. r.cursor \in Topics /\ r.offset # 0 /\ stamp[r.cursor] >= r.offset
    BY <1>6, <2>1 DEF Walk
  <2>3. CASE r.cursor = t
    <3>1. stamp[t] < n
      BY <1>6, <2>3 DEF StandsAt
    <3>2. QED
      BY <1>1, <1>3, <2>2, <2>3, <3>1
  <2>4. CASE r.cursor # t
    BY <1>2, <2>2, <2>4
  <2>5. QED
    BY <2>3, <2>4
<1>7. ASSUME S # {}, r.pc = "upsert", NEW i \in 1..Len(r.page)
      PROVE  r.page[i].topic # r.cursor /\ stamp'[r.page[i].topic] >= r.page[i].top
  <2>1. r.page[i].topic # r.cursor /\ stamp[r.page[i].topic] >= r.page[i].top
    BY <1>7 DEF Walk
  <2>2. r.page[i] \in [topic : Topics, top : 1..MaxStamp]
    BY <1>1, <1>7, LenProperties DEF Stamped
  <2>3. r.page[i].topic \in Topics /\ r.page[i].top \in Nat
    BY <2>2, ForumAssumption
  <2>4. CASE r.page[i].topic = t
    <3>1. stamp[t] < n
      BY <1>7, <2>4 DEF StandsAt
    <3>2. QED
      BY <1>3, <2>1, <2>3, <2>4, <3>1
  <2>5. CASE r.page[i].topic # t
    BY <1>2, <2>1, <2>3, <2>5
  <2>6. QED
    BY <2>4, <2>5
<1>8. QED
  BY <1>1, <1>4, <1>5, <1>6, <1>7 DEF Walk

\* A message comes, or the newest one of a topic goes.
LEMMA TelegramWalks ==
    ASSUME Typed, Walks, NEW t \in Topics, Post(t) \/ DeleteNewest(t)
    PROVE  Walks'
<1>1. PICK n \in 1..MaxStamp : /\ stamp' = [stamp EXCEPT ![t] = n] /\ n \notin Used
                               /\ Post(t) => stamp[t] < n
  <2>1. CASE Post(t)
    <3>1. PICK n \in 1..MaxStamp : (\A m \in Used : m < n) /\ stamp' = [stamp EXCEPT ![t] = n]
      BY <2>1 DEF Post
    <3>2. stamp[t] \in Used /\ n \notin Used
      BY <3>1, ForumAssumption DEF Used
    <3>3. QED
      BY <3>1, <3>2
  <2>2. CASE DeleteNewest(t) /\ ~Post(t)
    BY <2>2 DEF DeleteNewest
  <2>3. QED
    BY <2>1, <2>2
<1>2. rows' = rows
  BY DEF Post, DeleteNewest
<1>3. ASSUME NEW l \in Listers PROVE Walk(lister[l])'
  <2>1. PICK r \in ListerType : r = lister[l]
    BY DEF Typed
  <2>2. PICK q : q = lister'[l]
    OBVIOUS
  <2>3. Walk(r)
    BY <2>1 DEF Walks
  <2>4. ASSUME NEW S \in SUBSET (r.steady \ {t}), q = [r EXCEPT !.steady = S],
               S # {} => stamp[t] < n \/ ~StandsAt(r, t)
        PROVE  Walk(lister[l])'
    <3>1. Walk(q)'
      BY <1>1, <1>2, <2>3, <2>4, MoveWalks
    <3>2. QED
      BY <2>2, <3>1 DEF Walk, Due, Existing
  <2>5. CASE Post(t)
    <3>1. q = [r EXCEPT !.steady = r.steady \ {t}]
      BY <2>1, <2>2, <2>5 DEF Post
    <3>2. QED
      BY <1>1, <2>4, <2>5, <3>1
  <2>6. CASE DeleteNewest(t)
    <3>1. q = [r EXCEPT !.steady = IF StandsAt(r, t) THEN {} ELSE r.steady \ {t}]
      BY <2>1, <2>2, <2>6 DEF DeleteNewest
    <3>2. CASE StandsAt(r, t)
      BY <2>4, <3>1, <3>2
    <3>3. CASE ~StandsAt(r, t)
      BY <2>4, <3>1, <3>3
    <3>4. QED
      BY <3>2, <3>3
  <2>7. QED
    BY <2>5, <2>6
<1>4. StampsDiffer'
  BY <1>1 DEF Walks, StampsDiffer, Used, Typed
<1>5. QED
  BY <1>3, <1>4 DEF Walks

\* Listings begin and end, and the rest of the program leaves them alone.
LEMMA NextWalks ==
    ASSUME Typed, Walks, [Next]_vars
    PROVE  Walks'
<1>1. ASSUME UNCHANGED <<stamp, rows>>, NEW l \in Listers,
             \/ lister' = [lister EXCEPT ![l] = IdleLister]
             \/ lister' = [lister EXCEPT ![l] = Listing]
      PROVE  Walks'
  <2>1. PICK q : q = lister'[l]
    OBVIOUS
  <2>2. \A m \in Listers : m # l => lister'[m] = lister[m]
    BY <1>1 DEF Typed
  <2>3. Walk(lister[l])'
    <3>1. q \in {IdleLister, Listing}
      BY <1>1, <2>1 DEF Typed
    <3>2. Walk(q)
      BY <3>1, WalkBegins
    <3>3. Walk(q)'
      BY <1>1, <3>2, WalkKept
    <3>4. QED
      BY <2>1, <3>3 DEF Walk, Due, Existing
  <2>4. QED
    BY <1>1, <2>2, <2>3, WalksFrom
<1>2. ASSUME UNCHANGED <<stamp, rows, lister>> PROVE Walks'
  BY <1>2, WalksFrom, WalkKept DEF Walks, StampsDiffer, Walk, Due, Existing
<1>3. ASSUME NEW l \in Listers, ListStep(l) \/ FailList(l) PROVE Walks'
  <2>1. CASE FinishList(l) \/ FailList(l)
    BY <1>1, <2>1 DEF FinishList, FailList
  <2>2. QED
    BY <1>3, <2>1, FetchWalks, UpsertWalks DEF ListStep
<1>4. ASSUME ProbeForum \/ ProbeFails PROVE Walks'
  <2>1. UNCHANGED <<stamp, rows>>
    BY <1>4 DEF ProbeForum, ProbeFails
  <2>2. lister' = lister \/ lister' = [lister EXCEPT !["sync"] = Listing]
    BY <1>4 DEF ProbeForum, ProbeFails, Route
  <2>3. QED
    BY <1>1, <1>2, <2>1, <2>2 DEF Listers
<1>5. CASE RefreshTopics
  BY <1>1, <1>5 DEF RefreshTopics, Listers
<1>6. CASE Crash
  <2>1. UNCHANGED <<stamp, rows>> /\ lister' = [l \in Listers |-> IdleLister]
    BY <1>6 DEF Crash
  <2>2. PICK q : q = IdleLister
    OBVIOUS
  <2>3. Walk(q)'
    BY <2>1, <2>2, WalkBegins, WalkKept
  <2>4. QED
    BY <2>1, <2>2, <2>3 DEF Walks, StampsDiffer, Walk, Due, Existing
<1>7. ASSUME NEW t \in Topics, StartTopicSync(t) \/ EndTopicSync(t) \/ SkipTopic(t) \/ SyncTopic(t)
      PROVE  Walks'
  BY <1>2, <1>7 DEF StartTopicSync, EndTopicSync, SkipTopic, SyncTopic
<1>8. ASSUME \/ Convert \/ StartGroupSync \/ EndPlainSync \/ LoadTopics \/ TopicSynced
             \/ EndGroupSync \/ UNCHANGED vars
      PROVE  Walks'
  BY <1>2, <1>8 DEF Convert, StartGroupSync, EndPlainSync, LoadTopics, TopicSynced,
                    EndGroupSync, vars
<1>9. QED
  BY <1>3, <1>4, <1>5, <1>6, <1>7, <1>8, TelegramWalks DEF Next, GroupStep

\* A walk that comes to its end has saved all that stayed.
LEMMA WalksListed == Typed /\ Walks => SteadyListed
BY DEF Walks, Walk, Due, SteadyListed

\* Pages as short as Telegram likes, topics that move between two requests, other
\* listings, failures and crashes: discoverTopics of topics.go misses no topic that
\* stayed where it was.
THEOREM SteadyAreListed == Spec => []SteadyListed
<1>1. Init => Typed /\ Walks
  <2>1. Init => Typed
    BY IdleTypes, ForumAssumption DEF Init, Typed
  <2>2. Init => Walks
    BY WalkBegins, ForumAssumption DEF Init, Walks, StampsDiffer, Walk, IdleLister
  <2>3. QED
    BY <2>1, <2>2
<1>2. Typed /\ Walks /\ [Next]_vars => (Typed /\ Walks)'
  BY NextTyped, NextWalks
<1>3. QED
  BY <1>1, <1>2, WalksListed, PTL DEF Spec

-----------------------------------------------------------------------------
(* A group's sync covers what it owes *)

\* At each stage of the run, where a topic it owes is to be found.
Owes ==
    /\ group.pc = "list" <=> lister["sync"].pc # "off"
    /\ group.pc = "probe" => group.owed \subseteq rows \cup Existing
    /\ group.pc = "list" => group.owed \subseteq rows \cup lister["sync"].steady
    /\ group.pc = "load" => group.owed \subseteq rows
    /\ group.pc \in {"next", "topic"} => group.owed \subseteq todo \cup touched

\* While the group's sync runs, a topic somebody is syncing is one somebody synced.
Noted == group.pc # "off" => \A t \in Topics : runs[t] # {} => t \in touched

\* The run's own steps.
LEMMA GroupOwes ==
    ASSUME Typed, Claimed, Owes, Noted,
           \/ StartGroupSync \/ ProbeForum \/ ProbeFails \/ EndPlainSync \/ LoadTopics
           \/ TopicSynced \/ EndGroupSync
           \/ \E t \in Topics : SkipTopic(t) \/ SyncTopic(t)
    PROVE  Owes' /\ Noted'
<1> USE DEF topicRuns
<1>g. group \in GroupType /\ "sync" \in Listers
  BY DEF Typed, Listers
<1>1. CASE StartGroupSync
  <2>1. group'.pc = "probe" /\ group'.owed = Existing \cup rows
    BY <1>1 DEF StartGroupSync, IdleGroup
  <2>2. QED
    BY <1>1, <1>g, <2>1 DEF StartGroupSync, Owes, Noted, Existing
<1>2. CASE ProbeForum \/ ProbeFails
  <2>1. /\ group.pc = "probe" /\ UNCHANGED <<stamp, rows, todo, running, runs, touched>>
        /\ \/ Route(TRUE) \/ Route(FALSE)
    BY <1>2, <1>g DEF ProbeForum, ProbeFails, Typed, GroupType
  <2>2. CASE Route(TRUE)
    <3>1. group'.pc = "list" /\ group'.owed = group.owed
      BY <1>g, <2>2 DEF Route, GroupType
    <3>2. lister'["sync"].pc = "fetch" /\ lister'["sync"].steady = Existing
      <4>1. lister'["sync"] = Listing
        BY <1>g, <2>2 DEF Route, Typed
      <4>2. QED
        BY <4>1 DEF Listing, IdleLister
    <3>3. QED
      BY <2>1, <3>1, <3>2 DEF Owes, Noted
  <2>3. CASE Route(FALSE)
    <3>1. group'.pc = "plain" /\ lister' = lister
      BY <1>g, <2>3 DEF Route, GroupType
    <3>2. QED
      BY <2>1, <3>1 DEF Owes, Noted
  <2>4. QED
    BY <2>1, <2>2, <2>3
<1>3. CASE EndPlainSync \/ EndGroupSync
  <2>1. group'.pc = "off" /\ lister' = lister /\ group.pc # "list"
    BY <1>3 DEF EndPlainSync, EndGroupSync, IdleGroup
  <2>2. QED
    BY <2>1 DEF Owes, Noted
<1>4. CASE LoadTopics
  <2>1. group'.pc = "next" /\ group'.owed = group.owed
    BY <1>4, <1>g DEF LoadTopics, GroupType
  <2>2. QED
    BY <1>4, <2>1 DEF LoadTopics, Owes, Noted
<1>5. CASE TopicSynced
  <2>1. group'.pc = "next" /\ group'.owed = group.owed
    BY <1>5, <1>g DEF TopicSynced, GroupType
  <2>2. \A t \in Topics : runs'[t] # {} => runs[t] # {}
    BY <1>5 DEF TopicSynced, EndTopic, Typed
  <2>3. QED
    BY <1>5, <2>1, <2>2 DEF TopicSynced, EndTopic, Owes, Noted
<1>6. ASSUME NEW t \in Topics, SkipTopic(t) PROVE Owes' /\ Noted'
  <2>1. t \in touched
    BY <1>6 DEF SkipTopic, MayClaim, Claimed, Noted
  <2>2. QED
    BY <1>6, <2>1 DEF SkipTopic, AfterSkip, Owes, Noted
<1>7. ASSUME NEW t \in Topics, SyncTopic(t) PROVE Owes' /\ Noted'
  <2>1. group'.pc = "topic" /\ group'.owed = group.owed
    BY <1>7, <1>g DEF SyncTopic, GroupType
  <2>2. \A s \in Topics : s # t => runs'[s] = runs[s]
    BY <1>7 DEF SyncTopic, BeginTopic, Typed
  <2>3. QED
    BY <1>7, <2>1, <2>2 DEF SyncTopic, BeginTopic, Owes, Noted
<1>8. QED
  BY <1>1, <1>2, <1>3, <1>4, <1>5, <1>6, <1>7

\* The listing the run waits for.
LEMMA ListOwes ==
    ASSUME Typed, Walks, Owes, Noted, NEW l \in Listers, ListStep(l) \/ FailList(l)
    PROVE  Owes' /\ Noted'
<1> USE DEF topicRuns
<1>g. group \in GroupType /\ "sync" \in Listers
  BY DEF Typed, Listers
<1>1. CASE FetchTopics(l)
  <2>1. /\ lister[l].pc # "off" /\ lister'[l].pc # "off" /\ lister'[l].steady = lister[l].steady
        /\ \A m \in Listers : m # l => lister'[m] = lister[m]
    BY <1>1, FetchCases DEF FetchTopics, AfterFetch
  <2>2. /\ lister'["sync"].pc # "off" <=> lister["sync"].pc # "off"
        /\ lister'["sync"].steady = lister["sync"].steady
    BY <1>g, <2>1
  <2>3. QED
    BY <1>1, <2>2 DEF FetchTopics, Owes, Noted, Existing
<1>2. CASE UpsertTopic(l)
  <2>1. /\ lister[l] \in ListerType /\ lister[l].pc = "upsert" /\ rows \subseteq rows'
        /\ \/ lister' = [lister EXCEPT ![l] = NextOnPage(lister[l])]
           \/ lister' = [lister EXCEPT ![l] = AfterPage(lister[l])]
        /\ UNCHANGED <<stamp, group, todo, runs, touched>>
    BY <1>2, UpsertCases
  <2>2. /\ NextOnPage(lister[l]).pc # "off" /\ NextOnPage(lister[l]).steady = lister[l].steady
        /\ AfterPage(lister[l]).pc # "off" /\ AfterPage(lister[l]).steady = lister[l].steady
    BY <2>1 DEF NextOnPage, AfterPage, ListerType
  <2>3. /\ lister'["sync"].pc # "off" <=> lister["sync"].pc # "off"
        /\ lister'["sync"].steady = lister["sync"].steady
    BY <1>g, <2>1, <2>2 DEF Typed
  <2>4. QED
    BY <2>1, <2>3 DEF Owes, Noted, Existing
<1>3. CASE FinishList(l)
  <2>1. lister[l].pc = "finish" /\ lister' = [lister EXCEPT ![l] = IdleLister]
        /\ UNCHANGED <<stamp, rows, todo, runs, touched>>
    BY <1>3 DEF FinishList
  <2>2. CASE l = "sync"
    <3>1. group.pc = "list" /\ group.owed \subseteq rows
      BY <2>1, <2>2 DEF Owes, Walks, Walk, Due
    <3>2. group'.pc = "load" /\ group'.owed = group.owed
      BY <1>3, <1>g, <2>2 DEF FinishList, GroupType
    <3>3. lister'["sync"].pc = "off"
      BY <2>1, <2>2, IdleTypes DEF Typed
    <3>4. QED
      BY <2>1, <3>1, <3>2, <3>3 DEF Owes, Noted
  <2>3. CASE l # "sync"
    <3>1. group' = group /\ lister'["sync"] = lister["sync"]
      BY <1>3, <1>g, <2>1, <2>3 DEF FinishList, Typed
    <3>2. QED
      BY <2>1, <3>1 DEF Owes, Noted, Existing
  <2>4. QED
    BY <2>2, <2>3
<1>4. CASE FailList(l)
  <2>1. lister' = [lister EXCEPT ![l] = IdleLister]
        /\ UNCHANGED <<stamp, rows, todo, runs, touched>>
    BY <1>4 DEF FailList
  <2>2. CASE l = "sync"
    <3>1. group'.pc = "off" /\ lister'["sync"].pc = "off"
      BY <1>4, <2>1, <2>2, IdleTypes DEF FailList, Typed
    <3>2. QED
      BY <3>1 DEF Owes, Noted
  <2>3. CASE l # "sync"
    <3>1. group' = group /\ lister'["sync"] = lister["sync"]
      BY <1>4, <1>g, <2>1, <2>3 DEF FailList, Typed
    <3>2. QED
      BY <2>1, <3>1 DEF Owes, Noted, Existing
  <2>4. QED
    BY <2>2, <2>3
<1>5. QED
  BY <1>1, <1>2, <1>3, <1>4 DEF ListStep

\* A topic that moved while it was listed, and had no row, is owed no longer.
LEMMA TelegramOwes ==
    ASSUME Typed, Owes, Noted, NEW t \in Topics, Post(t) \/ DeleteNewest(t)
    PROVE  Owes' /\ Noted'
<1>g. group \in GroupType /\ "sync" \in Listers /\ lister["sync"] \in ListerType
  BY DEF Typed, Listers
<1>1. UNCHANGED <<rows, todo, runs, touched>>
  BY DEF Post, DeleteNewest, topicRuns
<1>2. group'.pc = group.pc /\ group'.owed \subseteq group.owed
  <2>1. Unlisted(t) \subseteq group.owed
    BY DEF Unlisted
  <2>2. CASE Post(t)
    BY <1>g, <2>1, <2>2 DEF Post, GroupType
  <2>3. CASE DeleteNewest(t)
    BY <1>g, <2>1, <2>3 DEF DeleteNewest, GroupType
  <2>4. QED
    BY <2>2, <2>3
<1>3. lister'["sync"].pc = lister["sync"].pc
  BY <1>g DEF Post, DeleteNewest, ListerType
<1>4. Existing \subseteq Existing'
  <2>1. PICK n \in 1..MaxStamp : stamp' = [stamp EXCEPT ![t] = n]
    BY DEF Post, DeleteNewest
  <2>2. QED
    BY <2>1, ForumAssumption DEF Existing, Typed
<1>5. ASSUME group.pc = "list"
      PROVE  group'.owed \subseteq rows \cup lister'["sync"].steady
  <2>1. group.owed \subseteq rows \cup lister["sync"].steady /\ lister["sync"].pc # "off"
    BY <1>5 DEF Owes
  <2>2. Unlisted(t) \subseteq rows \cup (lister["sync"].steady \ {t})
    BY <2>1 DEF Unlisted
  <2>3. CASE Post(t)
    <3>1. group'.owed = Unlisted(t) /\ lister'["sync"].steady = lister["sync"].steady \ {t}
      BY <1>g, <2>3 DEF Post, GroupType, ListerType
    <3>2. QED
      BY <2>2, <3>1
  <2>4. CASE DeleteNewest(t) /\ StandsAt(lister["sync"], t)
    <3>1. group'.owed = group.owed \cap rows
      BY <1>g, <2>4 DEF DeleteNewest, GroupType
    <3>2. QED
      BY <3>1
  <2>5. CASE DeleteNewest(t) /\ ~StandsAt(lister["sync"], t)
    <3>1. group'.owed = Unlisted(t) /\ lister'["sync"].steady = lister["sync"].steady \ {t}
      BY <1>g, <2>5 DEF DeleteNewest, GroupType, ListerType
    <3>2. QED
      BY <2>2, <3>1
  <2>6. QED
    BY <2>3, <2>4, <2>5
<1>6. QED
  BY <1>1, <1>2, <1>3, <1>4, <1>5 DEF Owes, Noted

\* Every step keeps what is owed in sight.
LEMMA NextOwes ==
    ASSUME Typed, Claimed, Walks, Owes, Noted, [Next]_vars
    PROVE  Owes' /\ Noted'
<1> USE DEF topicRuns
<1>g. group \in GroupType /\ "sync" \in Listers
  BY DEF Typed, Listers
<1>1. ASSUME NEW t \in Topics, StartTopicSync(t) \/ EndTopicSync(t) PROVE Owes' /\ Noted'
  <2>1. CASE StartTopicSync(t)
    <3>1. \A s \in Topics : s # t => runs'[s] = runs[s]
      BY <2>1 DEF StartTopicSync, BeginTopic, Typed
    <3>2. touched' = touched \cup {t} /\ UNCHANGED <<stamp, rows, lister, group, todo>>
      BY <2>1 DEF StartTopicSync, BeginTopic
    <3>3. QED
      BY <3>1, <3>2 DEF Owes, Noted, Existing
  <2>2. CASE EndTopicSync(t)
    <3>1. \A s \in Topics : runs'[s] # {} => runs[s] # {}
      BY <2>2 DEF EndTopicSync, EndTopic, Typed
    <3>2. UNCHANGED <<stamp, rows, lister, group, todo, touched>>
      BY <2>2 DEF EndTopicSync, EndTopic
    <3>3. QED
      BY <3>1, <3>2 DEF Owes, Noted, Existing
  <2>3. QED
    BY <1>1, <2>1, <2>2
<1>2. CASE RefreshTopics
  <2>1. lister'["sync"] = lister["sync"] /\ UNCHANGED <<stamp, rows, group, todo, runs, touched>>
    BY <1>2, <1>g DEF RefreshTopics, Typed
  <2>2. QED
    BY <2>1 DEF Owes, Noted, Existing
<1>3. CASE Crash
  <2>1. group'.pc = "off" /\ lister'["sync"].pc = "off"
    BY <1>3, <1>g, IdleTypes DEF Crash
  <2>2. QED
    BY <2>1 DEF Owes, Noted
<1>4. CASE Convert \/ UNCHANGED vars
  <2>1. UNCHANGED <<stamp, rows, lister, group, todo, runs, touched>>
    BY <1>4 DEF Convert, vars
  <2>2. QED
    BY <2>1 DEF Owes, Noted, Existing
<1>5. QED
  BY <1>1, <1>2, <1>3, <1>4, GroupOwes, ListOwes, TelegramOwes DEF Next, GroupStep

\* Topics other people sync, listings that fail, messages that come and go, crashes:
\* a group's sync that has nothing left to do has had every topic it owed synced
\* (runForumSync of sync.go).
THEOREM ForumIsCovered == Spec => []ForumCovered
<1> DEFINE Inv == Typed /\ Claimed /\ Walks /\ Owes /\ Noted
<1>1. Init => Inv
  <2>1. Init => Typed
    BY IdleTypes, ForumAssumption DEF Init, Typed
  <2>2. Init => Walks
    BY WalkBegins, ForumAssumption DEF Init, Walks, StampsDiffer, Walk, IdleLister
  <2>3. Init => Claimed
    BY DEF Init, Claimed
  <2>4. Init => Owes /\ Noted
    BY IdleTypes DEF Init, Owes, Noted, Listers
  <2>5. QED
    BY <2>1, <2>2, <2>3, <2>4
<1>2. Inv /\ [Next]_vars => Inv'
  BY NextTyped, NextKeepsClaimed, NextWalks, NextOwes
<1>3. Inv => ForumCovered
  BY DEF Owes, ForumCovered
<1>4. QED
  BY <1>1, <1>2, <1>3, PTL DEF Spec

=============================================================================
