----------------------------- MODULE ForumSync ------------------------------
(****************************************************************************)
(* Synchronisation of a forum group (internal/indexer/sync.go, topics.go):  *)
(* the forum flag is asked again, the topics are listed page by page, and   *)
(* each topic is synced in turn, beside the topic's own sync button, the    *)
(* scheduler, and the other callers that list topics.  What the sync of one *)
(* topic does to its rows is module HistorySync; here it begins and ends.   *)
(*                                                                          *)
(* Telegram lists topics by their newest message, newest first; a topic's   *)
(* stamp is that message's id, 0 before the topic exists.                   *)
(****************************************************************************)
EXTENDS Naturals, FiniteSets, Sequences

CONSTANTS
    Topics,
    PageSize,     \* messages.getForumTopics limit (100 in the code)
    SeedStamps,   \* Topics -> the stamp each has when the model starts
    SeedRows,     \* topics that have a row by then
    Clicked,      \* topics whose own sync button is used
    MaxStamp,     \* newest message ever posted
    MaxEvents,    \* how many of: calls of RefreshTopics, failed requests, crashes,
                  \* deleted messages, changes of the group's kind
    None          \* no topic

\* Two topics never have one newest message: ids are unique in a channel.
ASSUME ForumAssumption ==
    /\ IsFiniteSet(Topics)
    /\ \A s, t \in Topics : SeedStamps[s] = SeedStamps[t] => s = t \/ SeedStamps[s] = 0
    /\ PageSize \in Nat \ {0} /\ MaxStamp \in Nat /\ MaxEvents \in Nat
    /\ SeedStamps \in [Topics -> 0..MaxStamp]
    /\ SeedRows \subseteq Topics /\ Clicked \subseteq Topics
    /\ None \notin Topics

\* Who lists topics: the group's sync, and RefreshTopics, which stands for the
\* handler and for the dialog enumeration.
Listers == {"sync", "refresh"}

VARIABLES
    stamp,     \* Telegram: newest message of each topic
    forum,     \* Telegram: the group is a forum
    rows,      \* topics with a channels row
    flag,      \* is_forum of the group's row
    lister,    \* locals of each discoverTopics
    group,     \* the sync run of the group
    todo,      \* topics the run has still to sync
    running,   \* Indexer.syncs: the Running flag of each topic's entry
    runs,      \* runSync goroutines of each topic, by who started them
    touched,   \* topics some run synced since the group's run began (history)
    events     \* how many of MaxEvents are left

vars == <<stamp, forum, rows, flag, lister, group, todo, running, runs, touched,
          events>>
topicRuns == <<running, runs, touched>>

\* steady and owed are history: what the walk, and the run, must not miss.
IdleLister == [pc |-> "off", page |-> <<>>, at |-> 1, offset |-> 0, cursor |-> None,
               steady |-> {}]
IdleGroup  == [pc |-> "off", forum |-> FALSE, topic |-> None, owed |-> {}]

Existing == {t \in Topics : stamp[t] # 0}
Used     == {stamp[t] : t \in Topics}
Event    == events > 0 /\ events' = events - 1

-----------------------------------------------------------------------------
(* Telegram *)

Unlisted(t) == IF lister["sync"].pc # "off" /\ t \notin rows
               THEN group.owed \ {t} ELSE group.owed

\* A message creates a topic or moves it to the top of the list.
Post(t) ==
    /\ \E n \in 1..MaxStamp :
         /\ \A m \in Used : m < n
         /\ \A k \in 1..(n - 1) : \E m \in Used : k <= m
         /\ stamp' = [stamp EXCEPT ![t] = n]
    /\ lister' = [l \in Listers |-> [lister[l] EXCEPT !.steady = @ \ {t}]]
    /\ group' = [group EXCEPT !.owed = Unlisted(t)]
    /\ UNCHANGED <<forum, rows, flag, todo, topicRuns, events>>

\* A deleted message moves its topic down.  A walk that stands at this very
\* topic may meet it again and take that for the end of the list.
StandsAt(r, t) == t = r.cursor \/ \E i \in 1..Len(r.page) : r.page[i].topic = t

DeleteNewest(t) ==
    /\ Event
    /\ \E n \in 1..MaxStamp : /\ n < stamp[t] /\ n \notin Used
                              /\ stamp' = [stamp EXCEPT ![t] = n]
    /\ lister' = [l \in Listers |->
                    [lister[l] EXCEPT !.steady = IF StandsAt(lister[l], t) THEN {}
                                                 ELSE @ \ {t}]]
    /\ group' = [group EXCEPT !.owed = IF StandsAt(lister["sync"], t)
                                       THEN @ \cap rows ELSE Unlisted(t)]
    /\ UNCHANGED <<forum, rows, flag, todo, topicRuns>>

Convert ==
    /\ Event
    /\ forum' = ~forum
    /\ UNCHANGED <<stamp, rows, flag, lister, group, todo, topicRuns>>

\* The answers to a request: the newest topics below the offset, as many as
\* the server likes, but not none unless there are none.
Below(n) == {t \in Existing : n = 0 \/ stamp[t] < n}

Pages(n) ==
    {p \in UNION {[1..k -> Below(n)] : k \in 0..PageSize} :
        /\ p = <<>> => Below(n) = {}
        /\ \A i \in 1..Len(p) :
             Cardinality({t \in Below(n) : stamp[t] > stamp[p[i]]}) = i - 1}

-----------------------------------------------------------------------------
(* discoverTopics *)

Listing == [IdleLister EXCEPT !.pc = "fetch", !.steady = Existing]

\* An empty page is the end of the list.
AfterFetch_Polls(p) == IF p = <<>> THEN "fetch" ELSE "upsert"
AfterFetch(p) == IF p = <<>> THEN "finish" ELSE "upsert"

FetchTopics(l) ==
    /\ lister[l].pc = "fetch"
    /\ \E p \in Pages(lister[l].offset) :
         lister' = [lister EXCEPT ![l].page = [i \in 1..Len(p) |->
                                                [topic |-> p[i], top |-> stamp[p[i]]]],
                                  ![l].at = 1,
                                  ![l].pc = AfterFetch(p)]
    /\ UNCHANGED <<stamp, forum, rows, flag, group, todo, topicRuns, events>>

\* The walk ends when the cursor did not advance; a short page does not end it.
WalkOver_ShortPage(r, t) == t = r.cursor \/ Len(r.page) < PageSize
WalkOver(r, t) == t = r.cursor

MoreOnPage_OffByOne(r) == r.at <= Len(r.page)
MoreOnPage(r) == r.at < Len(r.page)

\* upsertTopic, one statement per topic; after the last one the next page is due.
UpsertTopic(l) ==
    LET r == lister[l]
        e == r.page[r.at]
        next == IF MoreOnPage(r) THEN [r EXCEPT !.at = @ + 1]
                ELSE [r EXCEPT !.page = <<>>, !.at = 1, !.cursor = e.topic,
                               !.pc = IF WalkOver(r, e.topic) THEN "finish"
                                      ELSE "fetch"]
    IN  /\ r.pc = "upsert"
        /\ rows' = rows \cup {e.topic}
        /\ lister' = [lister EXCEPT ![l] = [next EXCEPT !.offset = e.top]]
        /\ UNCHANGED <<stamp, forum, flag, group, todo, topicRuns, events>>

\* SetTopicsSynced, which also says that the group is a forum.
FinishList(l) ==
    /\ lister[l].pc = "finish"
    /\ flag' = TRUE
    /\ lister' = [lister EXCEPT ![l] = IdleLister]
    /\ group' = IF l = "sync" THEN [group EXCEPT !.pc = "load"] ELSE group
    /\ UNCHANGED <<stamp, forum, rows, todo, topicRuns, events>>

\* A request or a statement fails: so does the group's sync, before any topic.
FailList(l) ==
    /\ Event /\ lister[l].pc # "off"
    /\ lister' = [lister EXCEPT ![l] = IdleLister]
    /\ group' = IF l = "sync" THEN IdleGroup ELSE group
    /\ UNCHANGED <<stamp, forum, rows, flag, todo, topicRuns>>

RefreshTopics ==
    /\ Event /\ lister["refresh"].pc = "off"
    /\ lister' = [lister EXCEPT !["refresh"] = Listing]
    /\ UNCHANGED <<stamp, forum, rows, flag, group, todo, topicRuns>>

-----------------------------------------------------------------------------
(* Sync runs.  runSync of one topic, by its own SyncStart or by the group.  *)

MayClaim_Always(t) == TRUE
MayClaim(t) == ~running[t]

BeginTopic(t, who) ==
    /\ running' = [running EXCEPT ![t] = TRUE]
    /\ runs' = [runs EXCEPT ![t] = @ \cup {who}]
    /\ touched' = touched \cup {t}

EndTopic(t, who) ==
    /\ who \in runs[t]
    /\ running' = [running EXCEPT ![t] = FALSE]
    /\ runs' = [runs EXCEPT ![t] = @ \ {who}]
    /\ UNCHANGED touched

StartTopicSync(t) ==
    /\ t \in rows \cap Clicked /\ MayClaim(t) /\ "button" \notin runs[t]
    /\ BeginTopic(t, "button")
    /\ UNCHANGED <<stamp, forum, rows, flag, lister, group, todo, events>>

EndTopicSync(t) ==
    /\ EndTopic(t, "button")
    /\ UNCHANGED <<stamp, forum, rows, flag, lister, group, todo, events>>

\* SyncStart of the group; its own entry is running until the end.
StartGroupSync ==
    /\ group.pc = "off"
    /\ group' = [IdleGroup EXCEPT !.pc = "probe", !.forum = flag,
                                  !.owed = Existing \cup rows]
    /\ touched' = {t \in Topics : runs[t] # {}}
    /\ UNCHANGED <<stamp, forum, rows, flag, lister, todo, running, runs, events>>

\* What runChannelSync does with the answer of refreshForumFlag.
Route(isForum) ==
    IF isForum
    THEN /\ group' = [group EXCEPT !.pc = "list"]
         /\ lister' = [lister EXCEPT !["sync"] = Listing]
    ELSE /\ group' = [group EXCEPT !.pc = "plain"]
         /\ UNCHANGED lister

\* The row is written only when Telegram's answer differs from the row read at the
\* start of the run.
ProbeForum ==
    /\ group.pc = "probe"
    /\ flag' = IF forum = group.forum THEN flag ELSE forum
    /\ Route(forum)
    /\ UNCHANGED <<stamp, forum, rows, todo, topicRuns, events>>

\* A failed probe keeps what the row said when the run was started.
ProbeFails ==
    /\ Event /\ group.pc = "probe"
    /\ Route(group.forum)
    /\ UNCHANGED <<stamp, forum, rows, flag, todo, topicRuns>>

EndPlainSync ==
    /\ group.pc = "plain"
    /\ group' = IdleGroup
    /\ UNCHANGED <<stamp, forum, rows, flag, lister, todo, topicRuns, events>>

\* ListTopics: every topic the group has a row for, in any order.
LoadTopics ==
    /\ group.pc = "load"
    /\ todo' = rows
    /\ group' = [group EXCEPT !.pc = "next"]
    /\ UNCHANGED <<stamp, forum, rows, flag, lister, topicRuns, events>>

\* A topic that is being synced already is skipped.
AfterSkip_Breaks(t) == {}
AfterSkip(t) == todo \ {t}

SkipTopic(t) ==
    /\ group.pc = "next" /\ t \in todo /\ ~MayClaim(t)
    /\ todo' = AfterSkip(t)
    /\ UNCHANGED <<stamp, forum, rows, flag, lister, group, topicRuns, events>>

SyncTopic(t) ==
    /\ group.pc = "next" /\ t \in todo /\ MayClaim(t)
    /\ BeginTopic(t, "group")
    /\ todo' = todo \ {t}
    /\ group' = [group EXCEPT !.pc = "topic", !.topic = t]
    /\ UNCHANGED <<stamp, forum, rows, flag, lister, events>>

\* The run of the topic is synchronous.
TopicSynced ==
    /\ group.pc = "topic"
    /\ EndTopic(group.topic, "group")
    /\ group' = [group EXCEPT !.pc = "next", !.topic = None]
    /\ UNCHANGED <<stamp, forum, rows, flag, lister, todo, events>>

EndGroupSync ==
    /\ group.pc = "next" /\ todo = {}
    /\ group' = IdleGroup
    /\ touched' = {}
    /\ UNCHANGED <<stamp, forum, rows, flag, lister, todo, running, runs, events>>

Crash ==
    /\ Event
    /\ lister' = [l \in Listers |-> IdleLister]
    /\ group' = IdleGroup
    /\ todo' = {} /\ touched' = {}
    /\ running' = [t \in Topics |-> FALSE]
    /\ runs' = [t \in Topics |-> {}]
    /\ UNCHANGED <<stamp, forum, rows, flag>>

-----------------------------------------------------------------------------
Init ==
    /\ stamp = SeedStamps
    /\ forum = TRUE
    /\ rows = SeedRows
    /\ flag \in BOOLEAN
    /\ lister = [l \in Listers |-> IdleLister]
    /\ group = IdleGroup
    /\ todo = {} /\ touched = {}
    /\ running = [t \in Topics |-> FALSE]
    /\ runs = [t \in Topics |-> {}]
    /\ events = MaxEvents

ListStep(l) == FetchTopics(l) \/ UpsertTopic(l) \/ FinishList(l)

GroupStep == \/ ProbeForum \/ EndPlainSync \/ LoadTopics \/ TopicSynced
             \/ EndGroupSync
             \/ \E t \in Topics : SkipTopic(t) \/ SyncTopic(t)

Next == \/ \E t \in Topics : \/ Post(t) \/ DeleteNewest(t)
                             \/ StartTopicSync(t) \/ EndTopicSync(t)
        \/ \E l \in Listers : ListStep(l) \/ FailList(l)
        \/ StartGroupSync \/ ProbeFails \/ GroupStep
        \/ RefreshTopics \/ Convert \/ Crash

Spec == Init /\ [][Next]_vars

\* Goroutines go on: every request they make has a deadline, and HistorySync
\* shows that a topic's run ends.  Nobody has to click or to post.
Fairness == /\ WF_vars(GroupStep)
            /\ \A l \in Listers : WF_vars(ListStep(l))
            /\ \A t \in Topics : WF_vars(EndTopicSync(t))

FairSpec == Spec /\ Fairness

-----------------------------------------------------------------------------
(* Properties *)

\* Every variable keeps its type, and a listing never reads past its page.
TypeOK ==
    /\ stamp \in [Topics -> 0..MaxStamp]
    /\ forum \in BOOLEAN /\ flag \in BOOLEAN
    /\ rows \subseteq Topics /\ todo \subseteq Topics /\ touched \subseteq Topics
    /\ \A l \in Listers :
         /\ lister[l].pc \in {"off", "fetch", "upsert", "finish"}
         /\ lister[l].page \in Seq([topic : Topics, top : 1..MaxStamp])
         /\ lister[l].pc = "upsert" => lister[l].at \in 1..Len(lister[l].page)
         /\ lister[l].offset \in 0..MaxStamp
         /\ lister[l].cursor \in Topics \cup {None}
         /\ lister[l].steady \subseteq Topics
    /\ group.pc \in {"off", "probe", "plain", "list", "load", "next", "topic"}
    /\ running \in [Topics -> BOOLEAN]
    /\ runs \in [Topics -> SUBSET {"group", "button"}]
    /\ events \in 0..MaxEvents

\* The group's sync and the topic's own button never run two syncs of one
\* topic, which would move the same cursor: both claim the topic's entry.
OneRunPerTopic == \A t \in Topics : Cardinality(runs[t]) <= 1

\* A listing that reaches its end has upserted every topic that existed when it
\* began and did not move, however short the pages were and whatever was posted
\* in other topics between two of them.
SteadyListed ==
    \A l \in Listers : lister[l].pc = "finish" => lister[l].steady \subseteq rows

\* A group's sync that comes to its end has had a run, its own or one of the
\* topic's button, on every topic that had a row or existed when it began,
\* except those that moved while it listed them.
ForumCovered ==
    group.pc = "next" /\ todo = {} => group.owed \subseteq touched

\* Every group's sync ends: topics bumped while they are listed and topics
\* busy with another run do not hold it up for ever.
GroupSyncEnds == group.pc = "probe" ~> group.pc = "off"
=============================================================================
