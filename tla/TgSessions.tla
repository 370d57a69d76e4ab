----------------------------- MODULE TgSessions -----------------------------
(****************************************************************************)
(* Telegram accounts of one user: login flows (internal/tglogin/flow.go),   *)
(* the rows of tg_sessions (internal/db/tg_sessions.go), the clients kept   *)
(* online for them (internal/tgmanager/manager.go), the enumeration of      *)
(* dialogs they start (internal/indexer/indexer.go), and the handlers of    *)
(* internal/api/handlers/tglogin.go.                                        *)
(*                                                                          *)
(* Login f creates row f: both are numbered in the order of the requests,   *)
(* which is the order of the serial id.  A row's blob is named after the    *)
(* login whose client made the auth key in it.                              *)
(****************************************************************************)
EXTENDS Naturals, FiniteSets

CONSTANTS
    Accounts,     \* Telegram accounts the user logs in to
    MaxLogins,    \* logins ever started
    MaxWalkers,   \* goroutines of TriggerDiscover that may live at one time
    MaxEvents,    \* how many of: calls of DeleteSession and RefreshDiscover,
                  \* auth keys ended by Telegram, deaths of the process
    None,         \* no account, no row, no client, no blob (NULL)
    NewKey        \* a key made by a client that found no blob: not authorized

ASSUME SessionsAssumption ==
    /\ MaxLogins \in Nat /\ MaxEvents \in Nat /\ MaxWalkers \in Nat
    /\ None \notin Nat /\ NewKey \notin Nat /\ None # NewKey
    /\ None \notin Accounts
    /\ None \notin [session : Nat, key : Nat \cup {NewKey}, by : Nat \cup {None}]

Logins   == 1..MaxLogins
Sessions == Logins
Walkers  == 1..MaxWalkers

VARIABLES
    row,       \* the table tg_sessions
    flow,      \* tglogin.Manager: goroutine and channels of each login
    client,    \* tgmanager.Manager.clients
    running,   \* gotd clients that are connected, in that map or not
    authorized, \* the auth keys Telegram accepts
    registered, \* Indexer.discoverRunning
    walker,    \* the goroutines of TriggerDiscover
    deletion,  \* the call of DeleteSession in progress
    booting,   \* sessions RestoreActive has still to start
    contended, \* accounts on which two requests overlapped (history)
    events     \* how many of MaxEvents are left

vars == <<row, flow, client, running, authorized, registered, walker, deletion,
          booting, contended, events>>

NoRow      == [status |-> "none", account |-> None, blob |-> None, discover |-> "idle"]
NoDeletion == [session |-> None, stopping |-> None]
Idle       == [session |-> None, pc |-> "off"]
NewFlow    == [pc |-> "new", account |-> None, listed |-> FALSE, cancelled |-> FALSE,
               code |-> FALSE, password |-> FALSE, session |-> None]

Exists(s)  == row[s].status # "none"
Up         == booting = {}

-----------------------------------------------------------------------------
(* Login flows *)

\* Until the row is activated, whatever ends the context or fails ends the flow.
Undecided == {"connect", "code", "password", "authorized", "commit"}
\* The stages of onActivated: tgManager.Start, then TriggerDiscover.
Starting  == {"check", "dial", "probe", "trigger"}
InFlight(f) == flow[f].pc \in Undecided \cup Starting

Goto(f, pc) == flow' = [flow EXCEPT ![f].pc = pc]

\* The goroutine closes doneCh and ends; nobody reads its channels any more.
EndedFlow(r) == [NewFlow EXCEPT !.pc = "ended", !.account = r.account,
                                !.listed = r.listed]
End(f) == flow' = [flow EXCEPT ![f] = EndedFlow(@)]

\* Login.Start: the pending row, the flow in the map, the goroutine.
StartLogin(f, a) ==
    /\ Up /\ flow[f].pc = "new"
    /\ \A g \in Logins : g < f => flow[g].pc # "new"
    /\ row' = [row EXCEPT ![f] = [NoRow EXCEPT !.status = "pending"]]
    /\ flow' = [flow EXCEPT ![f] = [NewFlow EXCEPT !.pc = "connect", !.account = a,
                                                   !.listed = TRUE]]
    /\ contended' = IF \/ \E g \in Logins : InFlight(g) /\ flow[g].account = a
                       \/ /\ deletion.session # None
                          /\ flow[deletion.session].account = a
                    THEN contended \cup {a} ELSE contended
    /\ UNCHANGED <<client, running, authorized, registered, walker, deletion,
                   booting, events>>

\* client.Run connects, stores its key, and the auth flow asks for the code.
ConnectLogin(f) ==
    /\ flow[f].pc = "connect"
    /\ row' = [row EXCEPT ![f].blob = f]
    /\ Goto(f, "code")
    /\ UNCHANGED <<client, running, authorized, registered, walker, deletion,
                   booting, contended, events>>

\* SubmitCode and SubmitPassword fill a channel of one place; they wait five
\* seconds for the place and give up.  The user has the id of the flow once
\* Start answers that it needs the code; what comes after the authenticator took
\* one stays in the channel unread.
SubmitCode(f) ==
    /\ Up /\ flow[f].listed /\ ~flow[f].code /\ flow[f].pc = "code"
    /\ flow' = [flow EXCEPT ![f].code = TRUE]
    /\ UNCHANGED <<row, client, running, authorized, registered, walker, deletion,
                   booting, contended, events>>

SubmitPassword(f) ==
    /\ Up /\ flow[f].listed /\ ~flow[f].password
    /\ flow[f].pc \in {"code", "password"}
    /\ flow' = [flow EXCEPT ![f].password = TRUE]
    /\ UNCHANGED <<row, client, running, authorized, registered, walker, deletion,
                   booting, contended, events>>

\* The authenticator takes the code.  The account may have a password.
TakeCode(f) ==
    /\ flow[f].pc = "code" /\ flow[f].code
    /\ \/ /\ flow' = [flow EXCEPT ![f].code = FALSE, ![f].pc = "password"]
          /\ UNCHANGED authorized
       \/ /\ flow' = [flow EXCEPT ![f].code = FALSE, ![f].pc = "authorized"]
          /\ authorized' = authorized \cup {f}
    /\ UNCHANGED <<row, client, running, registered, walker, deletion, booting,
                   contended, events>>

TakePassword(f) ==
    /\ flow[f].pc = "password" /\ flow[f].password
    /\ flow' = [flow EXCEPT ![f].password = FALSE, ![f].pc = "authorized"]
    /\ authorized' = authorized \cup {f}
    /\ UNCHANGED <<row, client, running, registered, walker, deletion, booting,
                   contended, events>>

\* The rows the SELECT of ActivateAndConsolidateTGSession ranges over.
SameAccount_Active(f, a) ==
    {s \in Sessions \ {f} : row[s].account = a /\ row[s].status = "active"}
SameAccount(f, a) == {s \in Sessions \ {f} : row[s].account = a}

\* The row this login will be folded into: the oldest, or its own.
Canonical(f) ==
    LET old == SameAccount(f, flow[f].account)
    IN  IF old = {} THEN {f} ELSE {s \in old : \A t \in old : s <= t}

\* client.Self, then the SELECT.
FindCanonical(f) ==
    /\ flow[f].pc = "authorized"
    /\ \E s \in Canonical(f) :
         flow' = [flow EXCEPT ![f].pc = "commit", ![f].session = s]
    /\ UNCHANGED <<row, client, running, authorized, registered, walker, deletion,
                   booting, contended, events>>

\* The UPDATE in place, or the UPDATE of the canonical row and the DELETE.
Consolidated_KeepsBlob(f, s, a) ==
    [t \in Sessions |->
        CASE t = s          -> [row[t] EXCEPT !.status = "active", !.account = a]
          [] t = f /\ t # s -> NoRow
          [] OTHER          -> row[t]]
Consolidated_DropsOld(f, s, a) ==
    [t \in Sessions |->
        CASE t = f          -> [row[t] EXCEPT !.status = "active", !.account = a]
          [] t = s /\ t # f -> NoRow
          [] OTHER          -> row[t]]
Consolidated(f, s, a) ==
    [t \in Sessions |->
        CASE t = s          -> [row[t] EXCEPT !.status = "active", !.account = a,
                                              !.blob = row[f].blob]
          [] t = f /\ t # s -> NoRow
          [] OTHER          -> row[t]]

Activate(f) ==
    /\ flow[f].pc = "commit"
    /\ row' = Consolidated(f, flow[f].session, flow[f].account)
    /\ Goto(f, "check")
    /\ UNCHANGED <<client, running, authorized, registered, walker, deletion,
                   booting, contended, events>>

\* Telegram or the database fails, the code is wrong, the context is cancelled.
FailLogin(f) ==
    /\ flow[f].pc \in Undecided
    /\ End(f)
    /\ UNCHANGED <<row, client, running, authorized, registered, walker, deletion,
                   booting, contended, events>>

\* A handler still waiting for doneCh removes the flow from the map.
ForgetLogin(f) ==
    /\ flow[f].pc = "ended" /\ flow[f].listed
    /\ flow' = [flow EXCEPT ![f].listed = FALSE]
    /\ UNCHANGED <<row, client, running, authorized, registered, walker, deletion,
                   booting, contended, events>>

\* gcLoop, fifteen minutes after the start of the flow.
Collected_NotCancelled(r) == [r EXCEPT !.listed = FALSE]
Collected(r) == [r EXCEPT !.listed = FALSE, !.cancelled = r.pc # "ended"]

CollectLogin(f) ==
    /\ flow[f].listed
    /\ flow' = [flow EXCEPT ![f] = Collected(@)]
    /\ UNCHANGED <<row, client, running, authorized, registered, walker, deletion,
                   booting, contended, events>>

-----------------------------------------------------------------------------
(* Clients *)

\* What a new client finds with LoadSession, or makes.
KeyFor_Null(s) == row[s].blob
KeyFor(s) == IF row[s].blob = None THEN NewKey ELSE row[s].blob

NewClient(f, s) == [session |-> s, key |-> KeyFor(s), by |-> f]
ClientOf(f)     == {c \in running : c.by = f}

\* tgManager.Start, first critical section.
Present_Never(s) == FALSE
Present(s) == client[s] # None

CheckClient(f) ==
    /\ flow[f].pc = "check"
    /\ Goto(f, IF Present(flow[f].session) THEN "trigger" ELSE "dial")
    /\ UNCHANGED <<row, client, running, authorized, registered, walker, deletion,
                   booting, contended, events>>

\* bg.Connect; a client stores its key as soon as it is connected.
Dial(f) ==
    LET s == flow[f].session IN
    /\ flow[f].pc = "dial"
    /\ running' = running \cup {NewClient(f, s)}
    /\ row' = IF Exists(s) THEN [row EXCEPT ![s].blob = KeyFor(s)] ELSE row
    /\ Goto(f, "probe")
    /\ UNCHANGED <<client, authorized, registered, walker, deletion, booting,
                   contended, events>>

\* The auth probe, then the second critical section, which does not look again.
Install(f) ==
    /\ flow[f].pc = "probe"
    /\ \E c \in ClientOf(f) :
         /\ c.key \in authorized
         /\ client' = [client EXCEPT ![c.session] = c]
    /\ Goto(f, "trigger")
    /\ UNCHANGED <<row, running, authorized, registered, walker, deletion, booting,
                   contended, events>>

\* bg.Connect or the probe fails: the client is stopped, onActivated returns.
FailStart(f) ==
    /\ flow[f].pc \in {"dial", "probe"}
    /\ running' = running \ ClientOf(f)
    /\ End(f)
    /\ UNCHANGED <<row, client, authorized, registered, walker, deletion, booting,
                   contended, events>>

\* Clients store their key again whenever they reconnect, the one of a login
\* that is going on included.
Connected == running \cup {[session |-> f, key |-> f, by |-> f] :
                             f \in {g \in Logins : flow[g].pc \in Undecided \ {"connect"}}}

StoreBlob(c) ==
    /\ Exists(c.session) /\ row[c.session].blob # c.key
    /\ row' = [row EXCEPT ![c.session].blob = c.key]
    /\ UNCHANGED <<flow, client, running, authorized, registered, walker, deletion,
                   booting, contended, events>>

\* Telegram ends an authorization: the client runs on, its calls fail.
Expire(k) ==
    /\ events > 0
    /\ events' = events - 1
    /\ authorized' = authorized \ {k}
    /\ UNCHANGED <<row, flow, client, running, registered, walker, deletion, booting,
                   contended>>

-----------------------------------------------------------------------------
(* Dialogs *)

\* TriggerDiscover: one goroutine per session, guarded by discoverRunning.
MayDiscover_Always(s) == TRUE
MayDiscover(s) == s \notin registered

TriggerDiscover(s) ==
    IF MayDiscover(s)
    THEN \E w \in Walkers :
           /\ walker[w].pc = "off" /\ \A v \in 1..(w - 1) : walker[v].pc # "off"
           /\ walker' = [walker EXCEPT ![w] = [session |-> s, pc |-> "lookup"]]
           /\ registered' = registered \cup {s}
    ELSE UNCHANGED <<walker, registered>>

TriggerAfterLogin(f) ==
    /\ flow[f].pc = "trigger"
    /\ TriggerDiscover(flow[f].session)
    /\ End(f)
    /\ UNCHANGED <<row, client, running, authorized, deletion, booting, contended,
                   events>>

RefreshDiscover(s) ==
    /\ Up /\ Exists(s) /\ events > 0
    /\ events' = events - 1
    /\ TriggerDiscover(s)
    /\ UNCHANGED <<row, flow, client, running, authorized, deletion, booting,
                   contended>>

SetDiscover(s, status) ==
    row' = IF Exists(s) THEN [row EXCEPT ![s].discover = status] ELSE row

\* ClientForSession and StartDiscover.
StartDiscover(w) ==
    LET s == walker[w].session IN
    /\ walker[w].pc = "lookup"
    /\ IF client[s] = None
       THEN /\ walker' = [walker EXCEPT ![w].pc = "failed"]
            /\ UNCHANGED row
       ELSE /\ walker' = [walker EXCEPT ![w].pc = "walk"]
            /\ SetDiscover(s, "running")
    /\ UNCHANGED <<flow, client, running, authorized, registered, deletion, booting,
                   contended, events>>

EndWalk(w) ==
    /\ walker[w].pc = "walk"
    /\ \E result \in {"done", "failed"} : walker' = [walker EXCEPT ![w].pc = result]
    /\ UNCHANGED <<row, flow, client, running, authorized, registered, deletion,
                   booting, contended, events>>

\* FinishDiscover, then the entry of discoverRunning.
FinishDiscover(w) ==
    /\ walker[w].pc \in {"done", "failed"}
    /\ SetDiscover(walker[w].session, walker[w].pc)
    /\ walker' = [walker EXCEPT ![w].pc = "leave"]
    /\ UNCHANGED <<flow, client, running, authorized, registered, deletion, booting,
                   contended, events>>

LeaveDiscover(w) ==
    /\ walker[w].pc = "leave"
    /\ registered' = registered \ {walker[w].session}
    /\ walker' = [walker EXCEPT ![w] = Idle]
    /\ UNCHANGED <<row, flow, client, running, authorized, deletion, booting,
                   contended, events>>

-----------------------------------------------------------------------------
(* DeleteSession: Manager.Stop, then RevokeTGSession *)

Revoked(r) == [r EXCEPT !.status = "revoked", !.blob = None]

\* Stop takes the entry out of the map under the lock and stops it outside.
BeginDelete(s) ==
    /\ Up /\ deletion = NoDeletion /\ Exists(s) /\ events > 0
    /\ events' = events - 1
    /\ deletion' = [session |-> s, stopping |-> client[s]]
    /\ client' = [client EXCEPT ![s] = None]
    /\ contended' = IF \E f \in Logins : InFlight(f) /\ flow[f].account = flow[s].account
                    THEN contended \cup {flow[s].account} ELSE contended
    /\ UNCHANGED <<row, flow, running, authorized, registered, walker, booting>>

HaltClient ==
    /\ deletion.stopping # None
    /\ running' = running \ {deletion.stopping}
    /\ deletion' = [deletion EXCEPT !.stopping = None]
    /\ UNCHANGED <<row, flow, client, authorized, registered, walker, booting,
                   contended, events>>

\* Stop returns when the client has ended.
Stopped_NotWaited == deletion.session # None
Stopped == deletion.session # None /\ deletion.stopping = None

Revoke ==
    /\ Stopped
    /\ row' = IF Exists(deletion.session)
              THEN [row EXCEPT ![deletion.session] = Revoked(@)] ELSE row
    /\ deletion' = NoDeletion
    /\ UNCHANGED <<flow, client, running, authorized, registered, walker, booting,
                   contended, events>>

-----------------------------------------------------------------------------
(* The process dies and starts again; RestoreActive runs before the server. *)

Restorable == {s \in Sessions : row[s].status = "active" /\ row[s].blob # None}

Crash ==
    /\ events > 0
    /\ events' = events - 1
    /\ flow' = [f \in Logins |->
                  IF flow[f].pc = "new" THEN NewFlow
                  ELSE [EndedFlow(flow[f]) EXCEPT !.listed = FALSE]]
    /\ client' = [s \in Sessions |-> None]
    /\ running' = {}
    /\ registered' = {}
    /\ walker' = [w \in Walkers |-> Idle]
    /\ deletion' = NoDeletion
    /\ booting' = Restorable
    /\ UNCHANGED <<row, authorized, contended>>

\* A start that fails is logged and the next session is tried.
Restore(s) ==
    LET c == [session |-> s, key |-> KeyFor(s), by |-> None] IN
    /\ s \in booting
    /\ booting' = booting \ {s}
    /\ \/ /\ c.key \in authorized
          /\ running' = running \cup {c}
          /\ client' = [client EXCEPT ![s] = c]
       \/ UNCHANGED <<running, client>>
    /\ UNCHANGED <<row, flow, authorized, registered, walker, deletion, contended,
                   events>>

-----------------------------------------------------------------------------
Init ==
    /\ row = [s \in Sessions |-> NoRow]
    /\ flow = [f \in Logins |-> NewFlow]
    /\ client = [s \in Sessions |-> None]
    /\ running = {} /\ authorized = {} /\ registered = {}
    /\ walker = [w \in Walkers |-> Idle]
    /\ deletion = NoDeletion
    /\ booting = {} /\ contended = {}
    /\ events = MaxEvents

BringOnline(f) == \/ CheckClient(f) \/ Dial(f) \/ Install(f) \/ FailStart(f)
                  \/ TriggerAfterLogin(f)

Login(f) == \/ \E a \in Accounts : StartLogin(f, a)
            \/ ConnectLogin(f) \/ SubmitCode(f) \/ SubmitPassword(f)
            \/ TakeCode(f) \/ TakePassword(f) \/ FindCanonical(f) \/ Activate(f)
            \/ FailLogin(f) \/ ForgetLogin(f) \/ CollectLogin(f)
            \/ BringOnline(f)

Discover(w) == \/ StartDiscover(w) \/ EndWalk(w) \/ FinishDiscover(w)
               \/ LeaveDiscover(w)

Next == \/ \E f \in Logins : Login(f) \/ Expire(f)
        \/ \E c \in Connected : StoreBlob(c)
        \/ \E w \in Walkers : Discover(w)
        \/ \E s \in Sessions : RefreshDiscover(s) \/ BeginDelete(s) \/ Restore(s)
        \/ HaltClient \/ Revoke \/ Crash

Spec == Init /\ [][Next]_vars

\* The ticker of gcLoop, a cancelled flow, a start and a walk each go on: every
\* call they make has a timeout or a context.  Users and Telegram may stop.
Fairness ==
    /\ \A f \in Logins : /\ WF_vars(CollectLogin(f))
                         /\ WF_vars(flow[f].cancelled /\ FailLogin(f))
                         /\ WF_vars(BringOnline(f))
    /\ \A w \in Walkers : WF_vars(Discover(w))
    /\ \A s \in Sessions : WF_vars(Restore(s))

FairSpec == Spec /\ Fairness
-----------------------------------------------------------------------------
(* Properties.  Some hold of the accounts whose requests never overlapped.  *)

Clients == [session : Sessions, key : Logins \cup {NewKey}, by : Logins \cup {None}]
Quiet(s) == flow[s].account \notin contended

\* Every variable keeps its type, so that a client can be in the map only as
\* one client, for one session.
TypeOK ==
    /\ row \in [Sessions -> [status : {"none", "pending", "active", "revoked"},
                             account : Accounts \cup {None},
                             blob : Logins \cup {None, NewKey},
                             discover : {"idle", "running", "done", "failed"}]]
    /\ flow \in [Logins -> [pc : Undecided \cup Starting \cup {"new", "ended"},
                            account : Accounts \cup {None},
                            listed : BOOLEAN, cancelled : BOOLEAN,
                            code : BOOLEAN, password : BOOLEAN,
                            session : Sessions \cup {None}]]
    /\ client \in [Sessions -> Clients \cup {None}]
    /\ running \subseteq Clients
    /\ authorized \subseteq Logins
    /\ registered \subseteq Sessions
    /\ walker \in [Walkers -> [session : Sessions \cup {None},
                               pc : {"off", "lookup", "walk", "done", "failed", "leave"}]]
    /\ deletion \in [session : Sessions \cup {None}, stopping : Clients \cup {None}]
    /\ booting \subseteq Sessions
    /\ contended \subseteq Accounts
    /\ events \in 0..MaxEvents

\* However often the user logs in to, deletes and logs in again to an account,
\* it keeps one row: ActivateAndConsolidateTGSession folds every later login
\* into the first, revoked or not.
OneRow ==
    \A s, t \in Sessions :
        /\ row[s].account # None /\ row[s].account = row[t].account
        /\ Quiet(s)
        => s = t

\* The row an account has is never deleted or given to another account, in any
\* interleaving: its channels and videos hang on it with ON DELETE CASCADE.
RowsKept ==
    [][\A s \in Sessions : row[s].account # None => row'[s].account = row[s].account]_vars

\* A session has one gotd client at most, and ClientForSession can reach it
\* unless Start has still to install it or Stop is stopping it: Start is
\* idempotent, a failed probe stops what it started, a crash leaves nothing.
OneClient ==
    \A c \in running : Quiet(c.session) =>
        /\ \A d \in running : d.session = c.session => d = c
        /\ \/ client[c.session] = c
           \/ c.by # None /\ flow[c.by].pc = "probe"
           \/ deletion.stopping = c

\* A revoked session has no blob and no client: DeleteSession waits for the
\* client, which may store its key until it ends, before it wipes the blob.
RevokedOffline ==
    \A s \in Sessions : row[s].status = "revoked" /\ Quiet(s) =>
        /\ row[s].blob = None
        /\ \A c \in running : c.session # s

\* The blob of an active row is a key made for the row's account, so that a
\* restart brings that account online again.
BlobOfAccount ==
    \A s \in Sessions : row[s].status = "active" /\ Quiet(s) =>
        /\ row[s].blob \in Logins
        /\ flow[row[s].blob].account = row[s].account

\* While dialogs are enumerated the row says so: no second TriggerDiscover and
\* no late FinishDiscover of an earlier one says "done" meanwhile.
DiscoverHonest ==
    \A w \in Walkers :
        walker[w].pc = "walk" /\ Exists(walker[w].session)
        => row[walker[w].session].discover = "running"

\* Every login ends and leaves the map: a user who never sends the code does
\* not keep a goroutine and a Telegram connection for ever.
LoginsEnd ==
    \A f \in Logins :
        flow[f].pc # "new" ~> flow[f].pc = "ended" /\ ~flow[f].listed

\* A login brings its account online: when Start has returned, the client of the
\* session has a key Telegram accepts, if it accepts the key of that login.
LoginOnline ==
    \A f \in Logins : flow[f].pc = "trigger" /\ Quiet(f) /\ f \in authorized =>
        client[flow[f].session] # None /\ client[flow[f].session].key \in authorized
=============================================================================
