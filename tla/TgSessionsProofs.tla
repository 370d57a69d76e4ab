-------------------------- MODULE TgSessionsProofs --------------------------
(* Theorems about TgSessions, for any number of accounts, logins, walkers   *)
(* and events.                                                              *)
EXTENDS TgSessions, TLAPS

\* The row a login acts on is chosen before it is used, and a login that has
\* begun and not ended has an account.
Placed ==
    \A f \in Logins :
        /\ flow[f].pc \in Starting \cup {"commit"} => flow[f].session \in Sessions
        /\ InFlight(f) => flow[f].account \in Accounts

Typed == TypeOK /\ Placed

\* Nobody has logged in yet.
LEMMA InitTyped == Init => Typed
<1> SUFFICES ASSUME Init PROVE Typed
  OBVIOUS
<1> USE DEF Init, NoRow, NewFlow, Idle, NoDeletion
<1>1. TypeOK
  BY SessionsAssumption DEF TypeOK
<1>2. Placed
  BY DEF Placed, InFlight, Starting, Undecided
<1>3. QED
  BY <1>1, <1>2 DEF Typed

\* What TypeOK says of one row and of one flow.
Rows  == [status : {"none", "pending", "active", "revoked"},
          account : Accounts \cup {None}, blob : Logins \cup {None, NewKey},
          discover : {"idle", "running", "done", "failed"}]
Flows == [pc : Undecided \cup Starting \cup {"new", "ended"},
          account : Accounts \cup {None}, listed : BOOLEAN, cancelled : BOOLEAN,
          code : BOOLEAN, password : BOOLEAN, session : Sessions \cup {None}]

\* A step of one login changes its row and its flow, and both to values that fit.
LEMMA OneFlow ==
    ASSUME Typed, NEW f \in Logins, NEW r \in Flows, flow' = [flow EXCEPT ![f] = r],
           r.pc \in Starting \cup {"commit"} => r.session \in Sessions,
           r.pc \in Undecided \cup Starting => r.account \in Accounts,
           row' \in [Sessions -> Rows], authorized' \subseteq Logins,
           contended' \subseteq Accounts,
           UNCHANGED <<client, running, registered, walker, deletion, booting, events>>
    PROVE  Typed'
<1>1. flow' \in [Logins -> Flows]
  BY DEF Typed, TypeOK, Flows
<1>2. Placed'
  BY <1>1 DEF Typed, TypeOK, Placed, InFlight, Flows
<1>3. TypeOK'
  BY <1>1 DEF Typed, TypeOK, Flows, Rows
<1>4. QED
  BY <1>2, <1>3 DEF Typed

\* The steps of a login until its row is activated, and of those who wait for it.
LEMMA LoginTyped ==
    ASSUME Typed, NEW f \in Logins,
           \/ \E a \in Accounts : StartLogin(f, a)
           \/ ConnectLogin(f) \/ SubmitCode(f) \/ SubmitPassword(f)
           \/ TakeCode(f) \/ TakePassword(f) \/ FindCanonical(f) \/ Activate(f)
           \/ FailLogin(f) \/ ForgetLogin(f) \/ CollectLogin(f)
    PROVE  Typed'
<1>t. /\ row \in [Sessions -> Rows] /\ flow \in [Logins -> Flows]
      /\ authorized \subseteq Logins /\ contended \subseteq Accounts
      /\ flow[f] \in Flows
      /\ flow[f].pc \in Starting \cup {"commit"} => flow[f].session \in Sessions
      /\ flow[f].pc \in Undecided \cup Starting => flow[f].account \in Accounts
  BY DEF Typed, TypeOK, Placed, InFlight, Rows, Flows
<1>1. ASSUME NEW a \in Accounts, StartLogin(f, a) PROVE Typed'
  <2> DEFINE r == [NewFlow EXCEPT !.pc = "connect", !.account = a, !.listed = TRUE]
  <2>1. r \in Flows /\ r.pc = "connect" /\ r.account = a
    BY DEF NewFlow, Flows, Undecided, Starting
  <2>2. row' \in [Sessions -> Rows] /\ contended' \subseteq Accounts
    BY <1>1, <1>t DEF StartLogin, NoRow, Rows
  <2>3. flow' = [flow EXCEPT ![f] = r]
    BY <1>1 DEF StartLogin
  <2> HIDE DEF r
  <2>4. QED
    BY <1>1, <1>t, <2>1, <2>2, <2>3, OneFlow DEF StartLogin, Starting, Undecided
<1>2. CASE ConnectLogin(f)
  <2> DEFINE r == [flow[f] EXCEPT !.pc = "code"]
  <2>1. r \in Flows /\ r.pc = "code" /\ r.account \in Accounts
    BY <1>2, <1>t DEF ConnectLogin, Flows, Undecided
  <2>2. flow' = [flow EXCEPT ![f] = r] /\ row' \in [Sessions -> Rows]
    BY <1>2, <1>t DEF ConnectLogin, Goto, Rows, Sessions
  <2> HIDE DEF r
  <2>3. QED
    BY <1>2, <1>t, <2>1, <2>2, OneFlow DEF ConnectLogin, Starting
<1>3. CASE SubmitCode(f) \/ SubmitPassword(f)
  <2>1. PICK r : /\ flow' = [flow EXCEPT ![f] = r]
                 /\ \/ r = [flow[f] EXCEPT !.code = TRUE]
                    \/ r = [flow[f] EXCEPT !.password = TRUE]
    BY <1>3 DEF SubmitCode, SubmitPassword
  <2>2. /\ r \in Flows /\ r.pc = flow[f].pc /\ r.account = flow[f].account
        /\ r.session = flow[f].session
    BY <2>1, <1>t DEF Flows
  <2>3. QED
    BY <1>3, <1>t, <2>1, <2>2, OneFlow DEF SubmitCode, SubmitPassword
<1>4. CASE TakeCode(f)
  <2>1. PICK pc \in {"password", "authorized"} :
            flow' = [flow EXCEPT ![f].code = FALSE, ![f].pc = pc]
    BY <1>4 DEF TakeCode
  <2> DEFINE r == [flow[f] EXCEPT !.code = FALSE, !.pc = pc]
  <2>2. r \in Flows /\ r.pc = pc /\ r.account = flow[f].account
    BY <1>t DEF Flows, Undecided
  <2>3. flow' = [flow EXCEPT ![f] = r] /\ flow[f].account \in Accounts
    BY <1>4, <1>t, <2>1 DEF TakeCode, Undecided
  <2>4. authorized' \subseteq Logins
    BY <1>4, <1>t DEF TakeCode
  <2> HIDE DEF r
  <2>5. QED
    BY <1>4, <1>t, <2>2, <2>3, <2>4, OneFlow DEF TakeCode, Starting
<1>10. CASE TakePassword(f)
  <2> DEFINE r == [flow[f] EXCEPT !.password = FALSE, !.pc = "authorized"]
  <2>1. r \in Flows /\ r.pc = "authorized" /\ r.account = flow[f].account
    BY <1>t DEF Flows, Undecided
  <2>2. flow' = [flow EXCEPT ![f] = r] /\ flow[f].account \in Accounts
    BY <1>10, <1>t DEF TakePassword, Undecided
  <2>3. authorized' \subseteq Logins
    BY <1>10, <1>t DEF TakePassword
  <2> HIDE DEF r
  <2>4. QED
    BY <1>10, <1>t, <2>1, <2>2, <2>3, OneFlow DEF TakePassword, Starting
<1>5. CASE FindCanonical(f)
  <2>1. Canonical(f) \subseteq Sessions
    BY DEF Canonical, SameAccount, Sessions
  <2>2. PICK s \in Sessions : flow' = [flow EXCEPT ![f].pc = "commit", ![f].session = s]
    BY <1>5, <2>1 DEF FindCanonical
  <2> DEFINE r == [flow[f] EXCEPT !.pc = "commit", !.session = s]
  <2>3. /\ r \in Flows /\ r.pc = "commit" /\ r.session = s
        /\ r.account = flow[f].account /\ r.account \in Accounts
    BY <1>5, <1>t DEF FindCanonical, Flows, Undecided
  <2>4. flow' = [flow EXCEPT ![f] = r]
    BY <2>2, <1>t
  <2> HIDE DEF r
  <2>5. QED
    BY <1>5, <1>t, <2>3, <2>4, OneFlow DEF FindCanonical
<1>6. CASE Activate(f)
  <2> DEFINE r == [flow[f] EXCEPT !.pc = "check"]
  <2>1. flow[f].session \in Sessions /\ flow[f].account \in Accounts
    BY <1>6, <1>t DEF Activate, Undecided
  <2>2. /\ r \in Flows /\ r.pc = "check" /\ r.session = flow[f].session
        /\ r.account = flow[f].account
    BY <1>t DEF Flows, Starting
  <2>3. flow' = [flow EXCEPT ![f] = r]
    BY <1>6 DEF Activate, Goto
  <2>4. \A t \in Sessions :
          /\ [row[t] EXCEPT !.status = "active", !.account = flow[f].account,
                            !.blob = row[f].blob] \in Rows
          /\ NoRow \in Rows /\ row[t] \in Rows
    <3>1. row[f] \in Rows /\ \A t \in Sessions : row[t] \in Rows
      BY <1>t DEF Sessions
    <3>2. \A x \in Rows : [x EXCEPT !.status = "active", !.account = flow[f].account,
                                    !.blob = row[f].blob] \in Rows
      BY <2>1, <3>1 DEF Rows
    <3>3. NoRow \in Rows
      BY DEF Rows, NoRow
    <3>4. QED
      BY <3>1, <3>2, <3>3
  <2>5. row' \in [Sessions -> Rows]
    BY <1>6, <2>4 DEF Activate, Consolidated
  <2> HIDE DEF r
  <2>6. QED
    BY <1>6, <1>t, <2>1, <2>2, <2>3, <2>5, OneFlow DEF Activate, Undecided
<1>7. CASE FailLogin(f)
  <2> DEFINE r == EndedFlow(flow[f])
  <2>1. r \in Flows /\ r.pc = "ended"
    BY <1>t DEF EndedFlow, NewFlow, Flows
  <2>2. flow' = [flow EXCEPT ![f] = r]
    BY <1>7 DEF FailLogin, End
  <2> HIDE DEF r
  <2>3. QED
    BY <1>7, <1>t, <2>1, <2>2, OneFlow DEF FailLogin, Starting, Undecided
<1>8. CASE ForgetLogin(f) \/ CollectLogin(f)
  <2>1. PICK r : /\ flow' = [flow EXCEPT ![f] = r]
                 /\ \/ r = [flow[f] EXCEPT !.listed = FALSE]
                    \/ r = Collected(flow[f])
    BY <1>8 DEF ForgetLogin, CollectLogin
  <2>2. /\ r \in Flows /\ r.pc = flow[f].pc /\ r.account = flow[f].account
        /\ r.session = flow[f].session
    BY <2>1, <1>t DEF Flows, Collected
  <2>3. QED
    BY <1>8, <1>t, <2>1, <2>2, OneFlow DEF ForgetLogin, CollectLogin
<1>9. QED
  BY <1>1, <1>2, <1>3, <1>4, <1>5, <1>6, <1>7, <1>8, <1>10

\* What becomes of a row when a client stores its key, when dialogs are
\* enumerated, and when the session is revoked.
LEMMA RowTyped ==
    ASSUME NEW x \in Rows
    PROVE  /\ \A k \in Logins \cup {NewKey} : [x EXCEPT !.blob = k] \in Rows
           /\ \A d \in {"running", "done", "failed"} : [x EXCEPT !.discover = d] \in Rows
           /\ Revoked(x) \in Rows
BY DEF Rows, Revoked

\* A key a client finds or makes is one that a row can hold.
LEMMA KeyTyped ==
    ASSUME Typed, NEW s \in Sessions
    PROVE  KeyFor(s) \in Logins \cup {NewKey}
BY DEF Typed, TypeOK, KeyFor

\* Start and what follows it: the login knows its session.
LEMMA BringOnlineTyped ==
    ASSUME Typed, NEW f \in Logins, BringOnline(f)
    PROVE  Typed'
<1>t. /\ row \in [Sessions -> Rows] /\ flow \in [Logins -> Flows]
      /\ flow[f] \in Flows
      /\ flow[f].pc \in Starting => flow[f].session \in Sessions
      /\ flow[f].pc \in Starting => flow[f].account \in Accounts
      /\ running \subseteq Clients /\ registered \subseteq Sessions
      /\ client \in [Sessions -> Clients \cup {None}]
      /\ walker \in [Walkers -> [session : Sessions \cup {None},
              pc : {"off", "lookup", "walk", "done", "failed", "leave"}]]
  BY DEF Typed, TypeOK, Placed, InFlight, Rows, Flows
<1>f. \A r \in Flows :
        /\ flow' = [flow EXCEPT ![f] = r]
        /\ r.pc \in Starting => r.session \in Sessions /\ r.account \in Accounts
        /\ r.pc \notin Undecided \cup {"commit"}
        => flow' \in [Logins -> Flows] /\ Placed'
  BY <1>t DEF Typed, Placed, InFlight, Flows, Undecided, Starting
<1>g. \A pc \in Starting : flow[f].pc \in Starting /\ Goto(f, pc)
                            => flow' \in [Logins -> Flows] /\ Placed'
  <2> SUFFICES ASSUME NEW pc \in Starting, flow[f].pc \in Starting, Goto(f, pc)
               PROVE  flow' \in [Logins -> Flows] /\ Placed'
    OBVIOUS
  <2> DEFINE r == [flow[f] EXCEPT !.pc = pc]
  <2>1. /\ r \in Flows /\ r.pc = pc /\ r.session = flow[f].session
        /\ r.account = flow[f].account
    BY <1>t DEF Flows
  <2>2. flow' = [flow EXCEPT ![f] = r] /\ pc \notin Undecided \cup {"commit"}
    BY DEF Goto, Starting, Undecided
  <2> HIDE DEF r
  <2>3. QED
    BY <1>t, <1>f, <2>1, <2>2
<1>e. End(f) => flow' \in [Logins -> Flows] /\ Placed'
  <2>1. EndedFlow(flow[f]) \in Flows /\ EndedFlow(flow[f]).pc = "ended"
    BY <1>t DEF EndedFlow, NewFlow, Flows
  <2>2. QED
    BY <1>f, <2>1 DEF End, Starting, Undecided
<1>1. CASE CheckClient(f)
  <2>1. flow' \in [Logins -> Flows] /\ Placed'
    BY <1>1, <1>g DEF CheckClient, Starting
  <2>2. QED
    BY <1>1, <2>1 DEF CheckClient, Typed, TypeOK, Flows
<1>2. CASE Dial(f)
  <2>1. flow' \in [Logins -> Flows] /\ Placed'
    BY <1>2, <1>g DEF Dial, Starting
  <2>2. flow[f].session \in Sessions
    BY <1>2, <1>t DEF Dial, Starting
  <2>3. KeyFor(flow[f].session) \in Logins \cup {NewKey}
    BY <2>2, KeyTyped
  <2>4. running' \subseteq Clients
    BY <1>2, <1>t, <2>2, <2>3 DEF Dial, NewClient, Clients
  <2>5. row' \in [Sessions -> Rows]
    BY <1>2, <1>t, <2>3, RowTyped DEF Dial
  <2>6. QED
    BY <1>2, <2>1, <2>4, <2>5 DEF Dial, Typed, TypeOK, Flows, Rows
<1>3. CASE Install(f)
  <2>1. flow' \in [Logins -> Flows] /\ Placed'
    BY <1>3, <1>g DEF Install, Starting
  <2>2. client' \in [Sessions -> Clients \cup {None}]
    BY <1>3, <1>t DEF Install, ClientOf
  <2>3. QED
    BY <1>3, <2>1, <2>2 DEF Install, Typed, TypeOK, Flows
<1>4. CASE FailStart(f)
  <2>1. flow' \in [Logins -> Flows] /\ Placed'
    BY <1>4, <1>e DEF FailStart
  <2>2. running' \subseteq Clients
    BY <1>4, <1>t DEF FailStart
  <2>3. QED
    BY <1>4, <2>1, <2>2 DEF FailStart, Typed, TypeOK, Flows
<1>5. CASE TriggerAfterLogin(f)
  <2>1. flow' \in [Logins -> Flows] /\ Placed'
    BY <1>5, <1>e DEF TriggerAfterLogin
  <2>2. flow[f].session \in Sessions
    BY <1>5, <1>t DEF TriggerAfterLogin, Starting
  <2>3. /\ registered' \subseteq Sessions
        /\ walker' \in [Walkers -> [session : Sessions \cup {None},
                pc : {"off", "lookup", "walk", "done", "failed", "leave"}]]
    BY <1>5, <1>t, <2>2 DEF TriggerAfterLogin, TriggerDiscover
  <2>4. QED
    BY <1>5, <2>1, <2>3 DEF TriggerAfterLogin, Typed, TypeOK, Flows
<1>6. QED
  BY <1>1, <1>2, <1>3, <1>4, <1>5 DEF BringOnline

\* Steps that leave every flow alone.
LEMMA OtherTyped ==
    ASSUME Typed,
           \/ \E f \in Logins : Expire(f)
           \/ \E c \in Connected : StoreBlob(c)
           \/ \E w \in Walkers : Discover(w)
           \/ \E s \in Sessions : RefreshDiscover(s) \/ BeginDelete(s) \/ Restore(s)
           \/ HaltClient \/ Revoke
    PROVE  Typed'
<1> DEFINE WalkerRecs == [session : Sessions \cup {None},
                          pc : {"off", "lookup", "walk", "done", "failed", "leave"}]
<1>t. /\ row \in [Sessions -> Rows]
      /\ running \subseteq Clients /\ registered \subseteq Sessions
      /\ client \in [Sessions -> Clients \cup {None}]
      /\ walker \in [Walkers -> WalkerRecs]
      /\ deletion \in [session : Sessions \cup {None}, stopping : Clients \cup {None}]
  BY DEF Typed, TypeOK, Rows
<1>n. \A n \in 0..MaxEvents : n > 0 => n - 1 \in 0..MaxEvents
  BY SessionsAssumption
<1>p. flow' = flow => Placed'
  BY DEF Typed, Placed, InFlight
<1>1. ASSUME NEW f \in Logins, Expire(f) PROVE Typed'
  BY <1>1, <1>n, <1>p DEF Expire, Typed, TypeOK
<1>2. ASSUME NEW c \in Connected, StoreBlob(c) PROVE Typed'
  <2>1. c.key \in Logins \cup {NewKey}
    BY <1>t DEF Connected, Clients
  <2>2. row' \in [Sessions -> Rows]
    BY <1>2, <1>t, <2>1, RowTyped DEF StoreBlob
  <2>3. QED
    BY <1>2, <1>p, <2>2 DEF StoreBlob, Typed, TypeOK, Rows
<1>3. ASSUME NEW w \in Walkers, Discover(w) PROVE Typed'
  <2>1. row' \in [Sessions -> Rows]
    <3>1. \A s, d : SetDiscover(s, d) /\ d \in {"running", "done", "failed"}
                      => row' \in [Sessions -> Rows]
      <4> SUFFICES ASSUME NEW s, NEW d \in {"running", "done", "failed"}, SetDiscover(s, d)
                   PROVE  row' \in [Sessions -> Rows]
        OBVIOUS
      <4>1. CASE s \in Sessions
        <5>1. [row[s] EXCEPT !.discover = d] \in Rows
          BY <1>t, <4>1, RowTyped
        <5>2. row' = row \/ row' = [row EXCEPT ![s] = [row[s] EXCEPT !.discover = d]]
          BY DEF SetDiscover
        <5>3. QED
          BY <1>t, <5>1, <5>2
      <4>2. CASE s \notin Sessions
        <5>1. row' = row
          BY <1>t, <4>2 DEF SetDiscover
        <5>2. QED
          BY <1>t, <5>1
      <4>3. QED
        BY <4>1, <4>2
    <3>2. row' = row \/ \E s, d : SetDiscover(s, d) /\ d \in {"running", "done", "failed"}
      BY <1>3 DEF Discover, StartDiscover, EndWalk, FinishDiscover, LeaveDiscover
    <3>3. QED
      BY <1>t, <3>1, <3>2
  <2>2. walker' \in [Walkers -> WalkerRecs]
    BY <1>3, <1>t DEF Discover, StartDiscover, EndWalk, FinishDiscover, LeaveDiscover, Idle
  <2>3. registered' \subseteq Sessions
    BY <1>3, <1>t DEF Discover, StartDiscover, EndWalk, FinishDiscover, LeaveDiscover
  <2>4. UNCHANGED <<flow, client, running, authorized, deletion, booting, contended, events>>
    BY <1>3 DEF Discover, StartDiscover, EndWalk, FinishDiscover, LeaveDiscover
  <2>5. QED
    BY <1>p, <2>1, <2>2, <2>3, <2>4 DEF Typed, TypeOK, Rows
<1>4. ASSUME NEW s \in Sessions, RefreshDiscover(s) PROVE Typed'
  <2>1. registered' \subseteq Sessions /\ walker' \in [Walkers -> WalkerRecs]
    BY <1>4, <1>t DEF RefreshDiscover, TriggerDiscover
  <2>2. QED
    BY <1>4, <1>n, <1>p, <2>1 DEF RefreshDiscover, Typed, TypeOK
<1>5. ASSUME NEW s \in Sessions, BeginDelete(s) PROVE Typed'
  <2>1. contended' \subseteq Accounts
    BY <1>5 DEF BeginDelete, Typed, TypeOK, Placed
  <2>2. /\ deletion' \in [session : Sessions \cup {None}, stopping : Clients \cup {None}]
        /\ client' \in [Sessions -> Clients \cup {None}]
        /\ events' \in 0..MaxEvents
    BY <1>5, <1>t, <1>n DEF BeginDelete, Typed, TypeOK
  <2>3. QED
    BY <1>5, <1>p, <2>1, <2>2 DEF BeginDelete, Typed, TypeOK
<1>6. ASSUME NEW s \in Sessions, Restore(s) PROVE Typed'
  <2>1. [session |-> s, key |-> KeyFor(s), by |-> None] \in Clients
    BY KeyTyped DEF Clients
  <2>2. running' \subseteq Clients /\ client' \in [Sessions -> Clients \cup {None}]
    BY <1>6, <1>t, <2>1 DEF Restore
  <2>3. QED
    BY <1>6, <1>p, <2>2 DEF Restore, Typed, TypeOK
<1>7. CASE HaltClient
  BY <1>7, <1>t, <1>p DEF HaltClient, Typed, TypeOK
<1>8. CASE Revoke
  <2>1. row' \in [Sessions -> Rows]
    BY <1>8, <1>t, RowTyped DEF Revoke
  <2>2. QED
    BY <1>8, <1>p, <2>1 DEF Revoke, NoDeletion, Typed, TypeOK, Rows
<1>9. QED
  BY <1>1, <1>2, <1>3, <1>4, <1>5, <1>6, <1>7, <1>8

\* A crash ends every login that was going on.
LEMMA CrashTyped == ASSUME Typed, Crash PROVE Typed'
<1>1. flow' \in [Logins -> Flows]
  BY DEF Crash, Typed, TypeOK, EndedFlow, NewFlow, Flows
<1>2. \A f \in Logins : flow'[f].pc \in {"new", "ended"}
  BY DEF Crash, EndedFlow, NewFlow
<1>3. Placed'
  BY <1>2 DEF Placed, InFlight, Undecided, Starting
<1>4. events' \in 0..MaxEvents
  BY SessionsAssumption DEF Crash, Typed, TypeOK
<1>5. TypeOK'
  BY <1>1, <1>4 DEF Crash, Typed, TypeOK, Flows, Restorable, NoDeletion, Idle
<1>6. QED
  BY <1>3, <1>5 DEF Typed

LEMMA NextTyped == Typed /\ [Next]_vars => Typed'
<1> SUFFICES ASSUME Typed, [Next]_vars PROVE Typed'
  OBVIOUS
<1>1. CASE UNCHANGED vars
  BY <1>1 DEF vars, Typed, TypeOK, Placed, InFlight
<1>2. CASE Next
  BY <1>2, LoginTyped, BringOnlineTyped, OtherTyped, CrashTyped DEF Next, Login
<1>3. QED
  BY <1>1, <1>2

\* Every variable has its type in every reachable state.
THEOREM TypeCorrect == Spec => []TypeOK
<1>1. Typed => TypeOK
  BY DEF Typed
<1>2. QED
  BY <1>1, InitTyped, NextTyped, PTL DEF Spec

-----------------------------------------------------------------------------
\* RowsKept is not inductive: a login chooses its row one step before it writes it.
\* Until then its own row has no account, so that no other login can choose that
\* row, and the row it chose is its own or has the login's account already.
Waiting(f) == flow[f].pc \in Undecided \cup {"new"}

Choices ==
    \A f \in Logins :
        /\ Waiting(f) => row[f].account = None
        /\ flow[f].pc = "commit" =>
              \/ flow[f].session = f
              \/ row[flow[f].session].account = flow[f].account

SameAccounts == \A s \in Sessions : row'[s].account = row[s].account

\* Most steps give no row another account, and no login a choice.
NoChoice ==
    \A f \in Logins :
        /\ Waiting(f)' => Waiting(f)
        /\ flow'[f].pc = "commit" => /\ flow[f].pc = "commit"
                                     /\ flow'[f].session = flow[f].session
                                     /\ flow'[f].account = flow[f].account

LEMMA QuietChoices ==
    ASSUME Typed, Choices, SameAccounts, NoChoice
    PROVE  Choices'
<1>1. \A f \in Logins : flow[f].pc = "commit" => flow[f].session \in Sessions
  BY DEF Typed, Placed
<1>2. QED
  BY <1>1 DEF Choices, SameAccounts, NoChoice, Waiting, Sessions

\* Changing one flow.
LEMMA OneNoChoice ==
    ASSUME Typed, NEW f \in Logins, NEW r, flow' = [flow EXCEPT ![f] = r],
           r.pc \in Undecided \cup {"new"} => Waiting(f),
           r.pc = "commit" => /\ flow[f].pc = "commit" /\ r.session = flow[f].session
                              /\ r.account = flow[f].account
    PROVE  NoChoice
BY DEF Typed, TypeOK, NoChoice, Waiting

LEMMA LoginKeeps ==
    ASSUME Typed, Choices, NEW f \in Logins,
           \/ \E a \in Accounts : StartLogin(f, a)
           \/ ConnectLogin(f) \/ SubmitCode(f) \/ SubmitPassword(f)
           \/ TakeCode(f) \/ TakePassword(f)
           \/ FailLogin(f) \/ ForgetLogin(f) \/ CollectLogin(f)
    PROVE  SameAccounts /\ NoChoice
<1>t. /\ row \in [Sessions -> Rows] /\ flow \in [Logins -> Flows] /\ flow[f] \in Flows
  BY DEF Typed, TypeOK, Rows, Flows
<1> USE DEF Waiting
<1>1. ASSUME NEW a \in Accounts, StartLogin(f, a) PROVE SameAccounts /\ NoChoice
  <2>1. row[f].account = None
    BY <1>1 DEF StartLogin, Choices
  <2>2. SameAccounts
    BY <1>1, <1>t, <2>1 DEF StartLogin, SameAccounts, NoRow
  <2>3. NoChoice
    BY <1>1, <1>t DEF StartLogin, NoChoice, NewFlow
  <2>4. QED
    BY <2>2, <2>3
<1>2. CASE ConnectLogin(f)
  BY <1>2, <1>t DEF ConnectLogin, Goto, SameAccounts, NoChoice, Rows, Flows, Undecided
<1>3. CASE SubmitCode(f) \/ SubmitPassword(f)
  BY <1>3, <1>t DEF SubmitCode, SubmitPassword, SameAccounts, NoChoice, Flows
<1>4. CASE TakeCode(f)
  BY <1>4, <1>t DEF TakeCode, SameAccounts, NoChoice, Flows, Undecided
<1>5. CASE TakePassword(f)
  BY <1>5, <1>t DEF TakePassword, SameAccounts, NoChoice, Flows, Undecided
<1>6. CASE FailLogin(f)
  BY <1>6, <1>t DEF FailLogin, End, EndedFlow, NewFlow, SameAccounts, NoChoice, Undecided
<1>7. CASE ForgetLogin(f) \/ CollectLogin(f)
  <2>1. PICK r : /\ flow' = [flow EXCEPT ![f] = r]
                 /\ \/ r = [flow[f] EXCEPT !.listed = FALSE]
                    \/ r = Collected(flow[f])
    BY <1>7 DEF ForgetLogin, CollectLogin
  <2>2. /\ r.pc = flow[f].pc /\ r.account = flow[f].account
        /\ r.session = flow[f].session
    BY <2>1, <1>t DEF Flows, Collected
  <2>3. row' = row
    BY <1>7 DEF ForgetLogin, CollectLogin
  <2>4. QED
    BY <2>1, <2>2, <2>3, OneNoChoice DEF SameAccounts
<1>8. QED
  BY <1>1, <1>2, <1>3, <1>4, <1>5, <1>6, <1>7

\* Start and what follows it happens to a login that is activated.
LEMMA BringOnlineKeeps ==
    ASSUME Typed, NEW f \in Logins, BringOnline(f)
    PROVE  SameAccounts /\ NoChoice
<1>t. /\ row \in [Sessions -> Rows] /\ flow \in [Logins -> Flows]
      /\ flow[f].pc \in Starting => flow[f].session \in Sessions
  BY DEF Typed, TypeOK, Placed, Rows, Flows
<1>1. SameAccounts
  BY <1>t DEF BringOnline, CheckClient, Dial, Install, FailStart, TriggerAfterLogin,
              SameAccounts, Rows, Starting
<1>2. NoChoice
  <2>1. PICK pc \in Starting :
            flow' = [flow EXCEPT ![f].pc = pc] \/ flow' = [flow EXCEPT ![f] = EndedFlow(flow[f])]
    BY DEF BringOnline, CheckClient, Dial, Install, FailStart, TriggerAfterLogin,
           Goto, End, Starting
  <2>2. CASE flow' = [flow EXCEPT ![f].pc = pc]
    BY <1>t, <2>2 DEF NoChoice, Waiting, Undecided, Starting, Flows
  <2>3. CASE flow' = [flow EXCEPT ![f] = EndedFlow(flow[f])]
    BY <1>t, <2>3 DEF NoChoice, Waiting, Undecided, EndedFlow, NewFlow
  <2>4. QED
    BY <2>1, <2>2, <2>3
<1>3. QED
  BY <1>1, <1>2

LEMMA OtherKeeps ==
    ASSUME Typed,
           \/ \E f \in Logins : Expire(f)
           \/ \E c \in Connected : StoreBlob(c)
           \/ \E w \in Walkers : Discover(w)
           \/ \E s \in Sessions : RefreshDiscover(s) \/ BeginDelete(s) \/ Restore(s)
           \/ HaltClient \/ Revoke \/ UNCHANGED vars
    PROVE  SameAccounts /\ NoChoice
<1>t. row \in [Sessions -> Rows]
  BY DEF Typed, TypeOK, Rows
<1>1. flow' = flow
  BY DEF Expire, StoreBlob, Discover, StartDiscover, EndWalk, FinishDiscover,
         LeaveDiscover, RefreshDiscover, BeginDelete, Restore, HaltClient, Revoke, vars
<1>2. NoChoice
  BY <1>1 DEF NoChoice, Waiting
<1>3. ASSUME NEW c \in Connected, StoreBlob(c) PROVE SameAccounts
  BY <1>3, <1>t DEF StoreBlob, SameAccounts, Rows
<1>4. ASSUME NEW w \in Walkers, Discover(w) PROVE SameAccounts
  BY <1>4, <1>t DEF Discover, StartDiscover, EndWalk, FinishDiscover, LeaveDiscover,
                    SetDiscover, SameAccounts, Rows
<1>5. CASE Revoke
  <2>1. \A x \in Rows : Revoked(x).account = x.account
    BY DEF Revoked, Rows
  <2>2. ASSUME NEW s \in Sessions
        PROVE  row'[s] = row[s] \/ row'[s] = Revoked(row[s])
    BY <1>5, <1>t DEF Revoke
  <2>3. QED
    <3> SUFFICES ASSUME NEW s \in Sessions PROVE row'[s].account = row[s].account
      BY <1>2 DEF SameAccounts
    <3>1. row[s] \in Rows
      BY <1>t
    <3>2. Revoked(row[s]).account = row[s].account
      BY <2>1, <3>1
    <3>3. QED
      BY <2>2, <3>2
<1>6. row' = row => SameAccounts
  BY DEF SameAccounts
<1>7. QED
  BY <1>2, <1>3, <1>4, <1>5, <1>6
     DEF Expire, RefreshDiscover, BeginDelete, Restore, HaltClient, vars

LEMMA CrashKeeps == ASSUME Typed, Crash PROVE SameAccounts /\ NoChoice
BY DEF Crash, Typed, TypeOK, SameAccounts, NoChoice, Waiting, EndedFlow, NewFlow, Undecided

LEMMA FindKeeps ==
    ASSUME Typed, Choices, NEW f \in Logins, FindCanonical(f)
    PROVE  SameAccounts /\ Choices'
<1>1. row' = row
  BY DEF FindCanonical
<1>2. PICK s \in Canonical(f) :
          flow' = [flow EXCEPT ![f].pc = "commit", ![f].session = s]
  BY DEF FindCanonical
<1>3. s = f \/ row[s].account = flow[f].account
  BY DEF Canonical, SameAccount
<1>4. flow \in [Logins -> Flows] /\ row[f].account = None
  BY DEF Typed, TypeOK, Flows, FindCanonical, Choices, Waiting, Undecided
<1>5. \A g \in Logins \ {f} : flow'[g] = flow[g]
  BY <1>2, <1>4
<1>6. flow'[f].session = s /\ flow'[f].account = flow[f].account
  BY <1>2, <1>4 DEF Flows
<1>7. Choices'
  BY <1>1, <1>3, <1>4, <1>5, <1>6 DEF Choices, Waiting
<1>8. QED
  BY <1>1, <1>7 DEF SameAccounts

\* The one step that gives a row an account: the login's own row, which had none.
LEMMA ActivateKeeps ==
    ASSUME Typed, Choices, NEW f \in Logins, Activate(f)
    PROVE  /\ \A t \in Sessions : row[t].account # None => row'[t].account = row[t].account
           /\ Choices'
<1> DEFINE s == flow[f].session
           a == flow[f].account
<1>1. /\ flow[f].pc = "commit" /\ s \in Sessions /\ a \in Accounts /\ a # None
      /\ flow \in [Logins -> Flows] /\ row \in [Sessions -> Rows]
  BY SessionsAssumption DEF Activate, Typed, TypeOK, Placed, InFlight, Undecided, Flows, Rows
<1>2. row[f].account = None /\ (s = f \/ row[s].account = a)
  BY <1>1 DEF Choices, Waiting, Undecided
<1>3. /\ row'[s].account = a
      /\ \A t \in Sessions \ {s} : row'[t].account = row[t].account
  BY <1>1, <1>2 DEF Activate, Consolidated, NoRow, Rows
<1>4. \A g \in Logins \ {f} : flow'[g] = flow[g]
  BY <1>1 DEF Activate, Goto
<1>5. flow'[f].pc = "check"
  BY <1>1 DEF Activate, Goto, Flows
<1> HIDE DEF s, a
<1>6. ASSUME NEW g \in Logins \ {f} PROVE Waiting(g)' => row'[g].account = None
  <2>1. Waiting(g)' => row[g].account = None
    BY <1>4 DEF Choices, Waiting
  <2>2. row[g].account = None => g # s
    BY <1>1, <1>2
  <2>3. QED
    BY <1>3, <2>1, <2>2 DEF Sessions
<1>7. ASSUME NEW g \in Logins \ {f}, flow'[g].pc = "commit"
      PROVE  flow'[g].session = g \/ row'[flow'[g].session].account = flow'[g].account
  <2>1. /\ flow[g].session \in Sessions
        /\ flow[g].session = g \/ row[flow[g].session].account = flow[g].account
        /\ flow[g].account \in Accounts /\ flow[g].account # None
    BY <1>4, <1>7, SessionsAssumption DEF Typed, Placed, InFlight, Undecided, Choices
  <2>2. CASE flow[g].session = s /\ s = f
    BY <1>2, <2>1, <2>2
  <2>3. CASE ~(flow[g].session = s /\ s = f)
    BY <1>2, <1>3, <1>4, <2>1, <2>3
  <2>4. QED
    BY <2>2, <2>3
<1>8. Choices'
  BY <1>5, <1>6, <1>7 DEF Choices, Waiting, Undecided
<1>9. \A t \in Sessions : row[t].account # None => row'[t].account = row[t].account
  BY <1>2, <1>3
<1>10. QED
  BY <1>8, <1>9

\* An account a row has stays, whatever happens.
StayPut == \A s \in Sessions : row[s].account # None => row'[s].account = row[s].account

LEMMA InitChoices == Init => Choices
BY DEF Init, Choices, NoRow, NewFlow, Sessions

LEMMA NextChoices == Typed /\ Choices /\ [Next]_vars => StayPut /\ Choices'
<1> SUFFICES ASSUME Typed, Choices, [Next]_vars PROVE StayPut /\ Choices'
  OBVIOUS
<1>1. SameAccounts => StayPut
  BY DEF SameAccounts, StayPut
<1>2. CASE UNCHANGED vars
  BY <1>1, <1>2, OtherKeeps, QuietChoices
<1>3. ASSUME NEW f \in Logins, Login(f) PROVE StayPut /\ Choices'
  BY <1>1, <1>3, LoginKeeps, FindKeeps, ActivateKeeps, BringOnlineKeeps, QuietChoices
     DEF Login, StayPut
<1>4. CASE Crash
  BY <1>1, <1>4, CrashKeeps, QuietChoices
<1>5. QED
  BY <1>1, <1>2, <1>3, <1>4, OtherKeeps, QuietChoices DEF Next

\* Whatever logs in, fails, is deleted, collected or restarted, and in any order: a
\* row that has an account keeps it, so its channels stay with it
\* (ActivateAndConsolidateTGSession never deletes or re-uses the row of an account).
THEOREM RowsAreKept == Spec => RowsKept
BY InitTyped, NextTyped, InitChoices, NextChoices, PTL DEF Spec, RowsKept, StayPut
=============================================================================
