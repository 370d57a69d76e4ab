-------------------------- MODULE TgClientsProofs --------------------------
(* What TgSessions promises of the accounts whose requests never overlapped *)
(* (Quiet), and of the enumeration of dialogs.  The invariants of this      *)
(* module hang together: a step that could break one is excluded by others. *)
EXTENDS TgSessionsProofs

-----------------------------------------------------------------------------
(* How a step moves the logins *)

\* No login but a new one gets an account, none begins, none goes back.
Onward ==
    \A f \in Logins :
        /\ flow'[f].pc = "new" <=> flow[f].pc = "new"
        /\ flow'[f].account = flow[f].account
        /\ flow'[f].pc \in Undecided => flow[f].pc \in Undecided
        /\ flow'[f].pc \in Starting => flow[f].pc \in Undecided \cup Starting

\* No login chooses its row.
Decided == \A f \in Logins : flow'[f].pc = "commit" => /\ flow[f].pc = "commit"
                                                       /\ flow'[f].session = flow[f].session

\* No login is activated.
Held == \A f \in Logins : flow'[f].pc \in Starting => /\ flow[f].pc \in Starting
                                                      /\ flow'[f].session = flow[f].session

\* No login starts a client or stops waiting for one.
Early == Undecided \cup {"new", "check", "dial"}

Clientless ==
    \A f \in Logins :
        /\ flow'[f].pc \in Early => flow[f].pc \in Early
        /\ flow'[f].pc = "dial" => flow[f].pc = "dial" /\ flow'[f].session = flow[f].session
        /\ flow'[f].pc = "probe" <=> flow[f].pc = "probe"
        /\ flow'[f].pc = "probe" => flow'[f].session = flow[f].session

\* One login moves.
LEMMA OneMoves ==
    ASSUME Typed, NEW f \in Logins, NEW r, flow' = [flow EXCEPT ![f] = r],
           r.account = flow[f].account, r.pc = "new" <=> flow[f].pc = "new",
           r.pc \in Undecided => flow[f].pc \in Undecided,
           r.pc \in Starting => flow[f].pc \in Undecided \cup Starting
    PROVE  /\ Onward
           /\ (r.pc = "commit" => flow[f].pc = "commit" /\ r.session = flow[f].session) => Decided
           /\ (r.pc \in Starting => flow[f].pc \in Starting /\ r.session = flow[f].session) => Held
           /\ (/\ r.pc \in Early => flow[f].pc \in Early
               /\ r.pc = "dial" => flow[f].pc = "dial" /\ r.session = flow[f].session
               /\ r.pc = "probe" <=> flow[f].pc = "probe"
               /\ r.pc = "probe" => r.session = flow[f].session) => Clientless
<1>1. /\ flow'[f] = r
      /\ \A g \in Logins : g # f => flow'[g] = flow[g]
  BY DEF Typed, TypeOK
<1>2. Onward
  BY <1>1 DEF Onward
<1>3. (r.pc = "commit" => flow[f].pc = "commit" /\ r.session = flow[f].session) => Decided
  BY <1>1 DEF Decided
<1>4. (r.pc \in Starting => flow[f].pc \in Starting /\ r.session = flow[f].session) => Held
  BY <1>1 DEF Held
<1>5. (/\ r.pc \in Early => flow[f].pc \in Early
       /\ r.pc = "dial" => flow[f].pc = "dial" /\ r.session = flow[f].session
       /\ r.pc = "probe" <=> flow[f].pc = "probe"
       /\ r.pc = "probe" => r.session = flow[f].session) => Clientless
  BY <1>1 DEF Clientless
<1>6. QED
  BY <1>2, <1>3, <1>4, <1>5

\* Until its row is chosen a login minds itself.
LEMMA WaitingMoves ==
    ASSUME Typed, NEW f \in Logins,
           \/ ConnectLogin(f) \/ SubmitCode(f) \/ SubmitPassword(f) \/ TakeCode(f)
           \/ TakePassword(f) \/ FailLogin(f) \/ ForgetLogin(f) \/ CollectLogin(f)
    PROVE  Onward /\ Decided /\ Held /\ Clientless
<1>f. flow \in [Logins -> Flows] /\ flow[f] \in Flows
  BY DEF Typed, TypeOK, Flows
<1>1. PICK r : /\ flow' = [flow EXCEPT ![f] = r] /\ r.account = flow[f].account
               /\ r.pc = "new" <=> flow[f].pc = "new"
               /\ \/ r.pc = flow[f].pc /\ r.session = flow[f].session
                  \/ /\ r.pc \in {"code", "password", "authorized", "ended"}
                     /\ flow[f].pc \in Undecided
  <2>1. CASE ConnectLogin(f)
    <3> DEFINE r == [flow[f] EXCEPT !.pc = "code"]
    <3>1. r.account = flow[f].account /\ r.pc = "code"
      BY <1>f DEF Flows
    <3>2. flow' = [flow EXCEPT ![f] = r] /\ flow[f].pc = "connect"
      BY <2>1 DEF ConnectLogin, Goto
    <3> HIDE DEF r
    <3>3. QED
      BY <3>1, <3>2 DEF Undecided
  <2>2. CASE SubmitCode(f) \/ SubmitPassword(f)
    <3>1. PICK r : /\ flow' = [flow EXCEPT ![f] = r]
                   /\ r = [flow[f] EXCEPT !.code = TRUE] \/ r = [flow[f] EXCEPT !.password = TRUE]
      BY <2>2 DEF SubmitCode, SubmitPassword
    <3>2. r.account = flow[f].account /\ r.pc = flow[f].pc /\ r.session = flow[f].session
      BY <1>f, <3>1 DEF Flows
    <3>3. flow[f].pc # "new"
      BY <2>2 DEF SubmitCode, SubmitPassword
    <3>4. QED
      BY <3>1, <3>2, <3>3
  <2>3. CASE TakeCode(f) \/ TakePassword(f)
    <3>1. PICK r : /\ flow' = [flow EXCEPT ![f] = r]
                   /\ \/ r = [flow[f] EXCEPT !.code = FALSE, !.pc = "password"]
                      \/ r = [flow[f] EXCEPT !.code = FALSE, !.pc = "authorized"]
                      \/ r = [flow[f] EXCEPT !.password = FALSE, !.pc = "authorized"]
      BY <2>3, <1>f DEF TakeCode, TakePassword
    <3>2. r.account = flow[f].account /\ r.pc \in {"password", "authorized"}
      BY <1>f, <3>1 DEF Flows
    <3>3. flow[f].pc \in {"code", "password"}
      BY <2>3 DEF TakeCode, TakePassword
    <3>4. QED
      BY <3>1, <3>2, <3>3 DEF Undecided
  <2>4. CASE FailLogin(f)
    <3>1. EndedFlow(flow[f]).pc = "ended" /\ EndedFlow(flow[f]).account = flow[f].account
      BY DEF EndedFlow, NewFlow
    <3>2. flow[f].pc \in Undecided /\ flow' = [flow EXCEPT ![f] = EndedFlow(flow[f])]
      BY <2>4 DEF FailLogin, End
    <3>3. QED
      BY <3>1, <3>2 DEF Undecided
  <2>5. CASE ForgetLogin(f) \/ CollectLogin(f)
    <3>1. PICK r : /\ flow' = [flow EXCEPT ![f] = r]
                   /\ r = [flow[f] EXCEPT !.listed = FALSE] \/ r = Collected(flow[f])
      BY <2>5 DEF ForgetLogin, CollectLogin
    <3>2. r.account = flow[f].account /\ r.pc = flow[f].pc /\ r.session = flow[f].session
      BY <1>f, <3>1 DEF Flows, Collected
    <3>3. QED
      BY <3>1, <3>2
  <2>6. QED
    BY <2>1, <2>2, <2>3, <2>4, <2>5
<1>2. /\ r.pc \in Undecided => flow[f].pc \in Undecided
      /\ r.pc \in Starting => flow[f].pc \in Starting /\ r.session = flow[f].session
      /\ r.pc = "commit" => flow[f].pc = "commit" /\ r.session = flow[f].session
      /\ r.pc \in Early => flow[f].pc \in Early
      /\ r.pc = "dial" => flow[f].pc = "dial" /\ r.session = flow[f].session
      /\ r.pc = "probe" <=> flow[f].pc = "probe"
      /\ r.pc = "probe" => r.session = flow[f].session
  BY <1>1 DEF Undecided, Starting, Early
<1>3. QED
  BY <1>1, <1>2, OneMoves

\* The row is chosen, then activated.
LEMMA FindMoves ==
    ASSUME Typed, NEW f \in Logins, FindCanonical(f)
    PROVE  Onward /\ Held /\ Clientless
<1>1. flow \in [Logins -> Flows] /\ flow[f] \in Flows
  BY DEF Typed, TypeOK, Flows
<1>2. PICK s : flow' = [flow EXCEPT ![f].pc = "commit", ![f].session = s]
  BY DEF FindCanonical
<1> DEFINE r == [flow[f] EXCEPT !.pc = "commit", !.session = s]
<1>3. r.account = flow[f].account /\ r.pc = "commit"
  BY <1>1 DEF Flows
<1>4. flow' = [flow EXCEPT ![f] = r] /\ flow[f].pc = "authorized"
  BY <1>1, <1>2 DEF FindCanonical
<1> HIDE DEF r
<1>5. QED
  BY <1>3, <1>4, OneMoves DEF Undecided, Starting, Early

LEMMA ActivateMoves ==
    ASSUME Typed, NEW f \in Logins, Activate(f)
    PROVE  /\ Onward /\ Decided /\ Clientless
           /\ flow[f].pc = "commit" /\ flow'[f].pc = "check"
           /\ flow'[f].session = flow[f].session /\ flow'[f].account = flow[f].account
           /\ \A g \in Logins : g # f => flow'[g] = flow[g]
<1>1. flow \in [Logins -> Flows] /\ flow[f] \in Flows
  BY DEF Typed, TypeOK, Flows
<1> DEFINE r == [flow[f] EXCEPT !.pc = "check"]
<1>2. r.account = flow[f].account /\ r.pc = "check" /\ r.session = flow[f].session
  BY <1>1 DEF Flows
<1>3. flow' = [flow EXCEPT ![f] = r] /\ flow[f].pc = "commit"
  BY DEF Activate, Goto
<1> HIDE DEF r
<1>4. Onward /\ Decided /\ Clientless
  BY <1>2, <1>3, OneMoves DEF Undecided, Starting, Early
<1>5. QED
  BY <1>1, <1>2, <1>3, <1>4

\* A login that is activated stays with its row.
LEMMA StartingMoves ==
    ASSUME Typed, NEW f \in Logins, BringOnline(f)
    PROVE  /\ Onward /\ Decided /\ Held
           /\ TriggerAfterLogin(f) => Clientless
           /\ flow[f].pc \in Starting /\ flow'[f].account = flow[f].account
           /\ flow'[f].pc = "ended" \/ flow'[f].session = flow[f].session
           /\ CheckClient(f) => flow'[f].pc = IF Present(flow[f].session) THEN "trigger" ELSE "dial"
           /\ Dial(f) => flow'[f].pc = "probe"
           /\ Install(f) => flow'[f].pc = "trigger"
           /\ FailStart(f) => flow'[f].pc = "ended"
           /\ \A g \in Logins : g # f => flow'[g] = flow[g]
<1>1. flow \in [Logins -> Flows] /\ flow[f] \in Flows
  BY DEF Typed, TypeOK, Flows
<1>2. flow[f].pc \in Starting
  BY DEF BringOnline, CheckClient, Dial, Install, FailStart, TriggerAfterLogin, Starting
<1>3. PICK r : /\ flow' = [flow EXCEPT ![f] = r] /\ r.account = flow[f].account
               /\ \/ r.pc = "ended"
                  \/ r.pc \in Starting /\ r.session = flow[f].session
               /\ CheckClient(f) => r.pc = IF Present(flow[f].session) THEN "trigger" ELSE "dial"
               /\ Dial(f) => r.pc = "probe"
               /\ Install(f) => r.pc = "trigger"
               /\ FailStart(f) \/ TriggerAfterLogin(f) => r.pc = "ended"
  <2>1. ASSUME NEW pc \in Starting, Goto(f, pc)
        PROVE  \E r : /\ flow' = [flow EXCEPT ![f] = r] /\ r.account = flow[f].account
                      /\ r.pc = pc /\ r.session = flow[f].session
    <3> DEFINE r == [flow[f] EXCEPT !.pc = pc]
    <3>1. r.account = flow[f].account /\ r.pc = pc /\ r.session = flow[f].session
      BY <1>1 DEF Flows
    <3>2. flow' = [flow EXCEPT ![f] = r]
      BY <2>1 DEF Goto
    <3> HIDE DEF r
    <3>3. QED
      BY <3>1, <3>2
  <2>2. ASSUME End(f)
        PROVE  \E r : /\ flow' = [flow EXCEPT ![f] = r] /\ r.account = flow[f].account
                      /\ r.pc = "ended"
    <3>1. EndedFlow(flow[f]).pc = "ended" /\ EndedFlow(flow[f]).account = flow[f].account
      BY DEF EndedFlow, NewFlow
    <3>2. QED
      BY <2>2, <3>1 DEF End
  <2>3. CASE CheckClient(f)
    <3>1. flow[f].pc = "check" /\ Goto(f, IF Present(flow[f].session) THEN "trigger" ELSE "dial")
      BY <2>3 DEF CheckClient
    <3>2. QED
      BY <3>1, <2>1 DEF Dial, Install, FailStart, TriggerAfterLogin, Starting
  <2>4. CASE Dial(f) /\ ~FailStart(f)
    <3>1. flow[f].pc = "dial" /\ Goto(f, "probe")
      BY <2>4 DEF Dial
    <3>2. QED
      BY <2>1, <2>4, <3>1 DEF CheckClient, Install, TriggerAfterLogin, Starting
  <2>5. CASE Install(f) /\ ~FailStart(f)
    <3>1. flow[f].pc = "probe" /\ Goto(f, "trigger")
      BY <2>5 DEF Install
    <3>2. QED
      BY <2>1, <2>5, <3>1 DEF CheckClient, Dial, TriggerAfterLogin, Starting
  <2>6. CASE FailStart(f) /\ ~Dial(f) /\ ~Install(f)
    <3>1. flow[f].pc \in {"dial", "probe"} /\ End(f)
      BY <2>6 DEF FailStart
    <3>2. QED
      BY <2>2, <2>6, <3>1 DEF CheckClient
  <2>7. CASE TriggerAfterLogin(f)
    <3>1. flow[f].pc = "trigger" /\ End(f)
      BY <2>7 DEF TriggerAfterLogin
    <3>2. QED
      BY <2>2, <3>1 DEF CheckClient, Dial, Install
  <2>8. ~(FailStart(f) /\ (Dial(f) \/ Install(f)))
    <3>1. FailStart(f) => flow'[f].pc = "ended"
      BY <1>1 DEF FailStart, End, EndedFlow, NewFlow
    <3>2. Dial(f) => flow'[f].pc = "probe"
      BY <1>1 DEF Dial, Goto, Flows
    <3>3. Install(f) => flow'[f].pc = "trigger"
      BY <1>1 DEF Install, Goto, Flows
    <3>4. QED
      BY <3>1, <3>2, <3>3
  <2>9. QED
    BY <2>3, <2>4, <2>5, <2>6, <2>7, <2>8 DEF BringOnline
<1>4. /\ flow'[f] = r
      /\ \A g \in Logins : g # f => flow'[g] = flow[g]
  BY <1>1, <1>3
<1>5. Onward /\ Decided /\ Held
  BY <1>2, <1>3, OneMoves DEF Undecided, Starting
<1>6. TriggerAfterLogin(f) => Clientless
  <2> SUFFICES ASSUME TriggerAfterLogin(f) PROVE Clientless
    OBVIOUS
  <2>1. r.pc = "ended" /\ flow[f].pc = "trigger"
    BY <1>3 DEF TriggerAfterLogin
  <2>2. QED
    BY <1>3, <2>1, OneMoves DEF Undecided, Starting, Early
<1>7. QED
  BY <1>2, <1>3, <1>4, <1>5, <1>6

\* The rest of the program leaves every login alone, and a crash ends them all.
LEMMA StillMoves ==
    ASSUME flow' = flow
    PROVE  Onward /\ Decided /\ Held /\ Clientless
BY DEF Onward, Decided, Held, Clientless

LEMMA CrashMoves ==
    ASSUME Typed, \A f \in Logins : flow[f].pc = "new" => flow[f].account = None, Crash
    PROVE  Onward /\ Decided /\ Held /\ \A f \in Logins : ~InFlight(f)'
<1>1. \A f \in Logins : /\ flow'[f].pc = (IF flow[f].pc = "new" THEN "new" ELSE "ended")
                        /\ flow'[f].account = flow[f].account
  BY DEF Crash, EndedFlow, NewFlow
<1>2. QED
  BY <1>1 DEF Onward, Decided, Held, InFlight, Undecided, Starting

-----------------------------------------------------------------------------
(* Whose rows and logins they are *)

Named ==
    /\ \A f \in Logins :
         /\ flow[f].pc = "new" <=> flow[f].account = None
         /\ flow[f].pc = "new" => ~Exists(f)
         /\ flow[f].pc \in Undecided => Exists(f)
         /\ flow[f].pc \in Starting => row[flow[f].session].account = flow[f].account
    /\ \A s \in Sessions :
         /\ row[s].account # None => Exists(s) /\ flow[s].account = row[s].account
         /\ row[s].status = "active" => row[s].account # None

\* What most steps do to the rows.
SameRows == \A s \in Sessions : row'[s].status = row[s].status /\ row'[s].account = row[s].account

LEMMA CalmNamed ==
    ASSUME Typed, Named, Onward, Held,
           \A s \in Sessions : /\ row'[s].account = row[s].account
                               /\ Exists(s)' <=> Exists(s)
                               /\ row'[s].status = "active" => row[s].status = "active"
    PROVE  Named'
<1>1. ASSUME NEW f \in Logins
      PROVE  /\ flow'[f].pc = "new" <=> flow'[f].account = None
             /\ flow'[f].pc = "new" => ~Exists(f)'
             /\ flow'[f].pc \in Undecided => Exists(f)'
             /\ flow'[f].pc \in Starting => row'[flow'[f].session].account = flow'[f].account
  <2>1. flow[f].pc \in Starting => flow[f].session \in Sessions
    BY DEF Typed, Placed
  <2>2. QED
    BY <2>1 DEF Named, Onward, Held, Sessions
<1>2. ASSUME NEW s \in Sessions
      PROVE  /\ row'[s].account # None => Exists(s)' /\ flow'[s].account = row'[s].account
             /\ row'[s].status = "active" => row'[s].account # None
  BY DEF Named, Onward, Sessions
<1>3. QED
  BY <1>1, <1>2 DEF Named, Exists

\* A login begins: nobody has used its row.
LEMMA StartMoves ==
    ASSUME Typed, Named, Choices, NEW f \in Logins, NEW a \in Accounts, StartLogin(f, a)
    PROVE  /\ row'[f].status = "pending" /\ row'[f].account = None /\ row'[f].discover = "idle"
           /\ row[f].account = None /\ ~Exists(f)
           /\ \A s \in Sessions : s # f => row'[s] = row[s]
           /\ flow'[f].pc = "connect" /\ flow'[f].account = a /\ a # None
           /\ flow[f].pc = "new" /\ flow[f].account = None
           /\ \A g \in Logins : g # f => flow'[g] = flow[g]
<1>1. /\ flow[f].pc = "new" /\ a # None /\ row \in [Sessions -> Rows]
      /\ flow \in [Logins -> Flows] /\ f \in Sessions
  BY SessionsAssumption DEF StartLogin, Typed, TypeOK, Rows, Flows, Sessions
<1>2. row[f].account = None /\ ~Exists(f) /\ flow[f].account = None
  BY <1>1 DEF Choices, Waiting, Named
<1>3. /\ row'[f].status = "pending" /\ row'[f].account = None /\ row'[f].discover = "idle"
      /\ \A s \in Sessions : s # f => row'[s] = row[s]
  BY <1>1 DEF StartLogin, NoRow
<1>4. /\ flow'[f].pc = "connect" /\ flow'[f].account = a
      /\ \A g \in Logins : g # f => flow'[g] = flow[g]
  BY <1>1 DEF StartLogin, NewFlow
<1>5. QED
  BY <1>1, <1>2, <1>3, <1>4

LEMMA StartNamed ==
    ASSUME Typed, Named, Choices, NEW f \in Logins, NEW a \in Accounts, StartLogin(f, a)
    PROVE  Named'
<1>1. f \in Sessions /\ Exists(f)' /\ ~(row'[f].status = "active")
  BY StartMoves DEF Exists, Sessions
<1>2. \A s \in Sessions : s # f => (Exists(s)' <=> Exists(s))
  BY StartMoves DEF Exists
<1>3. ASSUME NEW g \in Logins, flow'[g].pc \in Starting
      PROVE  row'[flow'[g].session].account = flow'[g].account
  <2>1. g # f /\ flow'[g] = flow[g]
    BY <1>3, StartMoves DEF Starting
  <2>2. /\ flow[g].session \in Sessions /\ row[flow[g].session].account = flow[g].account
        /\ flow[g].account # None
    BY <1>3, <2>1, SessionsAssumption DEF Typed, Placed, InFlight, Named
  <2>3. flow[g].session # f
    BY <2>2, StartMoves
  <2>4. QED
    BY <2>1, <2>2, <2>3, StartMoves
<1>4. ASSUME NEW g \in Logins
      PROVE  /\ flow'[g].pc = "new" <=> flow'[g].account = None
             /\ flow'[g].pc = "new" => ~Exists(g)'
             /\ flow'[g].pc \in Undecided => Exists(g)'
  <2>1. CASE g = f
    BY <1>1, <2>1, StartMoves
  <2>2. CASE g # f
    BY <1>2, <2>2, StartMoves DEF Named, Sessions
  <2>3. QED
    BY <2>1, <2>2
<1>5. ASSUME NEW s \in Sessions
      PROVE  /\ row'[s].account # None => Exists(s)' /\ flow'[s].account = row'[s].account
             /\ row'[s].status = "active" => row'[s].account # None
  <2>1. CASE s = f
    BY <1>1, <2>1, StartMoves
  <2>2. CASE s # f
    BY <1>2, <2>2, StartMoves DEF Named, Sessions
  <2>3. QED
    BY <2>1, <2>2
<1>6. QED
  BY <1>3, <1>4, <1>5 DEF Named, Exists

\* The row a login takes, and its own, which it leaves.
LEMMA ActivateRows ==
    ASSUME Typed, Named, Choices, NEW f \in Logins, Activate(f)
    PROVE  /\ flow[f].session \in Sessions /\ f \in Sessions
           /\ flow[f].account \in Accounts /\ flow[f].account # None
           /\ row[f].account = None /\ Exists(f)
           /\ flow[f].session = f \/ row[flow[f].session].account = flow[f].account
           /\ flow[flow[f].session].account = flow[f].account
           /\ row'[flow[f].session].status = "active"
           /\ row'[flow[f].session].account = flow[f].account
           /\ row'[flow[f].session].blob = row[f].blob
           /\ row'[flow[f].session].discover = row[flow[f].session].discover
           /\ flow[f].session # f => row'[f] = NoRow
           /\ \A s \in Sessions : s # f /\ s # flow[f].session => row'[s] = row[s]
<1>1. /\ flow[f].session \in Sessions /\ f \in Sessions /\ flow[f].account \in Accounts
      /\ flow[f].account # None /\ row \in [Sessions -> Rows] /\ flow[f].pc = "commit"
  BY SessionsAssumption DEF Activate, Typed, TypeOK, Placed, InFlight, Undecided, Rows, Sessions
<1>2. /\ row[f].account = None /\ Exists(f)
      /\ flow[f].session = f \/ row[flow[f].session].account = flow[f].account
  BY <1>1 DEF Choices, Waiting, Undecided, Named
<1>3. flow[flow[f].session].account = flow[f].account
  BY <1>1, <1>2 DEF Named
<1>4. row' = Consolidated(f, flow[f].session, flow[f].account)
  BY DEF Activate
<1>5. row'[flow[f].session] = [row[flow[f].session] EXCEPT !.status = "active",
                                 !.account = flow[f].account, !.blob = row[f].blob]
  BY <1>1, <1>4 DEF Consolidated
<1>6. /\ row'[flow[f].session].status = "active"
      /\ row'[flow[f].session].account = flow[f].account
      /\ row'[flow[f].session].blob = row[f].blob
      /\ row'[flow[f].session].discover = row[flow[f].session].discover
  <2>1. row[flow[f].session] \in Rows
    BY <1>1
  <2>2. QED
    BY <1>5, <2>1 DEF Rows
<1>7. /\ flow[f].session # f => row'[f] = NoRow
      /\ \A s \in Sessions : s # f /\ s # flow[f].session => row'[s] = row[s]
  BY <1>1, <1>4 DEF Consolidated
<1>8. QED
  BY <1>1, <1>2, <1>3, <1>6, <1>7

LEMMA ActivateNamed ==
    ASSUME Typed, Named, Choices, NEW f \in Logins, Activate(f)
    PROVE  Named'
<1> DEFINE s == flow[f].session
           a == flow[f].account
<1>1. /\ s \in Sessions /\ f \in Sessions /\ a # None /\ row[f].account = None
      /\ s = f \/ row[s].account = a
      /\ flow[s].account = a
      /\ row'[s].status = "active" /\ row'[s].account = a
      /\ s # f => row'[f].status = "none" /\ row'[f].account = None
      /\ \A t \in Sessions : t # f /\ t # s => row'[t] = row[t]
  BY ActivateRows DEF NoRow
<1>2. /\ Onward /\ flow'[f].pc = "check" /\ flow'[f].session = s /\ flow'[f].account = a
      /\ \A g \in Logins : g # f => flow'[g] = flow[g]
  BY ActivateMoves
<1> HIDE DEF s, a
<1>3. ASSUME NEW g \in Logins, flow'[g].pc \in Starting
      PROVE  row'[flow'[g].session].account = flow'[g].account
  <2>1. CASE g = f
    BY <1>1, <1>2, <2>1
  <2>2. CASE g # f
    <3>1. flow'[g] = flow[g]
      BY <1>2, <2>2
    <3>2. /\ flow[g].session \in Sessions /\ row[flow[g].session].account = flow[g].account
          /\ flow[g].account # None
      BY <1>3, <3>1, SessionsAssumption DEF Typed, Placed, InFlight, Named
    <3>3. QED
      BY <1>1, <3>1, <3>2
  <2>3. QED
    BY <2>1, <2>2
<1>4. ASSUME NEW g \in Logins
      PROVE  /\ flow'[g].pc = "new" <=> flow'[g].account = None
             /\ flow'[g].pc = "new" => ~Exists(g)'
             /\ flow'[g].pc \in Undecided => Exists(g)'
  <2>1. g \in Sessions /\ flow'[g].pc = "new" <=> flow'[g].account = None
    BY <1>2 DEF Named, Onward, Sessions
  <2>2. CASE g = f
    BY <1>2, <2>1, <2>2 DEF Undecided
  <2>3. CASE g = s /\ g # f
    <3>1. flow'[g].pc # "new" /\ Exists(g)'
      BY <1>1, <1>2, <2>1, <2>3 DEF Exists, Named
    <3>2. QED
      BY <2>1, <3>1
  <2>4. CASE g # s /\ g # f
    BY <1>1, <1>2, <2>1, <2>4 DEF Exists, Named, Sessions
  <2>5. QED
    BY <2>2, <2>3, <2>4
<1>5. ASSUME NEW t \in Sessions
      PROVE  /\ row'[t].account # None => Exists(t)' /\ flow'[t].account = row'[t].account
             /\ row'[t].status = "active" => row'[t].account # None
  <2>1. CASE t = s
    BY <1>1, <1>2, <2>1 DEF Exists, Onward, Sessions
  <2>2. CASE t = f /\ t # s
    BY <1>1, <2>2
  <2>3. CASE t # f /\ t # s
    BY <1>1, <1>2, <2>3 DEF Exists, Named, Onward, Sessions
  <2>4. QED
    BY <2>1, <2>2, <2>3
<1>6. QED
  BY <1>3, <1>4, <1>5 DEF Named, Exists

\* A login between its first step and its last, activation apart, and the rest of the
\* program: whose row it is, and whether it is revoked, they leave alone.
LEMMA LoginRows ==
    ASSUME Typed, NEW f \in Logins,
           \/ ConnectLogin(f) \/ SubmitCode(f) \/ SubmitPassword(f) \/ TakeCode(f)
           \/ TakePassword(f) \/ FailLogin(f) \/ ForgetLogin(f) \/ CollectLogin(f)
           \/ FindCanonical(f) \/ BringOnline(f)
    PROVE  SameRows
<1>1. row \in [Sessions -> Rows] /\ f \in Sessions
  BY DEF Typed, TypeOK, Rows, Sessions
<1>2. row' # row => \E s, k : row' = [row EXCEPT ![s].blob = k]
  BY DEF ConnectLogin, SubmitCode, SubmitPassword, TakeCode, TakePassword, FailLogin,
         ForgetLogin, CollectLogin, FindCanonical, BringOnline, CheckClient, Dial, Install,
         FailStart, TriggerAfterLogin
<1>3. ASSUME NEW s, NEW k, row' = [row EXCEPT ![s].blob = k] PROVE SameRows
  BY <1>1, <1>3 DEF SameRows, Rows
<1>4. QED
  BY <1>2, <1>3 DEF SameRows

LEMMA OtherRows ==
    ASSUME Typed,
           \/ \E f \in Logins : Expire(f)
           \/ \E c \in Connected : StoreBlob(c)
           \/ \E w \in Walkers : Discover(w)
           \/ \E s \in Sessions : RefreshDiscover(s) \/ BeginDelete(s) \/ Restore(s)
           \/ HaltClient \/ Crash \/ UNCHANGED vars
    PROVE  SameRows
<1>1. row \in [Sessions -> Rows]
  BY DEF Typed, TypeOK, Rows
<1>2. \/ row' = row
      \/ \E s, k : row' = [row EXCEPT ![s].blob = k]
      \/ \E s, d : row' = [row EXCEPT ![s].discover = d]
  BY DEF Expire, StoreBlob, Discover, StartDiscover, EndWalk, FinishDiscover, LeaveDiscover,
         SetDiscover, RefreshDiscover, BeginDelete, Restore, HaltClient, Crash, vars
<1>3. ASSUME NEW s, NEW k,
             row' = [row EXCEPT ![s].blob = k] \/ row' = [row EXCEPT ![s].discover = k]
      PROVE SameRows
  BY <1>1, <1>3 DEF SameRows, Rows
<1>4. QED
  BY <1>2, <1>3 DEF SameRows

\* A session is revoked, with its blob.
LEMMA RevokeRows ==
    ASSUME Typed, Revoke
    PROVE  /\ deletion.session \in Sessions /\ deletion.stopping = None
           /\ deletion' = NoDeletion
           /\ UNCHANGED <<flow, client, running, registered, walker, booting, contended>>
           /\ \A s \in Sessions : s # deletion.session => row'[s] = row[s]
           /\ Exists(deletion.session)
                 => /\ row'[deletion.session].status = "revoked"
                    /\ row'[deletion.session].blob = None
           /\ ~Exists(deletion.session) => row' = row
           /\ \A s \in Sessions : /\ row'[s].account = row[s].account
                                  /\ row'[s].discover = row[s].discover
                                  /\ Exists(s)' <=> Exists(s)
                                  /\ row'[s].status = "active" => row'[s] = row[s]
<1>1. /\ deletion.session \in Sessions /\ row \in [Sessions -> Rows]
      /\ row[deletion.session] \in Rows /\ deletion.stopping = None
  BY DEF Revoke, Stopped, Typed, TypeOK, Rows
<1>2. CASE Exists(deletion.session)
  <2>1. row' = [row EXCEPT ![deletion.session] = Revoked(row[deletion.session])]
    BY <1>2 DEF Revoke
  <2>2. /\ row'[deletion.session] = Revoked(row[deletion.session])
        /\ \A s \in Sessions : s # deletion.session => row'[s] = row[s]
    BY <1>1, <2>1
  <2>3. /\ row'[deletion.session].status = "revoked" /\ row'[deletion.session].blob = None
        /\ row'[deletion.session].account = row[deletion.session].account
        /\ row'[deletion.session].discover = row[deletion.session].discover
    BY <1>1, <2>2 DEF Revoked, Rows
  <2>4. QED
    BY <1>1, <1>2, <2>2, <2>3 DEF Revoke, Exists
<1>3. CASE ~Exists(deletion.session)
  <2>1. row' = row
    BY <1>3 DEF Revoke
  <2>2. QED
    BY <1>1, <1>3, <2>1 DEF Revoke, Exists
<1>4. QED
  BY <1>2, <1>3

\* The steps that are neither a login's first nor its activation.
LEMMA MostMoves ==
    ASSUME Typed, Named,
           \/ \E f \in Logins : \/ ConnectLogin(f) \/ SubmitCode(f) \/ SubmitPassword(f)
                                \/ TakeCode(f) \/ TakePassword(f) \/ FailLogin(f)
                                \/ ForgetLogin(f) \/ CollectLogin(f) \/ FindCanonical(f)
                                \/ BringOnline(f) \/ Expire(f)
           \/ \E c \in Connected : StoreBlob(c)
           \/ \E w \in Walkers : Discover(w)
           \/ \E s \in Sessions : RefreshDiscover(s) \/ BeginDelete(s) \/ Restore(s)
           \/ HaltClient \/ Revoke \/ Crash \/ UNCHANGED vars
    PROVE  /\ Onward /\ Held
           /\ (\A f \in Logins : ~FindCanonical(f)) => Decided
           /\ ~Revoke => SameRows
           /\ contended \subseteq contended'
           /\ (\A s \in Sessions : ~BeginDelete(s)) => contended' = contended
<1>1. /\ contended \subseteq contended'
      /\ (\A s \in Sessions : ~BeginDelete(s)) => contended' = contended
  <2>1. (\A s \in Sessions : ~BeginDelete(s)) => contended' = contended
    BY DEF ConnectLogin, SubmitCode, SubmitPassword, TakeCode, TakePassword, FailLogin,
           ForgetLogin, CollectLogin, FindCanonical, BringOnline, CheckClient, Dial, Install,
           FailStart, TriggerAfterLogin, Expire, StoreBlob, Discover, StartDiscover, EndWalk,
           FinishDiscover, LeaveDiscover, RefreshDiscover, Restore, HaltClient, Revoke, Crash,
           vars
  <2>2. ASSUME NEW s \in Sessions, BeginDelete(s) PROVE contended \subseteq contended'
    BY <2>2 DEF BeginDelete
  <2>3. QED
    BY <2>1, <2>2
<1>2. ASSUME NEW f \in Logins,
             \/ ConnectLogin(f) \/ SubmitCode(f) \/ SubmitPassword(f)
             \/ TakeCode(f) \/ TakePassword(f) \/ FailLogin(f)
             \/ ForgetLogin(f) \/ CollectLogin(f) \/ FindCanonical(f) \/ BringOnline(f)
      PROVE  Onward /\ Held /\ (~FindCanonical(f) => Decided) /\ SameRows
  BY <1>2, WaitingMoves, FindMoves, StartingMoves, LoginRows
<1>3. ASSUME \/ \E f \in Logins : Expire(f)
             \/ \E c \in Connected : StoreBlob(c)
             \/ \E w \in Walkers : Discover(w)
             \/ \E s \in Sessions : RefreshDiscover(s) \/ BeginDelete(s) \/ Restore(s)
             \/ HaltClient \/ Revoke \/ Crash \/ UNCHANGED vars
      PROVE  Onward /\ Held /\ Decided /\ (~Revoke => SameRows)
  <2>1. CASE Crash
    BY <2>1, CrashMoves, OtherRows DEF Named
  <2>2. CASE ~Crash
    <3>1. flow' = flow
      BY <1>3, <2>2 DEF Expire, StoreBlob, Discover, StartDiscover, EndWalk, FinishDiscover,
             LeaveDiscover, RefreshDiscover, BeginDelete, Restore, HaltClient, Revoke, vars
    <3>2. QED
      BY <1>3, <3>1, StillMoves, OtherRows
  <2>3. QED
    BY <2>1, <2>2
<1>4. QED
  BY <1>1, <1>2, <1>3

LEMMA InitNamed == Init => Named
BY SessionsAssumption DEF Init, Named, NoRow, NewFlow, Exists, Undecided, Starting, Sessions

LEMMA NextNamed ==
    ASSUME Typed, Named, Choices, [Next]_vars
    PROVE  Named'
<1>1. ASSUME NEW f \in Logins, NEW a \in Accounts, StartLogin(f, a) PROVE Named'
  BY <1>1, StartNamed
<1>2. ASSUME NEW f \in Logins, Activate(f) PROVE Named'
  BY <1>2, ActivateNamed
<1>3. CASE Revoke
  <2>1. \A s \in Sessions : /\ row'[s].account = row[s].account
                            /\ Exists(s)' <=> Exists(s)
                            /\ row'[s].status = "active" => row[s].status = "active"
    BY <1>3, RevokeRows
  <2>2. QED
    BY <1>3, <2>1, MostMoves, CalmNamed
<1>4. ASSUME Onward, Held, SameRows PROVE Named'
  BY <1>4, CalmNamed DEF SameRows, Exists
<1>5. QED
  BY <1>1, <1>2, <1>3, <1>4, MostMoves DEF Next, Login

-----------------------------------------------------------------------------
(* Dialogs *)

\* A walk has its session's entry, alone, and its session is one that was begun.
Walked ==
    /\ \A w \in Walkers : walker[w].pc # "off" => /\ walker[w].session \in registered
                                                  /\ flow[walker[w].session].pc # "new"
    /\ \A v, w \in Walkers : /\ walker[v].pc # "off" /\ walker[w].pc # "off"
                             /\ walker[v].session = walker[w].session
                             => v = w
    /\ DiscoverHonest

Dialogs == \A s \in Sessions : Exists(s)' /\ flow[s].pc # "new"
                                 => Exists(s) /\ row'[s].discover = row[s].discover

LEMMA WalkerTypes ==
    ASSUME Typed
    PROVE  /\ registered \subseteq Sessions /\ row \in [Sessions -> Rows]
           /\ walker \in [Walkers -> [session : Sessions \cup {None},
                            pc : {"off", "lookup", "walk", "done", "failed", "leave"}]]
BY DEF Typed, TypeOK, Rows

LEMMA CalmWalked ==
    ASSUME Typed, Walked, \A f \in Logins : flow'[f].pc = "new" => flow[f].pc = "new",
           Dialogs, UNCHANGED <<walker, registered>>
    PROVE  Walked'
<1>1. ASSUME NEW w \in Walkers, walker[w].pc # "off"
      PROVE  /\ walker[w].session \in registered /\ walker[w].session \in Sessions
             /\ flow[walker[w].session].pc # "new" /\ flow'[walker[w].session].pc # "new"
  BY <1>1, WalkerTypes DEF Walked, Sessions
<1>2. ASSUME NEW w \in Walkers, walker[w].pc = "walk", Exists(walker[w].session)'
      PROVE  row'[walker[w].session].discover = "running"
  <2>1. /\ Exists(walker[w].session)
        /\ row'[walker[w].session].discover = row[walker[w].session].discover
    BY <1>1, <1>2 DEF Dialogs
  <2>2. QED
    BY <1>2, <2>1 DEF Walked, DiscoverHonest
<1>3. DiscoverHonest'
  BY <1>2 DEF DiscoverHonest, Exists
<1>4. QED
  BY <1>1, <1>3 DEF Walked

\* Most steps leave the rows' discover alone.
LEMMA BlobDialogs ==
    ASSUME Typed, row' = row \/ \E s, k : row' = [row EXCEPT ![s].blob = k]
    PROVE  Dialogs
<1>1. row \in [Sessions -> Rows]
  BY WalkerTypes
<1>2. ASSUME NEW s, NEW k, row' = [row EXCEPT ![s].blob = k] PROVE Dialogs
  BY <1>1, <1>2 DEF Dialogs, Exists, Rows
<1>3. row' = row => Dialogs
  BY DEF Dialogs, Exists
<1>4. QED
  BY <1>2, <1>3

\* TriggerDiscover starts a walk only where none is registered.
LEMMA TriggerWalked ==
    ASSUME Typed, Walked, \A f \in Logins : flow'[f].pc = "new" => flow[f].pc = "new",
           NEW s \in Sessions, flow[s].pc # "new", TriggerDiscover(s), row' = row
    PROVE  Walked'
<1>1. CASE UNCHANGED <<walker, registered>>
  BY <1>1, CalmWalked, BlobDialogs
<1>2. CASE ~UNCHANGED <<walker, registered>>
  <2>1. PICK w \in Walkers :
            /\ walker[w].pc = "off" /\ s \notin registered
            /\ walker' = [walker EXCEPT ![w] = [session |-> s, pc |-> "lookup"]]
            /\ registered' = registered \cup {s}
    BY <1>2 DEF TriggerDiscover, MayDiscover
  <2>2. /\ walker'[w].session = s /\ walker'[w].pc = "lookup"
        /\ \A v \in Walkers : v # w => walker'[v] = walker[v]
    BY <2>1, WalkerTypes
  <2>3. ASSUME NEW v \in Walkers, v # w, walker[v].pc # "off"
        PROVE  /\ walker[v].session \in registered /\ walker[v].session # s
               /\ flow'[walker[v].session].pc # "new"
    BY <2>1, <2>3, WalkerTypes DEF Walked, Sessions
  <2>4. DiscoverHonest'
    BY <2>2 DEF Walked, DiscoverHonest, Exists
  <2>5. flow'[s].pc # "new"
    BY DEF Sessions
  <2>6. QED
    BY <2>1, <2>2, <2>3, <2>4, <2>5 DEF Walked
<1>3. QED
  BY <1>1, <1>2

\* One walk goes on: no other has its session.
LEMMA DiscoverWalked ==
    ASSUME Typed, Walked, NEW w \in Walkers, Discover(w)
    PROVE  Walked'
<1> DEFINE s == walker[w].session
<1>1. /\ walker[w].pc # "off" /\ s \in registered /\ s \in Sessions /\ flow[s].pc # "new"
      /\ \A v \in Walkers : v # w /\ walker[v].pc # "off" => walker[v].session # s
  BY WalkerTypes DEF Walked, Discover, StartDiscover, EndWalk, FinishDiscover, LeaveDiscover
<1>2. flow' = flow
  BY DEF Discover, StartDiscover, EndWalk, FinishDiscover, LeaveDiscover
<1>3. /\ \A v \in Walkers : v # w => walker'[v] = walker[v]
      /\ walker'[w].pc # "off" => walker'[w].session = s
  BY WalkerTypes DEF Discover, StartDiscover, EndWalk, FinishDiscover, LeaveDiscover, Idle
<1>4. registered' = registered \/ (registered' = registered \ {s} /\ walker'[w].pc = "off")
  BY WalkerTypes DEF Discover, StartDiscover, EndWalk, FinishDiscover, LeaveDiscover, Idle
<1>5. \A t \in Sessions : t # s => row'[t] = row[t]
  BY WalkerTypes DEF Discover, StartDiscover, EndWalk, FinishDiscover, LeaveDiscover, SetDiscover
<1>6. row'[s].status # "none" <=> row[s].status # "none"
  BY <1>1, WalkerTypes DEF Discover, StartDiscover, EndWalk, FinishDiscover, LeaveDiscover,
         SetDiscover, Exists, Rows
<1>7. walker'[w].pc = "walk" /\ Exists(s) => row'[s].discover = "running"
  BY <1>1, WalkerTypes DEF Discover, StartDiscover, EndWalk, FinishDiscover, LeaveDiscover,
         SetDiscover, Rows, Idle
<1> HIDE DEF s
<1>8. ASSUME NEW v \in Walkers, walker'[v].pc # "off"
      PROVE  /\ walker'[v].session \in registered' /\ flow'[walker'[v].session].pc # "new"
             /\ v # w => walker[v].session # s
  BY <1>1, <1>2, <1>3, <1>4, <1>8 DEF Walked
<1>9. ASSUME NEW v \in Walkers, walker'[v].pc = "walk", row'[walker'[v].session].status # "none"
      PROVE  row'[walker'[v].session].discover = "running"
  <2>1. CASE v = w
    <3>1. walker'[v].session = s
      BY <1>3, <1>9, <2>1
    <3>2. Exists(s)
      BY <1>6, <1>9, <3>1 DEF Exists
    <3>3. QED
      BY <1>7, <1>9, <2>1, <3>1, <3>2
  <2>2. CASE v # w
    <3>1. /\ walker'[v] = walker[v] /\ walker[v].pc = "walk" /\ walker[v].session # s
          /\ walker[v].session \in Sessions
      BY <1>3, <1>8, <1>9, <2>2, WalkerTypes DEF Walked
    <3>2. row'[walker[v].session] = row[walker[v].session]
      BY <1>5, <3>1
    <3>3. QED
      BY <1>9, <3>1, <3>2 DEF Walked, DiscoverHonest, Exists
  <2>3. QED
    BY <2>1, <2>2
<1>10. DiscoverHonest'
  BY <1>9 DEF DiscoverHonest, Exists
<1>11. QED
  BY <1>3, <1>8, <1>10 DEF Walked

LEMMA NextWalked ==
    ASSUME Typed, Named, Choices, Walked, [Next]_vars
    PROVE  Walked'
<1>1. ASSUME NEW f \in Logins, NEW a \in Accounts, StartLogin(f, a) PROVE Walked'
  <2>1. \A g \in Logins : flow'[g].pc = "new" => flow[g].pc = "new"
    BY <1>1, StartMoves
  <2>2. Dialogs
    BY <1>1, StartMoves DEF Dialogs, Exists
  <2>3. UNCHANGED <<walker, registered>>
    BY <1>1 DEF StartLogin
  <2>4. QED
    BY <2>1, <2>2, <2>3, CalmWalked
<1>2. ASSUME NEW f \in Logins, Activate(f) PROVE Walked'
  <2>1. Onward
    BY <1>2, ActivateMoves
  <2>2. Dialogs
    <3>1. Exists(flow[f].session)
      BY <1>2, ActivateRows DEF Named
    <3>2. flow[f].session # f => ~Exists(f)'
      BY <1>2, ActivateRows DEF NoRow, Exists
    <3>3. QED
      BY <1>2, <3>1, <3>2, ActivateRows DEF Dialogs, Exists
  <2>3. UNCHANGED <<walker, registered>>
    BY <1>2 DEF Activate
  <2>4. QED
    BY <2>1, <2>2, <2>3, CalmWalked DEF Onward
<1>3. CASE Revoke
  <2>1. Dialogs
    BY <1>3, RevokeRows DEF Dialogs
  <2>2. QED
    BY <1>3, <2>1, RevokeRows, CalmWalked
<1>4. ASSUME NEW f \in Logins, TriggerAfterLogin(f) PROVE Walked'
  <2>1. Onward /\ flow[f].pc \in Starting
    BY <1>4, StartingMoves DEF BringOnline
  <2>2. flow[f].session \in Sessions /\ row[flow[f].session].account = flow[f].account
        /\ flow[f].account # None
    BY <2>1, SessionsAssumption DEF Typed, Placed, InFlight, Named
  <2>3. flow[flow[f].session].pc # "new"
    BY <2>2 DEF Named, Sessions
  <2>4. QED
    BY <1>4, <2>1, <2>2, <2>3, TriggerWalked DEF TriggerAfterLogin, Onward
<1>5. ASSUME NEW s \in Sessions, RefreshDiscover(s) PROVE Walked'
  <2>1. flow[s].pc # "new" /\ flow' = flow /\ row' = row /\ TriggerDiscover(s)
    BY <1>5 DEF RefreshDiscover, Named, Sessions
  <2>2. QED
    BY <2>1, TriggerWalked
<1>6. CASE Crash
  <2>1. walker' = [w \in Walkers |-> Idle]
    BY <1>6 DEF Crash
  <2>2. QED
    BY <2>1 DEF Walked, DiscoverHonest, Idle
<1>7. ASSUME \/ \E f \in Logins : \/ ConnectLogin(f) \/ SubmitCode(f) \/ SubmitPassword(f)
                                  \/ TakeCode(f) \/ TakePassword(f) \/ FailLogin(f)
                                  \/ ForgetLogin(f) \/ CollectLogin(f) \/ FindCanonical(f)
                                  \/ CheckClient(f) \/ Dial(f) \/ Install(f) \/ FailStart(f)
                                  \/ Expire(f)
             \/ \E c \in Connected : StoreBlob(c)
             \/ \E s \in Sessions : BeginDelete(s) \/ Restore(s)
             \/ HaltClient \/ UNCHANGED vars
      PROVE  Walked'
  <2>1. Onward
    BY <1>7, MostMoves DEF BringOnline
  <2>2. row' = row \/ \E s, k : row' = [row EXCEPT ![s].blob = k]
    BY <1>7 DEF ConnectLogin, SubmitCode, SubmitPassword, TakeCode, TakePassword, FailLogin,
           ForgetLogin, CollectLogin, FindCanonical, CheckClient, Dial, Install, FailStart,
           Expire, StoreBlob, BeginDelete, Restore, HaltClient, vars
  <2>3. UNCHANGED <<walker, registered>>
    BY <1>7 DEF ConnectLogin, SubmitCode, SubmitPassword, TakeCode, TakePassword, FailLogin,
           ForgetLogin, CollectLogin, FindCanonical, CheckClient, Dial, Install, FailStart,
           Expire, StoreBlob, BeginDelete, Restore, HaltClient, vars
  <2>4. QED
    BY <2>1, <2>2, <2>3, BlobDialogs, CalmWalked DEF Onward
<1>8. QED
  BY <1>1, <1>2, <1>3, <1>4, <1>5, <1>6, <1>7, DiscoverWalked DEF Next, Login, BringOnline

\* Refreshes, logins, crashes and late ends of earlier walks, in any order: while the
\* dialogs of a session are enumerated its row says so (TriggerDiscover and
\* runDiscover of indexer.go).
THEOREM DiscoverIsHonest == Spec => []DiscoverHonest
<1> DEFINE Inv == Typed /\ Choices /\ Named /\ Walked
<1>1. Init => Inv
  <2>1. Init => Walked
    BY DEF Init, Walked, DiscoverHonest, Idle
  <2>2. QED
    BY <2>1, InitTyped, InitChoices, InitNamed
<1>2. Inv /\ [Next]_vars => Inv'
  BY NextTyped, NextChoices, NextNamed, NextWalked
<1>3. Inv => DiscoverHonest
  BY DEF Walked
<1>4. QED
  BY <1>1, <1>2, <1>3, PTL DEF Spec

-----------------------------------------------------------------------------
(* One row for an account *)

\* An account no two requests contend for has one login at a time, one row, and none
\* yet when its login is about to keep its own.
Alone ==
    /\ \A f, g \in Logins :
         InFlight(f) /\ InFlight(g) /\ flow[f].account = flow[g].account /\ Quiet(f) => f = g
    /\ OneRow
    /\ \A f \in Logins : flow[f].pc = "commit" /\ flow[f].session = f /\ Quiet(f)
                           => \A s \in Sessions : row[s].account # flow[f].account

LEMMA CalmAlone ==
    ASSUME Alone, Onward, Decided, SameAccounts, contended \subseteq contended'
    PROVE  Alone'
<1>1. \A f \in Logins : /\ InFlight(f)' => InFlight(f)
                        /\ flow'[f].account = flow[f].account
                        /\ Quiet(f)' => Quiet(f)
  BY DEF Onward, InFlight, Quiet
<1>2. \A s \in Sessions : row'[s].account = row[s].account /\ (Quiet(s)' => Quiet(s))
  BY <1>1 DEF SameAccounts, Sessions
<1>3. OneRow'
  BY <1>2 DEF Alone, OneRow
<1>4. ASSUME NEW f \in Logins, flow'[f].pc = "commit", flow'[f].session = f, Quiet(f)',
             NEW s \in Sessions
      PROVE  row'[s].account # flow'[f].account
  BY <1>1, <1>2, <1>4 DEF Alone, Decided
<1>5. \A f, g \in Logins :
         InFlight(f)' /\ InFlight(g)' /\ flow'[f].account = flow'[g].account /\ Quiet(f)' => f = g
  BY <1>1 DEF Alone
<1>6. QED
  BY <1>3, <1>4, <1>5 DEF Alone

\* A second login for the account, before the first is over, makes it contended.
LEMMA StartQuiet ==
    ASSUME Typed, Named, Choices, NEW f \in Logins, NEW a \in Accounts, StartLogin(f, a)
    PROVE  /\ contended \subseteq contended'
           /\ \A g \in Logins : g # f => (Quiet(g)' => Quiet(g)) /\ (InFlight(g)' <=> InFlight(g))
           /\ \A g \in Logins : Quiet(f)' /\ InFlight(g) => flow[g].account # a
           /\ Quiet(f)' /\ deletion.session # None => flow[deletion.session].account # a
           /\ booting = {}
           /\ UNCHANGED <<client, running, authorized, registered, walker, deletion, booting>>
<1>1. contended \subseteq contended' /\ contended' \subseteq contended \cup {a} /\ booting = {}
      /\ UNCHANGED <<client, running, authorized, registered, walker, deletion, booting>>
  BY DEF StartLogin, Up
<1>2. \A g \in Logins : g # f => (Quiet(g)' => Quiet(g)) /\ (InFlight(g)' <=> InFlight(g))
  BY <1>1, StartMoves DEF Quiet, InFlight
<1>3. flow'[f].account = a
  BY StartMoves
<1>4. ASSUME NEW g \in Logins, Quiet(f)', InFlight(g) PROVE flow[g].account # a
  BY <1>3, <1>4 DEF StartLogin, Quiet
<1>5. Quiet(f)' /\ deletion.session # None => flow[deletion.session].account # a
  BY <1>3 DEF StartLogin, Quiet
<1>6. QED
  BY <1>1, <1>2, <1>4, <1>5

LEMMA StartAlone ==
    ASSUME Typed, Named, Choices, Alone, NEW f \in Logins, NEW a \in Accounts, StartLogin(f, a)
    PROVE  Alone'
<1>m. /\ row'[f].account = None /\ row[f].account = None
      /\ \A s \in Sessions : s # f => row'[s] = row[s]
      /\ flow'[f].pc = "connect" /\ flow'[f].account = a /\ a # None
      /\ \A g \in Logins : g # f => flow'[g] = flow[g]
  BY StartMoves
<1>q. /\ \A g \in Logins : g # f => (Quiet(g)' => Quiet(g)) /\ (InFlight(g)' <=> InFlight(g))
      /\ \A g \in Logins : Quiet(f)' /\ InFlight(g) => flow[g].account # a
      /\ contended \subseteq contended'
  BY StartQuiet
<1>1. OneRow'
  BY <1>m, <1>q DEF Alone, OneRow, Sessions
<1>2. ASSUME NEW g \in Logins, NEW h \in Logins, InFlight(g)', InFlight(h)',
             flow'[g].account = flow'[h].account, Quiet(g)', g # h
      PROVE  FALSE
  <2>1. CASE g = f
    BY <1>m, <1>q, <1>2, <2>1
  <2>2. CASE h = f
    <3>1. Quiet(f)'
      BY <1>2, <2>2 DEF Quiet
    <3>2. QED
      BY <1>m, <1>q, <1>2, <2>2, <3>1
  <2>3. CASE g # f /\ h # f
    BY <1>m, <1>q, <1>2, <2>3 DEF Alone
  <2>4. QED
    BY <2>1, <2>2, <2>3
<1>3. ASSUME NEW g \in Logins, flow'[g].pc = "commit", flow'[g].session = g, Quiet(g)',
             NEW s \in Sessions
      PROVE  row'[s].account # flow'[g].account
  <2>1. g # f /\ flow'[g] = flow[g] /\ Quiet(g)
    BY <1>m, <1>q, <1>3
  <2>2. flow[g].account # None
    BY <1>3, <2>1 DEF Named
  <2>3. QED
    BY <1>m, <1>3, <2>1, <2>2 DEF Alone
<1>4. QED
  BY <1>1, <1>2, <1>3 DEF Alone

\* A login keeps its own row only when no row has its account.
LEMMA FindAlone ==
    ASSUME Typed, Named, Choices, Alone, NEW f \in Logins, FindCanonical(f)
    PROVE  Alone'
<1>1. Onward /\ row' = row /\ contended' = contended
  BY FindMoves DEF FindCanonical
<1>2. \A g \in Logins : /\ InFlight(g)' => InFlight(g)
                        /\ flow'[g].account = flow[g].account
                        /\ Quiet(g)' => Quiet(g)
  BY <1>1 DEF Onward, InFlight, Quiet
<1>3. OneRow'
  BY <1>1, <1>2 DEF Alone, OneRow, Sessions
<1>4. /\ \A g \in Logins : g # f => flow'[g] = flow[g]
      /\ flow'[f].session \in Canonical(f)
  <2>1. flow \in [Logins -> Flows]
    BY DEF Typed, TypeOK, Flows
  <2>2. QED
    BY <2>1 DEF FindCanonical, Flows
<1>5. row[f].account = None /\ flow[f].account # None
  BY DEF FindCanonical, Choices, Waiting, Undecided, Named
<1>6. flow'[f].session = f => \A s \in Sessions : row[s].account # flow[f].account
  BY <1>4, <1>5 DEF Canonical, SameAccount
<1>7. ASSUME NEW g \in Logins, flow'[g].pc = "commit", flow'[g].session = g, Quiet(g)',
             NEW s \in Sessions
      PROVE  row'[s].account # flow'[g].account
  <2>1. CASE g = f
    BY <1>1, <1>2, <1>6, <1>7, <2>1
  <2>2. CASE g # f
    BY <1>1, <1>2, <1>4, <1>7, <2>2 DEF Alone
  <2>3. QED
    BY <2>1, <2>2
<1>8. QED
  BY <1>2, <1>3, <1>7 DEF Alone

LEMMA ActivateAlone ==
    ASSUME Typed, Named, Choices, Alone, NEW f \in Logins, Activate(f)
    PROVE  Alone'
<1> DEFINE s == flow[f].session
           a == flow[f].account
<1>1. /\ s \in Sessions /\ a # None /\ row[f].account = None
      /\ s = f \/ row[s].account = a
      /\ flow[s].account = a
      /\ row'[s].account = a
      /\ s # f => row'[f].account = None
      /\ \A t \in Sessions : t # f /\ t # s => row'[t] = row[t]
  BY ActivateRows DEF NoRow
<1>2. /\ Onward /\ Decided /\ flow[f].pc = "commit" /\ contended' = contended
  BY ActivateMoves DEF Activate
<1>3. \A g \in Logins : /\ InFlight(g)' => InFlight(g)
                        /\ flow'[g].account = flow[g].account
                        /\ Quiet(g)' => Quiet(g)
  BY <1>2 DEF Onward, InFlight, Quiet
<1> HIDE DEF s
<1>4. \A t \in Sessions : t # s => row'[t].account = row[t].account
  BY <1>1
<1>5. a \notin contended => \A t \in Sessions : row[t].account = a => t = s
  <2>1. CASE s = f
    BY <1>2, <2>1 DEF Alone, Quiet, s
  <2>2. CASE s # f
    BY <1>1, <2>2 DEF Alone, OneRow, Quiet
  <2>3. QED
    BY <2>1, <2>2
<1>6. OneRow'
  <2> SUFFICES ASSUME NEW t \in Sessions, NEW u \in Sessions, row'[t].account # None,
                      row'[t].account = row'[u].account, Quiet(t)'
               PROVE  t = u
    BY DEF OneRow
  <2>1. CASE row'[t].account = a
    <3>1. a \notin contended
      <4>1. flow[t].account = a
        BY <1>1, <1>4, <2>1 DEF Named
      <4>2. QED
        BY <1>2, <1>3, <4>1 DEF Quiet, Sessions
    <3>2. QED
      BY <1>4, <1>5, <2>1, <3>1
  <2>2. CASE row'[t].account # a
    <3>1. t # s /\ u # s
      BY <1>1, <2>2
    <3>2. QED
      BY <1>3, <1>4, <3>1 DEF Alone, OneRow, Sessions
  <2>3. QED
    BY <2>1, <2>2
<1>7. ASSUME NEW g \in Logins, flow'[g].pc = "commit", flow'[g].session = g, Quiet(g)',
             NEW t \in Sessions
      PROVE  row'[t].account # flow'[g].account
  <2>1. flow[g].pc = "commit" /\ flow[g].session = g /\ Quiet(g) /\ g # f
    BY <1>2, <1>3, <1>7, ActivateMoves DEF Decided
  <2>2. flow[g].account # a
    BY <1>2, <2>1 DEF Alone, InFlight, Undecided
  <2>3. row[t].account # flow[g].account
    BY <2>1 DEF Alone
  <2>4. QED
    BY <1>1, <1>3, <1>4, <2>2, <2>3
<1>8. QED
  BY <1>3, <1>6, <1>7 DEF Alone

LEMMA InitAlone == Init => Alone
BY DEF Init, Alone, OneRow, InFlight, NoRow, NewFlow, Undecided, Starting

LEMMA NextAlone ==
    ASSUME Typed, Named, Choices, Alone, [Next]_vars
    PROVE  Alone'
<1>1. CASE Revoke
  <2>1. SameAccounts
    BY <1>1, RevokeRows DEF SameAccounts
  <2>2. Onward /\ Decided
    BY <1>1, StillMoves DEF Revoke
  <2>3. QED
    BY <1>1, <2>1, <2>2, MostMoves, CalmAlone
<1>2. ASSUME Onward, Decided, SameRows, contended \subseteq contended' PROVE Alone'
  BY <1>2, CalmAlone DEF SameRows, SameAccounts
<1>3. CASE \E f \in Logins : FindCanonical(f)
  BY <1>3, FindAlone
<1>4. CASE ~(\E f \in Logins : FindCanonical(f))
  BY <1>1, <1>2, <1>4, StartAlone, ActivateAlone, MostMoves DEF Next, Login
<1>5. QED
  BY <1>3, <1>4

\* However often an account is logged in to, deleted and logged in to again, and
\* wherever that fails or the process dies, it has one row
\* (ActivateAndConsolidateTGSession of tg_sessions.go).
THEOREM OneRowKept == Spec => []OneRow
<1> DEFINE Inv == Typed /\ Choices /\ Named /\ Alone
<1>1. Init => Inv
  BY InitTyped, InitChoices, InitNamed, InitAlone
<1>2. Inv /\ [Next]_vars => Inv'
  BY NextTyped, NextChoices, NextNamed, NextAlone
<1>3. Inv => OneRow
  BY DEF Alone
<1>4. QED
  BY <1>1, <1>2, <1>3, PTL DEF Spec

-----------------------------------------------------------------------------
(* One client for a session *)

\* While a session of an account nobody contends for is deleted, no login of the
\* account goes on and no client of it is on the map.
Deleting ==
    deletion.session # None =>
        /\ booting = {} /\ flow[deletion.session].pc # "new"
        /\ Quiet(deletion.session) =>
             /\ client[deletion.session] = None
             /\ \A f \in Logins : InFlight(f) => flow[f].account # flow[deletion.session].account

\* RestoreActive starts sessions that have no client yet, before anybody logs in.
Booting ==
    /\ booting # {} => \A f \in Logins : ~InFlight(f)
    /\ \A s \in booting : row[s].status = "active" /\ \A c \in running : c.session # s

\* Where the clients are: a login has none before it dials, and dials only when its
\* session has none.
Online ==
    /\ \A c \in running :
         /\ row[c.session].account # None
         /\ c.by # None => /\ flow[c.by].pc \notin Early
                           /\ flow[c.by].pc = "probe" => flow[c.by].session = c.session
    /\ \A s \in Sessions : client[s] # None => client[s].session = s
    /\ deletion.stopping # None => /\ deletion.session # None
                                   /\ deletion.stopping.session = deletion.session
    /\ \A f \in Logins : flow[f].pc = "dial" /\ Quiet(f)
                           => \A c \in running : c.session # flow[f].session
    /\ OneClient

LEMMA ClientTypes ==
    ASSUME Typed
    PROVE  /\ running \subseteq Clients /\ client \in [Sessions -> Clients \cup {None}]
           /\ None \notin Clients /\ \A c \in Clients : /\ c.session \in Sessions
                                                        /\ c.by \in Logins \cup {None}
                                                        /\ c.key \in Logins \cup {NewKey}
           /\ deletion.session \in Sessions \cup {None}
           /\ deletion.stopping \in Clients \cup {None}
           /\ deletion = [session |-> deletion.session, stopping |-> deletion.stopping]
           /\ booting \subseteq Sessions /\ None \notin Sessions /\ Sessions = Logins
<1>1. None \notin Clients
  BY SessionsAssumption DEF Clients, Sessions, Logins
<1>2. None \notin Sessions /\ Sessions = Logins
  BY SessionsAssumption DEF Sessions, Logins
<1>3. QED
  BY <1>1, <1>2 DEF Typed, TypeOK, Clients

\* The session of a login that is activated is its account's.
LEMMA SessionOf ==
    ASSUME Typed, Named, NEW f \in Logins, flow[f].pc \in Starting
    PROVE  /\ flow[f].session \in Sessions /\ InFlight(f)
           /\ row[flow[f].session].account = flow[f].account
           /\ flow[flow[f].session].account = flow[f].account
           /\ flow[f].account # None
           /\ Exists(flow[f].session)
           /\ Quiet(flow[f].session) <=> Quiet(f)
<1>1. /\ flow[f].session \in Sessions /\ InFlight(f) /\ flow[f].account # None
      /\ row[flow[f].session].account = flow[f].account
  BY SessionsAssumption DEF Typed, Placed, InFlight, Named
<1>2. QED
  BY <1>1 DEF Named, Quiet

LEMMA CalmDeleting ==
    ASSUME Typed, Deleting, Onward, contended \subseteq contended',
           deletion'.session = deletion.session, UNCHANGED <<booting, client>>
    PROVE  Deleting'
<1> SUFFICES ASSUME deletion'.session # None PROVE Deleting'
  BY DEF Deleting
<1>1. /\ deletion.session # None /\ deletion.session \in Logins
      /\ booting = {} /\ flow[deletion.session].pc # "new"
  BY ClientTypes DEF Deleting
<1>2. /\ flow'[deletion.session].pc # "new"
      /\ flow'[deletion.session].account = flow[deletion.session].account
  BY <1>1 DEF Onward
<1>3. \A f \in Logins : /\ InFlight(f)' => InFlight(f)
                        /\ flow'[f].account = flow[f].account
  BY DEF Onward, InFlight
<1>4. flow'[deletion'.session].account \notin contended' => Quiet(deletion.session)
  BY <1>2 DEF Quiet
<1>5. QED
  BY <1>1, <1>2, <1>3, <1>4 DEF Deleting, Quiet

LEMMA NextDeleting ==
    ASSUME Typed, Named, Choices, Deleting, Online, [Next]_vars
    PROVE  Deleting'
<1>1. ASSUME NEW f \in Logins, NEW a \in Accounts, StartLogin(f, a) PROVE Deleting'
  <2> SUFFICES ASSUME deletion.session # None PROVE Deleting'
    BY <1>1 DEF StartLogin, Deleting
  <2> DEFINE d == deletion.session
  <2>1. /\ deletion' = deletion /\ booting' = booting /\ client' = client
        /\ d \in Logins /\ booting = {} /\ flow[d].pc # "new"
    BY <1>1, ClientTypes DEF StartLogin, Deleting
  <2>2. d # f /\ flow'[d] = flow[d]
    BY <1>1, <2>1, StartMoves
  <2>3. ASSUME Quiet(d)' PROVE Quiet(d)
    BY <1>1, <2>1, <2>2, <2>3, StartQuiet DEF Quiet
  <2>4. ASSUME flow'[d].account \notin contended', NEW g \in Logins, InFlight(g)'
        PROVE  flow'[g].account # flow'[d].account
    <3>1. CASE g = f
      <4>1. flow'[f].account = a /\ contended' \subseteq contended \cup {a}
        BY <1>1, StartMoves DEF StartLogin
      <4>2. flow[d].account = a => a \in contended'
        BY <1>1 DEF StartLogin
      <4>3. QED
        BY <2>2, <2>4, <3>1, <4>1, <4>2
    <3>2. CASE g # f
      BY <1>1, <2>1, <2>2, <2>4, <3>2, StartMoves, StartQuiet DEF Deleting, Quiet
    <3>3. QED
      BY <3>1, <3>2
  <2>5. flow'[d].account \notin contended' => client[d] = None
    BY <1>1, <2>1, <2>2, StartQuiet DEF Deleting, Quiet
  <2> HIDE DEF d
  <2>6. deletion'.session = d
    BY <2>1 DEF d
  <2>7. QED
    BY <2>1, <2>2, <2>4, <2>5, <2>6 DEF Deleting, Quiet
<1>2. ASSUME NEW f \in Logins, Activate(f) PROVE Deleting'
  BY <1>2, ActivateMoves, CalmDeleting DEF Activate
<1>3. ASSUME NEW f \in Logins, Install(f) PROVE Deleting'
  <2> SUFFICES ASSUME deletion.session # None PROVE Deleting'
    BY <1>3 DEF Install, Deleting
  <2> DEFINE d == deletion.session
             s == flow[f].session
  <2>1. PICK c \in ClientOf(f) : client' = [client EXCEPT ![c.session] = c]
    BY <1>3 DEF Install
  <2>2. flow[f].pc = "probe" /\ c.session = s
    <3>1. c \in running /\ c.by = f /\ f # None
      BY ClientTypes DEF ClientOf
    <3>2. QED
      BY <1>3, <3>1 DEF Install, Online
  <2>3. Onward /\ deletion' = deletion /\ booting' = booting /\ contended' = contended
    BY <1>3, StartingMoves DEF BringOnline, Install
  <2>4. /\ d \in Sessions /\ booting = {} /\ flow[d].pc # "new"
    BY <2>3, ClientTypes DEF Deleting
  <2>5. ASSUME Quiet(d) PROVE d # s
    <3>1. flow[f].account # flow[d].account
      BY <2>2, <2>5, SessionOf DEF Deleting, Starting
    <3>2. QED
      BY <2>2, <3>1, SessionOf DEF Starting
  <2>6. Quiet(d) => client'[d] = client[d]
    BY <2>1, <2>2, <2>4, <2>5, ClientTypes
  <2>7. /\ flow'[d].pc # "new" /\ flow'[d].account = flow[d].account
        /\ \A g \in Logins : (InFlight(g)' => InFlight(g)) /\ flow'[g].account = flow[g].account
    BY <2>3, <2>4, ClientTypes DEF Onward, InFlight
  <2> HIDE DEF d
  <2>8. deletion'.session = d /\ deletion.session = d
    BY <2>3 DEF d
  <2>9. QED
    BY <2>3, <2>4, <2>6, <2>7, <2>8 DEF Deleting, Quiet
<1>4. ASSUME NEW s \in Sessions, BeginDelete(s) PROVE Deleting'
  <2>1. /\ booting = {} /\ booting' = booting /\ flow' = flow
        /\ flow[s].pc # "new" /\ client'[s] = None /\ deletion'.session = s
    BY <1>4, ClientTypes DEF BeginDelete, Up, Named
  <2>2. flow[s].account \notin contended'
          => \A f \in Logins : InFlight(f) => flow[f].account # flow[s].account
    BY <1>4 DEF BeginDelete
  <2>3. QED
    BY <2>1, <2>2 DEF Deleting, Quiet, InFlight
<1>5. CASE Revoke \/ Crash
  BY <1>5, RevokeRows DEF Crash, NoDeletion, Deleting
<1>6. ASSUME NEW s \in Sessions, Restore(s) PROVE Deleting'
  BY <1>6 DEF Restore, Deleting
<1>7. ASSUME \/ \E f \in Logins : \/ ConnectLogin(f) \/ SubmitCode(f) \/ SubmitPassword(f)
                                  \/ TakeCode(f) \/ TakePassword(f) \/ FailLogin(f)
                                  \/ ForgetLogin(f) \/ CollectLogin(f) \/ FindCanonical(f)
                                  \/ CheckClient(f) \/ Dial(f) \/ FailStart(f)
                                  \/ TriggerAfterLogin(f) \/ Expire(f)
             \/ \E c \in Connected : StoreBlob(c)
             \/ \E w \in Walkers : Discover(w)
             \/ \E s \in Sessions : RefreshDiscover(s)
             \/ HaltClient \/ UNCHANGED vars
      PROVE  Deleting'
  <2>1. Onward /\ contended \subseteq contended'
    BY <1>7, MostMoves DEF BringOnline
  <2>2. deletion' = deletion \/ HaltClient
    BY <1>7 DEF ConnectLogin, SubmitCode, SubmitPassword, TakeCode, TakePassword, FailLogin,
           ForgetLogin, CollectLogin, FindCanonical, CheckClient, Dial, FailStart,
           TriggerAfterLogin, Expire, StoreBlob, Discover, StartDiscover, EndWalk,
           FinishDiscover, LeaveDiscover, RefreshDiscover, vars
  <2>3. UNCHANGED <<booting, client>>
    BY <1>7 DEF ConnectLogin, SubmitCode, SubmitPassword, TakeCode, TakePassword, FailLogin,
           ForgetLogin, CollectLogin, FindCanonical, CheckClient, Dial, FailStart,
           TriggerAfterLogin, Expire, StoreBlob, Discover, StartDiscover, EndWalk,
           FinishDiscover, LeaveDiscover, RefreshDiscover, HaltClient, vars
  <2>4. deletion'.session = deletion.session
    BY <2>2, ClientTypes DEF HaltClient
  <2>5. QED
    BY <2>1, <2>3, <2>4, CalmDeleting
<1>8. QED
  BY <1>1, <1>2, <1>3, <1>4, <1>5, <1>6, <1>7 DEF Next, Login, BringOnline

\* Sessions are restored before the server runs, and every step of the server but
\* the end of a walk wants the server.
LEMMA NextBooting ==
    ASSUME Typed, Named, Choices, Deleting, Booting, [Next]_vars
    PROVE  Booting'
<1>1. ASSUME booting = {}, booting' = {} PROVE Booting'
  BY <1>1 DEF Booting
<1>2. ASSUME booting' = booting, Onward, SameRows, running' \subseteq running PROVE Booting'
  <2>1. \A f \in Logins : InFlight(f)' => InFlight(f)
    BY <1>2 DEF Onward, InFlight
  <2>2. QED
    BY <1>2, <2>1, ClientTypes DEF Booting, SameRows
<1>3. ASSUME NEW f \in Logins, NEW a \in Accounts, StartLogin(f, a) PROVE Booting'
  BY <1>1, <1>3, StartQuiet
<1>4. ASSUME NEW f \in Logins, Activate(f) \/ Dial(f) PROVE Booting'
  <2>1. InFlight(f) /\ booting' = booting
    BY <1>4 DEF Activate, Dial, InFlight, Undecided, Starting
  <2>2. QED
    BY <1>1, <2>1 DEF Booting
<1>5. CASE Revoke
  BY <1>1, <1>5, RevokeRows, ClientTypes DEF Deleting
<1>6. CASE Crash
  <2>1. /\ \A f \in Logins : ~InFlight(f)'
        /\ running' = {} /\ booting' = Restorable /\ row' = row
    BY <1>6, CrashMoves DEF Crash, Named
  <2>2. QED
    BY <2>1 DEF Booting, Restorable
<1>7. ASSUME NEW s \in Sessions, Restore(s) PROVE Booting'
  <2>1. /\ s \in booting /\ booting' = booting \ {s} /\ UNCHANGED <<row, flow>>
        /\ \A c \in running' : c \in running \/ c.session = s
    BY <1>7 DEF Restore
  <2>2. QED
    BY <2>1 DEF Booting, InFlight
<1>8. ASSUME \/ \E f \in Logins : \/ ConnectLogin(f) \/ SubmitCode(f) \/ SubmitPassword(f)
                                  \/ TakeCode(f) \/ TakePassword(f) \/ FailLogin(f)
                                  \/ ForgetLogin(f) \/ CollectLogin(f) \/ FindCanonical(f)
                                  \/ CheckClient(f) \/ Install(f) \/ FailStart(f)
                                  \/ TriggerAfterLogin(f) \/ Expire(f)
             \/ \E c \in Connected : StoreBlob(c)
             \/ \E w \in Walkers : Discover(w)
             \/ \E s \in Sessions : RefreshDiscover(s) \/ BeginDelete(s)
             \/ HaltClient \/ UNCHANGED vars
      PROVE  Booting'
  <2>1. Onward /\ (~Revoke => SameRows)
    BY <1>8, MostMoves DEF BringOnline
  <2>2. booting' = booting /\ running' \subseteq running
    BY <1>8 DEF ConnectLogin, SubmitCode, SubmitPassword, TakeCode, TakePassword, FailLogin,
           ForgetLogin, CollectLogin, FindCanonical, CheckClient, Install, FailStart,
           TriggerAfterLogin, Expire, StoreBlob, Discover, StartDiscover, EndWalk,
           FinishDiscover, LeaveDiscover, RefreshDiscover, BeginDelete, HaltClient, vars
  <2>3. QED
    BY <1>2, <1>5, <2>1, <2>2
<1>9. QED
  BY <1>3, <1>4, <1>5, <1>6, <1>7, <1>8 DEF Next, Login, BringOnline

\* The session of a client was begun, and a step that contends for no more accounts
\* leaves it quiet only if it was.
LEMMA QuietClient ==
    ASSUME Typed, Named, Online, contended \subseteq contended',
           \A f \in Logins : flow[f].pc # "new" => flow'[f].account = flow[f].account,
           NEW c \in running
    PROVE  /\ c \in Clients /\ c.session \in Sessions /\ c.by \in Logins \cup {None}
           /\ flow[c.session].pc # "new" /\ flow[c.session].account = row[c.session].account
           /\ Quiet(c.session)' => Quiet(c.session)
<1>1. c \in Clients /\ c.session \in Sessions /\ c.by \in Logins \cup {None}
  BY ClientTypes
<1>2. row[c.session].account # None
  BY DEF Online
<1>3. flow[c.session].pc # "new" /\ flow[c.session].account = row[c.session].account
  BY <1>1, <1>2, ClientTypes DEF Named
<1>4. flow'[c.session].account = flow[c.session].account
  BY <1>1, <1>3, ClientTypes
<1>5. QED
  BY <1>1, <1>3, <1>4 DEF Quiet

\* Steps that move no client.
LEMMA CalmOnline ==
    ASSUME Typed, Named, Online, Clientless, StayPut, contended \subseteq contended',
           \A f \in Logins : flow[f].pc # "new" => flow'[f].account = flow[f].account,
           UNCHANGED <<running, client>>, deletion'.stopping = deletion.stopping,
           deletion.stopping # None => deletion'.session = deletion.session
    PROVE  Online'
<1>1. ASSUME NEW c \in running
      PROVE  /\ row'[c.session].account # None
             /\ c.by # None => /\ flow'[c.by].pc \notin Early
                               /\ flow'[c.by].pc = "probe" => flow'[c.by].session = c.session
  BY QuietClient DEF Online, Clientless, StayPut
<1>2. ASSUME NEW f \in Logins, flow'[f].pc = "dial", Quiet(f)', NEW c \in running
      PROVE  c.session # flow'[f].session
  <2>1. flow[f].pc = "dial" /\ flow'[f].session = flow[f].session
    BY <1>2 DEF Clientless
  <2>2. Quiet(f)
    BY <1>2, <2>1 DEF Quiet
  <2>3. QED
    BY <2>1, <2>2 DEF Online
<1>3. ASSUME NEW c \in running, Quiet(c.session)'
      PROVE  /\ \A d \in running : d.session = c.session => d = c
             /\ \/ client[c.session] = c
                \/ c.by # None /\ flow'[c.by].pc = "probe"
                \/ deletion'.stopping = c
  BY <1>3, QuietClient DEF Online, OneClient, Clientless
<1>4. OneClient'
  BY <1>3 DEF OneClient, Quiet
<1>5. QED
  BY <1>1, <1>2, <1>4 DEF Online, Quiet

\* Start finds no client on the map and none of the session running.
LEMMA CheckOnline ==
    ASSUME Typed, Named, Alone, Deleting, Online, NEW f \in Logins, CheckClient(f)
    PROVE  Online'
<1> DEFINE s == flow[f].session
<1>1. /\ UNCHANGED <<row, running, client, deletion, contended>>
      /\ flow[f].pc = "check" /\ flow'[f].pc \in {"trigger", "dial"}
      /\ flow'[f].pc = "dial" => client[s] = None
      /\ flow'[f].session = s /\ flow'[f].account = flow[f].account
      /\ \A g \in Logins : g # f => flow'[g] = flow[g]
  BY StartingMoves DEF CheckClient, BringOnline, Present
<1>2. /\ s \in Sessions /\ InFlight(f) /\ flow[s].account = flow[f].account
      /\ row[s].account = flow[f].account
      /\ Quiet(s) <=> Quiet(f)
  BY <1>1, SessionOf DEF Starting
<1>3. \A g \in Logins : flow'[g].account = flow[g].account
  BY <1>1
<1> HIDE DEF s
<1>4. ASSUME NEW c \in running, Quiet(f), client[s] = None PROVE c.session # s
  <2> SUFFICES ASSUME c.session = s PROVE FALSE
    OBVIOUS
  <2>1. c \in Clients /\ c.by \in Logins \cup {None} /\ c # None
    BY ClientTypes
  <2>2. CASE c.by # None /\ flow[c.by].pc = "probe"
    <3>1. c.by \in Logins /\ flow[c.by].session = s
      BY <2>1, <2>2 DEF Online
    <3>2. InFlight(c.by) /\ flow[c.by].account = flow[f].account
      BY <1>2, <2>2, <3>1, SessionOf DEF Starting
    <3>3. c.by = f
      BY <1>2, <1>4, <3>1, <3>2 DEF Alone
    <3>4. QED
      BY <1>1, <2>2, <3>3
  <2>3. CASE deletion.stopping = c
    <3>1. deletion.session = s /\ s # None
      BY <1>2, <2>1, <2>3, ClientTypes DEF Online
    <3>2. QED
      BY <1>2, <1>4, <3>1 DEF Deleting
  <2>4. client[s] # c
    BY <1>4, <2>1
  <2>5. QED
    BY <1>2, <1>4, <2>2, <2>3, <2>4 DEF Online, OneClient
<1>5. ASSUME NEW c \in running
      PROVE  /\ row'[c.session].account # None
             /\ c.by # None => /\ flow'[c.by].pc \notin Early
                               /\ flow'[c.by].pc = "probe" => flow'[c.by].session = c.session
                               /\ flow[c.by].pc = "probe" => flow'[c.by].pc = "probe"
  <2>1. c.by # None => c.by \in Logins /\ c.by # f
    BY <1>1, ClientTypes DEF Online, Early
  <2>2. QED
    BY <1>1, <2>1 DEF Online
<1>6. ASSUME NEW g \in Logins, flow'[g].pc = "dial", Quiet(g)', NEW c \in running
      PROVE  c.session # flow'[g].session
  <2>1. CASE g = f
    BY <1>1, <1>3, <1>4, <1>6, <2>1 DEF Quiet
  <2>2. CASE g # f
    BY <1>1, <1>6, <2>2 DEF Online, Quiet
  <2>3. QED
    BY <2>1, <2>2
<1>7. ASSUME NEW c \in running, Quiet(c.session)'
      PROVE  /\ \A d \in running : d.session = c.session => d = c
             /\ \/ client[c.session] = c
                \/ c.by # None /\ flow'[c.by].pc = "probe"
                \/ deletion'.stopping = c
  <2>1. Quiet(c.session)
    BY <1>1, <1>3, <1>7, QuietClient
  <2>2. QED
    BY <1>1, <1>5, <2>1 DEF Online, OneClient
<1>8. OneClient'
  BY <1>1, <1>7 DEF OneClient, Quiet
<1>9. QED
  BY <1>1, <1>5, <1>6, <1>8 DEF Online, Quiet

\* The client a login starts is the only one of its session.
LEMMA DialOnline ==
    ASSUME Typed, Named, Alone, Online, NEW f \in Logins, Dial(f)
    PROVE  Online'
<1> DEFINE s == flow[f].session
           n == NewClient(f, s)
<1>1. /\ UNCHANGED <<client, deletion, contended>> /\ running' = running \cup {n}
      /\ flow[f].pc = "dial" /\ flow'[f].pc = "probe"
      /\ flow'[f].session = s /\ flow'[f].account = flow[f].account
      /\ \A g \in Logins : g # f => flow'[g] = flow[g]
  BY StartingMoves DEF Dial, BringOnline
<1>2. /\ s \in Sessions /\ InFlight(f) /\ flow[s].account = flow[f].account
      /\ row[s].account = flow[f].account /\ flow[f].account # None
      /\ Quiet(s) <=> Quiet(f)
  BY <1>1, SessionOf DEF Starting
<1>3. n.session = s /\ n.by = f /\ f # None
  BY ClientTypes DEF NewClient
<1>4. SameRows
  BY LoginRows DEF BringOnline
<1>5. \A g \in Logins : flow'[g].account = flow[g].account
  BY <1>1
<1> HIDE DEF s, n
<1>6. ASSUME NEW c \in running
      PROVE  /\ c.session \in Sessions /\ row'[c.session].account # None
             /\ c.by # None => /\ flow'[c.by].pc \notin Early
                               /\ flow'[c.by].pc = "probe" => flow'[c.by].session = c.session
                               /\ flow[c.by].pc = "probe" => flow'[c.by].pc = "probe"
             /\ Quiet(f) => c.session # s
  <2>1. c.by # None => c.by \in Logins /\ c.by # f
    BY <1>1, ClientTypes DEF Online, Early
  <2>2. Quiet(f) => c.session # s
    BY <1>1 DEF Online, s
  <2>3. QED
    BY <1>1, <1>4, <2>1, <2>2, ClientTypes DEF Online, SameRows
<1>7. /\ row'[n.session].account # None
      /\ flow'[n.by].pc \notin Early /\ flow'[n.by].session = n.session
  BY <1>1, <1>2, <1>3, <1>4 DEF SameRows, Early, Undecided
<1>8. ASSUME NEW g \in Logins, flow'[g].pc = "dial", Quiet(g)', NEW c \in running'
      PROVE  c.session # flow'[g].session
  <2>1. g # f /\ flow'[g] = flow[g] /\ flow[g].pc = "dial" /\ Quiet(g)
    BY <1>1, <1>5, <1>8 DEF Quiet
  <2>2. CASE c \in running
    BY <2>1, <2>2 DEF Online
  <2>3. CASE c = n
    <3>1. SUFFICES ASSUME flow[g].session = s PROVE FALSE
      BY <1>3, <2>1, <2>3
    <3>2. InFlight(g) /\ flow[g].account = flow[f].account
      BY <1>2, <2>1, <3>1, SessionOf DEF Starting
    <3>3. QED
      BY <1>2, <2>1, <3>2 DEF Alone
  <2>4. QED
    BY <1>1, <2>2, <2>3
<1>9. ASSUME NEW c \in running', Quiet(c.session)'
      PROVE  /\ \A d \in running' : d.session = c.session => d = c
             /\ \/ client[c.session] = c
                \/ c.by # None /\ flow'[c.by].pc = "probe"
                \/ deletion'.stopping = c
  <2>1. CASE c \in running
    <3>1. Quiet(c.session)
      BY <1>1, <1>5, <1>9, <2>1, QuietClient
    <3>2. c.session # s
      BY <1>2, <1>6, <2>1, <3>1
    <3>3. QED
      BY <1>1, <1>3, <1>6, <2>1, <3>1, <3>2 DEF Online, OneClient
  <2>2. CASE c = n
    <3>1. Quiet(f)
      BY <1>1, <1>2, <1>3, <1>5, <1>9, <2>2, ClientTypes DEF Quiet
    <3>2. QED
      BY <1>1, <1>3, <1>6, <2>2, <3>1
  <2>3. QED
    BY <1>1, <2>1, <2>2
<1>10. OneClient'
  BY <1>1, <1>9 DEF OneClient, Quiet
<1>11. ASSUME NEW c \in running'
       PROVE  /\ row'[c.session].account # None
              /\ c.by # None => /\ flow'[c.by].pc \notin Early
                                /\ flow'[c.by].pc = "probe" => flow'[c.by].session = c.session
  BY <1>1, <1>6, <1>7
<1>12. QED
  BY <1>1, <1>8, <1>10, <1>11 DEF Online, Quiet

\* It goes on the map, or is stopped.
LEMMA ProbedOnline ==
    ASSUME Typed, Named, Online, NEW f \in Logins, Install(f) \/ FailStart(f)
    PROVE  Online'
<1> DEFINE s == flow[f].session
<1>1. /\ UNCHANGED <<row, deletion, contended>> /\ running' \subseteq running
      /\ flow[f].pc \in {"dial", "probe"} /\ flow'[f].pc \in {"trigger", "ended"}
      /\ \A g \in Logins : g # f => flow'[g] = flow[g]
      /\ flow'[f].account = flow[f].account
  <2>1. BringOnline(f)
    BY DEF BringOnline
  <2>2. flow'[f].pc \in {"trigger", "ended"}
    BY <2>1, StartingMoves
  <2>3. QED
    BY <2>1, <2>2, StartingMoves DEF Install, FailStart
<1>2. \A g \in Logins : flow'[g].account = flow[g].account
  BY <1>1
<1>3. ASSUME NEW c \in running, c.by = f PROVE flow[f].pc = "probe" /\ c.session = s
  BY <1>1, <1>3, ClientTypes DEF Online, Early
<1>4. \/ /\ running' = running
         /\ \E c \in running : /\ c.by = f /\ c.session = s
                               /\ client' = [client EXCEPT ![s] = c]
      \/ client' = client /\ \A c \in running' : c.by # f
  <2>1. CASE Install(f)
    BY <1>3, <2>1 DEF Install, ClientOf
  <2>2. CASE FailStart(f)
    BY <2>2 DEF FailStart, ClientOf
  <2>3. QED
    BY <2>1, <2>2
<1> HIDE DEF s
<1>5. ASSUME NEW c \in running'
      PROVE  /\ row'[c.session].account # None
             /\ c.by # None => /\ flow'[c.by].pc \notin Early
                               /\ flow'[c.by].pc = "probe" => flow'[c.by].session = c.session
  <2>1. c \in running /\ (c.by # None => c.by \in Logins)
    BY <1>1, ClientTypes
  <2>2. CASE c.by = f
    BY <1>1, <2>1, <2>2 DEF Online, Early, Undecided
  <2>3. CASE c.by # f
    BY <1>1, <2>1, <2>3 DEF Online
  <2>4. QED
    BY <2>2, <2>3
<1>6. ASSUME NEW g \in Logins, flow'[g].pc = "dial", Quiet(g)', NEW c \in running'
      PROVE  c.session # flow'[g].session
  BY <1>1, <1>6 DEF Online, Quiet
<1>7. \A t \in Sessions : client'[t] # None => client'[t].session = t
  BY <1>4, ClientTypes DEF Online
<1>8. ASSUME NEW c \in running', Quiet(c.session)'
      PROVE  /\ \A d \in running' : d.session = c.session => d = c
             /\ \/ client'[c.session] = c
                \/ c.by # None /\ flow'[c.by].pc = "probe"
                \/ deletion'.stopping = c
  <2>1. c \in running /\ Quiet(c.session) /\ c.session \in Sessions
        /\ (c.by # None => c.by \in Logins)
    BY <1>1, <1>2, <1>8, QuietClient
  <2>2. \A d \in running : d.session = c.session => d = c
    BY <2>1 DEF Online, OneClient
  <2>3. CASE c.by = f
    <3>1. flow[f].pc = "probe" /\ c.session = s
      BY <1>3, <2>1, <2>3
    <3>2. client'[s] = c
      BY <1>4, <1>8, <2>1, <2>2, <2>3, <3>1, ClientTypes
    <3>3. QED
      BY <1>1, <2>2, <3>1, <3>2
  <2>4. CASE c.by # f
    <3>1. client[c.session] = c \/ (c.by # None /\ flow[c.by].pc = "probe")
          \/ deletion.stopping = c
      BY <2>1 DEF Online, OneClient
    <3>2. CASE client[c.session] = c
      <4>1. client'[c.session] = c
        BY <1>4, <2>1, <2>2, <3>2, ClientTypes
      <4>2. QED
        BY <1>1, <2>2, <4>1
    <3>3. CASE c.by # None /\ flow[c.by].pc = "probe"
      BY <1>1, <2>1, <2>2, <2>4, <3>3
    <3>4. CASE deletion.stopping = c
      BY <1>1, <2>2, <3>4
    <3>5. QED
      BY <3>1, <3>2, <3>3, <3>4
  <2>5. QED
    BY <2>3, <2>4
<1>9. OneClient'
  BY <1>8 DEF OneClient, Quiet
<1>10. QED
  BY <1>1, <1>5, <1>6, <1>7, <1>9 DEF Online, Quiet

\* Stop takes a client from the map, waits until it has ended, and forgets it.
LEMMA DeleteOnline ==
    ASSUME Typed, Named, Online, (\E s \in Sessions : BeginDelete(s)) \/ HaltClient
    PROVE  Online'
<1>1. UNCHANGED <<row, flow>> /\ running' \subseteq running /\ contended \subseteq contended'
  BY DEF BeginDelete, HaltClient
<1>2. ASSUME NEW c \in running'
      PROVE  /\ row'[c.session].account # None
             /\ c.by # None => /\ flow'[c.by].pc \notin Early
                               /\ flow'[c.by].pc = "probe" => flow'[c.by].session = c.session
  BY <1>1 DEF Online
<1>3. ASSUME NEW g \in Logins, flow'[g].pc = "dial", Quiet(g)', NEW c \in running'
      PROVE  c.session # flow'[g].session
  BY <1>1, <1>3 DEF Online, Quiet
<1>4. ASSUME NEW c \in running', Quiet(c.session)'
      PROVE  /\ c \in running /\ c \in Clients /\ c.session \in Sessions /\ Quiet(c.session)
             /\ \A d \in running' : d.session = c.session => d = c
             /\ \/ client[c.session] = c
                \/ c.by # None /\ flow'[c.by].pc = "probe"
                \/ deletion.stopping = c
  BY <1>1, <1>4, QuietClient DEF Online, OneClient
<1>5. ASSUME NEW s \in Sessions, BeginDelete(s) PROVE Online'
  <2>1. /\ deletion.stopping = None /\ client' = [client EXCEPT ![s] = None]
        /\ deletion'.session = s /\ deletion'.stopping = client[s]
    BY <1>5 DEF BeginDelete, NoDeletion
  <2>2. /\ \A t \in Sessions : client'[t] # None => client'[t].session = t
        /\ deletion'.stopping # None => /\ deletion'.session # None
                                        /\ deletion'.stopping.session = deletion'.session
    BY <2>1, ClientTypes DEF Online
  <2>3. ASSUME NEW c \in running', Quiet(c.session)'
        PROVE  /\ \A d \in running' : d.session = c.session => d = c
               /\ \/ client'[c.session] = c
                  \/ c.by # None /\ flow'[c.by].pc = "probe"
                  \/ deletion'.stopping = c
    <3>1. /\ c \in Clients /\ c.session \in Sessions
          /\ \/ client[c.session] = c
             \/ c.by # None /\ flow'[c.by].pc = "probe"
             \/ deletion.stopping = c
      BY <1>4, <2>3
    <3>2. client[c.session] = c => client'[c.session] = c \/ deletion'.stopping = c
      BY <2>1, <3>1, ClientTypes
    <3>3. deletion.stopping # c
      BY <2>1, <3>1, ClientTypes
    <3>4. QED
      BY <1>4, <2>3, <3>1, <3>2, <3>3
  <2>4. OneClient'
    BY <2>3 DEF OneClient, Quiet
  <2>5. QED
    BY <1>2, <1>3, <2>2, <2>4 DEF Online, Quiet
<1>6. CASE HaltClient
  <2>1. /\ running' = running \ {deletion.stopping} /\ client' = client
        /\ deletion'.stopping = None /\ deletion'.session = deletion.session
    BY <1>6, ClientTypes DEF HaltClient
  <2>2. OneClient'
    <3>1. ASSUME NEW c \in running', Quiet(c.session)'
          PROVE  /\ \A d \in running' : d.session = c.session => d = c
                 /\ client'[c.session] = c \/ (c.by # None /\ flow'[c.by].pc = "probe")
      BY <1>4, <2>1, <3>1
    <3>2. QED
      BY <3>1 DEF OneClient, Quiet
  <2>3. QED
    BY <1>2, <1>3, <2>1, <2>2 DEF Online, Quiet
<1>7. QED
  BY <1>5, <1>6

\* A crash leaves no client, and then each session gets one.
LEMMA RestartOnline ==
    ASSUME Typed, Named, Booting, Online, Crash \/ \E s \in Sessions : Restore(s)
    PROVE  Online'
<1>1. CASE Crash
  <2>1. /\ running' = {} /\ client' = [s \in Sessions |-> None] /\ deletion'.stopping = None
        /\ \A f \in Logins : ~InFlight(f)'
    BY <1>1, CrashMoves DEF Crash, NoDeletion, Named
  <2>2. \A f \in Logins : flow'[f].pc # "dial"
    BY <2>1 DEF InFlight, Starting
  <2>3. OneClient'
    BY <2>1 DEF OneClient
  <2>4. QED
    BY <2>1, <2>2, <2>3 DEF Online
<1>2. ASSUME NEW s \in Sessions, Restore(s) PROVE Online'
  <2> DEFINE n == [session |-> s, key |-> KeyFor(s), by |-> None]
  <2>1. /\ s \in booting /\ UNCHANGED <<row, flow, deletion, contended>>
        /\ \/ running' = running \cup {n} /\ client' = [client EXCEPT ![s] = n]
           \/ running' = running /\ client' = client
    BY <1>2 DEF Restore
  <2>2. /\ row[s].account # None /\ \A c \in running : c.session # s
        /\ \A f \in Logins : ~InFlight(f)
    BY <2>1 DEF Booting, Named
  <2>3. n.session = s /\ n.by = None
    OBVIOUS
  <2> HIDE DEF n
  <2>4. \A f \in Logins : flow'[f].pc # "dial"
    BY <2>1, <2>2 DEF InFlight, Starting
  <2>5. CASE running' = running \cup {n} /\ client' = [client EXCEPT ![s] = n]
    <3>1. ASSUME NEW c \in running', Quiet(c.session)'
          PROVE  /\ \A d \in running' : d.session = c.session => d = c
                 /\ \/ client'[c.session] = c
                    \/ c.by # None /\ flow'[c.by].pc = "probe"
                    \/ deletion'.stopping = c
      <4>1. CASE c = n
        BY <2>2, <2>3, <2>5, <4>1, ClientTypes
      <4>2. CASE c # n
        <5>1. c \in running /\ Quiet(c.session) /\ c.session # s /\ c.session \in Sessions
          BY <2>1, <2>2, <2>5, <3>1, <4>2, QuietClient
        <5>2. QED
          BY <2>1, <2>3, <2>5, <5>1, ClientTypes DEF Online, OneClient
      <4>3. QED
        BY <4>1, <4>2
    <3>2. OneClient'
      BY <3>1 DEF OneClient, Quiet
    <3>3. \A t \in Sessions : client'[t] # None => client'[t].session = t
      BY <2>3, <2>5, ClientTypes DEF Online
    <3>4. ASSUME NEW c \in running'
          PROVE  /\ row'[c.session].account # None
                 /\ c.by # None => /\ flow'[c.by].pc \notin Early
                                   /\ flow'[c.by].pc = "probe" => flow'[c.by].session = c.session
      BY <2>1, <2>2, <2>3, <2>5 DEF Online
    <3>5. deletion'.stopping # None => /\ deletion'.session # None
                                       /\ deletion'.stopping.session = deletion'.session
      BY <2>1 DEF Online
    <3>6. QED
      BY <2>4, <3>2, <3>3, <3>4, <3>5 DEF Online
  <2>6. CASE running' = running /\ client' = client
    <3>1. OneClient'
      BY <2>1, <2>6 DEF Online, OneClient, Quiet
    <3>2. QED
      BY <2>1, <2>4, <2>6, <3>1 DEF Online
  <2>7. QED
    BY <2>1, <2>5, <2>6
<1>3. QED
  BY <1>1, <1>2

LEMMA NextOnline ==
    ASSUME Typed, Named, Choices, Alone, Deleting, Booting, Online, [Next]_vars
    PROVE  Online'
<1>k. StayPut
  BY NextChoices
<1>1. ASSUME NEW f \in Logins, NEW a \in Accounts, StartLogin(f, a) PROVE Online'
  <2>1. Clientless
    BY <1>1, StartMoves DEF Clientless, Early, Undecided
  <2>2. \A g \in Logins : flow[g].pc # "new" => flow'[g].account = flow[g].account
    BY <1>1, StartMoves
  <2>3. contended \subseteq contended' /\ UNCHANGED <<running, client, deletion>>
    BY <1>1, StartQuiet
  <2>4. QED
    BY <1>k, <2>1, <2>2, <2>3, CalmOnline
<1>2. ASSUME NEW f \in Logins, Activate(f) PROVE Online'
  <2>1. Clientless /\ Onward
    BY <1>2, ActivateMoves
  <2>2. UNCHANGED <<running, client, deletion, contended>>
    BY <1>2 DEF Activate
  <2>3. QED
    BY <1>k, <2>1, <2>2, CalmOnline DEF Onward
<1>3. CASE Revoke
  <2>1. Onward /\ Clientless
    BY <1>3, StillMoves DEF Revoke
  <2>2. /\ UNCHANGED <<running, client, contended>> /\ deletion.stopping = None
        /\ deletion'.stopping = None
    BY <1>3, RevokeRows DEF NoDeletion
  <2>3. QED
    BY <1>k, <2>1, <2>2, CalmOnline DEF Onward
<1>4. ASSUME \/ \E f \in Logins : \/ ConnectLogin(f) \/ SubmitCode(f) \/ SubmitPassword(f)
                                  \/ TakeCode(f) \/ TakePassword(f) \/ FailLogin(f)
                                  \/ ForgetLogin(f) \/ CollectLogin(f) \/ FindCanonical(f)
                                  \/ TriggerAfterLogin(f) \/ Expire(f)
             \/ \E c \in Connected : StoreBlob(c)
             \/ \E w \in Walkers : Discover(w)
             \/ \E s \in Sessions : RefreshDiscover(s)
             \/ UNCHANGED vars
      PROVE  Online'
  <2>1. Onward /\ contended \subseteq contended'
    BY <1>4, MostMoves DEF BringOnline
  <2>2. Clientless
    <3>1. ASSUME NEW f \in Logins,
                 \/ ConnectLogin(f) \/ SubmitCode(f) \/ SubmitPassword(f)
                 \/ TakeCode(f) \/ TakePassword(f) \/ FailLogin(f)
                 \/ ForgetLogin(f) \/ CollectLogin(f) \/ FindCanonical(f)
                 \/ TriggerAfterLogin(f)
          PROVE  Clientless
      BY <3>1, WaitingMoves, FindMoves, StartingMoves DEF BringOnline
    <3>2. flow' = flow => Clientless
      BY StillMoves
    <3>3. QED
      BY <1>4, <3>1, <3>2 DEF Expire, StoreBlob, Discover, StartDiscover, EndWalk,
           FinishDiscover, LeaveDiscover, RefreshDiscover, vars
  <2>3. UNCHANGED <<running, client, deletion>>
    BY <1>4 DEF ConnectLogin, SubmitCode, SubmitPassword, TakeCode, TakePassword, FailLogin,
           ForgetLogin, CollectLogin, FindCanonical, TriggerAfterLogin, Expire, StoreBlob,
           Discover, StartDiscover, EndWalk, FinishDiscover, LeaveDiscover, RefreshDiscover, vars
  <2>4. QED
    BY <1>k, <2>1, <2>2, <2>3, CalmOnline DEF Onward
<1>5. QED
  BY <1>1, <1>2, <1>3, <1>4, CheckOnline, DialOnline, ProbedOnline, DeleteOnline, RestartOnline
     DEF Next, Login, BringOnline

\* Logins, deletions, failed probes, restarts and crashes, in any order: a session of an
\* account nobody contends for has one client, and somebody knows where it is (Start
\* and Stop of manager.go).
THEOREM OneClientKept == Spec => []OneClient
<1> DEFINE Inv == Typed /\ Choices /\ Named /\ Alone /\ Deleting /\ Booting /\ Online
<1>1. Init => Inv
  <2>1. Init => Alone
    BY InitAlone
  <2>2. Init => Deleting /\ Booting /\ Online
    BY DEF Init, Deleting, Booting, Online, OneClient, NoDeletion, NewFlow
  <2>3. QED
    BY <2>1, <2>2, InitTyped, InitChoices, InitNamed
<1>2. Inv /\ [Next]_vars => Inv'
  BY NextTyped, NextChoices, NextNamed, NextAlone, NextDeleting, NextBooting, NextOnline
<1>3. Inv => OneClient
  BY DEF Online
<1>4. QED
  BY <1>1, <1>2, <1>3, PTL DEF Spec

-----------------------------------------------------------------------------
(* What is in a row of an account nobody contends for *)

Linked == Undecided \ {"connect"}
KeyOf(k, a) == k \in Logins /\ flow[k].account = a

\* A session somebody starts is active, one somebody logs in to is not revoked and has
\* the login's key, and a client has a key of its session's account.
Lively ==
    /\ \A f \in Logins : Quiet(f) =>
         /\ flow[f].pc \in Starting => row[flow[f].session].status = "active"
         /\ flow[f].pc \in Undecided => row[f].status # "revoked"
         /\ flow[f].pc \in Linked => row[f].blob = f
    /\ \A c \in running : Quiet(c.session) => KeyOf(c.key, flow[c.session].account)
    /\ RevokedOffline /\ BlobOfAccount

\* Clients that come have a good key, and so do rows that get another blob.
LEMMA CalmLively ==
    ASSUME Typed, Named, Online, Lively, Onward, Held, SameRows, contended \subseteq contended',
           \A c \in running' :
              \/ c \in running
              \/ /\ c.session \in Sessions
                 /\ Quiet(c.session) => /\ KeyOf(c.key, flow[c.session].account)
                                        /\ row[c.session].status # "revoked",
           \A s \in Sessions : Quiet(s) =>
              \/ row'[s].blob = row[s].blob /\ (flow'[s].pc \in Linked => flow[s].pc \in Linked)
              \/ /\ row[s].status # "revoked"
                 /\ row[s].status = "active" => KeyOf(row'[s].blob, row[s].account)
                 /\ flow'[s].pc \in Linked => row'[s].blob = s
    PROVE  Lively'
<1>1. \A f \in Logins : flow'[f].account = flow[f].account /\ (Quiet(f)' => Quiet(f))
  BY DEF Onward, Quiet
<1>2. \A s \in Sessions : /\ Quiet(s)' => Quiet(s)
                          /\ row'[s].status = row[s].status /\ row'[s].account = row[s].account
                          /\ s \in Logins
  BY <1>1, ClientTypes DEF SameRows
<1>3. \A k, a : KeyOf(k, a) => k \in Logins /\ flow'[k].account = a
  BY <1>1 DEF KeyOf
<1>4. ASSUME NEW f \in Logins, flow'[f].account \notin contended'
      PROVE  /\ flow'[f].pc \in Starting => row'[flow'[f].session].status = "active"
             /\ flow'[f].pc \in Undecided => row'[f].status # "revoked"
             /\ flow'[f].pc \in Linked => row'[f].blob = f
  <2>1. Quiet(f) /\ f \in Sessions
    BY <1>1, <1>4, ClientTypes DEF Quiet
  <2>2. flow[f].pc \in Starting => flow[f].session \in Sessions
    BY DEF Typed, Placed
  <2>3. flow'[f].pc \in Starting => row'[flow'[f].session].status = "active"
    BY <1>2, <2>1, <2>2 DEF Held, Lively
  <2>4. flow'[f].pc \in Undecided => row'[f].status # "revoked"
    BY <1>2, <2>1 DEF Onward, Lively
  <2>5. flow'[f].pc \in Linked => row'[f].blob = f
    BY <2>1 DEF Lively
  <2>6. QED
    BY <2>3, <2>4, <2>5
<1>5. ASSUME NEW c \in running', flow'[c.session].account \notin contended'
      PROVE  /\ c.key \in Logins /\ flow'[c.key].account = flow'[c.session].account
             /\ c.session \in Sessions /\ row'[c.session].status # "revoked"
  <2>1. c.session \in Sessions /\ Quiet(c.session)
    BY <1>2, <1>5, ClientTypes DEF Quiet
  <2>2. KeyOf(c.key, flow[c.session].account) /\ row[c.session].status # "revoked"
    BY <2>1 DEF Lively, RevokedOffline
  <2>3. QED
    BY <1>1, <1>2, <1>3, <2>1, <2>2, ClientTypes
<1>6. ASSUME NEW s \in Sessions, flow'[s].account \notin contended'
      PROVE  /\ row'[s].status = "revoked" => row'[s].blob = None
             /\ row'[s].status = "active" => /\ row'[s].blob \in Logins
                                             /\ flow'[row'[s].blob].account = row'[s].account
  <2>1. Quiet(s)
    BY <1>2, <1>6 DEF Quiet
  <2>2. row[s].status = "active" => KeyOf(row[s].blob, row[s].account)
    BY <2>1 DEF Lively, BlobOfAccount, KeyOf
  <2>3. row[s].status = "revoked" => row[s].blob = None
    BY <2>1 DEF Lively, RevokedOffline
  <2>4. QED
    BY <1>2, <1>3, <2>1, <2>2, <2>3
<1>7. RevokedOffline'
  BY <1>5, <1>6 DEF RevokedOffline, Quiet
<1>8. BlobOfAccount'
  BY <1>6 DEF BlobOfAccount, Quiet
<1>9. QED
  BY <1>4, <1>5, <1>7, <1>8 DEF Lively, Quiet, KeyOf

LEMMA StartLively ==
    ASSUME Typed, Named, Choices, Online, Lively, NEW f \in Logins, NEW a \in Accounts,
           StartLogin(f, a)
    PROVE  Lively'
<1>m. /\ row'[f].status = "pending" /\ row[f].account = None /\ f \in Sessions
      /\ \A s \in Sessions : s # f => row'[s] = row[s]
      /\ flow'[f].pc = "connect" /\ flow[f].account = None
      /\ \A g \in Logins : g # f => flow'[g] = flow[g]
      /\ \A g \in Logins : g # f => (Quiet(g)' => Quiet(g))
      /\ running' = running
  BY StartMoves, StartQuiet, ClientTypes
<1>1. ASSUME NEW g \in Logins, Quiet(g)'
      PROVE  /\ flow'[g].pc \in Starting => row'[flow'[g].session].status = "active"
             /\ flow'[g].pc \in Undecided => row'[g].status # "revoked"
             /\ flow'[g].pc \in Linked => row'[g].blob = g
  <2>1. CASE g = f
    BY <1>m, <2>1 DEF Starting, Linked
  <2>2. CASE g # f
    <3>1. flow[g].pc \in Starting => flow[g].session \in Sessions /\ flow[g].session # f
      BY <1>m, SessionOf
    <3>2. QED
      BY <1>m, <1>1, <2>2, <3>1, ClientTypes DEF Lively
  <2>3. QED
    BY <2>1, <2>2
<1>2. \A k, b : KeyOf(k, b) /\ b # None => k \in Logins /\ flow'[k].account = b
  BY <1>m DEF KeyOf
<1>3. ASSUME NEW s \in Sessions, s # f, Quiet(s)'
      PROVE  Quiet(s) /\ row'[s] = row[s] /\ flow'[s] = flow[s]
  BY <1>m, <1>3, ClientTypes
<1>4. ASSUME NEW c \in running, flow'[c.session].account \notin contended'
      PROVE  /\ c.key \in Logins /\ flow'[c.key].account = flow'[c.session].account
             /\ c.session # f
  <2>1. /\ c.session \in Sessions /\ row[c.session].account # None
        /\ flow[c.session].account = row[c.session].account
    BY ClientTypes DEF Online, Named
  <2>2. c.session # f
    BY <1>m, <2>1
  <2>3. QED
    BY <1>2, <1>3, <1>4, <2>1, <2>2 DEF Lively, Quiet
<1>5. RevokedOffline'
  <2> SUFFICES ASSUME NEW s \in Sessions, row'[s].status = "revoked", Quiet(s)'
               PROVE  row'[s].blob = None /\ \A c \in running' : c.session # s
    BY DEF RevokedOffline
  <2>1. s # f
    BY <1>m
  <2>2. QED
    BY <1>m, <1>3, <2>1 DEF Lively, RevokedOffline
<1>6. BlobOfAccount'
  <2> SUFFICES ASSUME NEW s \in Sessions, row'[s].status = "active", Quiet(s)'
               PROVE  row'[s].blob \in Logins /\ flow'[row'[s].blob].account = row'[s].account
    BY DEF BlobOfAccount
  <2>1. s # f
    BY <1>m
  <2>2. /\ row'[s] = row[s] /\ row[s].account # None
        /\ KeyOf(row[s].blob, row[s].account)
    BY <1>3, <2>1 DEF Lively, BlobOfAccount, KeyOf, Named
  <2>3. QED
    BY <1>2, <2>2
<1>7. QED
  BY <1>m, <1>1, <1>4, <1>5, <1>6 DEF Lively, Quiet, KeyOf

LEMMA ActivateLively ==
    ASSUME Typed, Named, Choices, Lively, NEW f \in Logins, Activate(f)
    PROVE  Lively'
<1> DEFINE s == flow[f].session
           a == flow[f].account
<1>1. /\ s \in Sessions /\ f \in Sessions /\ a # None /\ row[f].account = None
      /\ s = f \/ row[s].account = a
      /\ flow[s].account = a
      /\ row'[s].status = "active" /\ row'[s].account = a /\ row'[s].blob = row[f].blob
      /\ s # f => row'[f].status = "none"
      /\ \A t \in Sessions : t # f /\ t # s => row'[t] = row[t]
  BY ActivateRows DEF NoRow
<1>2. /\ flow'[f].pc = "check" /\ flow'[f].session = s /\ flow[f].pc = "commit"
      /\ flow'[f].account = flow[f].account
      /\ \A g \in Logins : g # f => flow'[g] = flow[g]
      /\ UNCHANGED <<running, contended>>
  BY ActivateMoves DEF Activate
<1>3. \A g \in Logins : flow'[g].account = flow[g].account /\ (Quiet(g)' => Quiet(g))
  BY <1>2 DEF Quiet
<1>a. a = flow[f].account
  OBVIOUS
<1> HIDE DEF s, a
<1>4. ASSUME NEW g \in Logins, Quiet(g)'
      PROVE  /\ flow'[g].pc \in Starting => row'[flow'[g].session].status = "active"
             /\ flow'[g].pc \in Undecided => row'[g].status # "revoked"
             /\ flow'[g].pc \in Linked => row'[g].blob = g
  <2>1. CASE g = f
    BY <1>1, <1>2, <2>1 DEF Undecided, Linked
  <2>2. CASE g # f
    <3>1. flow'[g] = flow[g] /\ Quiet(g) /\ g \in Sessions
      BY <1>2, <1>3, <1>4, <2>2, ClientTypes
    <3>2. flow[g].pc \in Starting => row'[flow[g].session].status = "active"
      <4> SUFFICES ASSUME flow[g].pc \in Starting PROVE row'[flow[g].session].status = "active"
        OBVIOUS
      <4>1. flow[g].session \in Sessions /\ flow[g].session # f
            /\ row[flow[g].session].status = "active"
        BY <1>1, <3>1, SessionOf DEF Lively
      <4>2. QED
        BY <1>1, <4>1
    <3>3. flow[g].pc \in Undecided => g # s
      BY <1>1, <2>2 DEF Choices, Waiting
    <3>4. QED
      BY <1>1, <2>2, <3>1, <3>2, <3>3 DEF Lively, Linked
  <2>3. QED
    BY <2>1, <2>2
<1>5. ASSUME NEW c \in running', Quiet(c.session)'
      PROVE  KeyOf(c.key, flow[c.session].account)
  <2>1. c \in running /\ c.session \in Logins
    BY <1>2, ClientTypes
  <2>2. QED
    BY <1>3, <1>5, <2>1 DEF Lively
<1>6. \A c \in running' : c.session \in Logins
  BY <1>2, ClientTypes
<1>7. RevokedOffline'
  <2> SUFFICES ASSUME NEW t \in Sessions, row'[t].status = "revoked", Quiet(t)'
               PROVE  row'[t].blob = None /\ \A c \in running' : c.session # t
    BY DEF RevokedOffline
  <2>1. t # s /\ t # f /\ Quiet(t)
    BY <1>1, <1>3, ClientTypes
  <2>2. QED
    BY <1>1, <1>2, <2>1 DEF Lively, RevokedOffline
<1>8. BlobOfAccount'
  <2> SUFFICES ASSUME NEW t \in Sessions, row'[t].status = "active", Quiet(t)'
               PROVE  row'[t].blob \in Logins /\ flow'[row'[t].blob].account = row'[t].account
    BY DEF BlobOfAccount
  <2>1. CASE t = s
    <3>1. Quiet(f)
      BY <1>1, <1>2, <1>3, <1>a, <2>1, ClientTypes DEF Quiet
    <3>2. row[f].blob = f
      BY <1>2, <3>1 DEF Lively, Linked, Undecided
    <3>3. QED
      BY <1>1, <1>2, <1>a, <2>1, <3>2
  <2>2. CASE t # s
    <3>1. t # f /\ row'[t] = row[t] /\ Quiet(t)
      BY <1>1, <1>3, <2>2, ClientTypes
    <3>2. KeyOf(row[t].blob, row[t].account)
      BY <3>1 DEF Lively, BlobOfAccount, KeyOf
    <3>3. QED
      BY <1>3, <3>1, <3>2 DEF KeyOf
  <2>3. QED
    BY <2>1, <2>2
<1>9. \A k, b : KeyOf(k, b) => k \in Logins /\ flow'[k].account = b
  BY <1>3 DEF KeyOf
<1>10. ASSUME NEW c \in running', Quiet(c.session)'
       PROVE  c.key \in Logins /\ flow'[c.key].account = flow'[c.session].account
  BY <1>3, <1>5, <1>6, <1>9, <1>10
<1>11. QED
  BY <1>4, <1>7, <1>8, <1>10 DEF Lively, KeyOf

\* Nobody starts or logs in to the session that is revoked, and its client has ended.
LEMMA RevokeLively ==
    ASSUME Typed, Named, Deleting, Online, Lively, Revoke
    PROVE  Lively'
<1> DEFINE d == deletion.session
<1>1. /\ d \in Sessions /\ d # None /\ d \in Logins /\ deletion.stopping = None
      /\ UNCHANGED <<flow, running, contended>>
      /\ \A s \in Sessions : s # d => row'[s] = row[s]
      /\ (row'[d].status = "revoked" /\ row'[d].blob = None) \/ row' = row
      /\ \A s \in Sessions : row'[s].status = "active" => row'[s] = row[s]
  BY RevokeRows, ClientTypes
<1>2. ASSUME Quiet(d)
      PROVE  /\ client[d] = None
             /\ \A f \in Logins : InFlight(f) => flow[f].account # flow[d].account
  BY <1>1, <1>2 DEF Deleting
<1>3. \A s \in Sessions : Quiet(s)' <=> Quiet(s)
  BY <1>1 DEF Quiet
<1> HIDE DEF d
<1>4. ASSUME NEW f \in Logins, Quiet(f)
      PROVE  /\ flow[f].pc \in Starting => flow[f].session \in Sessions /\ flow[f].session # d
             /\ flow[f].pc \in Undecided => f # d
  <2>1. ASSUME flow[f].pc \in Starting PROVE flow[f].session \in Sessions /\ flow[f].session # d
    BY <1>2, <1>4, <2>1, SessionOf
  <2>2. ASSUME flow[f].pc \in Undecided PROVE f # d
    BY <1>2, <1>4, <2>2 DEF InFlight
  <2>3. QED
    BY <2>1, <2>2
<1>5. ASSUME NEW f \in Logins, Quiet(f)
      PROVE  /\ flow[f].pc \in Starting => row'[flow[f].session].status = "active"
             /\ flow[f].pc \in Undecided => row'[f].status # "revoked"
             /\ flow[f].pc \in Linked => row'[f].blob = f
  BY <1>1, <1>4, <1>5, ClientTypes DEF Lively, Linked
<1>6. ASSUME NEW c \in running, Quiet(d) PROVE c.session # d
  <2> SUFFICES ASSUME c.session = d PROVE FALSE
    OBVIOUS
  <2>1. c \in Clients /\ c # None /\ c.by \in Logins \cup {None}
    BY ClientTypes
  <2>2. c.by # None /\ flow[c.by].pc = "probe"
    BY <1>1, <1>2, <1>6, <2>1 DEF Online, OneClient
  <2>3. flow[c.by].session = d /\ c.by \in Logins
    BY <2>1, <2>2 DEF Online
  <2>4. InFlight(c.by) /\ flow[c.by].account = flow[d].account
    BY <2>2, <2>3, SessionOf DEF Starting
  <2>5. QED
    BY <1>2, <1>6, <2>3, <2>4
<1>7. RevokedOffline'
  <2> SUFFICES ASSUME NEW t \in Sessions, row'[t].status = "revoked", Quiet(t)'
               PROVE  row'[t].blob = None /\ \A c \in running' : c.session # t
    BY DEF RevokedOffline
  <2>1. Quiet(t)
    BY <1>3
  <2>2. CASE row'[t] = row[t]
    BY <1>1, <2>1, <2>2 DEF Lively, RevokedOffline
  <2>3. CASE row'[t] # row[t]
    <3>1. t = d /\ row'[d].blob = None
      BY <1>1, <2>3
    <3>2. QED
      BY <1>1, <1>6, <2>1, <3>1
  <2>4. QED
    BY <2>2, <2>3
<1>8. BlobOfAccount'
  BY <1>1, <1>3 DEF Lively, BlobOfAccount
<1>9. ASSUME NEW c \in running', Quiet(c.session)'
      PROVE  c.key \in Logins /\ flow'[c.key].account = flow'[c.session].account
  BY <1>1, <1>3, <1>9, ClientTypes DEF Lively, KeyOf
<1>10. ASSUME NEW f \in Logins, Quiet(f)'
       PROVE  /\ flow'[f].pc \in Starting => row'[flow'[f].session].status = "active"
              /\ flow'[f].pc \in Undecided => row'[f].status # "revoked"
              /\ flow'[f].pc \in Linked => row'[f].blob = f
  BY <1>1, <1>3, <1>5, <1>10, ClientTypes
<1>11. QED
  BY <1>7, <1>8, <1>9, <1>10 DEF Lively, KeyOf

\* A login that has not connected yet gets a key by connecting, not otherwise.
Unlinked == \A s \in Sessions : flow'[s].pc \in Linked => flow[s].pc \in Linked

LEMMA LinkMoves ==
    ASSUME Typed, NEW f \in Logins,
           \/ SubmitCode(f) \/ SubmitPassword(f) \/ TakeCode(f) \/ TakePassword(f)
           \/ FailLogin(f) \/ ForgetLogin(f) \/ CollectLogin(f) \/ FindCanonical(f)
           \/ BringOnline(f)
    PROVE  Unlinked
<1>1. flow \in [Logins -> Flows] /\ flow[f] \in Flows /\ Sessions = Logins
  BY DEF Typed, TypeOK, Flows, Sessions
<1>2. Onward
  BY WaitingMoves, FindMoves, StartingMoves
<1>3. \A g \in Logins : g # f => flow'[g] = flow[g]
  <2>1. BringOnline(f) => \A g \in Logins : g # f => flow'[g] = flow[g]
    BY StartingMoves
  <2>2. QED
    BY <1>1, <2>1 DEF SubmitCode, SubmitPassword, TakeCode, TakePassword, FailLogin, End,
         ForgetLogin, CollectLogin, FindCanonical
<1>4. ASSUME flow[f].pc = "connect" PROVE flow'[f].pc \notin Linked
  <2>1. FailLogin(f) \/ CollectLogin(f)
    <3>1. ~BringOnline(f)
      BY <1>4, StartingMoves DEF Starting
    <3>2. QED
      BY <1>4, <3>1 DEF SubmitCode, SubmitPassword, TakeCode, TakePassword, ForgetLogin,
           FindCanonical
  <2>2. FailLogin(f) => flow'[f].pc = "ended"
    BY <1>1 DEF FailLogin, End, EndedFlow, NewFlow
  <2>3. CollectLogin(f) => flow'[f].pc = "connect"
    BY <1>1, <1>4 DEF CollectLogin, Collected, Flows
  <2>4. QED
    BY <2>1, <2>2, <2>3 DEF Linked, Undecided
<1>5. QED
  BY <1>1, <1>2, <1>3, <1>4 DEF Unlinked, Onward, Linked

\* The steps that bring no client and no key.
LEMMA StillLively ==
    ASSUME Typed, Named, Online, Lively,
           \/ \E f \in Logins : \/ SubmitCode(f) \/ SubmitPassword(f) \/ TakeCode(f)
                                \/ TakePassword(f) \/ FailLogin(f) \/ ForgetLogin(f)
                                \/ CollectLogin(f) \/ FindCanonical(f) \/ CheckClient(f)
                                \/ Install(f) \/ FailStart(f) \/ TriggerAfterLogin(f)
                                \/ Expire(f)
           \/ \E w \in Walkers : Discover(w)
           \/ \E s \in Sessions : RefreshDiscover(s) \/ BeginDelete(s)
           \/ HaltClient \/ Crash \/ UNCHANGED vars
    PROVE  Lively'
<1>1. Onward /\ Held /\ contended \subseteq contended'
  BY MostMoves DEF BringOnline
<1>2. SameRows /\ \A s \in Sessions : row'[s].blob = row[s].blob
  <2>1. row' = row \/ \E s, status : row' = [row EXCEPT ![s].discover = status]
    BY DEF SubmitCode, SubmitPassword, TakeCode, TakePassword, FailLogin, ForgetLogin,
           CollectLogin, FindCanonical, CheckClient, Install, FailStart, TriggerAfterLogin,
           Expire, Discover, StartDiscover, EndWalk, FinishDiscover, LeaveDiscover,
           RefreshDiscover, BeginDelete, HaltClient, Crash, vars, SetDiscover
  <2>2. row \in [Sessions -> Rows]
    BY WalkerTypes
  <2>3. QED
    BY <2>1, <2>2 DEF Rows, SameRows
<1>3. Unlinked
  <2>1. flow' = flow => Unlinked
    BY DEF Unlinked
  <2>2. ASSUME Crash PROVE Unlinked
    <3>1. \A f \in Logins : flow[f].pc = "new" => flow[f].account = None
      BY DEF Named
    <3>2. \A f \in Logins : ~InFlight(f)'
      BY <2>2, <3>1, CrashMoves
    <3>3. QED
      BY <3>2 DEF Unlinked, InFlight, Linked, Sessions
  <2>3. ASSUME NEW f \in Logins,
               \/ SubmitCode(f) \/ SubmitPassword(f) \/ TakeCode(f) \/ TakePassword(f)
               \/ FailLogin(f) \/ ForgetLogin(f) \/ CollectLogin(f) \/ FindCanonical(f)
               \/ BringOnline(f)
        PROVE  Unlinked
    BY <2>3, LinkMoves
  <2>4. QED
    BY <2>1, <2>2, <2>3 DEF BringOnline, Expire, Discover, StartDiscover, EndWalk,
         FinishDiscover, LeaveDiscover, RefreshDiscover, BeginDelete, HaltClient, vars
<1>4. running' \subseteq running
  BY DEF SubmitCode, SubmitPassword, TakeCode, TakePassword, FailLogin, ForgetLogin,
         CollectLogin, FindCanonical, CheckClient, Install, FailStart, TriggerAfterLogin,
         Expire, Discover, StartDiscover, EndWalk, FinishDiscover, LeaveDiscover,
         RefreshDiscover, BeginDelete, HaltClient, Crash, vars
<1>5. QED
  BY <1>1, <1>2, <1>3, <1>4, CalmLively DEF Unlinked

\* A login that connects makes a key for its own row, which nobody has activated.
LEMMA ConnectLively ==
    ASSUME Typed, Named, Choices, Online, Lively, NEW f \in Logins, ConnectLogin(f)
    PROVE  Lively'
<1>1. Onward /\ Held /\ SameRows /\ contended' = contended
  BY WaitingMoves, LoginRows DEF ConnectLogin
<1>2. /\ running' = running /\ flow[f].pc = "connect" /\ f \in Sessions /\ Sessions = Logins
      /\ row \in [Sessions -> Rows] /\ flow \in [Logins -> Flows]
      /\ row' = [row EXCEPT ![f].blob = f] /\ flow' = [flow EXCEPT ![f].pc = "code"]
  BY ClientTypes, WalkerTypes DEF ConnectLogin, Goto, Typed, TypeOK, Flows
<1>3. row'[f].blob = f /\ \A s \in Sessions : s # f => row'[s] = row[s] /\ flow'[s] = flow[s]
  BY <1>2 DEF Rows
<1>4. row[f].account = None /\ row[f].status # "active"
  BY <1>2 DEF Choices, Waiting, Undecided, Named
<1>5. Quiet(f) => row[f].status # "revoked"
  BY <1>2 DEF Lively, Undecided
<1>6. QED
  BY <1>1, <1>2, <1>3, <1>4, <1>5, CalmLively

\* A client dialled for an active session finds the session's key and stores it again.
LEMMA DialLively ==
    ASSUME Typed, Named, Online, Lively, NEW f \in Logins, Dial(f)
    PROVE  Lively'
<1> DEFINE s == flow[f].session
           n == NewClient(f, s)
<1>1. Onward /\ Held /\ Unlinked /\ SameRows /\ contended' = contended
  <2>1. BringOnline(f)
    BY DEF BringOnline
  <2>2. SameRows
    BY <2>1, LoginRows
  <2>3. QED
    BY <2>1, <2>2, StartingMoves, LinkMoves DEF Dial
<1>2. /\ s \in Sessions /\ flow[s].account = flow[f].account /\ Sessions = Logins
      /\ row[s].account = flow[f].account
      /\ Quiet(s) <=> Quiet(f)
      /\ flow[f].pc \in Starting
  BY SessionOf, ClientTypes DEF Dial, Starting
<1>3. /\ running' = running \cup {n} /\ n.session = s /\ n.key = KeyFor(s)
      /\ row' = row \/ row' = [row EXCEPT ![s].blob = KeyFor(s)]
      /\ row \in [Sessions -> Rows]
  BY WalkerTypes DEF Dial, NewClient
<1> HIDE DEF s, n
<1>4. ASSUME Quiet(s)
      PROVE  /\ row[s].status = "active" /\ KeyFor(s) = row[s].blob
             /\ KeyOf(KeyFor(s), row[s].account)
  <2>1. row[s].status = "active"
    BY <1>2, <1>4 DEF Lively, s
  <2>2. row[s].blob \in Logins /\ KeyOf(row[s].blob, row[s].account)
    BY <1>2, <1>4, <2>1 DEF Lively, BlobOfAccount, KeyOf
  <2>3. row[s].blob # None
    BY <1>2, <2>2, ClientTypes
  <2>4. QED
    BY <2>1, <2>2, <2>3 DEF KeyFor
<1>5. ASSUME NEW t \in Sessions, Quiet(t) PROVE row'[t].blob = row[t].blob
  <2>1. CASE t = s
    BY <1>2, <1>3, <1>4, <1>5, <2>1 DEF Rows
  <2>2. CASE t # s
    BY <1>3, <2>2 DEF Rows
  <2>3. QED
    BY <2>1, <2>2
<1>6. Quiet(n.session) => KeyOf(n.key, flow[n.session].account) /\ row[n.session].status # "revoked"
  BY <1>2, <1>3, <1>4
<1>7. QED
  BY <1>1, <1>2, <1>3, <1>5, <1>6, CalmLively DEF Unlinked

\* Clients, a login's own included, store keys of their account, and only in rows that
\* are not revoked.
LEMMA StoreLively ==
    ASSUME Typed, Named, Choices, Online, Lively, NEW c \in Connected, StoreBlob(c)
    PROVE  Lively'
<1>1. Onward /\ Held /\ SameRows /\ contended' = contended /\ UNCHANGED <<flow, running>>
  BY StillMoves, OtherRows DEF StoreBlob
<1>2. /\ row' = [row EXCEPT ![c.session].blob = c.key] /\ row \in [Sessions -> Rows]
      /\ Sessions = Logins
  BY ClientTypes, WalkerTypes DEF StoreBlob
<1>3. \/ c \in running
      \/ \E f \in Logins : flow[f].pc \in Linked /\ c = [session |-> f, key |-> f, by |-> f]
  BY DEF Connected, Linked
<1>4. c.session \in Sessions
  BY <1>2, <1>3, ClientTypes
<1>5. /\ row'[c.session].blob = c.key
      /\ \A s \in Sessions : s # c.session => row'[s] = row[s]
  BY <1>2, <1>4 DEF Rows
<1>6. ASSUME Quiet(c.session)
      PROVE  /\ row[c.session].status # "revoked"
             /\ row[c.session].status = "active" => KeyOf(c.key, row[c.session].account)
             /\ flow[c.session].pc \in Linked => c.key = c.session
  <2>1. CASE c \in running
    <3>1. row[c.session].account # None /\ flow[c.session].account = row[c.session].account
      BY <1>4, <2>1 DEF Online, Named
    <3>2. flow[c.session].pc \notin Linked
      BY <1>2, <1>4, <3>1 DEF Choices, Waiting, Linked
    <3>3. KeyOf(c.key, row[c.session].account) /\ row[c.session].status # "revoked"
      BY <1>4, <1>6, <2>1, <3>1 DEF Lively, RevokedOffline
    <3>4. QED
      BY <3>2, <3>3
  <2>2. ASSUME NEW f \in Logins, flow[f].pc \in Linked,
               c = [session |-> f, key |-> f, by |-> f]
        PROVE  /\ row[f].status # "revoked" /\ row[f].status # "active"
               /\ c.key = f /\ c.session = f
    <3>1. c.key = f /\ c.session = f
      BY <2>2
    <3>2. Quiet(f) /\ flow[f].pc \in Undecided
      BY <1>6, <2>2, <3>1 DEF Linked
    <3>3. row[f].account = None
      BY <3>2 DEF Choices, Waiting
    <3>4. QED
      BY <1>2, <3>1, <3>2, <3>3 DEF Lively, Named
  <2>3. QED
    BY <1>3, <2>1, <2>2
<1>7. QED
  BY <1>1, <1>2, <1>5, <1>6, CalmLively

\* RestoreActive starts active sessions with the key it finds.
LEMMA RestoreLively ==
    ASSUME Typed, Named, Booting, Online, Lively, NEW s \in Sessions, Restore(s)
    PROVE  Lively'
<1> DEFINE n == [session |-> s, key |-> KeyFor(s), by |-> None]
<1>1. Onward /\ Held /\ SameRows /\ Unlinked
  BY StillMoves, OtherRows DEF Restore, Unlinked
<1>2. /\ s \in booting
      /\ running' = running \/ running' = running \cup {n}
      /\ UNCHANGED <<row, contended>>
  BY DEF Restore
<1>3. n.session = s /\ n.key = KeyFor(s) /\ Sessions = Logins
  BY ClientTypes
<1> HIDE DEF n
<1>4. ASSUME Quiet(s) PROVE KeyOf(KeyFor(s), flow[s].account) /\ row[s].status # "revoked"
  <2>1. s \in booting /\ row[s].status = "active"
    BY <1>2 DEF Booting, Restore
  <2>2. row[s].blob \in Logins /\ KeyOf(row[s].blob, row[s].account)
    BY <1>4, <2>1 DEF Lively, BlobOfAccount, KeyOf
  <2>3. row[s].blob # None /\ row[s].account = flow[s].account
    BY <1>3, <2>1, <2>2, ClientTypes DEF Named
  <2>4. QED
    BY <2>1, <2>2, <2>3 DEF KeyFor
<1>5. QED
  BY <1>1, <1>2, <1>3, <1>4, CalmLively DEF Unlinked

LEMMA NextLively ==
    ASSUME Typed, Named, Choices, Deleting, Booting, Online, Lively, [Next]_vars
    PROVE  Lively'
BY StillLively, StartLively, ConnectLively, ActivateLively, DialLively, StoreLively,
   RevokeLively, RestoreLively DEF Next, Login, BringOnline

LEMMA LivelyAlways ==
    Spec => [](Typed /\ Lively)
<1> DEFINE Inv == Typed /\ Choices /\ Named /\ Alone /\ Deleting /\ Booting /\ Online /\ Lively
<1>1. Init => Inv
  <2>1. Init => Lively
    BY DEF Init, Lively, RevokedOffline, BlobOfAccount, Starting, Undecided, Linked, NoRow,
         NewFlow, Sessions
  <2>2. Init => Deleting /\ Booting /\ Online
    BY DEF Init, Deleting, Booting, Online, OneClient, NoDeletion, NewFlow
  <2>3. QED
    BY <2>1, <2>2, InitAlone, InitTyped, InitChoices, InitNamed
<1>2. Inv /\ [Next]_vars => Inv'
  BY NextTyped, NextChoices, NextNamed, NextAlone, NextDeleting, NextBooting, NextOnline,
     NextLively
<1>3. QED
  BY <1>1, <1>2, PTL DEF Spec

\* A session that was deleted stays without a key and without a client, whatever else goes
\* on: DeleteSession waits for the client before it wipes the blob, and nobody starts
\* another for it (Stop of manager.go, RevokeTGSession of tg_sessions.go).
THEOREM RevokedStaysOffline == Spec => []RevokedOffline
BY LivelyAlways, PTL DEF Lively

\* An active session can always be brought online again, as its own account: the blob is
\* a key of a login to it, however rows were folded, clients reconnected and the process
\* restarted (StoreSession, ActivateAndConsolidateTGSession of tg_sessions.go).
THEOREM BlobStaysOfAccount == Spec => []BlobOfAccount
BY LivelyAlways, PTL DEF Lively

=============================================================================
