---------------------------- MODULE ConsoleProofs ----------------------------
(***************************************************************************)
(* Accounts and operators for any number of accounts, requests, tokens and *)
(* sockets, and any limits.  The inductive invariant is about the tables:  *)
(* what a session, a call or a socket refers to exists, names are unique,  *)
(* an unused id has no past in the audit log, and whoever could sign in as *)
(* an operator is enough for the console.                                  *)
(* The limits on signing in have an invariant of their own, WithinLimits,  *)
(* and lemmas on sums over finite sets: a count of attempts is such a sum. *)
(***************************************************************************)
EXTENDS Console, SequenceTheorems, FiniteSetTheorems, WellFoundedInduction, TLAPS

\* The tables and what refers to them.
TablesTyped ==
    /\ players \in Seq(Player) /\ Len(players) <= MaxPlayers
    /\ sessions \in [Tokens -> Session \cup {None}]
    /\ \A t \in Tokens : sessions[t] # None => sessions[t].player \in Ids

\* What an operation carries across its await is true of the tables after it.
CallsTyped ==
    /\ calls \in [Requests -> Call \cup {Idle}]
    /\ \A r \in Requests : calls[r] # Idle =>
          /\ calls[r].at = "hashing" => calls[r].name \in Names
          /\ calls[r].row # None => calls[r].row.id \in Ids
          /\ calls[r].at = "rehashing" => calls[r].row # None

PostsTyped == posts \in [Posts -> [bearer : Tokens, readable : BOOLEAN] \cup {Idle}]

SocketsTyped ==
    /\ conn \in [Sockets -> [state : {"off", "open", "kicked"}, account : Nat \cup {None}]]
    /\ \A s \in Sockets : conn[s].account # None => conn[s].account \in Ids

\* An operator who can sign in, if there is any operator.
SomebodyGoverns == Operators # {} => \E i \in Operators : ~players[i].banned

\* An id that nobody has yet has no entry in the audit log.
UnusedIdsAreClean ==
    /\ audit \in Record
    /\ \A i \in (1..MaxPlayers) \ Ids : audit.roles[i] = "player" /\ i \notin audit.banned

IInv ==
    /\ TablesTyped /\ CallsTyped /\ PostsTyped /\ SocketsTyped
    /\ NamesAreUnique /\ SomebodyGoverns /\ BannedAreBeingCut
    /\ UnusedIdsAreClean /\ AuditTellsTheState

-----------------------------------------------------------------------------
(* What is left alone                                                      *)

LEMMA NoneApart == None \notin Nat /\ None \notin Names
  BY AccountsAssumption

\* A step that changes neither a name, a role nor a ban, nor what they are
\* compared with.
SameStanding ==
    /\ players' \in Seq(Player)
    /\ Len(players') = Len(players)
    /\ \A i \in Ids : /\ players'[i].name = players[i].name
                      /\ players'[i].role = players[i].role
                      /\ players'[i].banned = players[i].banned

LEMMA StandingKept ==
  ASSUME IInv, SameStanding, UNCHANGED <<audit, maintenance, notice>>
  PROVE  /\ NamesAreUnique' /\ SomebodyGoverns' /\ UnusedIdsAreClean' /\ AuditTellsTheState'
         /\ Ids' = Ids /\ Operators' = Operators
<1>1. Ids' = Ids
  BY DEF SameStanding, Ids
<1>2. Operators' = Operators
  BY <1>1 DEF SameStanding, Operators
<1>3. NamesAreUnique'
  BY <1>1 DEF SameStanding, NamesAreUnique, IInv
<1>4. SomebodyGoverns'
  BY <1>1, <1>2 DEF SameStanding, SomebodyGoverns, IInv, Operators
<1>5. UnusedIdsAreClean'
  BY <1>1 DEF UnusedIdsAreClean, IInv
<1>6. AuditTellsTheState'
  BY <1>1 DEF SameStanding, AuditTellsTheState, IInv
<1>7. QED
  BY <1>1, <1>2, <1>3, <1>4, <1>5, <1>6

LEMMA PlayersSame ==
  ASSUME IInv, UNCHANGED players
  PROVE  SameStanding
  BY DEF SameStanding, IInv, TablesTyped

\* The sockets do not mind either.
LEMMA SocketsKept ==
  ASSUME IInv, SameStanding, UNCHANGED conn
  PROVE  SocketsTyped' /\ BannedAreBeingCut'
  BY DEF IInv, SameStanding, SocketsTyped, BannedAreBeingCut, Ids

-----------------------------------------------------------------------------
(* Calls and sessions                                                      *)

LEMMA CallsSame ==
  ASSUME IInv, UNCHANGED calls, Ids \subseteq Ids'
  PROVE  CallsTyped'
  BY DEF IInv, CallsTyped

LEMMA CallEnds ==
  ASSUME IInv, NEW r \in Requests, calls' = [calls EXCEPT ![r] = Idle], Ids \subseteq Ids'
  PROVE  CallsTyped'
  BY DEF IInv, CallsTyped

LEMMA PostsSame ==
  ASSUME IInv, UNCHANGED posts
  PROVE  PostsTyped'
  BY DEF IInv, PostsTyped

\* A token's session ends, or grows older.
LEMMA SessionsShrink ==
  ASSUME IInv, SameStanding, sessions' \in [Tokens -> Session \cup {None}],
         \A t \in Tokens : sessions'[t] # None => sessions[t] # None /\ sessions'[t].player = sessions[t].player
  PROVE  TablesTyped'
  BY DEF IInv, TablesTyped, SameStanding, Ids

LEMMA SessionsSame ==
  ASSUME IInv, SameStanding, UNCHANGED sessions
  PROVE  TablesTyped'
  BY SessionsShrink DEF IInv, TablesTyped

LEMMA AfterResolveShrinks ==
  ASSUME IInv, NEW t \in Tokens
  PROVE  /\ AfterResolve(t) \in [Tokens -> Session \cup {None}]
         /\ \A u \in Tokens : AfterResolve(t)[u] # None =>
               sessions[u] # None /\ AfterResolve(t)[u].player = sessions[u].player
  BY DEF IInv, TablesTyped, AfterResolve

\* A session that is issued to somebody who exists.
LEMMA IssuedTyped ==
  ASSUME IInv, NEW t \in Tokens, NEW i \in 1..MaxPlayers
  PROVE  /\ Issued(sessions, t, i) \in [Tokens -> Session \cup {None}]
         /\ \A u \in Tokens : Issued(sessions, t, i)[u] # None =>
               \/ Issued(sessions, t, i)[u].player = i
               \/ sessions[u] # None /\ Issued(sessions, t, i)[u].player = sessions[u].player
<1>1. [player |-> i, left |-> SessionTtl] \in Session
  BY AccountsAssumption DEF Session
<1>2. QED
  BY <1>1 DEF IInv, TablesTyped, Issued

-----------------------------------------------------------------------------
(* Accounts: one lemma for each group of steps                             *)

\* The steps that change no account.
LEMMA QuietStep ==
  ASSUME IInv, UNCHANGED <<players, conn, maintenance, notice, audit>>,
         TablesTyped', CallsTyped', PostsTyped'
  PROVE  IInv'
<1>1. SameStanding
  BY PlayersSame
<1>2. QED
  BY <1>1, StandingKept, SocketsKept DEF IInv

LEMMA StartsKeep ==
  ASSUME IInv, UNCHANGED consoleVars, NEW r \in Requests, NEW s \in Spellings,
         NEW w \in Secrets, NEW src \in Sources,
         RegisterStart(r, s, w, src) \/ LoginStart(r, s, w, src)
  PROVE  IInv'
<1> DEFINE n == NormalizeUsername[s]
<1>1. UNCHANGED <<players, sessions>>
  BY DEF RegisterStart, LoginStart
<1>2. SameStanding /\ TablesTyped' /\ PostsTyped' /\ Ids' = Ids
  BY <1>1, PlayersSame, SessionsSame, PostsSame DEF consoleVars, Ids
<1>3. n \in Names \cup {None}
  BY AccountsAssumption
<1>4. ASSUME HasName(n) PROVE IdOf(n) \in Ids
  BY <1>4 DEF HasName, IdOf
<1>5. PICK c \in Call :
         /\ calls' = [calls EXCEPT ![r] = c]
         /\ c.at = "hashing" => c.name \in Names
         /\ c.row # None => c.row.id \in Ids
         /\ c.at # "rehashing"
  <2>1. CASE RegisterStart(r, s, w, src)
    <3> DEFINE c == [at |-> "hashing", name |-> n, secret |-> w, source |-> src, row |-> None]
    <3>1. c \in Call /\ c.name \in Names
      BY <1>3, <2>1 DEF RegisterStart, Call
    <3>2. calls' = [calls EXCEPT ![r] = c]
      BY <2>1 DEF RegisterStart
    <3>3. QED
      BY <3>1, <3>2
  <2>2. CASE LoginStart(r, s, w, src)
    <3> DEFINE row == IF HasName(n) THEN [id |-> IdOf(n), player |-> players[IdOf(n)]] ELSE None
               c == [at |-> "verifying", name |-> n, secret |-> w, source |-> src, row |-> row]
    <3>1. \/ row = None
          \/ row \in [id : 1..MaxPlayers, player : Player] /\ row.id \in Ids
      <4>1. CASE ~HasName(n)
        BY <4>1
      <4>2. CASE HasName(n)
        <5>1. IdOf(n) \in Ids /\ IdOf(n) \in 1..MaxPlayers
          BY <1>4, <4>2, AccountsAssumption DEF IInv, TablesTyped, Ids
        <5>2. players[IdOf(n)] \in Player
          BY <5>1 DEF IInv, TablesTyped, Ids
        <5>3. QED
          BY <4>2, <5>1, <5>2
      <4>3. QED
        BY <4>1, <4>2
    <3> HIDE DEF row
    <3>2. c \in Call
      BY <1>3, <3>1 DEF Call
    <3>3. calls' = [calls EXCEPT ![r] = c]
      BY <2>2 DEF LoginStart, row
    <3>4. QED
      BY <3>1, <3>2, <3>3
  <2>3. QED
    BY <2>1, <2>2
<1>6. CallsTyped'
  BY <1>2, <1>5 DEF IInv, CallsTyped
<1>7. QED
  BY <1>1, <1>2, <1>6, QuietStep DEF consoleVars

\* A call ends and leaves no account changed.
LEMMA RefusalsKeep ==
  ASSUME IInv, UNCHANGED consoleVars, NEW r \in Requests,
         RegisterTaken(r) \/ LoginRefused(r) \/ CallFails(r)
  PROVE  IInv'
<1>1. UNCHANGED <<players, sessions>> /\ calls' = [calls EXCEPT ![r] = Idle]
  BY DEF RegisterTaken, LoginRefused, CallFails
<1>2. SameStanding /\ TablesTyped' /\ PostsTyped' /\ CallsTyped'
  BY <1>1, PlayersSame, SessionsSame, PostsSame, CallEnds DEF consoleVars, Ids
<1>3. QED
  BY <1>1, <1>2, QuietStep DEF consoleVars

LEMMA WeakPasswordKeeps ==
  ASSUME IInv, UNCHANGED consoleVars, NEW r \in Requests, NEW s \in Spellings, NEW src \in Sources,
         LoginWeakPassword(r, s, src)
  PROVE  IInv'
<1>1. UNCHANGED <<players, sessions, calls>>
  BY DEF LoginWeakPassword
<1>2. SameStanding /\ TablesTyped' /\ PostsTyped' /\ CallsTyped'
  BY <1>1, PlayersSame, SessionsSame, PostsSame, CallsSame DEF consoleVars, Ids
<1>3. QED
  BY <1>1, <1>2, QuietStep DEF consoleVars

\* The call that hashes again knows the row it signs in to.
LEMMA RehashKeeps ==
  ASSUME IInv, UNCHANGED consoleVars, NEW r \in Requests, LoginRehash(r)
  PROVE  IInv'
<1>1. UNCHANGED <<players, sessions>>
  BY DEF LoginRehash
<1>2. SameStanding /\ TablesTyped' /\ PostsTyped' /\ Ids' = Ids
  BY <1>1, PlayersSame, SessionsSame, PostsSame DEF consoleVars, Ids
<1>3. CallsTyped'
  <2>1. calls[r] \in Call /\ calls[r].row # None
    BY DEF IInv, CallsTyped, LoginRehash, Admitted, Verified
  <2>2. calls' = [calls EXCEPT ![r] = [calls[r] EXCEPT !.at = "rehashing"]]
    BY DEF LoginRehash
  <2>3. PICK c \in Call : c.at = "rehashing" /\ c.row = calls[r].row /\ calls' = [calls EXCEPT ![r] = c]
    BY <2>1, <2>2 DEF Call
  <2>4. calls[r].row.id \in Ids
    BY <2>1 DEF IInv, CallsTyped, LoginRehash
  <2>5. QED
    BY <1>2, <2>1, <2>3, <2>4 DEF IInv, CallsTyped
<1>4. QED
  BY <1>1, <1>2, <1>3, QuietStep DEF consoleVars

\* me, logout, prune and the passing of time only take sessions away.
LEMMA SessionStepsKeep ==
  ASSUME IInv, UNCHANGED consoleVars, (\E t \in Tokens : Me(t) \/ Logout(t)) \/ Prune \/ Elapse
  PROVE  IInv'
<1>1. UNCHANGED <<players, calls>>
  BY DEF Me, Logout, Prune, Elapse
<1>2. SameStanding /\ PostsTyped' /\ CallsTyped'
  BY <1>1, PlayersSame, PostsSame, CallsSame DEF consoleVars, Ids
<1>3. /\ sessions' \in [Tokens -> Session \cup {None}]
      /\ \A t \in Tokens : sessions'[t] # None =>
             sessions[t] # None /\ sessions'[t].player = sessions[t].player
  <2>1. CASE \E t \in Tokens : Me(t)
    BY <2>1, AfterResolveShrinks DEF Me
  <2>2. CASE \E t \in Tokens : Logout(t)
    BY <2>2 DEF Logout, IInv, TablesTyped
  <2>3. CASE Prune
    BY <2>3 DEF Prune, IInv, TablesTyped
  <2>4. CASE Elapse
    <3>1. ASSUME NEW t \in Tokens, sessions[t] # None, sessions[t].left > 0
          PROVE  /\ [sessions[t] EXCEPT !.left = @ - 1] \in Session
                 /\ [sessions[t] EXCEPT !.left = @ - 1].player = sessions[t].player
      BY <3>1, AccountsAssumption DEF IInv, TablesTyped, Session
    <3>2. QED
      BY <2>4, <3>1 DEF Elapse, IInv, TablesTyped
  <2>5. QED
    BY <2>1, <2>2, <2>3, <2>4
<1>4. TablesTyped'
  BY <1>2, <1>3, SessionsShrink
<1>5. QED
  BY <1>1, <1>2, <1>4, QuietStep DEF consoleVars

\* A login that succeeds: the hash may be new, the account is the same.
LEMMA LoginKeepsStanding ==
  ASSUME IInv, NEW r \in Requests, NEW t \in Tokens, NEW issued \in BOOLEAN,
         LoginSucceeds(r, t, issued)
  PROVE  SameStanding
<1> DEFINE c == calls[r]
<1>a. c \in Call /\ c.row # None /\ c.row.id \in Ids
  BY DEF IInv, CallsTyped, LoginSucceeds, Admitted, Verified
<1>1. CASE UNCHANGED players
  BY <1>1, PlayersSame
<1>2. CASE players' = [players EXCEPT ![c.row.id].secret = c.secret, ![c.row.id].weaker = FALSE]
  <2> DEFINE i == c.row.id
             e == [players[i] EXCEPT !.secret = c.secret, !.weaker = FALSE]
  <2>1. players \in Seq(Player) /\ i \in 1..Len(players)
    BY <1>a DEF IInv, TablesTyped, Ids
  <2>2. players[i] \in Player /\ c.secret \in Secrets
    BY <1>a, <2>1 DEF Call
  <2>3. e \in Player /\ e.name = players[i].name /\ e.role = players[i].role
          /\ e.banned = players[i].banned
    BY <2>2 DEF Player
  <2>4. players' = [players EXCEPT ![i] = e]
    BY <1>2, <2>1
  <2> HIDE DEF e, i
  <2>5. QED
    BY <2>1, <2>3, <2>4, ExceptSeq DEF SameStanding, Ids
<1>3. QED
  BY <1>1, <1>2 DEF LoginSucceeds

LEMMA LoginSucceedsKeeps ==
  ASSUME IInv, UNCHANGED consoleVars, NEW r \in Requests, NEW t \in Tokens, NEW issued \in BOOLEAN,
         LoginSucceeds(r, t, issued)
  PROVE  IInv'
<1> DEFINE c == calls[r]
<1>1. c \in Call /\ c.row # None /\ c.row.id \in Ids
  BY DEF IInv, CallsTyped, LoginSucceeds, Admitted, Verified
<1>2. SameStanding
  BY LoginKeepsStanding
<1>3. Ids' = Ids
  BY <1>2 DEF SameStanding, Ids
<1>4. CallsTyped'
  BY <1>3, CallEnds DEF LoginSucceeds
<1>5. TablesTyped'
  <2>1. CASE ~issued
    BY <1>2, <2>1, SessionsSame DEF LoginSucceeds
  <2>2. CASE issued
    <3>1. sessions' = Issued(sessions, t, c.row.id) /\ c.row.id \in 1..MaxPlayers
      BY <1>1, <2>2, AccountsAssumption DEF LoginSucceeds, IInv, TablesTyped, Ids
    <3>2. /\ sessions' \in [Tokens -> Session \cup {None}]
          /\ \A u \in Tokens : sessions'[u] # None =>
                \/ sessions'[u].player = c.row.id
                \/ sessions[u] # None /\ sessions'[u].player = sessions[u].player
      BY <3>1, IssuedTyped
    <3>3. QED
      BY <1>1, <1>2, <1>3, <3>2 DEF SameStanding, TablesTyped, IInv
  <2>3. QED
    BY <2>1, <2>2
<1>6. QED
  BY <1>2, <1>4, <1>5, PostsSame, StandingKept, SocketsKept DEF IInv, consoleVars

\* A new account takes the next id and a name that nobody has.
LEMMA RegisterInsertKeeps ==
  ASSUME IInv, UNCHANGED consoleVars, NEW r \in Requests, NEW t \in Tokens,
         NEW done \in {"insert", "attempt", "issue"}, RegisterInsert(r, t, done)
  PROVE  IInv'
<1> DEFINE c == calls[r]
           new == Len(players) + 1
<1>1. /\ c \in Call /\ c.name \in Names
      /\ players' = Append(players, Newcomer(c))
      /\ calls' = [calls EXCEPT ![r] = Idle]
      /\ Len(players) < MaxPlayers
  BY DEF IInv, CallsTyped, RegisterInsert
<1>2. Newcomer(c) \in Player
  BY <1>1 DEF Newcomer, Player, Roles, Call
<1>3. /\ Newcomer(c).name = c.name /\ Newcomer(c).role = "player" /\ ~Newcomer(c).banned
  BY DEF Newcomer
<1>4. /\ players' \in Seq(Player) /\ Len(players') = new /\ new \in 1..MaxPlayers
      /\ \A i \in Ids : players'[i] = players[i]
      /\ players'[new] = Newcomer(c)
  BY <1>1, <1>2, AppendProperties, AccountsAssumption DEF IInv, TablesTyped, Ids
<1>5. Ids' = Ids \cup {new} /\ new \notin Ids
  BY <1>4 DEF IInv, TablesTyped, Ids
<1> HIDE DEF new
<1>6. TablesTyped'
  <2>1. CASE done # "issue"
    BY <1>4, <1>5, <2>1, AccountsAssumption DEF RegisterInsert, IInv, TablesTyped
  <2>2. CASE done = "issue"
    <3>1. sessions' = Issued(sessions, t, new)
      BY <2>2 DEF RegisterInsert, new
    <3>2. /\ sessions' \in [Tokens -> Session \cup {None}]
          /\ \A u \in Tokens : sessions'[u] # None =>
                \/ sessions'[u].player = new
                \/ sessions[u] # None /\ sessions'[u].player = sessions[u].player
      BY <1>4, <3>1, IssuedTyped
    <3>3. QED
      BY <1>4, <1>5, <3>2 DEF TablesTyped, IInv
  <2>3. QED
    BY <2>1, <2>2
<1>7. CallsTyped' /\ PostsTyped'
  BY <1>1, <1>5, CallEnds, PostsSame DEF consoleVars
<1>8. SocketsTyped' /\ BannedAreBeingCut'
  BY <1>4, <1>5 DEF consoleVars, IInv, SocketsTyped, BannedAreBeingCut
<1>9. NamesAreUnique'
  <2>1. \A i \in Ids : players[i].name # c.name
    BY DEF RegisterInsert, HasName
  <2>2. QED
    BY <1>3, <1>4, <1>5, <2>1 DEF NamesAreUnique, IInv
<1>10. Operators' = Operators
  BY <1>3, <1>4, <1>5 DEF Operators
<1>11. SomebodyGoverns'
  BY <1>4, <1>10 DEF IInv, SomebodyGoverns, Operators
<1>12. UnusedIdsAreClean'
  BY <1>5 DEF UnusedIdsAreClean, IInv, consoleVars
<1>13. AuditTellsTheState'
  <2>1. audit.roles[new] = "player" /\ new \notin audit.banned
    BY <1>4, <1>5 DEF UnusedIdsAreClean, IInv
  <2>2. QED
    BY <1>3, <1>4, <1>5, <2>1 DEF AuditTellsTheState, IInv, consoleVars
<1>14. QED
  BY <1>6, <1>7, <1>8, <1>9, <1>11, <1>12, <1>13 DEF IInv

LEMMA AccountStepKeeps == IInv /\ AccountStep => IInv'
  BY StartsKeep, RefusalsKeep, WeakPasswordKeeps, RehashKeeps, SessionStepsKeep,
     LoginSucceedsKeeps, RegisterInsertKeeps DEF AccountStep, Mintable, FreeTokens

-----------------------------------------------------------------------------
(* Sockets                                                                 *)

\* Whoever a token signs in as exists and is not banned.
LEMMA ResolveFacts ==
  ASSUME IInv, NEW t \in Tokens, Resolve(t) # None
  PROVE  /\ Resolve(t) \in Ids /\ ~players[Resolve(t)].banned
         /\ Resolve(t) \in SignedIn
  BY DEF Resolve, IInv, TablesTyped, SignedIn

LEMMA SocketStepKeeps == IInv /\ SocketStep => IInv'
<1> SUFFICES ASSUME IInv, NEW s \in Sockets,
                    \/ ConnectGuest(s) \/ Cut(s) \/ Leave(s)
                    \/ \E t \in Tokens : Connect(s, t)
             PROVE  IInv'
  BY DEF SocketStep
<1>1. UNCHANGED <<players, attempts, calls, made, posts, posted, maintenance, notice, audit>>
  BY DEF ConnectGuest, Cut, Leave, Connect, accountVars
<1>2. SameStanding /\ CallsTyped' /\ PostsTyped' /\ Ids' = Ids
  BY <1>1, PlayersSame, CallsSame, PostsSame DEF Ids
<1>3. TablesTyped'
  <2>1. CASE UNCHANGED sessions
    BY <1>2, <2>1, SessionsSame
  <2>2. CASE \E t \in Tokens : Connect(s, t)
    BY <1>2, <2>2, AfterResolveShrinks, SessionsShrink DEF Connect
  <2>3. QED
    BY <2>1, <2>2 DEF ConnectGuest, Cut, Leave, accountVars
<1> DEFINE SocketState == [state : {"off", "open", "kicked"}, account : Nat \cup {None}]
           Fits(next) == next.account # None => next.account \in Ids /\ ~players[next.account].banned
<1>4. PICK next \in SocketState : Fits(next) /\ conn' = [conn EXCEPT ![s] = next]
  <2>1. CASE ConnectGuest(s) \/ Cut(s) \/ Leave(s)
    BY <2>1 DEF ConnectGuest, Cut, Leave, Off
  <2>2. CASE \E t \in Tokens : Connect(s, t)
    <3>1. PICK t \in Tokens : Connect(s, t)
      BY <2>2
    <3> DEFINE next == [state |-> "open", account |-> Resolve(t)]
    <3>2. Resolve(t) # None => Resolve(t) \in Ids /\ ~players[Resolve(t)].banned
      BY ResolveFacts
    <3>3. conn' = [conn EXCEPT ![s] = next]
      BY <3>1, <3>2 DEF Connect
    <3>4. next \in SocketState /\ Fits(next)
      BY <3>2 DEF Ids
    <3>5. QED
      BY <3>3, <3>4
  <2>3. QED
    BY <2>1, <2>2
<1>5. SocketsTyped' /\ BannedAreBeingCut'
  BY <1>1, <1>2, <1>4 DEF SocketsTyped, BannedAreBeingCut, IInv
<1>6. QED
  BY <1>1, <1>2, <1>3, <1>5, StandingKept DEF IInv

-----------------------------------------------------------------------------
(* Console requests                                                        *)

LEMMA PostIs ==
  ASSUME IInv, NEW r \in Posts, posts[r] # Idle
  PROVE  posts[r].bearer \in Tokens
  BY DEF IInv, PostsTyped

LEMMA AnswerKeeps ==
  ASSUME IInv, NEW r \in Posts, Answer(r)
  PROVE  PostsTyped'
  BY DEF IInv, PostsTyped, Answer

\* Who acts is signed in, and a governor is an operator who is.
LEMMA ActorFacts ==
  ASSUME IInv, NEW r \in Posts, NEW a, SignsInAs(r, a), a # None
  PROVE  a \in Ids /\ ~players[a].banned /\ a \in SignedIn
  BY PostIs, ResolveFacts DEF SignsInAs

LEMMA GovernorFacts ==
  ASSUME IInv, NEW r \in Posts, NEW a, Governs(r, a)
  PROVE  a \in Ids /\ ~players[a].banned /\ a \in SignedIn \cap Operators
<1>1. a \in Ids
  BY DEF Governs, Operators
<1>2. a # None
  BY <1>1, NoneApart DEF Ids
<1>3. QED
  BY <1>2, ActorFacts DEF Governs

\* One field of one account changes.
LEMMA AccountChanges ==
  ASSUME IInv, NEW i \in Ids, NEW e \in Player, players' = [players EXCEPT ![i] = e]
  PROVE  /\ players' \in Seq(Player) /\ Len(players') = Len(players) /\ Ids' = Ids
         /\ \A j \in Ids : players'[j] = IF j = i THEN e ELSE players[j]
<1>1. players \in Seq(Player) /\ i \in 1..Len(players)
  BY DEF IInv, TablesTyped, Ids
<1>2. QED
  BY <1>1, ExceptSeq DEF Ids

\* The routes that change neither accounts nor the audit log.
LEMMA QuietPostKeeps ==
  ASSUME IInv, NEW r \in Posts,
         \/ \E t \in Tokens, readable \in BOOLEAN : PostArrives(r, t, readable)
         \/ PostRefused(r)
         \/ \E a \in Ids, s \in Sockets : PostKick(r, a, s)
  PROVE  IInv'
<1>1. UNCHANGED <<players, attempts, calls, made, maintenance, notice, audit>>
  BY DEF PostArrives, PostRefused, PostKick, accountVars
<1>2. SameStanding /\ CallsTyped' /\ Ids' = Ids
  BY <1>1, PlayersSame, CallsSame DEF Ids
<1>3. PostsTyped'
  BY AnswerKeeps DEF PostArrives, PostRefused, PostKick, IInv, PostsTyped
<1>4. TablesTyped'
  <2>1. CASE UNCHANGED sessions
    BY <1>2, <2>1, SessionsSame
  <2>2. CASE PostRefused(r)
    BY <1>2, <2>2, PostIs, AfterResolveShrinks, SessionsShrink DEF PostRefused
  <2>3. QED
    BY <2>1, <2>2 DEF PostArrives, PostKick, accountVars
<1>5. SocketsTyped' /\ BannedAreBeingCut'
  <2>1. CASE UNCHANGED conn
    BY <1>2, <2>1, SocketsKept
  <2>2. CASE \E a \in Ids, s \in Sockets : PostKick(r, a, s)
    BY <1>1, <1>2, <2>2 DEF PostKick, IInv, SocketsTyped, BannedAreBeingCut
  <2>3. QED
    BY <2>1, <2>2 DEF PostArrives, PostRefused
<1>6. QED
  BY <1>1, <1>2, <1>3, <1>4, <1>5, StandingKept DEF IInv

\* The switch and the notice: the audit log says what is done.
LEMMA SwitchesKeep ==
  ASSUME IInv, NEW r \in Posts, NEW a \in Ids,
         \/ \E on \in BOOLEAN : PostMaintenance(r, a, on)
         \/ \E text \in Notices \cup {None} : PostNotice(r, a, text)
  PROVE  IInv'
<1>1. UNCHANGED <<accountVars, conn>> /\ Answer(r)
  BY DEF PostMaintenance, PostNotice
<1>2. SameStanding /\ CallsTyped' /\ Ids' = Ids /\ PostsTyped' /\ TablesTyped'
  BY <1>1, PlayersSame, CallsSame, AnswerKeeps, SessionsSame DEF Ids, accountVars
<1>3. SocketsTyped' /\ BannedAreBeingCut'
  BY <1>1, <1>2, SocketsKept
<1>4. NamesAreUnique' /\ SomebodyGoverns'
  BY <1>1 DEF accountVars, IInv, NamesAreUnique, SomebodyGoverns, Ids, Operators
<1>5. audit' \in Record /\ audit'.roles = audit.roles /\ audit'.banned = audit.banned
      /\ audit'.maintenance = maintenance' /\ audit'.notice = notice'
  BY DEF PostMaintenance, PostNotice, Record, IInv, UnusedIdsAreClean, AuditTellsTheState
<1>6. UnusedIdsAreClean' /\ AuditTellsTheState'
  BY <1>1, <1>2, <1>5 DEF accountVars, UnusedIdsAreClean, AuditTellsTheState, IInv
<1>7. QED
  BY <1>2, <1>3, <1>4, <1>6 DEF IInv

\* A change of one account that is written to the log: what is left to show is
\* that somebody still governs, and that a ban has reached the sockets.
LEMMA RecordedChange ==
  ASSUME IInv, NEW r \in Posts, Answer(r), UNCHANGED <<calls, maintenance, notice>>,
         NEW i \in Ids,
         players' \in Seq(Player), Len(players') = Len(players),
         \A j \in Ids \ {i} : players'[j] = players[j],
         players'[i].name = players[i].name,
         audit' \in Record,
         audit'.maintenance = audit.maintenance, audit'.notice = audit.notice,
         \A j \in (1..MaxPlayers) \ {i} : /\ audit'.roles[j] = audit.roles[j]
                                          /\ j \in audit'.banned <=> j \in audit.banned,
         audit'.roles[i] = players'[i].role, i \in audit'.banned <=> players'[i].banned
  PROVE  /\ CallsTyped' /\ PostsTyped' /\ NamesAreUnique'
         /\ UnusedIdsAreClean' /\ AuditTellsTheState'
<1>1. Ids' = Ids
  BY DEF Ids
<1>2. CallsTyped' /\ PostsTyped'
  BY <1>1, CallsSame, AnswerKeeps
<1>3. NamesAreUnique'
  BY <1>1 DEF NamesAreUnique, IInv
<1>4. Ids \subseteq 1..MaxPlayers
  BY AccountsAssumption DEF IInv, TablesTyped, Ids
<1>5. UnusedIdsAreClean'
  BY <1>1 DEF UnusedIdsAreClean, IInv
<1>6. AuditTellsTheState'
  BY <1>1, <1>4 DEF AuditTellsTheState, IInv
<1>7. QED
  BY <1>2, <1>3, <1>5, <1>6

\* claimFirstOwner
LEMMA SetupKeeps ==
  ASSUME IInv, NEW r \in Posts, NEW a \in Ids, PostSetup(r, a)
  PROVE  IInv'
<1> DEFINE e == [players[a] EXCEPT !.role = "owner"]
<1>1. players[a] \in Player
  BY DEF IInv, TablesTyped, Ids
<1>2. /\ e \in Player /\ e.name = players[a].name /\ e.banned = players[a].banned
      /\ e.role = "owner"
  BY <1>1 DEF Player, Roles
<1>3. players' = [players EXCEPT ![a] = e] /\ Answer(r)
      /\ UNCHANGED <<sessions, attempts, calls, made, conn, maintenance, notice>>
  BY DEF PostSetup
<1>4. a \in 1..MaxPlayers
  BY AccountsAssumption DEF IInv, TablesTyped, Ids
<1>5. /\ audit' \in Record /\ audit'.maintenance = audit.maintenance /\ audit'.notice = audit.notice
      /\ audit'.roles = [audit.roles EXCEPT ![a] = "owner"] /\ audit'.banned = audit.banned
  BY DEF PostSetup, Record, IInv, UnusedIdsAreClean, Roles
<1>6. audit.roles \in [1..MaxPlayers -> Roles] /\ (a \in audit.banned <=> players[a].banned)
  BY DEF IInv, UnusedIdsAreClean, Record, AuditTellsTheState
<1>changed. /\ players' \in Seq(Player) /\ Len(players') = Len(players) /\ Ids' = Ids
            /\ \A j \in Ids : players'[j] = IF j = a THEN e ELSE players[j]
  BY <1>2, <1>3, AccountChanges
<1> HIDE DEF e
<1>logged. /\ \A j \in (1..MaxPlayers) \ {a} : /\ audit'.roles[j] = audit.roles[j]
                                                /\ j \in audit'.banned <=> j \in audit.banned
           /\ audit'.roles[a] = players'[a].role
           /\ a \in audit'.banned <=> players'[a].banned
  BY <1>2, <1>4, <1>5, <1>6, <1>changed
<1>7. CallsTyped' /\ PostsTyped' /\ NamesAreUnique' /\ UnusedIdsAreClean' /\ AuditTellsTheState'
  BY <1>2, <1>3, <1>5, <1>changed, <1>logged, RecordedChange
<1>8. TablesTyped'
  BY <1>3, <1>changed DEF IInv, TablesTyped
<1>9. SocketsTyped' /\ BannedAreBeingCut'
  BY <1>2, <1>3, <1>changed DEF IInv, SocketsTyped, BannedAreBeingCut
<1>10. SomebodyGoverns'
  <2>1. ~players[a].banned
    <3>1. a # None
      BY NoneApart DEF Ids
    <3>2. QED
      BY <3>1, ActorFacts DEF PostSetup
  <2>2. QED
    BY <1>2, <1>changed, <2>1 DEF SomebodyGoverns, Operators
<1>11. QED
  BY <1>7, <1>8, <1>9, <1>10 DEF IInv

\* Whoever bans stays in office, and no socket of the banned account plays on.
LEMMA BanKeeps ==
  ASSUME IInv, NEW r \in Posts, NEW a \in Ids, NEW i \in Ids, PostBan(r, a, i)
  PROVE  IInv'
<1> DEFINE e == [players[i] EXCEPT !.banned = TRUE]
<1>1. players[i] \in Player
  BY DEF IInv, TablesTyped, Ids
<1>2. e \in Player /\ e.name = players[i].name /\ e.banned /\ e.role = players[i].role
  BY <1>1 DEF Player
<1>3. players' = [players EXCEPT ![i] = e] /\ Answer(r)
      /\ UNCHANGED <<attempts, calls, made, maintenance, notice>>
  BY DEF PostBan
<1>4. i \in 1..MaxPlayers
  BY AccountsAssumption DEF IInv, TablesTyped, Ids
<1>5. /\ audit' \in Record /\ audit'.maintenance = audit.maintenance /\ audit'.notice = audit.notice
      /\ audit'.roles = audit.roles /\ audit'.banned = audit.banned \cup {i}
  BY <1>4 DEF PostBan, Record, IInv, UnusedIdsAreClean
<1>6. audit.roles[i] = players[i].role
  BY DEF IInv, AuditTellsTheState
<1>changed. /\ players' \in Seq(Player) /\ Len(players') = Len(players) /\ Ids' = Ids
            /\ \A j \in Ids : players'[j] = IF j = i THEN e ELSE players[j]
  BY <1>2, <1>3, AccountChanges
<1> HIDE DEF e
<1>logged. /\ \A j \in (1..MaxPlayers) \ {i} : /\ audit'.roles[j] = audit.roles[j]
                                                /\ j \in audit'.banned <=> j \in audit.banned
           /\ audit'.roles[i] = players'[i].role
           /\ i \in audit'.banned <=> players'[i].banned
  BY <1>2, <1>4, <1>5, <1>6, <1>changed
<1>7. CallsTyped' /\ PostsTyped' /\ NamesAreUnique' /\ UnusedIdsAreClean' /\ AuditTellsTheState'
  BY <1>2, <1>3, <1>5, <1>changed, <1>logged, RecordedChange
<1>8. TablesTyped'
  BY <1>changed DEF PostBan, IInv, TablesTyped
<1>9. SocketsTyped' /\ BannedAreBeingCut'
  <2>1. conn' = Disconnected(i)
    BY DEF PostBan
  <2>2. \A s \in Sockets :
           /\ conn'[s].account = conn[s].account
           /\ conn'[s].state = IF conn[s].account = i THEN "kicked" ELSE conn[s].state
           /\ conn'[s] \in [state : {"off", "open", "kicked"}, account : Nat \cup {None}]
    BY <2>1 DEF Disconnected, IInv, SocketsTyped
  <2>3. conn' \in [Sockets -> [state : {"off", "open", "kicked"}, account : Nat \cup {None}]]
    BY <2>1, <2>2 DEF Disconnected
  <2>4. QED
    BY <1>2, <1>changed, <2>2, <2>3 DEF IInv, SocketsTyped, BannedAreBeingCut
<1>10. SomebodyGoverns'
  <2>1. a # i /\ a \in Operators /\ ~players[a].banned
    BY GovernorFacts DEF PostBan
  <2>2. QED
    BY <1>changed, <2>1 DEF SomebodyGoverns, Operators
<1>11. QED
  BY <1>7, <1>8, <1>9, <1>10 DEF IInv

LEMMA UnbanKeeps ==
  ASSUME IInv, NEW r \in Posts, NEW a \in Ids, NEW i \in Ids, PostUnban(r, a, i)
  PROVE  IInv'
<1> DEFINE e == [players[i] EXCEPT !.banned = FALSE]
<1>1. players[i] \in Player
  BY DEF IInv, TablesTyped, Ids
<1>2. e \in Player /\ e.name = players[i].name /\ ~e.banned /\ e.role = players[i].role
  BY <1>1 DEF Player
<1>3. players' = [players EXCEPT ![i] = e] /\ Answer(r)
      /\ UNCHANGED <<sessions, attempts, calls, made, conn, maintenance, notice>>
  BY DEF PostUnban
<1>4. i \in 1..MaxPlayers
  BY AccountsAssumption DEF IInv, TablesTyped, Ids
<1>5. /\ audit' \in Record /\ audit'.maintenance = audit.maintenance /\ audit'.notice = audit.notice
      /\ audit'.roles = audit.roles /\ audit'.banned = audit.banned \ {i}
  BY DEF PostUnban, Record, IInv, UnusedIdsAreClean
<1>6. audit.roles[i] = players[i].role
  BY DEF IInv, AuditTellsTheState
<1>changed. /\ players' \in Seq(Player) /\ Len(players') = Len(players) /\ Ids' = Ids
            /\ \A j \in Ids : players'[j] = IF j = i THEN e ELSE players[j]
  BY <1>2, <1>3, AccountChanges
<1> HIDE DEF e
<1>logged. /\ \A j \in (1..MaxPlayers) \ {i} : /\ audit'.roles[j] = audit.roles[j]
                                                /\ j \in audit'.banned <=> j \in audit.banned
           /\ audit'.roles[i] = players'[i].role
           /\ i \in audit'.banned <=> players'[i].banned
  BY <1>2, <1>4, <1>5, <1>6, <1>changed
<1>7. CallsTyped' /\ PostsTyped' /\ NamesAreUnique' /\ UnusedIdsAreClean' /\ AuditTellsTheState'
  BY <1>2, <1>3, <1>5, <1>changed, <1>logged, RecordedChange
<1>8. TablesTyped' /\ SocketsTyped' /\ BannedAreBeingCut'
  BY <1>2, <1>3, <1>changed DEF IInv, TablesTyped, SocketsTyped, BannedAreBeingCut
<1>9. SomebodyGoverns'
  <2>1. a \in Operators /\ ~players[a].banned
    BY GovernorFacts DEF PostUnban
  <2>2. QED
    BY <1>2, <1>changed, <2>1 DEF SomebodyGoverns, Operators
<1>10. QED
  BY <1>7, <1>8, <1>9 DEF IInv

\* Nobody takes the last office: whoever assigns keeps one.
LEMMA RoleKeeps ==
  ASSUME IInv, NEW r \in Posts, NEW a \in Ids, NEW i \in Ids, NEW role \in Roles,
         PostRole(r, a, i, role)
  PROVE  IInv'
<1> DEFINE e == [players[i] EXCEPT !.role = role]
<1>1. players[i] \in Player
  BY DEF IInv, TablesTyped, Ids
<1>2. e \in Player /\ e.name = players[i].name /\ e.banned = players[i].banned /\ e.role = role
  BY <1>1 DEF Player
<1>3. players' = [players EXCEPT ![i] = e] /\ Answer(r)
      /\ UNCHANGED <<sessions, attempts, calls, made, conn, maintenance, notice>>
  BY DEF PostRole
<1>4. i \in 1..MaxPlayers
  BY AccountsAssumption DEF IInv, TablesTyped, Ids
<1>5. /\ audit' \in Record /\ audit'.maintenance = audit.maintenance /\ audit'.notice = audit.notice
      /\ audit'.roles = [audit.roles EXCEPT ![i] = role] /\ audit'.banned = audit.banned
  BY DEF PostRole, Record, IInv, UnusedIdsAreClean
<1>6. audit.roles \in [1..MaxPlayers -> Roles] /\ (i \in audit.banned <=> players[i].banned)
  BY DEF IInv, UnusedIdsAreClean, Record, AuditTellsTheState
<1>changed. /\ players' \in Seq(Player) /\ Len(players') = Len(players) /\ Ids' = Ids
            /\ \A j \in Ids : players'[j] = IF j = i THEN e ELSE players[j]
  BY <1>2, <1>3, AccountChanges
<1> HIDE DEF e
<1>logged. /\ \A j \in (1..MaxPlayers) \ {i} : /\ audit'.roles[j] = audit.roles[j]
                                                /\ j \in audit'.banned <=> j \in audit.banned
           /\ audit'.roles[i] = players'[i].role
           /\ i \in audit'.banned <=> players'[i].banned
  BY <1>2, <1>4, <1>5, <1>6, <1>changed, ZenonT(60)
<1>7. CallsTyped' /\ PostsTyped' /\ NamesAreUnique' /\ UnusedIdsAreClean' /\ AuditTellsTheState'
  BY <1>2, <1>3, <1>5, <1>changed, <1>logged, RecordedChange
<1>8. TablesTyped' /\ SocketsTyped' /\ BannedAreBeingCut'
  BY <1>2, <1>3, <1>changed DEF IInv, TablesTyped, SocketsTyped, BannedAreBeingCut
<1>9. SomebodyGoverns'
  <2>1. a \in Operators /\ ~players[a].banned /\ (i = a => role \in {"admin", "owner"})
    BY GovernorFacts DEF PostRole, MayAssign, Roles
  <2>2. QED
    BY <1>2, <1>changed, <2>1 DEF SomebodyGoverns, Operators
<1>10. QED
  BY <1>7, <1>8, <1>9 DEF IInv

LEMMA PostStepKeeps == IInv /\ PostStep => IInv'
  BY QuietPostKeeps, SwitchesKeep, SetupKeeps, BanKeeps, UnbanKeeps, RoleKeeps DEF PostStep

-----------------------------------------------------------------------------
(* Restart                                                                 *)

\* A new process finds the accounts and the log of the one before it, and nobody
\* connected.
LEMMA RestartKeeps ==
  ASSUME IInv, Restart
  PROVE  IInv'
<1>1. SameStanding /\ Ids' = Ids /\ Operators' = Operators
  BY PlayersSame DEF Restart, Ids, Operators
<1>2. TablesTyped'
  BY <1>1, SessionsSame DEF Restart
<1>3. CallsTyped' /\ PostsTyped'
  BY DEF Restart, CallsTyped, PostsTyped
<1>4. SocketsTyped' /\ BannedAreBeingCut'
  BY DEF Restart, Off, SocketsTyped, BannedAreBeingCut
<1>5. NamesAreUnique' /\ SomebodyGoverns'
  BY <1>1 DEF SameStanding, NamesAreUnique, SomebodyGoverns, IInv, Operators
<1>6. /\ audit' \in Record
      /\ audit'.roles = audit.roles /\ audit'.banned = audit.banned
      /\ audit'.maintenance = FALSE /\ audit'.notice = None
  BY DEF Restart, IInv, UnusedIdsAreClean, Record
<1>7. UnusedIdsAreClean' /\ AuditTellsTheState'
  BY <1>1, <1>6 DEF Restart, SameStanding, IInv, UnusedIdsAreClean, AuditTellsTheState
<1>8. QED
  BY <1>2, <1>3, <1>4, <1>5, <1>7 DEF IInv

-----------------------------------------------------------------------------
(* The invariant                                                           *)

LEMMA InitKeeps == Init => IInv
<1> SUFFICES ASSUME Init PROVE IInv
  OBVIOUS
<1>1. PICK d \in Databases : players = d.players /\ attempts = d.attempts
  BY DEF Init, AccountsInit
<1>2. players \in Seq(Player) /\ Len(players) <= MaxPlayers /\ Ids \subseteq 1..MaxPlayers
  BY <1>1, AccountsAssumption DEF Ids
<1>3. TablesTyped
  <2>1. \A i \in Ids : [player |-> i, left |-> SessionTtl] \in Session
    BY <1>2, AccountsAssumption DEF Session
  <2>2. QED
    BY <1>2, <2>1 DEF Init, AccountsInit, TablesTyped
<1>4. CallsTyped /\ PostsTyped /\ SocketsTyped /\ BannedAreBeingCut
  BY DEF Init, AccountsInit, CallsTyped, PostsTyped, SocketsTyped, BannedAreBeingCut, Off
<1>5. NamesAreUnique /\ SomebodyGoverns
  BY <1>1, DatabasesAssumption DEF NamesAreUnique, SomebodyGoverns, Operators, Ids
<1>6. UnusedIdsAreClean /\ AuditTellsTheState
  <2>1. \A i \in 1..MaxPlayers : RoleAtStart(i) \in Roles
    <3>1. \A i \in Ids : players[i] \in Player
      BY <1>2 DEF Ids
    <3>2. QED
      BY <3>1 DEF RoleAtStart, Roles, Player
  <2>2. audit \in Record
    BY <1>2, <2>1 DEF Init, Record
  <2>3. QED
    BY <1>2, <2>2 DEF Init, UnusedIdsAreClean, AuditTellsTheState, RoleAtStart
<1>7. QED
  BY <1>3, <1>4, <1>5, <1>6 DEF IInv

LEMMA NextKeeps == IInv /\ [Next]_vars => IInv'
<1>1. ASSUME IInv, UNCHANGED vars PROVE IInv'
  <2>1. SameStanding /\ Ids' = Ids
    BY <1>1, PlayersSame DEF vars, accountVars, Ids
  <2>2. TablesTyped' /\ CallsTyped' /\ PostsTyped'
    BY <1>1, <2>1, SessionsSame, CallsSame, PostsSame DEF vars, accountVars, consoleVars
  <2>3. QED
    BY <1>1, <2>2, QuietStep DEF vars, accountVars, consoleVars
<1>2. QED
  BY <1>1, AccountStepKeeps, SocketStepKeeps, PostStepKeeps, RestartKeeps DEF Next

LEMMA InvariantHolds == Spec => []IInv
  BY InitKeeps, NextKeeps, PTL DEF Spec

-----------------------------------------------------------------------------
(* Who changes what an account is                                          *)

\* Nobody's role or ban changes, and no account goes.
NoStandingChanges ==
    /\ Ids \subseteq Ids'
    /\ \A i \in Ids : players'[i].role = players[i].role /\ players'[i].banned = players[i].banned

LEMMA AccountStepsChangeNoStanding == IInv /\ AccountStep => NoStandingChanges
<1>1. ASSUME UNCHANGED players PROVE NoStandingChanges
  BY <1>1 DEF NoStandingChanges, Ids
<1>2. ASSUME IInv, NEW r \in Requests, NEW t \in Tokens, NEW issued \in BOOLEAN,
             LoginSucceeds(r, t, issued)
      PROVE  NoStandingChanges
  BY <1>2, LoginKeepsStanding DEF SameStanding, NoStandingChanges, Ids
<1>3. ASSUME IInv, NEW r \in Requests, NEW t \in Tokens, NEW done, RegisterInsert(r, t, done)
      PROVE  NoStandingChanges
  <2>1. players \in Seq(Player) /\ players' = Append(players, Newcomer(calls[r]))
    BY <1>3 DEF IInv, TablesTyped, RegisterInsert
  <2>2. Newcomer(calls[r]) \in Player
    BY <1>3 DEF IInv, CallsTyped, RegisterInsert, Newcomer, Player, Roles, Call
  <2>3. QED
    BY <2>1, <2>2, AppendProperties DEF NoStandingChanges, Ids
<1>4. QED
  BY <1>1, <1>2, <1>3
     DEF AccountStep, Mintable, FreeTokens, RegisterStart, LoginStart, LoginWeakPassword,
         RegisterTaken, LoginRefused, LoginRehash, CallFails, Me, Logout, Prune, Elapse

LEMMA SocketStepsChangeNoStanding == SocketStep => NoStandingChanges
<1>1. SocketStep => UNCHANGED players
  BY DEF SocketStep, ConnectGuest, Cut, Leave, Connect, accountVars
<1>2. QED
  BY <1>1 DEF NoStandingChanges, Ids

\* Every route but four leaves the accounts alone.
LEMMA PostStepsThatChangeStanding ==
  ASSUME PostStep
  PROVE  \/ NoStandingChanges
         \/ \E r \in Posts, a \in Ids :
               \/ PostSetup(r, a)
               \/ \E i \in Ids : PostBan(r, a, i) \/ PostUnban(r, a, i)
               \/ \E i \in Ids, role \in Roles : PostRole(r, a, i, role)
<1>1. ASSUME UNCHANGED players PROVE NoStandingChanges
  BY <1>1 DEF NoStandingChanges, Ids
<1>2. QED
  BY <1>1 DEF PostStep, PostArrives, PostRefused, PostMaintenance, PostNotice, PostKick, accountVars

LEMMA NoChangeIsAllowed ==
  ASSUME IInv, NoStandingChanges
  PROVE  /\ \A i \in Ids : RankAllows(i)
         /\ Operators \subseteq Operators'
  BY DEF NoStandingChanges, RankAllows, Operators

\* The four routes: what each of them changes, and on whose behalf.
LEMMA SetupByRank ==
  ASSUME IInv, NEW r \in Posts, NEW a \in Ids, PostSetup(r, a)
  PROVE  (\A i \in Ids : RankAllows(i)) /\ Operators' # {}
<1> DEFINE e == [players[a] EXCEPT !.role = "owner"]
<1>1. players[a] \in Player
  BY DEF IInv, TablesTyped, Ids
<1>2. e \in Player /\ e.role = "owner" /\ e.banned = players[a].banned
  BY <1>1 DEF Player, Roles
<1>3. players' = [players EXCEPT ![a] = e] /\ Operators = {} /\ a \in SignedIn
  BY ActorFacts DEF PostSetup
<1>4. Ids' = Ids /\ \A j \in Ids : players'[j] = IF j = a THEN e ELSE players[j]
  BY <1>2, <1>3, AccountChanges
<1> HIDE DEF e
<1>5. QED
  BY <1>2, <1>3, <1>4 DEF RankAllows, Operators

LEMMA BanByRank ==
  ASSUME IInv, NEW r \in Posts, NEW a \in Ids, NEW i \in Ids, PostBan(r, a, i)
  PROVE  (\A j \in Ids : RankAllows(j)) /\ Operators \subseteq Operators'
<1> DEFINE e == [players[i] EXCEPT !.banned = TRUE]
<1>1. players[i] \in Player
  BY DEF IInv, TablesTyped, Ids
<1>2. e \in Player /\ e.role = players[i].role
  BY <1>1 DEF Player
<1>3. /\ players' = [players EXCEPT ![i] = e] /\ a # i
      /\ i \in Operators => players[a].role = "owner"
      /\ a \in SignedIn \cap Operators
  BY GovernorFacts DEF PostBan, Operators
<1>4. Ids' = Ids /\ \A j \in Ids : players'[j] = IF j = i THEN e ELSE players[j]
  BY <1>2, <1>3, AccountChanges
<1> HIDE DEF e
<1>5. QED
  BY <1>2, <1>3, <1>4 DEF RankAllows, Operators

LEMMA UnbanByRank ==
  ASSUME IInv, NEW r \in Posts, NEW a \in Ids, NEW i \in Ids, PostUnban(r, a, i)
  PROVE  (\A j \in Ids : RankAllows(j)) /\ Operators \subseteq Operators'
<1> DEFINE e == [players[i] EXCEPT !.banned = FALSE]
<1>1. players[i] \in Player
  BY DEF IInv, TablesTyped, Ids
<1>2. e \in Player /\ e.role = players[i].role /\ ~e.banned
  BY <1>1 DEF Player
<1>3. players' = [players EXCEPT ![i] = e] /\ a \in SignedIn \cap Operators
  BY GovernorFacts DEF PostUnban
<1>4. Ids' = Ids /\ \A j \in Ids : players'[j] = IF j = i THEN e ELSE players[j]
  BY <1>2, <1>3, AccountChanges
<1> HIDE DEF e
<1>5. QED
  BY <1>2, <1>3, <1>4 DEF RankAllows, Operators

\* Whoever assigns a role stays an operator.
LEMMA RoleByRank ==
  ASSUME IInv, NEW r \in Posts, NEW a \in Ids, NEW i \in Ids, NEW role \in Roles,
         PostRole(r, a, i, role)
  PROVE  (\A j \in Ids : RankAllows(j)) /\ Operators' # {}
<1> DEFINE e == [players[i] EXCEPT !.role = role]
<1>1. players[i] \in Player
  BY DEF IInv, TablesTyped, Ids
<1>2. e \in Player /\ e.role = role /\ e.banned = players[i].banned
  BY <1>1 DEF Player
<1>3. /\ players' = [players EXCEPT ![i] = e] /\ a \in SignedIn \cap Operators
      /\ MayAssign(a, i, role)
  BY GovernorFacts DEF PostRole
<1>4. Ids' = Ids /\ \A j \in Ids : players'[j] = IF j = i THEN e ELSE players[j]
  BY <1>2, <1>3, AccountChanges
<1> HIDE DEF e
<1>5. \A j \in Ids : RankAllows(j)
  BY <1>2, <1>3, <1>4 DEF RankAllows, MayAssign
<1>6. a \in Operators'
  BY <1>2, <1>3, <1>4 DEF Operators, MayAssign, Roles
<1>7. QED
  BY <1>5, <1>6

LEMMA StepsByRank ==
  ASSUME IInv, [Next]_vars
  PROVE  (\A i \in Ids : RankAllows(i)) /\ (Operators # {} => Operators' # {})
<1>1. CASE NoStandingChanges
  BY <1>1, NoChangeIsAllowed
<1>2. CASE \E r \in Posts, a \in Ids :
              \/ PostSetup(r, a)
              \/ \E i \in Ids : PostBan(r, a, i) \/ PostUnban(r, a, i)
              \/ \E i \in Ids, role \in Roles : PostRole(r, a, i, role)
  BY <1>2, SetupByRank, BanByRank, UnbanByRank, RoleByRank
<1>3. CASE UNCHANGED vars \/ Restart
  BY <1>1, <1>3 DEF NoStandingChanges, Ids, vars, accountVars, Restart
<1>4. QED
  BY <1>1, <1>2, <1>3, AccountStepsChangeNoStanding, SocketStepsChangeNoStanding,
     PostStepsThatChangeStanding DEF Next

-----------------------------------------------------------------------------
(* Sums over finite sets                                                   *)

\* Induction over the subsets of a finite set, on a set of sets rather than a
\* predicate: what holds of a set if it holds of all smaller ones holds of all.
LEMMA SubsetInduction ==
  ASSUME NEW S, IsFiniteSet(S), NEW Q,
         \A T \in SUBSET S : (\A U \in SUBSET T : U # T => U \in Q) => T \in Q
  PROVE  \A T \in SUBSET S : T \in Q
<1> DEFINE R == StrictSubsetOrdering(S)
           F == FiniteSubsetsOf(S)
           B == {T \in F : T \notin Q}
<1>1. F = SUBSET S
  BY FS_FiniteSubsetsOfFinite
<1>2. IsWellFoundedOn(R, F)
  BY FS_StrictSubsetOrderingWellFounded
<1>3. ASSUME B # {} PROVE FALSE
  <2>1. B \subseteq F
    OBVIOUS
  <2> HIDE DEF B, R, F
  <2>2. PICK T \in B : \A U \in B : ~(<<U, T>> \in R)
    BY <1>2, <1>3, <2>1, WFMin
  <2>3. ASSUME NEW U \in SUBSET T, U # T PROVE U \in Q
    <3>1. T \in SUBSET S /\ U \in SUBSET S
      BY <1>1, <2>2 DEF B
    <3>2. <<U, T>> \in R
      BY <2>3, <3>1 DEF R, StrictSubsetOrdering
    <3>3. U \notin B
      BY <2>2, <3>2
    <3>4. QED
      BY <1>1, <3>1, <3>3 DEF B
  <2>4. QED
    BY <1>1, <2>2, <2>3 DEF B
<1>4. QED
  BY <1>1, <1>3

Chosen(T) == CHOOSE x \in T : TRUE

\* The recursion by which a sum is computed.
Sums(g, f, S) ==
    g = [T \in SUBSET S |-> IF T = {} THEN 0 ELSE f[Chosen(T)] + g[T \ {Chosen(T)}]]

LEMMA SumIsChosen ==
  ASSUME NEW f, NEW S
  PROVE  SumFunctionOnSet(f, S) = (CHOOSE g : Sums(g, f, S))[S]
  BY DEF SumFunctionOnSet, FoldFunctionOnSet, MapThenFoldSet, Sums, Chosen

\* A sum is what is chosen and the sum of the rest: the recursion has exactly one
\* solution on each finite set.
LEMMA SumStep ==
  ASSUME NEW f, NEW S, IsFiniteSet(S)
  PROVE  SumFunctionOnSet(f, S)
           = IF S = {} THEN 0
             ELSE f[Chosen(S)] + SumFunctionOnSet(f, S \ {Chosen(S)})
<1> DEFINE Sum(T) == SumFunctionOnSet(f, T)
           h(T) == [U \in SUBSET T |-> Sum(U)]
           Q == {T \in SUBSET S : \A g : Sums(g, f, T) <=> g = h(T)}
<1>1. ASSUME NEW T \in SUBSET S, \A U \in SUBSET T : U # T => U \in Q
      PROVE  T \in Q
  <2> DEFINE c == Chosen(T)
             top == IF T = {} THEN 0 ELSE f[c] + Sum(T \ {c})
             k == [U \in SUBSET T |-> IF U = T THEN top ELSE Sum(U)]
  <2>1. ASSUME NEW U \in SUBSET T, U # T
        PROVE  Sum(U) = IF U = {} THEN 0 ELSE f[Chosen(U)] + Sum(U \ {Chosen(U)})
    <3>1. Sums(h(U), f, U)
      BY <1>1, <2>1
    <3>2. h(U)[U] = IF U = {} THEN 0 ELSE f[Chosen(U)] + h(U)[U \ {Chosen(U)}]
      BY <3>1 DEF Sums
    <3> HIDE DEF Sum
    <3>3. h(U)[U] = Sum(U) /\ h(U)[U \ {Chosen(U)}] = Sum(U \ {Chosen(U)})
      OBVIOUS
    <3>4. QED
      BY <3>2, <3>3
  <2> HIDE DEF Sum
  <2>2. ASSUME NEW U \in SUBSET T, U # {}
        PROVE  U \ {Chosen(U)} \in SUBSET T /\ U \ {Chosen(U)} # T
    BY <2>2 DEF Chosen
  <2>3. Sums(k, f, T)
    <3>1. ASSUME NEW U \in SUBSET T
          PROVE  k[U] = IF U = {} THEN 0 ELSE f[Chosen(U)] + k[U \ {Chosen(U)}]
      BY <2>1, <2>2
    <3> HIDE DEF k
    <3>2. k = [U \in SUBSET T |-> k[U]]
      BY DEF k
    <3>3. QED
      BY <3>1, <3>2 DEF Sums
  <2>4. ASSUME NEW g, Sums(g, f, T) PROVE g = k
    <3>1. \A U \in SUBSET T : g[U] = IF U = {} THEN 0 ELSE f[Chosen(U)] + g[U \ {Chosen(U)}]
      BY <2>4 DEF Sums
    <3>2. ASSUME NEW U \in SUBSET T, U # T PROVE g[U] = Sum(U)
      <4> DEFINE r == [V \in SUBSET U |-> g[V]]
      <4>1. Sums(r, f, U)
        <5>1. ASSUME NEW V \in SUBSET U
              PROVE  r[V] = IF V = {} THEN 0 ELSE f[Chosen(V)] + r[V \ {Chosen(V)}]
          BY <3>1
        <5>2. r = [V \in SUBSET U |-> r[V]]
          OBVIOUS
        <5> HIDE DEF r
        <5>3. QED
          BY <5>1, <5>2 DEF Sums
      <4>2. r = h(U)
        BY <1>1, <3>2, <4>1
      <4>3. r[U] = g[U] /\ h(U)[U] = Sum(U)
        OBVIOUS
      <4>4. QED
        BY <4>2, <4>3
    <3>3. g[T] = top
      BY <2>2, <3>1, <3>2
    <3>4. g = [U \in SUBSET T |-> g[U]]
      BY <2>4 DEF Sums
    <3>5. \A U \in SUBSET T : g[U] = k[U]
      BY <3>2, <3>3
    <3>6. QED
      BY <3>4, <3>5
  <2>5. (CHOOSE g : Sums(g, f, T)) = k
    BY <2>3, <2>4
  <2>6. Sum(T) = k[T]
    BY <2>5, SumIsChosen DEF Sum
  <2>7. k = h(T)
    <3>1. \A U \in SUBSET T : k[U] = Sum(U)
      BY <2>6
    <3>2. QED
      BY <3>1
  <2>8. QED
    BY <2>3, <2>4, <2>7
<1> HIDE DEF Q
<1>2. S \in Q
  BY <1>1, SubsetInduction
<1>3. Sums(h(S), f, S)
  BY <1>2 DEF Q
<1> HIDE DEF Sum
<1>4. h(S)[S] = Sum(S) /\ (S # {} => h(S)[S \ {Chosen(S)}] = Sum(S \ {Chosen(S)}))
  OBVIOUS
<1>5. h(S)[S] = IF S = {} THEN 0 ELSE f[Chosen(S)] + h(S)[S \ {Chosen(S)}]
  BY <1>3 DEF Sums
<1>6. Sum(S) = IF S = {} THEN 0 ELSE f[Chosen(S)] + Sum(S \ {Chosen(S)})
  BY <1>4, <1>5
<1>7. QED
  BY <1>6 DEF Sum

LEMMA SumOfNone == ASSUME NEW f PROVE SumFunctionOnSet(f, {}) = 0
  BY SumStep, FS_EmptySet

LEMMA SumInNat ==
  ASSUME NEW f, NEW S, IsFiniteSet(S), \A x \in S : f[x] \in Nat
  PROVE  SumFunctionOnSet(f, S) \in Nat
<1> DEFINE Q == {T \in SUBSET S : SumFunctionOnSet(f, T) \in Nat}
<1>1. ASSUME NEW T \in SUBSET S, \A U \in SUBSET T : U # T => U \in Q
      PROVE  T \in Q
  <2>1. CASE T = {}
    BY <2>1, SumOfNone
  <2>2. CASE T # {}
    <3>1. Chosen(T) \in T
      BY <2>2 DEF Chosen
    <3>2. IsFiniteSet(T)
      BY FS_Subset
    <3>3. SumFunctionOnSet(f, T \ {Chosen(T)}) \in Nat /\ f[Chosen(T)] \in Nat
      BY <1>1, <3>1
    <3>4. SumFunctionOnSet(f, T) = f[Chosen(T)] + SumFunctionOnSet(f, T \ {Chosen(T)})
      BY <2>2, <3>2, SumStep
    <3>5. QED
      BY <3>3, <3>4
  <2>3. QED
    BY <2>1, <2>2
<1> HIDE DEF Q
<1>2. S \in Q
  BY <1>1, SubsetInduction
<1>3. QED
  BY <1>2 DEF Q

\* The order of a sum does not matter: any element can be the first.
LEMMA SumRemove ==
  ASSUME NEW f, NEW S, IsFiniteSet(S), \A x \in S : f[x] \in Nat
  PROVE  \A x \in S : SumFunctionOnSet(f, S) = f[x] + SumFunctionOnSet(f, S \ {x})
<1> DEFINE Sum(T) == SumFunctionOnSet(f, T)
           Q == {T \in SUBSET S : \A x \in T : Sum(T) = f[x] + Sum(T \ {x})}
<1>1. ASSUME NEW T \in SUBSET S, \A U \in SUBSET T : U # T => U \in Q
      PROVE  T \in Q
  <2>1. SUFFICES ASSUME NEW x \in T PROVE Sum(T) = f[x] + Sum(T \ {x})
    OBVIOUS
  <2> DEFINE c == Chosen(T)
  <2>2. c \in T
    BY DEF Chosen
  <2>3. IsFiniteSet(T)
    BY FS_Subset
  <2>4. Sum(T) = f[c] + Sum(T \ {c})
    BY <2>3, SumStep
  <2>5. CASE x = c
    BY <2>4, <2>5
  <2>6. CASE x # c
    <3>1. T \ {c} \in Q /\ T \ {x} \in Q
      BY <1>1, <2>2
    <3> HIDE DEF c, Sum
    <3>2. Sum(T \ {c}) = f[x] + Sum((T \ {c}) \ {x})
      BY <2>6, <3>1
    <3>3. Sum(T \ {x}) = f[c] + Sum((T \ {x}) \ {c})
      BY <2>2, <2>6, <3>1
    <3>4. (T \ {c}) \ {x} = (T \ {x}) \ {c}
      OBVIOUS
    <3>5. f[c] \in Nat /\ f[x] \in Nat
      BY <2>2
    <3>6. Sum((T \ {c}) \ {x}) \in Nat
      <4>1. IsFiniteSet((T \ {c}) \ {x}) /\ (T \ {c}) \ {x} \subseteq S
        BY <2>3, FS_Subset
      <4>2. QED
        BY <4>1, SumInNat DEF Sum
    <3>7. \A i, j, k \in Nat : i + (j + k) = j + (i + k)
      OBVIOUS
    <3>8. f[c] + (f[x] + Sum((T \ {c}) \ {x})) = f[x] + (f[c] + Sum((T \ {c}) \ {x}))
      BY <3>5, <3>6, <3>7
    <3>9. QED
      BY <2>4, <3>2, <3>3, <3>4, <3>8
  <2>7. QED
    BY <2>5, <2>6
<1>2. \A T \in SUBSET S : T \in Q
  <2> HIDE DEF Q
  <2>1. QED
    BY <1>1, SubsetInduction
<1>3. S \in Q
  BY <1>2
<1>4. QED
  BY <1>3

LEMMA SumSame ==
  ASSUME NEW f, NEW g, NEW S, IsFiniteSet(S), \A x \in S : f[x] = g[x]
  PROVE  SumFunctionOnSet(f, S) = SumFunctionOnSet(g, S)
<1> DEFINE Q == {T \in SUBSET S : SumFunctionOnSet(f, T) = SumFunctionOnSet(g, T)}
<1>1. ASSUME NEW T \in SUBSET S, \A U \in SUBSET T : U # T => U \in Q
      PROVE  T \in Q
  <2>1. CASE T = {}
    BY <2>1, SumOfNone
  <2>2. CASE T # {}
    <3>1. Chosen(T) \in T /\ IsFiniteSet(T)
      BY <2>2, FS_Subset DEF Chosen
    <3>2. SumFunctionOnSet(f, T \ {Chosen(T)}) = SumFunctionOnSet(g, T \ {Chosen(T)})
      BY <1>1, <3>1
    <3>3. /\ SumFunctionOnSet(f, T) = f[Chosen(T)] + SumFunctionOnSet(f, T \ {Chosen(T)})
          /\ SumFunctionOnSet(g, T) = g[Chosen(T)] + SumFunctionOnSet(g, T \ {Chosen(T)})
      BY <2>2, <3>1, SumStep
    <3>4. QED
      BY <3>1, <3>2, <3>3
  <2>3. QED
    BY <2>1, <2>2
<1> HIDE DEF Q
<1>2. S \in Q
  BY <1>1, SubsetInduction
<1>3. QED
  BY <1>2 DEF Q

\* Two sets with nothing in common.
LEMMA SumOfUnion ==
  ASSUME NEW f, NEW S, NEW A, IsFiniteSet(A), IsFiniteSet(S), S \cap A = {},
         \A x \in A \cup S : f[x] \in Nat
  PROVE  SumFunctionOnSet(f, A \cup S) = SumFunctionOnSet(f, A) + SumFunctionOnSet(f, S)
<1> DEFINE Sum(T) == SumFunctionOnSet(f, T)
           Q == {T \in SUBSET S : Sum(A \cup T) = Sum(A) + Sum(T)}
<1>1. ASSUME NEW T \in SUBSET S, \A U \in SUBSET T : U # T => U \in Q
      PROVE  T \in Q
  <2>1. CASE T = {}
    <3>1. A \cup T = A /\ Sum(T) = 0 /\ Sum(A) \in Nat
      BY <2>1, SumOfNone, SumInNat
    <3>2. QED
      BY <3>1
  <2>2. CASE T # {}
    <3>1. PICK x \in T : TRUE
      BY <2>2
    <3>2. IsFiniteSet(T) /\ IsFiniteSet(T \ {x}) /\ IsFiniteSet(A \cup T)
      BY FS_Subset, FS_Union
    <3>3. (A \cup T) \ {x} = A \cup (T \ {x})
      BY <3>1
    <3>4. Sum(A \cup (T \ {x})) = Sum(A) + Sum(T \ {x})
      BY <1>1, <3>1
    <3>5. Sum(A \cup T) = f[x] + Sum((A \cup T) \ {x})
      BY <3>1, <3>2, SumRemove
    <3>6. Sum(T) = f[x] + Sum(T \ {x})
      BY <3>1, <3>2, SumRemove
    <3>7. Sum(A) \in Nat /\ Sum(T \ {x}) \in Nat /\ f[x] \in Nat
      BY <3>1, <3>2, SumInNat
    <3> HIDE DEF Sum
    <3>8. QED
      BY <3>3, <3>4, <3>5, <3>6, <3>7
  <2>3. QED
    BY <2>1, <2>2
<1> HIDE DEF Q
<1>2. S \in Q
  BY <1>1, SubsetInduction
<1>3. QED
  BY <1>2 DEF Q

LEMMA SumOfSubset ==
  ASSUME NEW f, NEW S, NEW T \in SUBSET S, IsFiniteSet(S), \A x \in S : f[x] \in Nat
  PROVE  SumFunctionOnSet(f, T) <= SumFunctionOnSet(f, S)
<1>1. IsFiniteSet(T) /\ IsFiniteSet(S \ T) /\ S = T \cup (S \ T) /\ (S \ T) \cap T = {}
  BY FS_Subset
<1>2. SumFunctionOnSet(f, S) = SumFunctionOnSet(f, T) + SumFunctionOnSet(f, S \ T)
  BY <1>1, SumOfUnion
<1>3. SumFunctionOnSet(f, T) \in Nat /\ SumFunctionOnSet(f, S \ T) \in Nat
  BY <1>1, SumInNat
<1>4. QED
  BY <1>2, <1>3

\* Rows that are grouped: the sum of the groups' sums is the sum of the rows.
LEMMA SumOfGroups ==
  ASSUME NEW f, NEW D, IsFiniteSet(D), \A b \in D : f[b] \in Nat,
         NEW h, NEW g, NEW R, IsFiniteSet(R),
         NEW Group, \A a \in R : Group[a] = {b \in D : h[b] = a},
         \A a \in R : g[a] = SumFunctionOnSet(f, Group[a]),
         NEW W, W = {b \in D : h[b] \in R}
  PROVE  SumFunctionOnSet(g, R) = SumFunctionOnSet(f, W)
<1> DEFINE Into(T) == {b \in D : h[b] \in T}
           Q == {T \in SUBSET R : SumFunctionOnSet(g, T) = SumFunctionOnSet(f, Into(T))}
<1>1. ASSUME NEW T \in SUBSET R, \A U \in SUBSET T : U # T => U \in Q
      PROVE  T \in Q
  <2>1. CASE T = {}
    <3>1. Into(T) = {}
      BY <2>1
    <3>2. QED
      BY <2>1, <3>1, SumOfNone
  <2>2. CASE T # {}
    <3> DEFINE c == Chosen(T)
               G == Group[c]
    <3>1. c \in T /\ IsFiniteSet(T)
      BY <2>2, FS_Subset DEF Chosen
    <3>2. SumFunctionOnSet(g, T \ {c}) = SumFunctionOnSet(f, Into(T \ {c}))
      BY <1>1, <3>1
    <3>3. SumFunctionOnSet(g, T) = g[c] + SumFunctionOnSet(g, T \ {c})
      BY <2>2, <3>1, SumStep
    <3>4. g[c] = SumFunctionOnSet(f, G) /\ G = {b \in D : h[b] = c}
      BY <3>1
    <3> HIDE DEF c
    <3> DEFINE all == Into(T)
               rest == Into(T \ {c})
    <3>5. all = G \cup rest /\ rest \cap G = {}
      BY <3>1, <3>4
    <3>6. IsFiniteSet(G) /\ IsFiniteSet(rest)
      BY <3>4, FS_Subset
    <3>7. \A b \in G \cup rest : f[b] \in Nat
      BY <3>4
    <3> HIDE DEF G, all, rest
    <3>8. SumFunctionOnSet(f, G \cup rest) = SumFunctionOnSet(f, G) + SumFunctionOnSet(f, rest)
      BY <3>5, <3>6, <3>7, SumOfUnion
    <3>9. SumFunctionOnSet(g, T) = SumFunctionOnSet(f, all)
      BY <3>2, <3>3, <3>4, <3>5, <3>8 DEF rest
    <3>10. QED
      BY <3>9 DEF all
  <2>3. QED
    BY <2>1, <2>2
<1> HIDE DEF Q
<1>2. R \in Q
  BY <1>1, SubsetInduction
<1>3. QED
  BY <1>2 DEF Q

-----------------------------------------------------------------------------
(* Limits: what the table counts and the calls that will add to it.        *)

\* The limits on an account, on failures from an address and on registrations
\* from an address.
Limits == ({"user"} \X Names) \cup ({"source", "newcomers"} \X Sources)

LimitOf(k) == CASE k[1] = "user"      -> MaxFailuresPerUser
                [] k[1] = "source"    -> MaxFailuresPerSource
                [] k[1] = "newcomers" -> MaxRegistrations

\* A row of login_attempts counts for limit k.
Counts(k, a) ==
    \/ k[1] = "user" /\ a.name = k[2] /\ a.what = "failed" /\ a.age < LoginWindow
    \/ k[1] = "source" /\ a.source = k[2] /\ a.what = "failed" /\ a.age < LoginWindow
    \/ k[1] = "newcomers" /\ a.source = k[2] /\ a.what = "registered" /\ a.age < RegisterWindow

\* A call has passed limit k and may still add a row that counts for it.
Works(k, c) ==
    /\ c # Idle
    /\ \/ k[1] = "user" /\ c.at = "verifying" /\ c.name = k[2]
       \/ k[1] = "source" /\ c.at = "verifying" /\ c.source = k[2]
       \/ k[1] = "newcomers" /\ c.at = "hashing" /\ c.source = k[2]

Counted(k, table) == SumFunctionOnSet(table, {a \in DOMAIN table : Counts(k, a)})
AtWork(k) == {r \in Requests : Works(k, calls[r])}

IsTable(t) ==
    /\ DOMAIN t \subseteq Attempt /\ IsFiniteSet(DOMAIN t)
    /\ \A a \in DOMAIN t : t[a] \in Nat

Within(k) == Counted(k, attempts) + Cardinality(AtWork(k)) <= LimitOf(k) - 1 + Cardinality(Requests)

\* Calls that have passed a limit and rows that count for it are together no more
\* than the limit and the calls that can overrun it.
WithinLimits == IsTable(attempts) /\ \A k \in Limits : Within(k)

LEMMA LimitsAreNumbers == \A k \in Limits : LimitOf(k) \in Nat
  BY AccountsAssumption DEF Limits, LimitOf

LEMMA CountedInNat ==
  ASSUME NEW t, IsTable(t), NEW k
  PROVE  Counted(k, t) \in Nat
<1>1. IsFiniteSet({a \in DOMAIN t : Counts(k, a)})
  BY FS_Subset DEF IsTable
<1>2. QED
  BY <1>1, SumInNat DEF Counted, IsTable

LEMMA RequestsAtWork ==
  ASSUME NEW S \in SUBSET Requests
  PROVE  /\ IsFiniteSet(S) /\ Cardinality(S) \in Nat /\ Cardinality(Requests) \in Nat
         /\ Cardinality(S) <= Cardinality(Requests)
         /\ \A r \in Requests \ S : Cardinality(S) <= Cardinality(Requests) - 1
         /\ \A r \in S : Cardinality(S \ {r}) = Cardinality(S) - 1
<1>1. IsFiniteSet(Requests)
  BY AttemptsAssumption
<1>2. IsFiniteSet(S) /\ Cardinality(S) <= Cardinality(Requests)
  BY <1>1, FS_Subset
<1>3. Cardinality(S) \in Nat /\ Cardinality(Requests) \in Nat
  BY <1>1, <1>2, FS_CardinalityType
<1>4. ASSUME NEW r \in Requests \ S PROVE Cardinality(S) <= Cardinality(Requests) - 1
  <2>1. S \in SUBSET (Requests \ {r}) /\ IsFiniteSet(Requests \ {r})
    BY <1>1, FS_RemoveElement
  <2>2. Cardinality(S) <= Cardinality(Requests \ {r})
    BY <2>1, FS_Subset
  <2>3. Cardinality(Requests \ {r}) = Cardinality(Requests) - 1
    BY <1>1, FS_RemoveElement
  <2>4. QED
    BY <2>2, <2>3
<1>5. \A r \in S : Cardinality(S \ {r}) = Cardinality(S) - 1
  BY <1>2, FS_RemoveElement
<1>6. QED
  BY <1>2, <1>3, <1>4, <1>5

\* What the three counts of the code are.
LEMMA CountsOfTheCode ==
  /\ \A n \in Names : FailuresOf(n) = Counted(<<"user", n>>, attempts)
  /\ \A src \in Sources : /\ FailuresFrom(src) = Counted(<<"source", src>>, attempts)
                          /\ RegistrationsFrom(src) = Counted(<<"newcomers", src>>, attempts)
<1> DEFINE D == DOMAIN attempts
<1>1. ASSUME NEW n \in Names PROVE FailuresOf(n) = Counted(<<"user", n>>, attempts)
  <2>1. {a \in RowsOf(n) : a.what = "failed" /\ a.age < LoginWindow}
           = {a \in D : Counts(<<"user", n>>, a)}
    BY DEF RowsOf, Counts
  <2>2. QED
    BY <2>1 DEF FailuresOf, CountAttempts, Counted
<1>2. ASSUME NEW src \in Sources PROVE FailuresFrom(src) = Counted(<<"source", src>>, attempts)
  <2>1. {a \in RowsFrom(src) : a.what = "failed" /\ a.age < LoginWindow}
           = {a \in D : Counts(<<"source", src>>, a)}
    BY DEF RowsFrom, Counts
  <2>2. QED
    BY <2>1 DEF FailuresFrom, CountAttempts, Counted
<1>3. ASSUME NEW src \in Sources
      PROVE  RegistrationsFrom(src) = Counted(<<"newcomers", src>>, attempts)
  <2>1. {a \in RowsFrom(src) : a.what = "registered" /\ a.age < RegisterWindow}
           = {a \in D : Counts(<<"newcomers", src>>, a)}
    BY DEF RowsFrom, Counts
  <2>2. QED
    BY <2>1 DEF RegistrationsFrom, CountAttempts, Counted
<1>4. QED
  BY <1>1, <1>2, <1>3

\* One more row.
LEMMA OneMoreRow ==
  ASSUME NEW t, IsTable(t), NEW n \in Names \cup {None}, NEW src \in Sources,
         NEW what \in {"failed", "registered"}
  PROVE  LET u == WithAttempt(t, n, src, what)
             row == [name |-> n, source |-> src, what |-> what, age |-> 0]
         IN  /\ IsTable(u)
             /\ \A k \in Limits :
                    Counted(k, u) = Counted(k, t) + IF Counts(k, row) THEN 1 ELSE 0
<1> DEFINE u == WithAttempt(t, n, src, what)
           row == [name |-> n, source |-> src, what |-> what, age |-> 0]
<1>1. row \in Attempt
  BY AccountsAssumption DEF Attempt, LongestWindow
<1> HIDE DEF row
<1>2. /\ DOMAIN u = DOMAIN t \cup {row}
      /\ \A a \in DOMAIN t : a # row => u[a] = t[a]
      /\ u[row] = (IF row \in DOMAIN t THEN t[row] ELSE 0) + 1
  <2>1. u = [a \in DOMAIN t \cup {row} |->
               (IF a \in DOMAIN t THEN t[a] ELSE 0) + (IF a = row THEN 1 ELSE 0)]
    BY DEF WithAttempt, row
  <2>2. \A a \in DOMAIN t : t[a] \in Nat
    BY DEF IsTable
  <2> HIDE DEF u
  <2>3. QED
    BY <2>1, <2>2
<1> HIDE DEF u
<1>3. IsFiniteSet(DOMAIN t) /\ IsFiniteSet(DOMAIN u)
  BY <1>2, FS_AddElement DEF IsTable
<1>4. IsTable(u)
  BY <1>1, <1>2, <1>3 DEF IsTable
<1>5. ASSUME NEW k \in Limits
      PROVE  Counted(k, u) = Counted(k, t) + IF Counts(k, row) THEN 1 ELSE 0
  <2> DEFINE R == {a \in DOMAIN t : Counts(k, a)}
             V == {a \in DOMAIN u : Counts(k, a)}
             rest == R \ {row}
  <2>1. /\ IsFiniteSet(R) /\ IsFiniteSet(V) /\ IsFiniteSet(rest)
        /\ \A a \in R : t[a] \in Nat
        /\ \A a \in V : u[a] \in Nat
    BY <1>3, <1>4, FS_Subset DEF IsTable
  <2>2. V \ {row} = rest
    BY <1>2
  <2>3. SumFunctionOnSet(u, rest) = SumFunctionOnSet(t, rest)
    BY <1>2, <2>1, SumSame
  <2>4. SumFunctionOnSet(t, rest) \in Nat
    BY <2>1, SumInNat
  <2>5. CASE ~Counts(k, row)
    <3>1. R = rest /\ V = rest
      BY <1>2, <2>5
    <3>2. QED
      BY <2>3, <2>4, <2>5, <3>1 DEF Counted
  <2>6. CASE Counts(k, row)
    <3>1. row \in V
      BY <1>2, <2>6
    <3>2. SumFunctionOnSet(u, V) = u[row] + SumFunctionOnSet(t, rest)
      BY <2>1, <2>2, <2>3, <3>1, SumRemove
    <3>3. CASE row \in DOMAIN t
      <4>1. SumFunctionOnSet(t, R) = t[row] + SumFunctionOnSet(t, rest)
        BY <2>1, <2>6, <3>3, SumRemove
      <4>2. t[row] \in Nat /\ u[row] = t[row] + 1
        BY <1>2, <3>3 DEF IsTable
      <4> HIDE DEF R, V, rest
      <4>3. SumFunctionOnSet(u, V) = SumFunctionOnSet(t, R) + 1
        BY <2>4, <3>2, <4>1, <4>2
      <4>4. QED
        BY <2>6, <4>3 DEF Counted, R, V
    <3>4. CASE row \notin DOMAIN t
      <4>1. R = rest /\ u[row] = 1
        BY <1>2, <3>4
      <4>2. SumFunctionOnSet(u, V) = SumFunctionOnSet(t, R) + 1
        BY <2>4, <3>2, <4>1
      <4>3. QED
        BY <2>6, <4>2 DEF Counted
    <3>5. QED
      BY <3>3, <3>4
  <2>7. QED
    BY <2>5, <2>6
<1>6. QED
  BY <1>4, <1>5 DEF u, row

\* A table with fewer rows counts no more.
LEMMA FewerRows ==
  ASSUME NEW t, IsTable(t), NEW D \in SUBSET DOMAIN t
  PROVE  LET u == [a \in D |-> t[a]]
         IN  IsTable(u) /\ \A k \in Limits : Counted(k, u) <= Counted(k, t)
<1> DEFINE u == [a \in D |-> t[a]]
<1>1. IsFiniteSet(D)
  BY FS_Subset DEF IsTable
<1>2. IsTable(u)
  BY <1>1 DEF IsTable
<1>3. ASSUME NEW k \in Limits PROVE Counted(k, u) <= Counted(k, t)
  <2> DEFINE R == {a \in DOMAIN t : Counts(k, a)}
             V == {a \in DOMAIN u : Counts(k, a)}
  <2>1. V \subseteq R /\ IsFiniteSet(V) /\ IsFiniteSet(R)
    BY <1>1, FS_Subset DEF IsTable
  <2>2. \A a \in V : u[a] = t[a]
    OBVIOUS
  <2>3. \A a \in R : t[a] \in Nat
    BY DEF IsTable
  <2> HIDE DEF u, R, V
  <2>4. SumFunctionOnSet(u, V) = SumFunctionOnSet(t, V)
    BY <2>1, <2>2, SumSame
  <2>5. SumFunctionOnSet(t, V) <= SumFunctionOnSet(t, R)
    BY <2>1, <2>3, SumOfSubset
  <2>6. QED
    BY <2>4, <2>5 DEF Counted, R, V
<1>4. QED
  BY <1>2, <1>3

\* Rows that grow older: those that become alike are one, and none starts to count.
LEMMA OlderRows ==
  ASSUME NEW t, IsTable(t)
  PROVE  LET u == [a \in {Older(b) : b \in DOMAIN t} |->
                      SumFunctionOnSet(t, {b \in DOMAIN t : Older(b) = a})]
         IN  IsTable(u) /\ \A k \in Limits : Counted(k, u) <= Counted(k, t)
<1> DEFINE D == DOMAIN t
           h == [b \in D |-> Older(b)]
           u == [a \in {Older(b) : b \in D} |-> SumFunctionOnSet(t, {b \in D : Older(b) = a})]
<1>1. IsFiniteSet(D) /\ D \subseteq Attempt /\ \A b \in D : t[b] \in Nat
  BY DEF IsTable
<1>2. \A b \in Attempt : /\ Older(b) \in Attempt /\ b.age \in Nat
                         /\ Older(b).name = b.name /\ Older(b).source = b.source
                         /\ Older(b).what = b.what /\ Older(b).age >= b.age
  BY AccountsAssumption DEF Older, Attempt, LongestWindow
<1>3. IsFiniteSet({Older(b) : b \in D})
  <2> DEFINE T == {Older(b) : b \in D}
  <2>1. h \in Surjection(D, T)
    BY DEF Surjection
  <2>2. QED
    BY <1>1, <2>1, FS_Surjection
<1>4. IsTable(u)
  <2>1. ASSUME NEW a \in DOMAIN u PROVE u[a] \in Nat
    <3>1. IsFiniteSet({b \in D : Older(b) = a})
      BY <1>1, FS_Subset
    <3>2. QED
      BY <1>1, <3>1, SumInNat
  <2>2. DOMAIN u \subseteq Attempt /\ IsFiniteSet(DOMAIN u)
    BY <1>1, <1>2, <1>3
  <2> HIDE DEF u
  <2>3. QED
    BY <2>1, <2>2 DEF IsTable
<1>5. ASSUME NEW k \in Limits PROVE Counted(k, u) <= Counted(k, t)
  <2> DEFINE V == {a \in DOMAIN u : Counts(k, a)}
             W == {b \in D : h[b] \in V}
             R == {b \in D : Counts(k, b)}
  <2>1. IsFiniteSet(V) /\ IsFiniteSet(R)
    BY <1>1, <1>3, FS_Subset
  <2> DEFINE Group == [a \in V |-> {b \in D : h[b] = a}]
  <2>2. /\ \A a \in V : Group[a] = {b \in D : h[b] = a}
        /\ \A a \in V : u[a] = SumFunctionOnSet(t, Group[a])
    <3>1. ASSUME NEW a \in V PROVE u[a] = SumFunctionOnSet(t, Group[a])
      <4>1. {b \in D : h[b] = a} = {b \in D : Older(b) = a}
        OBVIOUS
      <4>2. QED
        BY <4>1
    <3>2. QED
      BY <3>1
  <2>3. W \subseteq R
    <3>1. SUFFICES ASSUME NEW b \in D, Counts(k, Older(b)) PROVE Counts(k, b)
      OBVIOUS
    <3>2. Older(b).age < LoginWindow => b.age < LoginWindow
      BY <1>1, <1>2, AccountsAssumption DEF Attempt
    <3>3. Older(b).age < RegisterWindow => b.age < RegisterWindow
      BY <1>1, <1>2, AccountsAssumption DEF Attempt
    <3>4. QED
      BY <1>1, <1>2, <3>1, <3>2, <3>3 DEF Counts
  <2>4. SumFunctionOnSet(u, V) = SumFunctionOnSet(t, W)
    <3>1. W = {b \in D : h[b] \in V}
      OBVIOUS
    <3> HIDE DEF u, V, W, Group, h, D
    <3>2. QED
      BY <1>1, <2>1, <2>2, <3>1, SumOfGroups
  <2>5. SumFunctionOnSet(t, W) <= SumFunctionOnSet(t, R)
    BY <1>1, <2>1, <2>3, SumOfSubset
  <2>6. QED
    BY <2>4, <2>5 DEF Counted
<1>6. QED
  BY <1>4, <1>5

\* A limit is kept by a step that neither counts nor lets through anything new, or
\* lets a call through below the limit.
LEMMA NoMoreIsCounted ==
  ASSUME WithinLimits, IsTable(attempts'), NEW k \in Limits,
         Counted(k, attempts') <= Counted(k, attempts),
         AtWork(k)' \subseteq AtWork(k) \/ Counted(k, attempts) < LimitOf(k)
  PROVE  Within(k)'
<1>1. /\ Counted(k, attempts) \in Nat /\ Counted(k, attempts') \in Nat
      /\ LimitOf(k) \in Nat /\ Within(k)
  BY CountedInNat, LimitsAreNumbers DEF WithinLimits
<1>2. /\ AtWork(k) \in SUBSET Requests /\ AtWork(k)' \in SUBSET Requests
  BY DEF AtWork
<1>3. /\ Cardinality(AtWork(k)) \in Nat /\ Cardinality(AtWork(k)') \in Nat
      /\ Cardinality(Requests) \in Nat
      /\ Cardinality(AtWork(k)') <= Cardinality(Requests)
  BY <1>2, RequestsAtWork
<1>4. CASE AtWork(k)' \subseteq AtWork(k)
  <2>1. IsFiniteSet(AtWork(k))
    BY <1>2, RequestsAtWork
  <2>2. Cardinality(AtWork(k)') <= Cardinality(AtWork(k))
    BY <1>4, <2>1, FS_Subset
  <2>3. QED
    BY <1>1, <1>3, <2>2 DEF Within
<1>5. CASE Counted(k, attempts) < LimitOf(k)
  BY <1>1, <1>3, <1>5 DEF Within
<1>6. QED
  BY <1>4, <1>5

\* It is kept by one more row, if the call that adds it had passed the limit and
\* is over, or passes it now and was at work for nobody.
LEMMA OneMoreIsCounted ==
  ASSUME WithinLimits, IsTable(attempts'), NEW k \in Limits,
         Counted(k, attempts') = Counted(k, attempts) + 1, NEW r \in Requests,
         \/ r \in AtWork(k) /\ AtWork(k)' \subseteq AtWork(k) \ {r}
         \/ Counted(k, attempts) < LimitOf(k) /\ r \notin AtWork(k)'
  PROVE  Within(k)'
<1>1. /\ Counted(k, attempts) \in Nat /\ Counted(k, attempts') \in Nat
      /\ LimitOf(k) \in Nat /\ Within(k)
  BY CountedInNat, LimitsAreNumbers DEF WithinLimits
<1>2. /\ AtWork(k) \in SUBSET Requests /\ AtWork(k)' \in SUBSET Requests
  BY DEF AtWork
<1>3. /\ Cardinality(AtWork(k)) \in Nat /\ Cardinality(AtWork(k)') \in Nat
      /\ Cardinality(Requests) \in Nat
  BY <1>2, RequestsAtWork
<1>4. CASE r \in AtWork(k) /\ AtWork(k)' \subseteq AtWork(k) \ {r}
  <2>1. /\ IsFiniteSet(AtWork(k) \ {r})
        /\ Cardinality(AtWork(k) \ {r}) = Cardinality(AtWork(k)) - 1
    <3>1. AtWork(k) \ {r} \in SUBSET Requests
      BY <1>2
    <3>2. QED
      BY <1>2, <1>4, <3>1, RequestsAtWork
  <2>2. Cardinality(AtWork(k)') <= Cardinality(AtWork(k) \ {r})
    BY <1>4, <2>1, FS_Subset
  <2>3. QED
    BY <1>1, <1>3, <2>1, <2>2 DEF Within
<1>5. CASE Counted(k, attempts) < LimitOf(k) /\ r \notin AtWork(k)'
  <2>1. Cardinality(AtWork(k)') <= Cardinality(Requests) - 1
    BY <1>2, <1>5, RequestsAtWork
  <2>2. QED
    BY <1>1, <1>3, <1>5, <2>1 DEF Within
<1>6. QED
  BY <1>4, <1>5

\* A step that leaves the table and the calls alone.
LEMMA UncountedStepKeeps ==
  ASSUME WithinLimits, UNCHANGED <<attempts, calls>>
  PROVE  WithinLimits'
<1>1. IsTable(attempts')
  BY DEF WithinLimits
<1>2. ASSUME NEW k \in Limits PROVE Within(k)'
  BY DEF WithinLimits, Within, AtWork
<1>3. QED
  BY <1>1, <1>2 DEF WithinLimits

\* A call that ends, or goes on where no limit waits for it, without a row.
LEMMA CallsEndWithinLimits ==
  ASSUME WithinLimits, UNCHANGED attempts, NEW r \in Requests, calls \in [Requests -> Call \cup {Idle}],
         NEW c, calls' = [calls EXCEPT ![r] = c], \A k \in Limits : ~Works(k, c)
  PROVE  WithinLimits'
<1>1. IsTable(attempts')
  BY DEF WithinLimits
<1>2. ASSUME NEW k \in Limits PROVE Within(k)'
  <2>1. AtWork(k)' \subseteq AtWork(k)
    BY DEF AtWork
  <2>2. Counted(k, attempts) \in Nat /\ Counted(k, attempts') <= Counted(k, attempts)
    BY CountedInNat DEF WithinLimits
  <2>3. QED
    BY <1>1, <2>1, <2>2, NoMoreIsCounted
<1>3. QED
  BY <1>1, <1>2 DEF WithinLimits

\* A call that ends with a row: it is counted where the call was.
LEMMA CallsCountWhereTheyWork ==
  ASSUME WithinLimits, NEW r \in Requests, calls \in [Requests -> Call \cup {Idle}], calls[r] # Idle,
         calls' = [calls EXCEPT ![r] = Idle],
         NEW what \in {"failed", "registered"},
         calls[r].at = (IF what = "failed" THEN "verifying" ELSE "hashing"),
         attempts' = WithAttempt(attempts, calls[r].name, calls[r].source, what)
  PROVE  WithinLimits'
<1> DEFINE c == calls[r]
           row == [name |-> c.name, source |-> c.source, what |-> what, age |-> 0]
<1>1. c \in Call /\ c.name \in Names \cup {None} /\ c.source \in Sources
  BY DEF Call
<1>2. /\ IsTable(attempts')
      /\ \A k \in Limits : Counted(k, attempts') = Counted(k, attempts) + IF Counts(k, row) THEN 1 ELSE 0
  BY <1>1, OneMoreRow DEF WithinLimits
<1>3. ASSUME NEW k \in Limits PROVE Within(k)'
  <2>1. Counts(k, row) <=> Works(k, c)
    <3>1. 0 < LoginWindow /\ 0 < RegisterWindow
      BY AccountsAssumption
    <3>2. QED
      BY <3>1 DEF Counts, Works
  <2>2. AtWork(k)' \subseteq AtWork(k) \ {r} /\ (Works(k, c) => r \in AtWork(k))
    BY DEF AtWork, Works
  <2>3. Counted(k, attempts) \in Nat
    BY CountedInNat DEF WithinLimits
  <2> HIDE DEF c, row
  <2>4. CASE Works(k, c)
    <3>1. Counted(k, attempts') = Counted(k, attempts) + 1
      BY <1>2, <2>1, <2>4
    <3>2. QED
      BY <1>2, <2>2, <2>4, <3>1, OneMoreIsCounted
  <2>5. CASE ~Works(k, c)
    <3>1. Counted(k, attempts') <= Counted(k, attempts)
      BY <1>2, <2>1, <2>3, <2>5
    <3>2. QED
      BY <1>2, <2>2, <3>1, NoMoreIsCounted
  <2>6. QED
    BY <2>4, <2>5
<1>4. QED
  BY <1>2, <1>3 DEF WithinLimits

\* A call that starts passes the limits it works under.
LEMMA StartsWithinLimits ==
  ASSUME WithinLimits, UNCHANGED attempts, NEW r \in Requests, calls \in [Requests -> Call \cup {Idle}],
         NEW c, calls' = [calls EXCEPT ![r] = c],
         \A k \in Limits : Works(k, c) => Counted(k, attempts) < LimitOf(k)
  PROVE  WithinLimits'
<1>1. IsTable(attempts')
  BY DEF WithinLimits
<1>2. ASSUME NEW k \in Limits PROVE Within(k)'
  <2>1. Works(k, c) \/ AtWork(k)' \subseteq AtWork(k)
    BY DEF AtWork
  <2>2. Counted(k, attempts) \in Nat /\ Counted(k, attempts') <= Counted(k, attempts)
    BY CountedInNat DEF WithinLimits
  <2>3. QED
    BY <1>1, <2>1, <2>2, NoMoreIsCounted
<1>3. QED
  BY <1>1, <1>2 DEF WithinLimits

LEMMA RegisterStartWithinLimits ==
  ASSUME IInv, WithinLimits, NEW r \in Requests, NEW s \in Spellings, NEW w \in Secrets,
         NEW src \in Sources, RegisterStart(r, s, w, src)
  PROVE  WithinLimits'
<1> DEFINE c == [at |-> "hashing", name |-> NormalizeUsername[s], secret |-> w, source |-> src,
                 row |-> None]
<1>1. calls' = [calls EXCEPT ![r] = c] /\ UNCHANGED attempts
  BY DEF RegisterStart
<1>2. ASSUME NEW k \in Limits, Works(k, c) PROVE Counted(k, attempts) < LimitOf(k)
  <2>1. k = <<"newcomers", src>>
    BY <1>2 DEF Works, Limits
  <2>2. Counted(k, attempts) < MaxRegistrations
    BY <2>1, CountsOfTheCode DEF RegisterStart
  <2>3. QED
    BY <2>1, <2>2 DEF LimitOf
<1> HIDE DEF c
<1>3. QED
  BY <1>1, <1>2, StartsWithinLimits DEF IInv, CallsTyped

\* What MayTry lets through is below both limits.
LEMMA MayTryIsBelow ==
  ASSUME NEW k \in Limits, NEW n \in Names \cup {None}, NEW src \in Sources, MayTry(n, src),
         k = <<"user", n>> \/ k = <<"source", src>>
  PROVE  Counted(k, attempts) < LimitOf(k)
<1>1. CASE k = <<"user", n>>
  <2>1. n \in Names
    BY <1>1, AccountsAssumption DEF Limits
  <2>2. n # None
    BY <2>1, AccountsAssumption
  <2>3. Counted(k, attempts) < MaxFailuresPerUser
    BY <1>1, <2>1, <2>2, CountsOfTheCode DEF MayTry
  <2>4. QED
    BY <1>1, <2>3 DEF LimitOf
<1>2. CASE k = <<"source", src>>
  <2>1. Counted(k, attempts) < MaxFailuresPerSource
    BY <1>2, CountsOfTheCode DEF MayTry
  <2>2. QED
    BY <1>2, <2>1 DEF LimitOf
<1>3. QED
  BY <1>1, <1>2

LEMMA LoginStartWithinLimits ==
  ASSUME IInv, WithinLimits, NEW r \in Requests, NEW s \in Spellings, NEW w \in Secrets,
         NEW src \in Sources, LoginStart(r, s, w, src)
  PROVE  WithinLimits'
<1> DEFINE n == NormalizeUsername[s]
           row == IF HasName(n) THEN [id |-> IdOf(n), player |-> players[IdOf(n)]] ELSE None
           c == [at |-> "verifying", name |-> n, secret |-> w, source |-> src, row |-> row]
<1>1. calls' = [calls EXCEPT ![r] = c] /\ UNCHANGED attempts /\ MayTry(n, src)
  BY DEF LoginStart
<1>2. n \in Names \cup {None}
  BY AccountsAssumption
<1> HIDE DEF n, row
<1>3. ASSUME NEW k \in Limits, Works(k, c) PROVE Counted(k, attempts) < LimitOf(k)
  <2>1. k = <<"user", n>> \/ k = <<"source", src>>
    BY <1>3 DEF Works, Limits
  <2>2. QED
    BY <1>1, <1>2, <2>1, MayTryIsBelow
<1> HIDE DEF c
<1>4. QED
  BY <1>1, <1>3, StartsWithinLimits DEF IInv, CallsTyped

LEMMA WeakPasswordWithinLimits ==
  ASSUME IInv, WithinLimits, NEW r \in Requests, NEW s \in Spellings, NEW src \in Sources,
         LoginWeakPassword(r, s, src)
  PROVE  WithinLimits'
<1> DEFINE n == NormalizeUsername[s]
           row == [name |-> n, source |-> src, what |-> "failed", age |-> 0]
<1>1. /\ attempts' = WithAttempt(attempts, n, src, "failed") /\ UNCHANGED calls
      /\ calls[r] = Idle /\ MayTry(n, src)
  BY DEF LoginWeakPassword, Begin
<1>2. n \in Names \cup {None}
  BY AccountsAssumption
<1> HIDE DEF n
<1>3. /\ IsTable(attempts')
      /\ \A k \in Limits : Counted(k, attempts') = Counted(k, attempts) + IF Counts(k, row) THEN 1 ELSE 0
  BY <1>1, <1>2, OneMoreRow DEF WithinLimits
<1>4. ASSUME NEW k \in Limits PROVE Within(k)'
  <2>1. AtWork(k)' = AtWork(k) /\ r \notin AtWork(k)
    BY <1>1 DEF AtWork, Works
  <2>2. Counts(k, row) => k = <<"user", n>> \/ k = <<"source", src>>
    BY DEF Counts, Limits
  <2>3. Counted(k, attempts) \in Nat
    BY CountedInNat DEF WithinLimits
  <2> HIDE DEF row
  <2>4. CASE Counts(k, row)
    <3>1. Counted(k, attempts) < LimitOf(k)
      BY <1>1, <1>2, <2>2, <2>4, MayTryIsBelow
    <3>2. Counted(k, attempts') = Counted(k, attempts) + 1
      BY <1>3, <2>4
    <3>3. QED
      BY <1>3, <2>1, <3>1, <3>2, OneMoreIsCounted
  <2>5. CASE ~Counts(k, row)
    <3>1. Counted(k, attempts') <= Counted(k, attempts)
      BY <1>3, <2>3, <2>5
    <3>2. QED
      BY <1>3, <2>1, <3>1, NoMoreIsCounted
  <2>6. QED
    BY <2>4, <2>5
<1>5. QED
  BY <1>3, <1>4 DEF WithinLimits

\* Every way a call goes on or ends.
LEMMA CallStepsWithinLimits ==
  ASSUME IInv, WithinLimits, NEW r \in Requests,
         \/ RegisterTaken(r) \/ LoginRefused(r) \/ LoginRehash(r) \/ CallFails(r)
         \/ \E t \in Tokens, done \in {"insert", "attempt", "issue"} : RegisterInsert(r, t, done)
         \/ \E t \in Tokens, issued \in BOOLEAN : LoginSucceeds(r, t, issued)
  PROVE  WithinLimits'
<1>1. calls \in [Requests -> Call \cup {Idle}]
  BY DEF IInv, CallsTyped
<1>2. \A k \in Limits : ~Works(k, Idle)
  BY DEF Works
<1>3. CASE UNCHANGED attempts /\ calls' = [calls EXCEPT ![r] = Idle]
  BY <1>1, <1>2, <1>3, CallsEndWithinLimits
<1>4. CASE LoginRehash(r)
  <2> DEFINE c == [calls[r] EXCEPT !.at = "rehashing"]
  <2>1. UNCHANGED attempts /\ calls' = [calls EXCEPT ![r] = c] /\ calls[r] \in Call
    BY <1>1, <1>4 DEF LoginRehash
  <2>2. c.at = "rehashing"
    BY <2>1 DEF Call
  <2>3. \A k \in Limits : ~Works(k, c)
    BY <2>2 DEF Works
  <2> HIDE DEF c
  <2>4. QED
    BY <1>1, <2>1, <2>3, CallsEndWithinLimits
<1>5. CASE LoginRefused(r)
  <2>1. /\ calls[r] # Idle /\ calls[r].at = "verifying" /\ calls' = [calls EXCEPT ![r] = Idle]
        /\ attempts' = WithAttempt(attempts, calls[r].name, calls[r].source, "failed")
    BY <1>5 DEF LoginRefused
  <2>2. QED
    BY <1>1, <2>1, CallsCountWhereTheyWork
<1>6. ASSUME NEW t \in Tokens, NEW done \in {"insert", "attempt", "issue"}, RegisterInsert(r, t, done),
             done # "insert"
      PROVE  WithinLimits'
  <2>1. /\ calls[r] # Idle /\ calls[r].at = "hashing" /\ calls' = [calls EXCEPT ![r] = Idle]
        /\ attempts' = WithAttempt(attempts, calls[r].name, calls[r].source, "registered")
    BY <1>6 DEF RegisterInsert
  <2>2. QED
    BY <1>1, <2>1, CallsCountWhereTheyWork
<1>7. QED
  BY <1>3, <1>4, <1>5, <1>6 DEF RegisterTaken, CallFails, RegisterInsert, LoginSucceeds

LEMMA PruneWithinLimits ==
  ASSUME WithinLimits, Prune
  PROVE  WithinLimits'
<1> DEFINE D == {b \in DOMAIN attempts : b.age < LongestWindow}
<1>1. attempts' = [a \in D |-> attempts[a]] /\ UNCHANGED calls
  BY DEF Prune
<1>2. D \in SUBSET DOMAIN attempts
  OBVIOUS
<1> HIDE DEF D
<1>3. IsTable(attempts') /\ \A k \in Limits : Counted(k, attempts') <= Counted(k, attempts)
  BY <1>1, <1>2, FewerRows DEF WithinLimits
<1>4. ASSUME NEW k \in Limits PROVE Within(k)'
  <2>1. AtWork(k)' = AtWork(k)
    BY <1>1 DEF AtWork
  <2>2. QED
    BY <1>3, <2>1, NoMoreIsCounted
<1>5. QED
  BY <1>3, <1>4 DEF WithinLimits

LEMMA ElapseWithinLimits ==
  ASSUME WithinLimits, Elapse
  PROVE  WithinLimits'
<1>1. attempts' = [a \in {Older(b) : b \in DOMAIN attempts} |->
                      SumFunctionOnSet(attempts, {b \in DOMAIN attempts : Older(b) = a})]
  BY DEF Elapse, MapThenSumSet, SumFunctionOnSet, FoldFunctionOnSet
<1>2. UNCHANGED calls
  BY DEF Elapse
<1>3. IsTable(attempts') /\ \A k \in Limits : Counted(k, attempts') <= Counted(k, attempts)
  BY <1>1, OlderRows DEF WithinLimits
<1>4. ASSUME NEW k \in Limits PROVE Within(k)'
  <2>1. AtWork(k)' = AtWork(k)
    BY <1>2 DEF AtWork
  <2>2. QED
    BY <1>3, <2>1, NoMoreIsCounted
<1>5. QED
  BY <1>3, <1>4 DEF WithinLimits

\* The calls that had passed a limit are gone, and the rows are still there.
LEMMA RestartWithinLimits ==
  ASSUME WithinLimits, Restart
  PROVE  WithinLimits'
<1>1. attempts' = attempts /\ calls' = [r \in Requests |-> Idle]
  BY DEF Restart
<1>2. IsTable(attempts')
  BY <1>1 DEF WithinLimits
<1>3. ASSUME NEW k \in Limits PROVE Within(k)'
  <2>1. AtWork(k)' \subseteq AtWork(k)
    BY <1>1 DEF AtWork, Works
  <2>2. Counted(k, attempts') <= Counted(k, attempts)
    BY <1>1, CountedInNat DEF WithinLimits
  <2>3. QED
    BY <1>2, <2>1, <2>2, NoMoreIsCounted
<1>4. QED
  BY <1>2, <1>3 DEF WithinLimits

LEMMA NextWithinLimits ==
  ASSUME IInv, WithinLimits, [Next]_vars
  PROVE  WithinLimits'
<1>1. CASE UNCHANGED vars
  BY <1>1, UncountedStepKeeps DEF vars, accountVars
<1>2. CASE SocketStep
  BY <1>2, UncountedStepKeeps DEF SocketStep, ConnectGuest, Cut, Leave, Connect, accountVars
<1>3. CASE PostStep
  BY <1>3, UncountedStepKeeps
     DEF PostStep, PostArrives, PostRefused, PostSetup, PostMaintenance, PostNotice, PostKick,
         PostBan, PostUnban, PostRole, accountVars
<1>4. CASE AccountStep
  <2>1. ASSUME NEW r \in Requests, NEW s \in Spellings, NEW w \in Secrets, NEW src \in Sources,
               RegisterStart(r, s, w, src) \/ LoginStart(r, s, w, src)
        PROVE  WithinLimits'
    BY <2>1, RegisterStartWithinLimits, LoginStartWithinLimits
  <2>2. ASSUME NEW t \in Tokens, Me(t) \/ Logout(t) PROVE WithinLimits'
    BY <2>2, UncountedStepKeeps DEF Me, Logout
  <2>3. Mintable \subseteq Tokens
    BY DEF Mintable, FreeTokens
  <2>4. QED
    BY <1>4, <2>1, <2>2, <2>3, WeakPasswordWithinLimits, CallStepsWithinLimits, PruneWithinLimits,
       ElapseWithinLimits DEF AccountStep
<1>5. QED
  BY <1>1, <1>2, <1>3, <1>4, RestartWithinLimits DEF Next

LEMMA StartWithinLimits == Init => WithinLimits
<1> SUFFICES ASSUME Init PROVE WithinLimits
  OBVIOUS
<1>1. PICK d \in Databases : attempts = d.attempts
  BY DEF Init, AccountsInit
<1>2. IsTable(attempts)
  BY <1>1, AttemptsAssumption DEF IsTable
<1>3. ASSUME NEW k \in Limits PROVE Within(k)
  <2>1. AtWork(k) = {} /\ Cardinality(AtWork(k)) = 0
    BY FS_EmptySet DEF Init, AccountsInit, AtWork, Works
  <2>2. /\ Counted(k, attempts) \in Nat /\ LimitOf(k) \in Nat
        /\ Cardinality(Requests) \in Nat
    BY <1>2, CountedInNat, LimitsAreNumbers, AttemptsAssumption, FS_CardinalityType
  <2>3. Counted(k, attempts) <= LimitOf(k) + (Cardinality(Requests) - 1)
    <3>1. ASSUME NEW n \in Names, k = <<"user", n>>
          PROVE  Counted(k, attempts) <= LimitOf(k) + (Cardinality(Requests) - 1)
      <4>1. FailuresOf(n) <= MaxFailuresPerUser + (Cardinality(Requests) - 1)
        BY <1>1, AttemptsAssumption DEF FailuresOf, RowsOf
      <4>2. QED
        BY <3>1, <4>1, CountsOfTheCode DEF LimitOf
    <3>2. ASSUME NEW src \in Sources, k = <<"source", src>>
          PROVE  Counted(k, attempts) <= LimitOf(k) + (Cardinality(Requests) - 1)
      <4>1. FailuresFrom(src) <= MaxFailuresPerSource + (Cardinality(Requests) - 1)
        BY <1>1, AttemptsAssumption DEF FailuresFrom, RowsFrom
      <4>2. QED
        BY <3>2, <4>1, CountsOfTheCode DEF LimitOf
    <3>3. ASSUME NEW src \in Sources, k = <<"newcomers", src>>
          PROVE  Counted(k, attempts) <= LimitOf(k) + (Cardinality(Requests) - 1)
      <4>1. RegistrationsFrom(src) <= MaxRegistrations + (Cardinality(Requests) - 1)
        BY <1>1, AttemptsAssumption DEF RegistrationsFrom, RowsFrom
      <4>2. QED
        BY <3>3, <4>1, CountsOfTheCode DEF LimitOf
    <3>4. QED
      BY <3>1, <3>2, <3>3 DEF Limits
  <2>4. QED
    BY <2>1, <2>2, <2>3 DEF Within
<1>4. QED
  BY <1>2, <1>3 DEF WithinLimits

-----------------------------------------------------------------------------
(* Theorems                                                                *)

\* Overlapping registrations never give two accounts one name: the check that
\* counts is the one after the hashing (the UNIQUE index).
THEOREM OneAccountPerName == Spec => []NamesAreUnique
<1>1. IInv => NamesAreUnique
  BY DEF IInv
<1>2. QED
  BY <1>1, InvariantHolds, PTL

\* The limits are tested before the hashing and counted after it.  Whatever number
\* of calls wait at once, each limit is overrun by less than that number: a call
\* that has passed a limit leaves room for one failure only.
THEOREM LimitsHold == Spec => []LimitsOverrunOnlyByCallsAtOnce
<1>1. WithinLimits => LimitsOverrunOnlyByCallsAtOnce
  <2>1. SUFFICES ASSUME WithinLimits PROVE LimitsOverrunOnlyByCallsAtOnce
    OBVIOUS
  <2>2. ASSUME NEW k \in Limits
        PROVE  Counted(k, attempts) <= LimitOf(k) + (Cardinality(Requests) - 1)
    <3>1. AtWork(k) \in SUBSET Requests
      BY DEF AtWork
    <3>2. Cardinality(AtWork(k)) \in Nat /\ Cardinality(Requests) \in Nat
      BY <3>1, RequestsAtWork
    <3>3. Counted(k, attempts) \in Nat /\ LimitOf(k) \in Nat /\ Within(k)
      BY <2>1, CountedInNat, LimitsAreNumbers DEF WithinLimits
    <3>4. QED
      BY <3>2, <3>3 DEF Within
  <2>3. ASSUME NEW n \in Names
        PROVE  FailuresOf(n) <= MaxFailuresPerUser + (Cardinality(Requests) - 1)
    <3>1. <<"user", n>> \in Limits /\ LimitOf(<<"user", n>>) = MaxFailuresPerUser
      BY DEF Limits, LimitOf
    <3>2. QED
      BY <2>2, <3>1, CountsOfTheCode
  <2>4. ASSUME NEW src \in Sources
        PROVE  /\ FailuresFrom(src) <= MaxFailuresPerSource + (Cardinality(Requests) - 1)
               /\ RegistrationsFrom(src) <= MaxRegistrations + (Cardinality(Requests) - 1)
    <3>1. /\ <<"source", src>> \in Limits /\ LimitOf(<<"source", src>>) = MaxFailuresPerSource
          /\ <<"newcomers", src>> \in Limits /\ LimitOf(<<"newcomers", src>>) = MaxRegistrations
      BY DEF Limits, LimitOf
    <3>2. QED
      BY <2>2, <3>1, CountsOfTheCode
  <2>5. QED
    BY <2>3, <2>4 DEF LimitsOverrunOnlyByCallsAtOnce
<1>2. QED
  BY <1>1, InvariantHolds, StartWithinLimits, NextWithinLimits, PTL DEF Spec

\* disconnectAccount finds every socket that plays as the account it bans, and
\* a handshake that resolved its token earlier is not let in as that account.
THEOREM BannedSocketsAreCut == Spec => []BannedAreBeingCut
<1>1. IInv => BannedAreBeingCut
  BY DEF IInv
<1>2. QED
  BY <1>1, InvariantHolds, PTL

\* Every route that changes a role or a ban records it, so the log read from its
\* first entry gives roles and bans through every restart.  Every route that sets
\* the switch or the notice records that too; they are read from the first entry
\* of this process, for a restart clears them (server.ts:192) without an entry.
THEOREM AuditIsComplete == Spec => []AuditTellsTheState
<1>1. IInv => AuditTellsTheState
  BY DEF IInv
<1>2. QED
  BY <1>1, InvariantHolds, PTL

\* No step of any number of operators, requests and sign-ins changes a role or a
\* ban that the rank of somebody signed in at that moment does not allow.
THEOREM RankGoverns == Spec => GovernedByRank
<1>1. IInv /\ [Next]_vars => [\A i \in Ids : RankAllows(i)]_vars
  BY StepsByRank
<1>2. QED
  BY <1>1, InvariantHolds, PTL DEF Spec, GovernedByRank

\* The tests of ban and of assignRole, each made on its own request, are enough
\* to leave somebody who can sign in as an operator.
THEOREM ConsoleKeepsAnOperator == Spec => ConsoleStaysReachable
<1>1. IInv /\ [Next]_vars => (Operators # {} => \E i \in Operators' : ~players'[i].banned)
  <2>1. SUFFICES ASSUME IInv, [Next]_vars, Operators # {}
                 PROVE  \E i \in Operators' : ~players'[i].banned
    OBVIOUS
  <2>2. SomebodyGoverns' /\ Operators' # {}
    BY <2>1, NextKeeps, StepsByRank DEF IInv
  <2>3. QED
    BY <2>2 DEF SomebodyGoverns
<1>2. QED
  BY <1>1, InvariantHolds, PTL DEF Spec, ConsoleStaysReachable

\* What the types say beyond the two invariants.
CountersTyped ==
    /\ made \in 0..MaxCalls /\ posted \in 0..MaxPosts
    /\ \A a \in DOMAIN attempts : attempts[a] > 0

\* A table whose rows are there at least once.
Counting(t) == \A a \in DOMAIN t : t[a] > 0

LEMMA OneMoreAttempt ==
  ASSUME NEW t, IsTable(t), Counting(t), NEW n, NEW src, NEW what
  PROVE  Counting(WithAttempt(t, n, src, what))
<1> DEFINE row == [name |-> n, source |-> src, what |-> what, age |-> 0]
           u == WithAttempt(t, n, src, what)
<1> HIDE DEF row
<1>1. u = [a \in DOMAIN t \cup {row} |->
             (IF a \in DOMAIN t THEN t[a] ELSE 0) + (IF a = row THEN 1 ELSE 0)]
  BY DEF WithAttempt, row
<1>2. \A a \in DOMAIN t : t[a] \in Nat /\ t[a] > 0
  BY DEF IsTable, Counting
<1> HIDE DEF u
<1>3. QED
  BY <1>1, <1>2 DEF Counting, u

LEMMA ElapseKeepsCounting ==
  ASSUME IsTable(attempts), Counting(attempts), Elapse
  PROVE  Counting(attempts')
<1> DEFINE D == DOMAIN attempts
           Group(a) == {b \in D : Older(b) = a}
<1>1. attempts' = [a \in {Older(b) : b \in D} |-> SumFunctionOnSet(attempts, Group(a))]
  BY DEF Elapse, MapThenSumSet, SumFunctionOnSet, FoldFunctionOnSet
<1>2. ASSUME NEW c \in D PROVE SumFunctionOnSet(attempts, Group(Older(c))) > 0
  <2> DEFINE S == Group(Older(c))
  <2>1. S \in SUBSET D /\ c \in S /\ IsFiniteSet(D)
    BY <1>2 DEF IsTable
  <2> HIDE DEF S
  <2>2. IsFiniteSet(S) /\ IsFiniteSet(S \ {c}) /\ \A x \in S : attempts[x] \in Nat
    BY <2>1, FS_Subset DEF IsTable
  <2>3. SumFunctionOnSet(attempts, S) = attempts[c] + SumFunctionOnSet(attempts, S \ {c})
    BY <2>1, <2>2, SumRemove
  <2>4. SumFunctionOnSet(attempts, S \ {c}) \in Nat
    BY <2>2, SumInNat
  <2>5. attempts[c] \in Nat /\ attempts[c] > 0
    BY <1>2 DEF IsTable, Counting
  <2>6. QED
    BY <2>3, <2>4, <2>5 DEF S
<1> HIDE DEF D, Group
<1>3. QED
  BY <1>1, <1>2 DEF Counting

LEMMA CountersStayTyped ==
  ASSUME IInv, WithinLimits, CountersTyped, [Next]_vars
  PROVE  CountersTyped'
<1>1. IsTable(attempts) /\ Counting(attempts)
  BY DEF WithinLimits, CountersTyped, Counting
<1>2. MaxCalls \in Nat /\ MaxPosts \in Nat
  BY AccountsAssumption, ConsoleAssumption
<1>3. CASE UNCHANGED vars \/ Restart
  BY <1>3 DEF vars, accountVars, consoleVars, CountersTyped, Restart
<1>4. CASE SocketStep
  BY <1>4 DEF SocketStep, ConnectGuest, Cut, Leave, Connect, accountVars, CountersTyped
<1>5. CASE PostStep
  <2>1. UNCHANGED <<attempts, made>>
    BY <1>5 DEF PostStep, PostArrives, PostRefused, PostSetup, PostMaintenance, PostNotice,
       PostKick, PostBan, PostUnban, PostRole, accountVars
  <2>2. posted' = posted \/ (posted < MaxPosts /\ posted' = posted + 1)
    BY <1>5 DEF PostStep, PostArrives, PostRefused, PostSetup, PostMaintenance, PostNotice,
       PostKick, PostBan, PostUnban, PostRole, Answer
  <2>3. posted' \in 0..MaxPosts
    BY <1>2, <2>2 DEF CountersTyped
  <2>4. QED
    BY <2>1, <2>3 DEF CountersTyped
<1>6. CASE AccountStep
  <2>1. posted' = posted
    BY <1>6, SMTT(30) DEF AccountStep, consoleVars
  <2>2. made' = made \/ (made < MaxCalls /\ made' = made + 1)
    BY <1>6 DEF AccountStep, RegisterStart, LoginStart, LoginWeakPassword, Begin, RegisterTaken,
       LoginRefused, LoginRehash, CallFails, RegisterInsert, LoginSucceeds, Me, Logout, Prune,
       Elapse
  <2>3. made' \in 0..MaxCalls
    BY <1>2, <2>2 DEF CountersTyped
  <2>4. Counting(attempts')
    <3>1. CASE Elapse
      BY <1>1, <3>1, ElapseKeepsCounting
    <3>2. CASE Prune
      BY <1>1, <3>2 DEF Prune, Counting
    <3>3. CASE ~Elapse /\ ~Prune
      <4>1. \/ attempts' = attempts
            \/ \E n, src, what : attempts' = WithAttempt(attempts, n, src, what)
        BY <1>6, <3>3 DEF AccountStep, RegisterStart, LoginStart, LoginWeakPassword, RegisterTaken,
           LoginRefused, LoginRehash, CallFails, RegisterInsert, LoginSucceeds, Me, Logout
      <4>2. QED
        BY <1>1, <4>1, OneMoreAttempt
    <3>4. QED
      BY <3>1, <3>2, <3>3
  <2>5. QED
    BY <2>1, <2>3, <2>4 DEF CountersTyped, Counting
<1>7. QED
  BY <1>3, <1>4, <1>5, <1>6 DEF Next

\* players.ts, api.ts, admin.ts: sessions and sockets are of accounts there are, an
\* attempt is counted once at least, and tables, calls, switch and log keep their types.
THEOREM ConsoleIsTyped == Spec => []TypeOK
<1>1. Init => CountersTyped
  <2> SUFFICES ASSUME Init PROVE CountersTyped
    OBVIOUS
  <2>1. PICK d \in Databases : attempts = d.attempts
    BY DEF Init, AccountsInit
  <2>2. \A a \in DOMAIN attempts : attempts[a] \in Nat \ {0}
    BY <2>1, AttemptsAssumption
  <2>3. made = 0 /\ posted = 0 /\ MaxCalls \in Nat /\ MaxPosts \in Nat
    BY AccountsAssumption, ConsoleAssumption DEF Init, AccountsInit
  <2>4. QED
    BY <2>2, <2>3 DEF CountersTyped
<1>2. IInv /\ WithinLimits /\ CountersTyped => TypeOK
  <2> SUFFICES ASSUME IInv, WithinLimits, CountersTyped PROVE TypeOK
    OBVIOUS
  <2>1. /\ DOMAIN attempts \subseteq Attempt
        /\ \A a \in DOMAIN attempts : attempts[a] \in Nat \ {0}
    BY DEF WithinLimits, IsTable, CountersTyped
  <2>2. conn \in [Sockets -> [state : {"off", "open", "kicked"}, account : Ids \cup {None}]]
    BY DEF IInv, SocketsTyped
  <2>3. maintenance \in BOOLEAN /\ notice \in Notices \cup {None}
    BY DEF IInv, AuditTellsTheState, UnusedIdsAreClean, Record
  <2>4. QED
    BY <2>1, <2>2, <2>3
       DEF IInv, TablesTyped, CallsTyped, PostsTyped, UnusedIdsAreClean, CountersTyped, TypeOK
<1>3. QED
  BY <1>1, <1>2, InvariantHolds, StartWithinLimits, NextWithinLimits, CountersStayTyped, PTL
     DEF Spec
=============================================================================
