------------------------------ MODULE Accounts ------------------------------
(***************************************************************************)
(* Registered players, their sessions and the limits on signing in:        *)
(* packages/store/src/players.ts (PlayerStore) behind api.ts.              *)
(*                                                                         *)
(* Hashing a password is the only thing these operations wait for, so an   *)
(* operation is what it does before the await, what it does after it, and  *)
(* a call record for what it carries across.  Statements run one by one    *)
(* and each may throw; they are not in a transaction.                      *)
(*                                                                         *)
(* Time is kept as the age of what has a time stamp.  An age stops growing *)
(* once no query can tell it from a larger one.  A token stands for a row  *)
(* of the sessions table; one without a row is any unknown token.          *)
(***************************************************************************)
EXTENDS Naturals, Sequences, FiniteSets, FiniteSetsExt

CONSTANTS
    Spellings,             \* what is typed as a name
    Names,                 \* folded names
    NormalizeUsername,     \* the folded name of each spelling, None if refused
    Secrets,               \* passwords that passwordAcceptable accepts
    Sources,               \* client addresses
    Requests,              \* HTTP requests at work at once (a bound)
    Tokens,                \* sessions alive at once (a bound)
    MaxCalls,              \* registrations and logins in a behaviour (a bound)
    MaxPlayers,            \* rows of the players table (a bound)
    None,
    LoginWindow,           \* LOGIN_WINDOW_MS
    RegisterWindow,        \* REGISTER_WINDOW_MS
    SessionTtl,            \* SESSION_TTL_MS
    MaxFailuresPerUser,    \* MAX_FAILURES_PER_USER
    MaxFailuresPerSource,  \* MAX_FAILURES_PER_SOURCE
    MaxRegistrations,      \* MAX_REGISTRATIONS_PER_SOURCE
    Databases              \* what the server may find at start-up

Roles == {"player", "admin", "owner"}

Player == [name : Names, secret : Secrets, weaker : BOOLEAN, role : Roles, banned : BOOLEAN]

ASSUME AccountsAssumption ==
    /\ NormalizeUsername \in [Spellings -> Names \cup {None}]
    /\ None \notin Spellings \cup Secrets \cup Names \cup Nat
    /\ {LoginWindow, RegisterWindow, SessionTtl} \subseteq Nat \ {0}
    /\ {MaxFailuresPerUser, MaxFailuresPerSource, MaxRegistrations} \subseteq Nat \ {0}
    /\ {MaxPlayers, MaxCalls} \subseteq Nat
    /\ \A d \in Databases : d.players \in Seq(Player) /\ Len(d.players) <= MaxPlayers

\* A server starts with what one before it has left behind: the index on
\* username_fold is UNIQUE, and some operator can still sign in if there is any
\* (NamesAreUnique and ConsoleStaysReachable say that it is left so again).
ASSUME DatabasesAssumption ==
    \A d \in Databases :
        /\ \A i, j \in 1..Len(d.players) : d.players[i].name = d.players[j].name => i = j
        /\ (\E i \in 1..Len(d.players) : d.players[i].role \in {"admin", "owner"}) =>
               \E i \in 1..Len(d.players) :
                   d.players[i].role \in {"admin", "owner"} /\ ~d.players[i].banned

LongestWindow == IF LoginWindow > RegisterWindow THEN LoginWindow ELSE RegisterWindow

\* Rows of login_attempts that some query counts: failed sign-ins (ok = 0) and
\* registrations (ok = 2).
Attempt == [name : Names \cup {None}, source : Sources, age : 0..LongestWindow,
            what : {"failed", "registered"}]

\* SELECT COUNT(*) over those rows of login_attempts that are within a window.
CountAttempts(table, rows, what, window) ==
    SumFunctionOnSet(table, {a \in rows : a.what = what /\ a.age < window})

\* So is the table of attempts: finite, and over the limits by what calls at once
\* can have done (LimitsOverrunOnlyByCallsAtOnce says that it is left so again).
ASSUME AttemptsAssumption ==
    /\ IsFiniteSet(Requests)
    /\ \A d \in Databases :
        LET table == d.attempts
            slack == Cardinality(Requests) - 1
        IN  /\ DOMAIN table \subseteq Attempt /\ IsFiniteSet(DOMAIN table)
            /\ \A a \in DOMAIN table : table[a] \in Nat \ {0}
            /\ \A n \in Names :
                   CountAttempts(table, {a \in DOMAIN table : a.name = n}, "failed", LoginWindow)
                       <= MaxFailuresPerUser + slack
            /\ \A src \in Sources :
                   LET rows == {a \in DOMAIN table : a.source = src}
                   IN  /\ CountAttempts(table, rows, "failed", LoginWindow)
                              <= MaxFailuresPerSource + slack
                       /\ CountAttempts(table, rows, "registered", RegisterWindow)
                              <= MaxRegistrations + slack

VARIABLES
    players,   \* the players table; the id of a player is the index
    sessions,  \* the sessions table: what a token stands for
    attempts,  \* how many rows of login_attempts there are of each kind
    calls,     \* the register or login at work in a request
    made       \* registrations and logins so far

accountVars == <<players, sessions, attempts, calls, made>>

Ids == 1..Len(players)

\* A row of sessions: whose it is and how long it still has.
Session == [player : 1..MaxPlayers, left : 0..SessionTtl]

\* What an operation holds across its await.  row is the row that login read.
Call == [at : {"hashing", "verifying", "rehashing"}, name : Names \cup {None}, secret : Secrets,
         source : Sources,
         row : [id : 1..MaxPlayers, player : Player] \cup {None}]

Idle == None

\* Sessions outlive the process: whoever is not banned may have some.
AccountsInit ==
    /\ \E d \in Databases : players = d.players /\ attempts = d.attempts
    /\ sessions \in [Tokens -> {None} \cup
           {[player |-> i, left |-> SessionTtl] : i \in {j \in Ids : ~players[j].banned}}]
    /\ calls = [r \in Requests |-> Idle]
    /\ made = 0

-----------------------------------------------------------------------------
(* Reads *)

HasName(n) == \E i \in Ids : players[i].name = n
IdOf(n) == CHOOSE i \in Ids : players[i].name = n

RowsOf(n) == {a \in DOMAIN attempts : a.name = n}
RowsFrom(src) == {a \in DOMAIN attempts : a.source = src}
FailuresOf(n) == CountAttempts(attempts, RowsOf(n), "failed", LoginWindow)
FailuresFrom(src) == CountAttempts(attempts, RowsFrom(src), "failed", LoginWindow)
RegistrationsFrom(src) == CountAttempts(attempts, RowsFrom(src), "registered", RegisterWindow)

\* Who a bearer token signs in as: nobody if it is unknown, expired or banned.
Resolve(t) ==
    IF sessions[t] # None /\ sessions[t].left > 0 /\ ~players[sessions[t].player].banned
    THEN sessions[t].player ELSE None

\* The sessions after resolveSession(t): a row that no longer counts is deleted.
AfterResolve(t) == [sessions EXCEPT ![t] = IF Resolve(t) = None THEN None ELSE @]

-----------------------------------------------------------------------------
(* Writes *)

\* recordAttempt
WithAttempt(table, name, source, what) ==
    LET row == [name |-> name, source |-> source, what |-> what, age |-> 0]
    IN [a \in DOMAIN table \cup {row} |->
            (IF a \in DOMAIN table THEN table[a] ELSE 0) + (IF a = row THEN 1 ELSE 0)]

\* issue: a token nobody has.
Issued(table, t, id) == [table EXCEPT ![t] = [player |-> id, left |-> SessionTtl]]

\* A fresh token (a bound: one of Tokens must be free).
FreeTokens == {t \in Tokens : sessions[t] = None}

\* A request comes in.
Begin(r) == calls[r] = Idle /\ made < MaxCalls /\ made' = made + 1

-----------------------------------------------------------------------------
(* register *)

RegisterStart(r, s, w, src) ==
    LET n == NormalizeUsername[s] IN
    /\ Begin(r)
    /\ n # None
    /\ RegistrationsFrom(src) < MaxRegistrations
    /\ ~HasName(n)
    /\ calls' = [calls EXCEPT ![r] = [at |-> "hashing", name |-> n, secret |-> w, source |-> src,
                                      row |-> None]]
    /\ UNCHANGED <<players, sessions, attempts>>

\* The UNIQUE index on username_fold refuses the insert.
RegisterTaken(r) ==
    /\ calls[r] # Idle /\ calls[r].at = "hashing"
    /\ HasName(calls[r].name)
    /\ calls' = [calls EXCEPT ![r] = Idle]
    /\ UNCHANGED <<players, sessions, attempts, made>>

Newcomer(c) == [name |-> c.name, secret |-> c.secret, weaker |-> FALSE, role |-> "player", banned |-> FALSE]

\* MUTANT: only the check before the await looks for the name.
RegisterInsertUnchecked(r, t, done) ==
    LET c == calls[r] IN
    /\ c # Idle /\ c.at = "hashing"
    /\ Len(players) < MaxPlayers
    /\ players' = Append(players, Newcomer(c))
    /\ attempts' = IF done = "insert" THEN attempts
                   ELSE WithAttempt(attempts, c.name, c.source, "registered")
    /\ sessions' = IF done = "issue" THEN Issued(sessions, t, Len(players) + 1) ELSE sessions
    /\ calls' = [calls EXCEPT ![r] = Idle]
    /\ UNCHANGED made

\* Insert, recordAttempt, issue.  done is the last of them that did not throw.
RegisterInsert(r, t, done) ==
    LET c == calls[r] IN
    /\ c # Idle /\ c.at = "hashing"
    /\ ~HasName(c.name)
    /\ Len(players) < MaxPlayers
    /\ players' = Append(players, Newcomer(c))
    /\ attempts' = IF done = "insert" THEN attempts
                   ELSE WithAttempt(attempts, c.name, c.source, "registered")
    /\ sessions' = IF done = "issue" THEN Issued(sessions, t, Len(players) + 1) ELSE sessions
    /\ calls' = [calls EXCEPT ![r] = Idle]
    /\ UNCHANGED made

-----------------------------------------------------------------------------
(* login *)

\* MUTANT: one failure too many is tolerated.
MayTryOnceMore(n, src) ==
    /\ FailuresFrom(src) <= MaxFailuresPerSource
    /\ n # None => FailuresOf(n) <= MaxFailuresPerUser

\* The checks before the first await.  A login refused here changes nothing.
MayTry(n, src) ==
    /\ FailuresFrom(src) < MaxFailuresPerSource
    /\ n # None => FailuresOf(n) < MaxFailuresPerUser

\* The row is read here; without one a decoy is hashed instead.
LoginStart(r, s, w, src) ==
    LET n == NormalizeUsername[s] IN
    /\ Begin(r)
    /\ MayTry(n, src)
    /\ calls' = [calls EXCEPT ![r] =
           [at |-> "verifying", name |-> n, secret |-> w, source |-> src,
            row |-> IF HasName(n) THEN [id |-> IdOf(n), player |-> players[IdOf(n)]] ELSE None]]
    /\ UNCHANGED <<players, sessions, attempts>>

\* A password that cannot be one is not hashed: the login fails at once.
LoginWeakPassword(r, s, src) ==
    LET n == NormalizeUsername[s] IN
    /\ Begin(r)
    /\ MayTry(n, src)
    /\ HasName(n)
    /\ attempts' = WithAttempt(attempts, n, src, "failed")
    /\ UNCHANGED <<players, sessions, calls>>

\* What the row read before the await says of this login.
Verified(c) == c.row # None /\ c.row.player.secret = c.secret
Admitted(c) == Verified(c) /\ ~c.row.player.banned

\* Wrong name, wrong password, or banned when the row was read.
LoginRefused(r) ==
    LET c == calls[r] IN
    /\ c # Idle /\ c.at = "verifying"
    /\ ~Admitted(c)
    /\ attempts' = WithAttempt(attempts, c.name, c.source, "failed")
    /\ calls' = [calls EXCEPT ![r] = Idle]
    /\ UNCHANGED <<players, sessions, made>>

\* A hash made with weaker settings is made again: a second await.
LoginRehash(r) ==
    LET c == calls[r] IN
    /\ c # Idle /\ c.at = "verifying"
    /\ Admitted(c) /\ c.row.player.weaker
    /\ calls' = [calls EXCEPT ![r].at = "rehashing"]
    /\ UNCHANGED <<players, sessions, attempts, made>>

\* The end of a login that succeeds.  The row of ok = 1 is counted by no query.
\* Without issued, a statement after the new hash has thrown.
LoginSucceeds(r, t, issued) ==
    LET c == calls[r] IN
    /\ c # Idle
    /\ \/ c.at = "verifying" /\ Admitted(c) /\ ~c.row.player.weaker /\ UNCHANGED players
       \/ c.at = "rehashing"
          /\ players' = [players EXCEPT ![c.row.id].secret = c.secret, ![c.row.id].weaker = FALSE]
    /\ sessions' = IF issued THEN Issued(sessions, t, c.row.id) ELSE sessions
    /\ calls' = [calls EXCEPT ![r] = Idle]
    /\ UNCHANGED <<attempts, made>>

\* scrypt or a statement throws before anything is written: the answer is 500.
CallFails(r) ==
    /\ calls[r] # Idle
    /\ calls' = [calls EXCEPT ![r] = Idle]
    /\ UNCHANGED <<players, sessions, attempts, made>>

-----------------------------------------------------------------------------
(* Sessions *)

\* Any GET with a bearer token resolves it: /api/me, the console's reads.
Me(t) ==
    /\ sessions[t] # None
    /\ sessions' = AfterResolve(t)
    /\ UNCHANGED <<players, attempts, calls, made>>

Logout(t) ==
    /\ sessions[t] # None
    /\ sessions' = [sessions EXCEPT ![t] = None]
    /\ UNCHANGED <<players, attempts, calls, made>>

\* prune: rows past every window, sessions at their end.
Prune ==
    /\ sessions' = [t \in Tokens |-> IF sessions[t] # None /\ sessions[t].left = 0 THEN None ELSE sessions[t]]
    /\ attempts' = [a \in {b \in DOMAIN attempts : b.age < LongestWindow} |-> attempts[a]]
    /\ UNCHANGED <<players, calls, made>>

\* One unit of time: minutes, where a hash takes a tenth of a second, so that
\* no call is at work.  Rows that become alike are added up.
Older(a) == [a EXCEPT !.age = IF @ < LongestWindow THEN @ + 1 ELSE @]
Elapse ==
    /\ \A r \in Requests : calls[r] = Idle
    /\ sessions' = [t \in Tokens |->
           IF sessions[t] # None /\ sessions[t].left > 0 THEN [sessions[t] EXCEPT !.left = @ - 1] ELSE sessions[t]]
    /\ attempts' = [a \in {Older(b) : b \in DOMAIN attempts} |->
           MapThenSumSet(LAMBDA b : attempts[b], {b \in DOMAIN attempts : Older(b) = a})]
    /\ UNCHANGED <<players, calls, made>>
=============================================================================
