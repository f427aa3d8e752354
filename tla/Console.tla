------------------------------ MODULE Console ------------------------------
(***************************************************************************)
(* Operators, bans and the sockets of accounts:                            *)
(* packages/store/src/admin.ts (AdminStore), packages/server/src/          *)
(* admin-api.ts and api.ts (routes), and the parts of server.ts that tie   *)
(* a socket to an account and cut it off.                                  *)
(*                                                                         *)
(* A POST waits for its body; authorisation and the whole of the route     *)
(* then run without interruption, so they are one action.  A body that     *)
(* cannot be read (too large, late, no JSON object) is answered at once,   *)
(* and the route still runs, with an empty body.                           *)
(*                                                                         *)
(* closeRoom and flush act on the lobby and the store: see Rooms, Store.   *)
(* The statements of a console request are taken to succeed: ban, role and *)
(* unban are not in one transaction with their entry in the audit log.     *)
(* A restart falls between two of the actions below.                       *)
(***************************************************************************)
EXTENDS Accounts

CONSTANTS
    Posts,    \* console requests at work at once (a bound)
    MaxPosts, \* console requests in a behaviour (a bound)
    Sockets,  \* socket connections
    Notices   \* texts an operator may publish

ASSUME ConsoleAssumption == None \notin Notices /\ MaxPosts \in Nat

VARIABLES
    posts,        \* console requests whose body has arrived: token and body
    posted,       \* console requests so far
    conn,         \* sockets: state and account
    maintenance,
    notice,       \* a text or None
    audit         \* what the audit log says: of roles and bans from its first entry
                  \* on, of switch and notice from the first one of this process on

consoleVars == <<posts, posted, conn, maintenance, notice, audit>>
vars == <<accountVars, consoleVars>>

Off == [state |-> "off", account |-> None]

\* The state of the system according to a log; every entry moves it on.
Record == [roles : [1..MaxPlayers -> Roles], banned : SUBSET (1..MaxPlayers),
           maintenance : BOOLEAN, notice : Notices \cup {None}]

TypeOK ==
    /\ players \in Seq(Player) /\ Len(players) <= MaxPlayers
    /\ sessions \in [Tokens -> Session \cup {None}]
    /\ \A t \in Tokens : sessions[t] # None => sessions[t].player \in Ids
    /\ DOMAIN attempts \subseteq Attempt
    /\ \A a \in DOMAIN attempts : attempts[a] \in Nat \ {0}
    /\ calls \in [Requests -> Call \cup {Idle}]
    /\ posts \in [Posts -> [bearer : Tokens, readable : BOOLEAN] \cup {Idle}]
    /\ made \in 0..MaxCalls /\ posted \in 0..MaxPosts
    /\ conn \in [Sockets -> [state : {"off", "open", "kicked"}, account : Ids \cup {None}]]
    /\ maintenance \in BOOLEAN
    /\ notice \in Notices \cup {None}
    /\ audit \in Record

RoleAtStart(i) == IF i \in Ids THEN players[i].role ELSE "player"

Init ==
    /\ AccountsInit
    /\ posts = [r \in Posts |-> Idle]
    /\ posted = 0
    /\ conn = [s \in Sockets |-> Off]
    /\ maintenance = FALSE
    /\ notice = None
    /\ audit = [roles |-> [i \in 1..MaxPlayers |-> RoleAtStart(i)],
                banned |-> {i \in Ids : players[i].banned},
                maintenance |-> FALSE, notice |-> None]

\* isAdmin, adminCount
Operators == {i \in Ids : players[i].role \in {"admin", "owner"}}

-----------------------------------------------------------------------------
(* Sockets *)

\* A handshake without a token, with one that counts for nothing, or when the
\* lookup throws: the socket plays as a guest.
ConnectGuest(s) ==
    /\ conn[s] = Off
    /\ conn' = [conn EXCEPT ![s] = [state |-> "open", account |-> None]]
    /\ UNCHANGED <<accountVars, posts, posted, maintenance, notice, audit>>

\* isBanned is asked again here, after resolveSession.
Connect(s, t) ==
    LET i == Resolve(t) IN
    /\ conn[s] = Off
    /\ sessions[t] # None
    /\ conn' = [conn EXCEPT ![s] =
           IF i # None /\ players[i].banned THEN [state |-> "kicked", account |-> None]
           ELSE [state |-> "open", account |-> i]]
    /\ sessions' = AfterResolve(t)
    /\ UNCHANGED <<players, attempts, calls, made, posts, posted, maintenance, notice, audit>>

\* The timer that kick and disconnectAccount have set, 50 ms later.
Cut(s) ==
    /\ conn[s].state = "kicked"
    /\ conn' = [conn EXCEPT ![s] = Off]
    /\ UNCHANGED <<accountVars, posts, posted, maintenance, notice, audit>>

\* The client goes.
Leave(s) ==
    /\ conn[s].state = "open"
    /\ conn' = [conn EXCEPT ![s] = Off]
    /\ UNCHANGED <<accountVars, posts, posted, maintenance, notice, audit>>

-----------------------------------------------------------------------------
(* Console requests *)

\* readJson is over.  readable says whether it returned the body, or null after
\* having answered the request.
PostArrives(r, t, readable) ==
    /\ posts[r] = Idle /\ posted < MaxPosts
    /\ posted' = posted + 1
    /\ sessions[t] # None
    /\ posts' = [posts EXCEPT ![r] = [bearer |-> t, readable |-> readable]]
    /\ UNCHANGED <<accountVars, conn, maintenance, notice, audit>>

SignsInAs(r, a) == posts[r] # Idle /\ a = Resolve(posts[r].bearer)

\* MUTANT: any session will do.
GovernsAnySession(r, a) == SignsInAs(r, a) /\ a # None

\* requireOperator: the request signs in as a, and a is an operator.
Governs(r, a) == SignsInAs(r, a) /\ a \in Operators

Answer(r) == posts' = [posts EXCEPT ![r] = Idle] /\ UNCHANGED posted

\* 400, 401, 403, 404, 409: nothing changes but a session that no longer counts.
PostRefused(r) ==
    /\ posts[r] # Idle
    /\ Answer(r)
    /\ sessions' = AfterResolve(posts[r].bearer)
    /\ UNCHANGED <<players, attempts, calls, made, conn, maintenance, notice, audit>>

\* claimFirstOwner, one transaction.  It reads no body.
PostSetup(r, a) ==
    /\ SignsInAs(r, a) /\ a # None
    /\ Operators = {}
    /\ Answer(r)
    /\ players' = [players EXCEPT ![a].role = "owner"]
    /\ audit' = [audit EXCEPT !.roles[a] = "owner"]
    /\ UNCHANGED <<sessions, attempts, calls, made, conn, maintenance, notice>>

\* body.on === true; an empty body switches maintenance off.
PostMaintenance(r, a, on) ==
    /\ Governs(r, a)
    /\ on => posts[r].readable
    /\ Answer(r)
    /\ maintenance' = on
    /\ audit' = [audit EXCEPT !.maintenance = on]
    /\ UNCHANGED <<accountVars, conn, notice>>

\* An empty body clears the notice.
PostNotice(r, a, text) ==
    /\ Governs(r, a)
    /\ text # None => posts[r].readable
    /\ Answer(r)
    /\ notice' = text
    /\ audit' = [audit EXCEPT !.notice = text]
    /\ UNCHANGED <<accountVars, conn, maintenance>>

PostKick(r, a, s) ==
    /\ Governs(r, a) /\ posts[r].readable
    /\ conn[s].state # "off"
    /\ Answer(r)
    /\ conn' = [conn EXCEPT ![s].state = "kicked"]
    /\ UNCHANGED <<accountVars, maintenance, notice, audit>>

\* MUTANT: the sockets are looked for through the sessions of the account.
DisconnectedBySession(i) ==
    [s \in Sockets |-> IF conn[s].account = i /\ \E t \in Tokens : sessions[t] # None /\ sessions[t].player = i
                       THEN [conn[s] EXCEPT !.state = "kicked"] ELSE conn[s]]

\* disconnectAccount
Disconnected(i) ==
    [s \in Sockets |-> IF conn[s].account = i THEN [conn[s] EXCEPT !.state = "kicked"] ELSE conn[s]]

\* ban: the flag and the sessions in one transaction, the entry, the sockets.
PostBan(r, a, i) ==
    /\ Governs(r, a) /\ posts[r].readable
    /\ i \in Ids \ {a}
    /\ players[i].role # "player" => players[a].role = "owner"
    /\ Answer(r)
    /\ players' = [players EXCEPT ![i].banned = TRUE]
    /\ sessions' = [t \in Tokens |->
           IF sessions[t] # None /\ sessions[t].player = i THEN None ELSE sessions[t]]
    /\ conn' = Disconnected(i)
    /\ audit' = [audit EXCEPT !.banned = @ \cup {i}]
    /\ UNCHANGED <<attempts, calls, made, maintenance, notice>>

\* MUTANT: lifting a ban is not recorded.
PostUnbanUnrecorded(r, a, i) ==
    /\ Governs(r, a) /\ posts[r].readable
    /\ i \in Ids
    /\ Answer(r)
    /\ players' = [players EXCEPT ![i].banned = FALSE]
    /\ UNCHANGED <<sessions, attempts, calls, made, conn, maintenance, notice, audit>>

PostUnban(r, a, i) ==
    /\ Governs(r, a) /\ posts[r].readable
    /\ i \in Ids
    /\ Answer(r)
    /\ players' = [players EXCEPT ![i].banned = FALSE]
    /\ audit' = [audit EXCEPT !.banned = @ \ {i}]
    /\ UNCHANGED <<sessions, attempts, calls, made, conn, maintenance, notice>>

\* MUTANT: only the last operator is protected.
MayAssignLastOnly(a, i, role) ==
    /\ role # "player" => players[a].role = "owner"
    /\ players[i].role = "owner" => players[a].role = "owner"
    /\ ~(role = "player" /\ players[i].role # "player" /\ Cardinality(Operators) <= 1)

\* The route's own test, then those of assignRole.
MayAssign(a, i, role) ==
    /\ role # "player" => players[a].role = "owner"
    /\ players[i].role = "owner" => players[a].role = "owner"
    /\ ~(i = a /\ role = "player")
    /\ ~(role = "player" /\ players[i].role # "player" /\ Cardinality(Operators) <= 1)

PostRole(r, a, i, role) ==
    /\ Governs(r, a) /\ posts[r].readable
    /\ i \in Ids
    /\ MayAssign(a, i, role)
    /\ Answer(r)
    /\ players' = [players EXCEPT ![i].role = role]
    /\ audit' = [audit EXCEPT !.roles[i] = role]
    /\ UNCHANGED <<sessions, attempts, calls, made, conn, maintenance, notice>>

-----------------------------------------------------------------------------
\* Tokens an operation may mint: none that a request still carries.
Mintable == FreeTokens \ {posts[r].bearer : r \in {q \in Posts : posts[q] # Idle}}

AccountStep ==
    /\ \/ \E r \in Requests, s \in Spellings, w \in Secrets, src \in Sources :
             RegisterStart(r, s, w, src) \/ LoginStart(r, s, w, src)
       \/ \E r \in Requests, s \in Spellings, src \in Sources : LoginWeakPassword(r, s, src)
       \/ \E r \in Requests : RegisterTaken(r) \/ LoginRefused(r) \/ LoginRehash(r) \/ CallFails(r)
       \/ \E r \in Requests, t \in Mintable, done \in {"insert", "attempt", "issue"} :
             RegisterInsert(r, t, done)
       \/ \E r \in Requests, t \in Mintable, issued \in BOOLEAN : LoginSucceeds(r, t, issued)
       \/ \E t \in Tokens : Me(t) \/ Logout(t)
       \/ Prune
       \/ Elapse
    /\ UNCHANGED consoleVars

SocketStep ==
    \E s \in Sockets :
        \/ ConnectGuest(s) \/ Cut(s) \/ Leave(s)
        \/ \E t \in Tokens : Connect(s, t)

PostStep ==
    \E r \in Posts :
        \/ \E t \in Tokens, readable \in BOOLEAN : PostArrives(r, t, readable)
        \/ PostRefused(r)
        \/ \E a \in Ids :
            \/ PostSetup(r, a)
            \/ \E on \in BOOLEAN : PostMaintenance(r, a, on)
            \/ \E text \in Notices \cup {None} : PostNotice(r, a, text)
            \/ \E s \in Sockets : PostKick(r, a, s)
            \/ \E i \in Ids : PostBan(r, a, i) \/ PostUnban(r, a, i)
            \/ \E i \in Ids, role \in Roles : PostRole(r, a, i, role)

\* The process ends and another one starts on the same database.  Requests and
\* sockets end with it, and so do the operators' decisions about "this process
\* right now"; players, sessions, attempts and the log are what they were.
Restart ==
    /\ calls' = [r \in Requests |-> Idle]
    /\ posts' = [r \in Posts |-> Idle]
    /\ conn' = [s \in Sockets |-> Off]
    /\ maintenance' = FALSE
    /\ notice' = None
    /\ audit' = [audit EXCEPT !.maintenance = FALSE, !.notice = None]
    /\ UNCHANGED <<players, sessions, attempts, made, posted>>

Next == AccountStep \/ SocketStep \/ PostStep \/ Restart

Spec == Init /\ [][Next]_vars

-----------------------------------------------------------------------------
(* Properties *)

\* However registrations overlap their hashing, a name has one account.
NamesAreUnique == \A i, j \in Ids : players[i].name = players[j].name => i = j

\* The limits are checked before the await and counted after it: calls that
\* overlap can overrun them, but by no more than there are calls at once.
LimitsOverrunOnlyByCallsAtOnce ==
    LET slack == Cardinality(Requests) - 1 IN
    /\ \A n \in Names : FailuresOf(n) <= MaxFailuresPerUser + slack
    /\ \A src \in Sources : /\ FailuresFrom(src) <= MaxFailuresPerSource + slack
                            /\ RegistrationsFrom(src) <= MaxRegistrations + slack

\* "A ban that leaves the player mid-match is not a ban" (admin-api.ts:179): a
\* socket that plays as a banned account has been told to go, whatever logins
\* and handshakes were under way when the ban came.
BannedAreBeingCut ==
    \A s \in Sockets : conn[s].account # None /\ players[conn[s].account].banned => conn[s].state = "kicked"

\* The audit log gives the roles and the bans as they are, read from its first
\* entry on, through restarts; and the maintenance switch and the notice, read
\* from the first entry of this process on: a restart clears these two, and
\* writes no entry.
AuditTellsTheState ==
    /\ \A i \in Ids : /\ audit.roles[i] = players[i].role
                      /\ i \in audit.banned <=> players[i].banned
    /\ audit.maintenance = maintenance
    /\ audit.notice = notice

\* Accounts in good standing with a live session: what a request could act as.
SignedIn == {i \in Ids : ~players[i].banned /\ \E t \in Tokens :
                 sessions[t] # None /\ sessions[t].player = i /\ sessions[t].left > 0}

\* A step that changes what account i is does it for somebody signed in, whose
\* rank allows it; the first owner is made while there is no operator.
RankAllows(i) ==
    /\ players'[i].role # players[i].role =>
         \/ Operators = {} /\ i \in SignedIn /\ players'[i].role = "owner"
         \/ \E a \in SignedIn \cap Operators :
                /\ "owner" \in {players[i].role, players'[i].role} => players[a].role = "owner"
                /\ players'[i].role # "player" => players[a].role = "owner"
    /\ players'[i].banned # players[i].banned =>
         \E a \in SignedIn \cap Operators :
             players'[i].banned => a # i /\ (i \in Operators => players[a].role = "owner")

\* Roles and bans change only by somebody signed in whose rank allows it, and
\* who is not banned at that moment, even if the sign-in overlapped the ban.
GovernedByRank == [][\A i \in Ids : RankAllows(i)]_vars

\* Once there is an operator, no sequence of role changes and bans, of whatever
\* number of operators, leaves the console to nobody who can sign in.
ConsoleStaysReachable ==
    [][Operators # {} => \E i \in Operators' : ~players'[i].banned]_vars

\* "A malformed one is a 400" (api.ts:10): a request that was answered as
\* unreadable changes neither the maintenance switch nor the notice.  (The setup
\* route is not in question: it asks for no body.)
UnreadableBodyChangesNothing ==
    [][\A r \in Posts : posts[r] # Idle /\ ~posts[r].readable /\ posts'[r] = Idle =>
           UNCHANGED <<maintenance, notice>>]_vars

=============================================================================
