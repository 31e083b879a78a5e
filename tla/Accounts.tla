------------------------------ MODULE Accounts ------------------------------
(***************************************************************************)
(* The accounts and sessions of the user-management service                *)
(* (controllers/auth.controller.ts, changePassword of users.controller.ts):  *)
(* HTTP requests that each run a few SQL statements over one pool of         *)
(* clients, register inside a transaction, against the tables of schema.sql. *)
(*                                                                         *)
(* An action is the code between two awaits: one statement, executed, and    *)
(* what the handler does with its result.  A statement may fail, and so may  *)
(* the connection before the answer of an executed one.                     *)
(***************************************************************************)
EXTENDS Naturals, FiniteSets

CONSTANTS
    Request,   \* the requests that are made, which bounds a behaviour
    Seed,      \* ids of accounts there from before, each with one session
    SeedIdentity,  \* their usernames and matricules
    Identity,  \* the pairs of a username and a matricule that are used
    Password,
    PoolSize,  \* `max` of the pool of clients
    None       \* no such row, or nothing given

\* The UNIQUE constraints of users.
Clash(d, e) == d.name = e.name \/ d.matricule = e.matricule

\* A generated uuid is named after the request that generates it.
Id == Request \cup Seed
Session == [user : Id, revoked : BOOLEAN, expired : BOOLEAN]

ASSUME ConstantsAssumption ==
    /\ PoolSize \in Nat \ {0}
    /\ None \notin Request \cup Seed \cup Password \cup Identity \cup Session
    /\ Request \cap Seed = {}
    /\ SeedIdentity \in [Seed -> Identity]
    /\ \A i, j \in Seed : i # j => ~Clash(SeedIdentity[i], SeedIdentity[j])

Table == {"users", "profiles", "settings", "presences", "sessions"}

VARIABLES
    accounts,  \* users: the identity of every account
    password,  \* users.password_hash
    profiles, settings, presences,  \* the user_ids in the other tables
    sessions,  \* user_sessions
    req,       \* the handler of every request
    tx,        \* the tables each open transaction has inserted into
    clients    \* the requests that hold a client of the pool
tables == <<accounts, password, profiles, settings, presences, sessions>>
vars == <<accounts, password, profiles, settings, presences, sessions, req, tx, clients>>

-----------------------------------------------------------------------------
NewSession(u) == [user |-> u, revoked |-> FALSE, expired |-> FALSE]

\* Where a handler is: "new" was not sent, "done" was answered (or died with
\* the process); any other place names the await it is suspended at, a table
\* that of register's INSERT.
Place == {"new", "done",
          "find user", "connect", "commit", "read user", "store session", "read profile",
          "read session", "touch session", "revoke", "read hash", "store hash"} \cup Table

Handler == [op : {"none", "register", "login", "refresh", "logout", "changePassword"},
            at : Place,
            identity : Identity \cup {None},   \* register; of login, its matricule
            password : Password \cup {None},   \* also currentPassword
            new : Password \cup {None},        \* newPassword
            user : Id \cup {None},             \* req.user.userId, or user.id as read
            session : Id \cup {None},
            status : {0, 200, 201, 401, 404, 409, 500},
            late : BOOLEAN]     \* history: sent after the logout of its session was answered

TypeOK ==
    /\ accounts \in [Id -> Identity \cup {None}]
    /\ password \in [Id -> Password \cup {None}]
    /\ profiles \subseteq Id /\ settings \subseteq Id /\ presences \subseteq Id
    /\ sessions \in [Id -> Session \cup {None}]
    /\ req \in [Request -> Handler]
    /\ tx \in [Request -> SUBSET Table]
    /\ clients \subseteq Request

Account == {i \in Id : accounts[i] # None}

Init ==
    /\ accounts = [i \in Id |-> IF i \in Seed THEN SeedIdentity[i] ELSE None]
    /\ \E p \in Password : password = [i \in Id |-> IF i \in Seed THEN p ELSE None]
    /\ profiles = Seed /\ settings = Seed /\ presences = Seed
    /\ sessions = [i \in Id |-> IF i \in Seed THEN NewSession(i) ELSE None]
    /\ req = [r \in Request |-> [op |-> "none", at |-> "new", identity |-> None,
                                 password |-> None, new |-> None, user |-> None,
                                 session |-> None, status |-> 0, late |-> FALSE]]
    /\ tx = [r \in Request |-> {}]
    /\ clients = {}

-----------------------------------------------------------------------------
(* Requests arrive; those of logout and changePassword bear the access token  *)
(* of an account, which requireAuth has verified.                           *)

LoggedOut(s) ==
    \E q \in Request : req[q].op = "logout" /\ req[q].status = 200 /\ req[q].session = s

Sends(r, h) == req' = [req EXCEPT ![r] = h]

Arrive(r) ==
    /\ req[r].at = "new"
    /\ \/ \E d \in Identity, p \in Password :
             \/ Sends(r, [req[r] EXCEPT !.op = "register", !.at = "find user",
                                        !.identity = d, !.password = p])
             \/ Sends(r, [req[r] EXCEPT !.op = "login", !.at = "read user",
                                        !.identity = d, !.password = p])
       \/ \E s \in Id :
             Sends(r, [req[r] EXCEPT !.op = "refresh", !.at = "read session",
                                     !.session = s, !.late = LoggedOut(s)])
       \/ \E u \in Account, s \in Id :
             Sends(r, [req[r] EXCEPT !.op = "logout", !.at = "revoke",
                                     !.user = u, !.session = s])
       \/ \E u \in Account, p \in Password, n \in Password :
             Sends(r, [req[r] EXCEPT !.op = "changePassword", !.at = "read hash",
                                     !.user = u, !.password = p, !.new = n])
    /\ UNCHANGED <<tables, tx, clients>>

-----------------------------------------------------------------------------
(* Statements *)

\* The handler is at this statement, and there is a client to run it: the one
\* it holds or, for pool.query, an idle one.
At(r, place) ==
    /\ req[r].at = place
    /\ r \in clients \/ Cardinality(clients) < PoolSize

Goto(r, place) == req' = [req EXCEPT ![r].at = place]

Answer(r, status) == req' = [req EXCEPT ![r].at = "done", ![r].status = status]

\* The answer of an executed pool.query may be lost: next(error), status 500.
GotoOrFail(r, place) == Goto(r, place) \/ Answer(r, 500)
AnswerOrFail(r, status) == Answer(r, status) \/ Answer(r, 500)

\* Mutant: the release is not in `finally`.
FailKeepsClient(r) ==
    /\ req[r].at \notin {"new", "done"}
    /\ tx' = [tx EXCEPT ![r] = {}]
    /\ Answer(r, 500)
    /\ UNCHANGED <<tables, clients>>

\* A statement that is not executed: the transaction, if any, is rolled back
\* and the client released, and errorHandler answers.
\* (An error of ROLLBACK itself does not skip the release in `finally`.)
Fail(r) ==
    /\ req[r].at \notin {"new", "done"}
    /\ tx' = [tx EXCEPT ![r] = {}]
    /\ clients' = clients \ {r}
    /\ Answer(r, 500)
    /\ UNCHANGED tables

-----------------------------------------------------------------------------
(* register *)

FindUser(r) ==
    /\ At(r, "find user")
    /\ IF \E i \in Account : Clash(accounts[i], req[r].identity)
       THEN Answer(r, 409)
       ELSE Goto(r, "connect")
    /\ UNCHANGED <<tables, tx, clients>>

\* pool.connect and BEGIN, after hashPassword.
Connect(r) ==
    /\ At(r, "connect")
    /\ clients' = clients \cup {r}
    /\ Goto(r, "users")
    /\ UNCHANGED <<tables, tx>>

\* Mutant: no UNIQUE constraint, the check before the transaction must do.
InsertUserUnchecked(r) ==
    /\ At(r, "users")
    /\ tx' = [tx EXCEPT ![r] = {"users"}]
    /\ Goto(r, "profiles")
    /\ UNCHANGED <<tables, clients>>

\* The INSERT waits for a transaction that has inserted a row it clashes with.
InsertUser(r) ==
    /\ At(r, "users")
    /\ \A i \in Account : ~Clash(accounts[i], req[r].identity)
    /\ \A q \in Request : "users" \in tx[q] => ~Clash(req[q].identity, req[r].identity)
    /\ tx' = [tx EXCEPT ![r] = {"users"}]
    /\ Goto(r, "profiles")
    /\ UNCHANGED <<tables, clients>>

\* The unique violation that another registration got there first.
InsertUserClashes(r) ==
    /\ At(r, "users")
    /\ \E i \in Account : Clash(accounts[i], req[r].identity)
    /\ Fail(r)

Following == [profiles |-> "settings", settings |-> "presences",
              presences |-> "sessions", sessions |-> "commit"]

\* Mutant: settings is inserted with pool.query, outside the transaction.
InsertByPool(r, t) ==
    /\ At(r, t)
    /\ tx' = [tx EXCEPT ![r] = @ \cup {t}]
    /\ settings' = IF t = "settings" THEN settings \cup {r} ELSE settings
    /\ Goto(r, Following[t])
    /\ UNCHANGED <<accounts, password, profiles, presences, sessions, clients>>

InsertRow(r, t) ==
    /\ At(r, t)
    /\ tx' = [tx EXCEPT ![r] = @ \cup {t}]
    /\ Goto(r, Following[t])
    /\ UNCHANGED <<tables, clients>>

\* The rows of the transaction become visible.
Apply(r) ==
    LET rows(t) == IF t \in tx[r] THEN {r} ELSE {}
    IN  /\ accounts' = [i \in Id |-> IF i \in rows("users") THEN req[r].identity ELSE accounts[i]]
        /\ password' = [i \in Id |-> IF i \in rows("users") THEN req[r].password ELSE password[i]]
        /\ profiles' = profiles \cup rows("profiles")
        /\ settings' = settings \cup rows("settings")
        /\ presences' = presences \cup rows("presences")
        /\ sessions' = [i \in Id |-> IF i \in rows("sessions") THEN NewSession(r) ELSE sessions[i]]

\* Mutant: 201 is sent before COMMIT, which may yet fail.
CommitAfterAnswer(r) ==
    /\ At(r, "commit")
    /\ Apply(r) \/ UNCHANGED tables
    /\ tx' = [tx EXCEPT ![r] = {}]
    /\ clients' = clients \ {r}
    /\ Answer(r, 201)

Commit(r) ==
    /\ At(r, "commit")
    /\ Apply(r)
    /\ tx' = [tx EXCEPT ![r] = {}]
    /\ clients' = clients \ {r}
    /\ AnswerOrFail(r, 201)

Register(r) ==
    \/ FindUser(r) \/ Connect(r) \/ InsertUser(r) \/ InsertUserClashes(r) \/ Commit(r)
    \/ \E t \in DOMAIN Following : InsertRow(r, t)

-----------------------------------------------------------------------------
(* login *)

\* Mutant: the session is for the matricule, not the id of the user.
ReadUserIdentity(r) ==
    /\ At(r, "read user")
    /\ LET found == {i \in Account : accounts[i].matricule = req[r].identity.matricule}
       IN  \/ found = {} /\ Answer(r, 404)
           \/ \E i \in found :
                req' = [req EXCEPT ![r].at = "store session", ![r].user = accounts[i]]
    /\ UNCHANGED <<tables, tx, clients>>

\* No code makes an account anything but ACTIVE, so 403 is never answered.
ReadUser(r) ==
    /\ At(r, "read user")
    /\ LET found == {i \in Account : accounts[i].matricule = req[r].identity.matricule}
       IN  \/ found = {} /\ Answer(r, 404)
           \/ \E i \in found :
                IF password[i] = req[r].password
                THEN req' = [req EXCEPT ![r].at = "store session", ![r].user = i]
                ELSE Answer(r, 401)
    /\ UNCHANGED <<tables, tx, clients>>

StoreSession(r) ==
    /\ At(r, "store session")
    /\ sessions' = [sessions EXCEPT ![r] = NewSession(req[r].user)]
    /\ GotoOrFail(r, "read profile")
    /\ UNCHANGED <<accounts, password, profiles, settings, presences, tx, clients>>

\* The update of last_login_at and the select of the profile.
ReadProfile(r) ==
    /\ At(r, "read profile")
    /\ AnswerOrFail(r, 200)
    /\ UNCHANGED <<tables, tx, clients>>

Login(r) == ReadUser(r) \/ StoreSession(r) \/ ReadProfile(r)

-----------------------------------------------------------------------------
(* refresh and logout *)

ReadSession(r) ==
    /\ At(r, "read session")
    /\ LET s == sessions[req[r].session]
       IN  IF s = None \/ (s # None /\ (s.revoked \/ s.expired))
           THEN Answer(r, 401)
           ELSE Goto(r, "touch session")
    /\ UNCHANGED <<tables, tx, clients>>

\* Mutant: the row is written back as it was read.
TouchWritesBack(r) ==
    /\ At(r, "touch session")
    /\ sessions' = [sessions EXCEPT ![req[r].session].revoked = FALSE]
    /\ AnswerOrFail(r, 200)
    /\ UNCHANGED <<accounts, password, profiles, settings, presences, tx, clients>>

\* last_activity_at; the new access token goes out.
TouchSession(r) ==
    /\ At(r, "touch session")
    /\ AnswerOrFail(r, 200)
    /\ UNCHANGED <<tables, tx, clients>>

Revoke(r) ==
    LET s == req[r].session
    IN  /\ At(r, "revoke")
        /\ IF sessions[s] # None /\ sessions[s].user = req[r].user
           THEN /\ sessions' = [sessions EXCEPT ![s].revoked = TRUE]
                /\ AnswerOrFail(r, 200)
           ELSE Answer(r, 404) /\ UNCHANGED sessions
        /\ UNCHANGED <<accounts, password, profiles, settings, presences, tx, clients>>

\* Seven days pass.
Expire(i) ==
    /\ sessions[i] # None /\ ~sessions[i].expired
    /\ sessions' = [sessions EXCEPT ![i].expired = TRUE]
    /\ UNCHANGED <<accounts, password, profiles, settings, presences, req, tx, clients>>

-----------------------------------------------------------------------------
(* changePassword *)

ReadHash(r) ==
    /\ At(r, "read hash")
    /\ IF password[req[r].user] = req[r].password
       THEN Goto(r, "store hash")
       ELSE Answer(r, 401)
    /\ UNCHANGED <<tables, tx, clients>>

StoreHash(r) ==
    /\ At(r, "store hash")
    /\ password' = [password EXCEPT ![req[r].user] = req[r].new]
    /\ AnswerOrFail(r, 200)
    /\ UNCHANGED <<accounts, profiles, settings, presences, sessions, tx, clients>>

-----------------------------------------------------------------------------
\* The process dies and is started again; the database rolls back.
Crash ==
    /\ \E r \in Request : req[r].at \notin {"new", "done"}
    /\ req' = [r \in Request |-> IF req[r].at = "new" THEN req[r] ELSE [req[r] EXCEPT !.at = "done"]]
    /\ tx' = [r \in Request |-> {}]
    /\ clients' = {}
    /\ UNCHANGED tables

Statement(r) ==
    \/ Register(r) \/ Login(r)
    \/ ReadSession(r) \/ TouchSession(r) \/ Revoke(r)
    \/ ReadHash(r) \/ StoreHash(r)

Next ==
    \/ \E r \in Request : Arrive(r) \/ Statement(r) \/ Fail(r)
    \/ \E i \in Id : Expire(i)
    \/ Crash

Spec == Init /\ [][Next]_vars

-----------------------------------------------------------------------------
(* Properties *)

\* No two accounts share a username or a matricule, although register looks
\* for one and awaits a bcrypt hash and a client before it inserts.
UniqueAccounts ==
    \A i, j \in Account : i # j => ~Clash(accounts[i], accounts[j])

\* An account has its profile, settings and presence row and none of these
\* rows, nor a session, is without its account, wherever a registration fails
\* or the process dies.
WholeAccounts ==
    /\ profiles = Account /\ settings = Account /\ presences = Account
    /\ \A i \in Id : sessions[i] # None => sessions[i].user \in Account

\* What register has answered is so from then on: 201 means the account of
\* that identity and its session exist, 409 that nothing was created.
AnswersStayTrue ==
    \A r \in Request : req[r].op = "register" =>
        /\ req[r].status = 201 => accounts[r] = req[r].identity /\ sessions[r] # None
        /\ req[r].status = 409 => accounts[r] = None /\ sessions[r] = None

\* A refresh that is sent after the logout of its session was answered never
\* gets an access token, whatever refreshes were in flight during the logout.
RevokedStaysOut ==
    \A r \in Request : req[r].op = "refresh" /\ req[r].late => req[r].status # 200

Waits(r) == req[r].at \notin {"new", "done"}

\* The next statement of r has a client to run it, and waits for no row.
MayRun(r) ==
    /\ Waits(r) /\ At(r, req[r].at)
    /\ req[r].at = "users" =>
          \/ \E i \in Account : Clash(accounts[i], req[r].identity)
          \/ \A q \in Request : "users" \in tx[q] => ~Clash(req[q].identity, req[r].identity)

\* While a request waits, some request may run: the clients of the pool come
\* back on every path, and requests that wait for a client or for a clashing
\* row never wait for each other.  As a request has only so many statements,
\* every one is answered.
NobodyStuck == (\E r \in Request : Waits(r)) => \E r \in Request : MayRun(r)

\* Nobody is stuck, and a request that may run does have a statement to run,
\* whatever its place (a handler has no state without a way on).
SomebodyProceeds == NobodyStuck /\ \A r \in Request : MayRun(r) <=> ENABLED Statement(r)

=============================================================================
