---------------------------- MODULE AccountsProofs ----------------------------
(***************************************************************************)
(* Proofs about accounts and sessions, for any requests, any accounts there  *)
(* from before and any size of the pool.                                    *)
(*                                                                         *)
(* Shape is inductive with TypeOK alone; every other invariant is inductive  *)
(* relative to it.                                                          *)
(***************************************************************************)
EXTENDS Accounts, FiniteSetTheorems, TLAPS

-----------------------------------------------------------------------------
(* What a step does to the handlers *)

\* Request r is the only one that gets on, with the inputs it came with.
OnlyAdvances(r) ==
    /\ req' \in [Request -> Handler]
    /\ \A q \in Request : q # r => req'[q] = req[q]
    /\ req'[r].op = req[r].op /\ req'[r].identity = req[r].identity
    /\ req'[r].password = req[r].password /\ req'[r].new = req[r].new
    /\ req'[r].session = req[r].session /\ req'[r].late = req[r].late

Moves(r, place) ==
    /\ OnlyAdvances(r) /\ req'[r].user = req[r].user
    /\ req'[r].at = place /\ req'[r].status = req[r].status

Answers(r, status) ==
    /\ OnlyAdvances(r) /\ req'[r].user = req[r].user
    /\ req'[r].at = "done" /\ req'[r].status = status

LEMMA GotoMoves ==
    ASSUME req \in [Request -> Handler], NEW r \in Request, NEW place \in Place, Goto(r, place)
    PROVE  Moves(r, place)
<1>1. PICK h : h = [req[r] EXCEPT !.at = place]
  OBVIOUS
<1>2. req' = [req EXCEPT ![r] = h]
  BY <1>1 DEF Goto
<1>3. req[r] \in Handler
  OBVIOUS
<1>4. h \in Handler
  BY <1>1, <1>3 DEF Handler
<1>5. /\ h.op = req[r].op /\ h.identity = req[r].identity
      /\ h.password = req[r].password /\ h.new = req[r].new
      /\ h.session = req[r].session /\ h.late = req[r].late
      /\ h.user = req[r].user
  BY <1>1, <1>3 DEF Handler
<1>6. h.at = place /\ h.status = req[r].status
  BY <1>1, <1>3 DEF Handler
<1>7. /\ req' \in [Request -> Handler] /\ req'[r] = h
      /\ \A q \in Request : q # r => req'[q] = req[q]
  BY <1>2, <1>4
<1> QED
  BY <1>5, <1>6, <1>7 DEF Moves, OnlyAdvances

Status == {0, 200, 201, 401, 404, 409, 500}

LEMMA AnswerAnswers ==
    ASSUME req \in [Request -> Handler], NEW r \in Request, NEW status \in Status, Answer(r, status)
    PROVE  Answers(r, status)
<1>1. PICK h : h = [req[r] EXCEPT !.at = "done", !.status = status]
  OBVIOUS
<1>2. req' = [req EXCEPT ![r] = h]
  BY <1>1 DEF Answer
<1>3. req[r] \in Handler
  OBVIOUS
<1>4. h \in Handler
  <2>1. "done" \in Place
    BY DEF Place
  <2>2. PICK g : g = [req[r] EXCEPT !.at = "done"]
    OBVIOUS
  <2>3. g \in Handler
    BY <1>3, <2>1, <2>2 DEF Handler
  <2>4. h = [g EXCEPT !.status = status]
    BY <1>1, <1>3, <2>2 DEF Handler
  <2> QED
    BY <2>3, <2>4 DEF Handler, Status
<1>5. /\ h.op = req[r].op /\ h.identity = req[r].identity
      /\ h.password = req[r].password /\ h.new = req[r].new
      /\ h.session = req[r].session /\ h.late = req[r].late
      /\ h.user = req[r].user
  BY <1>1, <1>3 DEF Handler
<1>6. h.at = "done" /\ h.status = status
  BY <1>1, <1>3 DEF Handler
<1>7. /\ req' \in [Request -> Handler] /\ req'[r] = h
      /\ \A q \in Request : q # r => req'[q] = req[q]
  BY <1>2, <1>4
<1> QED
  BY <1>5, <1>6, <1>7 DEF Answers, OnlyAdvances

-----------------------------------------------------------------------------
(* Shape: which place belongs to which operation, and what a transaction has  *)
(* inserted at each.                                                        *)

RegisterPlace == {"find user", "connect", "commit"} \cup Table
LoginPlace == {"read user", "store session", "read profile"}
RefreshPlace == {"read session", "touch session"}

Inserted(place) ==
    {t \in {"users"} : place \in {"profiles", "settings", "presences", "sessions", "commit"}}
    \cup {t \in {"profiles"} : place \in {"settings", "presences", "sessions", "commit"}}
    \cup {t \in {"settings"} : place \in {"presences", "sessions", "commit"}}
    \cup {t \in {"presences"} : place \in {"sessions", "commit"}}
    \cup {t \in {"sessions"} : place = "commit"}

RequestShape(r) ==
    /\ req[r].at \in RegisterPlace => req[r].op = "register"
    /\ req[r].at \in LoginPlace => req[r].op = "login"
    /\ req[r].at \in RefreshPlace => req[r].op = "refresh"
    /\ req[r].at = "revoke" => req[r].op = "logout"
    /\ req[r].at # "done" => req[r].status = 0
    /\ req[r].op = "register" => req[r].identity \in Identity /\ req[r].password \in Password
    /\ req[r].op \in {"refresh", "logout"} => req[r].session \in Id
    /\ req[r].at = "store session" => req[r].user \in Account
    /\ tx[r] = Inserted(req[r].at)

Shape == \A r \in Request : RequestShape(r)

\* A step of one request that lets no account go away keeps the shape of the
\* others.
LEMMA ShapeOfOthers ==
    ASSUME Shape, NEW r \in Request, OnlyAdvances(r),
           \A q \in Request : q # r => tx'[q] = tx[q],
           Account \subseteq Account', RequestShape(r)'
    PROVE  Shape'
<1> SUFFICES ASSUME NEW q \in Request, q # r PROVE RequestShape(q)'
  BY DEF Shape
<1>1. req'[q] = req[q] /\ tx'[q] = tx[q] /\ RequestShape(q)
  BY DEF Shape, OnlyAdvances
<1> QED
  BY <1>1 DEF RequestShape

LEMMA ShapeOfMove ==
    ASSUME NEW r \in Request, RequestShape(r), NEW place \in Place, Moves(r, place),
           place \in RegisterPlace => req[r].op = "register",
           place \in LoginPlace => req[r].op = "login",
           place \in RefreshPlace => req[r].op = "refresh",
           place = "revoke" => req[r].op = "logout",
           place # "store session", req[r].at # "done", tx'[r] = Inserted(place)
    PROVE  RequestShape(r)'
  BY DEF RequestShape, Moves, OnlyAdvances

LEMMA ShapeOfAnswer ==
    ASSUME NEW r \in Request, RequestShape(r), NEW status \in Status, Answers(r, status),
           tx'[r] = {}
    PROVE  RequestShape(r)'
<1>1. Inserted("done") = {}
  BY DEF Inserted
<1> QED
  BY <1>1 DEF RequestShape, Answers, OnlyAdvances, RegisterPlace, LoginPlace, RefreshPlace, Table

TablesType ==
    /\ accounts \in [Id -> Identity \cup {None}]
    /\ password \in [Id -> Password \cup {None}]
    /\ profiles \subseteq Id /\ settings \subseteq Id /\ presences \subseteq Id
    /\ sessions \in [Id -> Session \cup {None}]

\* The commit of a registration adds its rows and touches no other.
LEMMA ApplyEffect ==
    ASSUME TablesType, NEW r \in Request, tx[r] = Table, Apply(r),
           req[r].identity \in Identity, req[r].password \in Password
    PROVE  /\ TablesType'
           /\ accounts' = [accounts EXCEPT ![r] = req[r].identity]
           /\ password' = [password EXCEPT ![r] = req[r].password]
           /\ profiles' = profiles \cup {r} /\ settings' = settings \cup {r}
           /\ presences' = presences \cup {r}
           /\ sessions' = [sessions EXCEPT ![r] = NewSession(r)]
<1>1. r \in Id
  BY DEF Id
<1>2. /\ accounts' = [accounts EXCEPT ![r] = req[r].identity]
      /\ password' = [password EXCEPT ![r] = req[r].password]
      /\ profiles' = profiles \cup {r} /\ settings' = settings \cup {r}
      /\ presences' = presences \cup {r}
      /\ sessions' = [sessions EXCEPT ![r] = NewSession(r)]
  BY <1>1 DEF Apply, Table, TablesType
<1>3. NewSession(r) \in Session
  BY <1>1 DEF NewSession, Session
<1> QED
  BY <1>1, <1>2, <1>3 DEF TablesType

TxAdvances(r) ==
    /\ tx' \in [Request -> SUBSET Table]
    /\ \A q \in Request : q # r => tx'[q] = tx[q]

\* What is left to show of a step that answers, or gets on to another place.
LEMMA KeptByAnswer ==
    ASSUME TypeOK, Shape, NEW r \in Request, NEW status \in Status, Answer(r, status),
           TablesType', Account \subseteq Account',
           TxAdvances(r), tx'[r] = {}, clients' \subseteq Request
    PROVE  TypeOK' /\ Shape' /\ Answers(r, status)
<1>1. req \in [Request -> Handler] /\ RequestShape(r)
  BY DEF TypeOK, Shape
<1>2. Answers(r, status)
  BY <1>1, AnswerAnswers
<1>3. OnlyAdvances(r)
  BY <1>2 DEF Answers
<1>4. RequestShape(r)'
  BY <1>1, <1>2, ShapeOfAnswer
<1>5. Shape'
  BY <1>3, <1>4, ShapeOfOthers DEF TxAdvances
<1> QED
  BY <1>2, <1>3, <1>5 DEF TypeOK, TablesType, OnlyAdvances, TxAdvances

LEMMA KeptByMove ==
    ASSUME TypeOK, Shape, NEW r \in Request, NEW place \in Place, Goto(r, place),
           place \in RegisterPlace => req[r].op = "register",
           place \in LoginPlace => req[r].op = "login",
           place \in RefreshPlace => req[r].op = "refresh",
           place = "revoke" => req[r].op = "logout",
           place # "store session", req[r].at # "done",
           TablesType', Account \subseteq Account',
           TxAdvances(r), tx'[r] = Inserted(place), clients' \subseteq Request
    PROVE  TypeOK' /\ Shape' /\ Moves(r, place)
<1>1. req \in [Request -> Handler] /\ RequestShape(r)
  BY DEF TypeOK, Shape
<1>2. Moves(r, place)
  BY <1>1, GotoMoves
<1>3. OnlyAdvances(r)
  BY <1>2 DEF Moves
<1>4. RequestShape(r)'
  BY <1>1, <1>2, ShapeOfMove
<1>5. Shape'
  BY <1>3, <1>4, ShapeOfOthers DEF TxAdvances
<1> QED
  BY <1>2, <1>3, <1>5 DEF TypeOK, TablesType, OnlyAdvances, TxAdvances

LEMMA TablesKept ==
    ASSUME TypeOK, UNCHANGED tables
    PROVE  TablesType' /\ Account' = Account
  BY DEF TypeOK, TablesType, tables, Account

LEMMA TxKept ==
    ASSUME TypeOK, Shape, NEW r \in Request, UNCHANGED tx
    PROVE  /\ TxAdvances(r) /\ tx'[r] = Inserted(req[r].at)
           /\ req[r].at \notin Table \cup {"commit"} => tx'[r] = {}
<1>1. TxAdvances(r) /\ tx'[r] = Inserted(req[r].at)
  BY DEF TypeOK, TxAdvances, Shape, RequestShape
<1>2. req[r].at \notin Table \cup {"commit"} => Inserted(req[r].at) = {}
  BY DEF Inserted, Table
<1> QED
  BY <1>1, <1>2

LEMMA TxReset ==
    ASSUME TypeOK, NEW r \in Request, tx' = [tx EXCEPT ![r] = {}]
    PROVE  TxAdvances(r) /\ tx'[r] = {}
  BY DEF TypeOK, TxAdvances

\* The answer to a statement that failed, whatever the place.
LEMMA KeptByFail ==
    ASSUME TypeOK, Shape, NEW r \in Request, Fail(r)
    PROVE  TypeOK' /\ Shape' /\ Answers(r, 500)
<1>1. TablesType' /\ Account \subseteq Account'
  BY TablesKept DEF Fail
<1>2. TxAdvances(r) /\ tx'[r] = {}
  BY TxReset DEF Fail
<1>3. clients' \subseteq Request
  BY DEF Fail, TypeOK
<1>4. 500 \in Status /\ Answer(r, 500)
  BY DEF Status, Fail
<1> QED
  BY <1>1, <1>2, <1>3, <1>4, KeptByAnswer

\* A pool.query that changes none of the accounts: it is answered, or the
\* handler goes on to the next place of its operation.
LEMMA KeptByQueryAnswer ==
    ASSUME TypeOK, Shape, NEW r \in Request, NEW status \in Status, Answer(r, status),
           req[r].at \notin Table \cup {"commit"},
           TablesType', Account \subseteq Account', UNCHANGED <<tx, clients>>
    PROVE  TypeOK' /\ Shape' /\ Answers(r, status)
<1>1. TxAdvances(r) /\ tx'[r] = {}
  BY TxKept
<1>2. clients' \subseteq Request
  BY DEF TypeOK
<1> QED
  BY <1>1, <1>2, KeptByAnswer

LEMMA KeptByQueryMove ==
    ASSUME TypeOK, Shape, NEW r \in Request, NEW place \in Place, Goto(r, place),
           req[r].at \notin Table \cup {"commit", "done"},
           place \notin Table \cup {"commit", "store session", "revoke"},
           place \in RegisterPlace => req[r].op = "register",
           place \in LoginPlace => req[r].op = "login",
           place \in RefreshPlace => req[r].op = "refresh",
           TablesType', Account \subseteq Account', UNCHANGED <<tx, clients>>
    PROVE  TypeOK' /\ Shape' /\ Moves(r, place)
<1>1. TxAdvances(r) /\ tx'[r] = {}
  BY TxKept
<1>2. Inserted(place) = {}
  BY DEF Inserted, Table
<1>3. clients' \subseteq Request
  BY DEF TypeOK
<1>4. req[r].at # "done" /\ place # "store session" /\ (place = "revoke" => req[r].op = "logout")
  OBVIOUS
<1> QED
  BY <1>1, <1>2, <1>3, <1>4, KeptByMove

-----------------------------------------------------------------------------
(* The steps of a request keep TypeOK and Shape *)

\* Handler field by field.
LEMMA WithOp ==
    ASSUME NEW h \in Handler,
           NEW op \in {"none", "register", "login", "refresh", "logout", "changePassword"}
    PROVE  [h EXCEPT !.op = op] \in Handler
  BY DEF Handler
LEMMA WithAt ==
    ASSUME NEW h \in Handler, NEW at \in Place PROVE [h EXCEPT !.at = at] \in Handler
  BY DEF Handler
LEMMA WithIdentity ==
    ASSUME NEW h \in Handler, NEW d \in Identity PROVE [h EXCEPT !.identity = d] \in Handler
  BY DEF Handler
LEMMA WithPassword ==
    ASSUME NEW h \in Handler, NEW p \in Password PROVE [h EXCEPT !.password = p] \in Handler
  BY DEF Handler
LEMMA WithNew ==
    ASSUME NEW h \in Handler, NEW n \in Password PROVE [h EXCEPT !.new = n] \in Handler
  BY DEF Handler
LEMMA WithUser ==
    ASSUME NEW h \in Handler, NEW u \in Id PROVE [h EXCEPT !.user = u] \in Handler
  BY DEF Handler
LEMMA WithSession ==
    ASSUME NEW h \in Handler, NEW s \in Id PROVE [h EXCEPT !.session = s] \in Handler
  BY DEF Handler
LEMMA WithLate ==
    ASSUME NEW h \in Handler, NEW late \in BOOLEAN PROVE [h EXCEPT !.late = late] \in Handler
  BY DEF Handler

LEMMA RegisterArrives ==
    ASSUME NEW old \in Handler, NEW d \in Identity, NEW p \in Password
    PROVE  [old EXCEPT !.op = "register", !.at = "find user",
                       !.identity = d, !.password = p] \in Handler
<1>1. "find user" \in Place
  BY DEF Place
<1>2. PICK h1 \in Handler : h1 = [old EXCEPT !.op = "register"]
  BY WithOp
<1>3. PICK h2 \in Handler : h2 = [h1 EXCEPT !.at = "find user"]
  BY <1>1, WithAt
<1>4. PICK h3 \in Handler : h3 = [h2 EXCEPT !.identity = d]
  BY WithIdentity
<1>5. PICK h4 \in Handler : h4 = [h3 EXCEPT !.password = p]
  BY WithPassword
<1> QED
  BY <1>2, <1>3, <1>4, <1>5

LEMMA LoginArrives ==
    ASSUME NEW old \in Handler, NEW d \in Identity, NEW p \in Password
    PROVE  [old EXCEPT !.op = "login", !.at = "read user",
                       !.identity = d, !.password = p] \in Handler
<1>1. "read user" \in Place
  BY DEF Place
<1>2. PICK h1 \in Handler : h1 = [old EXCEPT !.op = "login"]
  BY WithOp
<1>3. PICK h2 \in Handler : h2 = [h1 EXCEPT !.at = "read user"]
  BY <1>1, WithAt
<1>4. PICK h3 \in Handler : h3 = [h2 EXCEPT !.identity = d]
  BY WithIdentity
<1>5. PICK h4 \in Handler : h4 = [h3 EXCEPT !.password = p]
  BY WithPassword
<1> QED
  BY <1>2, <1>3, <1>4, <1>5

LEMMA RefreshArrives ==
    ASSUME NEW old \in Handler, NEW s \in Id, NEW late \in BOOLEAN
    PROVE  [old EXCEPT !.op = "refresh", !.at = "read session",
                       !.session = s, !.late = late] \in Handler
<1>1. "read session" \in Place
  BY DEF Place
<1>2. PICK h1 \in Handler : h1 = [old EXCEPT !.op = "refresh"]
  BY WithOp
<1>3. PICK h2 \in Handler : h2 = [h1 EXCEPT !.at = "read session"]
  BY <1>1, WithAt
<1>4. PICK h3 \in Handler : h3 = [h2 EXCEPT !.session = s]
  BY WithSession
<1>5. PICK h4 \in Handler : h4 = [h3 EXCEPT !.late = late]
  BY WithLate
<1> QED
  BY <1>2, <1>3, <1>4, <1>5

LEMMA LogoutArrives ==
    ASSUME NEW old \in Handler, NEW u \in Id, NEW s \in Id
    PROVE  [old EXCEPT !.op = "logout", !.at = "revoke",
                       !.user = u, !.session = s] \in Handler
<1>1. "revoke" \in Place
  BY DEF Place
<1>2. PICK h1 \in Handler : h1 = [old EXCEPT !.op = "logout"]
  BY WithOp
<1>3. PICK h2 \in Handler : h2 = [h1 EXCEPT !.at = "revoke"]
  BY <1>1, WithAt
<1>4. PICK h3 \in Handler : h3 = [h2 EXCEPT !.user = u]
  BY WithUser
<1>5. PICK h4 \in Handler : h4 = [h3 EXCEPT !.session = s]
  BY WithSession
<1> QED
  BY <1>2, <1>3, <1>4, <1>5

LEMMA ChangeArrives ==
    ASSUME NEW old \in Handler, NEW u \in Id, NEW p \in Password, NEW n \in Password
    PROVE  [old EXCEPT !.op = "changePassword", !.at = "read hash",
                       !.user = u, !.password = p, !.new = n] \in Handler
<1>1. "read hash" \in Place
  BY DEF Place
<1>2. PICK h1 \in Handler : h1 = [old EXCEPT !.op = "changePassword"]
  BY WithOp
<1>3. PICK h2 \in Handler : h2 = [h1 EXCEPT !.at = "read hash"]
  BY <1>1, WithAt
<1>4. PICK h3 \in Handler : h3 = [h2 EXCEPT !.user = u]
  BY WithUser
<1>5. PICK h4 \in Handler : h4 = [h3 EXCEPT !.password = p]
  BY WithPassword
<1>6. PICK h5 \in Handler : h5 = [h4 EXCEPT !.new = n]
  BY WithNew
<1> QED
  BY <1>2, <1>3, <1>4, <1>5, <1>6

LEMMA ArriveKeeps ==
    ASSUME TypeOK, Shape, NEW r \in Request, Arrive(r)
    PROVE  /\ TypeOK' /\ Shape'
           /\ \A q \in Request : q # r => req'[q] = req[q]
           /\ req[r].at = "new" /\ req[r].status = 0
           /\ req'[r].at \notin Table \cup {"commit", "done", "touch session"}
           /\ req'[r].status = 0 /\ tx'[r] = {}
           /\ req'[r].op = "refresh" => req'[r].late = LoggedOut(req'[r].session)
           /\ req'[r].at \in {"read hash", "store hash"} => req'[r].op = "changePassword"
<1>1. PICK h : /\ Sends(r, h)
               /\ \/ \E d \in Identity, p \in Password :
                        h = [req[r] EXCEPT !.op = "register", !.at = "find user",
                                           !.identity = d, !.password = p]
                  \/ \E d \in Identity, p \in Password :
                        h = [req[r] EXCEPT !.op = "login", !.at = "read user",
                                           !.identity = d, !.password = p]
                  \/ \E s \in Id :
                        h = [req[r] EXCEPT !.op = "refresh", !.at = "read session",
                                           !.session = s, !.late = LoggedOut(s)]
                  \/ \E u \in Account, s \in Id :
                        h = [req[r] EXCEPT !.op = "logout", !.at = "revoke",
                                           !.user = u, !.session = s]
                  \/ \E u \in Account, p \in Password, n \in Password :
                        h = [req[r] EXCEPT !.op = "changePassword", !.at = "read hash",
                                           !.user = u, !.password = p, !.new = n]
  BY ZenonT(30) DEF Arrive
<1>2. req[r] \in Handler /\ RequestShape(r) /\ req[r].at = "new"
  BY DEF Arrive, TypeOK, Shape
<1>3. /\ h \in Handler /\ h.status = req[r].status
      /\ \/ h.op = "register" /\ h.at = "find user" /\ h.identity \in Identity /\ h.password \in Password
         \/ h.op = "login" /\ h.at = "read user"
         \/ h.op = "refresh" /\ h.at = "read session" /\ h.session \in Id
                                /\ h.late = LoggedOut(h.session)
         \/ h.op = "logout" /\ h.at = "revoke" /\ h.session \in Id
         \/ h.op = "changePassword" /\ h.at = "read hash"
  <2>1. Account \subseteq Id /\ \A s \in Id : LoggedOut(s) \in BOOLEAN
    BY DEF LoggedOut, Account
  <2>2. req[r] \in Handler
    BY <1>2
  <2>3. CASE \E d \in Identity, p \in Password :
               h = [req[r] EXCEPT !.op = "register", !.at = "find user",
                                  !.identity = d, !.password = p]
    <3>1. h \in Handler
      BY <2>2, <2>3, RegisterArrives
    <3> QED
      BY <2>2, <2>3, <3>1 DEF Handler
  <2>4. CASE \E d \in Identity, p \in Password :
               h = [req[r] EXCEPT !.op = "login", !.at = "read user",
                                  !.identity = d, !.password = p]
    <3>1. h \in Handler
      BY <2>2, <2>4, LoginArrives
    <3> QED
      BY <2>2, <2>4, <3>1 DEF Handler
  <2>5. CASE \E s \in Id :
               h = [req[r] EXCEPT !.op = "refresh", !.at = "read session",
                                  !.session = s, !.late = LoggedOut(s)]
    <3>1. h \in Handler
      BY <2>1, <2>2, <2>5, RefreshArrives
    <3> QED
      BY <2>2, <2>5, <3>1 DEF Handler
  <2>6. CASE \E u \in Account, s \in Id :
               h = [req[r] EXCEPT !.op = "logout", !.at = "revoke", !.user = u, !.session = s]
    <3>1. h \in Handler
      BY ZenonT(60), <2>1, <2>2, <2>6, LogoutArrives
    <3> QED
      BY <2>2, <2>6, <3>1 DEF Handler
  <2>7. CASE \E u \in Account, p \in Password, n \in Password :
               h = [req[r] EXCEPT !.op = "changePassword", !.at = "read hash", !.user = u,
                                  !.password = p, !.new = n]
    <3>1. PICK u \in Account, p \in Password, n \in Password :
             h = [req[r] EXCEPT !.op = "changePassword", !.at = "read hash", !.user = u,
                                !.password = p, !.new = n]
      BY <2>7
    <3>2. h \in Handler
      BY <2>1, <2>2, <3>1, ChangeArrives
    <3>3. h.op = "changePassword" /\ h.at = "read hash" /\ h.status = req[r].status
      BY <2>2, <3>1 DEF Handler
    <3> QED
      BY <3>2, <3>3
  <2> QED
    BY <1>1, <2>3, <2>4, <2>5, <2>6, <2>7
<1>4. req' \in [Request -> Handler] /\ req'[r] = h /\ \A q \in Request : q # r => req'[q] = req[q]
  BY <1>1, <1>3 DEF TypeOK, Sends
<1>5. TypeOK' /\ Account' = Account /\ tx' = tx
  BY <1>4, TablesKept DEF TypeOK, TablesType, Arrive
<1>6. Inserted(h.at) = {} /\ Inserted("new") = {}
  BY <1>3 DEF Inserted
<1>7. RequestShape(r)'
  BY <1>2, <1>3, <1>4, <1>5, <1>6 DEF RequestShape, RegisterPlace, LoginPlace, RefreshPlace, Table
<1>8. \A q \in Request : q # r => RequestShape(q)'
  BY <1>4, <1>5 DEF Shape, RequestShape
<1>9. Shape'
  BY <1>7, <1>8 DEF Shape
<1>10. req[r].status = 0 /\ tx[r] = {}
  BY <1>2, <1>6 DEF RequestShape
<1>11. req'[r].at \notin Table \cup {"commit", "done", "touch session"} /\ req'[r].status = 0
  BY <1>3, <1>4, <1>10 DEF Table
<1>12. req'[r].op = "refresh" => req'[r].late = LoggedOut(req'[r].session)
  BY <1>3, <1>4
<1>13. req'[r].at \in {"read hash", "store hash"} => req'[r].op = "changePassword"
  BY <1>3, <1>4
<1> QED
  BY <1>2, <1>4, <1>5, <1>9, <1>10, <1>11, <1>12, <1>13

LEMMA FindUserKeeps ==
    ASSUME TypeOK, Shape, NEW r \in Request, FindUser(r)
    PROVE  TypeOK' /\ Shape' /\ (Answers(r, 409) \/ Moves(r, "connect"))
<1>1. /\ req[r].at = "find user" /\ req[r].op = "register"
      /\ req[r].at \notin Table \cup {"commit", "done"}
  BY DEF FindUser, At, Shape, RequestShape, RegisterPlace, Table
<1>2. TablesType' /\ Account' = Account
  BY TablesKept DEF FindUser
<1>3. CASE Answer(r, 409)
  <2>1. 409 \in Status /\ UNCHANGED <<tx, clients>>
    BY DEF Status, FindUser
  <2> QED
    BY <1>1, <1>2, <1>3, <2>1, KeptByQueryAnswer
<1>4. CASE Goto(r, "connect")
  <2>1. "connect" \in Place
    BY DEF Place
  <2>2. "connect" \notin LoginPlace \cup RefreshPlace \cup Table \cup {"commit", "store session", "revoke"}
    BY DEF LoginPlace, RefreshPlace, Table
  <2> QED
    BY <1>1, <1>2, <1>4, <2>1, <2>2, KeptByQueryMove DEF FindUser
<1> QED
  BY <1>3, <1>4 DEF FindUser

LEMMA ConnectKeeps ==
    ASSUME TypeOK, Shape, NEW r \in Request, Connect(r)
    PROVE  TypeOK' /\ Shape' /\ Moves(r, "users")
<1>1. req[r].at = "connect" /\ req[r].op = "register"
  BY DEF Connect, At, Shape, RequestShape, RegisterPlace
<1>2. TablesType' /\ Account' = Account
  BY TablesKept DEF Connect
<1>3. TxAdvances(r) /\ tx'[r] = {} /\ Inserted("users") = {}
  BY <1>1, TxKept DEF Connect, Table, Inserted
<1>4. clients' \subseteq Request
  BY DEF Connect, TypeOK
<1>5. "users" \in Place /\ "users" \notin LoginPlace \cup RefreshPlace
  BY DEF Place, Table, LoginPlace, RefreshPlace
<1> QED
  BY <1>1, <1>2, <1>3, <1>4, <1>5, KeptByMove DEF Connect

LEMMA InsertUserKeeps ==
    ASSUME TypeOK, Shape, NEW r \in Request, InsertUser(r)
    PROVE  TypeOK' /\ Shape' /\ Moves(r, "profiles")
<1>1. req[r].at = "users" /\ req[r].op = "register"
  BY DEF InsertUser, At, Shape, RequestShape, RegisterPlace, Table
<1>2. TablesType' /\ Account' = Account
  BY TablesKept DEF InsertUser
<1>3. TxAdvances(r) /\ tx'[r] = {"users"} /\ Inserted("profiles") = {"users"}
  BY DEF InsertUser, TypeOK, TxAdvances, Table, Inserted
<1>4. clients' \subseteq Request
  BY DEF InsertUser, TypeOK
<1>5. "profiles" \in Place /\ "profiles" \notin LoginPlace \cup RefreshPlace
  BY DEF Place, Table, LoginPlace, RefreshPlace
<1> QED
  BY <1>1, <1>2, <1>3, <1>4, <1>5, KeptByMove DEF InsertUser

LEMMA InsertRowKeeps ==
    ASSUME TypeOK, Shape, NEW r \in Request, NEW t \in DOMAIN Following, InsertRow(r, t)
    PROVE  TypeOK' /\ Shape' /\ Moves(r, Following[t])
<1>1. t \in {"profiles", "settings", "presences", "sessions"}
  BY DEF Following
<1>2. req[r].at = t /\ req[r].op = "register" /\ tx[r] = Inserted(t)
  BY <1>1 DEF InsertRow, At, Shape, RequestShape, RegisterPlace, Table
<1>3. TablesType' /\ Account' = Account
  BY TablesKept DEF InsertRow
<1>4. Inserted(Following[t]) = Inserted(t) \cup {t}
  BY <1>1 DEF Following, Inserted
<1>5. TxAdvances(r) /\ tx'[r] = Inserted(Following[t])
  BY <1>1, <1>2, <1>4 DEF InsertRow, TypeOK, TxAdvances, Table
<1>6. clients' \subseteq Request
  BY DEF InsertRow, TypeOK
<1>7. /\ Following[t] \in Place /\ Following[t] \notin LoginPlace \cup RefreshPlace
      /\ Following[t] \notin {"store session", "revoke"}
  <2>1. Following[t] \in {"settings", "presences", "sessions", "commit"}
    BY <1>1 DEF Following
  <2> QED
    BY <2>1 DEF Place, Table, LoginPlace, RefreshPlace
<1>8. Goto(r, Following[t]) /\ req[r].at # "done"
  BY <1>1, <1>2 DEF InsertRow
<1> QED
  BY <1>2, <1>3, <1>5, <1>6, <1>7, <1>8, KeptByMove

\* What the rows of a registration are when it is committed, or have been but
\* the answer was lost.
LEMMA CommitKeeps ==
    ASSUME TypeOK, Shape, NEW r \in Request, Commit(r)
    PROVE  /\ TypeOK' /\ Shape' /\ (Answers(r, 201) \/ Answers(r, 500))
           /\ req[r].op = "register" /\ req[r].identity \in Identity
           /\ tx[r] = Table /\ tx'[r] = {} /\ TxAdvances(r)
           /\ accounts' = [accounts EXCEPT ![r] = req[r].identity]
           /\ profiles' = profiles \cup {r} /\ settings' = settings \cup {r}
           /\ presences' = presences \cup {r}
           /\ sessions' = [sessions EXCEPT ![r] = NewSession(r)]
           /\ Account' = Account \cup {r}
<1>1. /\ req[r].at = "commit" /\ req[r].op = "register"
      /\ req[r].identity \in Identity /\ req[r].password \in Password
      /\ tx[r] = Inserted("commit")
  BY DEF Commit, At, Shape, RequestShape, RegisterPlace
<1>2. tx[r] = Table
  BY <1>1 DEF Inserted, Table
<1>3. TablesType /\ Apply(r)
  BY DEF TypeOK, TablesType, Commit
<1>4. /\ TablesType'
      /\ accounts' = [accounts EXCEPT ![r] = req[r].identity]
      /\ profiles' = profiles \cup {r} /\ settings' = settings \cup {r}
      /\ presences' = presences \cup {r}
      /\ sessions' = [sessions EXCEPT ![r] = NewSession(r)]
  BY <1>1, <1>2, <1>3, ApplyEffect
<1>5. r \in Id /\ req[r].identity # None
  BY <1>1, ConstantsAssumption DEF Id
<1>6. Account' = Account \cup {r}
  BY <1>3, <1>4, <1>5 DEF Account, TablesType
<1>7. TxAdvances(r) /\ tx'[r] = {}
  BY TxReset DEF Commit
<1>8. clients' \subseteq Request
  BY DEF Commit, TypeOK
<1>9. CASE Answer(r, 201)
  BY <1>1, <1>2, <1>4, <1>6, <1>7, <1>8, <1>9, KeptByAnswer DEF Status
<1>10. CASE Answer(r, 500)
  BY <1>1, <1>2, <1>4, <1>6, <1>7, <1>8, <1>10, KeptByAnswer DEF Status
<1> QED
  BY <1>9, <1>10 DEF Commit, AnswerOrFail

Found(g, i) == [g EXCEPT !.at = "store session", !.user = i]

LEMMA FoundFields ==
    ASSUME NEW g \in Handler, NEW i \in Id
    PROVE  LET h == Found(g, i)
           IN  /\ h.op = g.op /\ h.identity = g.identity /\ h.password = g.password
               /\ h.new = g.new /\ h.session = g.session /\ h.late = g.late
               /\ h.status = g.status /\ h.user = i /\ h.at = "store session"
  BY DEF Handler, Found

LEMMA FoundHandler ==
    ASSUME NEW g \in Handler, NEW i \in Id
    PROVE  Found(g, i) \in Handler
<1>1. "store session" \in Place
  BY DEF Place
<1>2. PICK g1 \in Handler : g1 = [g EXCEPT !.at = "store session"]
  BY <1>1, WithAt
<1>3. PICK g2 \in Handler : g2 = [g1 EXCEPT !.user = i]
  BY WithUser
<1> QED
  BY <1>2, <1>3 DEF Found

\* The user that login has found is an account.
LEMMA FoundUserKeeps ==
    ASSUME TypeOK, Shape, NEW r \in Request, NEW i \in Account, req[r].at = "read user",
           req' = [req EXCEPT ![r].at = "store session", ![r].user = i],
           UNCHANGED <<tables, tx, clients>>
    PROVE  TypeOK' /\ Shape' /\ OnlyAdvances(r) /\ req'[r].at = "store session" /\ req'[r].status = 0
<1>1. req[r] \in Handler /\ RequestShape(r) /\ i \in Id /\ "store session" \in Place
  BY DEF TypeOK, Shape, Account, Place
<1>2. PICK h : h = Found(req[r], i)
  OBVIOUS
<1>3. h \in Handler
  BY <1>1, <1>2, FoundHandler
<1>4. req' = [req EXCEPT ![r] = h]
  BY <1>2 DEF Found
<1>5. /\ h.op = req[r].op /\ h.identity = req[r].identity /\ h.password = req[r].password
      /\ h.new = req[r].new /\ h.session = req[r].session /\ h.late = req[r].late
      /\ h.status = req[r].status /\ h.user = i /\ h.at = "store session"
  BY <1>1, <1>2, FoundFields
<1>6. /\ req' \in [Request -> Handler] /\ req'[r] = h
      /\ \A q \in Request : q # r => req'[q] = req[q]
  BY <1>3, <1>4 DEF TypeOK
<1>7. OnlyAdvances(r)
  BY <1>5, <1>6 DEF OnlyAdvances
<1>8. TablesType' /\ Account' = Account
  BY TablesKept
<1>9. Inserted("store session") = {} /\ Inserted("read user") = {}
  BY DEF Inserted
<1>10. RequestShape(r)'
  <2>1. /\ tx'[r] = {} /\ h.status = 0 /\ h.op = "login"
        /\ h.at = "store session" /\ h.user \in Account'
    BY <1>1, <1>5, <1>8, <1>9 DEF RequestShape, LoginPlace
  <2> QED
    BY <1>6, <1>9, <2>1 DEF RequestShape, RegisterPlace, LoginPlace, RefreshPlace, Table
<1>11. Shape'
  BY <1>7, <1>8, <1>10, ShapeOfOthers
<1>12. TypeOK'
  BY <1>6, <1>8 DEF TypeOK, TablesType
<1> QED
  BY <1>1, <1>5, <1>6, <1>7, <1>11, <1>12 DEF RequestShape

LEMMA ReadUserKeeps ==
    ASSUME TypeOK, Shape, NEW r \in Request, ReadUser(r)
    PROVE  /\ TypeOK' /\ Shape' /\ req[r].op = "login"
           /\ \/ Answers(r, 404) \/ Answers(r, 401)
              \/ OnlyAdvances(r) /\ req'[r].at = "store session" /\ req'[r].status = 0
<1>1. /\ req[r].at = "read user" /\ req[r].op = "login"
      /\ req[r].at \notin Table \cup {"commit", "done"}
  BY DEF ReadUser, At, Shape, RequestShape, LoginPlace, Table
<1>2. TablesType' /\ Account \subseteq Account' /\ UNCHANGED <<tx, clients>>
  BY TablesKept DEF ReadUser
<1>3. /\ 404 \in Status /\ 401 \in Status
  BY DEF Status
<1>4. CASE Answer(r, 404)
  <2>1. TypeOK' /\ Shape' /\ Answers(r, 404)
    BY <1>1, <1>2, <1>3, <1>4, KeptByQueryAnswer
  <2> QED
    BY <1>1, <2>1
<1>5. CASE Answer(r, 401)
  BY <1>1, <1>2, <1>3, <1>5, KeptByQueryAnswer
<1>6. CASE \E i \in Account :
             req' = [req EXCEPT ![r].at = "store session", ![r].user = i]
  BY <1>1, <1>6, FoundUserKeeps DEF ReadUser
<1> QED
  BY <1>4, <1>5, <1>6 DEF ReadUser

LEMMA StoreSessionKeeps ==
    ASSUME TypeOK, Shape, NEW r \in Request, StoreSession(r)
    PROVE  /\ TypeOK' /\ Shape' /\ req[r].op = "login" /\ req[r].user \in Account
           /\ Answers(r, 500) \/ Moves(r, "read profile")
           /\ Account' = Account
<1>1. /\ req[r].at = "store session" /\ req[r].op = "login" /\ req[r].user \in Account
      /\ req[r].at \notin Table \cup {"commit", "done"}
  BY DEF StoreSession, At, Shape, RequestShape, LoginPlace, Table
<1>2. req[r].user \in Id /\ NewSession(req[r].user) \in Session
  BY <1>1 DEF Account, NewSession, Session
<1>3. TablesType' /\ Account' = Account
  BY <1>2 DEF StoreSession, TypeOK, TablesType, Account
<1>4. UNCHANGED <<tx, clients>>
  BY DEF StoreSession
<1>5. CASE Answer(r, 500)
  <2>1. 500 \in Status
    BY DEF Status
  <2> QED
    BY <1>1, <1>3, <1>4, <1>5, <2>1, KeptByQueryAnswer
<1>6. CASE Goto(r, "read profile")
  <2>1. "read profile" \in Place
    BY DEF Place
  <2>2. "read profile" \notin RegisterPlace \cup RefreshPlace \cup Table \cup {"commit", "store session", "revoke"}
    BY DEF RegisterPlace, RefreshPlace, Table
  <2> QED
    BY <1>1, <1>3, <1>4, <1>6, <2>1, <2>2, KeptByQueryMove
<1> QED
  BY <1>1, <1>3, <1>5, <1>6 DEF StoreSession, GotoOrFail

LEMMA ReadProfileKeeps ==
    ASSUME TypeOK, Shape, NEW r \in Request, ReadProfile(r)
    PROVE  TypeOK' /\ Shape' /\ req[r].op = "login" /\ (Answers(r, 200) \/ Answers(r, 500))
<1>1. /\ req[r].op = "login" /\ req[r].at \notin Table \cup {"commit", "done"}
  BY DEF ReadProfile, At, Shape, RequestShape, LoginPlace, Table
<1>2. TablesType' /\ Account' = Account /\ UNCHANGED <<tx, clients>>
  BY TablesKept DEF ReadProfile
<1>3. 200 \in Status /\ 500 \in Status
  BY DEF Status
<1>4. CASE Answer(r, 200)
  BY <1>1, <1>2, <1>3, <1>4, KeptByQueryAnswer
<1>5. CASE Answer(r, 500)
  BY <1>1, <1>2, <1>3, <1>5, KeptByQueryAnswer
<1> QED
  BY <1>1, <1>4, <1>5 DEF ReadProfile, AnswerOrFail

LEMMA ReadSessionKeeps ==
    ASSUME TypeOK, Shape, NEW r \in Request, ReadSession(r)
    PROVE  /\ TypeOK' /\ Shape' /\ req[r].op = "refresh"
           /\ \/ Answers(r, 401)
              \/ /\ Moves(r, "touch session")
                 /\ sessions[req[r].session] # None /\ ~sessions[req[r].session].revoked
<1>1. /\ req[r].op = "refresh" /\ req[r].at \notin Table \cup {"commit", "done"}
  BY DEF ReadSession, At, Shape, RequestShape, RefreshPlace, Table
<1>2. TablesType' /\ Account' = Account /\ UNCHANGED <<tx, clients>>
  BY TablesKept DEF ReadSession
<1>3. CASE Answer(r, 401)
  <2>1. 401 \in Status
    BY DEF Status
  <2> QED
    BY <1>1, <1>2, <1>3, <2>1, KeptByQueryAnswer
<1>4. CASE /\ Goto(r, "touch session")
           /\ sessions[req[r].session] # None /\ ~sessions[req[r].session].revoked
  <2>1. "touch session" \in Place
    BY DEF Place
  <2>2. "touch session" \notin RegisterPlace \cup LoginPlace \cup Table \cup {"commit", "store session", "revoke"}
    BY DEF RegisterPlace, LoginPlace, Table
  <2> QED
    BY <1>1, <1>2, <1>4, <2>1, <2>2, KeptByQueryMove
<1> QED
  BY <1>3, <1>4 DEF ReadSession

LEMMA TouchSessionKeeps ==
    ASSUME TypeOK, Shape, NEW r \in Request, TouchSession(r)
    PROVE  TypeOK' /\ Shape' /\ req[r].op = "refresh" /\ (Answers(r, 200) \/ Answers(r, 500))
<1>1. /\ req[r].op = "refresh" /\ req[r].at \notin Table \cup {"commit", "done"}
  BY DEF TouchSession, At, Shape, RequestShape, RefreshPlace, Table
<1>2. TablesType' /\ Account' = Account /\ UNCHANGED <<tx, clients>>
  BY TablesKept DEF TouchSession
<1>3. 200 \in Status /\ 500 \in Status
  BY DEF Status
<1>4. CASE Answer(r, 200)
  BY <1>1, <1>2, <1>3, <1>4, KeptByQueryAnswer
<1>5. CASE Answer(r, 500)
  BY <1>1, <1>2, <1>3, <1>5, KeptByQueryAnswer
<1> QED
  BY <1>1, <1>4, <1>5 DEF TouchSession, AnswerOrFail

\* Sessions only ever become revoked or expired; none goes away or changes hands.
SessionsGrow ==
    \A s \in Id : sessions[s] # None =>
        /\ sessions'[s] # None /\ sessions'[s].user = sessions[s].user
        /\ sessions[s].revoked => sessions'[s].revoked

\* A session that is there loses nothing when it is marked.
LEMMA MarkedSession ==
    ASSUME NEW s \in Session
    PROVE  /\ [s EXCEPT !.revoked = TRUE] \in Session
           /\ [s EXCEPT !.revoked = TRUE].user = s.user
           /\ [s EXCEPT !.revoked = TRUE].revoked = TRUE
           /\ [s EXCEPT !.expired = TRUE] \in Session
           /\ [s EXCEPT !.expired = TRUE].user = s.user
           /\ [s EXCEPT !.expired = TRUE].revoked = s.revoked
  BY DEF Session

LEMMA RevokeKeeps ==
    ASSUME TypeOK, Shape, NEW r \in Request, Revoke(r)
    PROVE  /\ TypeOK' /\ Shape' /\ SessionsGrow
           /\ req[r].op = "logout" /\ req[r].session \in Id
           /\ \/ Answers(r, 404) \/ Answers(r, 500)
              \/ Answers(r, 200) /\ sessions'[req[r].session] # None
                                 /\ sessions'[req[r].session].revoked
           /\ \A i \in Id : sessions[i] = None <=> sessions'[i] = None
<1>1. /\ req[r].op = "logout" /\ req[r].session \in Id
      /\ req[r].at \notin Table \cup {"commit", "done"}
  BY DEF Revoke, At, Shape, RequestShape, Table
<1>2. PICK s \in Id : s = req[r].session
  BY <1>1
<1>3. UNCHANGED <<accounts, password, profiles, settings, presences, tx, clients>>
  BY DEF Revoke
<1>4. {404, 200, 500} \subseteq Status
  BY DEF Status
<1>5. ASSUME sessions[s] # None, sessions' = [sessions EXCEPT ![s].revoked = TRUE],
             AnswerOrFail(r, 200)
      PROVE  /\ TypeOK' /\ Shape' /\ SessionsGrow
             /\ Answers(r, 200) \/ Answers(r, 500)
             /\ sessions'[s] # None /\ sessions'[s].revoked
             /\ \A i \in Id : sessions[i] = None <=> sessions'[i] = None
  <2>1. sessions[s] \in Session /\ sessions \in [Id -> Session \cup {None}]
    BY <1>5 DEF TypeOK
  <2>2. PICK m : m = [sessions[s] EXCEPT !.revoked = TRUE]
    OBVIOUS
  <2>10. m \in Session /\ m.user = sessions[s].user /\ m.revoked = TRUE
    BY <2>1, <2>2, MarkedSession
  <2>11. m # None
    BY <2>10, ConstantsAssumption
  <2>3. sessions' = [sessions EXCEPT ![s] = m]
    BY <1>5, <2>2
  <2>4. sessions' \in [Id -> Session \cup {None}] /\ sessions'[s] = m
    BY <2>1, <2>10, <2>3
  <2>5. \A i \in Id : i # s => sessions'[i] = sessions[i]
    BY <2>1, <2>3
  <2>6. SessionsGrow /\ sessions'[s] # None /\ sessions'[s].revoked
    BY <2>4, <2>5, <2>10, <2>11 DEF SessionsGrow
  <2>7. TablesType' /\ Account \subseteq Account'
    BY <1>3, <2>4 DEF TypeOK, TablesType, Account
  <2>8. CASE Answer(r, 200)
    <3>1. TypeOK' /\ Shape' /\ Answers(r, 200)
      BY <1>1, <1>3, <1>4, <2>7, <2>8, KeptByQueryAnswer
    <3> QED
      BY <1>5, <2>4, <2>5, <2>6, <2>11, <3>1
  <2>9. CASE Answer(r, 500)
    <3>1. TypeOK' /\ Shape' /\ Answers(r, 500)
      BY <1>1, <1>3, <1>4, <2>7, <2>9, KeptByQueryAnswer
    <3> QED
      BY <1>5, <2>4, <2>5, <2>6, <2>11, <3>1
  <2> QED
    BY <1>5, <2>8, <2>9 DEF AnswerOrFail
<1>6. ASSUME Answer(r, 404), UNCHANGED sessions
      PROVE  /\ TypeOK' /\ Shape' /\ SessionsGrow /\ Answers(r, 404)
             /\ \A i \in Id : sessions[i] = None <=> sessions'[i] = None
  <2>1. TablesType' /\ Account \subseteq Account'
    BY <1>3, <1>6 DEF TypeOK, TablesType, Account
  <2>2. TypeOK' /\ Shape' /\ Answers(r, 404)
    BY <1>1, <1>3, <1>4, <1>6, <2>1, KeptByQueryAnswer
  <2> QED
    BY <1>6, <2>2 DEF SessionsGrow
<1>7. \/ sessions[s] # None /\ sessions' = [sessions EXCEPT ![s].revoked = TRUE] /\ AnswerOrFail(r, 200)
      \/ Answer(r, 404) /\ UNCHANGED sessions
  BY <1>2 DEF Revoke
<1>8. CASE sessions[s] # None /\ sessions' = [sessions EXCEPT ![s].revoked = TRUE] /\ AnswerOrFail(r, 200)
  BY <1>1, <1>2, <1>5, <1>8
<1>9. CASE Answer(r, 404) /\ UNCHANGED sessions
  BY <1>1, <1>6, <1>9
<1> QED
  BY <1>7, <1>8, <1>9

LEMMA ExpireKeeps ==
    ASSUME TypeOK, Shape, NEW i \in Id, Expire(i)
    PROVE  /\ TypeOK' /\ Shape' /\ SessionsGrow
           /\ \A s \in Id : sessions[s] = None <=> sessions'[s] = None
<1>1. sessions[i] \in Session /\ sessions \in [Id -> Session \cup {None}] /\ sessions[i] # None
  BY DEF TypeOK, Expire
<1>2. PICK m \in Session : /\ m = [sessions[i] EXCEPT !.expired = TRUE]
                           /\ m.user = sessions[i].user
                           /\ m.revoked = sessions[i].revoked /\ m # None
  BY <1>1, MarkedSession, ConstantsAssumption
<1>3. sessions' = [sessions EXCEPT ![i] = m]
  BY <1>2 DEF Expire
<1>4. sessions' \in [Id -> Session \cup {None}] /\ sessions'[i] = m
  BY <1>1, <1>2, <1>3
<1>5. \A s \in Id : s # i => sessions'[s] = sessions[s]
  BY <1>1, <1>3
<1>6. UNCHANGED <<accounts, password, profiles, settings, presences, req, tx, clients>>
  BY DEF Expire
<1>7. TypeOK' /\ Shape'
  BY <1>4, <1>6 DEF TypeOK, Shape, RequestShape, Account
<1> QED
  BY <1>1, <1>2, <1>4, <1>5, <1>7 DEF SessionsGrow

LEMMA ReadHashKeeps ==
    ASSUME TypeOK, Shape, NEW r \in Request, ReadHash(r)
    PROVE  TypeOK' /\ Shape' /\ (Answers(r, 401) \/ Moves(r, "store hash"))
<1>1. req[r].at \notin Table \cup {"commit", "done"}
  BY DEF ReadHash, At, Table
<1>2. TablesType' /\ Account \subseteq Account' /\ UNCHANGED <<tx, clients>>
  BY TablesKept DEF ReadHash
<1>3. CASE Answer(r, 401)
  <2>1. 401 \in Status
    BY DEF Status
  <2>2. TypeOK' /\ Shape' /\ Answers(r, 401)
    BY <1>1, <1>2, <1>3, <2>1, KeptByQueryAnswer
  <2> QED
    BY <2>2
<1>4. CASE Goto(r, "store hash")
  <2>1. "store hash" \in Place
    BY DEF Place
  <2>2. "store hash" \notin RegisterPlace \cup LoginPlace \cup RefreshPlace \cup Table \cup {"commit", "store session", "revoke"}
    BY DEF RegisterPlace, LoginPlace, RefreshPlace, Table
  <2>3. TypeOK' /\ Shape' /\ Moves(r, "store hash")
    BY <1>1, <1>2, <1>4, <2>1, <2>2, KeptByQueryMove
  <2> QED
    BY <2>3
<1> QED
  BY <1>3, <1>4 DEF ReadHash

LEMMA StoreHashKeeps ==
    ASSUME TypeOK, Shape, NEW r \in Request, StoreHash(r)
    PROVE  TypeOK' /\ Shape' /\ (Answers(r, 200) \/ Answers(r, 500))
<1>1. req[r].at \notin Table \cup {"commit", "done"}
  BY DEF StoreHash, At, Table
<1>2. req[r].new \in Password \cup {None}
  BY DEF TypeOK, Handler
<1>3. TablesType' /\ Account \subseteq Account' /\ UNCHANGED <<tx, clients>>
  BY <1>2 DEF StoreHash, TypeOK, TablesType, Account
<1>4. 200 \in Status /\ 500 \in Status
  BY DEF Status
<1>5. CASE Answer(r, 200)
  BY <1>1, <1>3, <1>4, <1>5, KeptByQueryAnswer
<1>6. CASE Answer(r, 500)
  BY <1>1, <1>3, <1>4, <1>6, KeptByQueryAnswer
<1> QED
  BY <1>5, <1>6 DEF StoreHash, AnswerOrFail

\* After a crash every request that was sent is over, and nothing is pending.
LEMMA CrashKeeps ==
    ASSUME TypeOK, Shape, Crash
    PROVE  /\ TypeOK' /\ Shape'
           /\ \A r \in Request :
                 /\ tx'[r] = {}
                 /\ \/ req'[r] = req[r]
                    \/ /\ req'[r].at = "done" /\ req'[r].op = req[r].op
                       /\ req'[r].status = req[r].status /\ req'[r].late = req[r].late
                       /\ req'[r].session = req[r].session /\ req'[r].identity = req[r].identity
<1>1. TablesType' /\ Account' = Account
  BY TablesKept DEF Crash
<1>2. "done" \in Place
  BY DEF Place
<1>3. ASSUME NEW r \in Request
      PROVE  /\ req'[r] \in Handler /\ tx'[r] = {} /\ RequestShape(r)'
             /\ \/ req'[r] = req[r] /\ req[r].at = "new"
                \/ /\ req'[r].at = "done" /\ req'[r].op = req[r].op
                   /\ req'[r].status = req[r].status /\ req'[r].late = req[r].late
                   /\ req'[r].session = req[r].session /\ req'[r].identity = req[r].identity
  <2>1. req[r] \in Handler /\ RequestShape(r) /\ tx'[r] = {}
    BY DEF TypeOK, Shape, Crash
  <2>2. CASE req[r].at = "new"
    <3>1. req'[r] = req[r]
      BY <2>2 DEF Crash
    <3>2. Inserted("new") = {}
      BY DEF Inserted
    <3>3. RequestShape(r)'
      BY <1>1, <2>1, <2>2, <3>1, <3>2 DEF RequestShape
    <3> QED
      BY <2>1, <2>2, <3>1, <3>3
  <2>3. CASE req[r].at # "new"
    <3>1. req'[r] = [req[r] EXCEPT !.at = "done"]
      BY <2>3 DEF Crash
    <3>2. req'[r] \in Handler
      BY <1>2, <2>1, <3>1, WithAt
    <3>3. /\ req'[r].at = "done" /\ req'[r].op = req[r].op
          /\ req'[r].status = req[r].status /\ req'[r].late = req[r].late
          /\ req'[r].session = req[r].session /\ req'[r].identity = req[r].identity
          /\ req'[r].password = req[r].password
      BY <2>1, <3>1 DEF Handler
    <3>4. Inserted("done") = {}
      BY DEF Inserted
    <3>5. RequestShape(r)'
      BY <2>1, <3>3, <3>4 DEF RequestShape, RegisterPlace, LoginPlace, RefreshPlace, Table
    <3> QED
      BY <2>1, <3>2, <3>3, <3>5
  <2> QED
    BY <2>2, <2>3
<1>4. req' \in [Request -> Handler] /\ tx' \in [Request -> SUBSET Table] /\ clients' \subseteq Request
  BY <1>3 DEF Crash
<1>5. TypeOK' /\ Shape'
  BY <1>1, <1>3, <1>4 DEF TypeOK, TablesType, Shape
<1> QED
  BY <1>3, <1>5

-----------------------------------------------------------------------------
(* Types *)

LEMMA ShapeInit == Init => TypeOK /\ Shape
<1> SUFFICES ASSUME Init PROVE TypeOK /\ Shape
  OBVIOUS
<1>1. PICK p \in Password : password = [i \in Id |-> IF i \in Seed THEN p ELSE None]
  BY DEF Init
<1>2. /\ accounts \in [Id -> Identity \cup {None}]
      /\ password \in [Id -> Password \cup {None}]
      /\ profiles \subseteq Id /\ settings \subseteq Id /\ presences \subseteq Id
      /\ tx \in [Request -> SUBSET Table] /\ clients \subseteq Request
  BY <1>1, ConstantsAssumption DEF Init, Id
<1>3. sessions \in [Id -> Session \cup {None}]
  <2>1. \A i \in Id : NewSession(i) \in Session
    BY DEF NewSession, Session
  <2> QED
    BY <2>1 DEF Init
<1>4. PICK h : h = [op |-> "none", at |-> "new", identity |-> None,
                    password |-> None, new |-> None, user |-> None,
                    session |-> None, status |-> 0, late |-> FALSE]
  OBVIOUS
<1>5. "new" \in Place
  BY DEF Place
<1>6. h \in Handler
  BY <1>4, <1>5 DEF Handler
<1>7. req = [r \in Request |-> h]
  BY <1>4 DEF Init
<1>8. Inserted("new") = {}
  BY DEF Inserted
<1>9. h.op = "none" /\ h.at = "new" /\ h.status = 0
  BY <1>4
<1>10. Shape
  BY <1>7, <1>8, <1>9 DEF Init, Shape, RequestShape, RegisterPlace, LoginPlace, RefreshPlace, Table
<1> QED
  BY <1>2, <1>3, <1>6, <1>7, <1>10 DEF TypeOK

\* The steps one by one, for the theorems to be proved along.
LEMMA Steps ==
    ASSUME Next
    PROVE  \/ \E r \in Request :
                 \/ Arrive(r) \/ Fail(r)
                 \/ FindUser(r) \/ Connect(r) \/ InsertUser(r) \/ Commit(r)
                 \/ \E t \in DOMAIN Following : InsertRow(r, t)
                 \/ ReadUser(r) \/ StoreSession(r) \/ ReadProfile(r)
                 \/ ReadSession(r) \/ TouchSession(r) \/ Revoke(r)
                 \/ ReadHash(r) \/ StoreHash(r)
           \/ \E i \in Id : Expire(i)
           \/ Crash
<1>1. \A r \in Request : InsertUserClashes(r) => Fail(r)
  BY DEF InsertUserClashes
<1> QED
  BY <1>1, Zenon DEF Next, Statement, Register, Login

LEMMA ShapeStep ==
    ASSUME TypeOK, Shape, [Next]_vars
    PROVE  TypeOK' /\ Shape'
<1>1. CASE Next
  BY <1>1, Steps, ArriveKeeps, KeptByFail, FindUserKeeps, ConnectKeeps, InsertUserKeeps,
     CommitKeeps, InsertRowKeeps, ReadUserKeeps, StoreSessionKeeps, ReadProfileKeeps,
     ReadSessionKeeps, TouchSessionKeeps, RevokeKeeps, ReadHashKeeps, StoreHashKeeps,
     ExpireKeeps, CrashKeeps, Zenon
<1>2. CASE UNCHANGED vars
  BY <1>2 DEF vars, TypeOK, Shape, RequestShape, Account
<1> QED
  BY <1>1, <1>2

\* Every request is always at an await of its own operation, with a transaction
\* that holds just the rows of the statements behind it.
THEOREM Shaped == Spec => [](TypeOK /\ Shape)
<1>1. TypeOK /\ Shape /\ [Next]_vars => TypeOK' /\ Shape'
  BY ShapeStep
<1> QED
  BY <1>1, ShapeInit, PTL DEF Spec

\* The variables keep their types: a session, for one, is always for the id of
\* an account, however its user was found.
THEOREM TypeCorrect == Spec => []TypeOK
<1>1. TypeOK /\ Shape => TypeOK
  OBVIOUS
<1> QED
  BY <1>1, Shaped, PTL

-----------------------------------------------------------------------------
(* What register has answered.  A row named after a request appears in users  *)
(* only with the commit of its registration, in user_sessions only with that  *)
(* or with its login.                                                       *)

NoAccountYet(r) == ~(req[r].op = "register" /\ req[r].at = "done") => accounts[r] = None
NoSessionYet(r) == req[r].at \notin {"read profile", "done"} => sessions[r] = None
Registered(r) == req[r].op = "register" /\ req[r].status = 201 =>
                     accounts[r] = req[r].identity /\ sessions[r] # None
Refused(r) == req[r].op = "register" /\ req[r].status = 409 =>
                  accounts[r] = None /\ sessions[r] = None
OwnRow(r) == NoAccountYet(r) /\ NoSessionYet(r) /\ Registered(r) /\ Refused(r)

Own == \A r \in Request : OwnRow(r)

LEMMA OwnSame ==
    ASSUME NEW q \in Request, OwnRow(q), req'[q] = req[q], accounts'[q] = accounts[q],
           sessions[q] = None <=> sessions'[q] = None
    PROVE  OwnRow(q)'
<1>1. NoAccountYet(q)'
  BY DEF OwnRow, NoAccountYet
<1>2. NoSessionYet(q)'
  BY DEF OwnRow, NoSessionYet
<1>3. Registered(q)'
  BY DEF OwnRow, Registered
<1>4. Refused(q)'
  BY DEF OwnRow, Refused
<1> QED
  BY <1>1, <1>2, <1>3, <1>4 DEF OwnRow

\* The handler has answered neither 201 nor 409.
NoPromise(r) == req'[r].status # 201 /\ req'[r].status # 409

\* The two ways on for a request whose own rows do not change.
LEMMA OwnAnswered ==
    ASSUME NEW r \in Request, OwnRow(r), OnlyAdvances(r), req'[r].at = "done", NoPromise(r),
           accounts'[r] = accounts[r], req[r].at # "done"
    PROVE  OwnRow(r)'
<1>1. req'[r].op = req[r].op
  BY DEF OnlyAdvances
<1>2. NoAccountYet(r)'
  BY <1>1 DEF OwnRow, NoAccountYet
<1>3. NoSessionYet(r)'
  BY DEF NoSessionYet
<1>4. Registered(r)' /\ Refused(r)'
  BY Zenon DEF Registered, Refused, NoPromise
<1> QED
  BY <1>2, <1>3, <1>4 DEF OwnRow

LEMMA OwnUnanswered ==
    ASSUME NEW r \in Request, OwnRow(r), NoPromise(r),
           accounts'[r] = accounts[r], sessions'[r] = sessions[r],
           req[r].at \notin {"read profile", "done"}, req'[r].at # "done"
    PROVE  OwnRow(r)'
<1>1. NoAccountYet(r)'
  BY DEF OwnRow, NoAccountYet
<1>2. NoSessionYet(r)'
  BY Zenon DEF OwnRow, NoSessionYet
<1>3. Registered(r)' /\ Refused(r)'
  BY Zenon DEF Registered, Refused, NoPromise
<1> QED
  BY <1>1, <1>2, <1>3 DEF OwnRow

\* A step of one request that is about its own rows alone.
OthersKeep(r) ==
    \A q \in Request : q # r =>
        /\ req'[q] = req[q] /\ accounts'[q] = accounts[q]
        /\ sessions[q] = None <=> sessions'[q] = None

LEMMA OwnOfAll ==
    ASSUME Own, NEW r \in Request, OthersKeep(r), OwnRow(r)'
    PROVE  Own'
<1> SUFFICES ASSUME NEW q \in Request, q # r PROVE OwnRow(q)'
  BY DEF Own
<1> QED
  BY OwnSame DEF Own, OthersKeep

LEMMA OthersKeepQuietly ==
    ASSUME NEW r \in Request, OnlyAdvances(r), accounts' = accounts, sessions' = sessions
    PROVE  OthersKeep(r)
  BY DEF OnlyAdvances, OthersKeep

\* Every answer but those two.
PlainAnswer(r) == Answers(r, 200) \/ Answers(r, 401) \/ Answers(r, 404) \/ Answers(r, 500)

LEMMA PlainlyAnswered ==
    ASSUME NEW r \in Request, PlainAnswer(r)
    PROVE  OnlyAdvances(r) /\ req'[r].at = "done" /\ NoPromise(r)
  BY DEF PlainAnswer, Answers, NoPromise

LEMMA OwnByAnswer ==
    ASSUME Own, NEW r \in Request, PlainAnswer(r),
           accounts' = accounts, sessions' = sessions, req[r].at # "done"
    PROVE  Own'
<1>1. OnlyAdvances(r) /\ req'[r].at = "done" /\ NoPromise(r)
  BY PlainlyAnswered
<1>2. OwnRow(r)'
  BY <1>1, OwnAnswered DEF Own
<1>3. OthersKeep(r)
  BY <1>1, OthersKeepQuietly
<1> QED
  BY <1>2, <1>3, OwnOfAll

LEMMA StillSilent ==
    ASSUME NEW r \in Request, req'[r].status = 0
    PROVE  NoPromise(r)
  BY DEF NoPromise

LEMMA OwnByMove ==
    ASSUME Own, Shape, NEW r \in Request, NEW place \in Place, Moves(r, place), place # "done",
           accounts' = accounts, sessions' = sessions,
           req[r].at \notin {"read profile", "done"}
    PROVE  Own'
<1>1. NoPromise(r) /\ req'[r].at # "done"
  <2>1. req'[r].status = 0 /\ req'[r].at # "done"
    BY DEF Shape, RequestShape, Moves
  <2> QED
    BY <2>1, StillSilent
<1>2. OwnRow(r)'
  BY <1>1, OwnUnanswered DEF Own
<1>3. OthersKeep(r)
  BY OthersKeepQuietly DEF Moves
<1> QED
  BY <1>2, <1>3, OwnOfAll

LEMMA OwnQuietStep ==
    ASSUME TypeOK, Shape, Own, NEW r \in Request,
           \/ Arrive(r) \/ Fail(r) \/ FindUser(r) \/ Connect(r) \/ InsertUser(r)
           \/ \E t \in DOMAIN Following : InsertRow(r, t)
           \/ ReadUser(r) \/ ReadProfile(r) \/ ReadSession(r) \/ TouchSession(r)
           \/ ReadHash(r) \/ StoreHash(r)
    PROVE  Own'
<1> USE DEF tables
<1>1. RequestShape(r) /\ OwnRow(r)
  BY DEF Shape, Own
<1>3. {"connect", "users", "profiles", "touch session", "store hash"} \subseteq Place \ {"done"}
  BY DEF Place, Table
<1>4. CASE Arrive(r)
  <2>1. accounts' = accounts /\ sessions' = sessions
    BY <1>4 DEF Arrive
  <2>2. /\ \A q \in Request : q # r => req'[q] = req[q]
        /\ req[r].at = "new" /\ NoPromise(r) /\ req'[r].at # "done"
    BY <1>4, ArriveKeeps, StillSilent
  <2>3. OwnRow(r)'
    BY <1>1, <2>1, <2>2, OwnUnanswered
  <2>4. OthersKeep(r)
    BY <2>1, <2>2 DEF OthersKeep
  <2> QED
    BY <2>3, <2>4, OwnOfAll
<1>5. CASE Fail(r)
  <2>1. accounts' = accounts /\ sessions' = sessions /\ req[r].at # "done"
    BY <1>5 DEF Fail
  <2>2. PlainAnswer(r)
    BY <1>5, KeptByFail DEF PlainAnswer
  <2> QED
    BY <2>1, <2>2, OwnByAnswer
<1>6. CASE FindUser(r)
  <2>1. accounts' = accounts /\ sessions' = sessions /\ req[r].at = "find user"
    BY <1>6 DEF FindUser, At
  <2>2. CASE Moves(r, "connect")
    BY <1>3, <2>1, <2>2, OwnByMove
  <2>3. CASE Answers(r, 409)
    <3>1. /\ req'[r].op = req[r].op /\ req'[r].at = "done" /\ req'[r].status = 409
          /\ OnlyAdvances(r)
      BY <2>3 DEF Answers, OnlyAdvances
    <3>2. accounts[r] = None /\ sessions[r] = None
      BY <1>1, <2>1 DEF OwnRow, NoAccountYet, NoSessionYet
    <3>5. NoAccountYet(r)' /\ NoSessionYet(r)'
      BY <2>1, <3>1, <3>2 DEF NoAccountYet, NoSessionYet
    <3>6. Registered(r)'
      BY <3>1 DEF Registered
    <3>7. Refused(r)'
      BY <2>1, <3>2 DEF Refused
    <3>4. OthersKeep(r)
      BY <2>1, <3>1, OthersKeepQuietly
    <3> QED
      BY <3>4, <3>5, <3>6, <3>7, OwnOfAll DEF OwnRow
  <2> QED
    BY <1>6, <2>2, <2>3, FindUserKeeps
<1>7. CASE Connect(r)
  <2>1. accounts' = accounts /\ sessions' = sessions /\ req[r].at = "connect"
    BY <1>7 DEF Connect, At
  <2> QED
    BY <1>3, <1>7, <2>1, ConnectKeeps, OwnByMove
<1>8. CASE InsertUser(r)
  <2>1. accounts' = accounts /\ sessions' = sessions /\ req[r].at = "users"
    BY <1>8 DEF InsertUser, At
  <2> QED
    BY <1>3, <1>8, <2>1, InsertUserKeeps, OwnByMove
<1>9. ASSUME NEW t \in DOMAIN Following, InsertRow(r, t) PROVE Own'
  <2>1. accounts' = accounts /\ sessions' = sessions /\ req[r].at = t
    BY <1>9 DEF InsertRow, At
  <2>2. t \in {"profiles", "settings", "presences", "sessions"}
    BY DEF Following
  <2>3. Following[t] \in {"settings", "presences", "sessions", "commit"}
    BY <2>2 DEF Following
  <2>4. Following[t] \in Place /\ Following[t] # "done"
    BY <2>3 DEF Place, Table
  <2>5. Moves(r, Following[t])
    BY <1>9, InsertRowKeeps
  <2>6. req[r].at \notin {"read profile", "done"}
    BY <2>1, <2>2
  <2> QED
    BY <2>1, <2>4, <2>5, <2>6, OwnByMove
<1>10. CASE ReadUser(r)
  <2>1. /\ accounts' = accounts /\ sessions' = sessions
        /\ req[r].at = "read user" /\ req[r].at # "done"
    BY <1>10 DEF ReadUser, At
  <2>2. PlainAnswer(r) \/ (OnlyAdvances(r) /\ req'[r].at = "store session" /\ NoPromise(r))
    BY <1>10, ReadUserKeeps, StillSilent DEF PlainAnswer
  <2>3. CASE PlainAnswer(r)
    BY <2>1, <2>3, OwnByAnswer
  <2>4. CASE OnlyAdvances(r) /\ req'[r].at = "store session" /\ NoPromise(r)
    BY <1>1, <2>1, <2>4, OwnUnanswered, OthersKeepQuietly, OwnOfAll
  <2> QED
    BY <2>2, <2>3, <2>4
<1>11. CASE ReadProfile(r)
  <2>1. /\ accounts' = accounts /\ sessions' = sessions
        /\ req[r].at = "read profile" /\ req[r].at # "done"
    BY <1>11 DEF ReadProfile, At
  <2>2. PlainAnswer(r)
    BY <1>11, ReadProfileKeeps DEF PlainAnswer
  <2> QED
    BY <2>1, <2>2, OwnByAnswer
<1>12. CASE ReadSession(r)
  <2>1. /\ accounts' = accounts /\ sessions' = sessions
        /\ req[r].at = "read session" /\ req[r].at # "done"
    BY <1>12 DEF ReadSession, At
  <2>2. PlainAnswer(r) \/ Moves(r, "touch session")
    BY <1>12, ReadSessionKeeps DEF PlainAnswer
  <2>3. CASE PlainAnswer(r)
    BY <2>1, <2>3, OwnByAnswer
  <2>4. CASE Moves(r, "touch session")
    BY <1>3, <2>1, <2>4, OwnByMove
  <2> QED
    BY <2>2, <2>3, <2>4
<1>13. CASE TouchSession(r)
  <2>1. /\ accounts' = accounts /\ sessions' = sessions
        /\ req[r].at = "touch session" /\ req[r].at # "done"
    BY <1>13 DEF TouchSession, At
  <2>2. PlainAnswer(r)
    BY <1>13, TouchSessionKeeps DEF PlainAnswer
  <2> QED
    BY <2>1, <2>2, OwnByAnswer
<1>14. CASE ReadHash(r)
  <2>1. /\ accounts' = accounts /\ sessions' = sessions
        /\ req[r].at = "read hash" /\ req[r].at # "done"
    BY <1>14 DEF ReadHash, At
  <2>2. PlainAnswer(r) \/ Moves(r, "store hash")
    BY <1>14, ReadHashKeeps DEF PlainAnswer
  <2>3. CASE PlainAnswer(r)
    BY <2>1, <2>3, OwnByAnswer
  <2>4. CASE Moves(r, "store hash")
    BY <1>3, <2>1, <2>4, OwnByMove
  <2> QED
    BY <2>2, <2>3, <2>4
<1>15. CASE StoreHash(r)
  <2>1. /\ accounts' = accounts /\ sessions' = sessions
        /\ req[r].at = "store hash" /\ req[r].at # "done"
    BY <1>15 DEF StoreHash, At
  <2>2. PlainAnswer(r)
    BY <1>15, StoreHashKeeps DEF PlainAnswer
  <2> QED
    BY <2>1, <2>2, OwnByAnswer
<1> QED
  BY <1>4, <1>5, <1>6, <1>7, <1>8, <1>9, <1>10, <1>11, <1>12, <1>13, <1>14, <1>15, Zenon

\* The id of an account, or of a session, is never None's.
LEMMA SessionIsThere ==
    ASSUME NEW u \in Id
    PROVE  NewSession(u) \in Session /\ NewSession(u) # None
<1>1. NewSession(u) \in Session
  BY DEF NewSession, Session
<1> QED
  BY <1>1, ConstantsAssumption

LEMMA CommitOwn ==
    ASSUME TypeOK, Shape, Own, NEW r \in Request, Commit(r)
    PROVE  Own'
<1>1. /\ Answers(r, 201) \/ Answers(r, 500)
      /\ req[r].op = "register" /\ req[r].identity \in Identity
      /\ accounts' = [accounts EXCEPT ![r] = req[r].identity]
      /\ sessions' = [sessions EXCEPT ![r] = NewSession(r)]
  BY CommitKeeps
<1>2. r \in Id /\ Request \subseteq Id
  BY DEF Id
<1>3. /\ accounts'[r] = req[r].identity /\ sessions'[r] = NewSession(r) /\ sessions'[r] # None
      /\ \A q \in Request : q # r => accounts'[q] = accounts[q] /\ sessions'[q] = sessions[q]
  BY <1>1, <1>2, SessionIsThere DEF TypeOK
<1>4. /\ OnlyAdvances(r) /\ req'[r].at = "done" /\ req'[r].op = "register"
      /\ req'[r].identity = req[r].identity /\ req'[r].status # 409
  BY <1>1 DEF Answers, OnlyAdvances
<1>5. NoAccountYet(r)' /\ NoSessionYet(r)'
  BY <1>4 DEF NoAccountYet, NoSessionYet
<1>6. Registered(r)'
  BY <1>3, <1>4 DEF Registered
<1>7. Refused(r)'
  BY <1>4, Zenon DEF Refused
<1>8. OthersKeep(r)
  BY <1>3, <1>4 DEF OthersKeep, OnlyAdvances
<1> QED
  BY <1>5, <1>6, <1>7, <1>8, OwnOfAll DEF OwnRow

LEMMA StoreSessionOwn ==
    ASSUME TypeOK, Shape, Own, NEW r \in Request, StoreSession(r)
    PROVE  Own'
<1>1. /\ req[r].op = "login" /\ req[r].at = "store session"
      /\ Answers(r, 500) \/ Moves(r, "read profile")
  BY StoreSessionKeeps DEF StoreSession, At
<1>2. /\ OnlyAdvances(r) /\ req'[r].op = "login"
      /\ req'[r].at = "done" \/ req'[r].at = "read profile"
  BY <1>1 DEF Answers, Moves, OnlyAdvances
<1>3. /\ accounts' = accounts
      /\ \A q \in Request : q # r => sessions'[q] = sessions[q]
  BY DEF StoreSession, TypeOK, Id
<1>4. accounts[r] = None
  BY <1>1 DEF Own, OwnRow, NoAccountYet
<1>5. NoAccountYet(r)'
  BY <1>3, <1>4 DEF NoAccountYet
<1>6. NoSessionYet(r)'
  BY <1>2 DEF NoSessionYet
<1>7. Registered(r)' /\ Refused(r)'
  BY <1>2 DEF Registered, Refused
<1>8. OthersKeep(r)
  BY <1>2, <1>3 DEF OthersKeep, OnlyAdvances
<1> QED
  BY <1>5, <1>6, <1>7, <1>8, OwnOfAll DEF OwnRow

LEMMA RevokeOwn ==
    ASSUME TypeOK, Shape, Own, NEW r \in Request, Revoke(r)
    PROVE  Own'
<1>1. /\ PlainAnswer(r) /\ req[r].at # "done" /\ accounts' = accounts
      /\ \A i \in Id : sessions[i] = None <=> sessions'[i] = None
  BY RevokeKeeps DEF PlainAnswer, Revoke, At
<1>2. OnlyAdvances(r) /\ req'[r].at = "done" /\ NoPromise(r)
  BY <1>1, PlainlyAnswered
<1>3. OwnRow(r)'
  BY <1>1, <1>2, OwnAnswered DEF Own
<1>4. OthersKeep(r)
  BY <1>1, <1>2 DEF OthersKeep, OnlyAdvances, Id
<1> QED
  BY <1>3, <1>4, OwnOfAll

LEMMA ExpireOwn ==
    ASSUME TypeOK, Shape, Own, NEW i \in Id, Expire(i)
    PROVE  Own'
<1>1. /\ req' = req /\ accounts' = accounts
      /\ \A s \in Request : sessions[s] = None <=> sessions'[s] = None
  BY ExpireKeeps DEF Expire, Id
<1>2. \A q \in Request : OwnRow(q)'
  BY <1>1, OwnSame DEF Own
<1> QED
  BY <1>2 DEF Own

LEMMA CrashOwn ==
    ASSUME TypeOK, Shape, Own, Crash
    PROVE  Own'
<1> SUFFICES ASSUME NEW r \in Request PROVE OwnRow(r)'
  BY DEF Own
<1>1. accounts' = accounts /\ sessions' = sessions /\ OwnRow(r)
  BY DEF Crash, tables, Own
<1>2. CASE req'[r] = req[r]
  BY <1>1, <1>2, OwnSame
<1>3. CASE /\ req'[r].at = "done" /\ req'[r].op = req[r].op
           /\ req'[r].status = req[r].status /\ req'[r].identity = req[r].identity
  <2>1. NoAccountYet(r)'
    BY <1>1, <1>3 DEF OwnRow, NoAccountYet
  <2>2. NoSessionYet(r)'
    BY <1>3 DEF NoSessionYet
  <2>3. Registered(r)'
    BY <1>1, <1>3, Zenon DEF OwnRow, Registered
  <2>4. Refused(r)'
    BY <1>1, <1>3, Zenon DEF OwnRow, Refused
  <2> QED
    BY <2>1, <2>2, <2>3, <2>4 DEF OwnRow
<1> QED
  BY <1>2, <1>3, CrashKeeps

LEMMA OwnInit ==
    ASSUME Init PROVE Own
<1> SUFFICES ASSUME NEW r \in Request PROVE OwnRow(r)
  BY DEF Own
<1>1. /\ req[r].op = "none" /\ accounts[r] = None /\ sessions[r] = None
  BY ConstantsAssumption DEF Init, Id
<1> QED
  BY <1>1 DEF OwnRow, NoAccountYet, NoSessionYet, Registered, Refused

LEMMA OwnStep ==
    ASSUME TypeOK, Shape, Own, [Next]_vars
    PROVE  Own'
<1>1. CASE Next
  BY <1>1, Steps, OwnQuietStep, CommitOwn, StoreSessionOwn, RevokeOwn, ExpireOwn, CrashOwn, Zenon
<1>2. CASE UNCHANGED vars
  <2>1. req' = req /\ accounts' = accounts /\ sessions' = sessions
    BY <1>2 DEF vars
  <2>2. \A q \in Request : OwnRow(q)'
    BY <2>1, OwnSame DEF Own
  <2> QED
    BY <2>2 DEF Own
<1> QED
  BY <1>1, <1>2

THEOREM OwnRows == Spec => []Own
<1>1. TypeOK /\ Shape /\ Own /\ [Next]_vars => Own'
  BY OwnStep
<1>2. Init => Own
  BY OwnInit
<1> QED
  BY <1>1, <1>2, Shaped, PTL DEF Spec

\* What register answers is so from then on, whatever other requests, failures
\* and crashes follow: an account and its session behind a 201, nothing behind
\* a 409.
THEOREM AnswersHold == Spec => []AnswersStayTrue
<1>1. Own => AnswersStayTrue
  BY DEF Own, OwnRow, Registered, Refused, AnswersStayTrue
<1> QED
  BY <1>1, OwnRows, PTL

-----------------------------------------------------------------------------
(* Whole accounts *)

\* Only four statements write a table that WholeAccounts and UniqueAccounts are about.
LEMMA Untouched ==
    ASSUME [Next]_vars
    PROVE  \/ UNCHANGED <<accounts, profiles, settings, presences, sessions>>
           \/ \E r \in Request : Commit(r) \/ StoreSession(r) \/ Revoke(r)
           \/ \E i \in Id : Expire(i)
<1> DEFINE U == UNCHANGED <<accounts, profiles, settings, presences, sessions>>
<1>1. ASSUME NEW r \in Request
      PROVE  /\ Arrive(r) \/ Fail(r) \/ FindUser(r) \/ Connect(r) \/ InsertUser(r) => U
             /\ ReadUser(r) \/ ReadProfile(r) \/ ReadSession(r) \/ TouchSession(r) => U
             /\ ReadHash(r) \/ StoreHash(r) => U
             /\ \A t \in DOMAIN Following : InsertRow(r, t) => U
  <2>1. Arrive(r) \/ Fail(r) \/ FindUser(r) \/ Connect(r) \/ InsertUser(r) => U
    BY DEF Arrive, Fail, FindUser, Connect, InsertUser, tables
  <2>2. ReadUser(r) \/ ReadProfile(r) \/ ReadSession(r) \/ TouchSession(r) => U
    BY DEF ReadUser, ReadProfile, ReadSession, TouchSession, tables
  <2>3. ReadHash(r) \/ StoreHash(r) => U
    BY DEF ReadHash, StoreHash, tables
  <2>4. \A t \in DOMAIN Following : InsertRow(r, t) => U
    BY DEF InsertRow, tables
  <2> QED
    BY <2>1, <2>2, <2>3, <2>4
<1>2. Crash => U
  BY DEF Crash, tables
<1>3. UNCHANGED vars => U
  BY DEF vars
<1>4. CASE Next
  <2> HIDE DEF U
  <2>1. U \/ (\E r \in Request : Commit(r) \/ StoreSession(r) \/ Revoke(r)) \/ \E i \in Id : Expire(i)
    BY <1>1, <1>2, <1>4, Steps, Zenon
  <2> QED
    BY <2>1 DEF U
<1> QED
  BY <1>3, <1>4

RowsWithAccount == profiles = Account /\ settings = Account /\ presences = Account
SessionsWithAccount == \A i \in Id : sessions[i] # None => sessions[i].user \in Account

LEMMA WholeStep ==
    ASSUME TypeOK, Shape, WholeAccounts, [Next]_vars
    PROVE  WholeAccounts'
<1>1. RowsWithAccount /\ SessionsWithAccount
  BY DEF WholeAccounts, RowsWithAccount, SessionsWithAccount
<1>2. SUFFICES RowsWithAccount' /\ SessionsWithAccount'
  BY DEF WholeAccounts, RowsWithAccount, SessionsWithAccount
<1>3. CASE UNCHANGED <<accounts, profiles, settings, presences, sessions>>
  BY <1>1, <1>3 DEF RowsWithAccount, SessionsWithAccount, Account
<1>4. ASSUME NEW r \in Request, Commit(r) PROVE RowsWithAccount' /\ SessionsWithAccount'
  <2>1. /\ Account' = Account \cup {r}
        /\ profiles' = profiles \cup {r} /\ settings' = settings \cup {r}
        /\ presences' = presences \cup {r}
        /\ sessions' = [sessions EXCEPT ![r] = NewSession(r)]
    BY <1>4, CommitKeeps
  <2>2. RowsWithAccount'
    BY <1>1, <2>1 DEF RowsWithAccount
  <2>3. ASSUME NEW i \in Id, sessions'[i] # None PROVE sessions'[i].user \in Account'
    <3>1. CASE i = r
      BY <2>1, <3>1 DEF TypeOK, NewSession
    <3>2. CASE i # r
      BY <1>1, <2>1, <2>3, <3>2 DEF TypeOK, SessionsWithAccount
    <3> QED
      BY <3>1, <3>2
  <2> QED
    BY <2>2, <2>3 DEF SessionsWithAccount
<1>5. ASSUME NEW r \in Request, StoreSession(r) PROVE RowsWithAccount' /\ SessionsWithAccount'
  <2>1. /\ req[r].user \in Account /\ Account' = Account
        /\ UNCHANGED <<profiles, settings, presences>>
        /\ sessions' = [sessions EXCEPT ![r] = NewSession(req[r].user)]
    BY <1>5, StoreSessionKeeps DEF StoreSession
  <2>2. RowsWithAccount'
    BY <1>1, <2>1 DEF RowsWithAccount
  <2>3. ASSUME NEW i \in Id, sessions'[i] # None PROVE sessions'[i].user \in Account'
    <3>1. CASE i = r
      BY <2>1, <3>1 DEF TypeOK, NewSession
    <3>2. CASE i # r
      BY <1>1, <2>1, <2>3, <3>2 DEF TypeOK, SessionsWithAccount
    <3> QED
      BY <3>1, <3>2
  <2> QED
    BY <2>2, <2>3 DEF SessionsWithAccount
<1>6. ASSUME SessionsGrow, \A i \in Id : sessions[i] = None <=> sessions'[i] = None,
             UNCHANGED <<accounts, profiles, settings, presences>>
      PROVE  RowsWithAccount' /\ SessionsWithAccount'
  <2>1. Account' = Account
    BY <1>6 DEF Account
  <2>2. RowsWithAccount'
    BY <1>1, <1>6, <2>1 DEF RowsWithAccount
  <2>3. ASSUME NEW i \in Id, sessions'[i] # None PROVE sessions'[i].user \in Account'
    <3>1. sessions[i] # None
      BY <1>6, <2>3
    <3>2. sessions'[i].user = sessions[i].user
      BY <1>6, <3>1 DEF SessionsGrow
    <3> QED
      BY <1>1, <2>1, <3>1, <3>2 DEF SessionsWithAccount
  <2> QED
    BY <2>2, <2>3 DEF SessionsWithAccount
<1>7. ASSUME NEW r \in Request, Revoke(r) PROVE RowsWithAccount' /\ SessionsWithAccount'
  BY <1>6, <1>7, RevokeKeeps DEF Revoke
<1>8. ASSUME NEW i \in Id, Expire(i) PROVE RowsWithAccount' /\ SessionsWithAccount'
  BY <1>6, <1>8, ExpireKeeps DEF Expire
<1> QED
  BY <1>3, <1>4, <1>5, <1>7, <1>8, Untouched

LEMMA WholeInit ==
    ASSUME Init PROVE WholeAccounts
<1>1. \A i \in Id : accounts[i] # None <=> i \in Seed
  BY ConstantsAssumption DEF Init, Id
<1>2. Account = Seed
  BY <1>1 DEF Account, Id
<1>3. \A i \in Id : sessions[i] # None => i \in Seed /\ sessions[i].user = i
  BY DEF Init, NewSession
<1> QED
  BY <1>2, <1>3 DEF Init, WholeAccounts

\* No failure of a statement and no crash leaves an account without its rows,
\* or a row or a session without its account.
THEOREM AccountsAreWhole == Spec => []WholeAccounts
<1>1. TypeOK /\ Shape /\ WholeAccounts /\ [Next]_vars => WholeAccounts'
  BY WholeStep
<1>2. Init => WholeAccounts
  BY WholeInit
<1> QED
  BY <1>1, <1>2, Shaped, PTL DEF Spec

-----------------------------------------------------------------------------
(* Unique accounts: the row a transaction has inserted into users and not yet *)
(* committed clashes with no account and no other such row.                 *)

Pending(r) == "users" \in tx[r]

Reserved ==
    \A r \in Request : Pending(r) =>
        /\ \A i \in Account : ~Clash(accounts[i], req[r].identity)
        /\ \A q \in Request : Pending(q) /\ q # r => ~Clash(req[q].identity, req[r].identity)

LEMMA ClashIsSymmetric ==
    ASSUME NEW d, NEW e, Clash(d, e)
    PROVE  Clash(e, d)
  BY DEF Clash

\* A step that adds neither an account nor a pending row.
LEMMA UniqueKept ==
    ASSUME UniqueAccounts, Reserved, accounts' = accounts,
           \A q \in Request : Pending(q)' => Pending(q) /\ req'[q].identity = req[q].identity
    PROVE  UniqueAccounts' /\ Reserved'
<1>1. Account' = Account
  BY DEF Account
<1>2. UniqueAccounts'
  BY <1>1 DEF UniqueAccounts
<1>3. Reserved'
  <2> SUFFICES ASSUME NEW r \in Request, Pending(r)'
               PROVE  /\ \A i \in Account : ~Clash(accounts[i], req'[r].identity)
                      /\ \A q \in Request : Pending(q)' /\ q # r =>
                            ~Clash(req'[q].identity, req'[r].identity)
    BY <1>1 DEF Reserved
  <2>1. Pending(r) /\ req'[r].identity = req[r].identity
    OBVIOUS
  <2>2. \A i \in Account : ~Clash(accounts[i], req'[r].identity)
    BY <2>1 DEF Reserved
  <2>3. ASSUME NEW q \in Request, Pending(q)', q # r
        PROVE  ~Clash(req'[q].identity, req'[r].identity)
    <3>1. Pending(q) /\ req'[q].identity = req[q].identity
      BY <2>3
    <3> QED
      BY <2>1, <2>3, <3>1 DEF Reserved
  <2> QED
    BY <2>2, <2>3
<1> QED
  BY <1>2, <1>3

LEMMA UniqueByAdvance ==
    ASSUME UniqueAccounts, Reserved, NEW r \in Request, OnlyAdvances(r),
           accounts' = accounts, \A q \in Request : tx'[q] \subseteq tx[q]
    PROVE  UniqueAccounts' /\ Reserved'
<1>1. \A q \in Request : req'[q].identity = req[q].identity
  BY DEF OnlyAdvances
<1>2. \A q \in Request : Pending(q)' => Pending(q)
  BY DEF Pending
<1> QED
  BY <1>1, <1>2, UniqueKept

LEMMA InsertUserUnique ==
    ASSUME TypeOK, Shape, UniqueAccounts, Reserved, NEW r \in Request, InsertUser(r)
    PROVE  UniqueAccounts' /\ Reserved'
<1>1. accounts' = accounts /\ Account' = Account
  BY DEF InsertUser, tables, Account
<1>2. \A q \in Request : req'[q].identity = req[q].identity
  BY InsertUserKeeps DEF Moves, OnlyAdvances
<1>3. \A q \in Request : q # r => (Pending(q)' <=> Pending(q))
  BY DEF InsertUser, TypeOK, Pending
<1>4. ~Pending(r)
  <2>1. req[r].at = "users" /\ tx[r] = Inserted("users")
    BY DEF InsertUser, At, Shape, RequestShape
  <2> QED
    BY <2>1 DEF Inserted, Pending
<1>5. /\ \A i \in Account : ~Clash(accounts[i], req[r].identity)
      /\ \A q \in Request : Pending(q) => ~Clash(req[q].identity, req[r].identity)
  BY DEF InsertUser, Pending
<1>6. UniqueAccounts'
  BY <1>1 DEF UniqueAccounts
<1>7. ASSUME NEW p \in Request, Pending(p)'
      PROVE  /\ \A i \in Account : ~Clash(accounts[i], req[p].identity)
             /\ \A q \in Request : Pending(q)' /\ q # p => ~Clash(req[q].identity, req[p].identity)
  <2>1. CASE p = r
    BY <1>3, <1>5, <2>1
  <2>2. CASE p # r
    <3>1. Pending(p)
      BY <1>3, <1>7, <2>2
    <3>2. \A i \in Account : ~Clash(accounts[i], req[p].identity)
      BY <3>1 DEF Reserved
    <3>3. ASSUME NEW q \in Request, Pending(q)', q # p
          PROVE  ~Clash(req[q].identity, req[p].identity)
      <4>1. CASE q = r
        BY <1>5, <3>1, <4>1, ClashIsSymmetric
      <4>2. CASE q # r
        BY <1>3, <3>1, <3>3, <4>2 DEF Reserved
      <4> QED
        BY <4>1, <4>2
    <3> QED
      BY <3>2, <3>3
  <2> QED
    BY <2>1, <2>2
<1>8. Reserved'
  BY <1>1, <1>2, <1>7 DEF Reserved
<1> QED
  BY <1>6, <1>8

LEMMA CommitUnique ==
    ASSUME TypeOK, Shape, UniqueAccounts, Reserved, NEW r \in Request, Commit(r)
    PROVE  UniqueAccounts' /\ Reserved'
<1>1. /\ tx[r] = Table /\ tx'[r] = {} /\ \A q \in Request : q # r => tx'[q] = tx[q]
      /\ accounts' = [accounts EXCEPT ![r] = req[r].identity]
      /\ Account' = Account \cup {r}
      /\ OnlyAdvances(r)
  BY CommitKeeps DEF TxAdvances, Answers
<1>2. Pending(r) /\ ~Pending(r)' /\ \A q \in Request : q # r => (Pending(q)' <=> Pending(q))
  BY <1>1 DEF Pending, Table
<1>3. \A q \in Request : req'[q].identity = req[q].identity
  BY <1>1 DEF OnlyAdvances
<1>4. /\ accounts'[r] = req[r].identity
      /\ \A i \in Account : i # r => accounts'[i] = accounts[i]
  BY <1>1 DEF TypeOK, Id, Account
<1>5. \A i \in Account : ~Clash(accounts[i], req[r].identity)
  BY <1>2 DEF Reserved
<1>6. ASSUME NEW i \in Account', NEW j \in Account', i # j
      PROVE  ~Clash(accounts'[i], accounts'[j])
  <2>1. CASE i = r
    <3>1. j \in Account /\ accounts'[j] = accounts[j]
      BY <1>1, <1>4, <1>6, <2>1
    <3> QED
      BY <1>4, <1>5, <2>1, <3>1, ClashIsSymmetric
  <2>2. CASE j = r
    <3>1. i \in Account /\ accounts'[i] = accounts[i]
      BY <1>1, <1>4, <1>6, <2>2
    <3> QED
      BY <1>4, <1>5, <2>2, <3>1
  <2>3. CASE i # r /\ j # r
    BY <1>1, <1>4, <1>6, <2>3 DEF UniqueAccounts
  <2> QED
    BY <2>1, <2>2, <2>3
<1>7. UniqueAccounts'
  BY <1>6 DEF UniqueAccounts
<1>8. ASSUME NEW p \in Request, Pending(p)'
      PROVE  /\ \A i \in Account' : ~Clash(accounts'[i], req'[p].identity)
             /\ \A q \in Request : Pending(q)' /\ q # p => ~Clash(req'[q].identity, req'[p].identity)
  <2>1. p # r /\ Pending(p)
    BY <1>2, <1>8
  <2>2. ASSUME NEW i \in Account' PROVE ~Clash(accounts'[i], req'[p].identity)
    <3>1. CASE i = r
      BY <1>2, <1>3, <1>4, <2>1, <3>1 DEF Reserved
    <3>2. CASE i # r
      BY <1>1, <1>3, <1>4, <2>1, <3>2 DEF Reserved
    <3> QED
      BY <3>1, <3>2
  <2>3. ASSUME NEW q \in Request, Pending(q)', q # p
        PROVE  ~Clash(req'[q].identity, req'[p].identity)
    <3>1. q # r /\ Pending(q)
      BY <1>2, <2>3
    <3> QED
      BY <1>3, <2>1, <2>3, <3>1 DEF Reserved
  <2> QED
    BY <2>2, <2>3
<1>9. Reserved'
  BY <1>8 DEF Reserved
<1> QED
  BY <1>7, <1>9

LEMMA UniqueNext ==
    ASSUME TypeOK, Shape, UniqueAccounts, Reserved, Next
    PROVE  UniqueAccounts' /\ Reserved'
<1> USE DEF tables
<1>1. ASSUME NEW r \in Request, Arrive(r) PROVE UniqueAccounts' /\ Reserved'
  <2>1. /\ \A q \in Request : q # r => req'[q] = req[q]
        /\ tx'[r] = {} /\ tx' = tx /\ accounts' = accounts
    BY <1>1, ArriveKeeps DEF Arrive
  <2>2. \A q \in Request : Pending(q)' => Pending(q) /\ req'[q].identity = req[q].identity
    BY <2>1 DEF Pending
  <2> QED
    BY <2>1, <2>2, UniqueKept
<1>2. ASSUME NEW r \in Request, Fail(r) PROVE UniqueAccounts' /\ Reserved'
  <2>1. OnlyAdvances(r) /\ accounts' = accounts
    BY <1>2, KeptByFail DEF Answers, Fail
  <2>2. \A q \in Request : tx'[q] \subseteq tx[q]
    BY <1>2 DEF Fail, TypeOK
  <2> QED
    BY <2>1, <2>2, UniqueByAdvance
<1>3. ASSUME NEW r \in Request, NEW t \in DOMAIN Following, InsertRow(r, t)
      PROVE  UniqueAccounts' /\ Reserved'
  <2>1. OnlyAdvances(r) /\ accounts' = accounts
    BY <1>3, InsertRowKeeps DEF Moves, InsertRow
  <2>2. t # "users" /\ req[r].at = t /\ t \in {"profiles", "settings", "presences", "sessions"}
    BY <1>3 DEF InsertRow, At, Following
  <2>3. \A q \in Request : Pending(q)' => Pending(q)
    BY <1>3, <2>2 DEF InsertRow, TypeOK, Pending
  <2> QED
    BY <2>1, <2>3, UniqueKept DEF OnlyAdvances
<1>4. ASSUME NEW r \in Request, OnlyAdvances(r), accounts' = accounts, tx' = tx
      PROVE  UniqueAccounts' /\ Reserved'
  BY <1>4, UniqueByAdvance
<1>5. ASSUME NEW r \in Request,
             FindUser(r) \/ Connect(r) \/ ReadUser(r) \/ StoreSession(r) \/ ReadProfile(r)
      PROVE  UniqueAccounts' /\ Reserved'
  <2>1. accounts' = accounts /\ tx' = tx
    BY <1>5 DEF FindUser, Connect, ReadUser, StoreSession, ReadProfile
  <2>2. OnlyAdvances(r)
    BY <1>5, FindUserKeeps, ConnectKeeps, ReadUserKeeps, StoreSessionKeeps, ReadProfileKeeps, Zenon
       DEF Answers, Moves
  <2> QED
    BY <1>4, <2>1, <2>2
<1>6. ASSUME NEW r \in Request,
             ReadSession(r) \/ TouchSession(r) \/ Revoke(r) \/ ReadHash(r) \/ StoreHash(r)
      PROVE  UniqueAccounts' /\ Reserved'
  <2>1. accounts' = accounts /\ tx' = tx
    BY <1>6 DEF ReadSession, TouchSession, Revoke, ReadHash, StoreHash
  <2>2. OnlyAdvances(r)
    BY <1>6, ReadSessionKeeps, TouchSessionKeeps, RevokeKeeps, ReadHashKeeps, StoreHashKeeps, Zenon
       DEF Answers, Moves
  <2> QED
    BY <1>4, <2>1, <2>2
<1>7. ASSUME NEW i \in Id, Expire(i) PROVE UniqueAccounts' /\ Reserved'
  <2>1. accounts' = accounts /\ tx' = tx /\ req' = req
    BY <1>7 DEF Expire
  <2> QED
    BY <2>1, UniqueKept DEF Pending
<1>8. CASE Crash
  <2>1. accounts' = accounts /\ \A q \in Request : ~Pending(q)'
    BY <1>8, CrashKeeps DEF Crash, Pending
  <2> QED
    BY <2>1, UniqueKept
<1> QED
  BY <1>1, <1>2, <1>3, <1>5, <1>6, <1>7, <1>8, Steps, InsertUserUnique, CommitUnique, Zenon

LEMMA UniqueInit ==
    ASSUME Init PROVE UniqueAccounts /\ Reserved
<1>1. \A i \in Account : i \in Seed /\ accounts[i] = SeedIdentity[i]
  BY DEF Init, Account
<1>2. UniqueAccounts
  BY <1>1, ConstantsAssumption DEF UniqueAccounts
<1>3. \A r \in Request : ~Pending(r)
  BY DEF Init, Pending
<1> QED
  BY <1>2, <1>3 DEF Reserved

\* No two accounts share a username or a matricule, however many registrations
\* of one identity run at once over however many clients.
THEOREM AccountsAreUnique == Spec => []UniqueAccounts
<1>1. TypeOK /\ Shape /\ UniqueAccounts /\ Reserved /\ [Next]_vars => UniqueAccounts' /\ Reserved'
  <2> SUFFICES ASSUME TypeOK, Shape, UniqueAccounts, Reserved, [Next]_vars
               PROVE  UniqueAccounts' /\ Reserved'
    OBVIOUS
  <2>1. CASE Next
    BY <2>1, UniqueNext
  <2>2. CASE UNCHANGED vars
    <3>1. accounts' = accounts /\ tx' = tx /\ req' = req
      BY <2>2 DEF vars
    <3> QED
      BY <3>1, UniqueKept DEF Pending
  <2> QED
    BY <2>1, <2>2
<1>2. Init => UniqueAccounts /\ Reserved
  BY UniqueInit
<1> QED
  BY <1>1, <1>2, Shaped, PTL DEF Spec

-----------------------------------------------------------------------------
(* Logouts are final *)

Revoked(s) == s \in Id /\ sessions[s] # None /\ sessions[s].revoked

\* The session of an answered logout, and of a refresh sent after that, is revoked,
\* and such a refresh does not get past its reading of the session.
LogoutRow(q) == req[q].op = "logout" /\ req[q].status = 200 => Revoked(req[q].session)
LateSession(q) == req[q].op = "refresh" /\ req[q].late => Revoked(req[q].session)
LateRow(q) == req[q].op = "refresh" /\ req[q].late =>
                  req[q].at # "touch session" /\ req[q].status # 200
HashRow(q) == req[q].at \in {"read hash", "store hash"} => req[q].op = "changePassword"
RevokedRow(q) == LogoutRow(q) /\ LateSession(q) /\ LateRow(q) /\ HashRow(q)
Revocations == \A q \in Request : RevokedRow(q)

LEMMA SessionsGrowStep ==
    ASSUME TypeOK, Shape, Own, [Next]_vars
    PROVE  SessionsGrow
<1>1. ASSUME NEW r \in Request, NEW u \in Id, sessions[r] = None,
             sessions' = [sessions EXCEPT ![r] = NewSession(u)]
      PROVE  SessionsGrow
  BY <1>1 DEF SessionsGrow, TypeOK
<1>2. CASE sessions' = sessions
  BY <1>2 DEF SessionsGrow
<1>3. ASSUME NEW r \in Request, Commit(r) PROVE SessionsGrow
  <2>1. sessions' = [sessions EXCEPT ![r] = NewSession(r)] /\ r \in Id
    BY <1>3, CommitKeeps DEF Id
  <2>2. sessions[r] = None
    BY <1>3 DEF Commit, At, Own, OwnRow, NoSessionYet
  <2> QED
    BY <1>1, <2>1, <2>2
<1>4. ASSUME NEW r \in Request, StoreSession(r) PROVE SessionsGrow
  <2>1. sessions' = [sessions EXCEPT ![r] = NewSession(req[r].user)] /\ req[r].user \in Id
    BY <1>4, StoreSessionKeeps DEF StoreSession, Account
  <2>2. sessions[r] = None
    BY <1>4 DEF StoreSession, At, Own, OwnRow, NoSessionYet
  <2> QED
    BY <1>1, <2>1, <2>2
<1> QED
  BY <1>2, <1>3, <1>4, RevokeKeeps, ExpireKeeps, Untouched

LEMMA RevokedStays ==
    ASSUME SessionsGrow, NEW s, Revoked(s)
    PROVE  Revoked(s)'
  BY DEF SessionsGrow, Revoked

LEMMA RowSame ==
    ASSUME SessionsGrow, NEW q \in Request, RevokedRow(q), req'[q] = req[q]
    PROVE  RevokedRow(q)'
<1>1. Revoked(req[q].session) => sessions'[req[q].session] # None /\ sessions'[req[q].session].revoked
  BY RevokedStays DEF Revoked
<1>2. LogoutRow(q)'
  BY <1>1 DEF RevokedRow, LogoutRow, Revoked
<1>3. LateSession(q)'
  BY <1>1 DEF RevokedRow, LateSession, Revoked
<1>4. LateRow(q)'
  BY Zenon DEF RevokedRow, LateRow
<1>5. HashRow(q)'
  BY DEF RevokedRow, HashRow
<1> QED
  BY <1>2, <1>3, <1>4, <1>5 DEF RevokedRow

SameInputs(r) ==
    req'[r].op = req[r].op /\ req'[r].session = req[r].session /\ req'[r].late = req[r].late

LEMMA LateSessionKept ==
    ASSUME SessionsGrow, NEW r \in Request, RevokedRow(r), SameInputs(r)
    PROVE  LateSession(r)'
<1>1. Revoked(req[r].session) => sessions'[req[r].session] # None /\ sessions'[req[r].session].revoked
  BY RevokedStays DEF Revoked
<1> QED
  BY <1>1 DEF RevokedRow, LateSession, Revoked, SameInputs

\* A request that is not answered 200 by the step, and does not get to where
\* its operation matters.
LEMMA RowUnserved ==
    ASSUME SessionsGrow, NEW r \in Request, RevokedRow(r), SameInputs(r),
           req'[r].status # 200,
           req'[r].at \notin {"touch session", "read hash", "store hash"}
    PROVE  RevokedRow(r)'
<1>1. LateSession(r)'
  BY LateSessionKept
<1>2. LogoutRow(r)' /\ LateRow(r)' /\ HashRow(r)'
  BY Zenon DEF LogoutRow, LateRow, HashRow
<1> QED
  BY <1>1, <1>2 DEF RevokedRow

\* A request of login or changePassword.
LEMMA RowOther ==
    ASSUME NEW r \in Request, SameInputs(r), req[r].op \notin {"refresh", "logout"},
           req'[r].at \in {"read hash", "store hash"} => req[r].op = "changePassword"
    PROVE  RevokedRow(r)'
  BY DEF RevokedRow, LogoutRow, LateSession, LateRow, HashRow, SameInputs

LEMMA RowOfAll ==
    ASSUME Revocations, SessionsGrow, NEW r \in Request, RevokedRow(r)',
           \A q \in Request : q # r => req'[q] = req[q]
    PROVE  Revocations'
<1> SUFFICES ASSUME NEW q \in Request, q # r PROVE RevokedRow(q)'
  BY DEF Revocations
<1> QED
  BY RowSame DEF Revocations

Unserved(r) ==
    Answers(r, 201) \/ Answers(r, 401) \/ Answers(r, 404) \/ Answers(r, 409) \/ Answers(r, 500)

LEMMA UnservedRow ==
    ASSUME Revocations, SessionsGrow, NEW r \in Request, Unserved(r)
    PROVE  Revocations'
<1>1. OnlyAdvances(r) /\ req'[r].at = "done" /\ req'[r].status # 200
  BY DEF Unserved, Answers
<1>2. SameInputs(r) /\ \A q \in Request : q # r => req'[q] = req[q]
  BY <1>1 DEF OnlyAdvances, SameInputs
<1>3. RevokedRow(r)'
  BY <1>1, <1>2, RowUnserved DEF Revocations
<1> QED
  BY <1>2, <1>3, RowOfAll

Quiet(r) ==
    /\ OnlyAdvances(r) /\ req'[r].status = 0
    /\ req'[r].at \notin {"touch session", "read hash", "store hash"}

LEMMA QuietRow ==
    ASSUME Revocations, SessionsGrow, NEW r \in Request, Quiet(r)
    PROVE  Revocations'
<1>1. SameInputs(r) /\ \A q \in Request : q # r => req'[q] = req[q]
  BY DEF OnlyAdvances, SameInputs, Quiet
<1>2. /\ req'[r].status # 200
      /\ req'[r].at \notin {"touch session", "read hash", "store hash"}
  <2>1. req'[r].status = 0
    BY DEF Quiet
  <2>2. req'[r].status # 200
    BY <2>1
  <2> QED
    BY <2>2, Zenon DEF Quiet
<1>3. RevokedRow(r)'
  BY <1>1, <1>2, RowUnserved DEF Revocations
<1> QED
  BY <1>1, <1>3, RowOfAll

LEMMA OtherRow ==
    ASSUME Revocations, SessionsGrow, NEW r \in Request, OnlyAdvances(r),
           req[r].op \notin {"refresh", "logout"},
           req'[r].at \in {"read hash", "store hash"} => req[r].op = "changePassword"
    PROVE  Revocations'
<1>1. SameInputs(r) /\ \A q \in Request : q # r => req'[q] = req[q]
  BY DEF OnlyAdvances, SameInputs
<1>2. RevokedRow(r)'
  BY <1>1, RowOther
<1> QED
  BY <1>1, <1>2, RowOfAll

LEMMA MoveIsQuiet ==
    ASSUME Shape, NEW r \in Request, NEW place, Moves(r, place),
           req[r].at # "done", place \notin {"touch session", "read hash", "store hash"}
    PROVE  Quiet(r)
<1>1. req[r].status = 0
  BY DEF Shape, RequestShape
<1> QED
  BY <1>1 DEF Moves, Quiet

LEMMA ArriveRow ==
    ASSUME TypeOK, Shape, Revocations, SessionsGrow, NEW r \in Request, Arrive(r)
    PROVE  Revocations'
<1>1. /\ \A q \in Request : q # r => req'[q] = req[q]
      /\ req'[r].status = 0 /\ req'[r].at # "touch session"
      /\ req'[r].op = "refresh" => req'[r].late = LoggedOut(req'[r].session)
      /\ req'[r].at \in {"read hash", "store hash"} => req'[r].op = "changePassword"
  BY ArriveKeeps
<1>2. req'[r].status # 200
  <2>1. req'[r].status = 0
    BY <1>1
  <2> QED
    BY <2>1
<1>3. LateRow(r)' /\ HashRow(r)' /\ LogoutRow(r)'
  BY <1>1, <1>2, Zenon DEF LateRow, HashRow, LogoutRow
<1>4. ASSUME NEW s, LoggedOut(s) PROVE Revoked(s)
  BY <1>4, Zenon DEF LoggedOut, Revocations, RevokedRow, LogoutRow
<1>5. sessions' = sessions
  BY DEF Arrive, tables
<1>6. ASSUME req'[r].op = "refresh", req'[r].late PROVE Revoked(req'[r].session)
  BY <1>1, <1>4, <1>6
<1>7. LateSession(r)'
  BY <1>5, <1>6 DEF LateSession, Revoked
<1>8. RevokedRow(r)'
  BY <1>3, <1>7 DEF RevokedRow
<1> QED
  BY <1>1, <1>8, RowOfAll

LEMMA RegisterRow ==
    ASSUME TypeOK, Shape, Revocations, SessionsGrow, NEW r \in Request,
           \/ Fail(r) \/ FindUser(r) \/ Connect(r) \/ InsertUser(r) \/ Commit(r)
           \/ \E t \in DOMAIN Following : InsertRow(r, t)
    PROVE  Revocations'
<1>1. CASE Fail(r)
  BY <1>1, KeptByFail, UnservedRow DEF Unserved
<1>2. CASE FindUser(r)
  <2>1. req[r].at # "done"
    BY <1>2 DEF FindUser, At
  <2>2. Answers(r, 409) \/ Moves(r, "connect")
    BY <1>2, FindUserKeeps
  <2>3. CASE Answers(r, 409)
    BY <2>3, UnservedRow DEF Unserved
  <2>4. CASE Moves(r, "connect")
    BY <2>1, <2>4, MoveIsQuiet, QuietRow
  <2> QED
    BY <2>2, <2>3, <2>4
<1>3. CASE Connect(r)
  <2>1. req[r].at # "done" /\ Moves(r, "users")
    BY <1>3, ConnectKeeps DEF Connect, At
  <2> QED
    BY <2>1, MoveIsQuiet, QuietRow
<1>4. CASE InsertUser(r)
  <2>1. req[r].at # "done" /\ Moves(r, "profiles")
    BY <1>4, InsertUserKeeps DEF InsertUser, At
  <2> QED
    BY <2>1, MoveIsQuiet, QuietRow
<1>5. CASE Commit(r)
  BY <1>5, CommitKeeps, UnservedRow DEF Unserved
<1>6. ASSUME NEW t \in DOMAIN Following, InsertRow(r, t) PROVE Revocations'
  <2>1. t \in {"profiles", "settings", "presences", "sessions"}
    BY DEF Following
  <2>2. Following[t] \in {"settings", "presences", "sessions", "commit"}
    BY <2>1 DEF Following
  <2>3. req[r].at # "done" /\ Moves(r, Following[t])
    BY <1>6, <2>1, InsertRowKeeps DEF InsertRow, At
  <2>4. Following[t] \notin {"touch session", "read hash", "store hash"}
    BY <2>2
  <2> QED
    BY <2>3, <2>4, MoveIsQuiet, QuietRow
<1> QED
  BY <1>1, <1>2, <1>3, <1>4, <1>5, <1>6

LEMMA LoginRow ==
    ASSUME TypeOK, Shape, Revocations, SessionsGrow, NEW r \in Request,
           ReadUser(r) \/ StoreSession(r) \/ ReadProfile(r)
    PROVE  Revocations'
<1>1. CASE ReadUser(r)
  <2>1. \/ Answers(r, 404) \/ Answers(r, 401)
        \/ OnlyAdvances(r) /\ req'[r].at = "store session" /\ req'[r].status = 0
    BY <1>1, ReadUserKeeps
  <2>2. Unserved(r) \/ Quiet(r)
    BY <2>1 DEF Unserved, Quiet
  <2> QED
    BY <2>2, UnservedRow, QuietRow
<1>2. CASE StoreSession(r)
  <2>1. req[r].at # "done" /\ (Answers(r, 500) \/ Moves(r, "read profile"))
    BY <1>2, StoreSessionKeeps DEF StoreSession, At
  <2>2. CASE Answers(r, 500)
    BY <2>2, UnservedRow DEF Unserved
  <2>3. CASE Moves(r, "read profile")
    BY <2>1, <2>3, MoveIsQuiet, QuietRow
  <2> QED
    BY <2>1, <2>2, <2>3
<1>3. CASE ReadProfile(r)
  <2>1. OnlyAdvances(r) /\ req[r].op = "login" /\ req'[r].at = "done"
    BY <1>3, ReadProfileKeeps, Zenon DEF Answers
  <2> QED
    BY <2>1, OtherRow
<1> QED
  BY <1>1, <1>2, <1>3

LEMMA RefreshRow ==
    ASSUME TypeOK, Shape, Revocations, SessionsGrow, NEW r \in Request,
           ReadSession(r) \/ TouchSession(r)
    PROVE  Revocations'
<1>1. RevokedRow(r)
  BY DEF Revocations
<1>2. ASSUME OnlyAdvances(r), req[r].op = "refresh", ~req[r].late, req'[r].at \notin {"read hash", "store hash"}
      PROVE  Revocations'
  <2>1. SameInputs(r) /\ \A q \in Request : q # r => req'[q] = req[q]
    BY <1>2 DEF OnlyAdvances, SameInputs
  <2>2. RevokedRow(r)'
    BY <1>2, <2>1, Zenon DEF SameInputs, RevokedRow, LogoutRow, LateSession, LateRow, HashRow
  <2> QED
    BY <2>1, <2>2, RowOfAll
<1>3. CASE ReadSession(r)
  <2>1. req[r].op = "refresh"
    BY <1>3, ReadSessionKeeps
  <2>2. CASE Answers(r, 401)
    BY <2>2, UnservedRow DEF Unserved
  <2>3. CASE /\ Moves(r, "touch session")
             /\ sessions[req[r].session] # None /\ ~sessions[req[r].session].revoked
    <3>1. ~req[r].late
      BY <1>1, <2>1, <2>3 DEF RevokedRow, LateSession, Revoked
    <3>2. OnlyAdvances(r) /\ req'[r].at = "touch session"
      BY <2>3 DEF Moves
    <3> QED
      BY <1>2, <2>1, <3>1, <3>2
  <2> QED
    BY <1>3, <2>2, <2>3, ReadSessionKeeps
<1>4. CASE TouchSession(r)
  <2>1. /\ req[r].op = "refresh" /\ req[r].at = "touch session"
        /\ OnlyAdvances(r) /\ req'[r].at = "done"
    BY <1>4, TouchSessionKeeps, Zenon DEF TouchSession, At, Answers
  <2>2. ~req[r].late
    BY <1>1, <2>1, Zenon DEF RevokedRow, LateRow
  <2> QED
    BY <1>2, <2>1, <2>2
<1> QED
  BY <1>3, <1>4

LEMMA RevokeRow ==
    ASSUME TypeOK, Shape, Revocations, SessionsGrow, NEW r \in Request, Revoke(r)
    PROVE  Revocations'
<1>1. /\ req[r].op = "logout" /\ req[r].session \in Id
      /\ \/ Unserved(r)
         \/ Answers(r, 200) /\ sessions'[req[r].session] # None
                            /\ sessions'[req[r].session].revoked
  BY RevokeKeeps DEF Unserved
<1>2. CASE Answers(r, 200) /\ sessions'[req[r].session] # None /\ sessions'[req[r].session].revoked
  <2>1. /\ SameInputs(r) /\ req'[r].at = "done"
        /\ \A q \in Request : q # r => req'[q] = req[q]
    BY <1>2 DEF Answers, OnlyAdvances, SameInputs
  <2>2. LogoutRow(r)'
    BY <1>1, <1>2, <2>1 DEF LogoutRow, Revoked, SameInputs
  <2>3. LateSession(r)' /\ LateRow(r)' /\ HashRow(r)'
    BY <1>1, <2>1 DEF LateSession, LateRow, HashRow, SameInputs
  <2>4. RevokedRow(r)'
    BY <2>2, <2>3 DEF RevokedRow
  <2> QED
    BY <2>1, <2>4, RowOfAll
<1> QED
  BY <1>1, <1>2, UnservedRow

LEMMA ChangeRow ==
    ASSUME TypeOK, Shape, Revocations, SessionsGrow, NEW r \in Request,
           ReadHash(r) \/ StoreHash(r)
    PROVE  Revocations'
<1>1. req[r].op = "changePassword"
  BY DEF Revocations, RevokedRow, HashRow, ReadHash, StoreHash, At
<1>2. OnlyAdvances(r)
  BY ReadHashKeeps, StoreHashKeeps, Zenon DEF Answers, Moves
<1> QED
  BY <1>1, <1>2, OtherRow

LEMMA CrashRow ==
    ASSUME TypeOK, Shape, Revocations, Crash
    PROVE  Revocations'
<1> SUFFICES ASSUME NEW r \in Request PROVE RevokedRow(r)'
  BY DEF Revocations
<1>1. sessions' = sessions /\ RevokedRow(r)
  BY DEF Crash, tables, Revocations
<1>2. SessionsGrow
  BY <1>1 DEF SessionsGrow
<1>3. CASE req'[r] = req[r]
  BY <1>1, <1>2, <1>3, RowSame
<1>4. CASE /\ req'[r].at = "done" /\ req'[r].op = req[r].op
           /\ req'[r].status = req[r].status /\ req'[r].late = req[r].late
           /\ req'[r].session = req[r].session
  <2>1. LogoutRow(r)'
    BY <1>1, <1>4, Zenon DEF RevokedRow, LogoutRow, Revoked
  <2>2. LateSession(r)'
    BY <1>1, <1>4, Zenon DEF RevokedRow, LateSession, Revoked
  <2>3. LateRow(r)'
    BY <1>1, <1>4 DEF RevokedRow, LateRow
  <2>4. HashRow(r)'
    BY <1>4 DEF HashRow
  <2> QED
    BY <2>1, <2>2, <2>3, <2>4 DEF RevokedRow
<1> QED
  BY <1>3, <1>4, CrashKeeps

LEMMA RevocationsStep ==
    ASSUME TypeOK, Shape, Own, Revocations, [Next]_vars
    PROVE  Revocations'
<1>1. SessionsGrow
  BY SessionsGrowStep
<1>2. ASSUME req' = req PROVE Revocations'
  <2>1. \A q \in Request : RevokedRow(q)'
    BY <1>1, <1>2, RowSame DEF Revocations
  <2> QED
    BY <2>1 DEF Revocations
<1>3. CASE UNCHANGED vars
  BY <1>2, <1>3 DEF vars
<1>4. ASSUME NEW i \in Id, Expire(i) PROVE Revocations'
  BY <1>2, <1>4 DEF Expire
<1>5. CASE Next
  BY <1>1, <1>4, <1>5, Steps, ArriveRow, RegisterRow, LoginRow, RefreshRow, RevokeRow,
     ChangeRow, CrashRow, Zenon
<1> QED
  BY <1>3, <1>5

LEMMA RevocationsInit ==
    ASSUME Init PROVE Revocations
<1>1. \A r \in Request : req[r].op = "none" /\ req[r].at = "new"
  BY DEF Init
<1> QED
  BY <1>1 DEF Revocations, RevokedRow, LogoutRow, LateSession, LateRow, HashRow

\* A refresh sent after the logout of its session was answered gets no access
\* token, whatever was in flight during the logout.
THEOREM LogoutsAreFinal == Spec => []RevokedStaysOut
<1>1. TypeOK /\ Shape /\ Own /\ Revocations /\ [Next]_vars => Revocations'
  BY RevocationsStep
<1>2. Init => Revocations
  BY RevocationsInit
<1>3. Revocations => RevokedStaysOut
  BY Zenon DEF Revocations, RevokedRow, LateRow, RevokedStaysOut
<1> QED
  BY <1>1, <1>2, <1>3, Shaped, OwnRows, PTL DEF Spec

-----------------------------------------------------------------------------
(* The pool of clients: a client is held exactly from BEGIN to the end of the *)
(* transaction, whichever end that is.                                      *)

InTransaction(r) == req[r].at \in Table \cup {"commit"}
ClientsHeld == \A r \in Request : r \in clients <=> InTransaction(r)

OthersStay(r) == \A q \in Request : q # r => req'[q] = req[q]

\* A step that neither begins nor ends a transaction and keeps the clients.
LEMMA HeldOn ==
    ASSUME ClientsHeld, NEW r \in Request, OthersStay(r), UNCHANGED clients,
           InTransaction(r) <=> InTransaction(r)'
    PROVE  ClientsHeld'
<1> SUFFICES ASSUME NEW q \in Request PROVE (q \in clients <=> InTransaction(q))'
  BY DEF ClientsHeld
<1>1. q # r => req'[q] = req[q]
  BY DEF OthersStay
<1> QED
  BY <1>1 DEF ClientsHeld, InTransaction

\* The answer that ends a transaction releases the client.
LEMMA HeldNoMore ==
    ASSUME ClientsHeld, NEW r \in Request, OthersStay(r), req'[r].at = "done",
           clients' = clients \ {r}
    PROVE  ClientsHeld'
<1> SUFFICES ASSUME NEW q \in Request PROVE (q \in clients <=> InTransaction(q))'
  BY DEF ClientsHeld
<1>1. q # r => req'[q] = req[q]
  BY DEF OthersStay
<1> QED
  BY <1>1 DEF ClientsHeld, InTransaction, Table

\* A pool.query, which takes a client only for itself.
LEMMA HeldByQuery ==
    ASSUME ClientsHeld, NEW r \in Request, ~InTransaction(r), UNCHANGED clients,
           OthersStay(r), ~InTransaction(r)'
    PROVE  ClientsHeld'
  BY HeldOn

LEMMA AnswerEnds ==
    ASSUME NEW r \in Request, NEW status, Answers(r, status)
    PROVE  OthersStay(r) /\ req'[r].at = "done" /\ ~InTransaction(r)'
  BY DEF Answers, OnlyAdvances, OthersStay, InTransaction, Table

LEMMA MoveOutside ==
    ASSUME NEW r \in Request, NEW place, Moves(r, place)
    PROVE  /\ OthersStay(r)
           /\ InTransaction(r)' <=> place \in Table \cup {"commit"}
  BY DEF Moves, OnlyAdvances, OthersStay, InTransaction

LEMMA RegisterHeld ==
    ASSUME TypeOK, Shape, ClientsHeld, NEW r \in Request,
           \/ FindUser(r) \/ Connect(r) \/ InsertUser(r) \/ Commit(r)
           \/ \E t \in DOMAIN Following : InsertRow(r, t)
    PROVE  ClientsHeld'
<1>1. CASE FindUser(r)
  <2>1. ~InTransaction(r) /\ UNCHANGED clients /\ "connect" \notin Table \cup {"commit"}
    BY <1>1 DEF FindUser, At, InTransaction, Table
  <2>2. OthersStay(r) /\ ~InTransaction(r)'
    BY <1>1, <2>1, FindUserKeeps, AnswerEnds, MoveOutside
  <2> QED
    BY <2>1, <2>2, HeldByQuery
<1>2. CASE Connect(r)
  <2>1. OthersStay(r) /\ InTransaction(r)'
    BY <1>2, ConnectKeeps, MoveOutside DEF Table
  <2>2. clients' = clients \cup {r}
    BY <1>2 DEF Connect
  <2>3. ASSUME NEW q \in Request PROVE (q \in clients <=> InTransaction(q))'
    BY <2>1, <2>2 DEF ClientsHeld, OthersStay, InTransaction
  <2> QED
    BY <2>3 DEF ClientsHeld
<1>3. CASE InsertUser(r)
  <2>1. InTransaction(r) /\ UNCHANGED clients /\ "profiles" \in Table
    BY <1>3 DEF InsertUser, At, InTransaction, Table
  <2>2. OthersStay(r) /\ InTransaction(r)'
    BY <1>3, <2>1, InsertUserKeeps, MoveOutside
  <2> QED
    BY <2>1, <2>2, HeldOn
<1>4. CASE Commit(r)
  <2>1. clients' = clients \ {r}
    BY <1>4 DEF Commit
  <2>2. OthersStay(r) /\ req'[r].at = "done"
    BY <1>4, CommitKeeps, AnswerEnds
  <2> QED
    BY <2>1, <2>2, HeldNoMore
<1>5. ASSUME NEW t \in DOMAIN Following, InsertRow(r, t) PROVE ClientsHeld'
  <2>1. t \in Table /\ Following[t] \in Table \cup {"commit"}
    BY DEF Following, Table
  <2>2. InTransaction(r) /\ UNCHANGED clients
    BY <1>5, <2>1 DEF InsertRow, At, InTransaction
  <2>3. OthersStay(r) /\ InTransaction(r)'
    BY <1>5, <2>1, InsertRowKeeps, MoveOutside
  <2> QED
    BY <2>2, <2>3, HeldOn
<1> QED
  BY <1>1, <1>2, <1>3, <1>4, <1>5

\* The operations that need no transaction.
LEMMA QueriesHeld ==
    ASSUME TypeOK, Shape, ClientsHeld, NEW r \in Request,
           \/ ReadUser(r) \/ StoreSession(r) \/ ReadProfile(r)
           \/ ReadSession(r) \/ TouchSession(r) \/ Revoke(r)
           \/ ReadHash(r) \/ StoreHash(r)
    PROVE  ClientsHeld'
<1>1. ~InTransaction(r)
  BY DEF ReadUser, StoreSession, ReadProfile, ReadSession, TouchSession, Revoke, ReadHash,
         StoreHash, At, InTransaction, Table
<1>2. UNCHANGED clients
  BY DEF ReadUser, StoreSession, ReadProfile, ReadSession, TouchSession, Revoke, ReadHash,
         StoreHash
<1>3. /\ \A place \in {"read profile", "touch session", "store hash"} :
            Moves(r, place) => OthersStay(r) /\ ~InTransaction(r)'
      /\ \A status \in Status : Answers(r, status) => OthersStay(r) /\ ~InTransaction(r)'
  <2>1. {"read profile", "touch session", "store hash"} \cap (Table \cup {"commit"}) = {}
    BY DEF Table
  <2> QED
    BY <2>1, AnswerEnds, MoveOutside
<1>4. 200 \in Status /\ 401 \in Status /\ 404 \in Status /\ 500 \in Status
  BY DEF Status
<1>5. ASSUME \/ Answers(r, 200) \/ Answers(r, 401) \/ Answers(r, 404) \/ Answers(r, 500)
              \/ Moves(r, "read profile") \/ Moves(r, "touch session") \/ Moves(r, "store hash")
       PROVE  ClientsHeld'
  <2>1. OthersStay(r) /\ ~InTransaction(r)'
    BY <1>3, <1>4, <1>5
  <2> QED
    BY <1>1, <1>2, <2>1, HeldByQuery
<1>6. CASE ReadUser(r)
  <2>1. CASE OnlyAdvances(r) /\ req'[r].at = "store session"
    <3>1. OthersStay(r) /\ ~InTransaction(r)'
      BY <2>1 DEF OnlyAdvances, OthersStay, InTransaction, Table
    <3> QED
      BY <1>1, <1>2, <3>1, HeldByQuery
  <2>2. CASE Answers(r, 404) \/ Answers(r, 401)
    BY <1>5, <2>2
  <2> QED
    BY <1>6, <2>1, <2>2, ReadUserKeeps
<1>7. CASE StoreSession(r)
  BY <1>7, <1>5, StoreSessionKeeps
<1>8. CASE ReadProfile(r) \/ TouchSession(r) \/ StoreHash(r)
  BY <1>8, <1>5, ReadProfileKeeps, TouchSessionKeeps, StoreHashKeeps
<1>9. CASE ReadSession(r)
  BY <1>9, <1>5, ReadSessionKeeps
<1>10. CASE Revoke(r)
  <2>1. Answers(r, 404) \/ Answers(r, 500) \/ Answers(r, 200)
    BY <1>10, RevokeKeeps
  <2> QED
    BY <1>5, <2>1
<1>11. CASE ReadHash(r)
  BY <1>11, <1>5, ReadHashKeeps
<1> QED
  BY <1>6, <1>7, <1>8, <1>9, <1>10, <1>11

LEMMA ArriveHeld ==
    ASSUME TypeOK, Shape, ClientsHeld, NEW r \in Request, Arrive(r)
    PROVE  ClientsHeld'
<1>1. OthersStay(r) /\ req[r].at = "new" /\ ~InTransaction(r)'
  BY ArriveKeeps DEF OthersStay, InTransaction
<1>2. ~InTransaction(r) /\ UNCHANGED clients
  BY <1>1 DEF InTransaction, Table, Arrive
<1> QED
  BY <1>1, <1>2, HeldByQuery

LEMMA FailHeld ==
    ASSUME TypeOK, Shape, ClientsHeld, NEW r \in Request, Fail(r)
    PROVE  ClientsHeld'
<1>1. OthersStay(r) /\ req'[r].at = "done"
  BY KeptByFail, AnswerEnds
<1>2. clients' = clients \ {r}
  BY DEF Fail
<1> QED
  BY <1>1, <1>2, HeldNoMore

LEMMA CrashHeld ==
    ASSUME TypeOK, Crash
    PROVE  ClientsHeld'
<1>1. clients' = {}
  BY DEF Crash
<1>2. ASSUME NEW r \in Request PROVE req'[r].at \in {"new", "done"}
  <2>1. req[r] \in Handler
    BY DEF TypeOK
  <2>2. [req[r] EXCEPT !.at = "done"].at = "done"
    BY <2>1 DEF Handler
  <2> QED
    BY <2>2 DEF Crash
<1>3. ASSUME NEW r \in Request PROVE ~InTransaction(r)'
  BY <1>2 DEF InTransaction, Table
<1> QED
  BY <1>1, <1>3 DEF ClientsHeld

LEMMA ClientsHeldStep ==
    ASSUME TypeOK, Shape, ClientsHeld, [Next]_vars
    PROVE  ClientsHeld'
<1>1. ASSUME UNCHANGED <<req, clients>> PROVE ClientsHeld'
  BY <1>1 DEF ClientsHeld, InTransaction
<1>2. CASE UNCHANGED vars
  BY <1>1, <1>2 DEF vars
<1>3. ASSUME NEW i \in Id, Expire(i) PROVE ClientsHeld'
  BY <1>1, <1>3 DEF Expire
<1>4. CASE Next
  BY <1>3, <1>4, Steps, ArriveHeld, FailHeld, RegisterHeld, QueriesHeld, CrashHeld, Zenon
<1> QED
  BY <1>2, <1>4

LEMMA ClientsHeldInit ==
    ASSUME Init PROVE ClientsHeld
<1>1. clients = {} /\ \A r \in Request : req[r].at = "new"
  BY DEF Init
<1> QED
  BY <1>1 DEF ClientsHeld, InTransaction, Table

\* A client of the pool is held by the requests inside their transaction and
\* by nobody else: no path out of register keeps one.
THEOREM ClientsComeBack == Spec => []ClientsHeld
<1>1. TypeOK /\ Shape /\ ClientsHeld /\ [Next]_vars => ClientsHeld'
  BY ClientsHeldStep
<1> QED
  BY <1>1, ClientsHeldInit, Shaped, PTL DEF Spec

\* Of requests that wait one may always run: a request that holds a client and
\* has inserted its user waits for nothing; while none has, no row is waited
\* for, and either a client is free or its holder may insert.
LEMMA SomeMayRun ==
    ASSUME TypeOK, Shape, ClientsHeld PROVE NobodyStuck
<1> SUFFICES ASSUME NEW w \in Request, Waits(w) PROVE \E r \in Request : MayRun(r)
  BY DEF NobodyStuck
<1>1. \A q \in Request : q \in clients => Waits(q) /\ At(q, req[q].at)
  BY DEF ClientsHeld, InTransaction, Waits, At, Table
<1>2. CASE \E q \in Request : q \in clients /\ req[q].at # "users"
  BY <1>1, <1>2 DEF MayRun
<1>3. CASE \A q \in Request : q \in clients => req[q].at = "users"
  <2>1. ASSUME NEW q \in Request PROVE "users" \notin tx[q]
    <3>1. tx[q] = Inserted(req[q].at)
      BY DEF Shape, RequestShape
    <3>2. req[q].at = "users" \/ req[q].at \notin Table \cup {"commit"}
      BY <1>3 DEF ClientsHeld, InTransaction
    <3>3. Inserted(req[q].at) = {}
      BY <3>2 DEF Inserted, Table
    <3> QED
      BY <3>1, <3>3
  <2>2. CASE \E q \in Request : q \in clients
    BY <1>1, <2>1, <2>2 DEF MayRun
  <2>3. CASE \A q \in Request : q \notin clients
    <3>1. clients = {}
      BY <2>3 DEF TypeOK
    <3>2. Cardinality(clients) < PoolSize
      BY <3>1, FS_EmptySet, ConstantsAssumption
    <3> QED
      BY <2>1, <3>2 DEF MayRun, At
  <2> QED
    BY <2>2, <2>3
<1> QED
  BY <1>2, <1>3

\* No request waits for ever for a client or for a row of another that waits:
\* of the requests that wait, one may always run its next statement.
THEOREM NoneIsStuck == Spec => []NobodyStuck
<1>1. TypeOK /\ Shape /\ ClientsHeld => NobodyStuck
  BY SomeMayRun
<1> QED
  BY <1>1, Shaped, ClientsComeBack, PTL

=============================================================================
