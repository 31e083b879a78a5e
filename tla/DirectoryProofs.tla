--------------------------- MODULE DirectoryProofs ---------------------------
(***************************************************************************)
(* Proofs about contacts and call logs, for any users, any requests and any  *)
(* lists of participants that clients send.                                 *)
(***************************************************************************)
EXTENDS Directory, FiniteSetTheorems, TLAPS

-----------------------------------------------------------------------------
(* What a step does to the handlers *)

\* Request r, which was not answered yet, is the only one that gets on.
Advances(r) ==
    /\ req' \in [Request -> Handler]
    /\ \A q \in Request : q # r => req'[q] = req[q]
    /\ req[r].at # "done"

SameInputs(r) ==
    /\ req'[r].user = req[r].user /\ req'[r].contact = req[r].contact
    /\ req'[r].row = req[r].row /\ req'[r].people = req[r].people

Moves(r, place) == Advances(r) /\ SameInputs(r) /\ req'[r].at = place

Answers == {0, 200, 201, 400, 404, 500}

\* Handler field by field.
LEMMA WithAt ==
    ASSUME NEW h \in Handler, NEW place \in Place PROVE [h EXCEPT !.at = place] \in Handler
  BY DEF Handler
LEMMA WithUser ==
    ASSUME NEW h \in Handler, NEW u \in User PROVE [h EXCEPT !.user = u] \in Handler
  BY DEF Handler
LEMMA WithContact ==
    ASSUME NEW h \in Handler, NEW u \in User \cup {Stranger}
    PROVE  [h EXCEPT !.contact = u] \in Handler
  BY DEF Handler
LEMMA WithRow ==
    ASSUME NEW h \in Handler, NEW i \in Request PROVE [h EXCEPT !.row = i] \in Handler
  BY DEF Handler
LEMMA WithBlocked ==
    ASSUME NEW h \in Handler, NEW b \in BOOLEAN \cup {None}
    PROVE  [h EXCEPT !.blocked = b] \in Handler
  BY DEF Handler
LEMMA WithCallStatus ==
    ASSUME NEW h \in Handler, NEW c \in {"MISSED", None}
    PROVE  [h EXCEPT !.callStatus = c] \in Handler
  BY DEF Handler
LEMMA WithPeople ==
    ASSUME NEW h \in Handler, NEW l \in Lists PROVE [h EXCEPT !.people = l] \in Handler
  BY DEF Handler
LEMMA WithAnswer ==
    ASSUME NEW h \in Handler, NEW status \in Answers
    PROVE  [h EXCEPT !.answer = status] \in Handler
  BY DEF Handler, Answers

LEMMA GotoMoves ==
    ASSUME req \in [Request -> Handler], NEW r \in Request, NEW place \in Place,
           Goto(r, place), req[r].at # "done"
    PROVE  Moves(r, place)
<1>1. PICK h : h = [req[r] EXCEPT !.at = place]
  OBVIOUS
<1>2. h \in Handler
  BY <1>1, WithAt
<1>3. /\ h.at = place /\ h.user = req[r].user /\ h.contact = req[r].contact
      /\ h.row = req[r].row /\ h.people = req[r].people
  BY <1>1 DEF Handler
<1>4. req' = [req EXCEPT ![r] = h]
  BY <1>1 DEF Goto
<1>5. /\ req' \in [Request -> Handler] /\ req'[r] = h
      /\ \A q \in Request : q # r => req'[q] = req[q]
  BY <1>2, <1>4
<1> QED
  BY <1>3, <1>5 DEF Moves, Advances, SameInputs

LEMMA AnswerMoves ==
    ASSUME req \in [Request -> Handler], NEW r \in Request, NEW status \in Answers,
           Answer(r, status), req[r].at # "done"
    PROVE  Moves(r, "done")
<1>1. PICK g : g = [req[r] EXCEPT !.at = "done"]
  OBVIOUS
<1>2. "done" \in Place /\ req[r] \in Handler
  BY DEF Place
<1>3. g \in Handler
  BY <1>1, <1>2, WithAt
<1>4. PICK h : h = [g EXCEPT !.answer = status]
  OBVIOUS
<1>5. h \in Handler
  BY <1>3, <1>4, WithAnswer
<1>6. h = [req[r] EXCEPT !.at = "done", !.answer = status]
  BY <1>1, <1>4, <1>2 DEF Handler
<1>7. /\ h.at = "done" /\ h.user = req[r].user /\ h.contact = req[r].contact
      /\ h.row = req[r].row /\ h.people = req[r].people
  BY <1>6, <1>2 DEF Handler
<1>8. /\ req' \in [Request -> Handler] /\ req'[r] = h
      /\ \A q \in Request : q # r => req'[q] = req[q]
  BY <1>5, <1>6 DEF Answer
<1> QED
  BY <1>7, <1>8 DEF Moves, Advances, SameInputs

-----------------------------------------------------------------------------
(* The invariant: the shape of a handler at each of its places, and the rows *)
(* of the three tables.                                                     *)

RowPlace == {"update contact", "delete contact", "end call", "mark read"}
LogPlace == {"call_logs", "call_participants", "commit"}

Inserted(place) ==
    {t \in {"call_logs"} : place \in {"call_participants", "commit"}}
    \cup {t \in {"call_participants"} : place = "commit"}

RequestShape(r) ==
    /\ req[r].at # "new" => req[r].user \in User
    /\ req[r].at = "upsert contact" => req[r].contact \in User
    /\ req[r].at \in RowPlace => req[r].row \in Request
    /\ req[r].at \in LogPlace => req[r].people \in Lists
    /\ req[r].at = "commit" => Acceptable(req[r].people)

Shape == \A r \in Request : RequestShape(r) /\ tx[r] = Inserted(req[r].at)

\* What a request inserts is there only after it is answered.
NotYet == \A r \in Request : req[r].at # "done" => contacts[r] = None /\ logs[r] = None

\* The participants of log r, if it is there, are those that the request named.
LogRows(r) ==
    IF logs[r] = None THEN \A p \in participants : p.call # r
    ELSE /\ req[r].people \in Lists /\ Acceptable(req[r].people)
         /\ \A p \in participants : p.call = r =>
              \E i \in DOMAIN req[r].people : p.user = req[r].people[i]
         /\ \A i \in DOMAIN req[r].people :
              \E p \in participants : p.call = r /\ p.user = req[r].people[i]

NoDoubles == \A p, q \in participants : p.call = q.call /\ p.user = q.user => p = q

Whole == NotYet /\ NoDoubles /\ \A r \in Request : LogRows(r)

Inv == TypeOK /\ Shape /\ Whole

-----------------------------------------------------------------------------
(* Requests arrive *)

\* What arrives, at a place that fits what came with it.
Arrived(h) ==
    /\ h \in Handler /\ h.user \in User
    /\ h.at \in {"done", "contact exists", "call_logs"} \cup RowPlace
    /\ h.at \in RowPlace => h.row \in Request
    /\ h.at = "call_logs" => h.people \in Lists

LEMMA Asked ==
    ASSUME NEW r \in Request, NEW u \in User, NEW g \in Handler, g.user = u, Asks(r, u, g)
    PROVE  \E h : Sends(r, h) /\ Arrived(h)
<1>1. {"done", "contact exists", "call_logs"} \cup RowPlace \subseteq Place
  BY DEF RowPlace, Place, Table
<1>a. 400 \in Answers
  BY DEF Answers
<1>2. CASE Sends(r, [g EXCEPT !.at = "done", !.contact = u, !.answer = 400])
  <2>1. PICK g1 \in Handler : g1 = [g EXCEPT !.at = "done"]
    BY <1>1, WithAt
  <2>2. PICK g2 \in Handler : g2 = [g1 EXCEPT !.contact = u]
    BY WithContact
  <2>3. PICK h \in Handler : h = [g2 EXCEPT !.answer = 400]
    BY <1>a, WithAnswer
  <2>4. h = [g EXCEPT !.at = "done", !.contact = u, !.answer = 400]
    BY <2>1, <2>2, <2>3 DEF Handler
  <2>5. h.user = u /\ h.at = "done"
    BY <2>4 DEF Handler
  <2> QED
    BY <1>2, <2>4, <2>5 DEF Arrived, RowPlace
<1>3. ASSUME NEW v \in (User \cup {Stranger}) \ {u},
             Sends(r, [g EXCEPT !.at = "contact exists", !.contact = v])
      PROVE  \E h : Sends(r, h) /\ Arrived(h)
  <2>1. PICK g1 \in Handler : g1 = [g EXCEPT !.at = "contact exists"]
    BY <1>1, WithAt
  <2>2. PICK h \in Handler : h = [g1 EXCEPT !.contact = v]
    BY WithContact
  <2>3. h = [g EXCEPT !.at = "contact exists", !.contact = v]
    BY <2>1, <2>2 DEF Handler
  <2>4. h.user = u /\ h.at = "contact exists"
    BY <2>3 DEF Handler
  <2> QED
    BY <1>3, <2>3, <2>4 DEF Arrived, RowPlace
<1>4. ASSUME NEW i \in Request, NEW b \in BOOLEAN \cup {None},
             Sends(r, [g EXCEPT !.at = "update contact", !.row = i, !.blocked = b])
      PROVE  \E h : Sends(r, h) /\ Arrived(h)
  <2>1. PICK g1 \in Handler : g1 = [g EXCEPT !.at = "update contact"]
    BY <1>1, WithAt DEF RowPlace
  <2>2. PICK g2 \in Handler : g2 = [g1 EXCEPT !.row = i]
    BY WithRow
  <2>3. PICK h \in Handler : h = [g2 EXCEPT !.blocked = b]
    BY WithBlocked
  <2>4. h = [g EXCEPT !.at = "update contact", !.row = i, !.blocked = b]
    BY <2>1, <2>2, <2>3 DEF Handler
  <2>5. h.user = u /\ h.at = "update contact" /\ h.row = i
    BY <2>4 DEF Handler
  <2> QED
    BY <1>4, <2>4, <2>5 DEF Arrived, RowPlace
<1>5. ASSUME NEW place \in {"delete contact", "mark read"}, NEW i \in Request,
             Sends(r, [g EXCEPT !.at = place, !.row = i])
      PROVE  \E h : Sends(r, h) /\ Arrived(h)
  <2>1. PICK g1 \in Handler : g1 = [g EXCEPT !.at = place]
    BY <1>1, WithAt DEF RowPlace
  <2>2. PICK h \in Handler : h = [g1 EXCEPT !.row = i]
    BY WithRow
  <2>3. h = [g EXCEPT !.at = place, !.row = i]
    BY <2>1, <2>2 DEF Handler
  <2>4. h.user = u /\ h.at = place /\ h.row = i
    BY ZenonT(60), <2>3 DEF Handler
  <2> QED
    BY <1>5, <2>3, <2>4 DEF Arrived, RowPlace
<1>6. CASE <<>> \in Lists /\ Sends(r, [g EXCEPT !.at = "done", !.people = <<>>, !.answer = 400])
  <2>1. PICK g1 \in Handler : g1 = [g EXCEPT !.at = "done"]
    BY <1>1, WithAt
  <2>2. PICK g2 \in Handler : g2 = [g1 EXCEPT !.people = <<>>]
    BY <1>6, WithPeople
  <2>3. PICK h \in Handler : h = [g2 EXCEPT !.answer = 400]
    BY <1>a, WithAnswer
  <2>4. h = [g EXCEPT !.at = "done", !.people = <<>>, !.answer = 400]
    BY <2>1, <2>2, <2>3 DEF Handler
  <2>5. h.user = u /\ h.at = "done"
    BY <2>4 DEF Handler
  <2> QED
    BY <1>6, <2>4, <2>5 DEF Arrived, RowPlace
<1>7. ASSUME NEW l \in Lists, Sends(r, [g EXCEPT !.at = "call_logs", !.people = l])
      PROVE  \E h : Sends(r, h) /\ Arrived(h)
  <2>1. PICK g1 \in Handler : g1 = [g EXCEPT !.at = "call_logs"]
    BY <1>1, WithAt
  <2>2. PICK h \in Handler : h = [g1 EXCEPT !.people = l]
    BY WithPeople
  <2>3. h = [g EXCEPT !.at = "call_logs", !.people = l]
    BY <2>1, <2>2 DEF Handler
  <2>4. h.user = u /\ h.at = "call_logs" /\ h.people = l
    BY <2>3 DEF Handler
  <2> QED
    BY <1>7, <2>3, <2>4 DEF Arrived, RowPlace
<1>8. ASSUME NEW i \in Request, NEW c \in {"MISSED", None},
             Sends(r, [g EXCEPT !.at = "end call", !.row = i, !.callStatus = c])
      PROVE  \E h : Sends(r, h) /\ Arrived(h)
  <2>1. PICK g1 \in Handler : g1 = [g EXCEPT !.at = "end call"]
    BY <1>1, WithAt DEF RowPlace
  <2>2. PICK g2 \in Handler : g2 = [g1 EXCEPT !.row = i]
    BY WithRow
  <2>3. PICK h \in Handler : h = [g2 EXCEPT !.callStatus = c]
    BY WithCallStatus
  <2>4. h = [g EXCEPT !.at = "end call", !.row = i, !.callStatus = c]
    BY <2>1, <2>2, <2>3 DEF Handler
  <2>5. h.user = u /\ h.at = "end call" /\ h.row = i
    BY <2>4 DEF Handler
  <2> QED
    BY <1>8, <2>4, <2>5 DEF Arrived, RowPlace
<1>9. CASE \E v \in (User \cup {Stranger}) \ {u} :
              Sends(r, [g EXCEPT !.at = "contact exists", !.contact = v])
  BY <1>3, <1>9
<1>10. CASE \E i \in Request, b \in BOOLEAN \cup {None} :
              Sends(r, [g EXCEPT !.at = "update contact", !.row = i, !.blocked = b])
  BY <1>4, <1>10
<1>11. CASE \E i \in Request : Sends(r, [g EXCEPT !.at = "delete contact", !.row = i])
  BY <1>5, <1>11
<1>12. CASE \E l \in Lists \ {<<>>} : Sends(r, [g EXCEPT !.at = "call_logs", !.people = l])
  BY <1>7, <1>12
<1>13. CASE \E i \in Request, c \in {"MISSED", None} :
              Sends(r, [g EXCEPT !.at = "end call", !.row = i, !.callStatus = c])
  BY <1>8, <1>13
<1>14. CASE \E i \in Request : Sends(r, [g EXCEPT !.at = "mark read", !.row = i])
  BY <1>5, <1>14
<1> QED
  BY <1>2, <1>6, <1>9, <1>10, <1>11, <1>12, <1>13, <1>14, Zenon DEF Asks

LEMMA ArriveAdvances ==
    ASSUME TypeOK, NEW r \in Request, Arrive(r)
    PROVE  Advances(r) /\ Arrived(req'[r])
<1>1. PICK u \in User : Asks(r, u, [req[r] EXCEPT !.user = u])
  BY DEF Arrive
<1>2. PICK g : g = [req[r] EXCEPT !.user = u]
  OBVIOUS
<1>3. req[r] \in Handler
  BY DEF TypeOK
<1>4. g \in Handler
  BY <1>2, <1>3, WithUser
<1>5. g.user = u
  BY <1>2, <1>3 DEF Handler
<1>6. PICK h : Sends(r, h) /\ Arrived(h)
  BY <1>1, <1>2, <1>4, <1>5, Asked
<1>7. /\ req' \in [Request -> Handler] /\ req'[r] = h
      /\ \A q \in Request : q # r => req'[q] = req[q]
  BY <1>6 DEF Sends, TypeOK, Arrived
<1> QED
  BY <1>6, <1>7 DEF Arrive, Advances

-----------------------------------------------------------------------------
(* What keeps each part of the invariant *)

\* The transactions of the other requests are left alone.
TxOfOthers(r) ==
    /\ tx' \in [Request -> SUBSET Table]
    /\ \A q \in Request : q # r => tx'[q] = tx[q]

LEMMA ShapeKept ==
    ASSUME Shape, NEW r \in Request, Advances(r), TxOfOthers(r), RequestShape(r)',
           tx'[r] = Inserted(req'[r].at)
    PROVE  Shape'
<1> SUFFICES ASSUME NEW q \in Request, q # r PROVE (RequestShape(q) /\ tx[q] = Inserted(req[q].at))'
  BY DEF Shape
<1>1. req'[q] = req[q] /\ tx'[q] = tx[q] /\ RequestShape(q) /\ tx[q] = Inserted(req[q].at)
  BY DEF Shape, Advances, TxOfOthers
<1> QED
  BY <1>1 DEF RequestShape, Acceptable

LEMMA ShapeOfAnswered ==
    ASSUME Shape, NEW r \in Request, Moves(r, "done"), req[r].at # "new", TxOfOthers(r),
           tx'[r] = {}
    PROVE  Shape'
<1>1. RequestShape(r)'
  BY DEF Shape, RequestShape, Moves, SameInputs, RowPlace, LogPlace
<1>2. Inserted(req'[r].at) = {}
  BY DEF Moves, Inserted
<1> QED
  BY <1>1, <1>2, ShapeKept DEF Moves

LEMMA TxKept ==
    ASSUME TypeOK, Shape, NEW r \in Request, req[r].at \notin LogPlace, UNCHANGED tx
    PROVE  TxOfOthers(r) /\ tx'[r] = {}
<1>1. tx[r] = Inserted(req[r].at)
  BY DEF Shape
<1> QED
  BY <1>1 DEF TypeOK, TxOfOthers, Inserted, LogPlace

\* Contacts come and go: a new one only with its request's answer.
LEMMA WholeWithContacts ==
    ASSUME Whole, NEW r \in Request, Advances(r), UNCHANGED <<logs, participants>>,
           contacts'[r] = None \/ req'[r].at = "done",
           \A q \in Request : q # r /\ contacts[q] = None => contacts'[q] = None
    PROVE  Whole'
<1>1. NotYet'
  <2> SUFFICES ASSUME NEW q \in Request, req'[q].at # "done"
               PROVE  contacts'[q] = None /\ logs'[q] = None
    BY DEF NotYet
  <2> QED
    BY DEF Whole, NotYet, Advances
<1>2. NoDoubles'
  BY DEF Whole, NoDoubles
<1>3. ASSUME NEW q \in Request PROVE LogRows(q)'
  <2>1. CASE q = r
    <3>1. logs[r] = None /\ LogRows(r)
      BY DEF Whole, NotYet, Advances
    <3> QED
      BY <2>1, <3>1 DEF LogRows
  <2>2. CASE q # r
    <3>1. req'[q] = req[q] /\ LogRows(q)
      BY <2>2 DEF Whole, Advances
    <3> QED
      BY <3>1 DEF LogRows, Acceptable
  <2> QED
    BY <2>1, <2>2
<1> QED
  BY <1>1, <1>2, <1>3 DEF Whole

\* A log that is there changes, and none comes or goes.
LEMMA WholeWithLogs ==
    ASSUME Whole, NEW r \in Request, Advances(r), UNCHANGED <<contacts, participants>>,
           \A q \in Request : logs[q] = None <=> logs'[q] = None
    PROVE  Whole'
<1>1. NotYet'
  <2> SUFFICES ASSUME NEW q \in Request, req'[q].at # "done"
               PROVE  contacts'[q] = None /\ logs'[q] = None
    BY DEF NotYet
  <2> QED
    BY DEF Whole, NotYet, Advances
<1>2. NoDoubles'
  BY DEF Whole, NoDoubles
<1>3. ASSUME NEW q \in Request PROVE LogRows(q)'
  <2>1. CASE q = r
    <3>1. logs[r] = None /\ LogRows(r)
      BY DEF Whole, NotYet, Advances
    <3> QED
      BY <2>1, <3>1 DEF LogRows
  <2>2. CASE q # r
    <3>1. req'[q] = req[q] /\ LogRows(q)
      BY <2>2 DEF Whole, Advances
    <3> QED
      BY <3>1 DEF LogRows, Acceptable
  <2> QED
    BY <2>1, <2>2
<1> QED
  BY <1>1, <1>2, <1>3 DEF Whole

\* A step that touches no table.
LEMMA QuietKeeps ==
    ASSUME Inv, NEW r \in Request, Advances(r), UNCHANGED <<contacts, logs, participants>>, Shape',
           TxOfOthers(r)
    PROVE  Inv'
<1>1. TypeOK'
  BY DEF Inv, TypeOK, Advances, TxOfOthers
<1>2. Whole'
  BY WholeWithContacts DEF Inv, Whole, NotYet, Advances
<1> QED
  BY <1>1, <1>2 DEF Inv

-----------------------------------------------------------------------------
(* Every action keeps the invariant *)

LEMMA FailKeeps ==
    ASSUME Inv, NEW r \in Request, Fail(r)
    PROVE  Inv'
<1>1. req[r].at # "done" /\ req[r].at # "new" /\ Answer(r, 500)
      /\ tx' = [tx EXCEPT ![r] = {}] /\ UNCHANGED <<contacts, logs, participants>>
  BY DEF Fail
<1>2. Moves(r, "done")
  <2>1. 500 \in Answers /\ req \in [Request -> Handler]
    BY DEF Answers, Inv, TypeOK
  <2> QED
    BY <1>1, <2>1, AnswerMoves
<1>3. TxOfOthers(r) /\ tx'[r] = {}
  BY <1>1 DEF Inv, TypeOK, TxOfOthers
<1>4. Shape'
  BY <1>1, <1>2, <1>3, ShapeOfAnswered DEF Inv
<1> QED
  BY <1>1, <1>2, <1>3, <1>4, QuietKeeps DEF Moves

LEMMA ArriveKeeps ==
    ASSUME Inv, NEW r \in Request, Arrive(r)
    PROVE  Inv'
<1>1. Advances(r) /\ Arrived(req'[r])
  BY ArriveAdvances DEF Inv
<1>2. TxOfOthers(r) /\ tx'[r] = {}
  BY TxKept DEF Inv, Arrive, LogPlace
<1>3. RequestShape(r)'
  BY <1>1 DEF RequestShape, Arrived, RowPlace, LogPlace
<1>4. Inserted(req'[r].at) = {}
  BY <1>1 DEF Arrived, Inserted, RowPlace
<1>5. Shape'
  BY <1>1, <1>2, <1>3, <1>4, ShapeKept DEF Inv
<1> QED
  BY <1>1, <1>2, <1>5, QuietKeeps DEF Arrive

\* The handlers of a single statement answer at it, 200, 201 or 404, or 500.
LEMMA AnswerKeepsShape ==
    ASSUME Inv, NEW r \in Request, NEW place \in Place \ {"new", "done"}, At(r, place),
           place \notin LogPlace, NEW status \in Answers, Answer(r, status), UNCHANGED tx
    PROVE  Moves(r, "done") /\ TxOfOthers(r) /\ Shape'
<1>1. Moves(r, "done")
  BY AnswerMoves DEF Inv, TypeOK, At
<1>2. TxOfOthers(r) /\ tx'[r] = {}
  BY TxKept DEF Inv, At
<1> QED
  BY <1>1, <1>2, ShapeOfAnswered DEF Inv, At

LEMMA ContactExistsKeeps ==
    ASSUME Inv, NEW r \in Request, ContactExists(r)
    PROVE  Inv'
<1>1. req[r].at = "contact exists" /\ UNCHANGED <<contacts, logs, participants, tx>>
  BY DEF ContactExists, At
<1>2. TxOfOthers(r) /\ tx'[r] = {}
  BY <1>1, TxKept DEF Inv, LogPlace
<1>3. CASE req[r].contact \in User
  <2>1. Goto(r, "upsert contact") /\ "upsert contact" \in Place
    BY <1>3 DEF ContactExists, Place
  <2>2. Moves(r, "upsert contact")
    BY <1>1, <2>1, GotoMoves DEF Inv, TypeOK
  <2>3. RequestShape(r)'
    BY <1>1, <1>3, <2>2 DEF Inv, Shape, RequestShape, Moves, SameInputs, RowPlace, LogPlace
  <2>4. Inserted(req'[r].at) = {}
    BY <2>2 DEF Moves, Inserted
  <2>5. Shape'
    BY <1>2, <2>2, <2>3, <2>4, ShapeKept DEF Inv, Moves
  <2> QED
    BY <1>1, <1>2, <2>2, <2>5, QuietKeeps DEF Moves
<1>4. CASE req[r].contact \notin User
  <2>1. Answer(r, 404) /\ 404 \in Answers
    BY <1>4 DEF ContactExists, Answers
  <2>2. Moves(r, "done")
    BY <1>1, <2>1, AnswerMoves DEF Inv, TypeOK
  <2>3. Shape'
    BY <1>1, <1>2, <2>2, ShapeOfAnswered DEF Inv
  <2> QED
    BY <1>1, <1>2, <2>2, <2>3, QuietKeeps DEF Moves
<1> QED
  BY <1>3, <1>4

\* A statement on the contacts answers with them.
LEMMA ContactsKeep ==
    ASSUME Inv, NEW r \in Request, NEW place \in Place \ {"new", "done"}, At(r, place),
           place \notin LogPlace, NEW status \in Answers, Answer(r, status),
           UNCHANGED <<logs, participants, tx>>,
           contacts' \in [Request -> Contact \cup {None}],
           \A q \in Request : q # r /\ contacts[q] = None => contacts'[q] = None
    PROVE  Inv'
<1>1. Moves(r, "done") /\ TxOfOthers(r) /\ Shape'
  BY AnswerKeepsShape
<1>2. Whole'
  BY <1>1, WholeWithContacts DEF Inv, Moves
<1>3. TypeOK'
  BY <1>1 DEF Inv, TypeOK, Moves, Advances, TxOfOthers
<1> QED
  BY <1>1, <1>2, <1>3 DEF Inv

LEMMA UpsertContactKeeps ==
    ASSUME Inv, NEW r \in Request, UpsertContact(r)
    PROVE  Inv'
<1> DEFINE row == [owner |-> req[r].user, contact |-> req[r].contact, blocked |-> FALSE]
<1>1. /\ At(r, "upsert contact") /\ UNCHANGED <<logs, participants, tx>>
      /\ contacts' = [contacts EXCEPT ![r] = row] \/ contacts' = contacts
      /\ Answer(r, 201) \/ Answer(r, 500)
  BY DEF UpsertContact
<1>2. row \in Contact
  <2>1. req[r].user \in User /\ req[r].contact \in User
    BY <1>1 DEF Inv, Shape, RequestShape, At
  <2> QED
    BY <2>1 DEF Contact
<1>3. /\ contacts' \in [Request -> Contact \cup {None}]
      /\ \A q \in Request : q # r /\ contacts[q] = None => contacts'[q] = None
  <2> HIDE DEF row
  <2> QED
    BY <1>1, <1>2 DEF Inv, TypeOK
<1>4. /\ "upsert contact" \in Place \ {"new", "done"} /\ "upsert contact" \notin LogPlace
      /\ 201 \in Answers /\ 500 \in Answers
  BY DEF Place, LogPlace, Answers
<1> HIDE DEF row
<1>5. CASE Answer(r, 201)
  BY ZenonT(60), <1>1, <1>3, <1>4, <1>5, ContactsKeep
<1>6. CASE Answer(r, 500)
  BY ZenonT(60), <1>1, <1>3, <1>4, <1>6, ContactsKeep
<1> QED
  BY <1>1, <1>5, <1>6

LEMMA UpdateContactKeeps ==
    ASSUME Inv, NEW r \in Request, UpdateContact(r)
    PROVE  Inv'
<1>1. At(r, "update contact") /\ UNCHANGED <<logs, participants, tx>>
  BY DEF UpdateContact
<1>2. \E status \in Answers : Answer(r, status)
  <2>1. {200, 404, 500} \subseteq Answers
    BY DEF Answers
  <2> QED
    BY ZenonT(60), <2>1 DEF UpdateContact
<1>3. /\ contacts' \in [Request -> Contact \cup {None}]
      /\ \A q \in Request : q # r /\ contacts[q] = None => contacts'[q] = None
  <2>1. CASE Owned(r)
    <3> DEFINE i == req[r].row
    <3>1. /\ i \in Request /\ contacts[i] # None
          /\ contacts \in [Request -> Contact \cup {None}] /\ req[r] \in Handler
      BY <1>1, <2>1 DEF Inv, TypeOK, Shape, RequestShape, At, RowPlace, Owned
    <3>2. PICK b : b = IF req[r].blocked = None THEN contacts[i].blocked ELSE req[r].blocked
      OBVIOUS
    <3>3. contacts[i] \in Contact /\ b \in BOOLEAN
      BY <3>1, <3>2 DEF Contact, Handler
    <3>4. PICK c : c = [contacts[i] EXCEPT !.blocked = b]
      OBVIOUS
    <3>5. c \in Contact
      BY <3>3, <3>4 DEF Contact
    <3>6. contacts' = [contacts EXCEPT ![i] = c]
      BY <2>1, <3>1, <3>2, <3>4 DEF UpdateContact
    <3> QED
      BY <3>1, <3>5, <3>6
  <2>2. CASE ~Owned(r)
    BY <2>2 DEF UpdateContact, Inv, TypeOK
  <2> QED
    BY <2>1, <2>2
<1>4. "update contact" \in Place \ {"new", "done"} /\ "update contact" \notin LogPlace
  BY DEF Place, LogPlace
<1> QED
  BY <1>1, <1>2, <1>3, <1>4, ContactsKeep

LEMMA DeleteContactKeeps ==
    ASSUME Inv, NEW r \in Request, DeleteContact(r)
    PROVE  Inv'
<1>1. At(r, "delete contact") /\ UNCHANGED <<logs, participants, tx>>
  BY DEF DeleteContact
<1>2. \E status \in Answers : Answer(r, status)
  <2>1. {200, 404, 500} \subseteq Answers
    BY DEF Answers
  <2> QED
    BY ZenonT(60), <2>1 DEF DeleteContact
<1>3. /\ contacts' \in [Request -> Contact \cup {None}]
      /\ \A q \in Request : q # r /\ contacts[q] = None => contacts'[q] = None
  BY DEF DeleteContact, Inv, TypeOK
<1>4. "delete contact" \in Place \ {"new", "done"} /\ "delete contact" \notin LogPlace
  BY DEF Place, LogPlace
<1> QED
  BY <1>1, <1>2, <1>3, <1>4, ContactsKeep

LEMMA InsertLogKeeps ==
    ASSUME Inv, NEW r \in Request, InsertLog(r)
    PROVE  Inv'
<1>1. /\ req[r].at = "call_logs" /\ Goto(r, "call_participants")
      /\ tx' = [tx EXCEPT ![r] = {"call_logs"}] /\ UNCHANGED <<contacts, logs, participants>>
  BY DEF InsertLog, At
<1>2. Moves(r, "call_participants")
  <2>1. "call_participants" \in Place /\ req \in [Request -> Handler]
    BY DEF Place, Table, Inv, TypeOK
  <2> QED
    BY <1>1, <2>1, GotoMoves
<1>3. TxOfOthers(r) /\ tx'[r] = {"call_logs"}
  BY <1>1 DEF Inv, TypeOK, TxOfOthers, Table
<1>4. RequestShape(r)'
  BY <1>1, <1>2 DEF Inv, Shape, RequestShape, Moves, SameInputs, RowPlace, LogPlace
<1>5. Inserted(req'[r].at) = {"call_logs"}
  BY <1>2 DEF Moves, Inserted
<1>6. Shape'
  BY <1>2, <1>3, <1>4, <1>5, ShapeKept DEF Inv, Moves
<1> QED
  BY <1>1, <1>2, <1>3, <1>6, QuietKeeps DEF Moves

LEMMA InsertParticipantsKeeps ==
    ASSUME Inv, NEW r \in Request, InsertParticipants(r)
    PROVE  Inv'
<1>1. CASE ~Acceptable(req[r].people)
  BY <1>1, FailKeeps DEF InsertParticipants
<1>2. CASE Acceptable(req[r].people)
  <2>1. /\ req[r].at = "call_participants" /\ Goto(r, "commit")
        /\ tx' = [tx EXCEPT ![r] = @ \cup {"call_participants"}]
        /\ UNCHANGED <<contacts, logs, participants>>
    BY <1>2 DEF InsertParticipants, At
  <2>2. Moves(r, "commit")
    <3>1. "commit" \in Place /\ req \in [Request -> Handler]
      BY DEF Place, Inv, TypeOK
    <3> QED
      BY <2>1, <3>1, GotoMoves
  <2>3. tx[r] = {"call_logs"}
    BY <2>1 DEF Inv, Shape, Inserted
  <2>4. TxOfOthers(r) /\ tx'[r] = {"call_logs", "call_participants"}
    BY <2>1, <2>3 DEF Inv, TypeOK, TxOfOthers, Table
  <2>5. RequestShape(r)'
    <3>1. req'[r].people \in Lists /\ req'[r].user \in User /\ req'[r].people = req[r].people
      BY <2>1, <2>2 DEF Inv, Shape, RequestShape, Moves, SameInputs, LogPlace
    <3>2. Acceptable(req'[r].people)
      BY <1>2, <3>1 DEF Acceptable
    <3> QED
      BY <2>2, <3>1, <3>2 DEF RequestShape, Moves, RowPlace, Acceptable
  <2>6. Inserted(req'[r].at) = {"call_logs", "call_participants"}
    BY <2>2 DEF Moves, Inserted
  <2>7. Shape'
    BY <2>2, <2>4, <2>5, <2>6, ShapeKept DEF Inv, Moves
  <2> QED
    BY <2>1, <2>2, <2>4, <2>7, QuietKeeps DEF Moves
<1> QED
  BY <1>1, <1>2

LEMMA UpdateCallEndKeeps ==
    ASSUME Inv, NEW r \in Request, UpdateCallEnd(r)
    PROVE  Inv'
<1>1. At(r, "end call") /\ UNCHANGED <<contacts, participants, tx>>
  BY DEF UpdateCallEnd
<1>2. \E status \in Answers : Answer(r, status)
  <2>1. {200, 404, 500} \subseteq Answers
    BY DEF Answers
  <2> QED
    BY ZenonT(60), <2>1 DEF UpdateCallEnd
<1>3. Moves(r, "done") /\ TxOfOthers(r) /\ Shape'
  <2>1. "end call" \in Place \ {"new", "done"} /\ "end call" \notin LogPlace
    BY DEF Place, LogPlace
  <2> QED
    BY <1>1, <1>2, <2>1, AnswerKeepsShape
<1>4. /\ logs' \in [Request -> Log \cup {None}]
      /\ \A q \in Request : logs[q] = None <=> logs'[q] = None
  <2> DEFINE i == req[r].row
  <2>1. CASE logs[i] # None
    <3>1. /\ i \in Request /\ logs \in [Request -> Log \cup {None}] /\ req[r] \in Handler
      BY <1>1 DEF Inv, TypeOK, Shape, RequestShape, At, RowPlace
    <3>2. PICK c : c = IF req[r].callStatus = None THEN logs[i].status ELSE req[r].callStatus
      OBVIOUS
    <3>3. logs[i] \in Log /\ c \in Status
      BY <2>1, <3>1, <3>2 DEF Log, Handler, Status
    <3>4. PICK l : l = [logs[i] EXCEPT !.ended = TRUE, !.status = c]
      OBVIOUS
    <3>5. l \in Log
      BY <3>3, <3>4 DEF Log
    <3>6. logs' = [logs EXCEPT ![i] = l]
      <4>1. logs' = [logs EXCEPT ![i].ended = TRUE, ![i].status =
                         IF req[r].callStatus = None THEN @ ELSE req[r].callStatus]
        BY <2>1 DEF UpdateCallEnd
      <4> QED
        BY <4>1, <3>1, <3>2, <3>3, <3>4 DEF Log
    <3>7. l # None
      BY <3>5, ConstantsAssumption
    <3> QED
      BY <2>1, <3>1, <3>5, <3>6, <3>7
  <2>2. CASE logs[i] = None
    BY <2>2 DEF UpdateCallEnd, Inv, TypeOK
  <2> QED
    BY <2>1, <2>2
<1>5. Whole'
  BY <1>1, <1>3, <1>4, WholeWithLogs DEF Inv, Moves
<1>6. TypeOK'
  BY <1>1, <1>3, <1>4 DEF Inv, TypeOK, Moves, Advances, TxOfOthers
<1> QED
  BY <1>3, <1>5, <1>6 DEF Inv

\* The rows of a log: one for each person of the list, and nothing else.
LEMMA RowsEffect ==
    ASSUME Inv, NEW r \in Request, req[r].at = "commit"
    PROVE  /\ Rows(r) \subseteq Participant
           /\ \A p \in Rows(r) : p.call = r /\ \E i \in DOMAIN req[r].people : p.user = req[r].people[i]
           /\ \A i \in DOMAIN req[r].people : \E p \in Rows(r) : p.call = r /\ p.user = req[r].people[i]
           /\ \A p, q \in Rows(r) : p.user = q.user => p = q
<1> DEFINE l == req[r].people
           row(u) == IF u = req[r].user
                     THEN [call |-> r, user |-> u, status |-> "JOINED", read |-> TRUE]
                     ELSE [call |-> r, user |-> u, status |-> "MISSED", read |-> FALSE]
<1>1. \A i \in DOMAIN l : l[i] \in User
  BY DEF Inv, Shape, RequestShape, Acceptable
<1>2. \A u : row(u).call = r /\ row(u).user = u
  OBVIOUS
<1>3. \A u \in User : row(u) \in Participant
  BY DEF Participant
<1>4. Rows(r) = {row(l[i]) : i \in DOMAIN l}
  BY DEF Rows
<1> HIDE DEF row, l
<1>5. \A p \in Rows(r) : \E i \in DOMAIN l : p = row(l[i])
  BY <1>4
<1>6. \A i \in DOMAIN l : row(l[i]) \in Rows(r)
  BY <1>4
<1>7. Rows(r) \subseteq Participant
  BY <1>1, <1>3, <1>5
<1>8. \A p \in Rows(r) : p.call = r /\ \E i \in DOMAIN l : p.user = l[i]
  BY <1>2, <1>5
<1>9. \A i \in DOMAIN l : \E p \in Rows(r) : p.call = r /\ p.user = l[i]
  BY <1>2, <1>6
<1>10. \A p, q \in Rows(r) : p.user = q.user => p = q
  BY <1>2, <1>5
<1> QED
  BY <1>7, <1>8, <1>9, <1>10 DEF l

LEMMA CommitKeeps ==
    ASSUME Inv, NEW r \in Request, Commit(r)
    PROVE  Inv'
<1> DEFINE log == [caller |-> req[r].user, status |-> "COMPLETED", ended |-> FALSE]
<1>1. /\ req[r].at = "commit" /\ tx' = [tx EXCEPT ![r] = {}] /\ UNCHANGED contacts
      /\ Answer(r, 201) \/ Answer(r, 500)
  BY DEF Commit, At
<1>2. log \in Log /\ log # None
  <2>1. req[r].user \in User
    BY <1>1 DEF Inv, Shape, RequestShape
  <2>2. log \in Log
    BY <2>1 DEF Log, Status
  <2> QED
    BY <2>2, ConstantsAssumption
<1>3. logs' = [logs EXCEPT ![r] = log] /\ participants' = participants \cup Rows(r)
  <2>1. "call_logs" \in tx[r] /\ "call_participants" \in tx[r]
    BY <1>1 DEF Inv, Shape, Inserted
  <2> QED
    BY <2>1 DEF Commit
<1>4. Moves(r, "done")
  <2>1. 201 \in Answers /\ 500 \in Answers /\ req \in [Request -> Handler]
    BY DEF Answers, Inv, TypeOK
  <2> QED
    BY <1>1, <2>1, AnswerMoves
<1>5. TxOfOthers(r) /\ tx'[r] = {}
  BY <1>1 DEF Inv, TypeOK, TxOfOthers
<1>6. Shape'
  BY <1>1, <1>4, <1>5, ShapeOfAnswered DEF Inv
<1> HIDE DEF log
<1>7. /\ logs' \in [Request -> Log \cup {None}] /\ logs'[r] = log
      /\ \A q \in Request : q # r => logs'[q] = logs[q]
  BY <1>2, <1>3 DEF Inv, TypeOK
<1>8. TypeOK'
  BY <1>1, <1>3, <1>4, <1>5, <1>7, RowsEffect DEF Inv, TypeOK, Moves, Advances, TxOfOthers
<1>9. \A p \in participants : p.call # r
  BY <1>1 DEF Inv, Whole, NotYet, LogRows
<1>10. NotYet'
  <2> SUFFICES ASSUME NEW q \in Request, req'[q].at # "done"
               PROVE  contacts'[q] = None /\ logs'[q] = None
    BY DEF NotYet
  <2>1. q # r /\ req'[q] = req[q]
    BY <1>4 DEF Moves, Advances
  <2> QED
    BY <1>1, <1>7, <2>1 DEF Inv, Whole, NotYet
<1>11. NoDoubles'
  <2> SUFFICES ASSUME NEW p \in participants \cup Rows(r), NEW q \in participants \cup Rows(r),
                      p.call = q.call, p.user = q.user
               PROVE  p = q
    BY <1>3 DEF NoDoubles
  <2>1. CASE p \in participants /\ q \in participants
    BY <2>1 DEF Inv, Whole, NoDoubles
  <2>2. CASE p \in Rows(r) /\ q \in Rows(r)
    BY <1>1, <2>2, RowsEffect
  <2>3. p \in participants => q \in participants
    BY <1>1, <1>9, RowsEffect
  <2>4. q \in participants => p \in participants
    BY <1>1, <1>9, RowsEffect
  <2> QED
    BY <2>1, <2>2, <2>3, <2>4
<1>12. ASSUME NEW q \in Request PROVE LogRows(q)'
  <2>1. CASE q = r
    <3>1. req'[r].people = req[r].people /\ req[r].people \in Lists /\ Acceptable(req[r].people)
      BY <1>1, <1>4 DEF Moves, SameInputs, Inv, Shape, RequestShape, LogPlace
    <3>2. logs'[r] # None
      BY <1>2, <1>7
    <3>3. \A p \in participants' : p.call = r =>
            \E i \in DOMAIN req[r].people : p.user = req[r].people[i]
      BY <1>1, <1>3, <1>9, RowsEffect
    <3>4. \A i \in DOMAIN req[r].people : \E p \in participants' : p.call = r /\ p.user = req[r].people[i]
      BY <1>1, <1>3, RowsEffect
    <3> QED
      BY <2>1, <3>1, <3>2, <3>3, <3>4 DEF LogRows, Acceptable
  <2>2. CASE q # r
    <3>1. req'[q] = req[q] /\ logs'[q] = logs[q] /\ LogRows(q)
      BY <1>4, <1>7, <2>2 DEF Moves, Advances, Inv, Whole
    <3>2. \A p \in participants' : p.call = q => p \in participants
      BY <1>1, <1>3, <2>2, RowsEffect
    <3>3. participants \subseteq participants'
      BY <1>3
    <3> QED
      BY <3>1, <3>2, <3>3 DEF LogRows, Acceptable
  <2> QED
    BY <2>1, <2>2
<1> QED
  BY <1>6, <1>8, <1>10, <1>11, <1>12 DEF Inv, Whole

\* Marking changes rows one by one, and leaves whose they are.
LEMMA MarkEffect ==
    ASSUME TypeOK, NoDoubles, NEW r \in Request, MarkMissedCallAsRead(r)
    PROVE  /\ participants' \subseteq Participant
           /\ NoDoubles'
           /\ \A p \in participants' : \E q \in participants : p.call = q.call /\ p.user = q.user
           /\ \A q \in participants : \E p \in participants' : p.call = q.call /\ p.user = q.user
<1> DEFINE own == {p \in participants : p.call = req[r].row /\ p.user = req[r].user
                                        /\ p.status = "MISSED"}
           marked(p) == [p EXCEPT !.read = TRUE]
<1>1. participants' = (participants \ own) \cup {marked(p) : p \in own}
  BY DEF MarkMissedCallAsRead
<1>2. \A p \in participants : /\ marked(p) \in Participant
                              /\ marked(p).call = p.call /\ marked(p).user = p.user
  BY DEF TypeOK, Participant
<1>3. \A p \in own : p \in participants /\ p.call = req[r].row /\ p.user = req[r].user
  OBVIOUS
<1> HIDE DEF own, marked
<1>4. \A p \in participants' : \/ p \in participants /\ p \notin own
                               \/ \E q \in own : p = marked(q)
  BY <1>1
<1>5. participants' \subseteq Participant
  BY <1>2, <1>3, <1>4 DEF TypeOK
<1>6. \A p \in participants' : \E q \in participants : p.call = q.call /\ p.user = q.user
  BY <1>2, <1>3, <1>4
<1>7. \A q \in participants : \E p \in participants' : p.call = q.call /\ p.user = q.user
  <2> SUFFICES ASSUME NEW q \in participants
               PROVE  \E p \in participants' : p.call = q.call /\ p.user = q.user
    OBVIOUS
  <2>1. CASE q \in own
    BY <1>1, <1>2, <2>1
  <2>2. CASE q \notin own
    BY <1>1, <2>2
  <2> QED
    BY <2>1, <2>2
<1>8. NoDoubles'
  <2> SUFFICES ASSUME NEW p \in participants', NEW q \in participants',
                      p.call = q.call, p.user = q.user
               PROVE  p = q
    BY DEF NoDoubles
  <2>1. CASE p \notin own /\ p \in participants /\ q \notin own /\ q \in participants
    BY <2>1 DEF NoDoubles
  <2>2. ASSUME NEW x \in own, p = marked(x), q \notin own, q \in participants PROVE FALSE
    BY <1>2, <1>3, <2>2 DEF NoDoubles
  <2>3. ASSUME NEW x \in own, q = marked(x), p \notin own, p \in participants PROVE FALSE
    BY <1>2, <1>3, <2>3 DEF NoDoubles
  <2>4. ASSUME NEW x \in own, NEW y \in own, p = marked(x), q = marked(y) PROVE p = q
    <3>1. x = y
      BY <1>2, <1>3, <2>4 DEF NoDoubles
    <3> QED
      BY <2>4, <3>1
  <2> QED
    BY <1>4, <2>1, <2>2, <2>3, <2>4
<1> QED
  BY <1>5, <1>6, <1>7, <1>8

LEMMA MarkMissedCallAsReadKeeps ==
    ASSUME Inv, NEW r \in Request, MarkMissedCallAsRead(r)
    PROVE  Inv'
<1>1. At(r, "mark read") /\ UNCHANGED <<contacts, logs, tx>>
  BY DEF MarkMissedCallAsRead
<1>2. \E status \in Answers : Answer(r, status)
  <2>1. {200, 500} \subseteq Answers
    BY DEF Answers
  <2> QED
    BY <2>1 DEF MarkMissedCallAsRead
<1>3. Moves(r, "done") /\ TxOfOthers(r) /\ Shape'
  <2>1. "mark read" \in Place \ {"new", "done"} /\ "mark read" \notin LogPlace
    BY DEF Place, LogPlace
  <2> QED
    BY <1>1, <1>2, <2>1, AnswerKeepsShape
<1>4. /\ participants' \subseteq Participant /\ NoDoubles'
      /\ \A p \in participants' : \E q \in participants : p.call = q.call /\ p.user = q.user
      /\ \A q \in participants : \E p \in participants' : p.call = q.call /\ p.user = q.user
  BY MarkEffect DEF Inv, Whole
<1>5. NotYet'
  <2> SUFFICES ASSUME NEW q \in Request, req'[q].at # "done"
               PROVE  contacts'[q] = None /\ logs'[q] = None
    BY DEF NotYet
  <2> QED
    BY <1>1, <1>3 DEF Inv, Whole, NotYet, Moves, Advances
<1>6. ASSUME NEW q \in Request PROVE LogRows(q)'
  <2>1. LogRows(q) /\ logs'[q] = logs[q]
    BY <1>1 DEF Inv, Whole
  <2>2. CASE logs[q] = None
    BY <1>4, <2>1, <2>2 DEF LogRows
  <2>3. CASE logs[q] # None
    <3>1. req'[q] = req[q]
      BY <1>3, <2>3 DEF Moves, Advances, Inv, Whole, NotYet
    <3>2. \A p \in participants' : p.call = q =>
            \E i \in DOMAIN req[q].people : p.user = req[q].people[i]
      BY <1>4, <2>1, <2>3 DEF LogRows
    <3>3. \A i \in DOMAIN req[q].people : \E p \in participants' : p.call = q /\ p.user = req[q].people[i]
      BY <1>4, <2>1, <2>3 DEF LogRows
    <3> QED
      BY <2>1, <2>3, <3>1, <3>2, <3>3 DEF LogRows, Acceptable
  <2> QED
    BY <2>2, <2>3
<1>7. TypeOK'
  BY <1>1, <1>3, <1>4 DEF Inv, TypeOK, Moves, Advances, TxOfOthers
<1> QED
  BY <1>3, <1>4, <1>5, <1>6, <1>7 DEF Inv, Whole

LEMMA InvInit == Init => Inv
<1> SUFFICES ASSUME Init PROVE Inv
  OBVIOUS
<1>1. \A r \in Request : req[r].at = "new"
  BY DEF Init
<1>2. TypeOK
  BY DEF Init, TypeOK, Handler, Place
<1>3. Shape
  BY DEF Init, Shape, RequestShape, Inserted, RowPlace, LogPlace
<1>4. Whole
  BY DEF Init, Whole, NotYet, NoDoubles, LogRows
<1> QED
  BY <1>2, <1>3, <1>4 DEF Inv

LEMMA InvStep == Inv /\ [Next]_vars => Inv'
<1> SUFFICES ASSUME Inv, [Next]_vars PROVE Inv'
  OBVIOUS
<1>1. CASE UNCHANGED vars
  <2>1. TypeOK'
    BY <1>1 DEF vars, Inv, TypeOK
  <2>2. Shape'
    BY <1>1 DEF vars, Inv, Shape, RequestShape, Acceptable
  <2>3. NotYet' /\ NoDoubles'
    BY <1>1 DEF vars, Inv, Whole, NotYet, NoDoubles
  <2>4. ASSUME NEW r \in Request PROVE LogRows(r)'
    BY <1>1 DEF vars, Inv, Whole, LogRows, Acceptable
  <2> QED
    BY <2>1, <2>2, <2>3, <2>4 DEF Inv, Whole
<1>2. ASSUME NEW r \in Request,
             \/ Arrive(r) \/ Fail(r)
             \/ ContactExists(r) \/ UpsertContact(r) \/ UpdateContact(r) \/ DeleteContact(r)
             \/ InsertLog(r) \/ InsertParticipants(r) \/ Commit(r)
             \/ UpdateCallEnd(r) \/ MarkMissedCallAsRead(r)
      PROVE  Inv'
  BY <1>2, ArriveKeeps, FailKeeps, ContactExistsKeeps, UpsertContactKeeps, UpdateContactKeeps,
     DeleteContactKeeps, InsertLogKeeps, InsertParticipantsKeeps, CommitKeeps,
     UpdateCallEndKeeps, MarkMissedCallAsReadKeeps
<1> QED
  BY <1>1, <1>2 DEF Next

LEMMA Invariance == Spec => []Inv
<1> QED
  BY InvInit, InvStep, PTL DEF Spec

\* Every variable keeps its type, whatever clients send and whatever fails.
THEOREM TypeCorrect == Spec => []TypeOK
<1>1. Inv => TypeOK
  BY DEF Inv
<1> QED
  BY <1>1, Invariance, PTL

-----------------------------------------------------------------------------
(* Call logs *)

\* As many rows as people: to each row belongs one of the list's places.
LEMMA OneRowEach ==
    ASSUME NEW l \in Seq(User \cup {Stranger}), Acceptable(l), NEW rows,
           \A p, q \in rows : p.user = q.user => p = q,
           \A p \in rows : \E i \in DOMAIN l : p.user = l[i],
           \A i \in DOMAIN l : \E p \in rows : p.user = l[i]
    PROVE  Cardinality(rows) = Len(l) /\ {p.user : p \in rows} = {l[i] : i \in DOMAIN l}
<1>1. {p.user : p \in rows} = {l[i] : i \in DOMAIN l}
  OBVIOUS
<1>2. Len(l) \in Nat /\ DOMAIN l = 1 .. Len(l)
  OBVIOUS
<1> DEFINE f == [i \in 1 .. Len(l) |-> CHOOSE p \in rows : p.user = l[i]]
<1>3. \A i \in 1 .. Len(l) : f[i] \in rows /\ f[i].user = l[i]
  BY <1>2
<1>4. f \in [1 .. Len(l) -> rows]
  BY <1>3
<1> HIDE DEF f
<1>5. \A i, j \in 1 .. Len(l) : f[i] = f[j] => i = j
  <2>1. \A i, j \in 1 .. Len(l) : l[i] = l[j] => i = j
    BY <1>2 DEF Acceptable
  <2> QED
    BY <1>3, <2>1
<1>6. \A p \in rows : \E i \in 1 .. Len(l) : f[i] = p
  BY <1>2, <1>3
<1>7. f \in Bijection(1 .. Len(l), rows)
  BY <1>4, <1>5, <1>6 DEF Bijection, Injection, Surjection, IsInjective
<1>8. ExistsBijection(1 .. Len(l), rows)
  BY <1>7 DEF ExistsBijection
<1>9. IsFiniteSet(1 .. Len(l)) /\ Cardinality(1 .. Len(l)) = Len(l)
  <2>1. PICK n \in Nat : n = Len(l)
    BY <1>2
  <2>2. IsFiniteSet(1 .. n) /\ Cardinality(1 .. n) = n
    BY FS_Interval
  <2> QED
    BY <2>1, <2>2
<1>10. Cardinality(rows) = Cardinality(1 .. Len(l))
  BY <1>8, <1>9, FS_Bijection
<1> QED
  BY <1>1, <1>9, <1>10

\* A call log and its participants are there together or not at all, for any
\* list a client sends.
THEOREM LogsAreAllOrNothing == Spec => []LogsAreWhole
<1>1. Inv => LogsAreWhole
  <2> SUFFICES ASSUME Inv, NEW r \in Request,
                      NEW rows, rows = {p \in participants : p.call = r}
               PROVE  IF logs[r] = None THEN rows = {}
                      ELSE /\ Cardinality(rows) = Len(req[r].people)
                           /\ {p.user : p \in rows} = {req[r].people[i] : i \in DOMAIN req[r].people}
    BY DEF LogsAreWhole
  <2>1. LogRows(r) /\ NoDoubles
    BY DEF Inv, Whole
  <2>2. CASE logs[r] = None
    BY <2>1, <2>2 DEF LogRows
  <2>3. CASE logs[r] # None
    <3>1. req[r].people \in Seq(User \cup {Stranger}) /\ Acceptable(req[r].people)
      BY <2>1, <2>3, ConstantsAssumption DEF LogRows
    <3>2. /\ \A p, q \in rows : p.user = q.user => p = q
          /\ \A p \in rows : \E i \in DOMAIN req[r].people : p.user = req[r].people[i]
          /\ \A i \in DOMAIN req[r].people : \E p \in rows : p.user = req[r].people[i]
      BY <2>1, <2>3 DEF LogRows, NoDoubles
    <3> QED
      BY <2>3, <3>1, <3>2, OneRowEach
  <2> QED
    BY <2>2, <2>3
<1> QED
  BY <1>1, Invariance, PTL

-----------------------------------------------------------------------------
(* Contacts *)

Lifts(r, i) ==
    /\ req[r].row = i /\ req[r].user = contacts[i].owner /\ req'[r].at = "done"
    /\ \/ req[r].at = "delete contact"
       \/ req[r].at = "update contact" /\ req[r].blocked = FALSE

LEMMA BlockedStep ==
    ASSUME Inv, NEW r \in Request, NEW i \in Request, contacts[i] # None, contacts[i].blocked,
           contacts'[i] # contacts[i],
           UpsertContact(r) \/ UpdateContact(r) \/ DeleteContact(r)
    PROVE  Lifts(r, i)
<1>1. contacts \in [Request -> Contact \cup {None}] /\ contacts[i] \in Contact /\ req[r] \in Handler
  BY DEF Inv, TypeOK
<1>2. ASSUME NEW status \in Answers, Answer(r, status), req[r].at # "done" PROVE req'[r].at = "done"
  BY <1>2, AnswerMoves DEF Inv, TypeOK, Moves
<1>3. {200, 500} \subseteq Answers
  BY DEF Answers
<1>4. CASE UpsertContact(r)
  <2>1. contacts[r] = None
    BY <1>4 DEF Inv, Whole, NotYet, UpsertContact, At
  <2> QED
    BY <1>1, <1>4, <2>1 DEF UpsertContact
<1>5. CASE DeleteContact(r)
  <2>1. req[r].row = i /\ Owned(r) /\ req[r].at = "delete contact"
    BY <1>1, <1>5 DEF DeleteContact, At
  <2>2. Answer(r, 200) \/ Answer(r, 500)
    BY <1>5, <2>1 DEF DeleteContact
  <2> QED
    BY <1>2, <1>3, <2>1, <2>2 DEF Owned, Lifts
<1>6. CASE UpdateContact(r)
  <2>1. Owned(r) /\ req[r].at = "update contact"
    BY <1>6 DEF UpdateContact, At
  <2>2. Answer(r, 200) \/ Answer(r, 500)
    BY <1>6, <2>1 DEF UpdateContact
  <2>3. PICK b : b = IF req[r].blocked = None THEN contacts[req[r].row].blocked ELSE req[r].blocked
    OBVIOUS
  <2>4. contacts' = [contacts EXCEPT ![req[r].row].blocked = b]
    BY <1>6, <2>1, <2>3 DEF UpdateContact
  <2>5. req[r].row = i
    BY <1>1, <2>4
  <2>6. contacts'[i] = [contacts[i] EXCEPT !.blocked = b]
    BY <1>1, <2>4, <2>5
  <2>7. b # TRUE
    BY <1>1, <2>6 DEF Contact
  <2>8. req[r].blocked = FALSE
    BY <1>1, <2>3, <2>5, <2>7 DEF Handler, Contact
  <2> QED
    BY <1>2, <1>3, <2>1, <2>2, <2>5, <2>8 DEF Owned, Lifts
<1> QED
  BY <1>4, <1>5, <1>6

\* Only the owner's own update or delete lifts a block, however the requests of
\* the owner's devices interleave.
THEOREM BlocksHold == Spec => BlockedStaysBlocked
<1>1. Inv /\ [Next]_vars =>
        [\A i \in Request : contacts[i] # None /\ contacts[i].blocked =>
            \/ contacts'[i] = contacts[i]
            \/ \E r \in Request :
                 /\ req[r].row = i /\ req[r].user = contacts[i].owner /\ req'[r].at = "done"
                 /\ \/ req[r].at = "delete contact"
                    \/ req[r].at = "update contact" /\ req[r].blocked = FALSE]_vars
  <2> SUFFICES ASSUME Inv, Next, NEW i \in Request, contacts[i] # None, contacts[i].blocked,
                      contacts'[i] # contacts[i]
               PROVE  \E r \in Request : Lifts(r, i)
    BY DEF Lifts
  <2>1. PICK r \in Request :
          \/ Arrive(r) \/ Fail(r)
          \/ ContactExists(r) \/ UpsertContact(r) \/ UpdateContact(r) \/ DeleteContact(r)
          \/ InsertLog(r) \/ InsertParticipants(r) \/ Commit(r)
          \/ UpdateCallEnd(r) \/ MarkMissedCallAsRead(r)
    BY DEF Next
  <2>2. UpsertContact(r) \/ UpdateContact(r) \/ DeleteContact(r)
    BY <2>1 DEF Arrive, Fail, ContactExists, InsertLog, InsertParticipants, Commit,
                UpdateCallEnd, MarkMissedCallAsRead
  <2> QED
    BY <2>2, BlockedStep
<1> QED
  BY <1>1, Invariance, PTL DEF Spec, BlockedStaysBlocked

=============================================================================
