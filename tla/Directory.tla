------------------------------ MODULE Directory ------------------------------
(***************************************************************************)
(* The contacts and the call logs of the user-management service            *)
(* (controllers/contacts.controller.ts and calls.controller.ts): HTTP         *)
(* requests of several devices that each run one to four SQL statements.     *)
(*                                                                         *)
(* An action is the code between two awaits: one statement, executed, and    *)
(* what the handler does with its result.  A statement may fail.  Accounts   *)
(* has the pool of clients, which these handlers share; the reads            *)
(* (getContacts, getCallHistory) change nothing and are left out.            *)
(***************************************************************************)
EXTENDS Naturals, FiniteSets, Sequences

CONSTANTS
    User,
    Stranger,  \* a well-formed id that is no user's
    Request,   \* the requests that are made, which bounds a behaviour
    Lists,     \* the participantIds that clients send
    None       \* no such row, or a field the body lacks

Status == {"COMPLETED", "MISSED", "REJECTED", "CANCELLED", "FAILED"}
Log == [caller : User, status : Status, ended : BOOLEAN]

ASSUME ConstantsAssumption ==
    /\ Stranger \notin User /\ None \notin Request \cup Log
    /\ Lists \subseteq Seq(User \cup {Stranger})

\* The row with the uuid that request r draws is row r.
VARIABLES
    contacts,      \* user_contacts; custom_alias and is_favorite are left out
    logs,          \* call_logs
    participants,  \* call_participants
    req,           \* the handler of every request
    tx             \* the tables that a createCallLog has inserted into
vars == <<contacts, logs, participants, req, tx>>

-----------------------------------------------------------------------------
Contact == [owner : User, contact : User, blocked : BOOLEAN]
Participant == [call : Request, user : User, status : {"JOINED", "MISSED"}, read : BOOLEAN]
Table == {"call_logs", "call_participants"}

\* "new" was not sent, "done" was answered; else the await, an INSERT of
\* createCallLog by its table.
Place == {"new", "done", "contact exists", "upsert contact", "update contact",
          "delete contact", "commit", "end call", "mark read"} \cup Table
Handler == [at : Place,
            user : User \cup {None},                    \* req.user.userId
            contact : User \cup {Stranger, None},       \* contactUserId
            row : Request \cup {None},                  \* contactId or callId
            blocked : BOOLEAN \cup {None},              \* isBlocked
            callStatus : {"MISSED", None},
            people : Lists \cup {None},                 \* participantIds
            answer : {0, 200, 201, 400, 404, 500}]

TypeOK ==
    /\ contacts \in [Request -> Contact \cup {None}]
    /\ logs \in [Request -> Log \cup {None}]
    /\ participants \subseteq Participant
    /\ req \in [Request -> Handler]
    /\ tx \in [Request -> SUBSET Table]

Init ==
    /\ contacts = [r \in Request |-> None] /\ logs = [r \in Request |-> None]
    /\ participants = {}
    /\ req = [r \in Request |-> [at |-> "new", user |-> None, contact |-> None, row |-> None,
                                 blocked |-> None, callStatus |-> None, people |-> None,
                                 answer |-> 0]]
    /\ tx = [r \in Request |-> {}]

-----------------------------------------------------------------------------
(* Requests arrive, past requireAuth, at the first await of their handler     *)
(* or are answered 400 at once.                                             *)

Sends(r, h) == req' = [req EXCEPT ![r] = h]

\* What user u may ask for; h is the handler that has only the user yet.
Asks(r, u, h) ==
    \/ Sends(r, [h EXCEPT !.at = "done", !.contact = u, !.answer = 400])
    \/ \E v \in (User \cup {Stranger}) \ {u} :
         Sends(r, [h EXCEPT !.at = "contact exists", !.contact = v])
    \/ \E i \in Request, b \in BOOLEAN \cup {None} :
         Sends(r, [h EXCEPT !.at = "update contact", !.row = i, !.blocked = b])
    \/ \E i \in Request : Sends(r, [h EXCEPT !.at = "delete contact", !.row = i])
    \/ <<>> \in Lists /\ Sends(r, [h EXCEPT !.at = "done", !.people = <<>>, !.answer = 400])
    \/ \E l \in Lists \ {<<>>} : Sends(r, [h EXCEPT !.at = "call_logs", !.people = l])
    \/ \E i \in Request, c \in {"MISSED", None} :
         Sends(r, [h EXCEPT !.at = "end call", !.row = i, !.callStatus = c])
    \/ \E i \in Request : Sends(r, [h EXCEPT !.at = "mark read", !.row = i])

Arrive(r) ==
    /\ req[r].at = "new"
    /\ \E u \in User : Asks(r, u, [req[r] EXCEPT !.user = u])
    /\ UNCHANGED <<contacts, logs, participants, tx>>

At(r, place) == req[r].at = place
Goto(r, place) == req' = [req EXCEPT ![r].at = place]
Answer(r, status) == req' = [req EXCEPT ![r].at = "done", ![r].answer = status]

\* A statement that is not executed: a transaction is rolled back, and
\* errorHandler answers.
Fail(r) ==
    /\ req[r].at \notin {"new", "done"}
    /\ tx' = [tx EXCEPT ![r] = {}]
    /\ Answer(r, 500)
    /\ UNCHANGED <<contacts, logs, participants>>

-----------------------------------------------------------------------------
(* Contacts *)

ContactExists(r) ==
    /\ At(r, "contact exists")
    /\ IF req[r].contact \in User THEN Goto(r, "upsert contact") ELSE Answer(r, 404)
    /\ UNCHANGED <<contacts, logs, participants, tx>>

\* Mutant: adding a contact again starts it afresh.
UpsertAfresh(r) ==
    LET h == req[r]
        same == {i \in Request : contacts[i] # None
                                 /\ contacts[i].owner = h.user /\ contacts[i].contact = h.contact}
    IN  /\ At(r, "upsert contact")
        /\ contacts' = IF same = {}
                       THEN [contacts EXCEPT ![r] = [owner |-> h.user, contact |-> h.contact,
                                                     blocked |-> FALSE]]
                       ELSE [i \in Request |-> IF i \in same
                             THEN [contacts[i] EXCEPT !.blocked = FALSE] ELSE contacts[i]]
        /\ Answer(r, 201) \/ Answer(r, 500)
        /\ UNCHANGED <<logs, participants, tx>>

\* INSERT ... ON CONFLICT DO UPDATE: of a contact there is, the alias only.
UpsertContact(r) ==
    LET h == req[r]
        same == {i \in Request : contacts[i] # None
                                 /\ contacts[i].owner = h.user /\ contacts[i].contact = h.contact}
    IN  /\ At(r, "upsert contact")
        /\ contacts' = IF same = {}
                       THEN [contacts EXCEPT ![r] = [owner |-> h.user, contact |-> h.contact,
                                                     blocked |-> FALSE]]
                       ELSE contacts
        /\ Answer(r, 201) \/ Answer(r, 500)
        /\ UNCHANGED <<logs, participants, tx>>

\* WHERE id = contactId AND owner_user_id = userId.
Owned(r) == contacts[req[r].row] # None /\ contacts[req[r].row].owner = req[r].user

\* Mutant: a field the body lacks is not COALESCEd.
UpdateUncoalesced(r) ==
    /\ At(r, "update contact") /\ Owned(r)
    /\ contacts' = [contacts EXCEPT ![req[r].row].blocked = req[r].blocked]
    /\ Answer(r, 200)
    /\ UNCHANGED <<logs, participants, tx>>

UpdateContact(r) ==
    LET h == req[r]
    IN  /\ At(r, "update contact")
        /\ IF Owned(r)
           THEN /\ contacts' = [contacts EXCEPT ![h.row].blocked =
                                    IF h.blocked = None THEN @ ELSE h.blocked]
                /\ Answer(r, 200) \/ Answer(r, 500)
           ELSE Answer(r, 404) /\ UNCHANGED contacts
        /\ UNCHANGED <<logs, participants, tx>>

DeleteContact(r) ==
    /\ At(r, "delete contact")
    /\ IF Owned(r)
       THEN /\ contacts' = [contacts EXCEPT ![req[r].row] = None]
            /\ Answer(r, 200) \/ Answer(r, 500)
       ELSE Answer(r, 404) /\ UNCHANGED contacts
    /\ UNCHANGED <<logs, participants, tx>>

-----------------------------------------------------------------------------
(* Call logs *)

\* Mutant: the log is committed before its participants are inserted.
InsertLogAlone(r) ==
    /\ At(r, "call_logs")
    /\ logs' = [logs EXCEPT ![r] = [caller |-> req[r].user, status |-> "COMPLETED",
                                    ended |-> FALSE]]
    /\ tx' = [tx EXCEPT ![r] = {"call_logs"}]
    /\ Goto(r, "call_participants")
    /\ UNCHANGED <<contacts, participants>>

InsertLog(r) ==
    /\ At(r, "call_logs")
    /\ tx' = [tx EXCEPT ![r] = {"call_logs"}]
    /\ Goto(r, "call_participants")
    /\ UNCHANGED <<contacts, logs, participants>>

\* Foreign key and UNIQUE (call_id, user_id): each participant a user, once.
Acceptable(l) == \A i, j \in DOMAIN l : l[i] \in User /\ (l[i] = l[j] => i = j)

InsertParticipants(r) ==
    /\ At(r, "call_participants")
    /\ IF Acceptable(req[r].people)
       THEN /\ tx' = [tx EXCEPT ![r] = @ \cup {"call_participants"}]
            /\ Goto(r, "commit")
            /\ UNCHANGED <<contacts, logs, participants>>
       ELSE Fail(r)

\* Everybody but the caller has missed the call, unread; no statement of the
\* service ever makes a MISSED participant JOINED.
Rows(r) ==
    LET row(u) == IF u = req[r].user
                  THEN [call |-> r, user |-> u, status |-> "JOINED", read |-> TRUE]
                  ELSE [call |-> r, user |-> u, status |-> "MISSED", read |-> FALSE]
    IN  {row(req[r].people[i]) : i \in DOMAIN req[r].people}

Commit(r) ==
    /\ At(r, "commit")
    /\ logs' = IF "call_logs" \in tx[r]
               THEN [logs EXCEPT ![r] = [caller |-> req[r].user, status |-> "COMPLETED",
                                         ended |-> FALSE]]
               ELSE logs
    /\ participants' = participants
                       \cup (IF "call_participants" \in tx[r] THEN Rows(r) ELSE {})
    /\ tx' = [tx EXCEPT ![r] = {}]
    /\ Answer(r, 201) \/ Answer(r, 500)
    /\ UNCHANGED contacts

\* By any user who has the callId.
UpdateCallEnd(r) ==
    LET h == req[r]
    IN  /\ At(r, "end call")
        /\ IF logs[h.row] # None
           THEN /\ logs' = [logs EXCEPT ![h.row].ended = TRUE, ![h.row].status =
                                IF h.callStatus = None THEN @ ELSE h.callStatus]
                /\ Answer(r, 200) \/ Answer(r, 500)
           ELSE Answer(r, 404) /\ UNCHANGED logs
        /\ UNCHANGED <<contacts, participants, tx>>

MarkMissedCallAsRead(r) ==
    LET own == {p \in participants : p.call = req[r].row /\ p.user = req[r].user
                                     /\ p.status = "MISSED"}
    IN  /\ At(r, "mark read")
        /\ participants' = (participants \ own) \cup {[p EXCEPT !.read = TRUE] : p \in own}
        /\ Answer(r, 200) \/ Answer(r, 500)
        /\ UNCHANGED <<contacts, logs, tx>>

-----------------------------------------------------------------------------
Next ==
    \E r \in Request :
        \/ Arrive(r) \/ Fail(r)
        \/ ContactExists(r) \/ UpsertContact(r) \/ UpdateContact(r) \/ DeleteContact(r)
        \/ InsertLog(r) \/ InsertParticipants(r) \/ Commit(r)
        \/ UpdateCallEnd(r) \/ MarkMissedCallAsRead(r)

Spec == Init /\ [][Next]_vars

-----------------------------------------------------------------------------
(* Properties *)

\* A call log has a row for each participant its request named, once, and no
\* participant is without its log: an unknown id, a repeated one or a failed
\* statement leaves nothing of it (calls.controller.ts:39).
LogsAreWhole ==
    \A r \in Request :
        LET rows == {p \in participants : p.call = r}
        IN  IF logs[r] = None THEN rows = {}
            ELSE /\ Cardinality(rows) = Len(req[r].people)
                 /\ {p.user : p \in rows} = {req[r].people[i] : i \in DOMAIN req[r].people}

\* A blocked contact stays blocked until its owner unblocks or deletes it:
\* adding it again, from whatever device and at whatever moment, does not
\* bring it back (contacts.controller.ts:55 ON CONFLICT).
BlockedStaysBlocked ==
    [][\A i \in Request : contacts[i] # None /\ contacts[i].blocked =>
        \/ contacts'[i] = contacts[i]
        \/ \E r \in Request :
             /\ req[r].row = i /\ req[r].user = contacts[i].owner /\ req'[r].at = "done"
             /\ \/ req[r].at = "delete contact"
                \/ req[r].at = "update contact" /\ req[r].blocked = FALSE]_vars

=============================================================================
