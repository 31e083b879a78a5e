--------------------------- MODULE AudioCallsProofs ---------------------------
(***************************************************************************)
(* Proofs about the audio-calls service, for any users, sockets and number   *)
(* of calls.                                                                *)
(***************************************************************************)
EXTENDS AudioCalls, SequenceTheorems, TLAPS

-----------------------------------------------------------------------------
(* Queues by position *)

Appended(f, g, e) ==
    /\ Len(f) \in Nat /\ Len(g) = Len(f) + 1
    /\ \A k \in 1 .. Len(f) : g[k] = f[k]
    /\ g[Len(f) + 1] = e

Popped(f, g) ==
    /\ Len(g) \in Nat /\ Len(f) = Len(g) + 1
    /\ \A k \in 1 .. Len(g) : g[k] = f[k + 1]

LEMMA AppendEffect ==
    ASSUME NEW S, NEW f \in Seq(S), NEW e \in S, NEW g, g = Append(f, e)
    PROVE  g \in Seq(S) /\ Appended(f, g, e)
  BY DEF Appended

LEMMA TailEffect ==
    ASSUME NEW S, NEW f \in Seq(S), f # <<>>, NEW g, g = Tail(f)
    PROVE  g \in Seq(S) /\ Popped(f, g) /\ Head(f) = f[1] /\ Head(f) \in S /\ 1 \in 1 .. Len(f)
  BY DEF Popped

LEMMA UpdateEffect ==
    ASSUME NEW S, NEW f \in Seq(S), NEW r \in DOMAIN f, NEW e \in S, NEW g, g = [f EXCEPT ![r] = e]
    PROVE  /\ g \in Seq(S) /\ Len(g) = Len(f) /\ g[r] = e
           /\ \A q \in DOMAIN f : q # r => g[q] = f[q]
<1>1. g \in Seq(S)
  BY ExceptSeq
<1>2. DOMAIN g = DOMAIN f
  OBVIOUS
<1>3. Len(g) = Len(f)
  BY <1>1, <1>2
<1> QED
  BY <1>1, <1>3

\* Who a command or a reply is about, and what it does there.
IsHset(c, s) == c.cmd = "hset" /\ c.sock = s
IsHdel(c, s) == c.cmd = "hdel" /\ c.sock = s
IsHget(c, s) == c.cmd = "hget" /\ c.call = 0 /\ c.sock = s
Looks(c, r) == c.cmd = "hget" /\ c.call = r /\ r # 0

\* The commands under way: a socket's hset comes before all it sends else, its
\* disconnect looks once and deletes once.
CommandOrder ==
    /\ \A k \in 1 .. Len(commands), s \in Sock :
         /\ commands[k].sock = s => conn[s] # "new"
         /\ IsHset(commands[k], s) => conn[s] \in {"up", "leaving"}
         /\ IsHget(commands[k], s) => conn[s] = "leaving"
         /\ IsHdel(commands[k], s) => conn[s] = "deleting"
    /\ \A j, k \in 1 .. Len(commands), s \in Sock :
         /\ IsHset(commands[k], s) /\ j < k => commands[j].sock # s
         /\ IsHget(commands[j], s) /\ IsHget(commands[k], s) => j = k
         /\ IsHdel(commands[j], s) /\ IsHdel(commands[k], s) => j = k

\* The answer a disconnect handler waits for: nothing its socket sent is behind
\* it, and an answer that names another socket is still right.
ReplyOrder ==
    /\ \A k \in 1 .. Len(replies), s \in Sock :
         IsHget(replies[k].q, s) =>
           /\ conn[s] = "leaving"
           /\ \A j \in 1 .. Len(commands) :
                ~IsHset(commands[j], s) /\ ~IsHget(commands[j], s)
           /\ replies[k].value # s => presence[UserOf[s]] # s
    /\ \A j, k \in 1 .. Len(replies), s \in Sock :
         IsHget(replies[j].q, s) /\ IsHget(replies[k].q, s) => j = k

\* An entry is a socket of its user that has not gone.
Entries ==
    \A u \in User : presence[u] # NoSock =>
        UserOf[presence[u]] = u /\ conn[presence[u]] \in {"up", "leaving", "deleting"}

\* A lookup belongs to a call.
Lookups ==
    /\ Len(calls) <= MaxCalls
    /\ \A k \in 1 .. Len(commands) :
         commands[k].cmd = "hget" => commands[k].call \in 0 .. Len(calls)
    /\ \A k \in 1 .. Len(replies) : replies[k].q.call \in 0 .. Len(calls)

TypeInv == TypeOK /\ Lookups
OrderInv == CommandOrder /\ ReplyOrder /\ Entries

-----------------------------------------------------------------------------
(* Types *)

LEMMA CommandOf ==
    ASSUME NEW c \in Command
    PROVE  /\ c.sock \in Sock /\ c.cmd \in {"hget", "hset", "hdel"}
           /\ c.cmd = "hget" => c \in Hget /\ c.call \in 0 .. MaxCalls
  BY DEF Command, Hget

LEMMA HgetIsCommand ==
    ASSUME NEW s \in Sock, NEW n \in 0 .. MaxCalls
    PROVE  [cmd |-> "hget", sock |-> s, call |-> n] \in Command
  BY DEF Command, Hget

LEMMA HsetIsCommand ==
    ASSUME NEW s \in Sock
    PROVE  [cmd |-> "hset", sock |-> s] \in Command
  BY DEF Command

LEMMA HdelIsCommand ==
    ASSUME NEW s \in Sock
    PROVE  [cmd |-> "hdel", sock |-> s] \in Command
  BY DEF Command

Reply == [q : Hget, value : Sock \cup {NoSock}]

LEMMA SendEffect ==
    ASSUME TypeInv, NEW c \in Command, Send(c)
    PROVE  commands' \in Seq(Command) /\ Appended(commands, commands', c)
  BY AppendEffect DEF TypeInv, TypeOK, Send

\* The oldest answer, taken off.
LEMMA AnswerEffect ==
    ASSUME TypeInv, replies # <<>>, replies' = Tail(replies)
    PROVE  /\ replies' \in Seq(Reply) /\ Popped(replies, replies')
           /\ Head(replies) = replies[1] /\ 1 \in 1 .. Len(replies)
           /\ Head(replies) \in Reply
           /\ Head(replies).q \in Hget /\ Head(replies).value \in Sock \cup {NoSock}
<1>1. replies \in Seq(Reply)
  BY DEF TypeInv, TypeOK, Reply
<1>2. /\ replies' \in Seq(Reply) /\ Popped(replies, replies')
      /\ Head(replies) = replies[1] /\ Head(replies) \in Reply /\ 1 \in 1 .. Len(replies)
  BY <1>1, TailEffect
<1> QED
  BY <1>2 DEF Reply

\* The oldest command, executed.
LEMMA ExecuteEffect ==
    ASSUME TypeInv, Execute
    PROVE  /\ commands' \in Seq(Command) /\ Popped(commands, commands')
           /\ Head(commands) = commands[1] /\ 1 \in 1 .. Len(commands)
           /\ Head(commands) \in Command
<1>1. commands \in Seq(Command) /\ commands # <<>> /\ commands' = Tail(commands)
  BY DEF TypeInv, TypeOK, Execute
<1> QED
  BY <1>1, TailEffect

LEMMA LookupsAppended ==
    ASSUME TypeInv, NEW c \in Command, Appended(commands, commands', c),
           c.cmd = "hget" => c.call \in 0 .. Len(calls'),
           Len(calls') \in Nat, Len(calls) <= Len(calls'), Len(calls') <= MaxCalls,
           \A k \in 1 .. Len(replies') : replies'[k].q.call \in 0 .. Len(calls')
    PROVE  Lookups'
<1>1. Len(calls) \in Nat
  BY DEF TypeInv, TypeOK
<1>2. \A k \in 1 .. Len(commands) :
        commands[k].cmd = "hget" => commands[k].call \in 0 .. Len(calls')
  BY <1>1 DEF TypeInv, Lookups
<1>3. ASSUME NEW k \in 1 .. Len(commands')
      PROVE  commands'[k].cmd = "hget" => commands'[k].call \in 0 .. Len(calls')
  BY <1>2 DEF Appended
<1> QED
  BY <1>3 DEF Lookups

LEMMA ConnectTyped ==
    ASSUME TypeInv, NEW s \in Sock, Connect(s)
    PROVE  TypeInv'
<1> DEFINE c == [cmd |-> "hset", sock |-> s]
<1>1. c \in Command /\ c.cmd # "hget" /\ Send(c)
  BY HsetIsCommand DEF Connect
<1> HIDE DEF c
<1>2. commands' \in Seq(Command) /\ Appended(commands, commands', c)
  BY <1>1, SendEffect
<1>3. UNCHANGED <<presence, replies, calls, inCall>>
  BY DEF Connect
<1>4. conn' \in [Sock -> {"new", "up", "leaving", "deleting", "gone"}]
  BY DEF Connect, TypeInv, TypeOK
<1>5. TypeOK'
  BY <1>2, <1>3, <1>4 DEF TypeInv, TypeOK
<1>6. Lookups'
  BY <1>1, <1>2, <1>3, LookupsAppended DEF TypeInv, TypeOK, Lookups
<1> QED
  BY <1>5, <1>6 DEF TypeInv

LEMMA DisconnectTyped ==
    ASSUME TypeInv, NEW s \in Sock, Disconnect(s)
    PROVE  TypeInv'
<1> DEFINE c == [cmd |-> "hget", sock |-> s, call |-> 0]
<1>1. c \in Command /\ c.call = 0 /\ Send(c)
  BY HgetIsCommand, ConstantsAssumption DEF Disconnect
<1> HIDE DEF c
<1>2. commands' \in Seq(Command) /\ Appended(commands, commands', c)
  BY <1>1, SendEffect
<1>3. UNCHANGED <<presence, replies, calls>>
  BY DEF Disconnect
<1>4. conn' \in [Sock -> {"new", "up", "leaving", "deleting", "gone"}]
  BY DEF Disconnect, TypeInv, TypeOK
<1>5. inCall' \in [1 .. MaxCalls -> SUBSET Sock]
  BY DEF Disconnect, TypeInv, TypeOK
<1>6. TypeOK'
  BY <1>2, <1>3, <1>4, <1>5 DEF TypeInv, TypeOK
<1>7. Lookups'
  <2>1. Len(calls) \in Nat /\ calls' = calls /\ replies' = replies
    BY <1>3 DEF TypeInv, TypeOK
  <2>2. c.call \in 0 .. Len(calls')
    BY <1>1, <2>1
  <2> QED
    BY <1>1, <1>2, <2>1, <2>2, LookupsAppended DEF TypeInv, Lookups
<1> QED
  BY <1>6, <1>7 DEF TypeInv

LEMMA DeregisterTyped ==
    ASSUME TypeInv, NEW s \in Sock, Deregister(s)
    PROVE  TypeInv'
<1> DEFINE c == [cmd |-> "hdel", sock |-> s]
<1>1. c \in Command /\ c.cmd # "hget" /\ (Send(c) \/ UNCHANGED commands)
  BY HdelIsCommand DEF Deregister
<1> HIDE DEF c
<1>2. UNCHANGED <<presence, calls, inCall>> /\ replies # <<>> /\ replies' = Tail(replies)
  BY DEF Deregister
<1>3. replies' \in Seq(Reply) /\ Popped(replies, replies')
  BY <1>2, AnswerEffect
<1>4. conn' \in [Sock -> {"new", "up", "leaving", "deleting", "gone"}]
  BY DEF Deregister, TypeInv, TypeOK
<1>5. commands' \in Seq(Command)
  BY <1>1, SendEffect DEF TypeInv, TypeOK
<1>6. TypeOK'
  BY <1>2, <1>3, <1>4, <1>5 DEF TypeInv, TypeOK, Reply
<1>7. \A k \in 1 .. Len(replies') : replies'[k].q.call \in 0 .. Len(calls')
  <2> SUFFICES ASSUME NEW k \in 1 .. Len(replies') PROVE replies'[k].q.call \in 0 .. Len(calls)
    BY <1>2
  <2>1. k + 1 \in 1 .. Len(replies) /\ replies'[k] = replies[k + 1]
    BY <1>3 DEF Popped
  <2> QED
    BY <2>1 DEF TypeInv, Lookups
<1>8. Lookups'
  <2>1. CASE Send(c)
    <3>1. Appended(commands, commands', c)
      BY <1>1, <2>1, SendEffect
    <3> QED
      BY <1>1, <1>2, <1>7, <3>1, LookupsAppended DEF TypeInv, TypeOK, Lookups
  <2>2. CASE UNCHANGED commands
    BY <1>2, <1>7, <2>2 DEF TypeInv, Lookups
  <2> QED
    BY <1>1, <2>1, <2>2
<1> QED
  BY <1>6, <1>8 DEF TypeInv

LEMMA ExecuteTyped ==
    ASSUME TypeInv, Execute
    PROVE  TypeInv'
<1> DEFINE c == Head(commands)
<1>1. /\ commands' \in Seq(Command) /\ Popped(commands, commands')
      /\ c = commands[1] /\ 1 \in 1 .. Len(commands) /\ c \in Command
  BY ExecuteEffect
<1>2. c.sock \in Sock /\ UserOf[c.sock] \in User /\ c.cmd \in {"hget", "hset", "hdel"}
  BY <1>1, CommandOf, ConstantsAssumption
<1>3. UNCHANGED <<calls, inCall>>
  BY DEF Execute
<1>4. \A k \in 1 .. Len(commands') :
        commands'[k].cmd = "hget" => commands'[k].call \in 0 .. Len(calls)
  <2> SUFFICES ASSUME NEW k \in 1 .. Len(commands'), commands'[k].cmd = "hget"
               PROVE  commands'[k].call \in 0 .. Len(calls)
    OBVIOUS
  <2>1. k + 1 \in 1 .. Len(commands) /\ commands'[k] = commands[k + 1]
    BY <1>1 DEF Popped
  <2> QED
    BY <2>1 DEF TypeInv, Lookups
<1>5. CASE c.cmd = "hset"
  <2>1. presence' = [presence EXCEPT ![UserOf[c.sock]] = c.sock] /\ UNCHANGED <<conn, replies>>
    BY <1>5 DEF Execute
  <2>2. TypeOK'
    BY <1>1, <1>2, <1>3, <2>1 DEF TypeInv, TypeOK
  <2> QED
    BY <1>3, <1>4, <2>1, <2>2 DEF TypeInv, Lookups
<1>6. CASE c.cmd = "hdel"
  <2>1. /\ presence' = [presence EXCEPT ![UserOf[c.sock]] = NoSock]
        /\ conn' = [conn EXCEPT ![c.sock] = "gone"] /\ UNCHANGED replies
    BY <1>6 DEF Execute
  <2>2. TypeOK'
    BY <1>1, <1>2, <1>3, <2>1 DEF TypeInv, TypeOK
  <2> QED
    BY <1>3, <1>4, <2>1, <2>2 DEF TypeInv, Lookups
<1>7. CASE c.cmd = "hget"
  <2> DEFINE v == IF c.call = 0 THEN UserOf[c.sock] ELSE calls[c.call].callee
             e == [q |-> c, value |-> presence[v]]
  <2>1. replies' = Append(replies, e) /\ UNCHANGED <<presence, conn>>
    BY <1>7 DEF Execute
  <2>2. c \in Hget /\ c.call \in 0 .. Len(calls)
    BY <1>1, <1>7, CommandOf DEF TypeInv, Lookups
  <2>3. v \in User
    <3>1. CASE c.call = 0
      BY <1>2, <3>1
    <3>2. CASE c.call # 0
      <4>1. calls[c.call] \in Call
        BY <2>2, <3>2 DEF TypeInv, TypeOK
      <4> QED
        BY <3>2, <4>1 DEF Call
    <3> QED
      BY <3>1, <3>2
  <2>4. e \in Reply
    BY <2>2, <2>3 DEF Reply, TypeInv, TypeOK
  <2>5. e.q = c
    OBVIOUS
  <2> HIDE DEF e
  <2>6. replies' \in Seq(Reply) /\ Appended(replies, replies', e)
    BY <2>1, <2>4, AppendEffect DEF TypeInv, TypeOK, Reply
  <2>7. TypeOK'
    BY <1>1, <1>3, <2>1, <2>6 DEF TypeInv, TypeOK, Reply
  <2>8. ASSUME NEW k \in 1 .. Len(replies') PROVE replies'[k].q.call \in 0 .. Len(calls)
    BY <2>2, <2>5, <2>6 DEF TypeInv, Lookups, Appended
  <2> QED
    BY <1>3, <1>4, <2>7, <2>8 DEF TypeInv, Lookups
<1> QED
  BY <1>2, <1>5, <1>6, <1>7

LEMMA SocketsOfUser ==
    ASSUME NEW u
    PROVE  Sockets(u) \subseteq Sock
  BY DEF Sockets

LEMMA InitiateTyped ==
    ASSUME TypeInv, NEW s \in Sock, NEW v \in User, Initiate(s, v)
    PROVE  TypeInv'
<1> DEFINE n == Len(calls) + 1
           c == [cmd |-> "hget", sock |-> s, call |-> n]
           online == {t \in Sockets(v) :
                        \A i \in DOMAIN commands : commands[i] # [cmd |-> "hset", sock |-> t]}
           gone == {t \in Sock : conn[t] = "gone"}
           call == [caller |-> s, callee |-> v, answer |-> "none", rung |-> {},
                    online |-> online, gone |-> gone, left |-> FALSE, published |-> {}]
<1>1. Len(calls) \in Nat /\ n \in 0 .. MaxCalls /\ n <= MaxCalls
  BY ConstantsAssumption DEF Initiate, TypeInv, TypeOK
<1>2. c \in Command /\ c.call = n
  BY <1>1, HgetIsCommand
<1>3. call \in Call
  <2>1. online \subseteq Sock /\ gone \subseteq Sock
    BY SocketsOfUser
  <2> HIDE DEF online, gone
  <2> QED
    BY <2>1 DEF Call, Event
<1>4. Send(c) /\ calls' = Append(calls, call) /\ UNCHANGED <<presence, conn, replies, inCall>>
  BY DEF Initiate
<1> HIDE DEF c, call
<1>5. commands' \in Seq(Command) /\ Appended(commands, commands', c)
  BY <1>2, <1>4, SendEffect
<1>6. calls' \in Seq(Call) /\ Appended(calls, calls', call)
  BY <1>3, <1>4, AppendEffect DEF TypeInv, TypeOK
<1>7. TypeOK'
  BY <1>4, <1>5, <1>6 DEF TypeInv, TypeOK
<1>8. Len(calls') = n
  BY <1>6 DEF Appended
<1>9. \A k \in 1 .. Len(replies') : replies'[k].q.call \in 0 .. Len(calls')
  BY <1>1, <1>4, <1>8 DEF TypeInv, Lookups
<1>10. /\ c.call \in 0 .. Len(calls') /\ Len(calls') \in Nat
       /\ Len(calls) <= Len(calls') /\ Len(calls') <= MaxCalls
  BY <1>1, <1>2, <1>8
<1>11. Lookups'
  BY <1>2, <1>5, <1>9, <1>10, LookupsAppended
<1> QED
  BY <1>7, <1>11 DEF TypeInv

\* A call, field by field.
LEMMA WithAnswer ==
    ASSUME NEW c \in Call, NEW answer \in {"none", "ringing", "failed"}
    PROVE  [c EXCEPT !.answer = answer] \in Call
  BY DEF Call
LEMMA WithRung ==
    ASSUME NEW c \in Call, NEW rung \in SUBSET Sock PROVE [c EXCEPT !.rung = rung] \in Call
  BY DEF Call
LEMMA WithOnline ==
    ASSUME NEW c \in Call, NEW online \in SUBSET Sock PROVE [c EXCEPT !.online = online] \in Call
  BY DEF Call
LEMMA WithLeft ==
    ASSUME NEW c \in Call, NEW left \in BOOLEAN PROVE [c EXCEPT !.left = left] \in Call
  BY DEF Call
LEMMA WithPublished ==
    ASSUME NEW c \in Call, NEW events \in SUBSET Event PROVE [c EXCEPT !.published = events] \in Call
  BY DEF Call

\* The call after Ring.
Rings(r, c) ==
    LET registered == Head(replies).value
    IN  /\ c \in Call /\ c.callee = calls[r].callee /\ c.gone = calls[r].gone
        /\ c.online \subseteq calls[r].online
        /\ "missed" \in c.published => "missed" \in calls[r].published \/ registered = NoSock
        /\ c.answer = "ringing" => /\ registered # NoSock
                                   /\ c.rung = Sockets(calls[r].callee)
                                   /\ registered \notin calls[r].gone /\ conn[registered] # "up"
                                        => c.left

LEMMA RingEffect ==
    ASSUME TypeInv, NEW r \in DOMAIN calls, Ring(r)
    PROVE  \E c : Rings(r, c) /\ calls' = [calls EXCEPT ![r] = c]
<1> DEFINE registered == Head(replies).value
           rung == IF registered = NoSock THEN {} ELSE Sockets(calls[r].callee)
           answer == IF registered = NoSock THEN "failed" ELSE "ringing"
           online == calls[r].online \cap Sockets(calls[r].callee)
           left == registered \notin calls[r].gone \cup {NoSock} /\ conn[registered] # "up"
<1>1. PICK events \in Published(r, IF registered = NoSock THEN {"missed"} ELSE {}) :
        calls' = [calls EXCEPT ![r] = [calls[r] EXCEPT
                    !.answer = answer, !.rung = rung, !.online = online, !.left = left,
                    !.published = events]]
  BY Zenon DEF Ring
<1>2. PICK d : d = calls[r]
  OBVIOUS
<1>3. d \in Call
  BY <1>2 DEF TypeInv, TypeOK
<1>4. events \in SUBSET Event
  <2>1. d.published \in SUBSET Event
    BY <1>3 DEF Call
  <2> QED
    BY <1>2, <2>1 DEF Published, Event
<1>5. /\ answer \in {"none", "ringing", "failed"} /\ rung \in SUBSET Sock
      /\ online \in SUBSET Sock /\ left \in BOOLEAN
  BY SocketsOfUser
<1>6. /\ answer = "ringing" =>
           /\ registered # NoSock /\ rung = Sockets(calls[r].callee)
           /\ registered \notin calls[r].gone /\ conn[registered] # "up" => left
      /\ online \subseteq calls[r].online
      /\ "missed" \in events => "missed" \in calls[r].published \/ registered = NoSock
  BY DEF Published
<1> HIDE DEF registered, rung, answer, online, left
<1>7. PICK c1 \in Call : c1 = [d EXCEPT !.answer = answer]
  BY <1>3, <1>5, WithAnswer
<1>8. PICK c2 \in Call : c2 = [c1 EXCEPT !.rung = rung]
  BY <1>5, WithRung
<1>9. PICK c3 \in Call : c3 = [c2 EXCEPT !.online = online]
  BY <1>5, WithOnline
<1>10. PICK c4 \in Call : c4 = [c3 EXCEPT !.left = left]
  BY <1>5, WithLeft
<1>11. PICK c \in Call : c = [c4 EXCEPT !.published = events]
  BY <1>4, WithPublished
<1>12. c = [d EXCEPT !.answer = answer, !.rung = rung, !.online = online, !.left = left,
                     !.published = events]
  BY <1>3, <1>7, <1>8, <1>9, <1>10, <1>11 DEF Call
<1>13. /\ c.answer = answer /\ c.rung = rung /\ c.left = left
       /\ c.online = online /\ c.published = events
       /\ c.callee = d.callee /\ c.gone = d.gone
  BY <1>3, <1>12 DEF Call
<1>14. calls' = [calls EXCEPT ![r] = c]
  BY <1>1, <1>2, <1>12
<1> QED
  BY <1>2, <1>6, <1>13, <1>14 DEF Rings, registered

LEMMA PublishEffect ==
    ASSUME TypeInv, NEW r \in DOMAIN calls, NEW event \in Event, Publish(r, event)
    PROVE  \E c \in Call : /\ calls' = [calls EXCEPT ![r] = c]
                           /\ c.answer = calls[r].answer /\ c.rung = calls[r].rung
                           /\ c.left = calls[r].left /\ c.gone = calls[r].gone
                           /\ c.callee = calls[r].callee /\ c.online = calls[r].online
                           /\ c.published \subseteq calls[r].published \cup {event}
<1>1. PICK events \in Published(r, {event}) : calls' = [calls EXCEPT ![r].published = events]
  BY DEF Publish
<1>2. PICK d : d = calls[r]
  OBVIOUS
<1>3. d \in Call
  BY <1>2 DEF TypeInv, TypeOK
<1>4. events \in SUBSET Event
  <2>1. d.published \in SUBSET Event
    BY <1>3 DEF Call
  <2> QED
    BY <1>2, <2>1 DEF Published
<1>5. PICK c \in Call : c = [d EXCEPT !.published = events]
  BY <1>3, <1>4, WithPublished
<1>6. /\ c.answer = d.answer /\ c.rung = d.rung /\ c.left = d.left /\ c.gone = d.gone
      /\ c.callee = d.callee /\ c.online = d.online /\ c.published = events
  BY <1>3, <1>5 DEF Call
<1>7. calls' = [calls EXCEPT ![r] = c]
  BY <1>1, <1>2, <1>5
<1>8. events \subseteq d.published \cup {event}
  BY <1>1, <1>2 DEF Published
<1> QED
  BY <1>2, <1>6, <1>7, <1>8

LEMMA CallUpdated ==
    ASSUME TypeInv, NEW r \in DOMAIN calls, NEW c \in Call, calls' = [calls EXCEPT ![r] = c]
    PROVE  /\ calls' \in Seq(Call) /\ Len(calls') = Len(calls) /\ calls'[r] = c
           /\ DOMAIN calls' = DOMAIN calls
           /\ \A q \in DOMAIN calls : q # r => calls'[q] = calls[q]
<1>1. calls \in Seq(Call)
  BY DEF TypeInv, TypeOK
<1>2. /\ calls' \in Seq(Call) /\ Len(calls') = Len(calls) /\ calls'[r] = c
      /\ \A q \in DOMAIN calls : q # r => calls'[q] = calls[q]
  BY <1>1, UpdateEffect
<1> QED
  BY <1>1, <1>2

LEMMA RingTyped ==
    ASSUME TypeInv, NEW r \in DOMAIN calls, Ring(r)
    PROVE  TypeInv'
<1>1. PICK c \in Call : calls' = [calls EXCEPT ![r] = c]
  BY RingEffect DEF Rings
<1>2. calls' \in Seq(Call) /\ Len(calls') = Len(calls)
  BY <1>1, CallUpdated
<1>3. /\ UNCHANGED <<presence, conn, commands, inCall>>
      /\ replies # <<>> /\ replies' = Tail(replies)
  BY DEF Ring
<1>4. replies' \in Seq(Reply) /\ Popped(replies, replies')
  BY <1>3, AnswerEffect
<1>5. TypeOK'
  BY <1>2, <1>3, <1>4 DEF TypeInv, TypeOK, Reply
<1>6. ASSUME NEW k \in 1 .. Len(replies') PROVE replies'[k].q.call \in 0 .. Len(calls')
  <2>1. k + 1 \in 1 .. Len(replies) /\ replies'[k] = replies[k + 1]
    BY <1>4 DEF Popped
  <2> QED
    BY <1>2, <2>1 DEF TypeInv, Lookups
<1> QED
  BY <1>2, <1>3, <1>5, <1>6 DEF TypeInv, Lookups

\* call:accept, call:reject and call:end.
LEMMA DeviceTyped ==
    ASSUME TypeInv, NEW s \in Sock, NEW r \in DOMAIN calls, Accept(s, r) \/ Reject(s, r) \/ End(s, r)
    PROVE  TypeInv'
<1>1. UNCHANGED <<presence, conn, commands, replies>>
  BY DEF Accept, Reject, End
<1>2. inCall' \in [1 .. MaxCalls -> SUBSET Sock]
  <2>1. r \in 1 .. MaxCalls
    BY ConstantsAssumption DEF TypeInv, TypeOK, Lookups
  <2> QED
    BY <2>1 DEF Accept, Reject, End, TypeInv, TypeOK
<1>3. calls' \in Seq(Call) /\ Len(calls') = Len(calls)
  <2>1. CASE Accept(s, r)
    BY <2>1 DEF Accept, TypeInv, TypeOK
  <2>2. CASE Reject(s, r) \/ End(s, r)
    <3>1. \E event \in Event : Publish(r, event)
      BY <2>2 DEF Reject, End, Event
    <3>2. PICK c \in Call : calls' = [calls EXCEPT ![r] = c]
      BY <3>1, PublishEffect
    <3> QED
      BY <3>2, CallUpdated
  <2> QED
    BY <2>1, <2>2
<1>4. TypeOK'
  BY <1>1, <1>2, <1>3 DEF TypeInv, TypeOK
<1> QED
  BY <1>1, <1>3, <1>4 DEF TypeInv, Lookups

LEMMA TypeInit == Init => TypeInv
<1> SUFFICES ASSUME Init PROVE TypeInv
  OBVIOUS
<1>1. TypeOK
  BY ConstantsAssumption DEF Init, TypeOK
<1>2. Lookups
  BY ConstantsAssumption DEF Init, Lookups
<1> QED
  BY <1>1, <1>2 DEF TypeInv

LEMMA TypeStep == TypeInv /\ [Next]_vars => TypeInv'
<1> SUFFICES ASSUME TypeInv, [Next]_vars PROVE TypeInv'
  OBVIOUS
<1>1. CASE UNCHANGED vars
  BY <1>1 DEF vars, TypeInv, TypeOK, Lookups
<1>2. ASSUME NEW s \in Sock, Handler(s) PROVE TypeInv'
  BY <1>2, ConnectTyped, DisconnectTyped, DeregisterTyped, InitiateTyped, DeviceTyped DEF Handler
<1> QED
  BY <1>1, <1>2, ExecuteTyped, RingTyped DEF Next

\* Every variable keeps its type, and every lookup belongs to a call.
THEOREM TypeCorrect == Spec => []TypeOK
<1>1. TypeInv => TypeOK
  BY DEF TypeInv
<1> QED
  BY <1>1, TypeInit, TypeStep, PTL DEF Spec

-----------------------------------------------------------------------------
(* Order on the wire, and the entries of the hash *)

\* What CommandOrder says of a command of a socket at a place.
Fits(c, s, place) ==
    /\ c.sock = s => place # "new"
    /\ IsHset(c, s) => place \in {"up", "leaving"}
    /\ IsHget(c, s) => place = "leaving"
    /\ IsHdel(c, s) => place = "deleting"

LEMMA CommandFits ==
    ASSUME CommandOrder, NEW k \in 1 .. Len(commands), NEW s \in Sock
    PROVE  Fits(commands[k], s, conn[s])
  BY DEF CommandOrder, Fits

\* A command added behind the others.
LEMMA OrderAppended ==
    ASSUME CommandOrder, NEW c, Appended(commands, commands', c),
           \A k \in 1 .. Len(commands), s \in Sock : Fits(commands[k], s, conn'[s]),
           \A s \in Sock : Fits(c, s, conn'[s]),
           \A k \in 1 .. Len(commands), s \in Sock :
             /\ IsHset(c, s) => commands[k].sock # s
             /\ ~(IsHget(c, s) /\ IsHget(commands[k], s))
             /\ ~(IsHdel(c, s) /\ IsHdel(commands[k], s))
    PROVE  CommandOrder'
<1>1. ASSUME NEW k \in 1 .. Len(commands') PROVE k \in 1 .. Len(commands) \/ k = Len(commands) + 1
  BY DEF Appended
<1>2. ASSUME NEW k \in 1 .. Len(commands'), NEW s \in Sock PROVE Fits(commands'[k], s, conn'[s])
  BY <1>1 DEF Appended
<1>3. ASSUME NEW j \in 1 .. Len(commands'), NEW k \in 1 .. Len(commands'), NEW s \in Sock
      PROVE  /\ IsHset(commands'[k], s) /\ j < k => commands'[j].sock # s
             /\ IsHget(commands'[j], s) /\ IsHget(commands'[k], s) => j = k
             /\ IsHdel(commands'[j], s) /\ IsHdel(commands'[k], s) => j = k
  <2>1. CASE j \in 1 .. Len(commands) /\ k \in 1 .. Len(commands)
    <3>1. commands'[j] = commands[j] /\ commands'[k] = commands[k]
      BY <2>1 DEF Appended
    <3> QED
      BY <2>1, <3>1 DEF CommandOrder
  <2>2. CASE j \in 1 .. Len(commands) /\ k = Len(commands) + 1
    <3>1. commands'[j] = commands[j] /\ commands'[k] = c
      BY <2>2 DEF Appended
    <3> QED
      BY <2>2, <3>1
  <2>3. CASE j = Len(commands) + 1 /\ k \in 1 .. Len(commands)
    <3>1. commands'[j] = c /\ commands'[k] = commands[k] /\ ~(j < k)
      BY <2>3 DEF Appended
    <3> QED
      BY <2>3, <3>1
  <2>4. CASE j = Len(commands) + 1 /\ k = Len(commands) + 1
    <3>1. j = k /\ ~(j < k)
      BY <2>4 DEF Appended
    <3> QED
      BY <3>1
  <2> QED
    BY <1>1, <2>1, <2>2, <2>3, <2>4
<1> QED
  BY <1>2, <1>3 DEF CommandOrder, Fits

\* The first command taken off.
LEMMA OrderPopped ==
    ASSUME CommandOrder, Popped(commands, commands'),
           \A k \in 1 .. Len(commands'), s \in Sock : Fits(commands'[k], s, conn'[s])
    PROVE  CommandOrder'
<1>1. ASSUME NEW k \in 1 .. Len(commands')
      PROVE  k + 1 \in 1 .. Len(commands) /\ commands'[k] = commands[k + 1]
  BY DEF Popped
<1>2. ASSUME NEW j \in 1 .. Len(commands'), NEW k \in 1 .. Len(commands'), NEW s \in Sock
      PROVE  /\ IsHset(commands'[k], s) /\ j < k => commands'[j].sock # s
             /\ IsHget(commands'[j], s) /\ IsHget(commands'[k], s) => j = k
             /\ IsHdel(commands'[j], s) /\ IsHdel(commands'[k], s) => j = k
  <2>1. /\ j + 1 \in 1 .. Len(commands) /\ commands'[j] = commands[j + 1]
        /\ k + 1 \in 1 .. Len(commands) /\ commands'[k] = commands[k + 1]
    BY <1>1
  <2>2. (j < k <=> j + 1 < k + 1) /\ (j = k <=> j + 1 = k + 1)
    OBVIOUS
  <2>3. /\ IsHset(commands[k + 1], s) /\ j + 1 < k + 1 => commands[j + 1].sock # s
        /\ IsHget(commands[j + 1], s) /\ IsHget(commands[k + 1], s) => j + 1 = k + 1
        /\ IsHdel(commands[j + 1], s) /\ IsHdel(commands[k + 1], s) => j + 1 = k + 1
    BY <2>1 DEF CommandOrder
  <2> QED
    BY <2>1, <2>2, <2>3
<1> QED
  BY <1>2 DEF CommandOrder, Fits

\* What ReplyOrder says of the answer to a disconnect handler of s.
Awaited(s, value, place, queue, entry) ==
    /\ place = "leaving"
    /\ \A j \in 1 .. Len(queue) : ~IsHset(queue[j], s) /\ ~IsHget(queue[j], s)
    /\ value # s => entry # s

LEMMA ReplyAwaited ==
    ASSUME ReplyOrder, NEW k \in 1 .. Len(replies), NEW s \in Sock, IsHget(replies[k].q, s)
    PROVE  Awaited(s, replies[k].value, conn[s], commands, presence[UserOf[s]])
  BY DEF ReplyOrder, Awaited

LEMMA RepliesUnchanged ==
    ASSUME ReplyOrder, UNCHANGED replies,
           \A k \in 1 .. Len(replies), s \in Sock :
             IsHget(replies[k].q, s) =>
               Awaited(s, replies[k].value, conn'[s], commands', presence'[UserOf[s]])
    PROVE  ReplyOrder'
  BY DEF ReplyOrder, Awaited

LEMMA RepliesPopped ==
    ASSUME ReplyOrder, Popped(replies, replies'),
           \A k \in 1 .. Len(replies'), s \in Sock :
             IsHget(replies'[k].q, s) =>
               Awaited(s, replies'[k].value, conn'[s], commands', presence'[UserOf[s]])
    PROVE  ReplyOrder'
<1>1. ASSUME NEW k \in 1 .. Len(replies')
      PROVE  k + 1 \in 1 .. Len(replies) /\ replies'[k] = replies[k + 1]
  BY DEF Popped
<1>2. ASSUME NEW j \in 1 .. Len(replies'), NEW k \in 1 .. Len(replies'), NEW s \in Sock,
             IsHget(replies'[j].q, s), IsHget(replies'[k].q, s)
      PROVE  j = k
  <2>1. /\ j + 1 \in 1 .. Len(replies) /\ replies'[j] = replies[j + 1]
        /\ k + 1 \in 1 .. Len(replies) /\ replies'[k] = replies[k + 1]
    BY <1>1
  <2>2. j + 1 = k + 1
    BY <1>2, <2>1 DEF ReplyOrder
  <2> QED
    BY <2>2
<1> QED
  BY <1>2 DEF ReplyOrder, Awaited

LEMMA RepliesAppended ==
    ASSUME ReplyOrder, NEW e, Appended(replies, replies', e),
           \A k \in 1 .. Len(replies), s \in Sock :
             IsHget(replies[k].q, s) =>
               /\ Awaited(s, replies[k].value, conn'[s], commands', presence'[UserOf[s]])
               /\ ~IsHget(e.q, s),
           \A s \in Sock : IsHget(e.q, s) =>
             Awaited(s, e.value, conn'[s], commands', presence'[UserOf[s]])
    PROVE  ReplyOrder'
<1>1. ASSUME NEW k \in 1 .. Len(replies')
      PROVE  \/ k \in 1 .. Len(replies) /\ replies'[k] = replies[k]
             \/ k = Len(replies) + 1 /\ replies'[k] = e
  BY DEF Appended
<1>2. ASSUME NEW k \in 1 .. Len(replies'), NEW s \in Sock, IsHget(replies'[k].q, s)
      PROVE  Awaited(s, replies'[k].value, conn'[s], commands', presence'[UserOf[s]])
  BY <1>1, <1>2
<1>3. ASSUME NEW j \in 1 .. Len(replies'), NEW k \in 1 .. Len(replies'), NEW s \in Sock,
             IsHget(replies'[j].q, s), IsHget(replies'[k].q, s)
      PROVE  j = k
  BY <1>1, <1>3 DEF ReplyOrder
<1> QED
  BY <1>2, <1>3 DEF ReplyOrder, Awaited

LEMMA EntriesKept ==
    ASSUME TypeInv, Entries, UNCHANGED presence, NEW s \in Sock, NEW place,
           conn' = [conn EXCEPT ![s] = place],
           \/ place \in {"up", "leaving", "deleting"}
           \/ presence[UserOf[s]] # s
    PROVE  Entries'
<1> SUFFICES ASSUME NEW u \in User, presence[u] # NoSock
             PROVE  UserOf[presence[u]] = u /\ conn'[presence[u]] \in {"up", "leaving", "deleting"}
  BY DEF Entries
<1>1. UserOf[presence[u]] = u /\ conn[presence[u]] \in {"up", "leaving", "deleting"}
  BY DEF Entries
<1>2. presence[u] \in Sock
  BY DEF TypeInv, TypeOK
<1>3. presence[u] = s => place \in {"up", "leaving", "deleting"}
  BY <1>1
<1>4. conn'[presence[u]] = IF presence[u] = s THEN place ELSE conn[presence[u]]
  BY <1>2 DEF TypeInv, TypeOK
<1> QED
  BY <1>1, <1>3, <1>4

LEMMA ConnectOrdered ==
    ASSUME TypeInv, OrderInv, NEW s \in Sock, Connect(s)
    PROVE  OrderInv'
<1> DEFINE c == [cmd |-> "hset", sock |-> s]
<1>1. c \in Command /\ Send(c) /\ c.cmd = "hset" /\ c.sock = s
  BY HsetIsCommand DEF Connect
<1> HIDE DEF c
<1>2. /\ conn[s] = "new" /\ conn \in [Sock -> {"new", "up", "leaving", "deleting", "gone"}]
      /\ conn' = [conn EXCEPT ![s] = "up"] /\ UNCHANGED <<presence, replies>>
  BY DEF Connect, TypeInv, TypeOK
<1>3. Appended(commands, commands', c)
  BY <1>1, SendEffect
<1>4. conn'[s] = "up" /\ \A t \in Sock : t # s => conn'[t] = conn[t]
  BY <1>2
<1>5. \A k \in 1 .. Len(commands) : commands[k].sock # s
  BY <1>2 DEF OrderInv, CommandOrder
<1>6. CommandOrder'
  <2>1. ASSUME NEW k \in 1 .. Len(commands), NEW t \in Sock PROVE Fits(commands[k], t, conn'[t])
    <3>1. CASE t = s
      BY <1>5, <3>1 DEF Fits, IsHset, IsHget, IsHdel
    <3>2. CASE t # s
      BY <1>4, <3>2, CommandFits DEF OrderInv
    <3> QED
      BY <3>1, <3>2
  <2>2. \A t \in Sock : Fits(c, t, conn'[t])
    BY <1>1, <1>4 DEF Fits, IsHset, IsHget, IsHdel
  <2>3. ASSUME NEW k \in 1 .. Len(commands), NEW t \in Sock
        PROVE  /\ IsHset(c, t) => commands[k].sock # t
               /\ ~(IsHget(c, t) /\ IsHget(commands[k], t))
               /\ ~(IsHdel(c, t) /\ IsHdel(commands[k], t))
    BY <1>1, <1>5 DEF IsHset, IsHget, IsHdel
  <2> QED
    BY <1>3, <2>1, <2>2, <2>3, OrderAppended DEF OrderInv
<1>7. ReplyOrder'
  <2>1. ASSUME NEW k \in 1 .. Len(replies), NEW t \in Sock, IsHget(replies[k].q, t)
        PROVE  Awaited(t, replies[k].value, conn'[t], commands', presence'[UserOf[t]])
    <3>1. Awaited(t, replies[k].value, conn[t], commands, presence[UserOf[t]])
      BY <2>1, ReplyAwaited DEF OrderInv
    <3>2. t # s /\ conn'[t] = conn[t]
      BY <1>2, <1>4, <3>1 DEF Awaited
    <3>3. ASSUME NEW j \in 1 .. Len(commands') PROVE ~IsHset(commands'[j], t) /\ ~IsHget(commands'[j], t)
      <4>1. commands'[j] = c \/ \E i \in 1 .. Len(commands) : commands'[j] = commands[i]
        BY <1>3 DEF Appended
      <4> QED
        BY <1>1, <3>1, <3>2, <4>1 DEF Awaited, IsHset, IsHget
    <3> QED
      BY <1>2, <3>1, <3>2, <3>3 DEF Awaited
  <2> QED
    BY <1>2, <2>1, RepliesUnchanged DEF OrderInv
<1>8. Entries'
  BY <1>2, EntriesKept DEF OrderInv
<1> QED
  BY <1>6, <1>7, <1>8 DEF OrderInv

LEMMA DisconnectOrdered ==
    ASSUME TypeInv, OrderInv, NEW s \in Sock, Disconnect(s)
    PROVE  OrderInv'
<1> DEFINE c == [cmd |-> "hget", sock |-> s, call |-> 0]
<1>1. c \in Command /\ Send(c) /\ c.cmd = "hget" /\ c.sock = s
  BY HgetIsCommand, ConstantsAssumption DEF Disconnect
<1> HIDE DEF c
<1>2. /\ conn[s] = "up" /\ conn \in [Sock -> {"new", "up", "leaving", "deleting", "gone"}]
      /\ conn' = [conn EXCEPT ![s] = "leaving"] /\ UNCHANGED <<presence, replies>>
  BY DEF Disconnect, TypeInv, TypeOK
<1>3. Appended(commands, commands', c)
  BY <1>1, SendEffect
<1>4. conn'[s] = "leaving" /\ \A t \in Sock : t # s => conn'[t] = conn[t]
  BY <1>2
<1>5. \A k \in 1 .. Len(commands) : ~IsHget(commands[k], s) /\ ~IsHdel(commands[k], s)
  BY <1>2 DEF OrderInv, CommandOrder
<1>6. CommandOrder'
  <2>1. ASSUME NEW k \in 1 .. Len(commands), NEW t \in Sock PROVE Fits(commands[k], t, conn'[t])
    <3>1. CASE t = s
      BY <1>4, <1>5, <3>1 DEF Fits
    <3>2. CASE t # s
      BY <1>4, <3>2, CommandFits DEF OrderInv
    <3> QED
      BY <3>1, <3>2
  <2>2. \A t \in Sock : Fits(c, t, conn'[t])
    BY <1>1, <1>4 DEF Fits, IsHset, IsHget, IsHdel
  <2>3. ASSUME NEW k \in 1 .. Len(commands), NEW t \in Sock
        PROVE  /\ IsHset(c, t) => commands[k].sock # t
               /\ ~(IsHget(c, t) /\ IsHget(commands[k], t))
               /\ ~(IsHdel(c, t) /\ IsHdel(commands[k], t))
    BY <1>1, <1>5 DEF IsHset, IsHget, IsHdel
  <2> QED
    BY <1>3, <2>1, <2>2, <2>3, OrderAppended DEF OrderInv
<1>7. ReplyOrder'
  <2>1. ASSUME NEW k \in 1 .. Len(replies), NEW t \in Sock, IsHget(replies[k].q, t)
        PROVE  Awaited(t, replies[k].value, conn'[t], commands', presence'[UserOf[t]])
    <3>1. Awaited(t, replies[k].value, conn[t], commands, presence[UserOf[t]])
      BY <2>1, ReplyAwaited DEF OrderInv
    <3>2. t # s /\ conn'[t] = conn[t]
      BY <1>2, <1>4, <3>1 DEF Awaited
    <3>3. ASSUME NEW j \in 1 .. Len(commands') PROVE ~IsHset(commands'[j], t) /\ ~IsHget(commands'[j], t)
      <4>1. commands'[j] = c \/ \E i \in 1 .. Len(commands) : commands'[j] = commands[i]
        BY <1>3 DEF Appended
      <4> QED
        BY <1>1, <3>1, <3>2, <4>1 DEF Awaited, IsHset, IsHget
    <3> QED
      BY <1>2, <3>1, <3>2, <3>3 DEF Awaited
  <2> QED
    BY <1>2, <2>1, RepliesUnchanged DEF OrderInv
<1>8. Entries'
  BY <1>2, EntriesKept DEF OrderInv
<1> QED
  BY <1>6, <1>7, <1>8 DEF OrderInv

\* The answer is the one its handler waits for, the socket has nothing else
\* under way, and if the answer names another socket the entry does too.
LEMMA DeregisterOrdered ==
    ASSUME TypeInv, OrderInv, NEW s \in Sock, Deregister(s)
    PROVE  OrderInv'
<1> DEFINE c == [cmd |-> "hdel", sock |-> s]
           value == Head(replies).value
           place == IF value = s THEN "deleting" ELSE "gone"
<1>1. c \in Command /\ c.cmd = "hdel" /\ c.sock = s
  BY HdelIsCommand
<1>2. /\ replies # <<>> /\ replies' = Tail(replies) /\ UNCHANGED presence
      /\ conn \in [Sock -> {"new", "up", "leaving", "deleting", "gone"}]
      /\ conn' = [conn EXCEPT ![s] = place]
      /\ IF value = s THEN Send(c) ELSE UNCHANGED commands
  BY DEF Deregister, TypeInv, TypeOK
<1>3. /\ Popped(replies, replies') /\ 1 \in 1 .. Len(replies) /\ value = replies[1].value
      /\ IsHget(replies[1].q, s)
  <2>1. /\ Popped(replies, replies') /\ 1 \in 1 .. Len(replies) /\ Head(replies) = replies[1]
        /\ Head(replies).q \in Hget
    BY <1>2, AnswerEffect
  <2>2. Head(replies).q.call = 0 /\ Head(replies).q.sock = s
    BY DEF Deregister
  <2> QED
    BY <2>1, <2>2 DEF Hget, IsHget
<1>4. Awaited(s, value, conn[s], commands, presence[UserOf[s]])
  BY <1>3, ReplyAwaited DEF OrderInv
<1> HIDE DEF c, value
<1>5. conn'[s] = place /\ \A t \in Sock : t # s => conn'[t] = conn[t]
  BY <1>2
<1>6. \A k \in 1 .. Len(commands) :
        /\ ~IsHset(commands[k], s) /\ ~IsHget(commands[k], s) /\ ~IsHdel(commands[k], s)
  BY <1>4 DEF OrderInv, CommandOrder, Awaited
<1>7. ASSUME NEW k \in 1 .. Len(commands), NEW t \in Sock PROVE Fits(commands[k], t, conn'[t])
  <2>1. CASE t = s
    BY <1>5, <1>6, <2>1 DEF Fits
  <2>2. CASE t # s
    BY <1>5, <2>2, CommandFits DEF OrderInv
  <2> QED
    BY <2>1, <2>2
<1>8. value = s => Appended(commands, commands', c)
  BY <1>1, <1>2, SendEffect
<1>9. CommandOrder'
  <2>1. CASE value = s
    <3>1. \A t \in Sock : Fits(c, t, conn'[t])
      BY <1>1, <1>5, <2>1 DEF Fits, IsHset, IsHget, IsHdel
    <3>2. ASSUME NEW k \in 1 .. Len(commands), NEW t \in Sock
          PROVE  /\ IsHset(c, t) => commands[k].sock # t
                 /\ ~(IsHget(c, t) /\ IsHget(commands[k], t))
                 /\ ~(IsHdel(c, t) /\ IsHdel(commands[k], t))
      BY <1>1, <1>6 DEF IsHset, IsHget, IsHdel
    <3> QED
      BY <1>7, <1>8, <2>1, <3>1, <3>2, OrderAppended DEF OrderInv
  <2>2. CASE value # s
    <3>1. commands' = commands
      BY <1>2, <2>2
    <3> QED
      BY <1>7, <3>1 DEF OrderInv, CommandOrder, Fits
  <2> QED
    BY <2>1, <2>2
<1>10. ReplyOrder'
  <2>1. ASSUME NEW k \in 1 .. Len(replies'), NEW t \in Sock, IsHget(replies'[k].q, t)
        PROVE  Awaited(t, replies'[k].value, conn'[t], commands', presence'[UserOf[t]])
    <3>1. k + 1 \in 1 .. Len(replies) /\ replies'[k] = replies[k + 1] /\ k + 1 # 1
      BY <1>3 DEF Popped
    <3>2. t # s
      BY <1>3, <2>1, <3>1 DEF OrderInv, ReplyOrder
    <3>3. Awaited(t, replies[k + 1].value, conn[t], commands, presence[UserOf[t]])
      BY <2>1, <3>1, ReplyAwaited DEF OrderInv
    <3>4. ASSUME NEW j \in 1 .. Len(commands') PROVE ~IsHset(commands'[j], t) /\ ~IsHget(commands'[j], t)
      <4>1. commands'[j] = c \/ \E i \in 1 .. Len(commands) : commands'[j] = commands[i]
        BY <1>2, <1>8 DEF Appended
      <4> QED
        BY <1>1, <3>2, <3>3, <4>1 DEF Awaited, IsHset, IsHget
    <3> QED
      BY <1>2, <1>5, <3>1, <3>2, <3>3, <3>4 DEF Awaited
  <2> QED
    BY <1>3, <2>1, RepliesPopped DEF OrderInv
<1>11. Entries'
  <2>1. place \in {"up", "leaving", "deleting"} \/ presence[UserOf[s]] # s
    BY <1>4 DEF Awaited
  <2> QED
    BY <1>2, <2>1, EntriesKept DEF OrderInv
<1> QED
  BY <1>9, <1>10, <1>11 DEF OrderInv

\* What is behind the command that is executed.
Behind(c) ==
    /\ c \in Command /\ 1 \in 1 .. Len(commands) /\ c = commands[1]
    /\ Popped(commands, commands')
    /\ \A k \in 1 .. Len(commands') :
         k + 1 \in 1 .. Len(commands) /\ 1 < k + 1 /\ commands'[k] = commands[k + 1]

LEMMA ExecuteBehind ==
    ASSUME TypeInv, Execute
    PROVE  Behind(Head(commands))
<1>1. /\ Popped(commands, commands') /\ Head(commands) = commands[1] /\ 1 \in 1 .. Len(commands)
      /\ Head(commands) \in Command
  BY ExecuteEffect
<1>2. \A k \in 1 .. Len(commands') :
        k + 1 \in 1 .. Len(commands) /\ 1 < k + 1 /\ commands'[k] = commands[k + 1]
  BY <1>1 DEF Popped
<1> QED
  BY <1>1, <1>2 DEF Behind

\* An answer that is awaited stays so while the queue loses its first command.
LEMMA StillAwaited ==
    ASSUME NEW c, Behind(c), NEW t \in Sock, NEW value, NEW place, NEW entry, NEW newEntry,
           Awaited(t, value, place, commands, entry), value # t => newEntry # t
    PROVE  Awaited(t, value, place, commands', newEntry)
  BY DEF Awaited, Behind

LEMMA HsetOrdered ==
    ASSUME TypeInv, OrderInv, Execute, NEW c, c = Head(commands), c.cmd = "hset"
    PROVE  OrderInv'
<1> DEFINE s == c.sock
           u == UserOf[s]
<1>1. Behind(c) /\ s \in Sock /\ u \in User
  BY ExecuteBehind, CommandOf, ConstantsAssumption DEF Behind
<1>2. /\ presence \in [User -> Sock \cup {NoSock}]
      /\ presence' = [presence EXCEPT ![u] = s] /\ UNCHANGED <<conn, replies>>
  BY DEF Execute, TypeInv, TypeOK
<1>3. conn[s] \in {"up", "leaving"} /\ IsHset(commands[1], s)
  BY <1>1 DEF Behind, OrderInv, CommandOrder, IsHset
<1> HIDE DEF s, u
<1>4. CommandOrder'
  <2>1. ASSUME NEW k \in 1 .. Len(commands'), NEW t \in Sock PROVE Fits(commands'[k], t, conn'[t])
    BY <1>1, <1>2, CommandFits DEF Behind, OrderInv
  <2> QED
    BY <1>1, <2>1, OrderPopped DEF Behind, OrderInv
<1>5. ReplyOrder'
  <2>1. ASSUME NEW k \in 1 .. Len(replies), NEW t \in Sock, IsHget(replies[k].q, t)
        PROVE  Awaited(t, replies[k].value, conn'[t], commands', presence'[UserOf[t]])
    <3>1. Awaited(t, replies[k].value, conn[t], commands, presence[UserOf[t]])
      BY <2>1, ReplyAwaited DEF OrderInv
    <3>2. t # s
      BY <1>1, <1>3, <3>1 DEF Awaited, Behind
    <3>3. UserOf[t] \in User
      BY ConstantsAssumption
    <3>4. replies[k].value # t => presence'[UserOf[t]] # t
      BY <1>1, <1>2, <3>1, <3>2, <3>3 DEF Awaited
    <3> QED
      BY <1>1, <1>2, <3>1, <3>4, StillAwaited
  <2> QED
    BY <1>2, <2>1, RepliesUnchanged DEF OrderInv
<1>6. Entries'
  BY <1>1, <1>2, <1>3 DEF OrderInv, Entries, u
<1> QED
  BY <1>4, <1>5, <1>6 DEF OrderInv

LEMMA HdelOrdered ==
    ASSUME TypeInv, OrderInv, Execute, NEW c, c = Head(commands), c.cmd = "hdel"
    PROVE  OrderInv'
<1> DEFINE s == c.sock
           u == UserOf[s]
<1>1. Behind(c) /\ s \in Sock /\ u \in User
  BY ExecuteBehind, CommandOf, ConstantsAssumption DEF Behind
<1>2. /\ presence \in [User -> Sock \cup {NoSock}]
      /\ conn \in [Sock -> {"new", "up", "leaving", "deleting", "gone"}]
      /\ presence' = [presence EXCEPT ![u] = NoSock]
      /\ conn' = [conn EXCEPT ![s] = "gone"] /\ UNCHANGED replies
  BY DEF Execute, TypeInv, TypeOK
<1>3. conn[s] = "deleting" /\ IsHdel(commands[1], s)
  BY <1>1 DEF Behind, OrderInv, CommandOrder, IsHdel
<1>4. conn'[s] = "gone" /\ \A t \in Sock : t # s => conn'[t] = conn[t]
  BY <1>1, <1>2
<1> HIDE DEF s, u
<1>5. CommandOrder'
  <2>1. ASSUME NEW k \in 1 .. Len(commands'), NEW t \in Sock PROVE Fits(commands'[k], t, conn'[t])
    <3>1. k + 1 \in 1 .. Len(commands) /\ k + 1 # 1 /\ commands'[k] = commands[k + 1]
      BY <1>1 DEF Behind
    <3>2. Fits(commands[k + 1], t, conn[t])
      BY <3>1, CommandFits DEF OrderInv
    <3>3. CASE t = s
      <4>1. ~IsHdel(commands[k + 1], s)
        BY <1>1, <1>3, <3>1 DEF OrderInv, CommandOrder, Behind
      <4> QED
        BY <1>3, <1>4, <3>1, <3>2, <3>3, <4>1 DEF Fits
    <3>4. CASE t # s
      BY <1>4, <3>1, <3>2, <3>4
    <3> QED
      BY <3>3, <3>4
  <2> QED
    BY <1>1, <2>1, OrderPopped DEF Behind, OrderInv
<1>6. ReplyOrder'
  <2>1. ASSUME NEW k \in 1 .. Len(replies), NEW t \in Sock, IsHget(replies[k].q, t)
        PROVE  Awaited(t, replies[k].value, conn'[t], commands', presence'[UserOf[t]])
    <3>1. Awaited(t, replies[k].value, conn[t], commands, presence[UserOf[t]])
      BY <2>1, ReplyAwaited DEF OrderInv
    <3>2. t # s /\ conn'[t] = conn[t]
      BY <1>3, <1>4, <3>1 DEF Awaited
    <3>3. UserOf[t] \in User
      BY ConstantsAssumption
    <3>4. replies[k].value # t => presence'[UserOf[t]] # t
      BY <1>1, <1>2, <3>1, <3>3, ConstantsAssumption DEF Awaited
    <3> QED
      BY <1>1, <3>1, <3>2, <3>4, StillAwaited
  <2> QED
    BY <1>2, <2>1, RepliesUnchanged DEF OrderInv
<1>7. Entries'
  <2> SUFFICES ASSUME NEW v \in User, presence'[v] # NoSock
               PROVE  UserOf[presence'[v]] = v /\ conn'[presence'[v]] \in {"up", "leaving", "deleting"}
    BY DEF Entries
  <2>1. v # u /\ presence'[v] = presence[v] /\ presence[v] \in Sock
    BY <1>1, <1>2
  <2>2. UserOf[presence[v]] = v /\ conn[presence[v]] \in {"up", "leaving", "deleting"}
    BY <2>1 DEF OrderInv, Entries
  <2>3. presence[v] # s
    BY <2>1, <2>2 DEF u
  <2> QED
    BY <1>4, <2>1, <2>2, <2>3
<1> QED
  BY <1>5, <1>6, <1>7 DEF OrderInv

LEMMA HgetOrdered ==
    ASSUME TypeInv, OrderInv, Execute, NEW c, c = Head(commands), c.cmd = "hget"
    PROVE  OrderInv'
<1> DEFINE s == c.sock
           e == [q |-> c, value |-> presence[IF c.call = 0 THEN UserOf[s] ELSE calls[c.call].callee]]
<1>1. Behind(c) /\ s \in Sock /\ UserOf[s] \in User
  BY ExecuteBehind, CommandOf, ConstantsAssumption DEF Behind
<1>2. replies' = Append(replies, e) /\ UNCHANGED <<presence, conn>>
  BY DEF Execute
<1>3. e.q = c /\ (c.call = 0 => e.value = presence[UserOf[s]])
  OBVIOUS
<1> HIDE DEF s, e
<1>4. Appended(replies, replies', e)
  <2>1. PICK S : replies \in Seq(S) /\ e \in S
    <3>1. replies \in Seq(Reply)
      BY DEF TypeInv, TypeOK, Reply
    <3>2. replies \in Seq(Reply \cup {e})
      BY <3>1
    <3> QED
      BY <3>2
  <2> QED
    BY <1>2, <2>1, AppendEffect
<1>5. CommandOrder'
  <2>1. ASSUME NEW k \in 1 .. Len(commands'), NEW t \in Sock PROVE Fits(commands'[k], t, conn'[t])
    BY <1>1, <1>2, CommandFits DEF Behind, OrderInv
  <2> QED
    BY <1>1, <2>1, OrderPopped DEF Behind, OrderInv
<1>6. ReplyOrder'
  <2>1. ASSUME NEW k \in 1 .. Len(replies), NEW t \in Sock, IsHget(replies[k].q, t)
        PROVE  /\ Awaited(t, replies[k].value, conn'[t], commands', presence'[UserOf[t]])
               /\ ~IsHget(e.q, t)
    <3>1. Awaited(t, replies[k].value, conn[t], commands, presence[UserOf[t]])
      BY <2>1, ReplyAwaited DEF OrderInv
    <3>2. ~IsHget(c, t)
      BY <1>1, <3>1 DEF Awaited, Behind
    <3>3. replies[k].value # t => presence[UserOf[t]] # t
      BY <3>1 DEF Awaited
    <3> QED
      BY <1>1, <1>2, <1>3, <3>1, <3>2, <3>3, StillAwaited
  <2>2. ASSUME NEW t \in Sock, IsHget(e.q, t)
        PROVE  Awaited(t, e.value, conn'[t], commands', presence'[UserOf[t]])
    <3>1. t = s /\ IsHget(commands[1], s) /\ c.call = 0
      BY <1>1, <1>3, <2>2 DEF IsHget, Behind, s
    <3>2. conn[s] = "leaving"
      BY <1>1, <3>1 DEF OrderInv, CommandOrder, Behind
    <3>3. ASSUME NEW k \in 1 .. Len(commands') PROVE ~IsHset(commands'[k], s) /\ ~IsHget(commands'[k], s)
      <4>1. k + 1 \in 1 .. Len(commands) /\ 1 < k + 1 /\ k + 1 # 1 /\ commands'[k] = commands[k + 1]
        BY <1>1 DEF Behind
      <4>2. commands[1].sock = s /\ 1 \in 1 .. Len(commands)
        BY <1>1, <3>1 DEF Behind, IsHget
      <4> QED
        BY <1>1, <3>1, <4>1, <4>2 DEF OrderInv, CommandOrder
    <3> QED
      BY <1>2, <1>3, <3>1, <3>2, <3>3 DEF Awaited
  <2> QED
    BY <1>4, <2>1, <2>2, RepliesAppended DEF OrderInv
<1>7. Entries'
  BY <1>2 DEF OrderInv, Entries
<1> QED
  BY <1>5, <1>6, <1>7 DEF OrderInv

LEMMA ExecuteOrdered ==
    ASSUME TypeInv, OrderInv, Execute
    PROVE  OrderInv'
<1>1. Head(commands).cmd \in {"hget", "hset", "hdel"}
  BY ExecuteEffect, CommandOf
<1> QED
  BY <1>1, HsetOrdered, HdelOrdered, HgetOrdered

LEMMA InitiateOrdered ==
    ASSUME TypeInv, OrderInv, NEW s \in Sock, NEW v \in User, Initiate(s, v)
    PROVE  OrderInv'
<1> DEFINE c == [cmd |-> "hget", sock |-> s, call |-> Len(calls) + 1]
<1>1. Len(calls) + 1 \in 0 .. MaxCalls /\ Len(calls) + 1 # 0
  BY ConstantsAssumption DEF Initiate, TypeInv, TypeOK
<1>2. c \in Command /\ c.sock = s /\ c.cmd = "hget" /\ c.call # 0
  BY <1>1, HgetIsCommand
<1>3. Send(c) /\ conn[s] = "up" /\ UNCHANGED <<presence, conn, replies>>
  BY DEF Initiate
<1> HIDE DEF c
<1>4. Appended(commands, commands', c)
  BY <1>2, <1>3, SendEffect
<1>5. \A t \in Sock : ~IsHset(c, t) /\ ~IsHget(c, t) /\ ~IsHdel(c, t)
  BY <1>2 DEF IsHset, IsHget, IsHdel
<1>6. CommandOrder'
  <2>1. \A k \in 1 .. Len(commands), t \in Sock : Fits(commands[k], t, conn'[t])
    BY <1>3, CommandFits DEF OrderInv
  <2>2. \A t \in Sock : Fits(c, t, conn'[t])
    BY <1>2, <1>3, <1>5 DEF Fits
  <2> QED
    BY <1>4, <1>5, <2>1, <2>2, OrderAppended DEF OrderInv
<1>7. ReplyOrder'
  <2>1. ASSUME NEW k \in 1 .. Len(replies), NEW t \in Sock, IsHget(replies[k].q, t)
        PROVE  Awaited(t, replies[k].value, conn'[t], commands', presence'[UserOf[t]])
    <3>1. Awaited(t, replies[k].value, conn[t], commands, presence[UserOf[t]])
      BY <2>1, ReplyAwaited DEF OrderInv
    <3>2. ASSUME NEW j \in 1 .. Len(commands') PROVE ~IsHset(commands'[j], t) /\ ~IsHget(commands'[j], t)
      <4>1. commands'[j] = c \/ \E i \in 1 .. Len(commands) : commands'[j] = commands[i]
        BY <1>4 DEF Appended
      <4> QED
        BY <1>5, <3>1, <4>1 DEF Awaited
    <3> QED
      BY <1>3, <3>1, <3>2 DEF Awaited
  <2> QED
    BY <1>3, <2>1, RepliesUnchanged DEF OrderInv
<1>8. Entries'
  BY <1>3 DEF OrderInv, Entries
<1> QED
  BY <1>6, <1>7, <1>8 DEF OrderInv

LEMMA RingOrdered ==
    ASSUME TypeInv, OrderInv, NEW r \in DOMAIN calls, Ring(r)
    PROVE  OrderInv'
<1>1. /\ replies # <<>> /\ replies' = Tail(replies) /\ UNCHANGED <<presence, conn, commands>>
  BY DEF Ring
<1>2. Popped(replies, replies')
  BY <1>1, AnswerEffect
<1>3. ReplyOrder'
  <2>1. ASSUME NEW k \in 1 .. Len(replies'), NEW t \in Sock, IsHget(replies'[k].q, t)
        PROVE  Awaited(t, replies'[k].value, conn'[t], commands', presence'[UserOf[t]])
    <3>1. k + 1 \in 1 .. Len(replies) /\ replies'[k] = replies[k + 1]
      BY <1>2 DEF Popped
    <3> QED
      BY <1>1, <2>1, <3>1, ReplyAwaited DEF OrderInv
  <2> QED
    BY <1>2, <2>1, RepliesPopped DEF OrderInv
<1> QED
  BY <1>1, <1>3 DEF OrderInv, CommandOrder, Entries

LEMMA OrderUnchanged ==
    ASSUME OrderInv, UNCHANGED <<presence, conn, commands, replies>>
    PROVE  OrderInv'
  BY DEF OrderInv, CommandOrder, ReplyOrder, Entries

LEMMA OrderStep == TypeInv /\ OrderInv /\ [Next]_vars => OrderInv'
<1> SUFFICES ASSUME TypeInv, OrderInv, [Next]_vars PROVE OrderInv'
  OBVIOUS
<1>1. CASE UNCHANGED vars
  BY <1>1, OrderUnchanged DEF vars
<1>2. ASSUME NEW s \in Sock, NEW r \in DOMAIN calls, Accept(s, r) \/ Reject(s, r) \/ End(s, r)
      PROVE  OrderInv'
  BY <1>2, OrderUnchanged DEF Accept, Reject, End
<1>3. ASSUME NEW s \in Sock, Handler(s) PROVE OrderInv'
  BY <1>2, <1>3, ConnectOrdered, DisconnectOrdered, DeregisterOrdered, InitiateOrdered DEF Handler
<1> QED
  BY <1>1, <1>3, ExecuteOrdered, RingOrdered DEF Next

LEMMA OrderInit == Init => OrderInv
  BY DEF Init, OrderInv, CommandOrder, ReplyOrder, Entries

LEMMA OrderInvariance == Spec => [](TypeInv /\ OrderInv)
  BY TypeInit, TypeStep, OrderInit, OrderStep, PTL DEF Spec

\* An entry never outlives its socket, however the handlers of the devices of a
\* user read and delete it.
THEOREM EntriesBacked == Spec => []EntryIsBacked
<1>1. OrderInv => EntryIsBacked
  BY DEF OrderInv, Entries, EntryIsBacked
<1> QED
  BY <1>1, OrderInvariance, PTL

-----------------------------------------------------------------------------
(* A call that rings *)

\* What was cleaned up before a call is not looked at again.
GoneStay == \A r \in DOMAIN calls : \A t \in calls[r].gone : conn[t] = "gone"

\* A lookup answers a socket of the callee that was not cleaned up by then.
LookupsFresh ==
    \A k \in 1 .. Len(replies) :
        LET q == replies[k].q
            value == replies[k].value
        IN  q.call # 0 /\ value # NoSock =>
                value \notin calls[q.call].gone /\ UserOf[value] = calls[q.call].callee

RingInv == GoneStay /\ LookupsFresh /\ RingingRingsSomewhere

\* The calls so far keep their callee and the sockets gone before them.
CallsKept ==
    /\ Len(calls) \in Nat /\ Len(calls') \in Nat /\ Len(calls) <= Len(calls')
    /\ DOMAIN calls = 1 .. Len(calls) /\ DOMAIN calls' = 1 .. Len(calls')
    /\ \A r \in DOMAIN calls : calls'[r].callee = calls[r].callee /\ calls'[r].gone = calls[r].gone

GoneIsGone == \A t \in Sock : conn[t] = "gone" => conn'[t] = "gone"

LEMMA CallsTyped ==
    ASSUME TypeInv
    PROVE  Len(calls) \in Nat /\ DOMAIN calls = 1 .. Len(calls)
  BY DEF TypeInv, TypeOK

\* Steps that leave the calls alone.
LEMMA CallsSame ==
    ASSUME TypeInv, UNCHANGED calls
    PROVE  CallsKept
  BY CallsTyped DEF CallsKept

LEMMA LookupOf ==
    ASSUME TypeInv, NEW k \in 1 .. Len(replies), replies[k].q.call # 0
    PROVE  replies[k].q.call \in DOMAIN calls
<1>1. replies[k].q.call \in 0 .. Len(calls)
  BY DEF TypeInv, Lookups
<1> QED
  BY <1>1, CallsTyped

LEMMA GoneKept ==
    ASSUME TypeInv, GoneStay, CallsKept, GoneIsGone, DOMAIN calls' = DOMAIN calls
    PROVE  GoneStay'
<1>1. ASSUME NEW r \in DOMAIN calls PROVE calls[r].gone \subseteq Sock
  <2>1. calls[r] \in Call
    BY DEF TypeInv, TypeOK
  <2> QED
    BY <2>1 DEF Call
<1> QED
  BY <1>1 DEF GoneStay, CallsKept, GoneIsGone

LEMMA FreshKept ==
    ASSUME TypeInv, LookupsFresh, CallsKept, UNCHANGED replies \/ Popped(replies, replies')
    PROVE  LookupsFresh'
<1> SUFFICES ASSUME NEW k \in 1 .. Len(replies'), replies'[k].q.call # 0, replies'[k].value # NoSock
             PROVE  /\ replies'[k].value \notin calls'[replies'[k].q.call].gone
                    /\ UserOf[replies'[k].value] = calls'[replies'[k].q.call].callee
  BY DEF LookupsFresh
<1>1. PICK i \in 1 .. Len(replies) : replies'[k] = replies[i]
  <2>1. CASE UNCHANGED replies
    BY <2>1
  <2>2. CASE Popped(replies, replies')
    <3>1. k + 1 \in 1 .. Len(replies) /\ replies'[k] = replies[k + 1]
      BY <2>2 DEF Popped
    <3> QED
      BY <3>1
  <2> QED
    BY <2>1, <2>2
<1>2. replies[i].q.call \in DOMAIN calls
  BY <1>1, LookupOf
<1> QED
  BY <1>1, <1>2 DEF LookupsFresh, CallsKept

LEMMA PresenceGone ==
    ASSUME TypeInv, OrderInv, NEW s \in Sock, Connect(s) \/ Disconnect(s) \/ Deregister(s)
    PROVE  GoneIsGone
<1>1. conn[s] # "gone"
  <2>1. CASE Connect(s) \/ Disconnect(s)
    BY <2>1 DEF Connect, Disconnect
  <2>2. CASE Deregister(s)
    <3>1. replies # <<>> /\ replies' = Tail(replies) /\ Head(replies).q.call = 0 /\ Head(replies).q.sock = s
      BY <2>2 DEF Deregister
    <3>2. 1 \in 1 .. Len(replies) /\ Head(replies) = replies[1] /\ Head(replies).q \in Hget
      BY <3>1, AnswerEffect
    <3>3. IsHget(replies[1].q, s)
      BY <3>1, <3>2 DEF Hget, IsHget
    <3> QED
      BY <3>2, <3>3, ReplyAwaited DEF OrderInv, Awaited
  <2> QED
    BY <2>1, <2>2
<1>2. \A t \in Sock : t # s => conn'[t] = conn[t]
  BY DEF Connect, Disconnect, Deregister, TypeInv, TypeOK
<1> QED
  BY <1>1, <1>2 DEF GoneIsGone

LEMMA ExecuteGone ==
    ASSUME TypeInv, Execute
    PROVE  GoneIsGone
<1>1. UNCHANGED conn \/ conn' = [conn EXCEPT ![Head(commands).sock] = "gone"]
  <2>1. Head(commands).cmd \in {"hget", "hset", "hdel"}
    BY ExecuteEffect, CommandOf
  <2> QED
    BY <2>1 DEF Execute
<1> QED
  BY <1>1 DEF GoneIsGone, TypeInv, TypeOK

\* Presence, and Execute but for lookups of calls.
LEMMA PresenceRings ==
    ASSUME TypeInv, OrderInv, RingInv, NEW s \in Sock, Connect(s) \/ Disconnect(s) \/ Deregister(s)
    PROVE  RingInv'
<1>1. UNCHANGED calls /\ (UNCHANGED replies \/ (replies # <<>> /\ replies' = Tail(replies)))
  BY DEF Connect, Disconnect, Deregister
<1>2. UNCHANGED replies \/ Popped(replies, replies')
  BY <1>1, AnswerEffect
<1>4. GoneIsGone
  BY PresenceGone
<1>5. CallsKept /\ GoneStay' /\ RingingRingsSomewhere'
  BY <1>1, <1>4, CallsSame, GoneKept DEF RingInv, RingingRingsSomewhere
<1>6. LookupsFresh'
  BY <1>2, <1>5, FreshKept DEF RingInv
<1> QED
  BY <1>5, <1>6 DEF RingInv

LEMMA ExecuteRings ==
    ASSUME TypeInv, OrderInv, RingInv, Execute
    PROVE  RingInv'
<1> DEFINE c == Head(commands)
<1>1. /\ c \in Command /\ 1 \in 1 .. Len(commands) /\ c = commands[1]
      /\ c.sock \in Sock /\ c.cmd \in {"hget", "hset", "hdel"} /\ UNCHANGED calls
  BY ExecuteEffect, CommandOf DEF Execute
<1>2. GoneIsGone
  BY ExecuteGone
<1>3. CallsKept /\ GoneStay' /\ RingingRingsSomewhere'
  BY <1>1, <1>2, CallsSame, GoneKept DEF RingInv, RingingRingsSomewhere
<1>4. CASE c.cmd # "hget"
  <2>1. UNCHANGED replies
    BY <1>1, <1>4 DEF Execute
  <2> QED
    BY <1>3, <2>1, FreshKept DEF RingInv
<1>5. CASE c.cmd = "hget"
  <2> DEFINE v == IF c.call = 0 THEN UserOf[c.sock] ELSE calls[c.call].callee
             e == [q |-> c, value |-> presence[v]]
  <2>1. replies' = Append(replies, e)
    BY <1>5 DEF Execute
  <2>2. e.q = c /\ (c.call # 0 => e.value = presence[calls[c.call].callee])
    OBVIOUS
  <2> HIDE DEF e
  <2>3. Appended(replies, replies', e)
    <3>1. replies \in Seq(Reply)
      BY DEF TypeInv, TypeOK, Reply
    <3>2. replies \in Seq(Reply \cup {e})
      BY <3>1
    <3> QED
      BY <2>1, <3>2, AppendEffect
  <2>4. c.call # 0 => c.call \in DOMAIN calls
    <3>1. c.call \in 0 .. Len(calls)
      BY <1>1, <1>5 DEF TypeInv, Lookups
    <3> QED
      BY <3>1, CallsTyped
  <2>5. c.call # 0 /\ e.value # NoSock =>
          e.value \notin calls[c.call].gone /\ UserOf[e.value] = calls[c.call].callee
    <3> SUFFICES ASSUME c.call # 0, e.value # NoSock
                 PROVE  e.value \notin calls[c.call].gone /\ UserOf[e.value] = calls[c.call].callee
      OBVIOUS
    <3>1. calls[c.call] \in Call
      BY <2>4 DEF TypeInv, TypeOK
    <3>2. calls[c.call].callee \in User
      BY <3>1 DEF Call
    <3>3. UserOf[e.value] = calls[c.call].callee /\ conn[e.value] \in {"up", "leaving", "deleting"}
      BY <2>2, <3>2 DEF OrderInv, Entries
    <3> QED
      BY <2>4, <3>3 DEF RingInv, GoneStay
  <2>6. LookupsFresh'
    <3> SUFFICES ASSUME NEW k \in 1 .. Len(replies'), replies'[k].q.call # 0, replies'[k].value # NoSock
                 PROVE  /\ replies'[k].value \notin calls[replies'[k].q.call].gone
                        /\ UserOf[replies'[k].value] = calls[replies'[k].q.call].callee
      BY <1>1 DEF LookupsFresh
    <3>1. \/ k \in 1 .. Len(replies) /\ replies'[k] = replies[k]
          \/ replies'[k] = e
      BY <2>3 DEF Appended
    <3> QED
      BY <2>2, <2>5, <3>1 DEF RingInv, LookupsFresh
  <2> QED
    BY <1>3, <2>6 DEF RingInv
<1> QED
  BY <1>4, <1>5

LEMMA InitiateRings ==
    ASSUME TypeInv, RingInv, NEW s \in Sock, NEW v \in User, Initiate(s, v)
    PROVE  RingInv'
<1> DEFINE online == {t \in Sockets(v) :
                        \A i \in DOMAIN commands : commands[i] # [cmd |-> "hset", sock |-> t]}
           gone == {t \in Sock : conn[t] = "gone"}
           call == [caller |-> s, callee |-> v, answer |-> "none", rung |-> {},
                    online |-> online, gone |-> gone, left |-> FALSE, published |-> {}]
<1>1. calls' = Append(calls, call) /\ UNCHANGED <<conn, replies>>
  BY DEF Initiate
<1>2. call.answer = "none" /\ call.gone = gone /\ \A t \in gone : conn[t] = "gone"
  OBVIOUS
<1> HIDE DEF call, gone
<1>3. Appended(calls, calls', call) /\ Len(calls') \in Nat /\ DOMAIN calls' = 1 .. Len(calls')
  <2>1. calls \in Seq(Call \cup {call}) /\ call \in Call \cup {call}
    BY DEF TypeInv, TypeOK
  <2>2. calls' \in Seq(Call \cup {call}) /\ Appended(calls, calls', call)
    BY <1>1, <2>1, AppendEffect
  <2> QED
    BY <2>2
<1>4. CallsKept
  BY <1>3, CallsTyped DEF CallsKept, Appended
<1>5. \A r \in DOMAIN calls' : \/ r \in DOMAIN calls /\ calls'[r] = calls[r]
                               \/ calls'[r] = call
  BY <1>3, CallsTyped DEF Appended
<1>6. GoneStay'
  BY <1>1, <1>2, <1>5 DEF RingInv, GoneStay
<1>7. RingingRingsSomewhere'
  BY <1>2, <1>5 DEF RingInv, RingingRingsSomewhere
<1>8. LookupsFresh'
  BY <1>1, <1>4, FreshKept DEF RingInv
<1> QED
  BY <1>6, <1>7, <1>8 DEF RingInv

\* If no socket of the callee is there to ring, the one that the lookup
\* answered is not up any more.
LEMMA RingRings ==
    ASSUME TypeInv, RingInv, NEW r \in DOMAIN calls, Ring(r)
    PROVE  RingInv'
<1>1. PICK c : Rings(r, c) /\ calls' = [calls EXCEPT ![r] = c]
  BY RingEffect
<1>2. /\ Len(calls') = Len(calls) /\ calls'[r] = c /\ DOMAIN calls' = DOMAIN calls
      /\ \A q \in DOMAIN calls : q # r => calls'[q] = calls[q]
  BY <1>1, CallUpdated DEF Rings
<1>3. /\ replies # <<>> /\ replies' = Tail(replies) /\ UNCHANGED conn /\ Head(replies).q.call = r
  BY DEF Ring
<1>4. /\ Popped(replies, replies') /\ 1 \in 1 .. Len(replies) /\ Head(replies) = replies[1]
      /\ Head(replies).value \in Sock \cup {NoSock}
  BY <1>3, AnswerEffect
<1>5. CallsKept
  BY <1>1, <1>2, CallsTyped DEF CallsKept, Rings
<1>6. GoneStay' /\ LookupsFresh'
  BY <1>2, <1>3, <1>4, <1>5, GoneKept, FreshKept DEF RingInv, GoneIsGone
<1>7. c.answer = "ringing" => c.rung # {} \/ c.left
  <2> SUFFICES ASSUME c.answer = "ringing", c.rung = {} PROVE c.left
    OBVIOUS
  <2> DEFINE t == Head(replies).value
  <2>1. t \in Sock /\ t # NoSock
    BY <1>1, <1>4 DEF Rings
  <2>2. r # 0
    BY CallsTyped
  <2>3. t \notin calls[r].gone /\ UserOf[t] = calls[r].callee
    BY <1>3, <1>4, <2>1, <2>2 DEF RingInv, LookupsFresh
  <2>4. Sockets(calls[r].callee) = {}
    BY <1>1 DEF Rings
  <2>5. conn[t] # "up"
    BY <2>1, <2>3, <2>4 DEF Sockets
  <2> QED
    BY <1>1, <2>3, <2>5 DEF Rings
<1>8. RingingRingsSomewhere'
  BY <1>2, <1>7 DEF RingInv, RingingRingsSomewhere
<1> QED
  BY <1>6, <1>8 DEF RingInv

LEMMA DeviceRings ==
    ASSUME TypeInv, RingInv, NEW s \in Sock, NEW r \in DOMAIN calls,
           Accept(s, r) \/ Reject(s, r) \/ End(s, r)
    PROVE  RingInv'
<1>1. UNCHANGED <<conn, replies>>
  BY DEF Accept, Reject, End
<1>2. /\ CallsKept /\ DOMAIN calls' = DOMAIN calls
      /\ \A q \in DOMAIN calls : /\ calls'[q].answer = calls[q].answer
                                 /\ calls'[q].rung = calls[q].rung /\ calls'[q].left = calls[q].left
  <2>1. CASE Accept(s, r)
    BY <2>1, CallsSame DEF Accept
  <2>2. CASE Reject(s, r) \/ End(s, r)
    <3>1. \E event \in Event : Publish(r, event)
      BY <2>2 DEF Reject, End, Event
    <3>2. PICK c \in Call : /\ calls' = [calls EXCEPT ![r] = c]
                            /\ c.answer = calls[r].answer /\ c.rung = calls[r].rung
                            /\ c.left = calls[r].left /\ c.gone = calls[r].gone
                            /\ c.callee = calls[r].callee
      BY <3>1, PublishEffect
    <3>3. /\ Len(calls') = Len(calls) /\ calls'[r] = c /\ DOMAIN calls' = DOMAIN calls
          /\ \A q \in DOMAIN calls : q # r => calls'[q] = calls[q]
      BY <3>2, CallUpdated
    <3> QED
      BY <3>2, <3>3, CallsTyped DEF CallsKept
  <2> QED
    BY <2>1, <2>2
<1>3. GoneStay' /\ LookupsFresh'
  BY <1>1, <1>2, GoneKept, FreshKept DEF RingInv, GoneIsGone
<1>4. RingingRingsSomewhere'
  BY <1>2 DEF RingInv, RingingRingsSomewhere
<1> QED
  BY <1>3, <1>4 DEF RingInv

LEMMA RingStep == TypeInv /\ OrderInv /\ RingInv /\ [Next]_vars => RingInv'
<1> SUFFICES ASSUME TypeInv, OrderInv, RingInv, [Next]_vars PROVE RingInv'
  OBVIOUS
<1>1. CASE UNCHANGED vars
  BY <1>1 DEF vars, RingInv, GoneStay, LookupsFresh, RingingRingsSomewhere
<1>2. ASSUME NEW s \in Sock, Handler(s) PROVE RingInv'
  BY <1>2, PresenceRings, InitiateRings, DeviceRings DEF Handler
<1> QED
  BY <1>1, <1>2, ExecuteRings, RingRings DEF Next

LEMMA RingInit == Init => RingInv
  BY DEF Init, RingInv, GoneStay, LookupsFresh, RingingRingsSomewhere

\* A call that is answered call:ringing rang on a device, unless the device it
\* was looked up by went meanwhile, for any number of devices and of calls.
THEOREM CallsRing == Spec => []RingingRingsSomewhere
<1>1. RingInv => RingingRingsSomewhere
  BY DEF RingInv
<1>2. Spec => []RingInv
  BY TypeInit, TypeStep, OrderInit, OrderStep, RingInit, RingStep, PTL DEF Spec
<1> QED
  BY <1>1, <1>2, PTL

-----------------------------------------------------------------------------
(* A call that is missed *)

Gone(u) == \E t \in Sock : UserOf[t] = u /\ conn[t] = "gone"

\* The user is in the hash, or a disconnect handler of the user has finished.
Found(u) == presence[u] # NoSock \/ Gone(u)

\* The hset of s is still to be executed.
Pending(s) == \E k \in 1 .. Len(commands) : IsHset(commands[k], s)

UpIsFound == \A s \in Sock : conn[s] = "up" => Pending(s) \/ Found(UserOf[s])

OnlineIsFound == \A r \in DOMAIN calls : calls[r].online # {} => Found(calls[r].callee)

\* What a lookup that found nobody is about to publish may be published.
MayMiss(r) == calls[r].online = {} \/ Gone(calls[r].callee)
MissesAreFair ==
    \A k \in 1 .. Len(replies) :
        replies[k].q.call # 0 /\ replies[k].value = NoSock => MayMiss(replies[k].q.call)

MissInv == UpIsFound /\ OnlineIsFound /\ MissesAreFair /\ MissedNeedsDeparture

\* Nobody is taken out of the hash but by a handler that finishes with it.
FoundStays == GoneIsGone /\ \A u \in User : Found(u) => Found(u)'

\* The calls lose none of their history but sockets that were online.
CallsShrink ==
    /\ CallsKept /\ DOMAIN calls' = DOMAIN calls
    /\ \A r \in DOMAIN calls : calls'[r].online \subseteq calls[r].online

LEMMA CalleeIsUser ==
    ASSUME TypeInv, NEW r \in DOMAIN calls
    PROVE  calls[r].callee \in User
<1>1. calls[r] \in Call
  BY DEF TypeInv, TypeOK
<1> QED
  BY <1>1 DEF Call

LEMMA GoneStays ==
    ASSUME GoneIsGone, NEW u, Gone(u)
    PROVE  Gone(u)'
  BY DEF Gone, GoneIsGone

LEMMA FoundByPresence ==
    ASSUME GoneIsGone, UNCHANGED presence
    PROVE  FoundStays
<1>1. ASSUME NEW u \in User, Found(u) PROVE Found(u)'
  BY <1>1, GoneStays DEF Found
<1> QED
  BY <1>1 DEF FoundStays

\* What calls and answers say of the online sockets stays true.
LEMMA MissKept ==
    ASSUME TypeInv, MissInv, FoundStays, CallsShrink,
           UNCHANGED replies \/ Popped(replies, replies'),
           \A r \in DOMAIN calls : "missed" \in calls'[r].published =>
               "missed" \in calls[r].published \/ MayMiss(r)
    PROVE  OnlineIsFound' /\ MissesAreFair' /\ MissedNeedsDeparture'
<1>1. GoneIsGone /\ \A r \in DOMAIN calls : calls'[r].callee = calls[r].callee
  BY DEF FoundStays, CallsShrink, CallsKept
<1>2. OnlineIsFound'
  <2>1. ASSUME NEW r \in DOMAIN calls, calls'[r].online # {}
        PROVE  Found(calls[r].callee)'
    <3>1. PICK u \in User : u = calls[r].callee /\ u = calls'[r].callee
      BY <1>1, CalleeIsUser
    <3>2. Found(u)
      BY <2>1, <3>1 DEF MissInv, OnlineIsFound, CallsShrink
    <3>3. Found(u)'
      BY <3>2 DEF FoundStays
    <3> QED
      BY <3>1, <3>3 DEF Found, Gone
  <2> QED
    BY <2>1 DEF OnlineIsFound, CallsShrink
<1>3. ASSUME NEW r \in DOMAIN calls, MayMiss(r) PROVE MayMiss(r)'
  <2>1. PICK u : u = calls[r].callee /\ u = calls'[r].callee
    BY <1>1
  <2>2. calls'[r].online = {} \/ Gone(u)'
    BY <1>1, <1>3, <2>1, GoneStays DEF MayMiss, CallsShrink
  <2> QED
    BY <2>1, <2>2 DEF MayMiss, Gone
<1>4. MissesAreFair'
  <2>1. ASSUME NEW k \in 1 .. Len(replies'), replies'[k].q.call # 0, replies'[k].value = NoSock,
               NEW r, r = replies'[k].q.call
        PROVE  MayMiss(r)'
    <3>1. PICK i \in 1 .. Len(replies) : replies'[k] = replies[i]
      <4>1. CASE UNCHANGED replies
        BY <4>1
      <4>2. CASE Popped(replies, replies')
        <5>1. k + 1 \in 1 .. Len(replies) /\ replies'[k] = replies[k + 1]
          BY <4>2 DEF Popped
        <5> QED
          BY <5>1
      <4> QED
        BY <4>1, <4>2
    <3>2. r \in DOMAIN calls /\ MayMiss(r)
      BY <2>1, <3>1, LookupOf DEF MissInv, MissesAreFair
    <3> QED
      BY <1>3, <3>2
  <2> QED
    BY <2>1 DEF MissesAreFair, MayMiss, Gone
<1>5. MissedNeedsDeparture'
  <2>1. ASSUME NEW r \in DOMAIN calls, "missed" \in calls'[r].published
        PROVE  MayMiss(r)'
    <3>1. MayMiss(r)
      BY <2>1 DEF MissInv, MissedNeedsDeparture, MayMiss, Gone
    <3> QED
      BY <1>3, <3>1
  <2> QED
    BY <2>1 DEF MissedNeedsDeparture, MayMiss, Gone, CallsShrink
<1> QED
  BY <1>2, <1>4, <1>5

\* Who is up stays so that it is about to be, or is, or was registered.
LEMMA UpKept ==
    ASSUME TypeInv, MissInv, FoundStays,
           \A t \in Sock : conn'[t] = "up" =>
               \/ conn[t] = "up" /\ (Pending(t) => Pending(t)' \/ Found(UserOf[t])')
               \/ Pending(t)'
    PROVE  UpIsFound'
<1> SUFFICES ASSUME NEW t \in Sock, conn'[t] = "up" PROVE Pending(t)' \/ Found(UserOf[t])'
  BY DEF UpIsFound, Pending, Found, Gone
<1>1. UserOf[t] \in User
  BY ConstantsAssumption
<1> QED
  BY <1>1 DEF MissInv, UpIsFound, FoundStays

LEMMA PresenceMisses ==
    ASSUME TypeInv, OrderInv, MissInv, NEW s \in Sock, Connect(s) \/ Disconnect(s) \/ Deregister(s)
    PROVE  MissInv'
<1>1. /\ UNCHANGED <<calls, presence>>
      /\ (UNCHANGED replies \/ (replies # <<>> /\ replies' = Tail(replies)))
  BY DEF Connect, Disconnect, Deregister
<1>2. UNCHANGED replies \/ Popped(replies, replies')
  BY <1>1, AnswerEffect
<1>3. FoundStays
  BY <1>1, PresenceGone, FoundByPresence
<1>4. CallsShrink
  BY <1>1, CallsSame DEF CallsShrink
<1>5. OnlineIsFound' /\ MissesAreFair' /\ MissedNeedsDeparture'
  BY <1>1, <1>2, <1>3, <1>4, MissKept
<1>6. PICK c : c \in Command /\ (Send(c) \/ UNCHANGED commands) /\ (Connect(s) => Send(c) /\ IsHset(c, s))
  <2>1. CASE Connect(s)
    BY <2>1, HsetIsCommand DEF Connect, IsHset
  <2>2. CASE Disconnect(s)
    BY <2>2, HgetIsCommand, ConstantsAssumption DEF Disconnect, Connect
  <2>3. CASE Deregister(s) /\ ~Connect(s)
    BY <2>3, HdelIsCommand DEF Deregister
  <2> QED
    BY <2>1, <2>2, <2>3
<1>7. (Send(c) => Appended(commands, commands', c)) /\ Len(commands) \in Nat
  BY <1>6, SendEffect DEF TypeInv, TypeOK
<1>8. ASSUME NEW t \in Sock, Pending(t) PROVE Pending(t)'
  <2>1. PICK k \in 1 .. Len(commands) : IsHset(commands[k], t)
    BY <1>8 DEF Pending
  <2>2. k \in 1 .. Len(commands') /\ commands'[k] = commands[k]
    BY <1>6, <1>7 DEF Appended
  <2> QED
    BY <2>1, <2>2 DEF Pending
<1>9. ASSUME NEW t \in Sock, conn'[t] = "up", conn[t] # "up" PROVE Pending(t)'
  <2>1. t = s /\ Connect(s)
    BY <1>9 DEF Connect, Disconnect, Deregister, TypeInv, TypeOK
  <2>2. Len(commands) + 1 \in 1 .. Len(commands') /\ commands'[Len(commands) + 1] = c
    BY <1>6, <1>7, <2>1 DEF Appended
  <2> QED
    BY <1>6, <2>1, <2>2 DEF Pending
<1>10. UpIsFound'
  BY <1>3, <1>8, <1>9, UpKept
<1> QED
  BY <1>5, <1>10 DEF MissInv

LEMMA ExecuteMisses ==
    ASSUME TypeInv, OrderInv, MissInv, Execute
    PROVE  MissInv'
<1> DEFINE c == Head(commands)
<1>1. Behind(c) /\ c.sock \in Sock /\ UserOf[c.sock] \in User /\ UNCHANGED calls
  BY ExecuteBehind, CommandOf, ConstantsAssumption DEF Behind, Execute
<1>2. c.cmd \in {"hget", "hset", "hdel"} /\ GoneIsGone
  BY <1>1, CommandOf, ExecuteGone DEF Behind
<1>3. /\ presence \in [User -> Sock \cup {NoSock}]
      /\ conn \in [Sock -> {"new", "up", "leaving", "deleting", "gone"}]
  BY DEF TypeInv, TypeOK
<1>4. FoundStays
  <2>1. CASE c.cmd = "hget"
    BY <1>2, <2>1, FoundByPresence DEF Execute
  <2>2. CASE c.cmd = "hset"
    <3>1. presence' = [presence EXCEPT ![UserOf[c.sock]] = c.sock]
      BY <2>2 DEF Execute
    <3>2. ASSUME NEW u \in User, Found(u) PROVE Found(u)'
      <4>1. presence[u] # NoSock => presence'[u] # NoSock
        BY <1>1, <1>3, <3>1, ConstantsAssumption
      <4> QED
        BY <1>2, <3>2, <4>1, GoneStays DEF Found
    <3> QED
      BY <1>2, <3>2 DEF FoundStays
  <2>3. CASE c.cmd = "hdel"
    <3>1. PICK s \in Sock : /\ UserOf[s] \in User /\ conn' = [conn EXCEPT ![s] = "gone"]
                            /\ presence' = [presence EXCEPT ![UserOf[s]] = NoSock]
      BY <1>1, <2>3 DEF Execute
    <3>2. conn'[s] = "gone"
      BY <1>3, <3>1
    <3>3. ASSUME NEW u \in User, Found(u) PROVE Found(u)'
      <4>1. CASE u = UserOf[s]
        BY <3>2, <4>1 DEF Found, Gone
      <4>2. CASE u # UserOf[s]
        <5>1. presence'[u] = presence[u]
          BY <1>3, <3>1, <4>2
        <5> QED
          BY <1>2, <3>3, <5>1, GoneStays DEF Found
      <4> QED
        BY <4>1, <4>2
    <3> QED
      BY <1>2, <3>3 DEF FoundStays
  <2> QED
    BY <1>2, <2>1, <2>2, <2>3
<1>5. ASSUME NEW t \in Sock, Pending(t) PROVE Pending(t)' \/ Found(UserOf[t])'
  <2>1. PICK k \in 1 .. Len(commands) : IsHset(commands[k], t)
    BY <1>5 DEF Pending
  <2>2. CASE k = 1
    <3>1. c.cmd = "hset" /\ c.sock = t
      BY <1>1, <2>1, <2>2 DEF Behind, IsHset
    <3>2. presence' = [presence EXCEPT ![UserOf[c.sock]] = c.sock]
      BY <3>1 DEF Execute
    <3>3. presence'[UserOf[t]] = t /\ t # NoSock
      BY <1>1, <1>3, <3>1, <3>2, ConstantsAssumption
    <3> QED
      BY <3>3 DEF Found
  <2>3. CASE k # 1
    <3>1. /\ Len(commands) \in Nat /\ Len(commands') = Len(commands) - 1
          /\ \A j \in 1 .. Len(commands') : commands'[j] = commands[j + 1]
      BY <1>1, ExecuteEffect DEF Behind, Popped, TypeInv, TypeOK
    <3>2. PICK j \in 1 .. Len(commands') : k = j + 1
      <4>1. k - 1 \in 1 .. Len(commands') /\ k = (k - 1) + 1
        BY <2>3, <3>1
      <4> QED
        BY <4>1
    <3>3. commands'[j] = commands[k]
      BY <3>1, <3>2
    <3> QED
      BY <2>1, <3>2, <3>3 DEF Pending
  <2> QED
    BY <2>2, <2>3
<1>6. UpIsFound'
  <2>1. \A t \in Sock : conn'[t] = "up" => conn[t] = "up"
    BY <1>1, <1>2, <1>3 DEF Execute
  <2> QED
    BY <1>4, <1>5, <2>1, UpKept
<1>7. CallsShrink
  BY <1>1, CallsSame DEF CallsShrink
<1>8. CASE c.cmd # "hget"
  <2>1. UNCHANGED replies
    BY <1>2, <1>8 DEF Execute
  <2> QED
    BY <1>1, <1>4, <1>6, <1>7, <2>1, MissKept DEF MissInv
<1>9. CASE c.cmd = "hget"
  <2> DEFINE v == IF c.call = 0 THEN UserOf[c.sock] ELSE calls[c.call].callee
             e == [q |-> c, value |-> presence[v]]
  <2>1. replies' = Append(replies, e) /\ UNCHANGED <<presence, conn, calls>>
    BY <1>1, <1>9 DEF Execute
  <2>2. e.q = c /\ (c.call # 0 => e.value = presence[calls[c.call].callee])
    OBVIOUS
  <2> HIDE DEF e
  <2>3. Appended(replies, replies', e)
    <3>1. replies \in Seq(Reply)
      BY DEF TypeInv, TypeOK, Reply
    <3>2. replies \in Seq(Reply \cup {e})
      BY <3>1
    <3> QED
      BY <2>1, <3>2, AppendEffect
  <2>4. c.call # 0 => c.call \in DOMAIN calls
    <3>1. c.call \in 0 .. Len(calls)
      BY <1>1, <1>9 DEF Behind, TypeInv, Lookups
    <3> QED
      BY <3>1, CallsTyped
  <2>5. c.call # 0 /\ e.value = NoSock => MayMiss(c.call)
    BY <2>2, <2>4 DEF MissInv, OnlineIsFound, Found, MayMiss
  <2>6. MissesAreFair'
    <3>1. ASSUME NEW k \in 1 .. Len(replies'), replies'[k].q.call # 0, replies'[k].value = NoSock
          PROVE  MayMiss(replies'[k].q.call)
      <4>1. \/ k \in 1 .. Len(replies) /\ replies'[k] = replies[k]
            \/ replies'[k] = e
        BY <2>3 DEF Appended
      <4> QED
        BY <2>2, <2>5, <3>1, <4>1 DEF MissInv, MissesAreFair
    <3> QED
      BY <2>1, <3>1 DEF MissesAreFair, MayMiss, Gone
  <2>7. OnlineIsFound' /\ MissedNeedsDeparture'
    BY <2>1 DEF MissInv, OnlineIsFound, MissedNeedsDeparture, Found, Gone
  <2> QED
    BY <1>6, <2>6, <2>7 DEF MissInv
<1> QED
  BY <1>8, <1>9

LEMMA InitiateMisses ==
    ASSUME TypeInv, MissInv, NEW s \in Sock, NEW v \in User, Initiate(s, v)
    PROVE  MissInv'
<1> DEFINE online == {t \in Sockets(v) :
                        \A i \in DOMAIN commands : commands[i] # [cmd |-> "hset", sock |-> t]}
           gone == {t \in Sock : conn[t] = "gone"}
           call == [caller |-> s, callee |-> v, answer |-> "none", rung |-> {},
                    online |-> online, gone |-> gone, left |-> FALSE, published |-> {}]
           c == [cmd |-> "hget", sock |-> s, call |-> Len(calls) + 1]
<1>1. calls' = Append(calls, call) /\ Send(c) /\ UNCHANGED <<presence, conn, replies>>
  BY DEF Initiate
<1>2. call.published = {} /\ call.callee = v /\ call.online = online
  OBVIOUS
<1>3. online # {} => Found(v)
  <2> SUFFICES ASSUME NEW t \in online PROVE Found(v)
    OBVIOUS
  <2>1. t \in Sock /\ conn[t] = "up" /\ UserOf[t] = v
    BY DEF Sockets
  <2>2. ~Pending(t)
    <3> SUFFICES ASSUME NEW k \in 1 .. Len(commands), IsHset(commands[k], t) PROVE FALSE
      BY DEF Pending
    <3>1. commands[k] \in Command /\ k \in DOMAIN commands
      BY DEF TypeInv, TypeOK
    <3>2. commands[k] = [cmd |-> "hset", sock |-> t]
      BY <3>1 DEF Command, Hget, IsHset
    <3> QED
      BY <3>1, <3>2
  <2> QED
    BY <2>1, <2>2 DEF MissInv, UpIsFound
<1> HIDE DEF call, online, c
<1>4. Appended(calls, calls', call) /\ Len(calls') \in Nat /\ DOMAIN calls' = 1 .. Len(calls')
  <2>1. calls \in Seq(Call \cup {call}) /\ call \in Call \cup {call}
    BY DEF TypeInv, TypeOK
  <2>2. calls' \in Seq(Call \cup {call}) /\ Appended(calls, calls', call)
    BY <1>1, <2>1, AppendEffect
  <2> QED
    BY <2>2
<1>5. \A r \in DOMAIN calls' : \/ r \in DOMAIN calls /\ calls'[r] = calls[r]
                               \/ calls'[r] = call
  BY <1>4, CallsTyped DEF Appended
<1>6. OnlineIsFound'
  BY <1>1, <1>2, <1>3, <1>5 DEF MissInv, OnlineIsFound, Found, Gone
<1>7. MissedNeedsDeparture'
  BY <1>1, <1>2, <1>5 DEF MissInv, MissedNeedsDeparture
<1>8. MissesAreFair'
  <2>1. ASSUME NEW k \in 1 .. Len(replies), replies[k].q.call # 0, replies[k].value = NoSock,
               NEW r, r = replies[k].q.call
        PROVE  MayMiss(r)'
    <3>1. r \in DOMAIN calls /\ MayMiss(r)
      BY <2>1, LookupOf DEF MissInv, MissesAreFair
    <3>2. calls'[r] = calls[r]
      BY <1>4, <3>1, CallsTyped DEF Appended
    <3> QED
      BY <1>1, <3>1, <3>2 DEF MayMiss, Gone
  <2> QED
    BY <1>1, <2>1 DEF MissesAreFair, MayMiss, Gone
<1>9. UpIsFound'
  <2>1. ASSUME NEW t \in Sock, Pending(t) PROVE Pending(t)'
    <3>1. c \in Command
      <4>1. Len(calls) + 1 \in 0 .. MaxCalls
        BY ConstantsAssumption DEF Initiate, TypeInv, TypeOK
      <4> QED
        BY <4>1, HgetIsCommand DEF c
    <3>2. Appended(commands, commands', c) /\ Len(commands) \in Nat
      BY <1>1, <3>1, SendEffect DEF TypeInv, TypeOK
    <3>3. PICK k \in 1 .. Len(commands) : IsHset(commands[k], t)
      BY <2>1 DEF Pending
    <3>4. k \in 1 .. Len(commands') /\ commands'[k] = commands[k]
      BY <3>2 DEF Appended
    <3> QED
      BY <3>3, <3>4 DEF Pending
  <2>2. FoundStays
    BY <1>1, FoundByPresence DEF GoneIsGone
  <2> QED
    BY <1>1, <2>1, <2>2, UpKept
<1> QED
  BY <1>6, <1>7, <1>8, <1>9 DEF MissInv

\* Steps on a call that leave the hash alone.
LEMMA CallMisses ==
    ASSUME TypeInv, MissInv, UNCHANGED <<presence, conn, commands>>, CallsShrink,
           UNCHANGED replies \/ Popped(replies, replies'),
           \A r \in DOMAIN calls : "missed" \in calls'[r].published =>
               "missed" \in calls[r].published \/ MayMiss(r)
    PROVE  MissInv'
<1>1. FoundStays
  BY FoundByPresence DEF GoneIsGone
<1>2. UpIsFound'
  BY DEF MissInv, UpIsFound, Pending, Found, Gone
<1> QED
  BY <1>1, <1>2, MissKept DEF MissInv

LEMMA RingMisses ==
    ASSUME TypeInv, MissInv, NEW r \in DOMAIN calls, Ring(r)
    PROVE  MissInv'
<1>1. PICK c : Rings(r, c) /\ calls' = [calls EXCEPT ![r] = c]
  BY RingEffect
<1>2. /\ Len(calls') = Len(calls) /\ calls'[r] = c /\ DOMAIN calls' = DOMAIN calls
      /\ \A q \in DOMAIN calls : q # r => calls'[q] = calls[q]
  BY <1>1, CallUpdated DEF Rings
<1>3. /\ replies # <<>> /\ replies' = Tail(replies) /\ UNCHANGED <<presence, conn, commands>>
      /\ Head(replies).q.call = r
  BY DEF Ring
<1>4. Popped(replies, replies') /\ 1 \in 1 .. Len(replies) /\ Head(replies) = replies[1]
  BY <1>3, AnswerEffect
<1>5. CallsShrink
  BY <1>1, <1>2, CallsTyped DEF CallsShrink, CallsKept, Rings
<1>6. Head(replies).value = NoSock => MayMiss(r)
  <2>1. r # 0
    BY CallsTyped
  <2> QED
    BY <1>3, <1>4, <2>1 DEF MissInv, MissesAreFair
<1>7. ASSUME NEW q \in DOMAIN calls, "missed" \in calls'[q].published
      PROVE  "missed" \in calls[q].published \/ MayMiss(q)
  BY <1>1, <1>2, <1>6, <1>7 DEF Rings
<1> QED
  BY <1>3, <1>4, <1>5, <1>7, CallMisses

LEMMA DeviceMisses ==
    ASSUME TypeInv, MissInv, NEW s \in Sock, NEW r \in DOMAIN calls,
           Accept(s, r) \/ Reject(s, r) \/ End(s, r)
    PROVE  MissInv'
<1>1. UNCHANGED <<presence, conn, commands, replies>>
  BY DEF Accept, Reject, End
<1>2. CASE Accept(s, r)
  <2>1. CallsShrink /\ UNCHANGED calls
    BY <1>2, CallsSame DEF Accept, CallsShrink
  <2> QED
    BY <1>1, <2>1, CallMisses
<1>3. CASE Reject(s, r) \/ End(s, r)
  <2>1. PICK event \in Event \ {"missed"} : Publish(r, event)
    BY <1>3 DEF Reject, End, Event
  <2>2. PICK c \in Call : /\ calls' = [calls EXCEPT ![r] = c]
                          /\ c.callee = calls[r].callee /\ c.gone = calls[r].gone
                          /\ c.online = calls[r].online
                          /\ c.published \subseteq calls[r].published \cup {event}
    BY <2>1, PublishEffect
  <2>3. /\ Len(calls') = Len(calls) /\ calls'[r] = c /\ DOMAIN calls' = DOMAIN calls
        /\ \A q \in DOMAIN calls : q # r => calls'[q] = calls[q]
    BY <2>2, CallUpdated
  <2>4. CallsShrink
    BY <2>2, <2>3, CallsTyped DEF CallsShrink, CallsKept
  <2>5. ASSUME NEW q \in DOMAIN calls, "missed" \in calls'[q].published
        PROVE  "missed" \in calls[q].published
    BY <2>1, <2>2, <2>3, <2>5
  <2> QED
    BY <1>1, <2>4, <2>5, CallMisses
<1> QED
  BY <1>2, <1>3

LEMMA MissStep == TypeInv /\ OrderInv /\ MissInv /\ [Next]_vars => MissInv'
<1> SUFFICES ASSUME TypeInv, OrderInv, MissInv, [Next]_vars PROVE MissInv'
  OBVIOUS
<1>1. CASE UNCHANGED vars
  BY <1>1 DEF vars, MissInv, UpIsFound, OnlineIsFound, MissesAreFair, MissedNeedsDeparture,
              MayMiss, Pending, Found, Gone
<1>2. ASSUME NEW s \in Sock, Handler(s) PROVE MissInv'
  BY <1>2, PresenceMisses, InitiateMisses, DeviceMisses DEF Handler
<1> QED
  BY <1>1, <1>2, ExecuteMisses, RingMisses DEF Next

LEMMA MissInit == Init => MissInv
  BY DEF Init, MissInv, UpIsFound, OnlineIsFound, MissesAreFair, MissedNeedsDeparture

\* A call to a user who is connected and registered throughout is published as
\* missed only after a disconnect handler of the user has finished, for any number
\* of devices and of calls.
THEOREM MissesNeedDepartures == Spec => []MissedNeedsDeparture
<1>1. MissInv => MissedNeedsDeparture
  BY DEF MissInv
<1>2. Spec => []MissInv
  BY TypeInit, TypeStep, OrderInit, OrderStep, MissInit, MissStep, PTL DEF Spec
<1> QED
  BY <1>1, <1>2, PTL

=============================================================================
