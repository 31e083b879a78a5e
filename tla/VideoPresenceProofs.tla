-------------------------- MODULE VideoPresenceProofs --------------------------
(***************************************************************************)
(* Proofs about the presence in Redis, for any users, sockets and           *)
(* processes, crashes included, as long as all sockets of a user connect to *)
(* one process (in particular, if there is one process).                    *)
(***************************************************************************)
EXTENDS VideoPresence, SequenceTheorems, TLAPS

Sticky == \A s, t \in Sock : UserOf[s] = UserOf[t] => NodeOf[s] = NodeOf[t]

-----------------------------------------------------------------------------
(* The invariant *)

\* Where a handler is while it waits for the reply to a command.
AwaitedAt(cmd) ==
    CASE cmd = "sadd" -> "adding"
      [] cmd = "hset" -> "setting"
      [] cmd = "srem" -> "removing"
      [] cmd = "scard" -> "counting"
      [] cmd = "hdel" -> "deleting"

\* Every item of f, commands or replies, is awaited by the handler of a socket
\* of its process, and is the only one awaited there.
Awaited(f, p) ==
    \A n \in Node :
        /\ \A k \in 1 .. Len(f[n]) :
              /\ f[n][k].sock \in Sock
              /\ NodeOf[f[n][k].sock] = n
              /\ p[f[n][k].sock] = AwaitedAt(f[n][k].cmd)
        /\ \A k, l \in 1 .. Len(f[n]) : f[n][k].sock = f[n][l].sock => k = l

Off(s, f) == \A n \in Node : \A k \in 1 .. Len(f[n]) : f[n][k].sock # s

Apart(f, g) ==
    \A n \in Node : \A k \in 1 .. Len(f[n]) : Off(f[n][k].sock, g)

Wire ==
    /\ Awaited(requests, pc)
    /\ Awaited(replies, pc)
    /\ Apart(requests, replies)

\* A socket is in its own user's set, and is there from sadd to srem.
Counted ==
    /\ \A u \in User : \A s \in sets[u] : UserOf[s] = u
    /\ \A s \in Sock : pc[s] \in {"setting", "ready"} => s \in sets[UserOf[s]]
    /\ \A n \in Node : \A k \in 1 .. Len(replies[n]) :
          replies[n][k].cmd = "sadd" => replies[n][k].sock \in sets[UserOf[replies[n][k].sock]]

\* The user is online once hset was executed.
Online ==
    /\ \A s \in Sock : pc[s] = "ready" => UserOf[s] \in hash
    /\ \A n \in Node : \A k \in 1 .. Len(replies[n]) :
          replies[n][k].cmd = "hset" => UserOf[replies[n][k].sock] \in hash

\* f[n] holds cmd of s behind position i.
Behind(f, n, i, s, cmd) ==
    \E k \in 1 .. Len(f[n]) : k > i /\ f[n][k].sock = s /\ f[n][k].cmd = cmd

\* Behind a count of zero every socket now in the set has its sadd reply.
ZeroIsOld ==
    \A n \in Node : \A i \in 1 .. Len(replies[n]) :
        replies[n][i].cmd = "scard" /\ replies[n][i].empty =>
            \A s \in sets[UserOf[replies[n][i].sock]] : Behind(replies, n, i, s, "sadd")

\* Behind an hdel every socket now in the set has its hset, or is to send it.
HdelIsOvertaken ==
    \A n \in Node : \A i \in 1 .. Len(requests[n]) :
        requests[n][i].cmd = "hdel" =>
            \A s \in sets[UserOf[requests[n][i].sock]] :
                \/ Behind(replies, n, 0, s, "sadd")
                \/ Behind(requests, n, i, s, "hset")

\* What holds wherever the sockets of a user connect.
CountedInv ==
    /\ TypeOK
    /\ Wire
    /\ Counted

PresenceInv ==
    /\ CountedInv
    /\ Online
    /\ ZeroIsOld
    /\ HdelIsOvertaken

-----------------------------------------------------------------------------
(* What the steps do to the commands and replies on the wire, by position *)

Moved(p, p2, s) == \A t \in Sock : t # s => p2[t] = p[t]

Appended(f, g, n, e) ==
    /\ \A m \in Node : m # n => g[m] = f[m]
    /\ Len(f[n]) \in Nat
    /\ Len(g[n]) = Len(f[n]) + 1
    /\ \A k \in 1 .. Len(f[n]) : g[n][k] = f[n][k]
    /\ g[n][Len(f[n]) + 1] = e

Popped(f, g, n) ==
    /\ \A m \in Node : m # n => g[m] = f[m]
    /\ Len(g[n]) \in Nat
    /\ Len(f[n]) = Len(g[n]) + 1
    /\ \A k \in 1 .. Len(g[n]) : g[n][k] = f[n][k + 1]

LEMMA AppendEffect ==
    ASSUME NEW S, NEW f \in [Node -> Seq(S)], NEW n \in Node, NEW e \in S,
           NEW h, h = Append(f[n], e), NEW g, g = [f EXCEPT ![n] = h]
    PROVE  g \in [Node -> Seq(S)] /\ Appended(f, g, n, e)
<1>1. /\ Append(f[n], e) \in Seq(S)
      /\ Len(Append(f[n], e)) = Len(f[n]) + 1
      /\ Len(f[n]) \in Nat
      /\ \A k \in 1 .. Len(f[n]) : Append(f[n], e)[k] = f[n][k]
      /\ Append(f[n], e)[Len(f[n]) + 1] = e
  OBVIOUS
<1>2. /\ g \in [Node -> Seq(S)]
      /\ g[n] = Append(f[n], e)
      /\ \A m \in Node : m # n => g[m] = f[m]
  BY <1>1
<1> QED
  BY <1>1, <1>2 DEF Appended

LEMMA TailEffect ==
    ASSUME NEW S, NEW f \in [Node -> Seq(S)], NEW n \in Node, f[n] # <<>>,
           NEW g, g = [f EXCEPT ![n] = Tail(@)]
    PROVE  /\ g \in [Node -> Seq(S)]
           /\ Popped(f, g, n)
           /\ Head(f[n]) = f[n][1]
           /\ Head(f[n]) \in S
<1>1. /\ Tail(f[n]) \in Seq(S)
      /\ Len(Tail(f[n])) \in Nat
      /\ Len(f[n]) = Len(Tail(f[n])) + 1
      /\ \A k \in 1 .. Len(Tail(f[n])) : Tail(f[n])[k] = f[n][k + 1]
      /\ Head(f[n]) = f[n][1]
      /\ Head(f[n]) \in S
  OBVIOUS
<1>2. /\ g \in [Node -> Seq(S)]
      /\ g[n] = Tail(f[n])
      /\ \A m \in Node : m # n => g[m] = f[m]
  BY <1>1
<1> QED
  BY <1>1, <1>2 DEF Popped

LEMMA SendEffect ==
    ASSUME TypeOK, NEW s \in Sock, NEW cmd \in Command, Send(s, cmd)
    PROVE  /\ NodeOf[s] \in Node
           /\ requests' \in [Node -> Seq(Request)]
           /\ Appended(requests, requests', NodeOf[s], [sock |-> s, cmd |-> cmd])
<1> DEFINE n == NodeOf[s]
           e == [sock |-> s, cmd |-> cmd]
<1>1. n \in Node /\ e \in Request
  BY ConstantsAssumption DEF Request
<1>2. PICK h : h = Append(requests[n], e)
  OBVIOUS
<1>3. /\ requests \in [Node -> Seq(Request)]
      /\ requests' = [requests EXCEPT ![n] = h]
  BY <1>2 DEF Send, TypeOK
<1>4. requests' \in [Node -> Seq(Request)] /\ Appended(requests, requests', n, e)
  <2> HIDE DEF n, e
  <2> QED
    BY <1>1, <1>2, <1>3, AppendEffect
<1> QED
  BY <1>1, <1>4

\* The reply at the head of the queue is taken off it.
LEMMA AnswerEffect ==
    ASSUME TypeOK, NEW n \in Node, NEW cmd \in Command, Answered(n, cmd),
           NEW next \in Place, Resume(n, next)
    PROVE  LET s == Head(replies[n]).sock
           IN  /\ Head(replies[n]) = replies[n][1]
               /\ Head(replies[n]).cmd = cmd
               /\ s \in Sock
               /\ pc' = [pc EXCEPT ![s] = next]
               /\ pc' \in [Sock -> Place]
               /\ pc'[s] = next
               /\ Moved(pc, pc', s)
               /\ replies' \in [Node -> Seq(Reply)]
               /\ Popped(replies, replies', n)
<1>1. /\ replies' \in [Node -> Seq(Reply)]
      /\ Popped(replies, replies', n)
      /\ Head(replies[n]) = replies[n][1]
      /\ Head(replies[n]) \in Reply
  <2>1. /\ replies \in [Node -> Seq(Reply)]
        /\ replies[n] # <<>>
        /\ replies' = [replies EXCEPT ![n] = Tail(@)]
    BY DEF TypeOK, Answered, Resume
  <2> QED
    BY <2>1, TailEffect
<1>2. Head(replies[n]).sock \in Sock
  BY <1>1 DEF Reply
<1> QED
  BY <1>1, <1>2 DEF TypeOK, Resume, Answered, Moved

\* A command executed moves from the head of its process's commands to the end
\* of its replies.
LEMMA ExecEffect ==
    ASSUME TypeOK, NEW n \in Node, RedisExec(n)
    PROVE  LET q == Head(requests[n])
           IN  /\ q = requests[n][1]
               /\ q \in Request
               /\ UserOf[q.sock] \in User
               /\ requests' \in [Node -> Seq(Request)]
               /\ Popped(requests, requests', n)
               /\ replies' \in [Node -> Seq(Reply)]
               /\ \E e \in Reply :
                     /\ Appended(replies, replies', n, e)
                     /\ e.sock = q.sock /\ e.cmd = q.cmd
                     /\ e.empty <=> q.cmd = "scard" /\ sets[UserOf[q.sock]] = {}
               /\ sets' \in [User -> SUBSET Sock]
               /\ hash' \subseteq User
<1> DEFINE q == Head(requests[n])
           d == [sock |-> q.sock, cmd |-> q.cmd,
                 empty |-> q.cmd = "scard" /\ sets[UserOf[q.sock]] = {}]
<1>1. /\ q = requests[n][1]
      /\ q \in Request
      /\ requests' \in [Node -> Seq(Request)]
      /\ Popped(requests, requests', n)
  <2>1. /\ requests \in [Node -> Seq(Request)]
        /\ requests[n] # <<>>
        /\ requests' = [requests EXCEPT ![n] = Tail(@)]
    BY DEF TypeOK, RedisExec
  <2> QED
    BY <2>1, TailEffect
<1>2. PICK e \in Reply : e = d
  <2>1. d \in Reply
    BY <1>1 DEF Request, Reply
  <2> HIDE DEF d
  <2> QED
    BY <2>1
<1>3. PICK h : h = Append(replies[n], e)
  OBVIOUS
<1>4. replies' \in [Node -> Seq(Reply)] /\ Appended(replies, replies', n, e)
  <2>1. /\ replies \in [Node -> Seq(Reply)]
        /\ replies' = [replies EXCEPT ![n] = h]
    BY <1>2, <1>3 DEF RedisExec, TypeOK
  <2> QED
    BY <1>3, <2>1, AppendEffect
<1>5. q.sock \in Sock /\ UserOf[q.sock] \in User
  BY <1>1, ConstantsAssumption DEF Request
<1>6. sets' \in [User -> SUBSET Sock] /\ hash' \subseteq User
  BY <1>5 DEF TypeOK, RedisExec, SetsAfter, HashAfter
<1>7. /\ e.sock = q.sock /\ e.cmd = q.cmd
      /\ e.empty <=> q.cmd = "scard" /\ sets[UserOf[q.sock]] = {}
  BY <1>2
<1> QED
  BY <1>1, <1>4, <1>5, <1>6, <1>7

-----------------------------------------------------------------------------
(* Types *)

LEMMA TypeStep == TypeOK /\ [Next]_vars => TypeOK'
<1> SUFFICES ASSUME TypeOK, [Next]_vars PROVE TypeOK'
  OBVIOUS
<1>1. ASSUME NEW s \in Sock, Connect(s) PROVE TypeOK'
  <2>1. requests' \in [Node -> Seq(Request)]
    BY <1>1, SendEffect DEF Connect, Command
  <2> QED
    BY <1>1, <2>1 DEF Connect, TypeOK, Place, redisVars
<1>2. ASSUME NEW s \in Sock, Disconnect(s) PROVE TypeOK'
  <2>1. requests' \in [Node -> Seq(Request)]
    BY <1>2, SendEffect DEF Disconnect, Command, TypeOK
  <2> QED
    BY <1>2, <2>1 DEF Disconnect, TypeOK, Place, redisVars
<1>3. ASSUME NEW n \in Node, RedisExec(n) PROVE TypeOK'
  BY <1>3, ExecEffect DEF RedisExec, TypeOK, socketVars
<1>4. ASSUME NEW n \in Node, HandleReply(n) PROVE TypeOK'
  <2>1. ASSUME NEW cmd \in Command, NEW next \in Place,
               Answered(n, cmd), Resume(n, next),
               \/ UNCHANGED requests
               \/ \E c \in Command : Send(Head(replies[n]).sock, c)
        PROVE  TypeOK'
    <3>1. /\ pc' \in [Sock -> Place]
          /\ replies' \in [Node -> Seq(Reply)]
          /\ Head(replies[n]).sock \in Sock
      BY <2>1, AnswerEffect DEF Reply
    <3>2. requests' \in [Node -> Seq(Request)]
      BY <2>1, <3>1, SendEffect DEF TypeOK
    <3> QED
      BY <2>1, <3>1, <3>2 DEF TypeOK, Resume, redisVars
  <2>2. /\ {"sadd", "hset", "srem", "scard", "hdel"} \subseteq Command
        /\ {"setting", "ready", "counting", "deleting", "gone"} \subseteq Place
    BY DEF Command, Place
  <2> QED
    BY <1>4, <2>1, <2>2 DEF HandleReply, SaddDone, HsetDone, SremDone, ScardDone, HdelDone
<1>5. ASSUME NEW n \in Node, Crash(n) PROVE TypeOK'
  <2>1. requests' \in [Node -> Seq(Request)] /\ replies' \in [Node -> Seq(Reply)]
    BY <1>5 DEF Crash, TypeOK
  <2>2. pc' \in [Sock -> Place] /\ connected' \subseteq Sock
    BY <1>5 DEF Crash, TypeOK, Place
  <2> QED
    BY <1>5, <2>1, <2>2 DEF Crash, TypeOK, redisVars
<1>6. CASE UNCHANGED vars
  BY <1>6 DEF vars, redisVars, socketVars, wireVars, TypeOK
<1> QED
  BY <1>1, <1>2, <1>3, <1>4, <1>5, <1>6 DEF Next

LEMMA InitType == Init => TypeOK
<1>1. <<>> \in Seq(Request) /\ <<>> \in Seq(Reply)
  OBVIOUS
<1> QED
  BY <1>1 DEF Init, TypeOK, Place

\* Every variable keeps its type: in particular what is on the wire is always
\* a sequence of the commands server.ts sends, or of replies to them.
THEOREM TypeCorrect == Spec => []TypeOK
  BY InitType, TypeStep, PTL DEF Spec

-----------------------------------------------------------------------------
(* The wire *)

\* A handler that is not waiting has nothing on the wire.
LEMMA IdleIsOff ==
    ASSUME TypeOK, Wire, NEW s \in Sock, pc[s] \in {"new", "ready", "gone"}
    PROVE  Off(s, requests) /\ Off(s, replies)
<1>1. \A cmd \in Command : AwaitedAt(cmd) \notin {"new", "ready", "gone"}
  BY DEF Command, AwaitedAt
<1>2. ASSUME NEW n \in Node, NEW k \in 1 .. Len(requests[n])
      PROVE  requests[n][k].cmd \in Command
  <2>1. requests[n] \in Seq(Request)
    BY DEF TypeOK
  <2>2. requests[n][k] \in Request
    BY <2>1
  <2> QED BY <2>2 DEF Request
<1>3. ASSUME NEW n \in Node, NEW k \in 1 .. Len(replies[n])
      PROVE  replies[n][k].cmd \in Command
  <2>1. replies[n] \in Seq(Reply)
    BY DEF TypeOK
  <2>2. replies[n][k] \in Reply
    BY <2>1
  <2> QED BY <2>2 DEF Reply
<1> QED
  BY <1>1, <1>2, <1>3 DEF Wire, Awaited, Off

LEMMA ApartIsSymmetric ==
    ASSUME NEW f, NEW g, Apart(f, g)
    PROVE  Apart(g, f)
  BY DEF Apart, Off

\* What is taken off the head of f is awaited no more, so its handler may go
\* anywhere.
LEMMA PopKeepsWire ==
    ASSUME NEW f, NEW g, NEW f2, NEW p, NEW p2, NEW n \in Node,
           Awaited(f, p), Awaited(g, p), Apart(f, g), Popped(f, f2, n),
           Moved(p, p2, f[n][1].sock)
    PROVE  /\ Awaited(f2, p2) /\ Awaited(g, p2) /\ Apart(f2, g)
           /\ Off(f[n][1].sock, f2) /\ Off(f[n][1].sock, g)
<1> DEFINE s == f[n][1].sock
<1>1. 1 \in 1 .. Len(f[n]) /\ \A k \in 1 .. Len(f2[n]) : k + 1 \in 1 .. Len(f[n])
  BY DEF Popped
<1>2. Off(s, g)
  BY <1>1 DEF Apart
<1>3. Off(s, f2)
  <2> SUFFICES ASSUME NEW m \in Node, NEW k \in 1 .. Len(f2[m])
               PROVE  f2[m][k].sock # s
    BY DEF Off
  <2>1. CASE m = n
    BY <1>1, <2>1 DEF Popped, Awaited
  <2>2. CASE m # n
    BY <1>1, <2>2 DEF Popped, Awaited
  <2> QED
    BY <2>1, <2>2
<1>4. Awaited(f2, p2)
  <2> SUFFICES ASSUME NEW m \in Node
               PROVE  /\ \A k \in 1 .. Len(f2[m]) :
                            /\ f2[m][k].sock \in Sock
                            /\ NodeOf[f2[m][k].sock] = m
                            /\ p2[f2[m][k].sock] = AwaitedAt(f2[m][k].cmd)
                      /\ \A k, l \in 1 .. Len(f2[m]) :
                            f2[m][k].sock = f2[m][l].sock => k = l
    BY DEF Awaited
  <2>1. CASE m = n
    <3>1. \A k \in 1 .. Len(f2[n]) : f2[n][k] = f[n][k + 1] /\ f2[n][k].sock # s
      BY <1>3 DEF Popped, Off
    <3>2. ASSUME NEW k \in 1 .. Len(f2[n]), NEW l \in 1 .. Len(f2[n]),
                 f2[n][k].sock = f2[n][l].sock
          PROVE  k = l
      <4>1. /\ k + 1 \in 1 .. Len(f[n]) /\ l + 1 \in 1 .. Len(f[n])
            /\ f[n][k + 1].sock = f[n][l + 1].sock
        BY <1>1, <3>1, <3>2
      <4>2. k + 1 = l + 1
        BY <4>1 DEF Awaited
      <4> QED
        BY <4>2
    <3>3. ASSUME NEW k \in 1 .. Len(f2[n])
          PROVE  /\ f2[n][k].sock \in Sock
                 /\ NodeOf[f2[n][k].sock] = n
                 /\ p2[f2[n][k].sock] = AwaitedAt(f2[n][k].cmd)
      <4>1. f2[n][k] = f[n][k + 1] /\ k + 1 \in 1 .. Len(f[n])
        BY <1>1, <3>1
      <4> QED
        BY <3>1, <4>1 DEF Awaited, Moved
    <3> QED
      BY <2>1, <3>2, <3>3
  <2>2. CASE m # n
    BY SMTT(30), <1>1, <1>3, <2>2 DEF Popped, Awaited, Off, Moved
  <2> QED
    BY <2>1, <2>2
<1>5. Awaited(g, p2)
  BY <1>2 DEF Awaited, Off, Moved
<1>6. Apart(f2, g)
  BY <1>1 DEF Apart, Popped
<1> QED
  BY <1>2, <1>3, <1>4, <1>5, <1>6

\* A socket with nothing on the wire may put one item there and await it.
LEMMA AppendKeepsWire ==
    ASSUME NEW f, NEW g, NEW f2, NEW p, NEW p2, NEW e, e.sock \in Sock,
           Awaited(f, p), Awaited(g, p), Apart(f, g),
           Off(e.sock, f), Off(e.sock, g),
           Appended(f, f2, NodeOf[e.sock], e),
           Moved(p, p2, e.sock),
           p2[e.sock] = AwaitedAt(e.cmd)
    PROVE  Awaited(f2, p2) /\ Awaited(g, p2) /\ Apart(f2, g)
<1> DEFINE n == NodeOf[e.sock]
           L == Len(f[n])
<1>1. /\ n \in Node
      /\ L \in Nat
      /\ Len(f2[n]) = L + 1
      /\ \A k \in 1 .. Len(f2[n]) : k = L + 1 \/ k \in 1 .. L
      /\ f2[n][L + 1] = e
      /\ \A k \in 1 .. L : f2[n][k] = f[n][k]
  BY ConstantsAssumption DEF Appended
<1>2. Awaited(f2, p2)
  <2> SUFFICES ASSUME NEW m \in Node
               PROVE  /\ \A k \in 1 .. Len(f2[m]) :
                            /\ f2[m][k].sock \in Sock
                            /\ NodeOf[f2[m][k].sock] = m
                            /\ p2[f2[m][k].sock] = AwaitedAt(f2[m][k].cmd)
                      /\ \A k, l \in 1 .. Len(f2[m]) :
                            f2[m][k].sock = f2[m][l].sock => k = l
    BY DEF Awaited
  <2>1. CASE m = n
    <3>1. ASSUME NEW k \in 1 .. Len(f2[n])
          PROVE  /\ f2[n][k].sock \in Sock
                 /\ NodeOf[f2[n][k].sock] = n
                 /\ p2[f2[n][k].sock] = AwaitedAt(f2[n][k].cmd)
      <4>1. CASE k = L + 1
        BY <1>1, <4>1
      <4>2. CASE k \in 1 .. L
        BY SMTT(30), <1>1, <4>2 DEF Awaited, Off, Moved
      <4> QED
        BY <1>1, <4>1, <4>2
    <3>2. ASSUME NEW k \in 1 .. Len(f2[n]), NEW l \in 1 .. Len(f2[n]),
                 f2[n][k].sock = f2[n][l].sock
          PROVE  k = l
      <4>1. \A i \in 1 .. L : f2[n][i].sock # e.sock
        BY <1>1 DEF Off
      <4>2. CASE k \in 1 .. L /\ l \in 1 .. L
        <5>1. f[n][k].sock = f[n][l].sock
          BY <1>1, <3>2, <4>2
        <5> QED
          BY <1>1, <4>2, <5>1 DEF Awaited
      <4>3. CASE k = L + 1
        BY <1>1, <3>2, <4>1, <4>3
      <4>4. CASE l = L + 1
        BY <1>1, <3>2, <4>1, <4>4
      <4> QED
        BY <1>1, <4>2, <4>3, <4>4
    <3> QED
      BY <2>1, <3>1, <3>2
  <2>2. CASE m # n
    <3>1. f2[m] = f[m]
      BY <2>2 DEF Appended
    <3>2. ASSUME NEW k \in 1 .. Len(f[m])
          PROVE  /\ f[m][k].sock \in Sock
                 /\ NodeOf[f[m][k].sock] = m
                 /\ p2[f[m][k].sock] = AwaitedAt(f[m][k].cmd)
      <4>1. f[m][k].sock \in Sock /\ f[m][k].sock # e.sock
        BY DEF Awaited, Off
      <4>2. p2[f[m][k].sock] = p[f[m][k].sock]
        BY <4>1 DEF Moved
      <4> QED
        BY <4>1, <4>2 DEF Awaited
    <3>3. \A k, l \in 1 .. Len(f[m]) : f[m][k].sock = f[m][l].sock => k = l
      BY DEF Awaited
    <3> QED
      BY <3>1, <3>2, <3>3
  <2> QED
    BY <2>1, <2>2
<1>3. Awaited(g, p2)
  BY DEF Awaited, Off, Moved
<1>4. Apart(f2, g)
  BY <1>1 DEF Apart, Appended
<1> QED
  BY <1>2, <1>3, <1>4

LEMMA SendKeepsWire ==
    ASSUME TypeOK, Wire, NEW s \in Sock, NEW cmd \in Command, Send(s, cmd),
           pc[s] \in {"new", "ready"}, pc' = [pc EXCEPT ![s] = AwaitedAt(cmd)],
           UNCHANGED replies
    PROVE  Wire'
<1> DEFINE e == [sock |-> s, cmd |-> cmd]
<1>1. Appended(requests, requests', NodeOf[s], e)
  BY SendEffect
<1>2. Off(s, requests) /\ Off(s, replies)
  BY IdleIsOff
<1>3. pc'[s] = AwaitedAt(cmd) /\ Moved(pc, pc', s)
  BY DEF TypeOK, Moved
<1>4. e.sock = s /\ e.cmd = cmd
  OBVIOUS
<1> HIDE DEF e
<1>5. Awaited(requests', pc') /\ Awaited(replies, pc') /\ Apart(requests', replies)
  BY <1>1, <1>2, <1>3, <1>4, AppendKeepsWire DEF Wire
<1> QED
  BY <1>5 DEF Wire

\* Whose reply it was, and that nothing else of that handler is on the wire.
LEMMA AnswerKeepsWire ==
    ASSUME TypeOK, Wire, NEW n \in Node, NEW cmd \in Command, Answered(n, cmd),
           NEW next \in Place, Resume(n, next)
    PROVE  LET s == Head(replies[n]).sock
           IN  /\ Awaited(requests, pc') /\ Awaited(replies', pc')
               /\ Apart(requests, replies')
               /\ Off(s, requests) /\ Off(s, replies')
               /\ NodeOf[s] = n
               /\ pc[s] = AwaitedAt(cmd)
<1> DEFINE s == Head(replies[n]).sock
<1>1. /\ Popped(replies, replies', n)
      /\ s = replies[n][1].sock
      /\ replies[n][1].cmd = cmd
      /\ Moved(pc, pc', s)
  BY AnswerEffect
<1>2. Apart(replies, requests)
  BY ApartIsSymmetric DEF Wire
<1>3. /\ Awaited(replies', pc') /\ Awaited(requests, pc') /\ Apart(replies', requests)
      /\ Off(s, replies') /\ Off(s, requests)
  BY <1>1, <1>2, PopKeepsWire DEF Wire
<1>4. 1 \in 1 .. Len(replies[n])
  BY <1>1 DEF Popped
<1> QED
  BY <1>1, <1>3, <1>4, ApartIsSymmetric DEF Wire, Awaited

LEMMA NextCommandKeepsWire ==
    ASSUME TypeOK, Wire, NEW n \in Node, NEW cmd \in Command, Answered(n, cmd),
           NEW c \in Command, AwaitedAt(c) \in Place, Resume(n, AwaitedAt(c)),
           Send(Head(replies[n]).sock, c)
    PROVE  Wire'
<1> DEFINE s == Head(replies[n]).sock
           e == [sock |-> s, cmd |-> c]
<1>1. s \in Sock /\ pc'[s] = AwaitedAt(c)
  BY AnswerEffect
<1>2. Appended(requests, requests', NodeOf[s], e)
  BY <1>1, SendEffect
<1>3. /\ Awaited(requests, pc') /\ Awaited(replies', pc') /\ Apart(requests, replies')
      /\ Off(s, requests) /\ Off(s, replies')
  BY AnswerKeepsWire
<1>4. e.sock = s /\ e.cmd = c
  OBVIOUS
<1> HIDE DEF e, s
<1>5. Moved(pc', pc', s)
  BY DEF Moved
<1>6. Awaited(requests', pc') /\ Awaited(replies', pc') /\ Apart(requests', replies')
  BY <1>1, <1>2, <1>3, <1>4, <1>5, AppendKeepsWire
<1> QED
  BY <1>6 DEF Wire

LEMMA ExecKeepsWire ==
    ASSUME TypeOK, Wire, NEW n \in Node, RedisExec(n)
    PROVE  LET q == Head(requests[n])
           IN  /\ Wire'
               /\ Off(q.sock, replies) /\ Off(q.sock, requests')
               /\ NodeOf[q.sock] = n
               /\ pc[q.sock] = AwaitedAt(q.cmd)
<1> DEFINE q == Head(requests[n])
<1>1. PICK e \in Reply :
          /\ Popped(requests, requests', n)
          /\ Appended(replies, replies', n, e)
          /\ q = requests[n][1]
          /\ q.sock \in Sock
          /\ e.sock = q.sock /\ e.cmd = q.cmd
  BY ExecEffect DEF Request
<1>2. pc' = pc
  BY DEF RedisExec, socketVars
<1>3. 1 \in 1 .. Len(requests[n])
  BY <1>1 DEF Popped
<1>4. pc[q.sock] = AwaitedAt(q.cmd) /\ NodeOf[q.sock] = n
  BY <1>1, <1>3 DEF Wire, Awaited
<1>5. \A s : Moved(pc, pc, s)
  BY DEF Moved
<1>6. /\ Awaited(requests', pc) /\ Awaited(replies, pc) /\ Apart(requests', replies)
      /\ Off(q.sock, requests') /\ Off(q.sock, replies)
  BY <1>1, <1>5, PopKeepsWire DEF Wire
<1>7. Awaited(replies', pc) /\ Awaited(requests', pc) /\ Apart(replies', requests')
  <2>1. Apart(replies, requests')
    BY <1>6, ApartIsSymmetric
  <2> HIDE DEF q
  <2> QED
    BY <1>1, <1>4, <1>5, <1>6, <2>1, AppendKeepsWire
<1> QED
  BY <1>2, <1>4, <1>6, <1>7, ApartIsSymmetric DEF Wire

LEMMA CrashKeepsWire ==
    ASSUME TypeOK, Wire, NEW n \in Node, Crash(n)
    PROVE  Wire'
<1>1. /\ requests'[n] = <<>> /\ replies'[n] = <<>>
      /\ \A m \in Node : m # n => requests'[m] = requests[m] /\ replies'[m] = replies[m]
      /\ \A s \in Sock : NodeOf[s] # n => pc'[s] = pc[s]
  BY DEF Crash, TypeOK
<1>2. Len(<<>>) = 0 /\ 1 .. 0 = {}
  OBVIOUS
<1>3. Awaited(requests', pc') /\ Awaited(replies', pc')
  <2>1. ASSUME NEW f, NEW g, Awaited(f, pc), g[n] = <<>>,
               \A m \in Node : m # n => g[m] = f[m]
        PROVE  Awaited(g, pc')
    <3> SUFFICES ASSUME NEW m \in Node
                 PROVE  /\ \A k \in 1 .. Len(g[m]) :
                              /\ g[m][k].sock \in Sock
                              /\ NodeOf[g[m][k].sock] = m
                              /\ pc'[g[m][k].sock] = AwaitedAt(g[m][k].cmd)
                        /\ \A k, l \in 1 .. Len(g[m]) :
                              g[m][k].sock = g[m][l].sock => k = l
      BY DEF Awaited
    <3>1. CASE m = n
      BY <1>2, <2>1, <3>1
    <3>2. CASE m # n
      BY <1>1, <2>1, <3>2 DEF Awaited
    <3> QED
      BY <3>1, <3>2
  <2> QED
    BY <1>1, <2>1 DEF Wire
<1>4. Apart(requests', replies')
  <2> SUFFICES ASSUME NEW m \in Node, NEW k \in 1 .. Len(requests'[m]),
                      NEW o \in Node, NEW l \in 1 .. Len(replies'[o])
               PROVE  replies'[o][l].sock # requests'[m][k].sock
    BY DEF Apart, Off
  <2>1. m # n /\ o # n
    BY <1>1, <1>2
  <2> QED
    BY <1>1, <2>1 DEF Wire, Apart, Off
<1> QED
  BY <1>3, <1>4 DEF Wire

\* The wire stays in order, whatever happens.
LEMMA WireStep ==
    ASSUME TypeOK, Wire, [Next]_vars
    PROVE  Wire'
<1>1. ASSUME NEW s \in Sock, Connect(s) PROVE Wire'
  <2>1. AwaitedAt("sadd") = "adding" /\ "sadd" \in Command
    BY DEF AwaitedAt, Command
  <2> QED
    BY <1>1, <2>1, SendKeepsWire DEF Connect
<1>2. ASSUME NEW s \in Sock, Disconnect(s) PROVE Wire'
  <2>1. AwaitedAt("srem") = "removing" /\ "srem" \in Command
    BY DEF AwaitedAt, Command
  <2>2. CASE UNCHANGED <<pc, requests>>
    BY <1>2, <2>2 DEF Disconnect, Wire
  <2>3. CASE ~UNCHANGED <<pc, requests>>
    BY <1>2, <2>1, <2>3, SendKeepsWire DEF Disconnect
  <2> QED
    BY <2>2, <2>3
<1>3. ASSUME NEW n \in Node, RedisExec(n) PROVE Wire'
  BY <1>3, ExecKeepsWire
<1>4. ASSUME NEW n \in Node, HandleReply(n) PROVE Wire'
  <2>1. /\ AwaitedAt("hset") = "setting" /\ AwaitedAt("scard") = "counting"
        /\ AwaitedAt("hdel") = "deleting"
        /\ {"sadd", "hset", "srem", "scard", "hdel"} \subseteq Command
        /\ {"setting", "ready", "counting", "deleting", "gone"} \subseteq Place
    BY DEF AwaitedAt, Command, Place
  <2>2. ASSUME NEW cmd \in Command, NEW next \in Place, Answered(n, cmd),
               Resume(n, next), UNCHANGED requests
        PROVE  Wire'
    BY <2>2, AnswerKeepsWire DEF Wire
  <2>3. ASSUME SaddDone(n) PROVE Wire'
    BY <2>1, <2>3, NextCommandKeepsWire DEF SaddDone
  <2>4. ASSUME HsetDone(n) PROVE Wire'
    BY <2>1, <2>2, <2>4 DEF HsetDone
  <2>5. ASSUME SremDone(n) PROVE Wire'
    BY <2>1, <2>5, NextCommandKeepsWire DEF SremDone
  <2>6. ASSUME ScardDone(n) PROVE Wire'
    BY <2>1, <2>2, <2>6, NextCommandKeepsWire DEF ScardDone
  <2>7. ASSUME HdelDone(n) PROVE Wire'
    BY <2>1, <2>2, <2>7 DEF HdelDone
  <2> QED
    BY <1>4, <2>3, <2>4, <2>5, <2>6, <2>7 DEF HandleReply
<1>5. ASSUME NEW n \in Node, Crash(n) PROVE Wire'
  BY <1>5, CrashKeepsWire
<1>6. CASE UNCHANGED vars
  BY <1>6 DEF vars, socketVars, wireVars, Wire
<1> QED
  BY <1>1, <1>2, <1>3, <1>4, <1>5, <1>6 DEF Next

-----------------------------------------------------------------------------
(* Served sockets are counted, wherever they connect *)

\* The item of f an item of g is, when g is f with its head taken off.
LEMMA PoppedFrom ==
    ASSUME NEW f, NEW g, NEW n \in Node, Popped(f, g, n)
    PROVE  \A m \in Node : \A k \in 1 .. Len(g[m]) :
              LET l == IF m = n THEN k + 1 ELSE k
              IN  l \in 1 .. Len(f[m]) /\ g[m][k] = f[m][l]
  BY DEF Popped

\* ... or with one item appended.
LEMMA AppendedFrom ==
    ASSUME NEW f, NEW g, NEW n \in Node, NEW e, Appended(f, g, n, e)
    PROVE  \A m \in Node : \A k \in 1 .. Len(g[m]) :
              \/ k \in 1 .. Len(f[m]) /\ g[m][k] = f[m][k]
              \/ m = n /\ g[m][k] = e
<1> TAKE m \in Node
<1> TAKE k \in 1 .. Len(g[m])
<1>1. CASE m = n
  <2>1. k = Len(f[n]) + 1 \/ k \in 1 .. Len(f[n])
    BY <1>1 DEF Appended
  <2> QED
    BY <1>1, <2>1 DEF Appended
<1>2. CASE m # n
  BY <1>2 DEF Appended
<1> QED
  BY <1>1, <1>2

\* What a command of q.sock does to the sets of sockets.
LEMMA SetsEffect ==
    ASSUME TypeOK, NEW n \in Node, RedisExec(n)
    PROVE  LET q == Head(requests[n])
               u == UserOf[q.sock]
           IN  /\ \A v \in User : v # u => sets'[v] = sets[v]
               /\ q.cmd = "sadd" => sets'[u] = sets[u] \cup {q.sock}
               /\ q.cmd = "srem" => sets'[u] = sets[u] \ {q.sock}
               /\ q.cmd \notin {"sadd", "srem"} => sets'[u] = sets[u]
<1> DEFINE q == Head(requests[n])
<1>1. UserOf[q.sock] \in User
  BY ExecEffect
<1>2. sets' = SetsAfter(q.sock, q.cmd)
  BY DEF RedisExec
<1> QED
  BY <1>1, <1>2 DEF SetsAfter, TypeOK

LEMMA CountedStep ==
    ASSUME TypeOK, Wire, Counted, [Next]_vars
    PROVE  Counted'
<1>1. ASSUME NEW s \in Sock, Connect(s) PROVE Counted'
  <2>1. \A t \in Sock : t # s => pc'[t] = pc[t]
    BY <1>1 DEF Connect, TypeOK
  <2>2. pc'[s] = "adding"
    BY <1>1 DEF Connect, TypeOK
  <2> QED
    BY <1>1, <2>1, <2>2 DEF Connect, redisVars, Counted
<1>2. ASSUME NEW s \in Sock, Disconnect(s) PROVE Counted'
  <2>1. \A t \in Sock : pc'[t] \in {"setting", "ready"} => pc'[t] = pc[t]
    BY <1>2 DEF Disconnect, TypeOK
  <2> QED
    BY <1>2, <2>1 DEF Disconnect, redisVars, Counted
<1>3. ASSUME NEW n \in Node, RedisExec(n) PROVE Counted'
  <2> DEFINE q == Head(requests[n])
             u == UserOf[q.sock]
  <2>1. PICK e :
            /\ q.sock \in Sock
            /\ u \in User
            /\ Appended(replies, replies', n, e)
            /\ e.sock = q.sock /\ e.cmd = q.cmd
    BY <1>3, ExecEffect DEF Request
  <2>2. /\ Off(q.sock, replies)
        /\ pc[q.sock] = AwaitedAt(q.cmd)
    BY <1>3, ExecKeepsWire
  <2>3. /\ \A v \in User : v # u => sets'[v] = sets[v]
        /\ q.cmd = "sadd" => sets'[u] = sets[u] \cup {q.sock}
        /\ q.cmd = "srem" => sets'[u] = sets[u] \ {q.sock}
        /\ q.cmd \notin {"sadd", "srem"} => sets'[u] = sets[u]
    BY <1>3, SetsEffect
  <2>4. pc' = pc
    BY <1>3 DEF RedisExec, socketVars
  <2>5. q.cmd = "srem" => pc[q.sock] = "removing"
    BY <2>2 DEF AwaitedAt
  <2> HIDE DEF q, u
  <2>6. \A v \in User : \A s \in sets'[v] : UserOf[s] = v
    BY <2>1, <2>3 DEF Counted, u
  <2>7. ASSUME NEW s \in Sock, s \in sets[UserOf[s]], s # q.sock \/ q.cmd # "srem"
        PROVE  s \in sets'[UserOf[s]]
    BY <2>1, <2>3, <2>7, ConstantsAssumption DEF u
  <2>8. ASSUME NEW s \in Sock, pc'[s] \in {"setting", "ready"}
        PROVE  s \in sets'[UserOf[s]]
    BY <2>4, <2>5, <2>7, <2>8 DEF Counted
  <2>9. ASSUME NEW m \in Node, NEW k \in 1 .. Len(replies'[m]), replies'[m][k].cmd = "sadd"
        PROVE  replies'[m][k].sock \in sets'[UserOf[replies'[m][k].sock]]
    <3>1. CASE k \in 1 .. Len(replies[m]) /\ replies'[m][k] = replies[m][k]
      <4>1. replies[m][k].sock \in Sock /\ replies[m][k].sock # q.sock
        BY <2>2, <3>1 DEF Off, Wire, Awaited
      <4> QED
        BY <2>7, <2>9, <3>1, <4>1 DEF Counted
    <3>2. CASE replies'[m][k] = e
      BY <2>1, <2>3, <2>9, <3>2 DEF u
    <3> QED
      BY <2>1, <3>1, <3>2, AppendedFrom
  <2> QED
    BY <2>6, <2>8, <2>9 DEF Counted
<1>4. ASSUME NEW n \in Node, HandleReply(n) PROVE Counted'
  <2>1. ASSUME NEW cmd \in Command, NEW next \in Place, Answered(n, cmd), Resume(n, next),
               next \in {"setting", "ready"} => cmd \in {"sadd", "hset"}
        PROVE  Counted'
    <3> DEFINE s == Head(replies[n]).sock
    <3>1. /\ Popped(replies, replies', n)
          /\ s = replies[n][1].sock /\ replies[n][1].cmd = cmd
          /\ s \in Sock
          /\ pc'[s] = next
          /\ Moved(pc, pc', s)
      BY <2>1, AnswerEffect
    <3>2. pc[s] = AwaitedAt(cmd)
      BY <2>1, AnswerKeepsWire
    <3>3. sets' = sets
      BY <2>1 DEF Resume, redisVars
    <3>4. 1 \in 1 .. Len(replies[n])
      BY <3>1 DEF Popped
    <3>5. ASSUME next \in {"setting", "ready"}
          PROVE  s \in sets[UserOf[s]]
      <4>1. CASE cmd = "sadd"
        BY <3>1, <3>4, <4>1 DEF Counted
      <4>2. CASE cmd = "hset"
        BY <3>1, <3>2, <4>2 DEF Counted, AwaitedAt
      <4> QED
        BY <2>1, <3>5, <4>1, <4>2
    <3> HIDE DEF s
    <3>6. \A t \in Sock : pc'[t] \in {"setting", "ready"} => t \in sets[UserOf[t]]
      BY <3>1, <3>5 DEF Moved, Counted
    <3>7. ASSUME NEW m \in Node, NEW k \in 1 .. Len(replies'[m])
          PROVE  replies'[m][k].cmd = "sadd" =>
                     replies'[m][k].sock \in sets[UserOf[replies'[m][k].sock]]
      <4>1. PICK l \in 1 .. Len(replies[m]) : replies'[m][k] = replies[m][l]
        BY <3>1, PoppedFrom
      <4> QED
        BY <4>1 DEF Counted
    <3> QED
      BY <3>3, <3>6, <3>7 DEF Counted
  <2>2. /\ {"sadd", "hset", "srem", "scard", "hdel"} \subseteq Command
        /\ {"setting", "ready", "counting", "deleting", "gone"} \subseteq Place
    BY DEF Command, Place
  <2> QED
    BY <1>4, <2>1, <2>2 DEF HandleReply, SaddDone, HsetDone, SremDone, ScardDone, HdelDone
<1>5. ASSUME NEW n \in Node, Crash(n) PROVE Counted'
  <2>1. /\ \A s \in Sock : pc'[s] \in {"setting", "ready"} => pc'[s] = pc[s]
        /\ replies'[n] = <<>>
        /\ \A m \in Node : m # n => replies'[m] = replies[m]
        /\ sets' = sets
    BY <1>5 DEF Crash, TypeOK, redisVars
  <2>2. 1 .. Len(replies'[n]) = {}
    BY <2>1
  <2> QED
    BY <2>1, <2>2 DEF Counted
<1>6. CASE UNCHANGED vars
  BY <1>6 DEF vars, redisVars, socketVars, wireVars, Counted
<1> QED
  BY <1>1, <1>2, <1>3, <1>4, <1>5, <1>6 DEF Next

LEMMA CountedInit == Init => CountedInv
<1> SUFFICES ASSUME Init PROVE CountedInv
  OBVIOUS
<1>1. TypeOK
  BY InitType
<1>2. \A n \in Node : 1 .. Len(requests[n]) = {} /\ 1 .. Len(replies[n]) = {}
  BY DEF Init
<1>3. \A s \in Sock : pc[s] = "new"
  BY DEF Init
<1>4. \A u \in User : sets[u] = {}
  BY DEF Init
<1> QED
  BY <1>1, <1>2, <1>3, <1>4 DEF CountedInv, Wire, Awaited, Apart, Counted

LEMMA CountedInvStep == CountedInv /\ [Next]_vars => CountedInv'
  BY TypeStep, WireStep, CountedStep DEF CountedInv

\* For any processes and whatever crashes: a served socket is in its user's
\* set, so no departure finds the set empty while it is there.
THEOREM Counting == Spec => []ServedIsCounted
<1>1. CountedInv => ServedIsCounted
  BY DEF CountedInv, Counted, ServedIsCounted, Served, TypeOK
<1> QED
  BY <1>1, CountedInit, CountedInvStep, PTL DEF Spec

-----------------------------------------------------------------------------
(* The order of the commands, when the sockets of a user share a process *)

LEMMA AppendKeepsBehind ==
    ASSUME NEW f, NEW g, NEW n \in Node, NEW e, Appended(f, g, n, e)
    PROVE  \A m \in Node : \A i, s, cmd : Behind(f, m, i, s, cmd) => Behind(g, m, i, s, cmd)
<1> TAKE m \in Node
<1> TAKE i, s, cmd
<1> HAVE Behind(f, m, i, s, cmd)
<1>1. PICK k \in 1 .. Len(f[m]) : k > i /\ f[m][k].sock = s /\ f[m][k].cmd = cmd
  BY DEF Behind
<1>2. k \in 1 .. Len(g[m]) /\ g[m][k] = f[m][k]
  BY DEF Appended
<1> QED
  BY <1>1, <1>2 DEF Behind

\* The item appended is behind all the others.
LEMMA AppendedIsBehind ==
    ASSUME NEW f, NEW g, NEW n \in Node, NEW e, Appended(f, g, n, e)
    PROVE  /\ \A i \in 1 .. Len(f[n]) : Behind(g, n, i, e.sock, e.cmd)
           /\ Behind(g, n, 0, e.sock, e.cmd)
<1>1. /\ Len(f[n]) + 1 \in 1 .. Len(g[n])
      /\ g[n][Len(f[n]) + 1] = e
      /\ Len(f[n]) + 1 > 0
      /\ \A i \in 1 .. Len(f[n]) : Len(f[n]) + 1 > i
  BY DEF Appended
<1> QED
  BY <1>1 DEF Behind

\* Only the head goes, and positions shift.
LEMMA PopKeepsBehind ==
    ASSUME NEW f, NEW g, NEW n \in Node, Popped(f, g, n),
           NEW m \in Node, NEW i \in Nat, NEW l \in Nat, NEW s, NEW cmd,
           Behind(f, m, l, s, cmd), l = IF m = n THEN i + 1 ELSE i
    PROVE  Behind(g, m, i, s, cmd)
<1>1. PICK k \in 1 .. Len(f[m]) : k > l /\ f[m][k].sock = s /\ f[m][k].cmd = cmd
  BY DEF Behind
<1>2. CASE m = n
  <2>1. k - 1 \in 1 .. Len(g[n]) /\ g[n][k - 1] = f[n][k] /\ k - 1 > i
    <3>1. k - 1 \in 1 .. Len(g[n]) /\ k - 1 > i /\ (k - 1) + 1 = k
      BY <1>1, <1>2 DEF Popped
    <3>2. g[n][k - 1] = f[n][(k - 1) + 1]
      BY <3>1 DEF Popped
    <3> QED
      BY <3>1, <3>2
  <2> QED
    BY <1>1, <1>2, <2>1 DEF Behind
<1>3. CASE m # n
  BY <1>1, <1>3 DEF Popped, Behind
<1> QED
  BY <1>2, <1>3

\* The fields of the hash only go with the hdel of the user.
LEMMA HashEffect ==
    ASSUME TypeOK, NEW n \in Node, RedisExec(n)
    PROVE  LET q == Head(requests[n])
               u == UserOf[q.sock]
           IN  /\ \A v \in hash : v \in hash' \/ (v = u /\ q.cmd = "hdel")
               /\ q.cmd = "hset" => u \in hash'
  BY DEF RedisExec, HashAfter

LEMMA OnlineStep ==
    ASSUME CountedInv, Online, HdelIsOvertaken, [Next]_vars
    PROVE  Online'
<1> USE DEF CountedInv
<1>1. ASSUME NEW s \in Sock, Connect(s) \/ Disconnect(s) PROVE Online'
  <2>1. \A t \in Sock : pc'[t] = "ready" => pc[t] = "ready"
    BY <1>1 DEF Connect, Disconnect, TypeOK
  <2> QED
    BY <1>1, <2>1 DEF Connect, Disconnect, redisVars, Online
<1>2. ASSUME NEW n \in Node, RedisExec(n) PROVE Online'
  <2> DEFINE q == Head(requests[n])
             u == UserOf[q.sock]
  <2>1. PICK e :
            /\ q = requests[n][1]
            /\ Popped(requests, requests', n)
            /\ Appended(replies, replies', n, e)
            /\ e.sock = q.sock /\ e.cmd = q.cmd
    BY <1>2, ExecEffect
  <2>2. 1 \in 1 .. Len(requests[n])
    BY <2>1 DEF Popped
  <2>3. /\ \A v \in hash : v \in hash' \/ (v = u /\ q.cmd = "hdel")
        /\ q.cmd = "hset" => u \in hash'
    BY <1>2, HashEffect
  <2>4. pc' = pc
    BY <1>2 DEF RedisExec, socketVars
  <2> HIDE DEF q, u
  \* Who is in the set when hdel is executed awaits the reply to sadd or hset,
  \* and the latter is not executed yet.
  <2>5. ASSUME q.cmd = "hdel", NEW t \in sets[u]
        PROVE  pc[t] \in {"adding", "setting"} /\ \A m \in Node :
                   \A k \in 1 .. Len(replies[m]) :
                      ~(replies[m][k].sock = t /\ replies[m][k].cmd = "hset")
    <3>1. Behind(replies, n, 0, t, "sadd") \/ Behind(requests, n, 1, t, "hset")
      BY <2>1, <2>2, <2>5 DEF HdelIsOvertaken, u
    <3>2. CASE Behind(replies, n, 0, t, "sadd")
      <4>1. pc[t] = "adding"
        BY <3>2 DEF Behind, Wire, Awaited, AwaitedAt
      <4> QED
        BY <4>1 DEF Wire, Awaited, AwaitedAt
    <3>3. CASE Behind(requests, n, 1, t, "hset")
      <4>1. pc[t] = "setting" /\ Off(t, replies)
        BY <3>3 DEF Behind, Wire, Awaited, AwaitedAt, Apart
      <4> QED
        BY <4>1 DEF Off
    <3> QED
      BY <3>1, <3>2, <3>3
  <2>6. ASSUME NEW t \in Sock, pc'[t] = "ready"
        PROVE  UserOf[t] \in hash'
    <3>1. UserOf[t] \in hash /\ t \in sets[UserOf[t]]
      BY <2>4, <2>6 DEF Online, Counted
    <3> QED
      BY <2>3, <2>4, <2>5, <2>6, <3>1
  <2>7. ASSUME NEW m \in Node, NEW k \in 1 .. Len(replies'[m]), replies'[m][k].cmd = "hset"
        PROVE  UserOf[replies'[m][k].sock] \in hash'
    <3>1. CASE k \in 1 .. Len(replies[m]) /\ replies'[m][k] = replies[m][k]
      <4> DEFINE t == replies[m][k].sock
      <4>1. t \in Sock /\ pc[t] = "setting"
        BY <2>7, <3>1 DEF Wire, Awaited, AwaitedAt
      <4>2. UserOf[t] \in hash /\ t \in sets[UserOf[t]]
        BY <2>7, <3>1, <4>1 DEF Online, Counted
      <4> QED
        BY <2>3, <2>5, <2>7, <3>1, <4>2
    <3>2. CASE replies'[m][k] = e
      BY <2>1, <2>3, <2>7, <3>2 DEF u
    <3> QED
      BY <2>1, <3>1, <3>2, AppendedFrom
  <2> QED
    BY <2>6, <2>7 DEF Online
<1>3. ASSUME NEW n \in Node, HandleReply(n) PROVE Online'
  <2>1. ASSUME NEW cmd \in Command, NEW next \in Place, Answered(n, cmd), Resume(n, next),
               next = "ready" => cmd = "hset"
        PROVE  Online'
    <3> DEFINE s == Head(replies[n]).sock
    <3>1. /\ Popped(replies, replies', n)
          /\ s = replies[n][1].sock /\ replies[n][1].cmd = cmd
          /\ s \in Sock
          /\ pc'[s] = next
          /\ Moved(pc, pc', s)
      BY <2>1, AnswerEffect
    <3>2. hash' = hash
      BY <2>1 DEF Resume, redisVars
    <3>3. 1 \in 1 .. Len(replies[n])
      BY <3>1 DEF Popped
    <3>4. next = "ready" => UserOf[s] \in hash
      BY <2>1, <3>1, <3>3 DEF Online
    <3> HIDE DEF s
    <3>5. \A t \in Sock : pc'[t] = "ready" => UserOf[t] \in hash
      BY <3>1, <3>4 DEF Moved, Online
    <3>6. ASSUME NEW m \in Node, NEW k \in 1 .. Len(replies'[m])
          PROVE  replies'[m][k].cmd = "hset" => UserOf[replies'[m][k].sock] \in hash
      <4>1. PICK l \in 1 .. Len(replies[m]) : replies'[m][k] = replies[m][l]
        BY <3>1, PoppedFrom
      <4> QED
        BY <4>1 DEF Online
    <3> QED
      BY <3>2, <3>5, <3>6 DEF Online
  <2>2. /\ {"sadd", "hset", "srem", "scard", "hdel"} \subseteq Command
        /\ {"setting", "ready", "counting", "deleting", "gone"} \subseteq Place
    BY DEF Command, Place
  <2> QED
    BY <1>3, <2>1, <2>2 DEF HandleReply, SaddDone, HsetDone, SremDone, ScardDone, HdelDone
<1>4. ASSUME NEW n \in Node, Crash(n) PROVE Online'
  <2>1. /\ \A s \in Sock : pc'[s] = "ready" => pc[s] = "ready"
        /\ replies'[n] = <<>>
        /\ \A m \in Node : m # n => replies'[m] = replies[m]
        /\ hash' = hash
    BY <1>4 DEF Crash, TypeOK, redisVars
  <2>2. 1 .. Len(replies'[n]) = {}
    BY <2>1
  <2> QED
    BY <2>1, <2>2 DEF Online
<1>5. CASE UNCHANGED vars
  BY <1>5 DEF vars, redisVars, socketVars, wireVars, Online
<1> QED
  BY <1>1, <1>2, <1>3, <1>4, <1>5 DEF Next

\* A socket that comes into a set while a count of zero, or the hdel that
\* follows it, is on the wire comes in through the same process, behind it.
LEMMA ZeroIsOldStep ==
    ASSUME Sticky, CountedInv, ZeroIsOld, [Next]_vars
    PROVE  ZeroIsOld'
<1> USE DEF CountedInv
<1>1. CASE UNCHANGED <<sets, replies>>
  BY <1>1 DEF ZeroIsOld, Behind
<1>2. ASSUME NEW n \in Node, RedisExec(n) PROVE ZeroIsOld'
  <2> DEFINE q == Head(requests[n])
             u == UserOf[q.sock]
  <2>1. PICK e :
            /\ q \in Request /\ u \in User
            /\ Appended(replies, replies', n, e)
            /\ e.sock = q.sock /\ e.cmd = q.cmd
            /\ e.empty => q.cmd = "scard" /\ sets[u] = {}
    BY <1>2, ExecEffect
  <2>2. /\ \A v \in User : v # u => sets'[v] = sets[v]
        /\ q.cmd = "sadd" => sets'[u] = sets[u] \cup {q.sock}
        /\ q.cmd = "srem" => sets'[u] = sets[u] \ {q.sock}
        /\ q.cmd \notin {"sadd", "srem"} => sets'[u] = sets[u]
    BY <1>2, SetsEffect
  <2>3. NodeOf[q.sock] = n /\ q.sock \in Sock
    BY <1>2, <2>1, ExecKeepsWire DEF Request
  <2> HIDE DEF q, u
  <2>4. SUFFICES ASSUME NEW m \in Node, NEW i \in 1 .. Len(replies'[m]),
                        replies'[m][i].cmd = "scard", replies'[m][i].empty,
                        NEW s \in sets'[UserOf[replies'[m][i].sock]]
                 PROVE  Behind(replies', m, i, s, "sadd")
    BY DEF ZeroIsOld
  <2>5. CASE i \in 1 .. Len(replies[m]) /\ replies'[m][i] = replies[m][i]
    <3> DEFINE t == replies[m][i].sock
    <3>1. t \in Sock /\ NodeOf[t] = m /\ UserOf[t] \in User
      BY <2>5, ConstantsAssumption DEF Wire, Awaited
    <3>2. CASE s \in sets[UserOf[t]]
      <4>1. Behind(replies, m, i, s, "sadd")
        BY <2>4, <2>5, <3>2 DEF ZeroIsOld
      <4> QED
        BY <2>1, <4>1, AppendKeepsBehind
    <3>3. CASE s \notin sets[UserOf[t]]
      <4>1. s = q.sock /\ q.cmd = "sadd" /\ UserOf[t] = u
        BY <2>2, <2>4, <2>5, <3>1, <3>3
      <4>2. m = n
        BY <2>3, <3>1, <4>1 DEF Sticky, u
      <4> QED
        BY <2>1, <2>5, <4>1, <4>2, AppendedIsBehind
    <3> QED
      BY <3>2, <3>3
  <2>6. CASE replies'[m][i] = e
    BY <2>1, <2>2, <2>4, <2>6 DEF u
  <2> QED
    BY <2>1, <2>5, <2>6, AppendedFrom
<1>3. ASSUME NEW n \in Node, HandleReply(n) PROVE ZeroIsOld'
  <2>1. ASSUME NEW cmd \in Command, NEW next \in Place, Answered(n, cmd), Resume(n, next)
        PROVE  ZeroIsOld'
    <3>1. Popped(replies, replies', n) /\ sets' = sets
      BY <2>1, AnswerEffect DEF Resume, redisVars
    <3> SUFFICES ASSUME NEW m \in Node, NEW i \in 1 .. Len(replies'[m]),
                        replies'[m][i].cmd = "scard", replies'[m][i].empty,
                        NEW s \in sets[UserOf[replies'[m][i].sock]]
                 PROVE  Behind(replies', m, i, s, "sadd")
      BY <3>1 DEF ZeroIsOld
    <3> DEFINE l == IF m = n THEN i + 1 ELSE i
    <3>2. l \in 1 .. Len(replies[m]) /\ replies'[m][i] = replies[m][l]
      BY <3>1, PoppedFrom
    <3>3. Behind(replies, m, l, s, "sadd")
      BY <3>2 DEF ZeroIsOld
    <3>4. i \in Nat /\ l \in Nat
      BY <3>2
    <3> HIDE DEF l
    <3>5. l = IF m = n THEN i + 1 ELSE i
      BY DEF l
    <3> QED
      BY <3>1, <3>3, <3>4, <3>5, PopKeepsBehind
  <2>2. /\ {"sadd", "hset", "srem", "scard", "hdel"} \subseteq Command
        /\ {"setting", "ready", "counting", "deleting", "gone"} \subseteq Place
    BY DEF Command, Place
  <2> QED
    BY <1>3, <2>1, <2>2 DEF HandleReply, SaddDone, HsetDone, SremDone, ScardDone, HdelDone
<1>4. ASSUME NEW n \in Node, Crash(n) PROVE ZeroIsOld'
  <2>1. /\ replies'[n] = <<>>
        /\ \A m \in Node : m # n => replies'[m] = replies[m]
        /\ sets' = sets
    BY <1>4 DEF Crash, TypeOK, redisVars
  <2>2. 1 .. Len(replies'[n]) = {}
    BY <2>1
  <2> QED
    BY <2>1, <2>2 DEF ZeroIsOld, Behind
<1> QED
  BY <1>1, <1>2, <1>3, <1>4
     DEF Next, Connect, Disconnect, vars, redisVars, wireVars

LEMMA SendIsAppend ==
    ASSUME TypeOK, NEW s \in Sock, NEW cmd \in Command, Send(s, cmd)
    PROVE  \E e : /\ Appended(requests, requests', NodeOf[s], e)
                  /\ e.sock = s /\ e.cmd = cmd
<1> DEFINE d == [sock |-> s, cmd |-> cmd]
<1>1. Appended(requests, requests', NodeOf[s], d) /\ d.sock = s /\ d.cmd = cmd
  BY SendEffect
<1> HIDE DEF d
<1> QED
  BY <1>1

LEMMA HdelIsOvertakenStep ==
    ASSUME Sticky, CountedInv, ZeroIsOld, HdelIsOvertaken, [Next]_vars
    PROVE  HdelIsOvertaken'
<1> USE DEF CountedInv
<1>1. ASSUME NEW s \in Sock, NEW cmd \in Command, Send(s, cmd), cmd # "hdel",
             UNCHANGED <<sets, replies>>
      PROVE  HdelIsOvertaken'
  <2>1. PICK e : Appended(requests, requests', NodeOf[s], e) /\ e.cmd = cmd
    BY <1>1, SendIsAppend
  <2>2. NodeOf[s] \in Node
    BY ConstantsAssumption
  <2> SUFFICES ASSUME NEW m \in Node, NEW i \in 1 .. Len(requests'[m]),
                      requests'[m][i].cmd = "hdel",
                      NEW t \in sets[UserOf[requests'[m][i].sock]]
               PROVE  \/ Behind(replies', m, 0, t, "sadd")
                      \/ Behind(requests', m, i, t, "hset")
    BY <1>1 DEF HdelIsOvertaken
  <2>3. i \in 1 .. Len(requests[m]) /\ requests'[m][i] = requests[m][i]
    BY <1>1, <2>1, <2>2, AppendedFrom
  <2>4. Behind(replies, m, 0, t, "sadd") \/ Behind(requests, m, i, t, "hset")
    BY <2>3 DEF HdelIsOvertaken
  <2> QED
    BY <1>1, <2>1, <2>2, <2>4, AppendKeepsBehind
<1>2. ASSUME NEW s \in Sock, Connect(s) \/ Disconnect(s) PROVE HdelIsOvertaken'
  <2>1. "sadd" \in Command /\ "srem" \in Command
    BY DEF Command
  <2>2. CASE UNCHANGED <<sets, replies, requests>>
    BY <2>2 DEF HdelIsOvertaken, Behind
  <2> QED
    BY <1>1, <1>2, <2>1, <2>2 DEF Connect, Disconnect, redisVars
<1>3. ASSUME NEW n \in Node, RedisExec(n) PROVE HdelIsOvertaken'
  <2> DEFINE q == Head(requests[n])
             u == UserOf[q.sock]
  <2>1. PICK e :
            /\ q \in Request /\ u \in User
            /\ Popped(requests, requests', n)
            /\ Appended(replies, replies', n, e)
            /\ e.sock = q.sock /\ e.cmd = q.cmd
    BY <1>3, ExecEffect
  <2>2. /\ \A v \in User : v # u => sets'[v] = sets[v]
        /\ q.cmd = "sadd" => sets'[u] = sets[u] \cup {q.sock}
        /\ q.cmd = "srem" => sets'[u] = sets[u] \ {q.sock}
        /\ q.cmd \notin {"sadd", "srem"} => sets'[u] = sets[u]
    BY <1>3, SetsEffect
  <2>3. NodeOf[q.sock] = n /\ q.sock \in Sock
    BY <1>3, <2>1, ExecKeepsWire DEF Request
  <2> HIDE DEF q, u
  <2>4. SUFFICES ASSUME NEW m \in Node, NEW i \in 1 .. Len(requests'[m]),
                        requests'[m][i].cmd = "hdel",
                        NEW t \in sets'[UserOf[requests'[m][i].sock]]
                 PROVE  \/ Behind(replies', m, 0, t, "sadd")
                        \/ Behind(requests', m, i, t, "hset")
    BY DEF HdelIsOvertaken
  <2> DEFINE l == IF m = n THEN i + 1 ELSE i
             d == requests[m][l].sock
  <2>5. l \in 1 .. Len(requests[m]) /\ requests'[m][i] = requests[m][l]
    BY <2>1, PoppedFrom
  <2>6. d \in Sock /\ NodeOf[d] = m /\ UserOf[d] \in User
    BY <2>5, ConstantsAssumption DEF Wire, Awaited
  <2>7. CASE t \in sets[UserOf[d]]
    <3>1. Behind(replies, m, 0, t, "sadd") \/ Behind(requests, m, l, t, "hset")
      BY <2>4, <2>5, <2>7 DEF HdelIsOvertaken
    <3>2. CASE Behind(replies, m, 0, t, "sadd")
      BY <2>1, <3>2, AppendKeepsBehind
    <3>3. CASE Behind(requests, m, l, t, "hset")
      BY <2>1, <3>3, PopKeepsBehind
    <3> QED
      BY <3>1, <3>2, <3>3
  <2>8. CASE t \notin sets[UserOf[d]]
    <3>1. t = q.sock /\ q.cmd = "sadd" /\ UserOf[d] = u
      BY <2>2, <2>4, <2>5, <2>6, <2>8
    <3>2. m = n
      BY <2>3, <2>6, <3>1 DEF Sticky, u
    <3> QED
      BY <2>1, <3>1, <3>2, AppendedIsBehind
  <2> QED
    BY <2>7, <2>8
<1>4. ASSUME NEW n \in Node, NEW cmd \in Command, NEW next \in Place,
             Answered(n, cmd), Resume(n, next),
             NEW m \in Node, NEW t, Behind(replies, m, 0, t, "sadd"),
             cmd # "sadd" \/ t # Head(replies[n]).sock \/ m # n
      PROVE  Behind(replies', m, 0, t, "sadd")
  <2>1. /\ Popped(replies, replies', n)
        /\ Head(replies[n]) = replies[n][1] /\ replies[n][1].cmd = cmd
    BY <1>4, AnswerEffect
  <2>2. CASE m = n
    <3>1. Behind(replies, n, 1, t, "sadd")
      BY <1>4, <2>1, <2>2 DEF Behind
    <3> QED
      BY <2>1, <2>2, <3>1, PopKeepsBehind
  <2>3. CASE m # n
    BY <1>4, <2>1, <2>3 DEF Popped, Behind
  <2> QED
    BY <2>2, <2>3
\* A handler that goes on to a command other than hset and hdel, or to none.
<1>5. ASSUME NEW n \in Node, NEW cmd \in Command, NEW next \in Place,
             Answered(n, cmd), Resume(n, next), cmd # "sadd",
             \/ UNCHANGED requests
             \/ \E c \in Command : c # "hdel" /\ Send(Head(replies[n]).sock, c)
      PROVE  HdelIsOvertaken'
  <2> DEFINE s == Head(replies[n]).sock
  <2>1. sets' = sets /\ s \in Sock /\ NodeOf[s] \in Node
    BY <1>5, AnswerEffect, ConstantsAssumption DEF Resume, redisVars
  <2> HIDE DEF s
  <2> SUFFICES ASSUME NEW m \in Node, NEW i \in 1 .. Len(requests'[m]),
                      requests'[m][i].cmd = "hdel",
                      NEW t \in sets[UserOf[requests'[m][i].sock]]
               PROVE  \/ Behind(replies', m, 0, t, "sadd")
                      \/ Behind(requests', m, i, t, "hset")
    BY <2>1 DEF HdelIsOvertaken
  <2>2. /\ i \in 1 .. Len(requests[m]) /\ requests'[m][i] = requests[m][i]
        /\ Behind(requests, m, i, t, "hset") => Behind(requests', m, i, t, "hset")
    <3>1. CASE UNCHANGED requests
      BY <3>1
    <3>2. ASSUME NEW c \in Command, c # "hdel", Send(s, c)
          PROVE  /\ i \in 1 .. Len(requests[m]) /\ requests'[m][i] = requests[m][i]
                 /\ Behind(requests, m, i, t, "hset") => Behind(requests', m, i, t, "hset")
      <4>1. PICK e : Appended(requests, requests', NodeOf[s], e) /\ e.cmd = c
        BY <2>1, <3>2, SendIsAppend
      <4>2. i \in 1 .. Len(requests[m]) /\ requests'[m][i] = requests[m][i]
        BY <2>1, <3>2, <4>1, AppendedFrom
      <4>3. Behind(requests, m, i, t, "hset") => Behind(requests', m, i, t, "hset")
        BY <2>1, <4>1, AppendKeepsBehind
      <4> QED
        BY <4>2, <4>3
    <3> QED
      BY <1>5, <3>1, <3>2 DEF s
  <2>3. Behind(replies, m, 0, t, "sadd") \/ Behind(requests, m, i, t, "hset")
    BY <2>2 DEF HdelIsOvertaken
  <2> QED
    BY <1>4, <1>5, <2>2, <2>3
\* The sadd reply taken off the wire is followed by hset, behind every hdel.
<1>8. ASSUME NEW n \in Node, SaddDone(n) PROVE HdelIsOvertaken'
  <2> DEFINE s == Head(replies[n]).sock
  <2>1. "sadd" \in Command /\ "hset" \in Command /\ "setting" \in Place
    BY DEF Command, Place
  <2>2. Answered(n, "sadd") /\ Resume(n, "setting") /\ Send(s, "hset")
    BY <1>8 DEF SaddDone
  <2>3. sets' = sets /\ s \in Sock /\ NodeOf[s] = n
    BY <2>1, <2>2, AnswerEffect, AnswerKeepsWire DEF Resume, redisVars
  <2> HIDE DEF s
  <2>4. PICK e : /\ Appended(requests, requests', n, e)
                 /\ e.sock = s /\ e.cmd = "hset"
    BY <2>1, <2>2, <2>3, SendIsAppend
  <2> SUFFICES ASSUME NEW m \in Node, NEW i \in 1 .. Len(requests'[m]),
                      requests'[m][i].cmd = "hdel",
                      NEW t \in sets[UserOf[requests'[m][i].sock]]
               PROVE  \/ Behind(replies', m, 0, t, "sadd")
                      \/ Behind(requests', m, i, t, "hset")
    BY <2>3 DEF HdelIsOvertaken
  <2>5. i \in 1 .. Len(requests[m]) /\ requests'[m][i] = requests[m][i]
    BY <2>4, AppendedFrom
  <2>6. CASE Behind(requests, m, i, t, "hset")
    BY <2>4, <2>6, AppendKeepsBehind
  <2>7. CASE Behind(replies, m, 0, t, "sadd") /\ t = s /\ m = n
    BY <2>4, <2>5, <2>7, AppendedIsBehind
  <2>8. CASE Behind(replies, m, 0, t, "sadd") /\ ~(t = s /\ m = n)
    BY <1>4, <2>1, <2>2, <2>8 DEF s
  <2> QED
    BY <2>5, <2>6, <2>7, <2>8 DEF HdelIsOvertaken
\* A count of zero is followed by hdel: who is in the set by now was added
\* behind the count.
<1>9. ASSUME NEW n \in Node, ScardDone(n), Head(replies[n]).empty PROVE HdelIsOvertaken'
  <2> DEFINE s == Head(replies[n]).sock
  <2>1. "scard" \in Command /\ "hdel" \in Command /\ "deleting" \in Place
    BY DEF Command, Place
  <2>2. Answered(n, "scard") /\ Resume(n, "deleting") /\ Send(s, "hdel")
    BY <1>9 DEF ScardDone
  <2>3. /\ sets' = sets /\ s \in Sock /\ NodeOf[s] = n
        /\ Popped(replies, replies', n)
        /\ s = replies[n][1].sock /\ replies[n][1].cmd = "scard" /\ replies[n][1].empty
    <3>1. /\ s \in Sock /\ Popped(replies, replies', n)
          /\ Head(replies[n]) = replies[n][1] /\ replies[n][1].cmd = "scard"
      BY <2>1, <2>2, AnswerEffect
    <3>2. NodeOf[s] = n
      BY <2>1, <2>2, AnswerKeepsWire
    <3>3. sets' = sets
      BY <2>2 DEF Resume, redisVars
    <3> QED
      BY <1>9, <3>1, <3>2, <3>3
  <2> HIDE DEF s
  <2>4. PICK e : /\ Appended(requests, requests', n, e)
                 /\ e.sock = s /\ e.cmd = "hdel"
    BY <2>1, <2>2, <2>3, SendIsAppend
  <2> SUFFICES ASSUME NEW m \in Node, NEW i \in 1 .. Len(requests'[m]),
                      requests'[m][i].cmd = "hdel",
                      NEW t \in sets[UserOf[requests'[m][i].sock]]
               PROVE  \/ Behind(replies', m, 0, t, "sadd")
                      \/ Behind(requests', m, i, t, "hset")
    BY <2>3 DEF HdelIsOvertaken
  <2>5. CASE i \in 1 .. Len(requests[m]) /\ requests'[m][i] = requests[m][i]
    <3>1. Behind(replies, m, 0, t, "sadd") \/ Behind(requests, m, i, t, "hset")
      BY <2>5 DEF HdelIsOvertaken
    <3>2. CASE Behind(requests, m, i, t, "hset")
      BY <2>4, <3>2, AppendKeepsBehind
    <3>3. CASE Behind(replies, m, 0, t, "sadd")
      BY <1>4, <2>1, <2>2, <3>3
    <3> QED
      BY <3>1, <3>2, <3>3
  <2>6. CASE m = n /\ requests'[m][i] = e
    <3>1. 1 \in 1 .. Len(replies[n])
      BY <2>3 DEF Popped
    <3>2. Behind(replies, n, 1, t, "sadd")
      BY <2>3, <2>4, <2>6, <3>1 DEF ZeroIsOld
    <3> QED
      BY <2>3, <2>6, <3>2, PopKeepsBehind
  <2> QED
    BY <2>4, <2>5, <2>6, AppendedFrom
<1>10. ASSUME NEW n \in Node, HandleReply(n) PROVE HdelIsOvertaken'
  <2>1. /\ {"sadd", "hset", "srem", "scard", "hdel"} \subseteq Command
        /\ {"setting", "ready", "counting", "deleting", "gone"} \subseteq Place
    BY DEF Command, Place
  <2>2. CASE HsetDone(n) \/ HdelDone(n)
    BY <1>5, <2>1, <2>2 DEF HsetDone, HdelDone
  <2>3. CASE SremDone(n)
    BY <1>5, <2>1, <2>3 DEF SremDone
  <2>4. CASE ScardDone(n) /\ ~Head(replies[n]).empty
    BY <1>5, <2>1, <2>4 DEF ScardDone
  <2> QED
    BY <1>8, <1>9, <1>10, <2>2, <2>3, <2>4 DEF HandleReply
<1>6. ASSUME NEW n \in Node, Crash(n) PROVE HdelIsOvertaken'
  <2>1. /\ requests'[n] = <<>>
        /\ \A m \in Node : m # n => replies'[m] = replies[m] /\ requests'[m] = requests[m]
        /\ sets' = sets
    BY <1>6 DEF Crash, TypeOK, redisVars
  <2>2. 1 .. Len(requests'[n]) = {}
    BY <2>1
  <2> SUFFICES ASSUME NEW m \in Node, NEW i \in 1 .. Len(requests'[m]),
                      requests'[m][i].cmd = "hdel",
                      NEW t \in sets[UserOf[requests'[m][i].sock]]
               PROVE  \/ Behind(replies', m, 0, t, "sadd")
                      \/ Behind(requests', m, i, t, "hset")
    BY <2>1 DEF HdelIsOvertaken
  <2>3. m # n
    BY <2>2
  <2>4. Behind(replies, m, 0, t, "sadd") \/ Behind(requests, m, i, t, "hset")
    BY <2>1, <2>3 DEF HdelIsOvertaken
  <2> QED
    BY <2>1, <2>3, <2>4 DEF Behind
<1>7. CASE UNCHANGED vars
  <2>1. UNCHANGED <<sets, requests, replies>>
    BY <1>7 DEF vars, redisVars, wireVars
  <2> QED
    BY <2>1 DEF HdelIsOvertaken, Behind
<1> QED
  BY <1>2, <1>3, <1>6, <1>7, <1>10 DEF Next

LEMMA PresenceInit == Init => PresenceInv
<1> SUFFICES ASSUME Init PROVE PresenceInv
  OBVIOUS
<1>1. CountedInv
  BY CountedInit
<1>2. \A n \in Node : 1 .. Len(requests[n]) = {} /\ 1 .. Len(replies[n]) = {}
  BY DEF Init
<1>3. \A s \in Sock : pc[s] = "new"
  BY DEF Init
<1> QED
  BY <1>1, <1>2, <1>3 DEF PresenceInv, Online, ZeroIsOld, HdelIsOvertaken

LEMMA PresenceStep ==
    ASSUME Sticky, PresenceInv, [Next]_vars
    PROVE  PresenceInv'
  BY CountedInvStep, OnlineStep, ZeroIsOldStep, HdelIsOvertakenStep DEF PresenceInv

LEMMA PresenceInvariance == Sticky /\ Spec => []PresenceInv
<1> SUFFICES ASSUME Sticky PROVE Spec => []PresenceInv
  OBVIOUS
<1>1. PresenceInv /\ [Next]_vars => PresenceInv'
  BY PresenceStep
<1> QED
  BY <1>1, PresenceInit, PTL DEF Spec

\* As long as the sockets of a user share a process, a user with a served
\* socket is found online by call:invite, through every interleaving of the
\* connection and disconnect handlers and every crash.
THEOREM SingleProcessPresence == Sticky /\ Spec => []NoFalseOffline
<1>1. PresenceInv => NoFalseOffline
  BY DEF PresenceInv, CountedInv, TypeOK, Online, NoFalseOffline, Served
<1> QED
  BY <1>1, PresenceInvariance, PTL

\* Every step of the service is one the promise allows or none it sees; hdel
\* is its GoOffline: no socket of the user is served when it is executed.
LEMMA StepKeepsPromise ==
    ASSUME PresenceInv, PresenceInv', [Next]_vars
    PROVE  [Promise!Next]_(Promise!vars)
<1>1. TypeOK /\ Wire /\ Online /\ Online'
  BY DEF PresenceInv, CountedInv
<1>2. ASSUME NEW s \in Sock, Connect(s) PROVE UNCHANGED <<Served, hash>>
  <2>1. /\ pc[s] # "ready" /\ pc'[s] # "ready" /\ \A t \in Sock : t # s => pc'[t] = pc[t]
        /\ connected' = connected \cup {s} /\ connected \subseteq Sock
    BY <1>1, <1>2 DEF Connect, TypeOK
  <2>2. Served' = Served
    BY <2>1 DEF Served
  <2> QED
    BY <1>2, <2>2 DEF Connect, redisVars
<1>3. ASSUME NEW s \in Sock, Disconnect(s) PROVE Promise!Unserve(s)
  <2>1. /\ \A t \in Sock : t # s => pc'[t] = pc[t]
        /\ connected' = connected \ {s} /\ connected \subseteq Sock
    BY <1>1, <1>3 DEF Disconnect, TypeOK
  <2>2. Served' = Served \ {s}
    BY <2>1 DEF Served
  <2> QED
    BY <1>3, <2>2 DEF Disconnect, redisVars, Promise!Unserve
<1>4. ASSUME NEW n \in Node, RedisExec(n)
      PROVE  \/ UNCHANGED <<Served, hash>>
             \/ \E u \in User : Promise!GoOnline(u) \/ Promise!GoOffline(u)
  <2> DEFINE q == Head(requests[n])
             u == UserOf[q.sock]
  <2>1. u \in User
    BY <1>1, <1>4, ExecEffect
  <2>2. Served' = Served
    BY <1>4 DEF RedisExec, socketVars, Served
  <2>3. hash' = HashAfter(q.sock, q.cmd)
    BY <1>4 DEF RedisExec
  <2>4. CASE q.cmd = "hset"
    BY <2>1, <2>2, <2>3, <2>4 DEF HashAfter, Promise!GoOnline
  <2>5. CASE q.cmd = "hdel"
    <3>1. hash' = hash \ {u}
      BY <2>3, <2>5 DEF HashAfter
    <3>2. \A s \in Served' : UserOf[s] \in hash'
      <4>1. connected' \subseteq Sock
        BY DEF PresenceInv, CountedInv, TypeOK
      <4> QED
        BY <1>1, <4>1 DEF Online, Served
    <3>3. \A s \in Served : UserOf[s] # u
      BY <2>2, <3>1, <3>2
    <3> QED
      BY <2>1, <2>2, <3>1, <3>3 DEF Promise!GoOffline
  <2>6. CASE q.cmd \notin {"hset", "hdel"}
    BY <2>2, <2>3, <2>6 DEF HashAfter
  <2> QED
    BY <2>4, <2>5, <2>6
<1>5. ASSUME NEW n \in Node, HandleReply(n)
      PROVE  UNCHANGED <<Served, hash>> \/ \E s \in Sock : Promise!Serve(s)
  <2>1. ASSUME NEW cmd \in Command, NEW next \in Place, Answered(n, cmd), Resume(n, next)
        PROVE  LET s == Head(replies[n]).sock
               IN  /\ s \in Sock
                   /\ pc[s] # "ready" /\ pc'[s] = next
                   /\ Moved(pc, pc', s)
                   /\ cmd = "hset" => UserOf[s] \in hash
                   /\ connected' = connected /\ connected \subseteq Sock
                   /\ hash' = hash
    <3> DEFINE s == Head(replies[n]).sock
    <3>1. /\ Popped(replies, replies', n)
          /\ s = replies[n][1].sock /\ replies[n][1].cmd = cmd
          /\ s \in Sock /\ pc'[s] = next /\ Moved(pc, pc', s)
      BY <1>1, <2>1, AnswerEffect
    <3>2. pc[s] # "ready"
      BY <1>1, <2>1, AnswerKeepsWire DEF AwaitedAt, Command
    <3>3. 1 \in 1 .. Len(replies[n])
      BY <3>1 DEF Popped
    <3>4. cmd = "hset" => UserOf[s] \in hash
      BY <1>1, <3>1, <3>3 DEF Online
    <3>5. connected' = connected /\ connected \subseteq Sock /\ hash' = hash
      BY <1>1, <2>1 DEF Resume, redisVars, TypeOK
    <3> QED
      BY <3>1, <3>2, <3>4, <3>5
  <2>2. ASSUME NEW cmd \in Command, NEW next \in Place, Answered(n, cmd), Resume(n, next),
               next # "ready"
        PROVE  UNCHANGED <<Served, hash>>
    BY <2>1, <2>2 DEF Served, Moved
  <2>3. ASSUME HsetDone(n)
        PROVE  UNCHANGED <<Served, hash>> \/ \E s \in Sock : Promise!Serve(s)
    <3> DEFINE s == Head(replies[n]).sock
    <3>1. /\ s \in Sock /\ pc[s] # "ready" /\ pc'[s] = "ready" /\ Moved(pc, pc', s)
          /\ UserOf[s] \in hash
          /\ connected' = connected /\ connected \subseteq Sock
          /\ hash' = hash
      <4>1. "hset" \in Command /\ "ready" \in Place
        BY DEF Command, Place
      <4> QED
        BY <2>1, <2>3, <4>1 DEF HsetDone
    <3> HIDE DEF s
    <3>2. CASE s \in connected
      <4>1. Served' = Served \cup {s}
        BY <3>1, <3>2 DEF Served, Moved
      <4> QED
        BY <3>1, <4>1 DEF Promise!Serve
    <3>3. CASE s \notin connected
      BY <3>1, <3>3 DEF Served, Moved
    <3> QED
      BY <3>2, <3>3
  <2>4. /\ {"sadd", "hset", "srem", "scard", "hdel"} \subseteq Command
        /\ {"setting", "counting", "deleting", "gone"} \subseteq Place
        /\ "ready" \notin {"setting", "counting", "deleting", "gone"}
    BY DEF Command, Place
  <2> QED
    BY <1>5, <2>2, <2>3, <2>4 DEF HandleReply, SaddDone, SremDone, ScardDone, HdelDone
<1>6. ASSUME NEW n \in Node, Crash(n)
      PROVE  \E S \in SUBSET Sock : Promise!Stop(S)
  <2> DEFINE S == {s \in Sock : NodeOf[s] = n /\ pc[s] \notin {"new", "gone"}}
  <2>1. /\ pc' = [s \in Sock |-> IF s \in S THEN "gone" ELSE pc[s]]
        /\ connected' = connected \ S /\ connected \subseteq Sock
        /\ hash' = hash
    BY <1>1, <1>6 DEF Crash, redisVars, TypeOK
  <2>2. S \in SUBSET Sock
    OBVIOUS
  <2> HIDE DEF S
  <2>3. Served' = Served \ S
    BY <2>1 DEF Served
  <2> QED
    BY <2>1, <2>2, <2>3 DEF Promise!Stop
<1>7. CASE UNCHANGED vars
  BY <1>7 DEF vars, redisVars, socketVars, Served, Promise!vars
<1> QED
  BY <1>2, <1>3, <1>4, <1>5, <1>6, <1>7 DEF Next, Promise!Next, Promise!vars

\* ... and the service implements the promise made to call:invite.
THEOREM PresenceImplemented == Sticky /\ Spec => ImplementsPresence
<1> SUFFICES ASSUME Sticky PROVE Spec => ImplementsPresence
  OBVIOUS
<1>1. Init => Promise!Init
  BY DEF Init, Promise!Init, Served
<1>2. PresenceInv /\ PresenceInv' /\ [Next]_vars => [Promise!Next]_(Promise!vars)
  BY StepKeepsPromise
<1> QED
  BY <1>1, <1>2, PresenceInvariance, PTL DEF Spec, ImplementsPresence, Promise!Spec

-----------------------------------------------------------------------------
(* Whoever empties a set takes the user offline, wherever sockets connect *)

\* A count or an hdel of u is to be executed, or the handler of an executed
\* srem or of a count of zero is to send it.
DeletionUnderWay(u) ==
    \E n \in Node :
        \/ \E k \in 1 .. Len(requests[n]) :
              /\ UserOf[requests[n][k].sock] = u
              /\ requests[n][k].cmd \in {"scard", "hdel"}
        \/ \E k \in 1 .. Len(replies[n]) :
              /\ UserOf[replies[n][k].sock] = u
              /\ \/ replies[n][k].cmd = "srem"
                 \/ replies[n][k].cmd = "scard" /\ replies[n][k].empty

Backed ==
    ~crashed => \A u \in hash : sets[u] # {} \/ DeletionUnderWay(u)

LEMMA BackedStep ==
    ASSUME CountedInv, Backed, [Next]_vars
    PROVE  Backed'
<1> USE DEF CountedInv
<1>1. ASSUME NEW s \in Sock, Connect(s) \/ Disconnect(s) PROVE Backed'
  <2>1. UNCHANGED <<sets, hash, replies, crashed>>
    BY <1>1 DEF Connect, Disconnect, redisVars
  <2>2. \A n \in Node : \A k \in 1 .. Len(requests[n]) :
            k \in 1 .. Len(requests'[n]) /\ requests'[n][k] = requests[n][k]
    <3>1. CASE UNCHANGED requests
      BY <3>1
    <3>2. ASSUME NEW c \in Command, Send(s, c)
          PROVE  \A n \in Node : \A k \in 1 .. Len(requests[n]) :
                     k \in 1 .. Len(requests'[n]) /\ requests'[n][k] = requests[n][k]
      BY <3>2, SendIsAppend DEF Appended
    <3>3. "sadd" \in Command /\ "srem" \in Command
      BY DEF Command
    <3> QED
      BY <1>1, <3>1, <3>2, <3>3 DEF Connect, Disconnect
  <2>3. \A u : DeletionUnderWay(u) => DeletionUnderWay(u)'
    BY <2>1, <2>2 DEF DeletionUnderWay
  <2> QED
    BY <2>1, <2>3 DEF Backed
<1>2. ASSUME NEW n \in Node, RedisExec(n) PROVE Backed'
  <2>q. PICK q : q = Head(requests[n])
    OBVIOUS
  <2>w. PICK w : w = UserOf[q.sock]
    OBVIOUS
  <2>1. PICK e :
            /\ q = requests[n][1] /\ q \in Request /\ w \in User
            /\ Popped(requests, requests', n)
            /\ Appended(replies, replies', n, e)
            /\ e.sock = q.sock /\ e.cmd = q.cmd
            /\ e.empty <=> q.cmd = "scard" /\ sets[w] = {}
    BY <1>2, <2>q, <2>w, ExecEffect
  <2>2. /\ \A v \in User : v # w => sets'[v] = sets[v]
        /\ q.cmd = "sadd" => sets'[w] = sets[w] \cup {q.sock}
        /\ q.cmd = "srem" => sets'[w] = sets[w] \ {q.sock}
        /\ q.cmd \notin {"sadd", "srem"} => sets'[w] = sets[w]
    BY <1>2, <2>q, <2>w, SetsEffect
  <2>3. q.cmd = "hset" => q.sock \in sets[w]
    BY <1>2, <2>q, <2>w, <2>1, ExecKeepsWire DEF Counted, AwaitedAt, Request
  <2>4. /\ hash' = HashAfter(q.sock, q.cmd)
        /\ crashed' = crashed /\ hash \subseteq User
    BY <1>2, <2>q DEF RedisExec, TypeOK
  <2>5. e.cmd = "srem" \/ (e.cmd = "scard" /\ e.empty) => DeletionUnderWay(w)'
    <3>1. PICK k \in 1 .. Len(replies'[n]) : replies'[n][k] = e
      BY <2>1 DEF Appended
    <3> QED
      BY <2>w, <2>1, <3>1 DEF DeletionUnderWay
  <2>6. ASSUME NEW u \in hash', ~crashed, u # w
        PROVE  sets'[u] # {} \/ DeletionUnderWay(u)'
    <3>1. u \in hash /\ u \in User
      BY <2>w, <2>4, <2>6 DEF HashAfter
    <3>2. CASE sets[u] # {}
      BY <2>2, <2>6, <3>1, <3>2
    <3>3. ASSUME NEW m \in Node, NEW k \in 1 .. Len(requests[m]),
                 UserOf[requests[m][k].sock] = u, requests[m][k].cmd \in {"scard", "hdel"}
          PROVE  DeletionUnderWay(u)'
      <4>1. CASE m = n
        <5>1. k # 1
          BY <2>w, <2>1, <2>6, <3>3, <4>1
        <5>2. k - 1 \in 1 .. Len(requests'[n]) /\ (k - 1) + 1 = k
          BY <2>1, <4>1, <5>1 DEF Popped
        <5>3. requests'[n][k - 1] = requests[n][k]
          BY <2>1, <5>2 DEF Popped
        <5> QED
          BY <3>3, <4>1, <5>2, <5>3 DEF DeletionUnderWay
      <4>2. CASE m # n
        <5>1. requests'[m] = requests[m]
          BY <2>1, <4>2 DEF Popped
        <5> QED
          BY <3>3, <5>1 DEF DeletionUnderWay
      <4> QED
        BY <4>1, <4>2
    <3>4. ASSUME NEW m \in Node, NEW k \in 1 .. Len(replies[m]),
                 UserOf[replies[m][k].sock] = u,
                 replies[m][k].cmd = "srem" \/ (replies[m][k].cmd = "scard" /\ replies[m][k].empty)
          PROVE  DeletionUnderWay(u)'
      <4>1. k \in 1 .. Len(replies'[m]) /\ replies'[m][k] = replies[m][k]
        BY <2>1 DEF Appended
      <4> QED
        BY <3>4, <4>1 DEF DeletionUnderWay
    <3> QED
      BY <2>6, <3>1, <3>2, <3>3, <3>4 DEF Backed, DeletionUnderWay
  <2>7. ASSUME w \in hash', ~crashed
        PROVE  sets'[w] # {} \/ DeletionUnderWay(w)'
    <3>1. q.cmd # "hdel"
      BY <2>w, <2>4, <2>7 DEF HashAfter
    <3>2. CASE q.cmd \in {"sadd", "hset"}
      BY <2>2, <2>3, <3>2
    <3>3. CASE q.cmd = "srem"
      BY <2>1, <2>5, <3>3
    <3>4. CASE q.cmd = "scard"
      BY <2>1, <2>2, <2>5, <3>4
    <3> QED
      BY <2>1, <3>1, <3>2, <3>3, <3>4 DEF Request, Command
  <2> SUFFICES ASSUME ~crashed, NEW u \in hash'
               PROVE  sets'[u] # {} \/ DeletionUnderWay(u)'
    BY <2>4 DEF Backed
  <2>8. CASE u = w
    BY <2>7, <2>8
  <2>9. CASE u # w
    BY <2>6, <2>9
  <2> QED
    BY <2>8, <2>9
<1>3. ASSUME NEW n \in Node, HandleReply(n) PROVE Backed'
  <2> DEFINE r == Head(replies[n])
  <2>1. ASSUME NEW cmd \in Command, NEW next \in Place, Answered(n, cmd), Resume(n, next),
               UNCHANGED requests \/ \E c \in Command : Send(r.sock, c),
               cmd = "srem" \/ (cmd = "scard" /\ r.empty) =>
                   \E c \in {"scard", "hdel"} : Send(r.sock, c)
        PROVE  Backed'
    <3>1. /\ r = replies[n][1] /\ r.cmd = cmd /\ r.sock \in Sock
          /\ Popped(replies, replies', n)
      BY <2>1, AnswerEffect
    <3>2. NodeOf[r.sock] \in Node
      BY <3>1, ConstantsAssumption
    <3>3. UNCHANGED <<sets, hash, crashed>>
      BY <2>1 DEF Resume, redisVars
    <3> HIDE DEF r
    <3>4. \A m \in Node : \A k \in 1 .. Len(requests[m]) :
            k \in 1 .. Len(requests'[m]) /\ requests'[m][k] = requests[m][k]
      <4>1. CASE UNCHANGED requests
        BY <4>1
      <4>2. ASSUME NEW c \in Command, Send(r.sock, c)
            PROVE  \A m \in Node : \A k \in 1 .. Len(requests[m]) :
                       k \in 1 .. Len(requests'[m]) /\ requests'[m][k] = requests[m][k]
        BY <3>1, <4>2, SendIsAppend DEF Appended
      <4> QED
        BY <2>1, <4>1, <4>2
    <3>5. ASSUME NEW u, ~DeletionUnderWay(u)'
          PROVE  ~DeletionUnderWay(u)
      <4>1. ASSUME NEW m \in Node, NEW k \in 1 .. Len(replies[m]),
                   UserOf[replies[m][k].sock] = u,
                   replies[m][k].cmd = "srem" \/ (replies[m][k].cmd = "scard" /\ replies[m][k].empty)
            PROVE  FALSE
        <5>1. CASE m = n /\ k = 1
          <6>1. PICK c \in {"scard", "hdel"} : Send(r.sock, c)
            BY <2>1, <3>1, <4>1, <5>1
          <6>2. c \in Command
            BY DEF Command
          <6>3. PICK e : /\ Appended(requests, requests', NodeOf[r.sock], e)
                         /\ e.sock = r.sock /\ e.cmd = c
            BY <3>1, <6>1, <6>2, SendIsAppend
          <6> DEFINE L == Len(requests[NodeOf[r.sock]]) + 1
          <6>4. L \in 1 .. Len(requests'[NodeOf[r.sock]]) /\ requests'[NodeOf[r.sock]][L] = e
            BY <6>3 DEF Appended
          <6> QED
            BY <3>1, <3>2, <3>5, <4>1, <5>1, <6>3, <6>4 DEF DeletionUnderWay
        <5>2. CASE m = n /\ k # 1
          <6>1. k - 1 \in 1 .. Len(replies'[n]) /\ (k - 1) + 1 = k
            BY <3>1, <5>2 DEF Popped
          <6>2. replies'[n][k - 1] = replies[n][k]
            BY <3>1, <6>1 DEF Popped
          <6> QED
            BY <3>5, <4>1, <5>2, <6>1, <6>2 DEF DeletionUnderWay
        <5>3. CASE m # n
          <6>1. replies'[m] = replies[m]
            BY <3>1, <5>3 DEF Popped
          <6> QED
            BY <3>5, <4>1, <6>1 DEF DeletionUnderWay
        <5> QED
          BY <5>1, <5>2, <5>3
      <4>2. ASSUME NEW m \in Node, NEW k \in 1 .. Len(requests[m]),
                   UserOf[requests[m][k].sock] = u, requests[m][k].cmd \in {"scard", "hdel"}
            PROVE  FALSE
        BY <3>4, <3>5, <4>2 DEF DeletionUnderWay
      <4> QED
        BY <4>1, <4>2 DEF DeletionUnderWay
    <3> QED
      BY <3>3, <3>5 DEF Backed
  <2>2. /\ {"sadd", "hset", "srem", "scard", "hdel"} \subseteq Command
        /\ {"setting", "ready", "counting", "deleting", "gone"} \subseteq Place
    BY DEF Command, Place
  <2>3. CASE SaddDone(n)
    BY <2>1, <2>2, <2>3 DEF SaddDone
  <2>4. CASE HsetDone(n) \/ HdelDone(n)
    BY <2>1, <2>2, <2>4 DEF HsetDone, HdelDone
  <2>5. CASE SremDone(n)
    BY <2>1, <2>2, <2>5 DEF SremDone
  <2>6. CASE ScardDone(n)
    BY <2>1, <2>2, <2>6 DEF ScardDone
  <2> QED
    BY <1>3, <2>3, <2>4, <2>5, <2>6 DEF HandleReply
<1>4. ASSUME NEW n \in Node, Crash(n) PROVE Backed'
  BY <1>4 DEF Crash, Backed
<1>5. CASE UNCHANGED vars
  <2>1. UNCHANGED <<sets, hash, requests, replies, crashed>>
    BY <1>5 DEF vars, redisVars, wireVars
  <2> QED
    BY <2>1 DEF Backed, DeletionUnderWay
<1> QED
  BY <1>1, <1>2, <1>3, <1>4, <1>5 DEF Next

\* Short of a crash nobody stays online behind an empty set: the departure that
\* emptied it is still under way, for any processes.
THEOREM NobodyForgotten == Spec => []OnlineIsBacked
<1>1. Init => Backed
  BY DEF Init, Backed
<1>2. CountedInv /\ Backed /\ [Next]_vars => Backed'
  BY BackedStep
<1>3. CountedInv /\ Backed => OnlineIsBacked
  <2> SUFFICES ASSUME CountedInv, ~crashed, NEW u \in hash, DeletionUnderWay(u)
               PROVE  Departing(u) # {}
    BY DEF Backed, OnlineIsBacked
  <2>1. PICK s \in Sock : UserOf[s] = u /\ pc[s] \in {"removing", "counting", "deleting"}
    BY DEF CountedInv, Wire, Awaited, AwaitedAt, DeletionUnderWay
  <2> QED
    BY <2>1 DEF Departing
<1> QED
  BY <1>1, <1>2, <1>3, CountedInit, CountedInvStep, PTL DEF Spec

=============================================================================
