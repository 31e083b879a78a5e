-------------------------- MODULE NegotiationProofs --------------------------
(***************************************************************************)
(* Theorems about Negotiation, for any bounds on the offers, connections     *)
(* and reconnections of the two peers: the types, that _makingOffer is set   *)
(* only while an offer is being made, what offers that do not meet come to   *)
(* (a negotiation goes through the stages of CalmInv, and so implements      *)
(* OfferAnswer), what becomes of early candidates, and that nobody waits      *)
(* in vain, whatever meets (LifeInv says where an offer is, WaitInv what     *)
(* ends a wait).                                                            *)
(***************************************************************************)
EXTENDS Negotiation, FiniteSetTheorems, TLAPS

Queues == [Peer -> [Index -> Seq(Op)]]
OpName == {"createOffer", "setOffer", "rollback", "setRemoteOffer",
           "createAnswer", "setAnswer", "setRemoteAnswer"}

\* The call has another peer.
LEMMA OtherPeer == ASSUME NEW p \in Peer PROVE Other(p) \in Peer /\ Other(p) # p
<1>1. \E q \in Peer : q # p
  <2> SUFFICES ASSUME \A q \in Peer : q = p PROVE FALSE
    OBVIOUS
  <2>1. Peer = {p}
    OBVIOUS
  <2>2. Cardinality({p}) = 1
    BY FS_Singleton
  <2> QED
    BY <2>1, <2>2, ConstantsAssumption
<1> QED
  BY <1>1 DEF Other

-----------------------------------------------------------------------------
(* What a step does to the operations of a connection *)

\* An operation of an offer is requested of a connection of q.
OfferRequested(q) ==
    \E i \in Index : \E k \in DOMAIN ops[q][i] :
        ops[q][i][k].op \in {"createOffer", "setOffer"}

LEMMA RequestEffect ==
  ASSUME ops \in Queues, NEW p \in Peer, NEW i \in Index, NEW op \in OpName,
         NEW n \in Number, Request(p, i, op, n)
  PROVE  /\ ops' \in Queues
         /\ \A q \in Peer : OfferRequested(q) => OfferRequested(q)'
         /\ op = "createOffer" => OfferRequested(p)'
<1> DEFINE o == [op |-> op, n |-> n]
<1>1. o \in Op
  BY DEF Op, OpName
<1>2. ops[p][i] \in Seq(Op)
  BY DEF Queues
<1>3. Append(ops[p][i], o) \in Seq(Op)
  BY <1>1, <1>2
<1>4. ops' = [ops EXCEPT ![p][i] = Append(ops[p][i], o)]
  BY DEF Request
<1>5. ops' \in Queues
  BY <1>3, <1>4 DEF Queues
<1>6. /\ ops'[p][i] = Append(ops[p][i], o)
      /\ \A q \in Peer, j \in Index : q # p \/ j # i => ops'[q][j] = ops[q][j]
  BY <1>4 DEF Queues
<1>7. ASSUME NEW q \in Peer, OfferRequested(q) PROVE OfferRequested(q)'
  <2>0. PICK j \in Index :
            \E k \in DOMAIN ops[q][j] : ops[q][j][k].op \in {"createOffer", "setOffer"}
    BY <1>7 DEF OfferRequested
  <2>1. PICK k \in DOMAIN ops[q][j] : ops[q][j][k].op \in {"createOffer", "setOffer"}
    BY <2>0
  <2>2. CASE q = p /\ j = i
    <3>1. k \in DOMAIN ops'[p][i] /\ ops'[p][i][k] = ops[p][i][k]
      BY <1>2, <1>6, <1>1, <2>1, <2>2
    <3> QED
      BY <2>1, <2>2, <3>1 DEF OfferRequested, Index
  <2>3. CASE q # p \/ j # i
    <3>1. ops'[q][j] = ops[q][j]
      BY <1>6, <2>3
    <3> QED
      BY <2>1, <3>1 DEF OfferRequested, Index
  <2> QED
    BY <2>2, <2>3
<1>8. ASSUME op = "createOffer" PROVE OfferRequested(p)'
  <2> DEFINE k == Len(ops[p][i]) + 1
  <2>1. k \in DOMAIN ops'[p][i] /\ ops'[p][i][k] = o
    BY <1>1, <1>2, <1>6
  <2> QED
    BY <2>1, <1>8 DEF OfferRequested, Index
<1> QED
  BY <1>5, <1>7, <1>8

\* The oldest operation of a connection is well typed.
LEMMA RunningTyped ==
  ASSUME ops \in Queues, NEW p \in Peer, NEW i \in Index, NEW op, Running(p, i, op)
  PROVE  /\ ops[p][i] \in Seq(Op) /\ ops[p][i] # <<>>
         /\ Arg(p, i) \in Number /\ ops[p][i][1].op = op
<1>1. ops[p][i] \in Seq(Op) /\ ops[p][i] # <<>>
  BY DEF Queues, Running
<1>2. Head(ops[p][i]) = ops[p][i][1] /\ ops[p][i][1] \in Op
  BY <1>1
<1> QED
  BY <1>1, <1>2 DEF Running, Arg, Op

\* What is behind the head of a queue moves up by one.
LEMMA TailByPosition ==
  ASSUME NEW f \in Seq(Op), f # <<>>, NEW k \in DOMAIN f, k # 1
  PROVE  k - 1 \in DOMAIN Tail(f) /\ Tail(f)[k - 1] = f[k]
OBVIOUS

LEMMA FinishEffect ==
  ASSUME ops \in Queues, NEW p \in Peer, NEW i \in Index, NEW op, Running(p, i, op),
         Finish(p, i)
  PROVE  /\ ops' \in Queues
         /\ \A q \in Peer : q # p \/ op \notin {"createOffer", "setOffer"} =>
                (OfferRequested(q) => OfferRequested(q)')
<1>1. ops[p][i] \in Seq(Op) /\ ops[p][i] # <<>> /\ ops[p][i][1].op = op
  BY RunningTyped
<1>2. Tail(ops[p][i]) \in Seq(Op)
  BY <1>1
<1>3. ops' = [ops EXCEPT ![p][i] = Tail(ops[p][i])]
  BY DEF Finish
<1>4. ops' \in Queues
  BY <1>2, <1>3 DEF Queues
<1>5. /\ ops'[p][i] = Tail(ops[p][i])
      /\ \A q \in Peer, j \in Index : q # p \/ j # i => ops'[q][j] = ops[q][j]
  BY <1>3 DEF Queues
<1>6. ASSUME NEW q \in Peer, q # p \/ op \notin {"createOffer", "setOffer"},
             OfferRequested(q)
      PROVE  OfferRequested(q)'
  <2>0. PICK j \in Index :
            \E k \in DOMAIN ops[q][j] : ops[q][j][k].op \in {"createOffer", "setOffer"}
    BY <1>6 DEF OfferRequested
  <2>1. PICK k \in DOMAIN ops[q][j] : ops[q][j][k].op \in {"createOffer", "setOffer"}
    BY <2>0
  <2>2. CASE q # p \/ j # i
    BY <2>1, <2>2, <1>5 DEF OfferRequested, Index
  <2>3. CASE q = p /\ j = i
    <3>1. k # 1
      BY <1>1, <1>6, <2>1, <2>3
    <3>2. k - 1 \in DOMAIN Tail(ops[p][i]) /\ Tail(ops[p][i])[k - 1] = ops[p][i][k]
      BY <1>1, <2>1, <2>3, <3>1, TailByPosition
    <3>3. k - 1 \in DOMAIN ops'[q][j] /\ ops'[q][j][k - 1] = ops[q][j][k]
      BY <3>2, <2>3, <1>5
    <3> QED
      BY <3>3, <2>1, Zenon DEF OfferRequested
  <2> QED
    BY <2>2, <2>3
<1> QED
  BY <1>4, <1>6

LEMMA ProceedEffect ==
  ASSUME ops \in Queues, NEW p \in Peer, NEW i \in Index, NEW op, Running(p, i, op),
         NEW next \in OpName, NEW n \in Number, Proceed(p, i, next, n)
  PROVE  /\ ops' \in Queues
         /\ \A q \in Peer :
                \/ q # p \/ op \notin {"createOffer", "setOffer"} \/ next = "setOffer"
                => (OfferRequested(q) => OfferRequested(q)')
<1> DEFINE o == [op |-> next, n |-> n]
<1>0. o \in Op
  BY DEF Op, OpName
<1>1. ops[p][i] \in Seq(Op) /\ ops[p][i] # <<>> /\ ops[p][i][1].op = op
  BY RunningTyped
<1>2. Tail(ops[p][i]) \in Seq(Op)
  BY <1>1
<1>a. Append(Tail(ops[p][i]), o) \in Seq(Op)
  BY <1>0, <1>2
<1>3. ops' = [ops EXCEPT ![p][i] = Append(Tail(ops[p][i]), o)]
  BY DEF Proceed
<1>4. ops' \in Queues
  BY <1>a, <1>3 DEF Queues
<1>5. /\ ops'[p][i] = Append(Tail(ops[p][i]), o)
      /\ \A q \in Peer, j \in Index : q # p \/ j # i => ops'[q][j] = ops[q][j]
  BY <1>3 DEF Queues
<1>6. ASSUME NEW q \in Peer,
             q # p \/ op \notin {"createOffer", "setOffer"} \/ next = "setOffer",
             OfferRequested(q)
      PROVE  OfferRequested(q)'
  <2>0. PICK j \in Index :
            \E k \in DOMAIN ops[q][j] : ops[q][j][k].op \in {"createOffer", "setOffer"}
    BY <1>6 DEF OfferRequested
  <2>1. PICK k \in DOMAIN ops[q][j] : ops[q][j][k].op \in {"createOffer", "setOffer"}
    BY <2>0
  <2>2. CASE q # p \/ j # i
    BY <2>1, <2>2, <1>5 DEF OfferRequested, Index
  <2>3. CASE q = p /\ j = i /\ k # 1
    <3>1. k - 1 \in DOMAIN Tail(ops[p][i]) /\ Tail(ops[p][i])[k - 1] = ops[p][i][k]
      BY <1>1, <2>1, <2>3, TailByPosition
    <3>2. /\ k - 1 \in DOMAIN Append(Tail(ops[p][i]), o)
          /\ Append(Tail(ops[p][i]), o)[k - 1] = Tail(ops[p][i])[k - 1]
      BY <3>1, <1>2, <1>0
    <3>3. k - 1 \in DOMAIN ops'[q][j] /\ ops'[q][j][k - 1] = ops[q][j][k]
      BY <3>1, <3>2, <2>3, <1>5
    <3> QED
      BY <3>3, <2>1, Zenon DEF OfferRequested
  <2>4. CASE q = p /\ j = i /\ k = 1
    <3>1. next = "setOffer"
      BY <1>1, <1>6, <2>1, <2>4
    <3> DEFINE m == Len(Tail(ops[p][i])) + 1
    <3>2. m \in DOMAIN ops'[p][i] /\ ops'[p][i][m] = o
      BY <1>0, <1>2, <1>5
    <3> QED
      BY <3>1, <3>2, <2>4 DEF OfferRequested, Index
  <2> QED
    BY <2>2, <2>3, <2>4
<1> QED
  BY <1>4, <1>6

-----------------------------------------------------------------------------
(* Types *)

LEMMA NumbersFit == Number \subseteq 0 .. MaxOffers /\ 0 \in 0 .. MaxOffers
  BY ConstantsAssumption DEF Number

LEMMA TypeInit == Init => TypeOK
<1> SUFFICES ASSUME Init PROVE TypeOK
  OBVIOUS
<1>1. conns \in [Peer -> [Index -> Conn]]
  BY DEF Init, Conn, NewConn
<1>2. ops \in [Peer -> [Index -> Seq(Op)]]
  BY DEF Init
<1>3. <<Joined>> \in Seq(Msg) /\ <<>> \in Seq(Msg)
  BY DEF Msg
<1>4. chan \in [Peer -> Seq(Msg)]
  BY <1>3 DEF Init
<1>5. /\ current \in [Peer -> 0 .. MaxConns] /\ created \in [Peer -> 0 .. MaxConns]
      /\ reconnects \in 0 .. MaxReconnects
  BY ConstantsAssumption DEF Init
<1>6. /\ offers \in [Peer -> 0 .. MaxOffers] /\ lastOffer \in [Peer -> 0 .. MaxOffers]
      /\ lastAnswer \in [Peer -> 0 .. MaxOffers]
  BY NumbersFit DEF Init
<1>7. answered \in [Peer -> [Number -> Nat]]
  BY DEF Init
<1>8. creating \in [Peer -> SUBSET [task : {"offer", "handle"}, n : Number]]
  BY DEF Init
<1> QED
  BY <1>1, <1>2, <1>4, <1>5, <1>6, <1>7, <1>8 DEF Init, TypeOK

\* The variables that only _createOffer and _handleOffer change.
LEMMA BeginOfferTyped ==
  ASSUME TypeOK, NEW p \in Peer, BeginOffer(p)
  PROVE  /\ watchdog' \in [Peer -> BOOLEAN] /\ making' \in [Peer -> BOOLEAN]
         /\ offers' \in [Peer -> 0 .. MaxOffers] /\ calm' \in BOOLEAN
         /\ creating' \in [Peer -> SUBSET [task : {"offer", "handle"}, n : Number]]
         /\ ops' \in Queues
<1> DEFINE n == offers[p] + 1
<1>1. watchdog' \in [Peer -> BOOLEAN]
  BY DEF BeginOffer, TypeOK
<1>2. ops \in Queues
  BY DEF TypeOK, Queues
<1>s. Settled \in BOOLEAN
  BY DEF Settled
<1>3. ASSUME n \in Number, offers' = [offers EXCEPT ![p] = n],
             making' = [making EXCEPT ![p] = TRUE], calm' = (calm /\ Settled)
      PROVE  /\ making' \in [Peer -> BOOLEAN] /\ offers' \in [Peer -> 0 .. MaxOffers]
             /\ calm' \in BOOLEAN
  <2>1. offers' \in [Peer -> 0 .. MaxOffers]
    BY <1>3, NumbersFit DEF TypeOK
  <2>2. making' \in [Peer -> BOOLEAN]
    BY <1>3 DEF TypeOK
  <2>3. calm' \in BOOLEAN
    BY <1>3, <1>s, Zenon DEF TypeOK
  <2> QED
    BY <2>1, <2>2, <2>3
<1>4. CASE /\ current[p] = 0 /\ n \in Number /\ offers' = [offers EXCEPT ![p] = n]
           /\ making' = [making EXCEPT ![p] = TRUE] /\ calm' = (calm /\ Settled)
           /\ creating' = [creating EXCEPT ![p] = @ \cup {[task |-> "offer", n |-> n]}]
           /\ UNCHANGED ops
  <2>1. creating' \in [Peer -> SUBSET [task : {"offer", "handle"}, n : Number]]
    BY <1>4 DEF TypeOK
  <2> QED
    BY <1>1, <1>2, <1>3, <1>4, <2>1
<1>5. CASE /\ n \in Number /\ offers' = [offers EXCEPT ![p] = n]
           /\ making' = [making EXCEPT ![p] = TRUE] /\ calm' = (calm /\ Settled)
           /\ current[p] # 0 /\ Request(p, current[p], "createOffer", n)
           /\ UNCHANGED creating
  <2>1. current[p] \in Index
    BY SMTT(60), <1>5, ConstantsAssumption DEF TypeOK, Index
  <2>2. ops' \in Queues
    BY <1>2, <1>5, <2>1, RequestEffect DEF OpName
  <2>3. creating' \in [Peer -> SUBSET [task : {"offer", "handle"}, n : Number]]
    BY <1>5 DEF TypeOK
  <2> QED
    BY <1>1, <1>3, <1>5, <2>2, <2>3
<1>6. CASE making' = [making EXCEPT ![p] = FALSE] /\ UNCHANGED <<offers, ops, creating, calm>>
  BY <1>1, <1>2, <1>6 DEF TypeOK
<1> QED
  BY <1>4, <1>5, <1>6 DEF BeginOffer

\* A message that arrives is well typed, and the rest of the channel too.
LEMMA ConsumeTyped ==
  ASSUME TypeOK, NEW p \in Peer, NEW type, Arrives(p, type), Consume(p)
  PROVE  /\ chan' \in [Peer -> Seq(Msg)] /\ Head(chan[p]) \in Msg
         /\ type \in {"offer", "answer"} => Head(chan[p]).n \in Number
<1>1. chan[p] \in Seq(Msg) /\ chan[p] # <<>>
  BY DEF TypeOK, Arrives
<1>2. Head(chan[p]) \in Msg /\ Tail(chan[p]) \in Seq(Msg)
  BY <1>1
<1>3. chan' \in [Peer -> Seq(Msg)]
  BY <1>2 DEF Consume, TypeOK
<1>4. ASSUME type \in {"offer", "answer"} PROVE Head(chan[p]).n \in Number
  BY <1>2, <1>4 DEF Arrives, Msg, Joined, Candidate
<1> QED
  BY <1>2, <1>3, <1>4

LEMMA AppendTyped ==
  ASSUME TypeOK, NEW p \in Peer, NEW m \in Msg
  PROVE  [chan EXCEPT ![Other(p)] = Append(@, m)] \in [Peer -> Seq(Msg)]
<1>1. Other(p) \in Peer
  BY OtherPeer
<1>2. Append(chan[Other(p)], m) \in Seq(Msg)
  BY <1>1 DEF TypeOK
<1> QED
  BY <1>1, <1>2 DEF TypeOK

LEMMA SendSdpTyped ==
  ASSUME TypeOK, NEW p \in Peer, NEW type \in {"offer", "answer"}, NEW n \in Number,
         SendSdp(p, type, n)
  PROVE  chan' \in [Peer -> Seq(Msg)] /\ gathering' \in [Peer -> BOOLEAN]
<1>1. Other(p) \in Peer
  BY OtherPeer
<1>2. Relayed(type, n) \in Seq(Msg)
  BY DEF Relayed, Msg
<1>3. chan[Other(p)] \o Relayed(type, n) \in Seq(Msg)
  BY <1>1, <1>2 DEF TypeOK
<1> QED
  BY <1>1, <1>3 DEF SendSdp, TypeOK

LEMMA ParticipantJoinedTyped ==
  ASSUME TypeOK, NEW p \in Peer, ParticipantJoined(p) PROVE TypeOK'
<1>1. chan' \in [Peer -> Seq(Msg)]
  BY ConsumeTyped DEF ParticipantJoined
<1>2. connected' \in [Peer -> BOOLEAN]
  <2>1. connected' = [connected EXCEPT ![p] = connected[p] \/ current[p] = 0]
    BY DEF ParticipantJoined
  <2>2. (connected[p] \/ current[p] = 0) \in BOOLEAN
    OBVIOUS
  <2> QED
    BY <2>1, <2>2, Zenon DEF TypeOK
<1>3. BeginOffer(p) /\ UNCHANGED <<pcVars, lastOffer, lastAnswer, answered, iceVars, reconnects>>
  BY DEF ParticipantJoined, BeginOffer
<1> QED
  BY <1>1, <1>2, <1>3, BeginOfferTyped DEF TypeOK, Queues, pcVars, iceVars

LEMMA TriggerTyped ==
  ASSUME TypeOK, NEW p \in Peer, WatchdogFires(p) \/ RestartIce(p) PROVE TypeOK'
<1>1. /\ BeginOffer(p)
      /\ UNCHANGED <<pcVars, lastOffer, lastAnswer, answered, chan, iceVars, connected, reconnects>>
  BY DEF WatchdogFires, RestartIce, BeginOffer
<1> QED
  BY <1>1, BeginOfferTyped DEF TypeOK, Queues, pcVars, iceVars

LEMMA ReconnectTyped ==
  ASSUME TypeOK, NEW p \in Peer, Reconnect(p) PROVE TypeOK'
<1>0. <<>> \in Seq(Msg) /\ Joined \in Msg /\ Other(p) \in Peer /\ Other(p) # p
  BY OtherPeer DEF Msg
<1>1. reconnects' \in 0 .. MaxReconnects
  BY ConstantsAssumption DEF Reconnect, TypeOK
<1>2. chan' \in [Peer -> Seq(Msg)]
  <2>1. CASE chan' = [chan EXCEPT ![p] = <<>>]
    BY <1>0, <2>1 DEF TypeOK
  <2>2. CASE chan' = [chan EXCEPT ![p] = <<>>, ![Other(p)] = Append(@, Joined)]
    <3>1. Append(chan[Other(p)], Joined) \in Seq(Msg)
      BY <1>0 DEF TypeOK
    <3>2. chan' = [chan EXCEPT ![p] = <<>>, ![Other(p)] = Append(chan[Other(p)], Joined)]
      BY <1>0, <2>2 DEF TypeOK
    <3> QED
      BY <1>0, <3>1, <3>2 DEF TypeOK
  <2> QED
    BY <2>1, <2>2 DEF Reconnect
<1>3. UNCHANGED <<iceVars, connected>>
  BY DEF Reconnect
<1>4. CASE BeginOffer(p)
  <2>1. UNCHANGED <<pcVars, lastOffer, lastAnswer, answered>>
    BY <1>4 DEF BeginOffer
  <2> QED
    BY <1>1, <1>2, <1>3, <1>4, <2>1, BeginOfferTyped DEF TypeOK, Queues, pcVars, iceVars
<1>5. CASE /\ UNCHANGED <<pcVars, ops, creating, making, offers, lastOffer, lastAnswer,
                          answered, calm>>
           /\ watchdog' = [watchdog EXCEPT ![p] = TRUE] \/ UNCHANGED watchdog
  BY <1>1, <1>2, <1>3, <1>5 DEF TypeOK, pcVars, iceVars
<1> QED
  BY <1>4, <1>5 DEF Reconnect, stateVars

\* An operation that is done, and the next one of its handler.
LEMMA CreateOfferTyped ==
  ASSUME TypeOK, NEW p \in Peer, NEW i \in Index, CreateOffer(p, i) PROVE TypeOK'
<1>1. ops' \in Queues
  BY RunningTyped, ProceedEffect DEF CreateOffer, TypeOK, Queues, OpName
<1> QED
  BY <1>1 DEF CreateOffer, TypeOK, Queues, pcVars, stateVars, iceVars, ghostVars

LEMMA ConnTyped ==
  ASSUME TypeOK, NEW p \in Peer, NEW i \in Index, NEW c \in Conn
  PROVE  [conns EXCEPT ![p][i] = c] \in [Peer -> [Index -> Conn]]
BY DEF TypeOK

LEMMA PendingTyped ==
  ASSUME TypeOK, NEW p \in Peer, NEW i \in Index, NEW d \in Sdp \cup {NoSdp}
  PROVE  [conns EXCEPT ![p][i].pending = d] \in [Peer -> [Index -> Conn]]
<1> DEFINE c == [conns[p][i] EXCEPT !.pending = d]
<1>1. conns[p][i] \in Conn
  BY DEF TypeOK
<1>2. c \in Conn
  BY <1>1 DEF Conn
<1>3. [conns EXCEPT ![p][i].pending = d] = [conns EXCEPT ![p][i] = c]
  OBVIOUS
<1> HIDE DEF c
<1> QED
  BY ZenonT(60), <1>2, <1>3, ConnTyped

LEMMA SetOfferTyped ==
  ASSUME TypeOK, NEW p \in Peer, NEW i \in Index, SetOffer(p, i) PROVE TypeOK'
<1>1. ops \in Queues /\ Running(p, i, "setOffer")
  BY DEF TypeOK, Queues, SetOffer
<1>2. Arg(p, i) \in Number
  BY <1>1, RunningTyped
<1>3. ops' \in Queues
  BY <1>1, FinishEffect DEF SetOffer
<1>4. /\ conns' \in [Peer -> [Index -> Conn]]
      /\ chan' \in [Peer -> Seq(Msg)] /\ gathering' \in [Peer -> BOOLEAN]
  <2>1. CASE HaveRemoteOffer(p, i) /\ UNCHANGED <<conns, chan, gathering>>
    BY <2>1 DEF TypeOK
  <2>2. CASE /\ conns' = [conns EXCEPT ![p][i].pending =
                    [from |-> p, type |-> "offer", n |-> Arg(p, i)]]
             /\ SendSdp(p, "offer", Arg(p, i))
    <3>1. [from |-> p, type |-> "offer", n |-> Arg(p, i)] \in Sdp
      BY <1>2 DEF Sdp
    <3> QED
      BY <1>2, <2>2, <3>1, PendingTyped, SendSdpTyped
  <2> QED
    BY <2>1, <2>2 DEF SetOffer
<1>5. making' \in [Peer -> BOOLEAN]
  BY DEF SetOffer, TypeOK
<1> QED
  BY <1>3, <1>4, <1>5 DEF SetOffer, TypeOK, Queues, ghostVars

LEMMA RollbackTyped ==
  ASSUME TypeOK, NEW p \in Peer, NEW i \in Index, Rollback(p, i) PROVE TypeOK'
<1>1. ops \in Queues /\ Running(p, i, "rollback")
  BY DEF TypeOK, Queues, Rollback
<1>2. ops' \in Queues
  BY <1>1, RunningTyped, ProceedEffect DEF Rollback, OpName
<1>3. conns' \in [Peer -> [Index -> Conn]]
  BY PendingTyped DEF Rollback
<1> QED
  BY <1>2, <1>3 DEF Rollback, TypeOK, Queues, stateVars, iceVars, ghostVars

LEMMA SetRemoteOfferTyped ==
  ASSUME TypeOK, NEW p \in Peer, NEW i \in Index, SetRemoteOffer(p, i) PROVE TypeOK'
<1>1. ops \in Queues /\ Running(p, i, "setRemoteOffer")
  BY DEF TypeOK, Queues, SetRemoteOffer
<1>2. Arg(p, i) \in Number
  BY <1>1, RunningTyped
<1>3. CASE Finish(p, i) /\ UNCHANGED conns
  <2>1. ops' \in Queues
    BY <1>1, <1>3, FinishEffect
  <2> QED
    BY <1>3, <2>1 DEF SetRemoteOffer, TypeOK, Queues, stateVars, iceVars, ghostVars
<1>4. CASE /\ conns' = [conns EXCEPT ![p][i].pending =
                  [from |-> Other(p), type |-> "offer", n |-> Arg(p, i)]]
           /\ Proceed(p, i, "createAnswer", Arg(p, i))
  <2>1. ops' \in Queues
    BY <1>1, <1>2, <1>4, ProceedEffect DEF OpName
  <2>2. [from |-> Other(p), type |-> "offer", n |-> Arg(p, i)] \in Sdp
    BY <1>2, OtherPeer DEF Sdp
  <2>3. conns' \in [Peer -> [Index -> Conn]]
    BY <1>4, <2>2, PendingTyped
  <2> QED
    BY <2>1, <2>3 DEF SetRemoteOffer, TypeOK, Queues, stateVars, iceVars, ghostVars
<1> QED
  BY <1>3, <1>4 DEF SetRemoteOffer

LEMMA CreateAnswerTyped ==
  ASSUME TypeOK, NEW p \in Peer, NEW i \in Index, CreateAnswer(p, i) PROVE TypeOK'
<1>1. ops \in Queues /\ Running(p, i, "createAnswer")
  BY DEF TypeOK, Queues, CreateAnswer
<1>2. ops' \in Queues
  <2>1. CASE HaveRemoteOffer(p, i) /\ Proceed(p, i, "setAnswer", conns[p][i].pending.n)
    <3>1. conns[p][i].pending \in Sdp
      BY <2>1 DEF HaveRemoteOffer, Stable, TypeOK, Conn
    <3>2. conns[p][i].pending.n \in Number
      BY <3>1 DEF Sdp
    <3> QED
      BY <1>1, <2>1, <3>2, ProceedEffect DEF OpName
  <2>2. CASE Finish(p, i)
    BY <1>1, <2>2, FinishEffect
  <2> QED
    BY <2>1, <2>2 DEF CreateAnswer
<1> QED
  BY <1>2 DEF CreateAnswer, TypeOK, Queues, pcVars, stateVars, iceVars, ghostVars

LEMMA DrainTyped ==
  ASSUME TypeOK, NEW p \in Peer, Drain(p) PROVE buffered' \in [Peer -> SUBSET Kind]
BY DEF Drain, TypeOK

LEMMA BufferTyped ==
  ASSUME TypeOK, NEW p \in Peer, NEW kind \in Kind, Buffer(p, kind)
  PROVE  buffered' \in [Peer -> SUBSET Kind]
BY DEF Buffer, TypeOK

LEMMA SetAnswerTyped ==
  ASSUME TypeOK, NEW p \in Peer, NEW i \in Index, SetAnswer(p, i) PROVE TypeOK'
<1>1. ops \in Queues /\ Running(p, i, "setAnswer")
  BY DEF TypeOK, Queues, SetAnswer, AnswerSet
<1>2. ops' \in Queues
  BY <1>1, FinishEffect DEF SetAnswer, AnswerSet
<1>3. Arg(p, i) \in Number
  BY <1>1, RunningTyped
<1>4. /\ conns' \in [Peer -> [Index -> Conn]] /\ chan' \in [Peer -> Seq(Msg)]
      /\ gathering' \in [Peer -> BOOLEAN] /\ buffered' \in [Peer -> SUBSET Kind]
      /\ answered' \in [Peer -> [Number -> Nat]] /\ UNCHANGED looking
  <2>1. CASE UNCHANGED <<conns, chan, iceVars, answered>>
    BY <2>1 DEF TypeOK, iceVars
  <2>2. CASE /\ conns' = [conns EXCEPT ![p][i] =
                    [pending |-> NoSdp, remote |-> @.pending,
                     local |-> [from |-> p, type |-> "answer", n |-> Arg(p, i)]]]
             /\ SendSdp(p, "answer", Arg(p, i))
             /\ answered' = [answered EXCEPT ![p][Arg(p, i)] = @ + 1]
             /\ Drain(p) /\ UNCHANGED looking
    <3> DEFINE c == [pending |-> NoSdp, remote |-> conns[p][i].pending,
                     local |-> [from |-> p, type |-> "answer", n |-> Arg(p, i)]]
    <3>1. c \in Conn
      BY <1>3 DEF Conn, Sdp, TypeOK
    <3>2. conns' = [conns EXCEPT ![p][i] = c]
      BY <2>2
    <3>3. conns' \in [Peer -> [Index -> Conn]]
      BY <3>1, <3>2, ConnTyped
    <3>4. answered' \in [Peer -> [Number -> Nat]]
      BY <1>3, <2>2 DEF TypeOK
    <3>5. buffered' \in [Peer -> SUBSET Kind]
      BY <2>2, DrainTyped
    <3> QED
      BY <1>3, <2>2, <3>3, <3>4, <3>5, SendSdpTyped
  <2> QED
    BY <2>1, <2>2 DEF SetAnswer, AnswerSet
<1> QED
  BY <1>2, <1>4 DEF SetAnswer, AnswerSet, TypeOK, Queues, stateVars

LEMMA SetRemoteAnswerTyped ==
  ASSUME TypeOK, NEW p \in Peer, NEW i \in Index, SetRemoteAnswer(p, i) PROVE TypeOK'
<1>1. ops \in Queues /\ Running(p, i, "setRemoteAnswer")
  BY DEF TypeOK, Queues, SetRemoteAnswer
<1>2. ops' \in Queues
  BY <1>1, FinishEffect DEF SetRemoteAnswer
<1>3. Arg(p, i) \in Number
  BY <1>1, RunningTyped
<1>4. conns' \in [Peer -> [Index -> Conn]] /\ buffered' \in [Peer -> SUBSET Kind]
  <2>1. CASE UNCHANGED <<conns, buffered>>
    BY <2>1 DEF TypeOK
  <2>2. CASE /\ conns' = [conns EXCEPT ![p][i] =
                    [pending |-> NoSdp, local |-> @.pending,
                     remote |-> [from |-> Other(p), type |-> "answer", n |-> Arg(p, i)]]]
             /\ Drain(p)
    <3> DEFINE c == [pending |-> NoSdp, local |-> conns[p][i].pending,
                     remote |-> [from |-> Other(p), type |-> "answer", n |-> Arg(p, i)]]
    <3>1. c \in Conn
      BY <1>3, OtherPeer DEF Conn, Sdp, TypeOK
    <3>2. conns' = [conns EXCEPT ![p][i] = c]
      BY <2>2
    <3> QED
      BY <2>2, <3>1, <3>2, ConnTyped, DrainTyped
  <2> QED
    BY <2>1, <2>2 DEF SetRemoteAnswer
<1> QED
  BY <1>2, <1>4 DEF SetRemoteAnswer, TypeOK, Queues, stateVars, ghostVars

\* The start of _handleOffer, on the connection at hand.
LEMMA AcceptTyped ==
  ASSUME TypeOK, NEW p \in Peer, NEW i \in Index, NEW n \in Number, NEW collision,
         AcceptStep(p, collision, i, n)
  PROVE  ops' \in Queues
<1>1. Request(p, i, "rollback", n) \/ Request(p, i, "setRemoteOffer", n)
  BY DEF AcceptStep
<1>2. ops \in Queues
  BY DEF TypeOK, Queues
<1> QED
  BY <1>1, <1>2, RequestEffect DEF OpName

LEMMA OfferArrivesTyped ==
  ASSUME TypeOK, NEW p \in Peer, OfferArrives(p) PROVE TypeOK'
<1> DEFINE n == Head(chan[p]).n
           fresh == lastOffer[p] # n
<1>1. chan' \in [Peer -> Seq(Msg)] /\ n \in Number
  BY ConsumeTyped DEF OfferArrives, OfferEvent
<1>2. UNCHANGED <<pcVars, making, offers, lastAnswer, iceVars, ghostVars, calm>>
  BY DEF OfferArrives, OfferEvent
<1>3. watchdog' \in [Peer -> BOOLEAN]
  BY DEF OfferArrives, OfferEvent, NewOffer, TypeOK
<1>4. CASE UNCHANGED <<lastOffer, ops, creating>>
  BY <1>1, <1>2, <1>3, <1>4 DEF TypeOK, pcVars, iceVars, ghostVars
<1>5. CASE NewOffer(p, n)
  <2>1. lastOffer' \in [Peer -> 0 .. MaxOffers]
    BY <1>1, <1>5, NumbersFit DEF NewOffer, TypeOK
  <2>2. /\ creating' \in [Peer -> SUBSET [task : {"offer", "handle"}, n : Number]]
        /\ ops' \in Queues
    <3>1. CASE /\ creating' = [creating EXCEPT ![p] = @ \cup {[task |-> "handle", n |-> n]}]
               /\ UNCHANGED ops
      BY <1>1, <3>1 DEF TypeOK, Queues
    <3>2. CASE /\ current[p] # 0
               /\ AcceptStep(p, making[p] \/ HaveLocalOffer(p, current[p]), current[p], n)
               /\ UNCHANGED creating
      <4>1. current[p] \in Index
        BY <3>2, ConstantsAssumption DEF TypeOK, Index
      <4> QED
        BY <1>1, <3>2, <4>1, AcceptTyped DEF TypeOK
    <3> QED
      BY <1>5, <3>1, <3>2 DEF NewOffer
  <2> QED
    BY <1>1, <1>2, <1>3, <2>1, <2>2 DEF TypeOK, Queues, pcVars, iceVars, ghostVars
<1> QED
  BY <1>4, <1>5 DEF OfferArrives, OfferEvent

LEMMA ConnectionCreatedTyped ==
  ASSUME TypeOK, NEW p \in Peer, NEW c \in creating[p], ConnectionCreated(p, c) PROVE TypeOK'
<1> DEFINE i == created[p] + 1
<1>0. c \in [task : {"offer", "handle"}, n : Number]
  BY DEF TypeOK
<1>1. i \in Index /\ i \in 0 .. MaxConns /\ c.n \in Number /\ ops \in Queues
  <2>1. i \in Index
    BY DEF ConnectionCreated
  <2>2. i \in 0 .. MaxConns
    BY <2>1, ConstantsAssumption DEF Index
  <2> QED
    BY <1>0, <2>1, <2>2 DEF TypeOK, Queues
<1>2. created' \in [Peer -> 0 .. MaxConns] /\ current' \in [Peer -> 0 .. MaxConns]
  BY <1>1 DEF ConnectionCreated, TypeOK
<1>3. creating' \in [Peer -> SUBSET [task : {"offer", "handle"}, n : Number]]
  BY DEF ConnectionCreated, TypeOK
<1>4. ops' \in Queues
  <2>1. CASE Request(p, i, "createOffer", c.n)
    BY <1>1, <2>1, RequestEffect DEF OpName
  <2>2. CASE AcceptStep(p, making[p], i, c.n)
    BY <1>1, <2>2, AcceptTyped
  <2> QED
    BY <2>1, <2>2 DEF ConnectionCreated
<1> QED
  BY <1>2, <1>3, <1>4 DEF ConnectionCreated, TypeOK, Queues, stateVars, iceVars, ghostVars

LEMMA AnswerArrivesTyped ==
  ASSUME TypeOK, NEW p \in Peer, AnswerArrives(p) PROVE TypeOK'
<1> DEFINE n == Head(chan[p]).n
<1>1. chan' \in [Peer -> Seq(Msg)] /\ n \in Number
  BY ConsumeTyped DEF AnswerArrives
<1>2. lastAnswer' \in [Peer -> 0 .. MaxOffers]
  BY <1>1, NumbersFit DEF AnswerArrives, TypeOK
<1>3. ops' \in Queues
  <2>1. CASE UNCHANGED ops
    BY <2>1 DEF TypeOK, Queues
  <2>2. CASE current[p] # 0 /\ Request(p, current[p], "setRemoteAnswer", n)
    <3>1. current[p] \in Index /\ ops \in Queues
      BY <2>2, ConstantsAssumption DEF TypeOK, Index, Queues
    <3> QED
      BY <1>1, <2>2, <3>1, RequestEffect DEF OpName
  <2> QED
    BY <2>1, <2>2 DEF AnswerArrives
<1> QED
  BY <1>1, <1>2, <1>3 DEF AnswerArrives, TypeOK, Queues, pcVars, iceVars, ghostVars

LEMMA CandidateTyped ==
  ASSUME TypeOK, NEW p \in Peer, CandidateFound(p) \/ CandidateArrives(p) PROVE TypeOK'
<1>1. CASE CandidateFound(p)
  <2>1. Candidate \in Msg
    BY DEF Msg
  <2>2. chan' \in [Peer -> Seq(Msg)] /\ gathering' \in [Peer -> BOOLEAN]
    BY <1>1, <2>1, AppendTyped DEF CandidateFound, TypeOK
  <2> QED
    BY <1>1, <2>2 DEF CandidateFound, TypeOK, pcVars, stateVars, ghostVars
<1>2. CASE CandidateArrives(p)
  <2>1. chan' \in [Peer -> Seq(Msg)]
    BY <1>2, ConsumeTyped DEF CandidateArrives
  <2>2. buffered' \in [Peer -> SUBSET Kind] /\ looking' \in [Peer -> [Index -> Nat]]
    <3>1. CASE Buffer(p, "early") /\ UNCHANGED looking
      BY <3>1, BufferTyped DEF TypeOK, Kind
    <3>2. CASE /\ current[p] # 0
               /\ looking' = [looking EXCEPT ![p][current[p]] = @ + 1]
               /\ UNCHANGED buffered
      <4>1. current[p] \in Index
        BY <3>2, ConstantsAssumption DEF TypeOK, Index
      <4>2. looking[p][current[p]] + 1 \in Nat
        BY <4>1 DEF TypeOK
      <4> QED
        BY <3>2, <4>1, <4>2 DEF TypeOK
    <3> QED
      BY <1>2, <3>1, <3>2 DEF CandidateArrives
  <2> QED
    BY <1>2, <2>1, <2>2 DEF CandidateArrives, TypeOK, pcVars, stateVars, ghostVars
<1> QED
  BY <1>1, <1>2

\* What the rest of the handler of a candidate leaves alone.
LEMMA LookupFrame ==
  ASSUME NEW p \in Peer, NEW i \in Index, CandidateLookedUp(p, i)
  PROVE  UNCHANGED <<pcVars, ops, creating, stateVars, gathering, chan, ghostVars, calm>>
BY DEF CandidateLookedUp

LEMMA LookedUpTyped ==
  ASSUME TypeOK, NEW p \in Peer, NEW i \in Index, CandidateLookedUp(p, i) PROVE TypeOK'
<1>1. looking[p][i] \in Nat /\ looking[p][i] > 0
  BY DEF TypeOK, CandidateLookedUp
<1>2. looking[p][i] - 1 \in Nat
  BY <1>1
<1>3. looking' \in [Peer -> [Index -> Nat]]
  BY <1>2 DEF TypeOK, CandidateLookedUp
<1>4. buffered' \in [Peer -> SUBSET Kind]
  BY BufferTyped DEF CandidateLookedUp, Kind, TypeOK
<1> QED
  BY <1>3, <1>4, LookupFrame DEF TypeOK, pcVars, stateVars, ghostVars

LEMMA TypeStep == TypeOK /\ [Next]_vars => TypeOK'
<1> SUFFICES ASSUME TypeOK, [Next]_vars PROVE TypeOK'
  OBVIOUS
<1>1. CASE UNCHANGED vars
  BY <1>1 DEF vars, pcVars, stateVars, iceVars, ghostVars, TypeOK
<1>2. ASSUME NEW p \in Peer, Deliver(p) \/ Trigger(p) \/ CandidateFound(p) PROVE TypeOK'
  BY <1>2, ParticipantJoinedTyped, OfferArrivesTyped, AnswerArrivesTyped, CandidateTyped,
     TriggerTyped, ReconnectTyped DEF Deliver, Trigger
<1>3. ASSUME NEW p \in Peer, Operate(p) PROVE TypeOK'
  BY <1>3, CreateOfferTyped, SetOfferTyped, RollbackTyped, SetRemoteOfferTyped,
     CreateAnswerTyped, SetAnswerTyped, SetRemoteAnswerTyped DEF Operate
<1> QED
  BY <1>1, <1>2, <1>3, ConnectionCreatedTyped, LookedUpTyped DEF Next

\* Every variable keeps its type, and every operation requested and every
\* description sent is that of an offer that was numbered.
THEOREM TypeCorrect == Spec => []TypeOK
  BY TypeInit, TypeStep, PTL DEF Spec

-----------------------------------------------------------------------------
(* _makingOffer *)

\* An offer of q is being made: its connection is being created, or one of the
\* two operations that make it is requested.
OfferCreating(q) == \E c \in creating[q] : c.task = "offer"
Making(q) == OfferCreating(q) \/ OfferRequested(q)

LEMMA BackedByMaking == MakingOfferIsBacked <=> \A q \in Peer : making[q] => Making(q)
  BY DEF MakingOfferIsBacked, Making, OfferCreating, OfferRequested

\* A step that resets _makingOffer where it takes an offer away keeps the
\* invariant.
LEMMA StillBacked ==
  ASSUME MakingOfferIsBacked,
         \A q \in Peer : making'[q] => Making(q)' \/ (making[q] /\ (Making(q) => Making(q)'))
  PROVE  MakingOfferIsBacked'
BY BackedByMaking DEF MakingOfferIsBacked, Making, OfferCreating, OfferRequested

\* Nobody stops making an offer where neither its handlers nor its requested
\* operations go.
LEMMA MakingKept ==
  ASSUME NEW q \in Peer, OfferCreating(q) => OfferCreating(q)',
         OfferRequested(q) => OfferRequested(q)'
  PROVE  Making(q) => Making(q)'
BY DEF Making

LEMMA BeginOfferBacked ==
  ASSUME TypeOK, MakingOfferIsBacked, NEW p \in Peer, BeginOffer(p)
  PROVE  MakingOfferIsBacked'
<1> DEFINE n == offers[p] + 1
<1>0. ops \in Queues
  BY DEF TypeOK, Queues
<1>1. CASE /\ making' = [making EXCEPT ![p] = TRUE]
           /\ creating' = [creating EXCEPT ![p] = @ \cup {[task |-> "offer", n |-> n]}]
           /\ UNCHANGED ops
  <2>1. OfferCreating(p)'
    <3>1. [task |-> "offer", n |-> n] \in creating'[p]
      BY <1>1 DEF TypeOK
    <3> QED
      BY <3>1 DEF OfferCreating
  <2>2. ASSUME NEW q \in Peer, q # p PROVE making'[q] = making[q] /\ (Making(q) => Making(q)')
    BY <1>1, <2>2 DEF TypeOK, Making, OfferCreating, OfferRequested
  <2> QED
    BY <2>1, <2>2, StillBacked DEF Making
<1>2. CASE /\ n \in Number /\ making' = [making EXCEPT ![p] = TRUE]
           /\ current[p] # 0 /\ Request(p, current[p], "createOffer", n)
           /\ UNCHANGED creating
  <2>1. current[p] \in Index
    BY SMTT(60), <1>2, ConstantsAssumption DEF TypeOK, Index
  <2>2. /\ OfferRequested(p)'
        /\ \A q \in Peer : OfferRequested(q) => OfferRequested(q)'
    BY <1>0, <1>2, <2>1, RequestEffect DEF OpName
  <2>3. ASSUME NEW q \in Peer, q # p PROVE making'[q] = making[q] /\ (Making(q) => Making(q)')
    <3>1. making'[q] = making[q]
      BY <1>2, <2>3 DEF TypeOK
    <3>2. OfferCreating(q) => OfferCreating(q)'
      BY <1>2 DEF OfferCreating
    <3> QED
      BY <2>2, <3>1, <3>2, MakingKept
  <2> QED
    BY <2>2, <2>3, StillBacked DEF Making
<1>3. CASE making' = [making EXCEPT ![p] = FALSE] /\ UNCHANGED <<offers, ops, creating, calm>>
  <2>1. ASSUME NEW q \in Peer, making'[q] PROVE making[q]
    BY <1>3, <2>1 DEF TypeOK
  <2>2. ASSUME NEW q \in Peer PROVE Making(q) => Making(q)'
    BY <1>3 DEF Making, OfferCreating, OfferRequested
  <2> QED
    BY <2>1, <2>2, StillBacked
<1> QED
  BY <1>1, <1>2, <1>3 DEF BeginOffer

\* The steps that leave _makingOffer alone and take no offer away.
LEMMA QuietBacked ==
  ASSUME MakingOfferIsBacked, UNCHANGED making,
         \A q \in Peer : OfferCreating(q) => OfferCreating(q)',
         \A q \in Peer : OfferRequested(q) => OfferRequested(q)'
  PROVE  MakingOfferIsBacked'
<1>1. \A q \in Peer : Making(q) => Making(q)'
  BY MakingKept
<1>2. \A q \in Peer : making'[q] => making[q]
  OBVIOUS
<1> QED
  BY <1>1, <1>2, StillBacked

\* All but the creation of connections leave the suspended handlers alone or
\* add to them.
LEMMA HandlersStay ==
  ASSUME TypeOK, UNCHANGED creating
  PROVE  \A q \in Peer : OfferCreating(q) => OfferCreating(q)'
BY DEF OfferCreating

LEMMA OperateBacked ==
  ASSUME TypeOK, MakingOfferIsBacked, NEW p \in Peer, NEW i \in Index,
         \/ CreateOffer(p, i) \/ Rollback(p, i) \/ SetRemoteOffer(p, i)
         \/ CreateAnswer(p, i) \/ SetAnswer(p, i) \/ SetRemoteAnswer(p, i)
  PROVE  MakingOfferIsBacked'
<1>0. ops \in Queues
  BY DEF TypeOK, Queues
<1>1. UNCHANGED <<making, creating>>
  BY DEF CreateOffer, Rollback, SetRemoteOffer, CreateAnswer, SetAnswer, AnswerSet,
         SetRemoteAnswer, stateVars
<1>2. \A q \in Peer : OfferRequested(q) => OfferRequested(q)'
  <2>1. CASE CreateOffer(p, i)
    <3>1. Running(p, i, "createOffer") /\ Proceed(p, i, "setOffer", Arg(p, i))
      BY <2>1 DEF CreateOffer
    <3>2. Arg(p, i) \in Number
      BY <1>0, <3>1, RunningTyped
    <3> QED
      BY <1>0, <3>1, <3>2, ProceedEffect DEF OpName
  <2>2. CASE Rollback(p, i)
    <3>1. Running(p, i, "rollback") /\ Proceed(p, i, "setRemoteOffer", Arg(p, i))
      BY <2>2 DEF Rollback
    <3>2. Arg(p, i) \in Number
      BY <1>0, <3>1, RunningTyped
    <3> QED
      BY <1>0, <3>1, <3>2, ProceedEffect DEF OpName
  <2>3. CASE SetRemoteOffer(p, i)
    <3>1. /\ Running(p, i, "setRemoteOffer")
          /\ Finish(p, i) \/ Proceed(p, i, "createAnswer", Arg(p, i))
      BY <2>3 DEF SetRemoteOffer
    <3>2. Arg(p, i) \in Number
      BY <1>0, <3>1, RunningTyped
    <3>3. CASE Finish(p, i)
      BY <1>0, <3>1, <3>3, FinishEffect
    <3>4. CASE Proceed(p, i, "createAnswer", Arg(p, i))
      BY <1>0, <3>1, <3>2, <3>4, ProceedEffect DEF OpName
    <3> QED
      BY <3>1, <3>3, <3>4
  <2>4. CASE CreateAnswer(p, i)
    <3>1. Running(p, i, "createAnswer")
      BY <2>4 DEF CreateAnswer
    <3>2. CASE HaveRemoteOffer(p, i) /\ Proceed(p, i, "setAnswer", conns[p][i].pending.n)
      <4>1. conns[p][i].pending \in Sdp
        BY <3>2 DEF HaveRemoteOffer, Stable, TypeOK, Conn
      <4>2. conns[p][i].pending.n \in Number
        BY <4>1 DEF Sdp
      <4> QED
        BY <1>0, <3>1, <3>2, <4>2, ProceedEffect DEF OpName
    <3>3. CASE Finish(p, i)
      BY <1>0, <3>1, <3>3, FinishEffect
    <3> QED
      BY <2>4, <3>2, <3>3 DEF CreateAnswer
  <2>5. CASE SetAnswer(p, i)
    <3>1. Running(p, i, "setAnswer") /\ Finish(p, i)
      BY <2>5 DEF SetAnswer, AnswerSet
    <3> QED
      BY <1>0, <3>1, FinishEffect
  <2>6. CASE SetRemoteAnswer(p, i)
    <3>1. Running(p, i, "setRemoteAnswer") /\ Finish(p, i)
      BY <2>6 DEF SetRemoteAnswer
    <3> QED
      BY <1>0, <3>1, FinishEffect
  <2> QED
    BY <2>1, <2>2, <2>3, <2>4, <2>5, <2>6
<1> QED
  BY <1>1, <1>2, HandlersStay, QuietBacked

\* The finally clause: the flag goes with the last operation of the offer.
LEMMA SetOfferBacked ==
  ASSUME TypeOK, MakingOfferIsBacked, NEW p \in Peer, NEW i \in Index, SetOffer(p, i)
  PROVE  MakingOfferIsBacked'
<1>0. ops \in Queues
  BY DEF TypeOK, Queues
<1>1. /\ Running(p, i, "setOffer") /\ Finish(p, i)
      /\ making' = [making EXCEPT ![p] = FALSE] /\ UNCHANGED creating
  BY DEF SetOffer
<1>2. ASSUME NEW q \in Peer, q # p PROVE making'[q] = making[q] /\ (Making(q) => Making(q)')
  <2>1. OfferRequested(q) => OfferRequested(q)'
    BY <1>0, <1>1, <1>2, FinishEffect
  <2>2. OfferCreating(q) => OfferCreating(q)'
    BY <1>1 DEF OfferCreating
  <2>3. making'[q] = making[q]
    BY <1>1, <1>2 DEF TypeOK
  <2> QED
    BY <2>1, <2>2, <2>3, MakingKept
<1>3. ~making'[p]
  BY <1>1 DEF TypeOK
<1> QED
  BY <1>2, <1>3, StillBacked

LEMMA AcceptKeeps ==
  ASSUME TypeOK, NEW p \in Peer, NEW i \in Index, NEW n \in Number, NEW collision,
         AcceptStep(p, collision, i, n)
  PROVE  \A q \in Peer : OfferRequested(q) => OfferRequested(q)'
<1>1. Request(p, i, "rollback", n) \/ Request(p, i, "setRemoteOffer", n)
  BY DEF AcceptStep
<1>2. ops \in Queues
  BY DEF TypeOK, Queues
<1> QED
  BY <1>1, <1>2, RequestEffect DEF OpName

LEMMA OfferArrivesBacked ==
  ASSUME TypeOK, MakingOfferIsBacked, NEW p \in Peer, OfferArrives(p)
  PROVE  MakingOfferIsBacked'
<1> DEFINE n == Head(chan[p]).n
<1>1. n \in Number /\ UNCHANGED making
  BY ConsumeTyped DEF OfferArrives, OfferEvent
<1>2. CASE UNCHANGED <<lastOffer, ops, creating>>
  BY <1>1, <1>2, QuietBacked DEF OfferCreating, OfferRequested
<1>3. CASE NewOffer(p, n)
  <2>1. CASE /\ creating' = [creating EXCEPT ![p] = @ \cup {[task |-> "handle", n |-> n]}]
             /\ UNCHANGED ops
    <3>1. \A q \in Peer : creating[q] \subseteq creating'[q]
      BY <2>1 DEF TypeOK
    <3>2. \A q \in Peer : OfferCreating(q) => OfferCreating(q)'
      BY <3>1 DEF OfferCreating
    <3>3. \A q \in Peer : OfferRequested(q) => OfferRequested(q)'
      BY <2>1 DEF OfferRequested
    <3> QED
      BY <1>1, <3>2, <3>3, QuietBacked
  <2>2. CASE /\ current[p] # 0
             /\ AcceptStep(p, making[p] \/ HaveLocalOffer(p, current[p]), current[p], n)
             /\ UNCHANGED creating
    <3>1. current[p] \in Index
      BY <2>2, ConstantsAssumption DEF TypeOK, Index
    <3>2. \A q \in Peer : OfferRequested(q) => OfferRequested(q)'
      BY <1>1, <2>2, <3>1, AcceptKeeps
    <3> QED
      BY <1>1, <2>2, <3>2, HandlersStay, QuietBacked
  <2> QED
    BY <1>3, <2>1, <2>2 DEF NewOffer
<1> QED
  BY <1>2, <1>3 DEF OfferArrives, OfferEvent

\* The handler that leaves the creation of a connection requests the offer.
LEMMA ConnectionCreatedBacked ==
  ASSUME TypeOK, MakingOfferIsBacked, NEW p \in Peer, NEW c \in creating[p],
         ConnectionCreated(p, c)
  PROVE  MakingOfferIsBacked'
<1> DEFINE i == created[p] + 1
<1>1. /\ i \in Index /\ UNCHANGED making
      /\ creating' = [creating EXCEPT ![p] = @ \ {c}]
  BY DEF ConnectionCreated, stateVars
<1>2. c \in [task : {"offer", "handle"}, n : Number] /\ ops \in Queues
  BY DEF TypeOK, Queues
<1>3. CASE c.task = "offer" /\ Request(p, i, "createOffer", c.n)
  <2>1. OfferRequested(p)' /\ \A q \in Peer : OfferRequested(q) => OfferRequested(q)'
    BY <1>1, <1>2, <1>3, RequestEffect DEF OpName
  <2>2. ASSUME NEW q \in Peer, q # p PROVE Making(q) => Making(q)'
    <3>1. OfferCreating(q) => OfferCreating(q)'
      BY <1>1, <2>2 DEF OfferCreating, TypeOK
    <3> QED
      BY <2>1, <3>1, MakingKept
  <2> QED
    BY <1>1, <2>1, <2>2, StillBacked DEF Making
<1>4. CASE c.task = "handle" /\ AcceptStep(p, making[p], i, c.n)
  <2>1. \A q \in Peer : OfferRequested(q) => OfferRequested(q)'
    BY <1>1, <1>2, <1>4, AcceptKeeps
  <2>2. ASSUME NEW q \in Peer, OfferCreating(q) PROVE OfferCreating(q)'
    <3>1. PICK d \in creating[q] : d.task = "offer"
      BY <2>2 DEF OfferCreating
    <3>2. d \in creating'[q]
      BY <1>1, <1>4, <3>1 DEF TypeOK
    <3> QED
      BY <3>1, <3>2 DEF OfferCreating
  <2> QED
    BY <1>1, <2>1, <2>2, QuietBacked
<1> QED
  BY <1>3, <1>4 DEF ConnectionCreated

LEMMA AnswerArrivesBacked ==
  ASSUME TypeOK, MakingOfferIsBacked, NEW p \in Peer, AnswerArrives(p)
  PROVE  MakingOfferIsBacked'
<1> DEFINE n == Head(chan[p]).n
<1>1. n \in Number /\ UNCHANGED <<making, creating>>
  BY ConsumeTyped DEF AnswerArrives
<1>2. \A q \in Peer : OfferRequested(q) => OfferRequested(q)'
  <2>1. CASE UNCHANGED ops
    BY <2>1 DEF OfferRequested
  <2>2. CASE current[p] # 0 /\ Request(p, current[p], "setRemoteAnswer", n)
    <3>1. current[p] \in Index /\ ops \in Queues
      BY <2>2, ConstantsAssumption DEF TypeOK, Index, Queues
    <3> QED
      BY <1>1, <2>2, <3>1, RequestEffect DEF OpName
  <2> QED
    BY <2>1, <2>2 DEF AnswerArrives
<1> QED
  BY <1>1, <1>2, HandlersStay, QuietBacked

LEMMA ReconnectBacked ==
  ASSUME TypeOK, MakingOfferIsBacked, NEW p \in Peer, Reconnect(p)
  PROVE  MakingOfferIsBacked'
<1>1. CASE UNCHANGED <<ops, creating, making>>
  BY <1>1, QuietBacked DEF OfferCreating, OfferRequested
<1>2. CASE BeginOffer(p)
  BY <1>2, BeginOfferBacked
<1> QED
  BY <1>1, <1>2 DEF Reconnect, stateVars

LEMMA BackedStep == TypeOK /\ MakingOfferIsBacked /\ [Next]_vars => MakingOfferIsBacked'
<1> SUFFICES ASSUME TypeOK, MakingOfferIsBacked, [Next]_vars PROVE MakingOfferIsBacked'
  OBVIOUS
<1>1. CASE UNCHANGED <<ops, creating, making>>
  BY <1>1, QuietBacked DEF OfferCreating, OfferRequested
<1>2. ASSUME NEW p \in Peer, Deliver(p) \/ Trigger(p) \/ CandidateFound(p)
      PROVE  MakingOfferIsBacked'
  <2>1. CASE ParticipantJoined(p) \/ WatchdogFires(p) \/ RestartIce(p)
    BY <2>1, BeginOfferBacked DEF ParticipantJoined, WatchdogFires, RestartIce
  <2>2. CASE CandidateFound(p) \/ CandidateArrives(p)
    BY <1>1, <2>2 DEF CandidateFound, CandidateArrives, stateVars
  <2> QED
    BY <1>2, <2>1, <2>2, OfferArrivesBacked, AnswerArrivesBacked, ReconnectBacked
       DEF Deliver, Trigger
<1>3. ASSUME NEW p \in Peer, Operate(p) PROVE MakingOfferIsBacked'
  BY <1>3, OperateBacked, SetOfferBacked DEF Operate
<1>4. CASE UNCHANGED vars
  BY <1>1, <1>4 DEF vars, stateVars
<1>5. ASSUME NEW p \in Peer, NEW i \in Index, CandidateLookedUp(p, i)
      PROVE  MakingOfferIsBacked'
  BY <1>1, <1>5, LookupFrame DEF stateVars
<1> QED
  BY <1>2, <1>3, <1>4, <1>5, ConnectionCreatedBacked DEF Next

LEMMA BackedInit == Init => MakingOfferIsBacked
  BY DEF Init, MakingOfferIsBacked

\* _makingOffer is set only while an offer is being made, however many offers
\* fail, collide or wait for their connection: _handleOffer sees a collision
\* only where there is an offer to collide with.
THEOREM MakingIsBacked == Spec => []MakingOfferIsBacked
<1>1. Spec => [](TypeOK /\ MakingOfferIsBacked)
  BY TypeInit, TypeStep, BackedInit, BackedStep, PTL DEF Spec
<1> QED
  BY <1>1, PTL

-----------------------------------------------------------------------------
(* Calm negotiations: one offer at a time *)

\* The descriptions on their way to x.
Sdps(x) == {e \in {chan[x][k] : k \in DOMAIN chan[x]} : e.type \in {"offer", "answer"}}

OfferEvents(p) == {[type |-> "offer", n |-> offers[p]]}
AnswerEvents(p) == {[type |-> "answer", n |-> offers[p]]}

\* The latest offer of p, and the answer of the other to it.
OfferOf(p) == [from |-> p, type |-> "offer", n |-> offers[p]]
AnswerTo(p) == [from |-> Other(p), type |-> "answer", n |-> offers[p]]

\* What x is occupied with: nothing, the creation of its connection for a
\* handler, or one operation of it.
Free(x) == creating[x] = {} /\ \A i \in Index : ops[x][i] = <<>>
Creates(x, task, n) ==
    creating[x] = {[task |-> task, n |-> n]} /\ \A i \in Index : ops[x][i] = <<>>
Does(x, op, n) ==
    /\ current[x] # 0 /\ creating[x] = {}
    /\ ops[x][current[x]] = <<[op |-> op, n |-> n]>>

\* What the connection of x has, if there is one.
Steady(x) == current[x] # 0 => Stable(x, current[x])
Awaits(x, d) == current[x] # 0 /\ conns[x][current[x]].pending = d
HasSession(x, l, r) ==
    /\ current[x] # 0
    /\ conns[x][current[x]] = [pending |-> NoSdp, local |-> l, remote |-> r]

\* There is one connection and one handler that waits for it, and no trace of
\* any other connection.
OneConnection(x) ==
    /\ created[x] = current[x] /\ current[x] <= 1
    /\ creating[x] # {} => current[x] = 0
    /\ \A i \in Index : i # current[x] => ops[x][i] = <<>> /\ conns[x][i] = NewConn

\* Nothing refers to an offer that p has not made, and no offer of p was
\* answered twice.
OffersKnown(p) ==
    /\ lastOffer[Other(p)] <= offers[p] /\ lastAnswer[p] <= offers[p]
    /\ \A n \in Number : /\ answered[Other(p)][n] <= 1
                         /\ n > offers[p] => answered[Other(p)][n] = 0

Unanswered(p) == lastAnswer[p] # offers[p] /\ answered[Other(p)][offers[p]] = 0

\* The stages of the negotiation of the latest offer of p.
Unbegun == \A x \in Peer : offers[x] = 0 /\ Free(x) /\ Steady(x) /\ Sdps(x) = {}
Offering(p) ==
    /\ \/ Creates(p, "offer", offers[p])
       \/ Does(p, "createOffer", offers[p]) \/ Does(p, "setOffer", offers[p])
    /\ Steady(p) /\ Sdps(p) = {}
    /\ Free(Other(p)) /\ Steady(Other(p)) /\ Sdps(Other(p)) = {}
    /\ lastOffer[Other(p)] # offers[p] /\ Unanswered(p)
Offered(p) ==
    /\ Free(p) /\ Awaits(p, OfferOf(p)) /\ Sdps(p) = {}
    /\ Free(Other(p)) /\ Steady(Other(p)) /\ Sdps(Other(p)) \subseteq OfferEvents(p)
    /\ lastOffer[Other(p)] # offers[p] /\ Unanswered(p)
Answering(p) ==
    /\ Free(p) /\ Awaits(p, OfferOf(p)) /\ Sdps(p) = {}
    /\ \/ Creates(Other(p), "handle", offers[p])
       \/ Does(Other(p), "setRemoteOffer", offers[p]) /\ Steady(Other(p))
       \/ /\ Does(Other(p), "createAnswer", offers[p]) \/ Does(Other(p), "setAnswer", offers[p])
          /\ Awaits(Other(p), OfferOf(p))
    /\ Sdps(Other(p)) \subseteq OfferEvents(p)
    /\ lastOffer[Other(p)] = offers[p] /\ Unanswered(p)
Answered(p) ==
    /\ Awaits(p, OfferOf(p)) /\ Sdps(p) \subseteq AnswerEvents(p)
    /\ \/ Free(p) /\ lastAnswer[p] # offers[p]
       \/ Does(p, "setRemoteAnswer", offers[p]) /\ lastAnswer[p] = offers[p]
    /\ Free(Other(p)) /\ HasSession(Other(p), AnswerTo(p), OfferOf(p))
    /\ Sdps(Other(p)) \subseteq OfferEvents(p)
    /\ lastOffer[Other(p)] = offers[p]
Concluded(p) ==
    /\ Free(p) /\ HasSession(p, OfferOf(p), AnswerTo(p)) /\ Sdps(p) \subseteq AnswerEvents(p)
    /\ Free(Other(p)) /\ HasSession(Other(p), AnswerTo(p), OfferOf(p))
    /\ Sdps(Other(p)) \subseteq OfferEvents(p)
    /\ lastOffer[Other(p)] = offers[p] /\ lastAnswer[p] = offers[p]
Negotiating(p) ==
    /\ offers[p] \in Number
    /\ Offering(p) \/ Offered(p) \/ Answering(p) \/ Answered(p) \/ Concluded(p)

CalmInv ==
    calm => /\ \A x \in Peer : OneConnection(x) /\ OffersKnown(x)
            /\ Unbegun \/ \E p \in Peer : Negotiating(p)

\* The connection in use is the last that was created; one that was not created
\* has no description and nothing to do.  While a candidate is looked up for a
\* connection no later one has a description, and an early candidate waits only
\* for a connection without a remote description.
Untouched(x) ==
    /\ current[x] = created[x]
    /\ \A i \in Index : i > created[x] => ops[x][i] = <<>> /\ conns[x][i] = NewConn
LookupsFirst(x) ==
    \A i \in Index : looking[x][i] > 0 =>
        i <= created[x] /\ \A k \in Index : k > i => conns[x][k] = NewConn
EarlyWaits(x) ==
    current[x] # 0 /\ conns[x][current[x]].remote # NoSdp => "early" \notin buffered[x]
CandidatesWait == \A x \in Peer : Untouched(x) /\ LookupsFirst(x) /\ EarlyWaits(x)

\* There are the two of them.
LEMMA TwoPeers ==
  ASSUME NEW p \in Peer
  PROVE  Other(Other(p)) = p /\ \A x \in Peer : x = p \/ x = Other(p)
<1>1. Other(p) \in Peer /\ Other(p) # p
  BY OtherPeer
<1>2. ASSUME NEW x \in Peer PROVE x = p \/ x = Other(p)
  <2>1. IsFiniteSet({p, Other(p)}) /\ Cardinality({p, Other(p)}) = 2
    <3>1. IsFiniteSet({p}) /\ Cardinality({p}) = 1
      BY FS_Singleton
    <3>2. {p, Other(p)} = {p} \cup {Other(p)} /\ Other(p) \notin {p}
      BY <1>1
    <3> QED
      BY <3>1, <3>2, FS_AddElement
  <2>2. {p, Other(p)} \in SUBSET Peer
    BY <1>1
  <2>3. {p, Other(p)} = Peer
    BY <2>1, <2>2, FS_Subset, ConstantsAssumption
  <2> QED
    BY <2>3
<1>3. Other(Other(p)) \in Peer /\ Other(Other(p)) # Other(p)
  BY <1>1, OtherPeer
<1> QED
  BY <1>2, <1>3

-----------------------------------------------------------------------------
(* What a step does to the descriptions on their way *)

Channels == [Peer -> Seq(Msg)]
NoNewSdps == \A x \in Peer : Sdps(x)' \subseteq Sdps(x)

LEMMA SdpsKept == ASSUME UNCHANGED chan PROVE NoNewSdps
BY DEF NoNewSdps, Sdps

\* An event that arrives is one of those on their way, and the others stay.
LEMMA ConsumeSdps ==
  ASSUME chan \in Channels, NEW p \in Peer, chan[p] # <<>>, Consume(p)
  PROVE  NoNewSdps /\ (Head(chan[p]).type \in {"offer", "answer"} => Head(chan[p]) \in Sdps(p))
<1>1. chan[p] \in Seq(Msg) /\ chan[p] # <<>>
  BY DEF Channels
<1>2. chan'[p] = Tail(chan[p]) /\ \A x \in Peer : x # p => chan'[x] = chan[x]
  BY DEF Channels, Consume
<1>3. PICK s : s = chan[p]
  OBVIOUS
<1>4. \A k \in DOMAIN Tail(s) : k + 1 \in DOMAIN s /\ Tail(s)[k] = s[k + 1]
  BY <1>1, <1>3
<1>5. Sdps(p)' \subseteq Sdps(p)
  BY <1>2, <1>3, <1>4 DEF Sdps
<1>6. \A x \in Peer : x # p => Sdps(x)' = Sdps(x)
  BY <1>2 DEF Sdps
<1>7. 1 \in DOMAIN chan[p] /\ Head(chan[p]) = chan[p][1]
  BY <1>1
<1> QED
  BY <1>5, <1>6, <1>7 DEF NoNewSdps, Sdps

\* Anything else than a description adds none.
LEMMA AppendSdps ==
  ASSUME chan \in Channels, NEW p \in Peer, NEW m, m.type \notin {"offer", "answer"},
         chan' = [chan EXCEPT ![p] = Append(@, m)]
  PROVE  NoNewSdps
<1>1. chan[p] \in Seq(Msg)
  BY DEF Channels
<1>2. chan'[p] = Append(chan[p], m) /\ \A x \in Peer : x # p => chan'[x] = chan[x]
  BY DEF Channels
<1>3. PICK s : s = chan[p]
  OBVIOUS
<1>4. \A k \in DOMAIN Append(s, m) : Append(s, m)[k] = m \/ (k \in DOMAIN s /\ Append(s, m)[k] = s[k])
  BY <1>1, <1>3
<1>5. Sdps(p)' \subseteq Sdps(p)
  BY <1>2, <1>3, <1>4 DEF Sdps
<1>6. \A x \in Peer : x # p => Sdps(x)' = Sdps(x)
  BY <1>2 DEF Sdps
<1> QED
  BY <1>5, <1>6 DEF NoNewSdps

\* A description that is sent is on its way to the other.
LEMMA SendSdps ==
  ASSUME chan \in Channels, NEW p \in Peer, NEW type, NEW n, SendSdp(p, type, n)
  PROVE  /\ Sdps(p)' = Sdps(p)
         /\ Sdps(Other(p))' \subseteq Sdps(Other(p)) \cup {[type |-> type, n |-> n]}
<1>1. Other(p) \in Peer /\ Other(p) # p
  BY OtherPeer
<1>2. PICK s, e : s = chan[Other(p)] /\ e = [type |-> type, n |-> n]
  OBVIOUS
<1>3. s \in Seq(Msg)
  BY <1>1, <1>2 DEF Channels
<1>4. chan'[Other(p)] = s \o <<e, e>> /\ chan'[p] = chan[p]
  BY <1>1, <1>2 DEF Channels, SendSdp, Relayed
<1>5. \A k \in DOMAIN (s \o <<e, e>>) :
          (s \o <<e, e>>)[k] = e \/ (k \in DOMAIN s /\ (s \o <<e, e>>)[k] = s[k])
  BY <1>3
<1>6. Sdps(Other(p))' \subseteq Sdps(Other(p)) \cup {e}
  BY <1>2, <1>4, <1>5 DEF Sdps
<1> QED
  BY <1>2, <1>4, <1>6 DEF Sdps

\* A lost socket loses them.
LEMMA ReconnectSdps ==
  ASSUME chan \in Channels, NEW p \in Peer, Reconnect(p)
  PROVE  NoNewSdps
<1>1. Other(p) \in Peer /\ Other(p) # p
  BY OtherPeer
<1>2. PICK s : s = chan[Other(p)]
  OBVIOUS
<1>3. s \in Seq(Msg)
  BY <1>1, <1>2 DEF Channels
<1>4. chan'[p] = <<>> /\ (chan'[Other(p)] = s \/ chan'[Other(p)] = Append(s, Joined))
  BY <1>1, <1>2 DEF Channels, Reconnect
<1>5. \A k \in DOMAIN Append(s, Joined) :
          Append(s, Joined)[k] = Joined \/ (k \in DOMAIN s /\ Append(s, Joined)[k] = s[k])
  BY <1>3
<1>6. Joined.type \notin {"offer", "answer"}
  BY DEF Joined
<1>7. Sdps(p)' = {}
  BY <1>4 DEF Sdps
<1>8. Sdps(Other(p))' \subseteq Sdps(Other(p))
  BY <1>2, <1>4, <1>5, <1>6 DEF Sdps
<1> QED
  BY <1>7, <1>8, TwoPeers DEF NoNewSdps

-----------------------------------------------------------------------------
(* What a step does not touch *)

Conns == [Peer -> [Index -> Conn]]

LEMMA ConnStep ==
  ASSUME conns \in Conns, NEW x \in Peer, NEW i \in Index, NEW c,
         conns' = [conns EXCEPT ![x][i] = c]
  PROVE  /\ conns'[x][i] = c
         /\ \A y \in Peer, j \in Index : y # x \/ j # i => conns'[y][j] = conns[y][j]
BY DEF Conns

\* The types of the parts the stages speak of.
LEMMA Typed ==
  ASSUME TypeOK
  PROVE  /\ ops \in Queues /\ conns \in Conns /\ chan \in Channels
         /\ \A x \in Peer : /\ current[x] \in Nat /\ created[x] \in Nat
                            /\ current[x] # 0 => current[x] \in Index
                            /\ offers[x] \in Nat /\ lastOffer[x] \in Nat /\ lastAnswer[x] \in Nat
                            /\ offers[x] <= MaxOffers
                            /\ \A n \in Number : answered[x][n] \in Nat
<1>1. ops \in Queues /\ conns \in Conns /\ chan \in Channels
  BY DEF TypeOK, Queues, Conns, Channels
<1>2. ASSUME NEW x \in Peer
      PROVE  /\ current[x] \in 0 .. MaxConns /\ created[x] \in 0 .. MaxConns
             /\ offers[x] \in 0 .. MaxOffers /\ lastOffer[x] \in 0 .. MaxOffers
             /\ lastAnswer[x] \in 0 .. MaxOffers
             /\ \A n \in Number : answered[x][n] \in Nat
  BY DEF TypeOK
<1>3. MaxOffers \in Nat /\ MaxConns \in Nat
  BY ConstantsAssumption
<1> QED
  BY <1>1, <1>2, <1>3 DEF Index

\* The connection and the handlers of y are left alone.
SideUntouched(y) ==
    /\ current'[y] = current[y] /\ created'[y] = created[y] /\ creating'[y] = creating[y]
    /\ \A i \in Index : ops'[y][i] = ops[y][i] /\ conns'[y][i] = conns[y][i]

LEMMA SideKept ==
  ASSUME TypeOK, NEW y \in Peer, SideUntouched(y)
  PROVE  /\ Free(y)' <=> Free(y)
         /\ Steady(y)' <=> Steady(y)
         /\ OneConnection(y)' <=> OneConnection(y)
         /\ \A d : Awaits(y, d)' <=> Awaits(y, d)
         /\ \A l, r : HasSession(y, l, r)' <=> HasSession(y, l, r)
         /\ \A task, n : Creates(y, task, n)' <=> Creates(y, task, n)
         /\ \A op, n : Does(y, op, n)' <=> Does(y, op, n)
<1>1. current[y] # 0 => current[y] \in Index
  BY Typed
<1>2. Free(y)' <=> Free(y)
  BY DEF Free, SideUntouched, Index
<1>3. Steady(y)' <=> Steady(y)
  BY <1>1 DEF Steady, Stable, SideUntouched, Index
<1>4. OneConnection(y)' <=> OneConnection(y)
  BY DEF OneConnection, SideUntouched, Index
<1>5. \A d : Awaits(y, d)' <=> Awaits(y, d)
  BY <1>1 DEF Awaits, SideUntouched, Index
<1>6. \A l, r : HasSession(y, l, r)' <=> HasSession(y, l, r)
  BY <1>1 DEF HasSession, SideUntouched, Index
<1>7. \A task, n : Creates(y, task, n)' <=> Creates(y, task, n)
  BY DEF Creates, SideUntouched, Index
<1>8. \A op, n : Does(y, op, n)' <=> Does(y, op, n)
  BY <1>1 DEF Does, SideUntouched, Index
<1> QED
  BY <1>2, <1>3, <1>4, <1>5, <1>6, <1>7, <1>8

\* The numbers a negotiation of p goes by.
NumbersUntouched(p) ==
    /\ offers'[p] = offers[p] /\ lastAnswer'[p] = lastAnswer[p]
    /\ lastOffer'[Other(p)] = lastOffer[Other(p)]
    /\ answered'[Other(p)] = answered[Other(p)]

LEMMA NumbersKept ==
  ASSUME NEW p \in Peer, NumbersUntouched(p)
  PROVE  /\ OffersKnown(p)' <=> OffersKnown(p)
         /\ Unanswered(p)' <=> Unanswered(p)
         /\ (lastOffer[Other(p)] = offers[p])' <=> lastOffer[Other(p)] = offers[p]
         /\ (lastAnswer[p] = offers[p])' <=> lastAnswer[p] = offers[p]
         /\ OfferOf(p)' = OfferOf(p) /\ AnswerTo(p)' = AnswerTo(p)
         /\ OfferEvents(p)' = OfferEvents(p) /\ AnswerEvents(p)' = AnswerEvents(p)
<1>1. Other(p)' = Other(p)
  BY DEF Other
<1>2. OffersKnown(p)' <=> OffersKnown(p)
  BY DEF OffersKnown, NumbersUntouched, Number
<1> QED
  BY <1>2 DEF Unanswered, NumbersUntouched, OfferOf, AnswerTo, OfferEvents, AnswerEvents

\* A step that only takes events away leaves a negotiation where it is.
LEMMA CalmFrame ==
  ASSUME TypeOK, CalmInv, UNCHANGED calm, NoNewSdps,
         \A x \in Peer : SideUntouched(x) /\ NumbersUntouched(x)
  PROVE  CalmInv'
<1> SUFFICES ASSUME calm PROVE CalmInv'
  BY DEF CalmInv
<1>1. \A x \in Peer : OneConnection(x)' /\ OffersKnown(x)'
  BY SideKept, NumbersKept DEF CalmInv
<1>2. ASSUME Unbegun PROVE Unbegun'
  <2>1. ASSUME NEW x \in Peer
        PROVE  offers'[x] = 0 /\ Free(x)' /\ Steady(x)' /\ Sdps(x)' = {}
    <3>1. Free(x)' /\ Steady(x)'
      BY <1>2, SideKept DEF Unbegun
    <3>2. offers'[x] = offers[x]
      BY DEF NumbersUntouched
    <3>3. Sdps(x)' \subseteq Sdps(x)
      BY DEF NoNewSdps
    <3> QED
      BY <1>2, <3>1, <3>2, <3>3 DEF Unbegun
  <2> QED
    BY <2>1 DEF Unbegun
<1>3. ASSUME NEW p \in Peer, Negotiating(p) PROVE Negotiating(p)'
  <2>1. Other(p) \in Peer
    BY OtherPeer
  <2>2. PICK q : q = Other(p)
    OBVIOUS
  <2>3. PICK offer, answer, oe, ae :
            offer = OfferOf(p) /\ answer = AnswerTo(p) /\ oe = OfferEvents(p) /\ ae = AnswerEvents(p)
    OBVIOUS
  <2>4. /\ offer = OfferOf(p)' /\ answer = AnswerTo(p)'
        /\ oe = OfferEvents(p)' /\ ae = AnswerEvents(p)'
        /\ Unanswered(p)' <=> Unanswered(p)
        /\ (lastOffer[q] = offers[p])' <=> lastOffer[q] = offers[p]
        /\ (lastAnswer[p] = offers[p])' <=> lastAnswer[p] = offers[p]
    BY <2>2, <2>3, NumbersKept
  <2>5. PICK n : n = offers[p] /\ n = offers'[p]
    BY DEF NumbersUntouched
  <2>6. Sdps(p)' \subseteq Sdps(p) /\ Sdps(q)' \subseteq Sdps(q)
    BY <2>1, <2>2 DEF NoNewSdps
  <2>7. /\ Free(p)' <=> Free(p)
        /\ Steady(p)' <=> Steady(p)
        /\ \A d : Awaits(p, d)' <=> Awaits(p, d)
        /\ \A l, r : HasSession(p, l, r)' <=> HasSession(p, l, r)
        /\ \A task, m : Creates(p, task, m)' <=> Creates(p, task, m)
        /\ \A op, m : Does(p, op, m)' <=> Does(p, op, m)
    BY SideKept
  <2>8. /\ Free(q)' <=> Free(q)
        /\ Steady(q)' <=> Steady(q)
        /\ \A d : Awaits(q, d)' <=> Awaits(q, d)
        /\ \A l, r : HasSession(q, l, r)' <=> HasSession(q, l, r)
        /\ \A task, m : Creates(q, task, m)' <=> Creates(q, task, m)
        /\ \A op, m : Does(q, op, m)' <=> Does(q, op, m)
    BY <2>1, <2>2, SideKept
  <2>9. Other(p)' = q
    BY <2>2 DEF Other
  <2>10. ASSUME Offering(p) PROVE Offering(p)'
    BY <2>10, <2>2, <2>4, <2>5, <2>6, <2>7, <2>8, <2>9 DEF Offering
  <2>11. ASSUME Offered(p) PROVE Offered(p)'
    BY <2>11, <2>2, <2>3, <2>4, <2>5, <2>6, <2>7, <2>8, <2>9 DEF Offered
  <2>12. ASSUME Answering(p) PROVE Answering(p)'
    BY <2>12, <2>2, <2>3, <2>4, <2>5, <2>6, <2>7, <2>8, <2>9 DEF Answering
  <2>13. ASSUME Answered(p) PROVE Answered(p)'
    BY <2>13, <2>2, <2>3, <2>4, <2>5, <2>6, <2>7, <2>8, <2>9 DEF Answered
  <2>14. ASSUME Concluded(p) PROVE Concluded(p)'
    BY <2>14, <2>2, <2>3, <2>4, <2>5, <2>6, <2>7, <2>8, <2>9 DEF Concluded
  <2> QED
    BY <1>3, <2>5, <2>10, <2>11, <2>12, <2>13, <2>14 DEF Negotiating, Number
<1> QED
  BY <1>1, <1>2, <1>3 DEF CalmInv

-----------------------------------------------------------------------------
(* Steps of calm negotiations *)

\* Settled, as far as the stages are concerned.
LEMMA SettledIsQuiet ==
  ASSUME TypeOK, Settled, NEW x \in Peer
  PROVE  Free(x) /\ Steady(x) /\ Sdps(x) = {}
BY Typed DEF Settled, Free, Steady, Sdps

\* An offer begins a negotiation, unless the connection waits for an answer.
LEMMA BeginOfferCalm ==
  ASSUME TypeOK, CalmInv, NEW p \in Peer, BeginOffer(p), NoNewSdps
  PROVE  CalmInv'
<1>1. CASE UNCHANGED <<offers, ops, creating, calm>>
  <2>1. \A x \in Peer : SideUntouched(x) /\ NumbersUntouched(x)
    BY <1>1 DEF BeginOffer, pcVars, SideUntouched, NumbersUntouched
  <2> QED
    BY <1>1, <2>1, CalmFrame
<1>2. CASE ~UNCHANGED <<offers, ops, creating, calm>>
  <2> SUFFICES ASSUME calm' PROVE CalmInv'
    BY DEF CalmInv
  <2>1. PICK q, n : q = Other(p) /\ n = offers[p] + 1
    OBVIOUS
  <2>2. /\ calm /\ Settled /\ n \in Number
        /\ offers' = [offers EXCEPT ![p] = n]
        /\ UNCHANGED <<current, created, conns, lastOffer, lastAnswer, answered>>
    BY <1>2, <2>1 DEF BeginOffer, pcVars
  <2>3. \/ /\ current[p] = 0
           /\ creating' = [creating EXCEPT ![p] = @ \cup {[task |-> "offer", n |-> n]}]
           /\ UNCHANGED ops
        \/ /\ current[p] # 0
           /\ Request(p, current[p], "createOffer", n)
           /\ UNCHANGED creating
    BY <1>2, <2>1 DEF BeginOffer
  <2>4. q \in Peer /\ q # p /\ Other(q) = p /\ \A x \in Peer : x = p \/ x = q
    BY <2>1, OtherPeer, TwoPeers
  <2>5. \A x \in Peer : Free(x) /\ Steady(x) /\ Sdps(x) = {}
    BY <2>2, SettledIsQuiet, Typed
  <2>6. \A x \in Peer : Sdps(x)' = {}
    BY <2>5 DEF NoNewSdps
  <2>7. creating[p] = {} /\ \A i \in Index : ops[p][i] = <<>>
    BY <2>5 DEF Free
  <2>8. creating'[q] = creating[q]
    BY <2>3, <2>4 DEF TypeOK
  <2>9. /\ \A i \in Index : ops'[q][i] = ops[q][i]
        /\ \A i \in Index : i # current[p] => ops'[p][i] = ops[p][i]
        /\ current[p] # 0 => ops'[p][current[p]] = <<[op |-> "createOffer", n |-> n]>>
        /\ current[p] = 0 => \A i \in Index : ops'[p][i] = <<>>
    <3>1. CASE current[p] = 0
      BY <2>3, <2>7, <3>1 DEF Index
    <3>2. CASE current[p] # 0
      <4>1. current[p] \in Index /\ ops \in Queues
        BY <3>2, Typed
      <4>2. PICK s : /\ s = Append(ops[p][current[p]], [op |-> "createOffer", n |-> n])
                     /\ ops' = [ops EXCEPT ![p][current[p]] = s]
        BY <2>3, <3>2 DEF Request
      <4>3. /\ ops'[p][current[p]] = s
            /\ \A y \in Peer, j \in Index : y # p \/ j # current[p] => ops'[y][j] = ops[y][j]
        <5>1. PICK i \in Index : i = current[p]
          BY <4>1
        <5>2. ops' = [ops EXCEPT ![p][i] = s]
          BY <4>2, <5>1
        <5>3. ops'[p][i] = s /\ \A y \in Peer, j \in Index : y # p \/ j # i => ops'[y][j] = ops[y][j]
          <6>1. p \in Peer /\ i \in Index /\ ops \in Queues
            BY <4>1, <5>1
          <6> HIDE <4>1, <5>1
          <6> QED
            BY <6>1, <5>2 DEF Queues
        <5> QED
          BY <5>1, <5>3
      <4>4. ops[p][current[p]] = <<>>
        BY <2>7, <4>1
      <4> QED
        BY <2>4, <3>2, <4>2, <4>3, <4>4
    <3> QED
      BY <3>1, <3>2
  <2>10. SideUntouched(q)
    BY <2>2, <2>8, <2>9 DEF SideUntouched
  <2>11. Free(q)' /\ Steady(q)' /\ OneConnection(q)'
    BY <2>2, <2>4, <2>5, <2>10, SideKept DEF CalmInv
  <2>12. Steady(p)'
    <3>1. Steady(p)
      BY <2>5
    <3> QED
      BY <2>2, <3>1 DEF Steady, Stable
  <2>13. Creates(p, "offer", n)' \/ Does(p, "createOffer", n)'
    <3>1. CASE current[p] = 0
      <4>1. creating'[p] = {[task |-> "offer", n |-> n]}
        BY <2>3, <2>7, <3>1 DEF TypeOK
      <4> QED
        BY <2>9, <3>1, <4>1 DEF Creates, Index
    <3>2. CASE current[p] # 0
      <4>1. creating'[p] = {}
        BY <2>3, <2>7, <3>2
      <4> QED
        BY <2>2, <2>9, <3>2, <4>1 DEF Does
    <3> QED
      BY <3>1, <3>2
  <2>14. OneConnection(p)'
    <3>1. OneConnection(p)
      BY <2>2 DEF CalmInv
    <3>2. creating'[p] # {} => current[p] = 0
      BY <2>3, <2>7
    <3> QED
      BY <2>2, <2>9, <3>1, <3>2 DEF OneConnection, Index
  <2>15. offers'[p] = n /\ offers'[q] = offers[q] /\ offers[p] \in Nat
    BY <2>1, <2>2, <2>4, Typed DEF TypeOK
  <2>16. OffersKnown(p) /\ OffersKnown(q)
    BY <2>2, <2>4 DEF CalmInv
  <2>17. OffersKnown(p)'
    BY <2>1, <2>2, <2>4, <2>15, <2>16, Typed DEF OffersKnown, Number
  <2>18. OffersKnown(q)'
    BY <2>2, <2>4, <2>15, <2>16 DEF OffersKnown, Number
  <2>19. lastOffer[q] # n /\ lastAnswer[p] # n /\ answered[q][n] = 0
    BY <2>1, <2>2, <2>4, <2>15, <2>16, Typed DEF OffersKnown
  <2>20. Offering(p)'
    <3>1. Unanswered(p)' /\ (lastOffer[Other(p)] # offers[p])'
      BY <2>1, <2>2, <2>15, <2>19 DEF Unanswered
    <3> QED
      BY <2>1, <2>4, <2>6, <2>11, <2>12, <2>13, <2>15, <3>1 DEF Offering
  <2>21. Negotiating(p)'
    BY <2>2, <2>15, <2>20 DEF Negotiating, Number
  <2> QED
    BY <2>4, <2>11, <2>14, <2>17, <2>18, <2>21 DEF CalmInv
<1> QED
  BY <1>1, <1>2

\* In a calm negotiation a connection has something to do only in these stages.
LEMMA Busy ==
  ASSUME TypeOK, CalmInv, calm, NEW x \in Peer, NEW i \in Index, ops[x][i] # <<>>
  PROVE  /\ i = current[x] /\ creating[x] = {}
         /\ \/ /\ Offering(x) /\ offers[x] \in Number
               /\ Does(x, "createOffer", offers[x]) \/ Does(x, "setOffer", offers[x])
            \/ \E p \in Peer :
                  /\ x = Other(p) /\ p = Other(x)
                  /\ Answering(p) /\ offers[p] \in Number
                  /\ \/ Does(x, "setRemoteOffer", offers[p]) /\ Steady(x)
                     \/ /\ Does(x, "createAnswer", offers[p]) \/ Does(x, "setAnswer", offers[p])
                        /\ Awaits(x, OfferOf(p))
            \/ Answered(x) /\ offers[x] \in Number /\ Does(x, "setRemoteAnswer", offers[x])
<1>1. ~Free(x) /\ \A task, n : ~Creates(x, task, n)
  BY DEF Free, Creates
<1>2. i = current[x]
  BY DEF CalmInv, OneConnection
<1>3. PICK p \in Peer : Negotiating(p)
  BY <1>1 DEF CalmInv, Unbegun
<1>4. x = p \/ (x = Other(p) /\ p = Other(x))
  BY TwoPeers
<1>5. CASE x = p
  BY <1>1, <1>2, <1>3, <1>5 DEF Negotiating, Offering, Offered, Answering, Answered, Concluded, Does
<1>6. CASE x = Other(p) /\ p = Other(x)
  <2>1. Answering(p) /\ offers[p] \in Number
    BY <1>1, <1>3, <1>6 DEF Negotiating, Offering, Offered, Answered, Concluded
  <2>2. \/ Does(x, "setRemoteOffer", offers[p]) /\ Steady(x)
        \/ /\ Does(x, "createAnswer", offers[p]) \/ Does(x, "setAnswer", offers[p])
           /\ Awaits(x, OfferOf(p))
    BY <1>1, <1>6, <2>1 DEF Answering
  <2>3. creating[x] = {}
    BY <2>2 DEF Does
  <2> QED
    BY <1>2, <1>6, <2>1, <2>2, <2>3
<1> QED
  BY <1>4, <1>5, <1>6

LEMMA Single ==
  ASSUME NEW x \in Peer, NEW i \in Index, i = current[x], NEW o, NEW n, Does(x, o, n),
         NEW op, Running(x, i, op)
  PROVE  op = o /\ Arg(x, i) = n /\ Tail(ops[x][i]) = <<>>
<1>1. ops[x][i] = <<[op |-> o, n |-> n]>>
  BY DEF Does
<1>2. PICK e : e = [op |-> o, n |-> n]
  OBVIOUS
<1>3. Head(<<e>>) = e /\ Tail(<<e>>) = <<>>
  OBVIOUS
<1> QED
  BY <1>1, <1>2, <1>3 DEF Running, Arg

\* The stage a running operation belongs to.
LEMMA BusyWith ==
  ASSUME TypeOK, CalmInv, calm, NEW x \in Peer, NEW i \in Index, NEW op, Running(x, i, op)
  PROVE  /\ i = current[x] /\ creating[x] = {} /\ Tail(ops[x][i]) = <<>>
         /\ op \in {"createOffer", "setOffer"} =>
                Offering(x) /\ Arg(x, i) = offers[x] /\ offers[x] \in Number
         /\ op \in {"setRemoteOffer", "createAnswer", "setAnswer"} =>
                /\ Answering(Other(x)) /\ x = Other(Other(x))
                /\ Arg(x, i) = offers[Other(x)] /\ offers[Other(x)] \in Number
                /\ IF op = "setRemoteOffer" THEN Steady(x) ELSE Awaits(x, OfferOf(Other(x)))
         /\ op = "setRemoteAnswer" =>
                /\ Answered(x) /\ Does(x, op, offers[x])
                /\ Arg(x, i) = offers[x] /\ offers[x] \in Number
         /\ op # "rollback"
<1>1. ops[x][i] # <<>>
  BY DEF Running
<1>2. i = current[x] /\ creating[x] = {}
  BY <1>1, Busy
<1>3. ASSUME NEW o, NEW n, Does(x, o, n)
      PROVE  op = o /\ Arg(x, i) = n /\ Tail(ops[x][i]) = <<>>
  BY <1>2, <1>3, Single
<1>4. CASE /\ Offering(x) /\ offers[x] \in Number
           /\ Does(x, "createOffer", offers[x]) \/ Does(x, "setOffer", offers[x])
  <2>1. /\ op \in {"createOffer", "setOffer"}
        /\ Arg(x, i) = offers[x] /\ Tail(ops[x][i]) = <<>>
    BY <1>3, <1>4
  <2> QED
    BY <1>2, <1>4, <2>1
<1>5. CASE \E p \in Peer :
              /\ x = Other(p) /\ p = Other(x)
              /\ Answering(p) /\ offers[p] \in Number
              /\ \/ Does(x, "setRemoteOffer", offers[p]) /\ Steady(x)
                 \/ /\ Does(x, "createAnswer", offers[p]) \/ Does(x, "setAnswer", offers[p])
                    /\ Awaits(x, OfferOf(p))
  <2>1. PICK p : p = Other(x)
    OBVIOUS
  <2>2. /\ x = Other(p) /\ Answering(p) /\ offers[p] \in Number
        /\ \/ Does(x, "setRemoteOffer", offers[p]) /\ Steady(x)
           \/ /\ Does(x, "createAnswer", offers[p]) \/ Does(x, "setAnswer", offers[p])
              /\ Awaits(x, OfferOf(p))
    BY <1>5, <2>1
  <2>3. CASE Does(x, "setRemoteOffer", offers[p]) /\ Steady(x)
    <3>1. op = "setRemoteOffer" /\ Arg(x, i) = offers[p] /\ Tail(ops[x][i]) = <<>>
      BY <1>3, <2>3
    <3> QED
      BY <1>2, <2>1, <2>2, <2>3, <3>1
  <2>4. CASE /\ Does(x, "createAnswer", offers[p]) \/ Does(x, "setAnswer", offers[p])
             /\ Awaits(x, OfferOf(p))
    <3>1. /\ op \in {"createAnswer", "setAnswer"}
          /\ Arg(x, i) = offers[p] /\ Tail(ops[x][i]) = <<>>
      BY <1>3, <2>4
    <3> QED
      BY <1>2, <2>1, <2>2, <2>4, <3>1
  <2> QED
    BY <2>2, <2>3, <2>4
<1>6. CASE Answered(x) /\ offers[x] \in Number /\ Does(x, "setRemoteAnswer", offers[x])
  <2>1. op = "setRemoteAnswer" /\ Arg(x, i) = offers[x] /\ Tail(ops[x][i]) = <<>>
    BY <1>3, <1>6
  <2> QED
    BY <1>2, <1>6, <2>1
<1> QED
  BY <1>1, <1>4, <1>5, <1>6, Busy

\* An operation is one peer's business.
LEMMA CalmOperation ==
  ASSUME TypeOK, CalmInv, calm, NEW x \in Peer, NEW i \in Index, i = current[x],
         creating[x] = {}, UNCHANGED <<current, created, creating>>,
         NEW s, ops' = [ops EXCEPT ![x][i] = s],
         \A y \in Peer, j \in Index : y # x \/ j # i => conns'[y][j] = conns[y][j]
  PROVE  /\ SideUntouched(Other(x))
         /\ \A y \in Peer : OneConnection(y)'
         /\ s = <<>> => Free(x)'
         /\ \A op, n : s = <<[op |-> op, n |-> n]>> => Does(x, op, n)'
<1>1. /\ ops'[x][i] = s
      /\ \A y \in Peer, j \in Index : y # x \/ j # i => ops'[y][j] = ops[y][j]
  <2>1. ops \in Queues
    BY Typed
  <2> QED
    BY <2>1 DEF Queues
<1>2. Other(x) \in Peer /\ Other(x) # x /\ \A y \in Peer : y = x \/ y = Other(x)
  BY OtherPeer, TwoPeers
<1>3. SideUntouched(Other(x))
  BY <1>1, <1>2 DEF SideUntouched
<1>4. OneConnection(Other(x))'
  BY <1>2, <1>3, SideKept DEF CalmInv
<1>5. OneConnection(x)'
  <2>1. OneConnection(x)
    BY DEF CalmInv
  <2> QED
    BY <1>1, <2>1 DEF OneConnection, Index
<1>6. \A j \in Index : j # i => ops'[x][j] = <<>>
  <2>1. OneConnection(x)
    BY DEF CalmInv
  <2> QED
    BY <1>1, <2>1 DEF OneConnection
<1>7. s = <<>> => Free(x)'
  BY <1>1, <1>6 DEF Free, Index
<1>8. current[x] # 0
  BY DEF Index
<1>9. \A op, n : s = <<[op |-> op, n |-> n]>> => Does(x, op, n)'
  BY <1>1, <1>8 DEF Does
<1> QED
  BY <1>2, <1>3, <1>4, <1>5, <1>7, <1>9

LEMMA FinishCalm ==
  ASSUME NEW x, NEW i, Finish(x, i), Tail(ops[x][i]) = <<>>
  PROVE  ops' = [ops EXCEPT ![x][i] = <<>>]
BY DEF Finish

LEMMA ProceedCalm ==
  ASSUME NEW x, NEW i, NEW next, NEW n, Proceed(x, i, next, n), Tail(ops[x][i]) = <<>>
  PROVE  ops' = [ops EXCEPT ![x][i] = <<[op |-> next, n |-> n]>>]
<1>1. PICK e : e = [op |-> next, n |-> n]
  OBVIOUS
<1>2. Append(<<>>, e) = <<e>>
  OBVIOUS
<1> QED
  BY <1>1, <1>2 DEF Proceed

LEMMA CreateOfferCalm ==
  ASSUME TypeOK, CalmInv, NEW x \in Peer, NEW i \in Index, CreateOffer(x, i)
  PROVE  CalmInv'
<1> SUFFICES ASSUME calm PROVE CalmInv'
  BY DEF CreateOffer, CalmInv
<1>1. /\ i = current[x] /\ creating[x] = {} /\ Tail(ops[x][i]) = <<>>
      /\ Offering(x) /\ Arg(x, i) = offers[x] /\ offers[x] \in Number
  BY BusyWith DEF CreateOffer
<1>2. PICK n : n = offers[x]
  OBVIOUS
<1>3. ops' = [ops EXCEPT ![x][i] = <<[op |-> "setOffer", n |-> n]>>]
  BY <1>1, <1>2, ProceedCalm DEF CreateOffer
<1>4. UNCHANGED <<current, created, conns, creating, offers, lastOffer, lastAnswer, answered, chan>>
  BY DEF CreateOffer, pcVars, stateVars, ghostVars
<1>5. /\ SideUntouched(Other(x)) /\ \A y \in Peer : OneConnection(y)'
      /\ Does(x, "setOffer", n)'
  BY <1>1, <1>3, <1>4, CalmOperation
<1>6. \A y \in Peer : NumbersUntouched(y)
  BY <1>4 DEF NumbersUntouched
<1>7. \A y \in Peer : OffersKnown(y)'
  BY <1>6, NumbersKept DEF CalmInv
<1>8. Offering(x)'
  <2>1. Other(x) \in Peer
    BY OtherPeer
  <2>2. Free(Other(x))' /\ Steady(Other(x))'
    BY <1>1, <1>5, <2>1, SideKept DEF Offering
  <2>3. Steady(x)'
    <3>1. Steady(x)
      BY <1>1 DEF Offering
    <3> QED
      BY <1>4, <3>1 DEF Steady, Stable
  <2>4. Sdps(x)' = {} /\ Sdps(Other(x))' = {}
    BY <1>1, <1>4 DEF Offering, Sdps
  <2>5. (lastOffer[Other(x)] # offers[x])' /\ Unanswered(x)'
    BY <1>1, <1>6, NumbersKept DEF Offering
  <2> QED
    BY <1>2, <1>4, <1>5, <2>2, <2>3, <2>4, <2>5 DEF Offering
<1>9. Negotiating(x)'
  BY <1>1, <1>4, <1>8 DEF Negotiating, Number
<1> QED
  BY <1>5, <1>7, <1>9 DEF CalmInv

LEMMA RollbackCalm ==
  ASSUME TypeOK, CalmInv, NEW x \in Peer, NEW i \in Index, Rollback(x, i)
  PROVE  CalmInv'
<1>1. ~calm
  BY BusyWith DEF Rollback
<1> QED
  BY <1>1 DEF Rollback, CalmInv

LEMMA OfferIsSdp ==
  ASSUME NEW p \in Peer, offers[p] \in Number
  PROVE  OfferOf(p) # NoSdp /\ OfferOf(p).from = p /\ OfferOf(p).n = offers[p]
<1>1. OfferOf(p) \in Sdp
  BY DEF OfferOf, Sdp
<1> QED
  BY <1>1, NoSdpAssumption DEF OfferOf

\* Offering becomes Offered.
LEMMA SetOfferCalm ==
  ASSUME TypeOK, CalmInv, NEW x \in Peer, NEW i \in Index, SetOffer(x, i)
  PROVE  CalmInv'
<1> SUFFICES ASSUME calm PROVE CalmInv'
  BY DEF SetOffer, CalmInv
<1>1. /\ i = current[x] /\ creating[x] = {} /\ Tail(ops[x][i]) = <<>>
      /\ Offering(x) /\ Arg(x, i) = offers[x] /\ offers[x] \in Number
  BY BusyWith DEF SetOffer
<1>2. PICK q : q = Other(x)
  OBVIOUS
<1>3. q \in Peer /\ q # x
  BY <1>2, OtherPeer
<1>4. ops' = [ops EXCEPT ![x][i] = <<>>]
  BY <1>1, FinishCalm DEF SetOffer
<1>5. UNCHANGED <<current, created, creating, offers, lastOffer, lastAnswer, answered>>
  BY DEF SetOffer, ghostVars
<1>6. ~HaveRemoteOffer(x, i)
  BY <1>1 DEF Offering, Steady, HaveRemoteOffer, Index
<1>7. PICK c : /\ c = [conns[x][i] EXCEPT !.pending = OfferOf(x)]
               /\ conns' = [conns EXCEPT ![x][i] = c]
  BY <1>1, <1>6 DEF SetOffer, OfferOf
<1>8. SendSdp(x, "offer", offers[x])
  BY <1>1, <1>6 DEF SetOffer
<1>9. /\ conns'[x][i] = c
      /\ \A y \in Peer, j \in Index : y # x \/ j # i => conns'[y][j] = conns[y][j]
  <2>1. conns \in Conns
    BY Typed
  <2> QED
    BY <1>7, <2>1 DEF Conns
<1>10. SideUntouched(q) /\ (\A y \in Peer : OneConnection(y)') /\ Free(x)'
  BY <1>1, <1>2, <1>4, <1>5, <1>9, CalmOperation
<1>11. \A y \in Peer : NumbersUntouched(y)
  BY <1>5 DEF NumbersUntouched
<1>12. \A y \in Peer : OffersKnown(y)'
  BY <1>11, NumbersKept DEF CalmInv
<1>13. Awaits(x, OfferOf(x))'
  <2>1. conns[x][i] \in Conn
    BY Typed DEF Conns
  <2>2. c.pending = OfferOf(x)
    BY <1>7, <2>1 DEF Conn
  <2>3. OfferOf(x)' = OfferOf(x)
    BY <1>5 DEF OfferOf
  <2> QED
    BY <1>1, <1>5, <1>9, <2>2, <2>3 DEF Awaits, Index
<1>14. Free(q)' /\ Steady(q)'
  BY <1>1, <1>2, <1>3, <1>10, SideKept DEF Offering
<1>15. Sdps(x)' = {} /\ Sdps(q)' \subseteq OfferEvents(x)'
  <2>1. Sdps(x) = {} /\ Sdps(q) = {}
    BY <1>1, <1>2 DEF Offering
  <2>2. chan \in Channels
    BY Typed
  <2> QED
    BY <1>2, <1>5, <1>8, <2>1, <2>2, SendSdps DEF OfferEvents
<1>16. (lastOffer[q] # offers[x])' /\ Unanswered(x)'
  <2>1. lastOffer[q] # offers[x] /\ Unanswered(x)
    BY <1>1, <1>2 DEF Offering
  <2> QED
    BY <1>5, <1>11, <2>1, NumbersKept
<1>17. Offered(x)'
  BY <1>2, <1>10, <1>13, <1>14, <1>15, <1>16 DEF Offered
<1>18. Negotiating(x)'
  BY <1>1, <1>5, <1>17 DEF Negotiating, Number
<1> QED
  BY <1>10, <1>12, <1>18 DEF CalmInv

\* Answering stays Answering until the answer is set.
LEMMA SetRemoteOfferCalm ==
  ASSUME TypeOK, CalmInv, NEW x \in Peer, NEW i \in Index, SetRemoteOffer(x, i)
  PROVE  CalmInv'
<1> SUFFICES ASSUME calm PROVE CalmInv'
  BY DEF SetRemoteOffer, CalmInv
<1>1. PICK p, n : p = Other(x) /\ n = offers[p]
  OBVIOUS
<1>2. /\ i = current[x] /\ creating[x] = {} /\ Tail(ops[x][i]) = <<>>
      /\ Answering(p) /\ x = Other(p) /\ Arg(x, i) = n /\ n \in Number /\ Steady(x)
  BY <1>1, BusyWith DEF SetRemoteOffer
<1>3. p \in Peer /\ p # x
  BY <1>1, OtherPeer
<1>4. UNCHANGED <<current, created, creating, offers, lastOffer, lastAnswer, answered, chan>>
  BY DEF SetRemoteOffer, ghostVars, stateVars
<1>5. ~HaveLocalOffer(x, i)
  BY <1>2 DEF Steady, HaveLocalOffer, Index
<1>6. ops' = [ops EXCEPT ![x][i] = <<[op |-> "createAnswer", n |-> n]>>]
  BY <1>2, <1>5, ProceedCalm DEF SetRemoteOffer
<1>7. PICK c : /\ c = [conns[x][i] EXCEPT !.pending = OfferOf(p)]
               /\ conns' = [conns EXCEPT ![x][i] = c]
  BY <1>1, <1>2, <1>5 DEF SetRemoteOffer, OfferOf
<1>8. /\ conns'[x][i] = c
      /\ \A y \in Peer, j \in Index : y # x \/ j # i => conns'[y][j] = conns[y][j]
  <2>1. conns \in Conns
    BY Typed
  <2> QED
    BY <1>7, <2>1 DEF Conns
<1>9. SideUntouched(p) /\ (\A y \in Peer : OneConnection(y)') /\ Does(x, "createAnswer", n)'
  BY <1>1, <1>2, <1>4, <1>6, <1>8, CalmOperation
<1>10. \A y \in Peer : NumbersUntouched(y)
  BY <1>4 DEF NumbersUntouched
<1>11. \A y \in Peer : OffersKnown(y)'
  BY <1>10, NumbersKept DEF CalmInv
<1>12. Awaits(x, OfferOf(p))'
  <2>1. conns[x][i] \in Conn
    BY Typed DEF Conns
  <2>2. c.pending = OfferOf(p)
    BY <1>7, <2>1 DEF Conn
  <2>3. OfferOf(p)' = OfferOf(p)
    BY <1>4 DEF OfferOf
  <2> QED
    BY <1>2, <1>4, <1>8, <2>2, <2>3 DEF Awaits, Index
<1>13. Answering(p)'
  <2>1. Free(p)' /\ Awaits(p, OfferOf(p))'
    <3>1. OfferOf(p)' = OfferOf(p)
      BY <1>4 DEF OfferOf
    <3> QED
      BY <1>2, <1>3, <1>9, <3>1, SideKept DEF Answering
  <2>2. Sdps(p)' = {} /\ Sdps(x)' \subseteq OfferEvents(p)'
    BY <1>2, <1>4 DEF Answering, Sdps, OfferEvents
  <2>3. (lastOffer[x] = offers[p])' /\ Unanswered(p)'
    BY <1>2, <1>3, <1>4, <1>10, NumbersKept DEF Answering
  <2> QED
    BY <1>1, <1>2, <1>4, <1>9, <1>12, <2>1, <2>2, <2>3 DEF Answering
<1>14. Negotiating(p)'
  BY <1>1, <1>2, <1>4, <1>13 DEF Negotiating, Number
<1> QED
  BY <1>3, <1>9, <1>11, <1>14 DEF CalmInv

LEMMA CreateAnswerCalm ==
  ASSUME TypeOK, CalmInv, NEW x \in Peer, NEW i \in Index, CreateAnswer(x, i)
  PROVE  CalmInv'
<1> SUFFICES ASSUME calm PROVE CalmInv'
  BY DEF CreateAnswer, CalmInv
<1>1. PICK p, n : p = Other(x) /\ n = offers[p]
  OBVIOUS
<1>2. /\ i = current[x] /\ creating[x] = {} /\ Tail(ops[x][i]) = <<>>
      /\ Answering(p) /\ x = Other(p) /\ n \in Number /\ Awaits(x, OfferOf(p))
  BY <1>1, BusyWith DEF CreateAnswer
<1>3. p \in Peer /\ p # x
  BY <1>1, OtherPeer
<1>4. UNCHANGED <<current, created, conns, creating, offers, lastOffer, lastAnswer, answered, chan>>
  BY DEF CreateAnswer, ghostVars, stateVars, pcVars
<1>5. HaveRemoteOffer(x, i) /\ conns[x][i].pending.n = n
  BY <1>1, <1>2, <1>3, OfferIsSdp DEF Awaits, HaveRemoteOffer, Stable
<1>6. ops' = [ops EXCEPT ![x][i] = <<[op |-> "setAnswer", n |-> n]>>]
  BY <1>2, <1>5, ProceedCalm DEF CreateAnswer
<1>7. SideUntouched(p) /\ (\A y \in Peer : OneConnection(y)') /\ Does(x, "setAnswer", n)'
  BY <1>1, <1>2, <1>4, <1>6, CalmOperation
<1>8. \A y \in Peer : NumbersUntouched(y)
  BY <1>4 DEF NumbersUntouched
<1>9. \A y \in Peer : OffersKnown(y)'
  BY <1>8, NumbersKept DEF CalmInv
<1>10. Answering(p)'
  <2>1. OfferOf(p)' = OfferOf(p)
    BY <1>4 DEF OfferOf
  <2>2. Free(p)' /\ Awaits(p, OfferOf(p))'
    BY <1>2, <1>3, <1>7, <2>1, SideKept DEF Answering
  <2>3. Awaits(x, OfferOf(p))'
    BY <1>2, <1>4, <2>1 DEF Awaits
  <2>4. Sdps(p)' = {} /\ Sdps(x)' \subseteq OfferEvents(p)'
    BY <1>2, <1>4 DEF Answering, Sdps, OfferEvents
  <2>5. (lastOffer[x] = offers[p])' /\ Unanswered(p)'
    BY <1>2, <1>3, <1>4, <1>8, NumbersKept DEF Answering
  <2> QED
    BY <1>1, <1>2, <1>4, <1>7, <2>2, <2>3, <2>4, <2>5 DEF Answering
<1>11. Negotiating(p)'
  BY <1>1, <1>2, <1>4, <1>10 DEF Negotiating, Number
<1> QED
  BY <1>3, <1>7, <1>9, <1>11 DEF CalmInv

\* Answering becomes Answered.
LEMMA SetAnswerCalm ==
  ASSUME TypeOK, CalmInv, NEW x \in Peer, NEW i \in Index, SetAnswer(x, i)
  PROVE  CalmInv'
<1> SUFFICES ASSUME calm PROVE CalmInv'
  BY DEF SetAnswer, AnswerSet, CalmInv
<1>1. PICK p, n : p = Other(x) /\ n = offers[p]
  OBVIOUS
<1>2. /\ i = current[x] /\ creating[x] = {} /\ Tail(ops[x][i]) = <<>>
      /\ Answering(p) /\ x = Other(p) /\ Arg(x, i) = n /\ n \in Number /\ Awaits(x, OfferOf(p))
  BY <1>1, BusyWith DEF SetAnswer, AnswerSet
<1>3. p \in Peer /\ p # x
  BY <1>1, OtherPeer
<1>4. UNCHANGED <<current, created, creating, offers, lastOffer, lastAnswer>>
  BY DEF SetAnswer, AnswerSet, stateVars
<1>5. HaveRemoteOffer(x, i) /\ conns[x][i].pending = OfferOf(p)
  BY <1>1, <1>2, <1>3, OfferIsSdp DEF Awaits, HaveRemoteOffer, Stable
<1>6. ops' = [ops EXCEPT ![x][i] = <<>>]
  BY <1>2, FinishCalm DEF SetAnswer, AnswerSet
<1>7. PICK c : /\ c = [pending |-> NoSdp, remote |-> OfferOf(p),
                       local |-> [from |-> x, type |-> "answer", n |-> n]]
               /\ conns' = [conns EXCEPT ![x][i] = c]
  BY <1>2, <1>5 DEF SetAnswer, AnswerSet
<1>8. /\ conns'[x][i] = c
      /\ \A y \in Peer, j \in Index : y # x \/ j # i => conns'[y][j] = conns[y][j]
  <2>1. conns \in Conns
    BY Typed
  <2> QED
    BY <1>7, <2>1 DEF Conns
<1>9. SendSdp(x, "answer", n) /\ answered' = [answered EXCEPT ![x][n] = @ + 1]
  BY <1>2, <1>5 DEF SetAnswer, AnswerSet
<1>10. SideUntouched(p) /\ (\A y \in Peer : OneConnection(y)') /\ Free(x)'
  BY <1>1, <1>2, <1>4, <1>6, <1>8, CalmOperation
<1>11. Unanswered(p) /\ lastOffer[x] = n
  BY <1>1, <1>2 DEF Answering
<1>12. answered'[p] = answered[p] /\ answered'[x][n] = 1
       /\ \A m \in Number : m # n => answered'[x][m] = answered[x][m]
  <2>1. answered[x][n] = 0
    BY <1>1, <1>2, <1>11 DEF Unanswered
  <2>2. answered \in [Peer -> [Number -> Nat]]
    BY DEF TypeOK
  <2> QED
    BY <1>2, <1>3, <1>9, <2>1, <2>2
<1>13. OffersKnown(x)'
  <2>1. NumbersUntouched(x)
    BY <1>1, <1>4, <1>12 DEF NumbersUntouched
  <2> QED
    BY <2>1, NumbersKept DEF CalmInv
<1>14. OffersKnown(p)'
  <2>1. OffersKnown(p)
    BY <1>3 DEF CalmInv
  <2>2. ASSUME NEW m \in Number
        PROVE  answered'[x][m] <= 1 /\ (m > offers[p] => answered'[x][m] = 0)
    <3>1. CASE m = n
      BY <1>1, <1>12, <3>1 DEF Number
    <3>2. CASE m # n
      BY <1>2, <1>12, <2>1, <3>2 DEF OffersKnown
    <3> QED
      BY <3>1, <3>2
  <2> QED
    BY <1>2, <1>4, <2>1, <2>2 DEF OffersKnown, Number
<1>15. HasSession(x, AnswerTo(p), OfferOf(p))'
  <2>1. OfferOf(p)' = OfferOf(p) /\ AnswerTo(p)' = [from |-> x, type |-> "answer", n |-> n]
    BY <1>1, <1>2, <1>4 DEF OfferOf, AnswerTo
  <2> QED
    BY <1>2, <1>4, <1>7, <1>8, <2>1 DEF HasSession, Index
<1>16. Awaits(p, OfferOf(p))' /\ Free(p)'
  <2>1. OfferOf(p)' = OfferOf(p)
    BY <1>4 DEF OfferOf
  <2> QED
    BY <1>2, <1>3, <1>10, <2>1, SideKept DEF Answering
<1>17. Sdps(x)' \subseteq OfferEvents(p)' /\ Sdps(p)' \subseteq AnswerEvents(p)'
  <2>1. Sdps(p) = {} /\ Sdps(x) \subseteq OfferEvents(p)
    BY <1>2 DEF Answering
  <2>2. chan \in Channels
    BY Typed
  <2>3. Sdps(x)' = Sdps(x) /\ Sdps(p)' \subseteq {[type |-> "answer", n |-> n]}
    BY <1>1, <1>9, <2>1, <2>2, SendSdps
  <2> QED
    BY <1>1, <1>4, <2>1, <2>3 DEF OfferEvents, AnswerEvents
<1>18. (lastAnswer[p] # offers[p])' /\ (lastOffer[x] = offers[p])'
  BY <1>1, <1>4, <1>11 DEF Unanswered
<1>19. Answered(p)'
  BY <1>2, <1>10, <1>15, <1>16, <1>17, <1>18 DEF Answered
<1>20. Negotiating(p)'
  BY <1>1, <1>2, <1>4, <1>19 DEF Negotiating, Number
<1> QED
  BY <1>1, <1>3, <1>10, <1>13, <1>14, <1>20, TwoPeers DEF CalmInv

\* Answered becomes Concluded.
LEMMA SetRemoteAnswerCalm ==
  ASSUME TypeOK, CalmInv, NEW x \in Peer, NEW i \in Index, SetRemoteAnswer(x, i)
  PROVE  CalmInv'
<1> SUFFICES ASSUME calm PROVE CalmInv'
  BY DEF SetRemoteAnswer, CalmInv
<1>1. PICK q, n : q = Other(x) /\ n = offers[x]
  OBVIOUS
<1>2. /\ i = current[x] /\ creating[x] = {} /\ Tail(ops[x][i]) = <<>>
      /\ Answered(x) /\ Does(x, "setRemoteAnswer", n) /\ Arg(x, i) = n /\ n \in Number
  BY <1>1, BusyWith DEF SetRemoteAnswer
<1>3. q \in Peer /\ q # x
  BY <1>1, OtherPeer
<1>4. UNCHANGED <<current, created, creating, offers, lastOffer, lastAnswer, answered, chan>>
  BY DEF SetRemoteAnswer, stateVars, ghostVars
<1>5. HaveLocalOffer(x, i) /\ conns[x][i].pending = OfferOf(x)
  <2>1. Awaits(x, OfferOf(x))
    BY <1>2 DEF Answered
  <2> QED
    BY <1>1, <1>2, <2>1, OfferIsSdp DEF Awaits, HaveLocalOffer, Stable
<1>6. ops' = [ops EXCEPT ![x][i] = <<>>]
  BY <1>2, FinishCalm DEF SetRemoteAnswer
<1>7. PICK c : /\ c = [pending |-> NoSdp, local |-> OfferOf(x),
                       remote |-> [from |-> q, type |-> "answer", n |-> n]]
               /\ conns' = [conns EXCEPT ![x][i] = c]
  BY <1>1, <1>2, <1>5 DEF SetRemoteAnswer
<1>8. /\ conns'[x][i] = c
      /\ \A y \in Peer, j \in Index : y # x \/ j # i => conns'[y][j] = conns[y][j]
  <2>1. conns \in Conns
    BY Typed
  <2> QED
    BY <1>7, <2>1 DEF Conns
<1>9. SideUntouched(q) /\ (\A y \in Peer : OneConnection(y)') /\ Free(x)'
  BY <1>1, <1>2, <1>4, <1>6, <1>8, CalmOperation
<1>10. \A y \in Peer : NumbersUntouched(y)
  BY <1>4 DEF NumbersUntouched
<1>11. \A y \in Peer : OffersKnown(y)'
  BY <1>10, NumbersKept DEF CalmInv
<1>12. lastAnswer[x] = offers[x] /\ lastOffer[q] = offers[x]
  BY <1>1, <1>2 DEF Answered, Free, Does, Index
<1>13. OfferOf(x)' = OfferOf(x) /\ AnswerTo(x)' = AnswerTo(x)
       /\ AnswerTo(x) = [from |-> q, type |-> "answer", n |-> n]
  BY <1>1, <1>4 DEF OfferOf, AnswerTo
<1>14. HasSession(x, OfferOf(x), AnswerTo(x))'
  BY <1>2, <1>4, <1>7, <1>8, <1>13 DEF HasSession, Index
<1>15. Free(q)' /\ HasSession(q, AnswerTo(x), OfferOf(x))'
  BY <1>1, <1>2, <1>3, <1>9, <1>13, SideKept DEF Answered
<1>16. Sdps(x)' \subseteq AnswerEvents(x)' /\ Sdps(q)' \subseteq OfferEvents(x)'
  BY <1>1, <1>2, <1>4 DEF Answered, Sdps, OfferEvents, AnswerEvents
<1>17. Concluded(x)'
  BY <1>1, <1>4, <1>9, <1>12, <1>14, <1>15, <1>16 DEF Concluded
<1>18. Negotiating(x)'
  BY <1>1, <1>2, <1>4, <1>17 DEF Negotiating, Number
<1> QED
  BY <1>9, <1>11, <1>18 DEF CalmInv

\* A peer with nothing to do makes no offer.
LEMMA NotMaking ==
  ASSUME MakingOfferIsBacked, NEW x \in Peer, \A i \in Index : ops[x][i] = <<>>,
         \A c \in creating[x] : c.task # "offer", making[x] \in BOOLEAN
  PROVE  making[x] = FALSE
BY DEF MakingOfferIsBacked

\* Offered becomes Answering; a copy changes nothing.
LEMMA OfferArrivesCalm ==
  ASSUME TypeOK, MakingOfferIsBacked, CalmInv, NEW x \in Peer, OfferArrives(x)
  PROVE  CalmInv'
<1> SUFFICES ASSUME calm PROVE CalmInv'
  BY DEF OfferArrives, OfferEvent, CalmInv
<1>1. PICK e : e = Head(chan[x])
  OBVIOUS
<1>2. /\ chan[x] # <<>> /\ e.type = "offer" /\ Consume(x)
      /\ UNCHANGED <<current, created, conns, offers, lastAnswer, answered, calm>>
  BY <1>1 DEF OfferArrives, OfferEvent, Arrives, pcVars, ghostVars
<1>3. NoNewSdps /\ e \in Sdps(x)
  <2>1. chan \in Channels
    BY Typed
  <2> QED
    BY <1>1, <1>2, <2>1, ConsumeSdps
<1>4. CASE lastOffer[x] = e.n
  <2>1. UNCHANGED <<lastOffer, ops, creating>>
    BY <1>1, <1>4 DEF OfferArrives, OfferEvent
  <2>2. \A y \in Peer : SideUntouched(y) /\ NumbersUntouched(y)
    BY <1>2, <2>1 DEF SideUntouched, NumbersUntouched
  <2> QED
    BY <1>2, <1>3, <2>2, CalmFrame
<1>5. CASE lastOffer[x] # e.n
  <2>1. NewOffer(x, e.n)
    BY <1>1, <1>5 DEF OfferArrives, OfferEvent
  <2>2. PICK p \in Peer : Negotiating(p)
    BY <1>3 DEF CalmInv, Unbegun
  <2>3. x # p
    BY <1>2, <1>3, <2>2
       DEF Negotiating, Offering, Offered, Answering, Answered, Concluded, AnswerEvents
  <2>4. x = Other(p) /\ p = Other(x)
    BY <2>3, TwoPeers
  <2>5. e \in OfferEvents(p) /\ offers[p] \in Number
    BY <1>3, <2>2, <2>4 DEF Negotiating, Offering, Offered, Answering, Answered, Concluded
  <2>6. PICK n : n = offers[p] /\ e.n = n /\ n \in Number
    BY <2>5 DEF OfferEvents
  <2>7. Offered(p)
    BY <1>3, <1>5, <2>2, <2>4, <2>6
       DEF Negotiating, Offering, Offered, Answering, Answered, Concluded
  <2>8. Free(x) /\ Steady(x)
    BY <2>4, <2>7 DEF Offered
  <2>9. making[x] = FALSE
    BY <2>8, NotMaking DEF Free, TypeOK
  <2>10. lastOffer' = [lastOffer EXCEPT ![x] = n]
    BY <2>1, <2>6 DEF NewOffer
  <2>11. lastOffer'[x] = n /\ lastOffer'[p] = lastOffer[p]
    BY <2>3, <2>10 DEF TypeOK
  <2>12. /\ SideUntouched(p) /\ \A y \in Peer : OneConnection(y)'
         /\ Creates(x, "handle", n)' \/ (Does(x, "setRemoteOffer", n)' /\ Steady(x)')
    <3>1. CASE current[x] = 0
      <4>1. /\ creating' = [creating EXCEPT ![x] = @ \cup {[task |-> "handle", n |-> n]}]
            /\ UNCHANGED ops
        BY <2>1, <2>6, <3>1 DEF NewOffer
      <4>2. creating'[x] = {[task |-> "handle", n |-> n]} /\ creating'[p] = creating[p]
        BY <2>3, <2>8, <4>1 DEF Free, TypeOK
      <4>3. SideUntouched(p)
        BY <1>2, <4>1, <4>2 DEF SideUntouched
      <4>4. OneConnection(p)'
        BY <4>3, SideKept DEF CalmInv
      <4>5. OneConnection(x)'
        <5>1. OneConnection(x)
          BY DEF CalmInv
        <5> QED
          BY <1>2, <3>1, <4>1, <5>1 DEF OneConnection, Index
      <4>6. Creates(x, "handle", n)'
        BY <2>8, <4>1, <4>2 DEF Creates, Free, Index
      <4> QED
        BY <2>4, <4>3, <4>4, <4>5, <4>6, TwoPeers
    <3>2. CASE current[x] # 0
      <4>1. PICK i \in Index : i = current[x]
        BY <3>2, Typed
      <4>2. ~HaveLocalOffer(x, current[x])
        BY <2>8, <3>2 DEF Steady, HaveLocalOffer
      <4>3. Request(x, i, "setRemoteOffer", n) /\ UNCHANGED creating
        BY <2>1, <2>6, <2>9, <3>2, <4>1, <4>2 DEF NewOffer, AcceptStep
      <4>4. ops' = [ops EXCEPT ![x][i] = <<[op |-> "setRemoteOffer", n |-> n]>>]
        <5>1. ops[x][i] = <<>>
          BY <2>8 DEF Free
        <5>2. PICK o : o = [op |-> "setRemoteOffer", n |-> n]
          OBVIOUS
        <5>3. Append(<<>>, o) = <<o>>
          OBVIOUS
        <5> QED
          BY <4>3, <5>1, <5>2, <5>3 DEF Request
      <4>5. creating[x] = {}
        BY <2>8 DEF Free
      <4>6. /\ SideUntouched(p) /\ \A y \in Peer : OneConnection(y)'
            /\ Does(x, "setRemoteOffer", n)'
        BY <1>2, <2>4, <4>1, <4>3, <4>4, <4>5, CalmOperation
      <4>7. Steady(x)'
        BY <1>2, <2>8 DEF Steady, Stable
      <4> QED
        BY <4>6, <4>7
    <3> QED
      BY <3>1, <3>2
  <2>13. OffersKnown(x)'
    <3>1. NumbersUntouched(x)
      BY <1>2, <2>4, <2>11 DEF NumbersUntouched
    <3> QED
      BY <3>1, NumbersKept DEF CalmInv
  <2>14. OffersKnown(p)'
    <3>1. OffersKnown(p)
      BY DEF CalmInv
    <3> QED
      BY <1>2, <2>4, <2>6, <2>11, <3>1 DEF OffersKnown, Number
  <2>15. Answering(p)'
    <3>1. OfferOf(p)' = OfferOf(p)
      BY <1>2 DEF OfferOf
    <3>2. Free(p)' /\ Awaits(p, OfferOf(p))'
      BY <2>7, <2>12, <3>1, SideKept DEF Offered
    <3>3. Sdps(p)' = {} /\ Sdps(x)' \subseteq OfferEvents(p)'
      BY <1>2, <1>3, <2>4, <2>7 DEF NoNewSdps, Offered, OfferEvents
    <3>4. (lastOffer[x] = offers[p])' /\ Unanswered(p)'
      BY <1>2, <2>4, <2>6, <2>7, <2>11 DEF Offered, Unanswered
    <3> QED
      BY <1>2, <2>4, <2>6, <2>12, <3>2, <3>3, <3>4 DEF Answering
  <2>16. Negotiating(p)'
    BY <1>2, <2>6, <2>15 DEF Negotiating, Number
  <2> QED
    BY <2>4, <2>12, <2>13, <2>14, <2>16, TwoPeers DEF CalmInv
<1> QED
  BY <1>4, <1>5

\* Answered awaits the answer that arrived; a copy changes nothing.
LEMMA AnswerArrivesCalm ==
  ASSUME TypeOK, CalmInv, NEW x \in Peer, AnswerArrives(x)
  PROVE  CalmInv'
<1> SUFFICES ASSUME calm PROVE CalmInv'
  BY DEF AnswerArrives, CalmInv
<1>1. PICK e : e = Head(chan[x])
  OBVIOUS
<1>2. /\ chan[x] # <<>> /\ e.type = "answer" /\ Consume(x)
      /\ lastAnswer' = [lastAnswer EXCEPT ![x] = e.n]
      /\ UNCHANGED <<current, created, conns, creating, offers, lastOffer, answered, calm>>
  BY <1>1 DEF AnswerArrives, Arrives, pcVars, ghostVars
<1>3. NoNewSdps /\ e \in Sdps(x)
  <2>1. chan \in Channels
    BY Typed
  <2> QED
    BY <1>1, <1>2, <2>1, ConsumeSdps
<1>4. PICK p \in Peer : Negotiating(p)
  BY <1>3 DEF CalmInv, Unbegun
<1>5. Other(p) \in Peer /\ Other(p) # p
  BY OtherPeer
<1>6. x # Other(p)
  BY <1>2, <1>3, <1>4
     DEF Negotiating, Offering, Offered, Answering, Answered, Concluded, OfferEvents
<1>7. x = p
  BY <1>6, TwoPeers
<1>8. e \in AnswerEvents(x) /\ (Answered(x) \/ Concluded(x)) /\ offers[x] \in Number
  BY <1>3, <1>4, <1>7 DEF Negotiating, Offering, Offered, Answering, Answered, Concluded
<1>9. e.n = offers[x] /\ lastAnswer'[x] = offers[x]
      /\ \A y \in Peer : y # x => lastAnswer'[y] = lastAnswer[y]
  BY <1>2, <1>8 DEF AnswerEvents, TypeOK
<1>10. PICK q : q = Other(x) /\ q \in Peer /\ q # x
  BY <1>5, <1>7
<1>11. CASE lastAnswer[x] = offers[x]
  <2>1. UNCHANGED ops
    BY <1>1, <1>9, <1>11 DEF AnswerArrives
  <2>2. \A y \in Peer : SideUntouched(y) /\ NumbersUntouched(y)
    BY <1>2, <1>9, <1>11, <2>1 DEF SideUntouched, NumbersUntouched
  <2> QED
    BY <1>2, <1>3, <2>2, CalmFrame
<1>12. CASE lastAnswer[x] # offers[x]
  <2>1. Answered(x) /\ Free(x) /\ Awaits(x, OfferOf(x))
    BY <1>8, <1>12 DEF Answered, Concluded
  <2>2. PICK i \in Index : i = current[x]
    BY <2>1, Typed DEF Awaits
  <2>3. current[x] # 0 /\ HaveLocalOffer(x, current[x])
    BY <1>8, <2>1, OfferIsSdp DEF Awaits, HaveLocalOffer, Stable
  <2>4. PICK n : n = offers[x]
    OBVIOUS
  <2>5. Request(x, i, "setRemoteAnswer", n)
    BY <1>1, <1>9, <1>12, <2>2, <2>3, <2>4 DEF AnswerArrives
  <2>6. ops' = [ops EXCEPT ![x][i] = <<[op |-> "setRemoteAnswer", n |-> n]>>]
    <3>1. ops[x][i] = <<>>
      BY <2>1 DEF Free
    <3>2. PICK o : o = [op |-> "setRemoteAnswer", n |-> n]
      OBVIOUS
    <3>3. Append(<<>>, o) = <<o>>
      OBVIOUS
    <3> QED
      BY <2>5, <3>1, <3>2, <3>3 DEF Request
  <2>7. /\ SideUntouched(q) /\ \A y \in Peer : OneConnection(y)'
        /\ Does(x, "setRemoteAnswer", n)'
    <3>1. creating[x] = {}
      BY <2>1 DEF Free
    <3> QED
      BY <1>2, <1>10, <2>2, <2>6, <3>1, CalmOperation
  <2>8. OffersKnown(q)'
    <3>1. NumbersUntouched(q)
      BY <1>2, <1>9, <1>10 DEF NumbersUntouched
    <3> QED
      BY <1>10, <3>1, NumbersKept DEF CalmInv
  <2>9. OffersKnown(x)'
    <3>1. OffersKnown(x)
      BY DEF CalmInv
    <3> QED
      BY <1>2, <1>8, <1>9, <3>1 DEF OffersKnown, Number
  <2>10. Answered(x)'
    <3>1. OfferOf(x)' = OfferOf(x) /\ AnswerTo(x)' = AnswerTo(x)
      BY <1>2 DEF OfferOf, AnswerTo
    <3>2. Awaits(x, OfferOf(x))'
      BY <1>2, <2>1, <3>1 DEF Awaits
    <3>3. Free(q)' /\ HasSession(q, AnswerTo(x), OfferOf(x))'
      BY <1>10, <2>1, <2>7, <3>1, SideKept DEF Answered
    <3>4. Sdps(x)' \subseteq AnswerEvents(x)' /\ Sdps(q)' \subseteq OfferEvents(x)'
      BY <1>2, <1>3, <1>10, <2>1 DEF Answered, NoNewSdps, OfferEvents, AnswerEvents
    <3>5. (lastOffer[q] = offers[x])' /\ (lastAnswer[x] = offers[x])'
      BY <1>2, <1>9, <1>10, <2>1 DEF Answered
    <3> QED
      BY <1>2, <1>10, <2>4, <2>7, <3>2, <3>3, <3>4, <3>5 DEF Answered
  <2>11. Negotiating(x)'
    BY <1>2, <1>8, <2>10 DEF Negotiating, Number
  <2> QED
    BY <1>10, <2>7, <2>8, <2>9, <2>11, TwoPeers DEF CalmInv
<1> QED
  BY <1>11, <1>12

\* The first connection is created for the one handler that waits for it.
LEMMA ConnectionCreatedCalm ==
  ASSUME TypeOK, MakingOfferIsBacked, CalmInv, NEW x \in Peer, NEW c \in creating[x],
         ConnectionCreated(x, c)
  PROVE  CalmInv'
<1> SUFFICES ASSUME calm PROVE CalmInv'
  BY DEF ConnectionCreated, CalmInv
<1>1. /\ OneConnection(x) /\ current[x] = 0 /\ created[x] = 0
      /\ \A i \in Index : ops[x][i] = <<>> /\ conns[x][i] = NewConn
  BY DEF CalmInv, OneConnection, Index
<1>2. /\ 1 \in Index
      /\ created' = [created EXCEPT ![x] = 1] /\ current' = [current EXCEPT ![x] = 1]
      /\ creating' = [creating EXCEPT ![x] = @ \ {c}]
      /\ UNCHANGED <<conns, offers, lastOffer, lastAnswer, answered, chan, calm>>
  BY <1>1 DEF ConnectionCreated, stateVars, ghostVars
<1>3. PICK q : q = Other(x) /\ q \in Peer /\ q # x /\ x = Other(q)
  BY OtherPeer, TwoPeers
<1>4. ~Free(x) /\ \A op, n : ~Does(x, op, n)
  BY <1>1 DEF Free, Does
<1>5. \/ Offering(x) /\ offers[x] \in Number /\ Creates(x, "offer", offers[x])
      \/ Answering(q) /\ offers[q] \in Number /\ Creates(x, "handle", offers[q])
  <2>1. PICK p \in Peer : Negotiating(p)
    BY <1>4 DEF CalmInv, Unbegun
  <2>2. CASE p = x
    BY <1>4, <2>1, <2>2 DEF Negotiating, Offering, Offered, Answering, Answered, Concluded
  <2>3. CASE p = q
    BY <1>3, <1>4, <2>1, <2>3 DEF Negotiating, Offering, Offered, Answering, Answered, Concluded
  <2> QED
    BY <1>3, <2>1, <2>2, <2>3, TwoPeers
<1>6. PICK op, n : /\ n = c.n /\ Request(x, 1, op, n)
                   /\ creating[x] = {c}
                   /\ \/ /\ op = "createOffer" /\ n = offers[x]
                         /\ Offering(x) /\ offers[x] \in Number
                      \/ /\ op = "setRemoteOffer" /\ n = offers[q]
                         /\ Answering(q) /\ offers[q] \in Number
  <2>1. CASE Offering(x) /\ offers[x] \in Number /\ Creates(x, "offer", offers[x])
    <3>1. c.task = "offer" /\ c.n = offers[x] /\ creating[x] = {c}
      BY <2>1 DEF Creates
    <3>2. Request(x, 1, "createOffer", c.n)
      BY <1>1, <3>1 DEF ConnectionCreated
    <3> QED
      BY <2>1, <3>1, <3>2
  <2>2. CASE Answering(q) /\ offers[q] \in Number /\ Creates(x, "handle", offers[q])
    <3>1. c.task = "handle" /\ c.n = offers[q] /\ creating[x] = {c}
      BY <2>2 DEF Creates
    <3>2. making[x] = FALSE
      BY <1>1, <3>1, NotMaking DEF TypeOK
    <3>3. Request(x, 1, "setRemoteOffer", c.n)
      BY <1>1, <3>1, <3>2 DEF ConnectionCreated, AcceptStep
    <3> QED
      BY <2>2, <3>1, <3>3
  <2> QED
    BY <1>5, <2>1, <2>2
<1>7. PICK s : s = <<[op |-> op, n |-> n]>> /\ ops' = [ops EXCEPT ![x][1] = s]
  <2>1. ops[x][1] = <<>>
    BY <1>1, <1>2
  <2>2. PICK o : o = [op |-> op, n |-> n]
    OBVIOUS
  <2>3. Append(<<>>, o) = <<o>>
    OBVIOUS
  <2> QED
    BY <1>6, <2>1, <2>2, <2>3 DEF Request
<1>8. /\ ops'[x][1] = s
      /\ \A y \in Peer, j \in Index : y # x \/ j # 1 => ops'[y][j] = ops[y][j]
  <2>1. ops \in Queues
    BY Typed
  <2> QED
    BY <1>2, <1>7, <2>1 DEF Queues
<1>9. /\ created'[x] = 1 /\ current'[x] = 1 /\ creating'[x] = {}
      /\ created'[q] = created[q] /\ current'[q] = current[q] /\ creating'[q] = creating[q]
  BY <1>2, <1>3, <1>6 DEF TypeOK
<1>10. Does(x, op, n)'
  BY <1>7, <1>8, <1>9 DEF Does
<1>11. OneConnection(x)'
  BY <1>1, <1>2, <1>8, <1>9 DEF OneConnection, Index
<1>12. Steady(x)'
  BY <1>1, <1>2, <1>9 DEF Steady, Stable, NewConn
<1>13. SideUntouched(q)
  BY <1>2, <1>3, <1>8, <1>9 DEF SideUntouched
<1>14. OneConnection(q)'
  BY <1>3, <1>13, SideKept DEF CalmInv
<1>15. \A y \in Peer : NumbersUntouched(y)
  BY <1>2 DEF NumbersUntouched
<1>16. \A y \in Peer : OffersKnown(y)'
  BY <1>15, NumbersKept DEF CalmInv
<1>17. CASE op = "createOffer" /\ n = offers[x] /\ Offering(x) /\ offers[x] \in Number
  <2>1. Free(q)' /\ Steady(q)'
    BY <1>3, <1>13, <1>17, SideKept DEF Offering
  <2>2. Sdps(x)' = {} /\ Sdps(q)' = {}
    BY <1>2, <1>3, <1>17 DEF Offering, Sdps
  <2>3. (lastOffer[q] # offers[x])' /\ Unanswered(x)'
    BY <1>2, <1>3, <1>15, <1>17, NumbersKept DEF Offering
  <2>4. Offering(x)'
    BY <1>2, <1>3, <1>10, <1>12, <1>17, <2>1, <2>2, <2>3 DEF Offering
  <2>5. Negotiating(x)'
    BY <1>2, <1>17, <2>4 DEF Negotiating, Number
  <2> QED
    BY <1>3, <1>11, <1>14, <1>16, <2>5, TwoPeers DEF CalmInv
<1>18. CASE op = "setRemoteOffer" /\ n = offers[q] /\ Answering(q) /\ offers[q] \in Number
  <2>1. OfferOf(q)' = OfferOf(q)
    BY <1>2 DEF OfferOf
  <2>2. Free(q)' /\ Awaits(q, OfferOf(q))'
    BY <1>3, <1>13, <1>18, <2>1, SideKept DEF Answering
  <2>3. Sdps(q)' = {} /\ Sdps(x)' \subseteq OfferEvents(q)'
    BY <1>2, <1>3, <1>18 DEF Answering, Sdps, OfferEvents
  <2>4. (lastOffer[x] = offers[q])' /\ Unanswered(q)'
    BY <1>2, <1>3, <1>15, <1>18, NumbersKept DEF Answering
  <2>5. Answering(q)'
    BY <1>2, <1>3, <1>10, <1>12, <1>18, <2>2, <2>3, <2>4 DEF Answering
  <2>6. Negotiating(q)'
    BY <1>2, <1>18, <2>5 DEF Negotiating, Number
  <2> QED
    BY <1>3, <1>11, <1>14, <1>16, <2>6, TwoPeers DEF CalmInv
<1> QED
  BY <1>6, <1>17, <1>18

\* What a lost socket, a candidate and a trigger do.
LEMMA ReconnectCalm ==
  ASSUME TypeOK, CalmInv, NEW x \in Peer, Reconnect(x)
  PROVE  CalmInv'
<1>1. NoNewSdps
  BY ReconnectSdps, Typed
<1>2. CASE BeginOffer(x)
  BY <1>1, <1>2, BeginOfferCalm
<1>3. CASE ~BeginOffer(x)
  <2>1. UNCHANGED <<current, created, conns, ops, creating, offers, lastOffer, lastAnswer,
                    answered, calm>>
    BY <1>3 DEF Reconnect, pcVars, stateVars
  <2>2. \A y \in Peer : SideUntouched(y) /\ NumbersUntouched(y)
    BY <2>1 DEF SideUntouched, NumbersUntouched
  <2> QED
    BY <1>1, <2>1, <2>2, CalmFrame
<1> QED
  BY <1>2, <1>3

LEMMA CandidateCalm ==
  ASSUME TypeOK, CalmInv, NEW x \in Peer, CandidateFound(x) \/ CandidateArrives(x)
  PROVE  CalmInv'
<1>1. NoNewSdps
  <2>1. chan \in Channels
    BY Typed
  <2>2. CASE CandidateArrives(x)
    BY <2>1, <2>2, ConsumeSdps DEF CandidateArrives, Arrives
  <2>3. CASE CandidateFound(x)
    <3>1. Candidate.type \notin {"offer", "answer"}
      BY DEF Candidate
    <3>2. Other(x) \in Peer
      BY OtherPeer
    <3> QED
      BY <2>1, <2>3, <3>1, <3>2, AppendSdps DEF CandidateFound
  <2> QED
    BY <2>2, <2>3
<1>2. UNCHANGED <<current, created, conns, ops, creating, offers, lastOffer, lastAnswer,
                  answered, calm>>
  BY DEF CandidateFound, CandidateArrives, pcVars, stateVars, ghostVars
<1>3. \A y \in Peer : SideUntouched(y) /\ NumbersUntouched(y)
  BY <1>2 DEF SideUntouched, NumbersUntouched
<1> QED
  BY <1>1, <1>2, <1>3, CalmFrame

LEMMA TriggerCalm ==
  ASSUME TypeOK, CalmInv, NEW x \in Peer,
         ParticipantJoined(x) \/ WatchdogFires(x) \/ RestartIce(x)
  PROVE  CalmInv'
<1>1. BeginOffer(x)
  BY DEF ParticipantJoined, WatchdogFires, RestartIce
<1>2. NoNewSdps
  <2>1. CASE ParticipantJoined(x)
    BY <2>1, ConsumeSdps, Typed DEF ParticipantJoined, Arrives
  <2>2. CASE WatchdogFires(x) \/ RestartIce(x)
    BY <2>2, SdpsKept DEF WatchdogFires, RestartIce
  <2> QED
    BY <2>1, <2>2
<1> QED
  BY <1>1, <1>2, BeginOfferCalm

LEMMA CalmStep == TypeOK /\ MakingOfferIsBacked /\ CalmInv /\ [Next]_vars => CalmInv'
<1> SUFFICES ASSUME TypeOK, MakingOfferIsBacked, CalmInv, [Next]_vars PROVE CalmInv'
  OBVIOUS
<1>1. ASSUME NEW p \in Peer, Deliver(p) \/ Trigger(p) \/ CandidateFound(p) PROVE CalmInv'
  BY <1>1, TriggerCalm, OfferArrivesCalm, AnswerArrivesCalm, CandidateCalm, ReconnectCalm
     DEF Deliver, Trigger
<1>2. ASSUME NEW p \in Peer, Operate(p) PROVE CalmInv'
  BY <1>2, CreateOfferCalm, SetOfferCalm, RollbackCalm, SetRemoteOfferCalm, CreateAnswerCalm,
     SetAnswerCalm, SetRemoteAnswerCalm DEF Operate
<1>3. ASSUME NEW p \in Peer, NEW c \in creating[p], ConnectionCreated(p, c) PROVE CalmInv'
  BY <1>3, ConnectionCreatedCalm
<1>4. CASE UNCHANGED vars
  <2>1. UNCHANGED <<current, created, conns, ops, creating, offers, lastOffer, lastAnswer,
                    answered, calm, chan>>
    BY <1>4 DEF vars, pcVars, stateVars, ghostVars
  <2>2. \A y \in Peer : SideUntouched(y) /\ NumbersUntouched(y)
    BY <2>1 DEF SideUntouched, NumbersUntouched
  <2> QED
    BY <2>1, <2>2, SdpsKept, CalmFrame
<1>5. ASSUME NEW p \in Peer, NEW i \in Index, CandidateLookedUp(p, i) PROVE CalmInv'
  <2>1. UNCHANGED <<current, created, conns, ops, creating, offers, lastOffer, lastAnswer,
                    answered, calm, chan>>
    BY <1>5, LookupFrame DEF pcVars, stateVars, ghostVars
  <2>2. \A y \in Peer : SideUntouched(y) /\ NumbersUntouched(y)
    BY <2>1 DEF SideUntouched, NumbersUntouched
  <2> QED
    BY <2>1, <2>2, SdpsKept, CalmFrame
<1> QED
  BY <1>1, <1>2, <1>3, <1>4, <1>5 DEF Next

LEMMA CalmInit == Init => CalmInv
<1> SUFFICES ASSUME Init PROVE CalmInv
  OBVIOUS
<1>1. ASSUME NEW x \in Peer PROVE OneConnection(x) /\ OffersKnown(x)
  <2>1. Other(x) \in Peer
    BY OtherPeer
  <2> QED
    BY <2>1 DEF Init, OneConnection, OffersKnown, Number
<1>2. Unbegun
  BY DEF Init, Unbegun, Free, Steady, Sdps, Joined
<1> QED
  BY <1>1, <1>2 DEF CalmInv

-----------------------------------------------------------------------------
(* Candidates *)

LEMMA WaitQuiet ==
  ASSUME TypeOK, CandidatesWait, UNCHANGED <<current, created, conns, ops>>,
         \A y \in Peer : "early" \in buffered'[y] =>
             \/ "early" \in buffered[y] \/ current[y] = 0
             \/ conns[y][current[y]].remote = NoSdp,
         \A y \in Peer, i \in Index : looking'[y][i] > 0 =>
             looking[y][i] > 0 \/ i = current[y]
  PROVE  CandidatesWait'
<1>1. ASSUME NEW y \in Peer PROVE Untouched(y)' /\ EarlyWaits(y)'
  BY DEF CandidatesWait, Untouched, EarlyWaits, Index
<1>2. ASSUME NEW y \in Peer PROVE LookupsFirst(y)'
  <2>1. Untouched(y) /\ LookupsFirst(y)
    BY DEF CandidatesWait
  <2> QED
    BY <2>1, Typed DEF Untouched, LookupsFirst, Index
<1> QED
  BY <1>1, <1>2 DEF CandidatesWait

\* What happens to one connection that was created.
LEMMA WaitStep ==
  ASSUME TypeOK, CandidatesWait, NEW x \in Peer, NEW i \in Index, i <= created[x],
         UNCHANGED <<current, created>>,
         \A y \in Peer, j \in Index : y # x \/ j # i =>
             ops'[y][j] = ops[y][j] /\ conns'[y][j] = conns[y][j],
         UNCHANGED looking, LookupsDone(x, i) \/ UNCHANGED conns,
         \A y \in Peer : y # x => buffered'[y] = buffered[y],
         \/ conns'[x][i].remote = conns[x][i].remote /\ buffered'[x] = buffered[x]
         \/ buffered'[x] = {}
  PROVE  CandidatesWait'
<1>1. ASSUME NEW y \in Peer PROVE Untouched(y)'
  <2>1. Untouched(y)
    BY DEF CandidatesWait
  <2>2. \A j \in Index : j > created[y] => y # x \/ j # i
    BY Typed DEF Index
  <2> QED
    BY <2>1, <2>2 DEF Untouched, Index
<1>2. ASSUME NEW y \in Peer, current[y] # 0, conns'[y][current[y]].remote # NoSdp
      PROVE  "early" \notin buffered'[y]
  <2>1. PICK j \in Index : j = current[y]
    BY <1>2, Typed
  <2>2. CASE y # x \/ j # i
    <3>1. conns'[y][j] = conns[y][j]
      BY <2>1, <2>2
    <3>2. "early" \notin buffered[y]
      BY <1>2, <2>1, <3>1 DEF CandidatesWait, EarlyWaits
    <3> QED
      BY <2>2, <3>2, <1>2, <2>1, <3>1 DEF CandidatesWait, EarlyWaits
  <2>3. CASE y = x /\ j = i
    BY <1>2, <2>1, <2>3 DEF CandidatesWait, EarlyWaits
  <2> QED
    BY <2>2, <2>3
<1>3. ASSUME NEW y \in Peer, NEW j \in Index, looking[y][j] > 0
      PROVE  j <= created[y] /\ \A k \in Index : k > j => conns'[y][k] = NewConn
  <2>1. j <= created[y] /\ \A k \in Index : k > j => conns[y][k] = NewConn
    BY <1>3 DEF CandidatesWait, LookupsFirst
  <2>2. ASSUME NEW k \in Index, k > j PROVE conns'[y][k] = conns[y][k]
    <3>1. CASE y = x /\ k = i
      BY <1>3, <2>2, <3>1 DEF LookupsDone
    <3> QED
      BY <3>1
  <2> QED
    BY <2>1, <2>2
<1> QED
  BY <1>1, <1>2, <1>3 DEF CandidatesWait, EarlyWaits, LookupsFirst

\* An operation that changes no remote description.
LEMMA WaitOps ==
  ASSUME TypeOK, CandidatesWait, NEW x \in Peer, NEW i \in Index, i <= created[x],
         UNCHANGED <<current, created, buffered, looking>>,
         NEW s, ops' = [ops EXCEPT ![x][i] = s],
         LookupsDone(x, i) \/ UNCHANGED conns,
         \/ UNCHANGED conns
         \/ \E d : conns' = [conns EXCEPT ![x][i].pending = d]
  PROVE  CandidatesWait'
<1>1. \A y \in Peer, j \in Index : y # x \/ j # i => ops'[y][j] = ops[y][j]
  <2>1. ops \in Queues
    BY Typed
  <2> QED
    BY <2>1 DEF Queues
<1>2. /\ \A y \in Peer, j \in Index : y # x \/ j # i => conns'[y][j] = conns[y][j]
      /\ conns'[x][i].remote = conns[x][i].remote
  <2>1. conns \in Conns
    BY Typed
  <2>2. CASE UNCHANGED conns
    BY <2>2
  <2>3. ASSUME NEW d, conns' = [conns EXCEPT ![x][i].pending = d]
        PROVE  /\ \A y \in Peer, j \in Index : y # x \/ j # i => conns'[y][j] = conns[y][j]
               /\ conns'[x][i].remote = conns[x][i].remote
    BY <2>1, <2>3 DEF Conns, Conn
  <2> QED
    BY <2>2, <2>3
<1>3. \A y \in Peer, j \in Index : y # x \/ j # i =>
          ops'[y][j] = ops[y][j] /\ conns'[y][j] = conns[y][j]
  BY <1>1, <1>2
<1>4. \A y \in Peer : buffered'[y] = buffered[y]
  OBVIOUS
<1> QED
  BY <1>2, <1>3, <1>4, WaitStep

LEMMA WaitRequest ==
  ASSUME TypeOK, CandidatesWait, NEW x \in Peer, current[x] # 0, NEW op, NEW n,
         Request(x, current[x], op, n),
         UNCHANGED <<current, created, conns, buffered, looking>>
  PROVE  CandidatesWait'
<1>1. PICK i \in Index : i = current[x] /\ i <= created[x]
  BY Typed DEF CandidatesWait, Untouched
<1>2. PICK s : ops' = [ops EXCEPT ![x][i] = s]
  BY <1>1 DEF Request
<1> QED
  BY <1>1, <1>2, WaitOps

\* Only a connection that was created has something to do.
LEMMA RunningCreated ==
  ASSUME TypeOK, CandidatesWait, NEW x \in Peer, NEW i \in Index, NEW op, Running(x, i, op)
  PROVE  i <= created[x]
BY Typed DEF CandidatesWait, Untouched, Running, Index

LEMMA BeginOfferWait ==
  ASSUME TypeOK, CandidatesWait, NEW p \in Peer, BeginOffer(p), UNCHANGED <<buffered, looking>>
  PROVE  CandidatesWait'
<1>1. UNCHANGED <<current, created, conns>>
  BY DEF BeginOffer, pcVars
<1>2. CASE UNCHANGED ops
  BY <1>1, <1>2, WaitQuiet
<1>3. CASE ~UNCHANGED ops
  <2>1. current[p] # 0 /\ Request(p, current[p], "createOffer", offers[p] + 1)
    BY <1>3 DEF BeginOffer
  <2> QED
    BY <1>1, <2>1, WaitRequest
<1> QED
  BY <1>2, <1>3

LEMMA ArrivalWait ==
  ASSUME TypeOK, CandidatesWait, NEW p \in Peer, Deliver(p)
  PROVE  CandidatesWait'
<1>1. CASE ParticipantJoined(p)
  BY <1>1, BeginOfferWait DEF ParticipantJoined, iceVars
<1>2. CASE OfferArrives(p)
  <2>1. UNCHANGED <<current, created, conns, buffered, looking>>
    BY <1>2 DEF OfferArrives, OfferEvent, pcVars, iceVars
  <2>2. CASE UNCHANGED ops
    BY <2>1, <2>2, WaitQuiet
  <2>3. CASE ~UNCHANGED ops
    <3>1. PICK collision, n : AcceptStep(p, collision, current[p], n) /\ current[p] # 0
      BY <1>2, <2>3 DEF OfferArrives, OfferEvent, NewOffer
    <3>2. PICK op : Request(p, current[p], op, n)
      BY <3>1 DEF AcceptStep
    <3> QED
      BY <2>1, <3>1, <3>2, WaitRequest
  <2> QED
    BY <2>2, <2>3
<1>3. CASE AnswerArrives(p)
  <2>1. UNCHANGED <<current, created, conns, buffered, looking>>
    BY <1>3 DEF AnswerArrives, pcVars, iceVars
  <2>2. CASE UNCHANGED ops
    BY <2>1, <2>2, WaitQuiet
  <2>3. CASE ~UNCHANGED ops
    <3>1. PICK n : Request(p, current[p], "setRemoteAnswer", n) /\ current[p] # 0
      BY <1>3, <2>3 DEF AnswerArrives
    <3> QED
      BY <2>1, <3>1, WaitRequest
  <2> QED
    BY <2>2, <2>3
<1>4. CASE CandidateArrives(p)
  <2>1. UNCHANGED <<current, created, conns, ops>>
    BY <1>4 DEF CandidateArrives, pcVars
  <2>2. \A y \in Peer : "early" \in buffered'[y] =>
            \/ "early" \in buffered[y] \/ current[y] = 0
            \/ conns[y][current[y]].remote = NoSdp
    BY <1>4 DEF CandidateArrives, Buffer, TypeOK
  <2>3. \A y \in Peer, i \in Index : looking'[y][i] > 0 =>
            looking[y][i] > 0 \/ i = current[y]
    <3>1. CASE UNCHANGED looking
      BY <3>1
    <3>2. CASE ~UNCHANGED looking
      <4>1. looking' = [looking EXCEPT ![p][current[p]] = @ + 1]
        BY <1>4, <3>2 DEF CandidateArrives
      <4>2. looking \in [Peer -> [Index -> Nat]]
        BY DEF TypeOK
      <4>3. \A y \in Peer, i \in Index :
                ~(y = p /\ i = current[p]) => looking'[y][i] = looking[y][i]
        BY <4>1, <4>2
      <4> QED
        BY <4>3
    <3> QED
      BY <3>1, <3>2
  <2> QED
    BY <2>1, <2>2, <2>3, WaitQuiet
<1> QED
  BY <1>1, <1>2, <1>3, <1>4 DEF Deliver

\* An early candidate is buffered for a connection that was replaced before the
\* new one has a description.
LEMMA LookedUpWait ==
  ASSUME TypeOK, CandidatesWait, NEW p \in Peer, NEW i \in Index, CandidateLookedUp(p, i)
  PROVE  CandidatesWait'
<1>1. UNCHANGED <<current, created, conns, ops>>
  BY LookupFrame DEF pcVars
<1>2. looking[p][i] \in Nat /\ looking[p][i] > 0
  BY DEF CandidateLookedUp, TypeOK
<1>3. \A y \in Peer, j \in Index : looking'[y][j] > 0 => looking[y][j] > 0
  BY <1>2 DEF CandidateLookedUp, TypeOK
<1>4. ~Described(p, i) => current[p] = 0 \/ conns[p][current[p]].remote = NoSdp
  <2> SUFFICES ASSUME ~Described(p, i), current[p] # 0
               PROVE  conns[p][current[p]].remote = NoSdp
    OBVIOUS
  <2>1. i <= current[p] /\ \A k \in Index : k > i => conns[p][k] = NewConn
    BY <1>2 DEF CandidatesWait, Untouched, LookupsFirst
  <2>2. current[p] \in Index /\ (current[p] = i \/ current[p] > i)
    BY <2>1, Typed DEF Index
  <2> QED
    BY <2>1, <2>2 DEF Described, NewConn
<1>5. \A y \in Peer : "early" \in buffered'[y] =>
          \/ "early" \in buffered[y] \/ current[y] = 0
          \/ conns[y][current[y]].remote = NoSdp
  <2>1. CASE Described(p, i)
    <3>1. UNCHANGED buffered \/ buffered' = [buffered EXCEPT ![p] = @ \cup {"refused"}]
      BY <2>1 DEF CandidateLookedUp, Buffer
    <3>2. CASE UNCHANGED buffered
      BY <3>2
    <3>3. CASE buffered' = [buffered EXCEPT ![p] = @ \cup {"refused"}]
      <4>1. \A y \in Peer : buffered'[y] = buffered[y] \/ buffered'[y] = buffered[y] \cup {"refused"}
        BY <3>3 DEF TypeOK
      <4>2. "refused" # "early"
        OBVIOUS
      <4> QED
        BY <4>1, <4>2
    <3> QED
      BY <3>1, <3>2, <3>3
  <2>2. CASE ~Described(p, i)
    <3>1. buffered' = [buffered EXCEPT ![p] = @ \cup {"early"}]
      BY <2>2 DEF CandidateLookedUp, Buffer
    <3> QED
      BY <1>4, <2>2, <3>1 DEF TypeOK
  <2> QED
    BY <2>1, <2>2
<1> QED
  BY <1>1, <1>3, <1>5, WaitQuiet

LEMMA OperateWait ==
  ASSUME TypeOK, CandidatesWait, NEW x \in Peer, NEW i \in Index, LookupsDone(x, i),
         \/ CreateOffer(x, i) \/ SetOffer(x, i) \/ Rollback(x, i)
         \/ SetRemoteOffer(x, i) \/ CreateAnswer(x, i)
  PROVE  CandidatesWait'
<1>1. i <= created[x]
  BY RunningCreated DEF CreateOffer, SetOffer, Rollback, SetRemoteOffer, CreateAnswer
<1>2. UNCHANGED <<current, created, buffered, looking>>
  BY DEF CreateOffer, SetOffer, Rollback, SetRemoteOffer, CreateAnswer, pcVars, iceVars
<1>3. \E s : ops' = [ops EXCEPT ![x][i] = s]
  BY DEF CreateOffer, SetOffer, Rollback, SetRemoteOffer, CreateAnswer, Proceed, Finish
<1>4. UNCHANGED conns \/ \E d : conns' = [conns EXCEPT ![x][i].pending = d]
  BY DEF CreateOffer, SetOffer, Rollback, SetRemoteOffer, CreateAnswer, pcVars
<1> QED
  BY <1>1, <1>2, <1>3, <1>4, WaitOps

\* A remote description empties the buffer of its peer.
LEMMA DescribedWait ==
  ASSUME TypeOK, CandidatesWait, NEW x \in Peer, NEW i \in Index, LookupsDone(x, i),
         SetAnswer(x, i) \/ SetRemoteAnswer(x, i)
  PROVE  CandidatesWait'
<1>1. i <= created[x]
  BY RunningCreated DEF SetAnswer, AnswerSet, SetRemoteAnswer
<1>2. UNCHANGED <<current, created, looking>>
  BY DEF SetAnswer, AnswerSet, SetRemoteAnswer, iceVars
<1>3. \E s : ops' = [ops EXCEPT ![x][i] = s]
  BY DEF SetAnswer, AnswerSet, SetRemoteAnswer, Finish
<1>4. \/ UNCHANGED <<conns, buffered>>
      \/ /\ \E c : conns' = [conns EXCEPT ![x][i] = c]
         /\ buffered' = [buffered EXCEPT ![x] = {}]
  <2>1. CASE SetRemoteAnswer(x, i)
    BY <2>1 DEF SetRemoteAnswer, Drain
  <2>2. CASE SetAnswer(x, i) /\ HaveRemoteOffer(x, i)
    <3>1. buffered' = [buffered EXCEPT ![x] = {}]
      BY <2>2 DEF SetAnswer, AnswerSet, Drain
    <3> QED
      BY <2>2, <3>1 DEF SetAnswer, AnswerSet
  <2>3. CASE SetAnswer(x, i) /\ ~HaveRemoteOffer(x, i)
    BY <2>3 DEF SetAnswer, AnswerSet, iceVars
  <2> QED
    BY <2>1, <2>2, <2>3
<1>5. CASE UNCHANGED <<conns, buffered>>
  BY <1>1, <1>2, <1>3, <1>5, WaitOps
<1>6. CASE /\ \E c : conns' = [conns EXCEPT ![x][i] = c]
           /\ buffered' = [buffered EXCEPT ![x] = {}]
  <2>1. \A y \in Peer, j \in Index : y # x \/ j # i =>
            ops'[y][j] = ops[y][j] /\ conns'[y][j] = conns[y][j]
    <3>1. ops \in Queues /\ conns \in Conns
      BY Typed
    <3>2. \A y \in Peer, j \in Index : y # x \/ j # i => ops'[y][j] = ops[y][j]
      BY <1>3, <3>1 DEF Queues
    <3>3. \A y \in Peer, j \in Index : y # x \/ j # i => conns'[y][j] = conns[y][j]
      BY <1>6, <3>1 DEF Conns
    <3> QED
      BY <3>2, <3>3
  <2>2. buffered'[x] = {} /\ \A y \in Peer : y # x => buffered'[y] = buffered[y]
    BY <1>6 DEF TypeOK
  <2> QED
    BY <1>1, <1>2, <2>1, <2>2, WaitStep
<1> QED
  BY <1>4, <1>5, <1>6

LEMMA ConnectionCreatedWait ==
  ASSUME TypeOK, CandidatesWait, NEW x \in Peer, NEW c \in creating[x], ConnectionCreated(x, c)
  PROVE  CandidatesWait'
<1>1. PICK i \in Index :
          /\ i = created[x] + 1
          /\ created' = [created EXCEPT ![x] = i] /\ current' = [current EXCEPT ![x] = i]
          /\ UNCHANGED <<conns, buffered, looking>>
  BY DEF ConnectionCreated, iceVars
<1>2. PICK s : ops' = [ops EXCEPT ![x][i] = s]
  BY <1>1 DEF ConnectionCreated, AcceptStep, Request
<1>3. \A y \in Peer, j \in Index : y # x \/ j # i => ops'[y][j] = ops[y][j]
  <2>1. ops \in Queues
    BY Typed
  <2> QED
    BY <1>2, <2>1 DEF Queues
<1>4. /\ created'[x] = i /\ current'[x] = i
      /\ \A y \in Peer : y # x => created'[y] = created[y] /\ current'[y] = current[y]
  BY <1>1 DEF TypeOK
<1>5. created[x] \in Nat
  BY Typed
<1>6. Untouched(x)'
  <2>1. \A j \in Index : j > i => j > created[x] /\ j # i
    BY <1>1, <1>5 DEF Index
  <2> QED
    BY <1>1, <1>3, <1>4, <2>1 DEF CandidatesWait, Untouched, Index
<1>7. conns'[x][i].remote = NoSdp
  <2>1. i > created[x]
    BY <1>1, <1>5
  <2> QED
    BY <1>1, <2>1 DEF CandidatesWait, Untouched, NewConn
<1>8. \A y \in Peer : y # x => Untouched(y)'
  BY <1>1, <1>3, <1>4 DEF CandidatesWait, Untouched, Index
<1>9. \A y \in Peer : EarlyWaits(y)'
  BY <1>1, <1>4, <1>7 DEF CandidatesWait, EarlyWaits
<1>10. \A y \in Peer : LookupsFirst(y)'
  BY <1>1, <1>4, <1>5 DEF CandidatesWait, LookupsFirst, Index
<1> QED
  BY <1>6, <1>8, <1>9, <1>10 DEF CandidatesWait

LEMMA WaitNext == TypeOK /\ CandidatesWait /\ [Next]_vars => CandidatesWait'
<1> SUFFICES ASSUME TypeOK, CandidatesWait, [Next]_vars PROVE CandidatesWait'
  OBVIOUS
<1>1. ASSUME NEW p \in Peer, Trigger(p) PROVE CandidatesWait'
  <2>1. UNCHANGED <<buffered, looking>>
    BY <1>1 DEF Trigger, WatchdogFires, RestartIce, Reconnect, iceVars
  <2>2. CASE BeginOffer(p)
    BY <2>1, <2>2, BeginOfferWait
  <2>3. CASE ~BeginOffer(p)
    <3>1. UNCHANGED <<current, created, conns, ops>>
      BY <1>1, <2>3 DEF Trigger, WatchdogFires, RestartIce, Reconnect, pcVars
    <3> QED
      BY <2>1, <3>1, WaitQuiet
  <2> QED
    BY <2>2, <2>3
<1>2. ASSUME NEW p \in Peer, CandidateFound(p) PROVE CandidatesWait'
  <2>1. UNCHANGED <<current, created, conns, ops, buffered, looking>>
    BY <1>2 DEF CandidateFound, pcVars
  <2> QED
    BY <2>1, WaitQuiet
<1>3. ASSUME NEW p \in Peer, Operate(p) PROVE CandidatesWait'
  BY <1>3, OperateWait, DescribedWait DEF Operate
<1>4. CASE UNCHANGED vars
  <2>1. UNCHANGED <<current, created, conns, ops, buffered, looking>>
    BY <1>4 DEF vars, pcVars, iceVars
  <2> QED
    BY <2>1, WaitQuiet
<1> QED
  BY <1>1, <1>2, <1>3, <1>4, ArrivalWait, ConnectionCreatedWait, LookedUpWait DEF Next

LEMMA WaitInit == Init => CandidatesWait
BY DEF Init, CandidatesWait, Untouched, LookupsFirst, EarlyWaits

-----------------------------------------------------------------------------
(* The life of an offer *)

\* The operations of _createOffer, and those of _handleOffer before the offer
\* is set.
OfferOps == {"createOffer", "setOffer"}
AcceptOps == {"rollback", "setRemoteOffer"}

\* Operations of the offer n in a queue, or only one of them.
Of(e, names, n) == e.op \in names /\ e.n = n
Has(s, names, n) == \E k \in DOMAIN s : Of(s[k], names, n)
Once(s, names, n) == \A k, l \in DOMAIN s : Of(s[k], names, n) /\ Of(s[l], names, n) => k = l
InQueue(x, names, n) == \E i \in Index : Has(ops[x][i], names, n)

\* The offer n is being made by x; is being handled by x; is pending at x.
InMaking(x, n) == [task |-> "offer", n |-> n] \in creating[x] \/ InQueue(x, OfferOps, n)
InHand(x, n) == [task |-> "handle", n |-> n] \in creating[x] \/ InQueue(x, AcceptOps, n)
Pending(x, i, n) == HaveRemoteOffer(x, i) /\ conns[x][i].pending.n = n

\* One handler has to do with the offer n.
OneToken(x, task, names, n) ==
    /\ \A i \in Index : Once(ops[x][i], names, n)
    /\ \A i, j \in Index : Has(ops[x][i], names, n) /\ Has(ops[x][j], names, n) => i = j
    /\ [task |-> task, n |-> n] \in creating[x] => ~InQueue(x, names, n)

\* An offer on its way to x that x takes for a new one, or has seen.
InChan(x, n) == [type |-> "offer", n |-> n] \in Sdps(x)
Fresh(x, n) == InChan(x, n) /\ lastOffer[x] # n
Sent(x, n) == InChan(x, n) \/ lastOffer[x] = n

\* x has answered the offer n, or is about to.
AnswerDue(x, i, n) == Pending(x, i, n) \/ Has(ops[x][i], {"setAnswer"}, n)
Tried(x, n) == answered[x][n] # 0 \/ \E i \in Index : AnswerDue(x, i, n)

\* The offer n of p was not sent yet.
Unsent(p, n) == n > offers[p] \/ InMaking(p, n)

\* An offer is made once, and sent when it was made.
MadeOnce(p) ==
    \A n \in Number :
        /\ OneToken(p, "offer", OfferOps, n)
        /\ n > offers[p] => ~InMaking(p, n)

\* An offer is handled once, before it is tried to be answered; while it is
\* pending at a connection it has not been answered, nor by another connection.
TakenOnce(q) ==
    \A n \in Number :
        /\ OneToken(q, "handle", AcceptOps, n)
        /\ Fresh(q, n) => ~InHand(q, n) /\ ~Tried(q, n)
        /\ InHand(q, n) => ~Tried(q, n)
        /\ \A i \in Index : Pending(q, i, n) =>
              answered[q][n] = 0 /\ \A j \in Index \ {i} : ~AnswerDue(q, j, n)

\* What p has not sent q knows nothing of.
SentFirst(p) ==
    \A n \in Number : Unsent(p, n) =>
        ~Sent(Other(p), n) /\ ~InHand(Other(p), n) /\ ~Tried(Other(p), n)

\* An answer that p has had, or is going to have, was sent.
AnswersSent(p) ==
    \A n \in Number : lastAnswer[p] = n \/ [type |-> "answer", n |-> n] \in Sdps(p) =>
        answered[Other(p)][n] # 0

\* The offers that x had, the last one at 0, and has on its way.  The copies of
\* one come one after the other.
Offer(x, k) == k = 0 \/ chan[x][k].type = "offer"
OfferNumber(x, k) == IF k = 0 THEN lastOffer[x] ELSE chan[x][k].n
InOrder(x) ==
    \A k, m, l \in 0 .. Len(chan[x]) :
        Offer(x, k) /\ Offer(x, m) /\ Offer(x, l) /\ k < m /\ m < l
        /\ OfferNumber(x, k) = OfferNumber(x, l) => OfferNumber(x, m) = OfferNumber(x, l)

\* Whoever has the offer of the other is about to answer it.
AnswerComes(s) == \E k \in DOMAIN s : s[k].op \in {"createAnswer", "setAnswer"}
RemoteIsAnswered(x) == \A i \in Index : HaveRemoteOffer(x, i) => AnswerComes(ops[x][i])

LifeInv ==
    \A x \in Peer : /\ MadeOnce(x) /\ TakenOnce(x) /\ SentFirst(x)
                    /\ AnswersSent(x) /\ InOrder(x) /\ RemoteIsAnswered(x)

\* The answers in s behind k are none that has the number a.
NewAnswers(s, k, a) == \A l \in DOMAIN s : l > k /\ s[l].op = "setAnswer" => s[l].n # a
Good(s, op, a) == \E k \in DOMAIN s : s[k].op = op /\ NewAnswers(s, k, a)

\* Something is on its way, or being done, that ends the wait of p for an answer:
\* at p; an offer to q; a handler of q.
EndsWait(s) == \E k \in DOMAIN s : s[k].op \in {"rollback", "setRemoteAnswer"}
AnswerNears(p) ==
    \/ EndsWait(ops[p][current[p]])
    \/ \E e \in Sdps(p) : e.type = "answer" /\ e.n # lastAnswer[p]
    \/ \E e \in Sdps(p) : e.type = "offer" /\ e.n # lastOffer[p]
OfferNears(q) == \E e \in Sdps(q) : e.type = "offer" /\ e.n # lastOffer[q]
AnswerMade(q, i, a) ==
    \/ Good(ops[q][i], "rollback", a)
    \/ ~HaveLocalOffer(q, i) /\ Good(ops[q][i], "setRemoteOffer", a)
    \/ HaveRemoteOffer(q, i) /\ NewAnswers(ops[q][i], 0, a)
Handling(q, a) == (\E c \in creating[q] : c.task = "handle") \/ \E i \in Index : AnswerMade(q, i, a)
Served(p) ==
    Waiting(p) => AnswerNears(p) \/ OfferNears(Other(p)) \/ Handling(Other(p), lastAnswer[p])
WaitInv == reconnects = 0 => \A p \in Peer : Served(p)

-----------------------------------------------------------------------------
(* Queues *)

\* t has no operation of the offer n that s has not, nor a second one.
Within(t, s, names, n) ==
    /\ Has(t, names, n) => Has(s, names, n)
    /\ Once(s, names, n) => Once(t, names, n)

LEMMA TailWithin ==
  ASSUME NEW s \in Seq(Op), s # <<>>, NEW names, NEW n
  PROVE  Within(Tail(s), s, names, n)
<1>1. \A k \in DOMAIN Tail(s) : k + 1 \in DOMAIN s /\ Tail(s)[k] = s[k + 1]
  OBVIOUS
<1>2. Has(Tail(s), names, n) => Has(s, names, n)
  BY <1>1 DEF Has
<1>3. ASSUME Once(s, names, n), NEW k \in DOMAIN Tail(s), NEW l \in DOMAIN Tail(s),
             Of(Tail(s)[k], names, n), Of(Tail(s)[l], names, n)
      PROVE  k = l
  <2>1. k + 1 = l + 1
    BY <1>1, <1>3 DEF Once
  <2>2. k \in Nat /\ l \in Nat
    OBVIOUS
  <2> QED
    BY <2>1, <2>2
<1> QED
  BY <1>2, <1>3 DEF Within, Once

\* Where the elements of a longer queue come from.
LEMMA AppendPlaces ==
  ASSUME NEW s \in Seq(Op), NEW e \in Op
  PROVE  /\ Append(s, e) \in Seq(Op)
         /\ \A k \in DOMAIN s : k \in DOMAIN Append(s, e) /\ Append(s, e)[k] = s[k]
         /\ \A k \in DOMAIN Append(s, e) :
                \/ k \in DOMAIN s /\ Append(s, e)[k] = s[k]
                \/ k = Len(s) + 1 /\ Append(s, e)[k] = e
         /\ Len(s) + 1 \in DOMAIN Append(s, e) /\ Append(s, e)[Len(s) + 1] = e
         /\ Len(s) + 1 \notin DOMAIN s
OBVIOUS

LEMMA AppendWithin ==
  ASSUME NEW s \in Seq(Op), NEW e \in Op, NEW names, NEW n, ~Of(e, names, n)
  PROVE  Within(Append(s, e), s, names, n)
<1>1. \A k \in DOMAIN Append(s, e) : Of(Append(s, e)[k], names, n) =>
          k \in DOMAIN s /\ Append(s, e)[k] = s[k]
  BY AppendPlaces
<1>2. Has(Append(s, e), names, n) => Has(s, names, n)
  BY <1>1 DEF Has
<1>3. Once(s, names, n) => Once(Append(s, e), names, n)
  BY <1>1 DEF Once
<1> QED
  BY <1>2, <1>3 DEF Within

\* The first operation of its kind.
LEMMA AppendOnce ==
  ASSUME NEW s \in Seq(Op), NEW e \in Op, NEW names, NEW n, ~Has(s, names, n)
  PROVE  Once(Append(s, e), names, n)
<1>1. \A k \in DOMAIN Append(s, e) : Of(Append(s, e)[k], names, n) => k = Len(s) + 1
  BY AppendPlaces DEF Has
<1> QED
  BY <1>1 DEF Once

\* The head is done.
LEMMA Spent ==
  ASSUME NEW s \in Seq(Op), s # <<>>, NEW names, NEW n, Once(s, names, n), Of(Head(s), names, n)
  PROVE  ~Has(Tail(s), names, n)
<1>1. \A k \in DOMAIN Tail(s) : k + 1 \in DOMAIN s /\ Tail(s)[k] = s[k + 1] /\ k + 1 # 1
  OBVIOUS
<1>2. 1 \in DOMAIN s /\ Head(s) = s[1]
  OBVIOUS
<1> QED
  BY <1>1, <1>2 DEF Has, Once

\* What is requested next stands for the head.
LEMMA ProceedWithin ==
  ASSUME NEW s \in Seq(Op), s # <<>>, NEW e \in Op, NEW names, NEW n,
         Of(e, names, n) => Of(Head(s), names, n)
  PROVE  Within(Append(Tail(s), e), s, names, n)
<1>1. Tail(s) \in Seq(Op) /\ 1 \in DOMAIN s /\ Head(s) = s[1]
  OBVIOUS
<1>2. Within(Tail(s), s, names, n)
  BY TailWithin
<1>3. CASE ~Of(e, names, n)
  <2>1. Within(Append(Tail(s), e), Tail(s), names, n)
    BY <1>1, <1>3, AppendWithin
  <2> QED
    BY <1>2, <2>1 DEF Within
<1>4. CASE Of(e, names, n)
  <2>1. Has(s, names, n)
    BY <1>1, <1>4 DEF Has
  <2>2. ASSUME Once(s, names, n) PROVE Once(Append(Tail(s), e), names, n)
    <3>1. ~Has(Tail(s), names, n)
      BY <1>4, <2>2, Spent
    <3> QED
      BY <1>1, <3>1, AppendOnce
  <2> QED
    BY <2>1, <2>2 DEF Within
<1> QED
  BY <1>3, <1>4

\* The same of answers.
LEMMA AppendNew ==
  ASSUME NEW s \in Seq(Op), NEW e \in Op, NEW k \in Nat, NEW a,
         NewAnswers(s, k, a), e.op = "setAnswer" => e.n # a
  PROVE  NewAnswers(Append(s, e), k, a)
BY AppendPlaces DEF NewAnswers

LEMMA AppendGood ==
  ASSUME NEW s \in Seq(Op), NEW e \in Op, NEW op, NEW a, Good(s, op, a),
         e.op = "setAnswer" => e.n # a
  PROVE  Good(Append(s, e), op, a)
<1>1. PICK k \in DOMAIN s : s[k].op = op /\ NewAnswers(s, k, a)
  BY DEF Good
<1>2. k \in Nat
  OBVIOUS
<1>3. NewAnswers(Append(s, e), k, a)
  BY <1>1, <1>2, AppendNew
<1> QED
  BY <1>1, <1>3, AppendPlaces DEF Good

LEMMA LastGood ==
  ASSUME NEW s \in Seq(Op), NEW e \in Op, NEW a
  PROVE  Good(Append(s, e), e.op, a)
<1>1. PICK k : k = Len(s) + 1
  OBVIOUS
<1>2. NewAnswers(Append(s, e), k, a)
  <2>1. \A l \in DOMAIN Append(s, e) : ~(l > k)
    BY <1>1
  <2> QED
    BY <2>1 DEF NewAnswers
<1> QED
  BY <1>1, <1>2, AppendPlaces DEF Good

LEMMA TailNew ==
  ASSUME NEW s \in Seq(Op), s # <<>>, NEW k \in DOMAIN s, NEW a, NewAnswers(s, k, a)
  PROVE  NewAnswers(Tail(s), k - 1, a)
<1>1. \A l \in DOMAIN Tail(s) :
          l \in Nat /\ l + 1 \in DOMAIN s /\ Tail(s)[l] = s[l + 1] /\ (l > k - 1 => l + 1 > k)
  OBVIOUS
<1> QED
  BY <1>1 DEF NewAnswers

LEMMA TailStillNew ==
  ASSUME NEW s \in Seq(Op), s # <<>>, NEW a, NewAnswers(s, 0, a)
  PROVE  NewAnswers(Tail(s), 0, a)
<1>1. \A l \in DOMAIN Tail(s) :
          l + 1 \in DOMAIN s /\ Tail(s)[l] = s[l + 1] /\ l + 1 > 0
  OBVIOUS
<1> QED
  BY <1>1 DEF NewAnswers

\* The head is what is good, or something behind it.
LEMMA TailGood ==
  ASSUME NEW s \in Seq(Op), s # <<>>, NEW op, NEW a, Good(s, op, a)
  PROVE  \/ Good(Tail(s), op, a)
         \/ Head(s).op = op /\ NewAnswers(Tail(s), 0, a)
<1>1. PICK k \in DOMAIN s : s[k].op = op /\ NewAnswers(s, k, a)
  BY DEF Good
<1>2. NewAnswers(Tail(s), k - 1, a)
  BY <1>1, TailNew
<1>3. CASE k = 1
  BY <1>1, <1>2, <1>3
<1>4. CASE k # 1
  <2>1. k - 1 \in DOMAIN Tail(s) /\ Tail(s)[k - 1] = s[k]
    BY <1>4, TailByPosition
  <2> QED
    BY <1>1, <1>2, <2>1 DEF Good
<1> QED
  BY <1>3, <1>4

-----------------------------------------------------------------------------
(* Tokens *)

\* Only the queue i of x changes.
OnlyQueue(x, i) == \A j \in Index \ {i} : ops'[x][j] = ops[x][j]
QueueWithin(x, i, names, n) == OnlyQueue(x, i) /\ Within(ops'[x][i], ops[x][i], names, n)

\* The handlers that wait for a connection are not more.
StillCreating(x, task, n) ==
    [task |-> task, n |-> n] \in creating'[x] => [task |-> task, n |-> n] \in creating[x]

LEMMA TokenKept ==
  ASSUME NEW x \in Peer, NEW i \in Index, NEW task, NEW names, NEW n,
         QueueWithin(x, i, names, n), StillCreating(x, task, n)
  PROVE  /\ \A j \in Index : Has(ops'[x][j], names, n) => Has(ops[x][j], names, n)
         /\ InQueue(x, names, n)' => InQueue(x, names, n)
         /\ OneToken(x, task, names, n) => OneToken(x, task, names, n)'
<1>1. \A j \in Index : /\ Has(ops'[x][j], names, n) => Has(ops[x][j], names, n)
                       /\ Once(ops[x][j], names, n) => Once(ops'[x][j], names, n)
  BY DEF QueueWithin, OnlyQueue, Within
<1>2. InQueue(x, names, n)' => InQueue(x, names, n)
  BY <1>1 DEF InQueue, Index
<1>3. ASSUME OneToken(x, task, names, n) PROVE OneToken(x, task, names, n)'
  BY <1>1, <1>2, <1>3 DEF OneToken, StillCreating, Index
<1> QED
  BY <1>1, <1>2, <1>3

\* The first operation of its kind, which no handler waits to request.
LEMMA TokenNew ==
  ASSUME NEW x \in Peer, NEW i \in Index, NEW task, NEW names, NEW n,
         OnlyQueue(x, i), Once(ops'[x][i], names, n), ~InQueue(x, names, n),
         [task |-> task, n |-> n] \notin creating'[x]
  PROVE  OneToken(x, task, names, n)'
<1>1. \A j \in Index : Has(ops'[x][j], names, n) => j = i
  BY DEF OnlyQueue, InQueue
<1>2. \A j \in Index : Once(ops'[x][j], names, n)
  <2>1. ASSUME NEW j \in Index, j # i PROVE Once(ops'[x][j], names, n)
    <3>1. ops'[x][j] = ops[x][j] /\ ~Has(ops[x][j], names, n)
      BY <2>1 DEF OnlyQueue, InQueue
    <3> QED
      BY <3>1 DEF Has, Once
  <2> QED
    BY <2>1
<1> QED
  BY <1>1, <1>2 DEF OneToken, Index

\* The operation that was the last of its kind.
LEMMA TokenSpent ==
  ASSUME NEW x \in Peer, NEW i \in Index, NEW task, NEW names, NEW n,
         QueueWithin(x, i, names, n), StillCreating(x, task, n),
         OneToken(x, task, names, n), Has(ops[x][i], names, n), ~Has(ops'[x][i], names, n)
  PROVE  ~InQueue(x, names, n)' /\ [task |-> task, n |-> n] \notin creating'[x]
<1>1. \A j \in Index : j # i => ~Has(ops'[x][j], names, n)
  BY DEF OneToken, QueueWithin, OnlyQueue
<1>2. InQueue(x, names, n)
  BY DEF InQueue
<1> QED
  BY <1>1, <1>2 DEF InQueue, OneToken, StillCreating, Index

\* Nothing happens to the queues and the handlers of x.
LEMMA TokenStill ==
  ASSUME NEW x \in Peer, NEW task, NEW names, NEW n,
         \A j \in Index : ops'[x][j] = ops[x][j], StillCreating(x, task, n)
  PROVE  /\ \A j \in Index : Has(ops'[x][j], names, n) => Has(ops[x][j], names, n)
         /\ InQueue(x, names, n)' => InQueue(x, names, n)
         /\ OneToken(x, task, names, n) => OneToken(x, task, names, n)'
BY DEF OneToken, InQueue, StillCreating, Index

-----------------------------------------------------------------------------
(* What a request, and the end of an operation, does to a queue *)

LEMMA RequestShape ==
  ASSUME ops \in Queues, NEW x \in Peer, NEW i \in Index, NEW op \in OpName, NEW n \in Number,
         Request(x, i, op, n)
  PROVE  /\ ops[x][i] \in Seq(Op) /\ [op |-> op, n |-> n] \in Op
         /\ ops'[x][i] = Append(ops[x][i], [op |-> op, n |-> n])
         /\ OnlyQueue(x, i)
         /\ \A y \in Peer \ {x}, j \in Index : ops'[y][j] = ops[y][j]
<1>1. [op |-> op, n |-> n] \in Op
  BY DEF Op, OpName
<1> QED
  BY <1>1 DEF Request, Queues, OnlyQueue

LEMMA RunningShape ==
  ASSUME ops \in Queues, NEW x \in Peer, NEW i \in Index, NEW op, Running(x, i, op)
  PROVE  /\ ops[x][i] \in Seq(Op) /\ ops[x][i] # <<>>
         /\ Head(ops[x][i]).op = op /\ Arg(x, i) = Head(ops[x][i]).n /\ Arg(x, i) \in Number
<1>1. ops[x][i] \in Seq(Op) /\ ops[x][i] # <<>>
  BY DEF Running, Queues
<1>2. Head(ops[x][i]) \in Op
  BY <1>1
<1> QED
  BY <1>1, <1>2 DEF Running, Arg, Op

LEMMA FinishShape ==
  ASSUME ops \in Queues, NEW x \in Peer, NEW i \in Index, Finish(x, i)
  PROVE  /\ ops'[x][i] = Tail(ops[x][i])
         /\ OnlyQueue(x, i)
         /\ \A y \in Peer \ {x}, j \in Index : ops'[y][j] = ops[y][j]
BY DEF Finish, Queues, OnlyQueue

LEMMA ProceedShape ==
  ASSUME ops \in Queues, NEW x \in Peer, NEW i \in Index, NEW op \in OpName, NEW n \in Number,
         Proceed(x, i, op, n)
  PROVE  /\ [op |-> op, n |-> n] \in Op
         /\ ops'[x][i] = Append(Tail(ops[x][i]), [op |-> op, n |-> n])
         /\ OnlyQueue(x, i)
         /\ \A y \in Peer \ {x}, j \in Index : ops'[y][j] = ops[y][j]
<1>1. [op |-> op, n |-> n] \in Op
  BY DEF Op, OpName
<1> QED
  BY <1>1 DEF Proceed, Queues, OnlyQueue

\* The queues of the other peer are not concerned.
LEMMA OtherQueues ==
  ASSUME ops \in Queues, NEW x \in Peer, NEW y \in Peer, y # x, NEW i \in Index,
         Finish(x, i) \/ \E op, n : Request(x, i, op, n) \/ Proceed(x, i, op, n)
  PROVE  \A j \in Index : ops'[y][j] = ops[y][j]
<1>1. CASE Finish(x, i)
  BY <1>1 DEF Finish, Queues
<1>2. ASSUME NEW op, NEW n, Request(x, i, op, n)
      PROVE  \A j \in Index : ops'[y][j] = ops[y][j]
  BY <1>2 DEF Request, Queues
<1>3. ASSUME NEW op, NEW n, Proceed(x, i, op, n)
      PROVE  \A j \in Index : ops'[y][j] = ops[y][j]
  BY <1>3 DEF Proceed, Queues
<1> QED
  BY <1>1, <1>2, <1>3

\* Whatever is done next, no operation of another kind is.
LEMMA FinishWithin ==
  ASSUME ops \in Queues, NEW x \in Peer, NEW i \in Index, NEW op, Running(x, i, op),
         Finish(x, i), NEW names, NEW n
  PROVE  QueueWithin(x, i, names, n)
BY RunningShape, FinishShape, TailWithin DEF QueueWithin

LEMMA ProceedKinds ==
  ASSUME ops \in Queues, NEW x \in Peer, NEW i \in Index, NEW op, Running(x, i, op),
         NEW next \in OpName, NEW m \in Number, Proceed(x, i, next, m), NEW names, NEW n,
         next \in names /\ m = n => op \in names /\ Arg(x, i) = n
  PROVE  QueueWithin(x, i, names, n)
<1>1. PICK e : e = [op |-> next, n |-> m]
  OBVIOUS
<1>2. e \in Op /\ ops'[x][i] = Append(Tail(ops[x][i]), e) /\ OnlyQueue(x, i)
  BY <1>1, ProceedShape
<1>3. /\ ops[x][i] \in Seq(Op) /\ ops[x][i] # <<>>
      /\ Head(ops[x][i]).op = op /\ Arg(x, i) = Head(ops[x][i]).n
  BY RunningShape
<1>4. Of(e, names, n) => Of(Head(ops[x][i]), names, n)
  BY <1>1, <1>3 DEF Of
<1>5. Within(Append(Tail(ops[x][i]), e), ops[x][i], names, n)
  BY <1>2, <1>3, <1>4, ProceedWithin
<1> QED
  BY <1>2, <1>5 DEF QueueWithin

LEMMA RequestKinds ==
  ASSUME ops \in Queues, NEW x \in Peer, NEW i \in Index, NEW op \in OpName, NEW m \in Number,
         Request(x, i, op, m), NEW names, NEW n, op \notin names \/ m # n
  PROVE  QueueWithin(x, i, names, n)
<1>1. PICK e : e = [op |-> op, n |-> m]
  OBVIOUS
<1>2. /\ e \in Op /\ ops[x][i] \in Seq(Op)
      /\ ops'[x][i] = Append(ops[x][i], e) /\ OnlyQueue(x, i)
  BY <1>1, RequestShape
<1>3. ~Of(e, names, n)
  BY <1>1 DEF Of
<1> QED
  BY <1>2, <1>3, AppendWithin DEF QueueWithin

\* The head of a kind was the only one.
LEMMA HeadSpent ==
  ASSUME ops \in Queues, NEW x \in Peer, NEW i \in Index, NEW op, Running(x, i, op),
         NEW n, n = Arg(x, i), NEW task, NEW names, op \in names, OneToken(x, task, names, n),
         \/ Finish(x, i)
         \/ \E next \in OpName : next \notin names /\ Proceed(x, i, next, n),
         StillCreating(x, task, n)
  PROVE  ~InQueue(x, names, n)' /\ [task |-> task, n |-> n] \notin creating'[x]
<1>1. /\ ops[x][i] \in Seq(Op) /\ ops[x][i] # <<>>
      /\ Head(ops[x][i]).op = op /\ n = Head(ops[x][i]).n /\ n \in Number
  BY RunningShape
<1>2. Of(Head(ops[x][i]), names, n) /\ Once(ops[x][i], names, n)
  BY <1>1 DEF Of, OneToken
<1>3. Has(ops[x][i], names, n)
  <2>1. 1 \in DOMAIN ops[x][i] /\ Head(ops[x][i]) = ops[x][i][1]
    BY <1>1
  <2> QED
    BY <1>2, <2>1 DEF Has
<1>4. ~Has(Tail(ops[x][i]), names, n) /\ Tail(ops[x][i]) \in Seq(Op)
  BY <1>1, <1>2, Spent
<1>5. QueueWithin(x, i, names, n) /\ ~Has(ops'[x][i], names, n)
  <2>1. CASE Finish(x, i)
    BY <1>4, <2>1, FinishWithin, FinishShape
  <2>2. ASSUME NEW next \in OpName, next \notin names, Proceed(x, i, next, n)
        PROVE  QueueWithin(x, i, names, n) /\ ~Has(ops'[x][i], names, n)
    <3>1. PICK e : e = [op |-> next, n |-> n]
      OBVIOUS
    <3>2. e \in Op /\ ops'[x][i] = Append(Tail(ops[x][i]), e)
      BY <1>1, <2>2, <3>1, ProceedShape
    <3>3. ~Of(e, names, n)
      BY <2>2, <3>1 DEF Of
    <3>4. ~Has(Append(Tail(ops[x][i]), e), names, n)
      BY <1>4, <3>2, <3>3, AppendWithin DEF Within
    <3>5. QueueWithin(x, i, names, n)
      BY <1>1, <2>2, ProceedKinds
    <3> QED
      BY <3>2, <3>4, <3>5
  <2> QED
    BY <2>1, <2>2
<1> QED
  BY <1>3, <1>5, TokenSpent

-----------------------------------------------------------------------------
(* What a step of one of the two does to the offers of both *)

\* A step of the other leaves y alone, but for what is on its way to y.
Still(y) ==
    /\ SideUntouched(y)
    /\ offers'[y] = offers[y] /\ lastOffer'[y] = lastOffer[y]
    /\ lastAnswer'[y] = lastAnswer[y] /\ answered'[y] = answered[y]

\* x may make new offers, and send the ones it made.
Makes(x) == MadeOnce(x)' /\ \A n \in Number : Unsent(x, n)' => Unsent(x, n)

\* x takes up fresh offers, sets them, and answers what it has set.
Takes(x) ==
    \A n \in Number :
        /\ OneToken(x, "handle", AcceptOps, n)'
        /\ InHand(x, n)' => InHand(x, n) \/ (Fresh(x, n) /\ lastOffer'[x] = n)
        /\ (Sent(x, n)' => Sent(x, n)) /\ (Fresh(x, n)' => Fresh(x, n))
        /\ \A i \in Index : Pending(x, i, n)' =>
              \/ Pending(x, i, n)
              \/ /\ InHand(x, n) /\ ~InHand(x, n)'
                 /\ \A j \in Index \ {i} : conns'[x][j] = conns[x][j]
        /\ \A i \in Index : Has(ops'[x][i], {"setAnswer"}, n) => AnswerDue(x, i, n)
        /\ answered[x][n] # 0 => answered'[x][n] # 0
        /\ answered'[x][n] # 0 /\ answered[x][n] = 0 =>
              \E i \in Index : Has(ops[x][i], {"setAnswer"}, n) /\ ~Pending(x, i, n)'

\* What x sends to y is an offer it made or an answer it gave.
Sends(x, y) ==
    \A n \in Number :
        /\ InChan(y, n)' => InChan(y, n) \/ (Unsent(x, n) /\ ~Unsent(x, n)')
        /\ [type |-> "answer", n |-> n] \in Sdps(y)' =>
              [type |-> "answer", n |-> n] \in Sdps(y) \/ answered'[x][n] # 0

\* No answer comes to x but those on their way.
Hears(x) ==
    \A n \in Number :
        lastAnswer'[x] = n \/ [type |-> "answer", n |-> n] \in Sdps(x)' =>
            lastAnswer[x] = n \/ [type |-> "answer", n |-> n] \in Sdps(x)

LEMMA StillKnows ==
  ASSUME NEW y \in Peer, Still(y)
  PROVE  /\ MadeOnce(y)' <=> MadeOnce(y)
         /\ RemoteIsAnswered(y)' <=> RemoteIsAnswered(y)
         /\ \A n \in Number : /\ Unsent(y, n)' <=> Unsent(y, n)
                              /\ InHand(y, n)' <=> InHand(y, n)
                              /\ Tried(y, n)' <=> Tried(y, n)
                              /\ OneToken(y, "handle", AcceptOps, n)' <=> OneToken(y, "handle", AcceptOps, n)
                              /\ \A i \in Index : /\ Pending(y, i, n)' <=> Pending(y, i, n)
                                                  /\ AnswerDue(y, i, n)' <=> AnswerDue(y, i, n)
<1>1. creating'[y] = creating[y] /\ \A i \in Index : ops'[y][i] = ops[y][i] /\ conns'[y][i] = conns[y][i]
  BY DEF Still, SideUntouched
<1>2. \A i \in Index : HaveRemoteOffer(y, i)' <=> HaveRemoteOffer(y, i)
  BY <1>1 DEF HaveRemoteOffer, Stable
<1>3. \A n : \A i \in Index : Pending(y, i, n)' <=> Pending(y, i, n)
  BY <1>1, <1>2 DEF Pending
<1>4. \A n : \A i \in Index : AnswerDue(y, i, n)' <=> AnswerDue(y, i, n)
  BY <1>1, <1>3 DEF AnswerDue
<1>5. \A n, names : InQueue(y, names, n)' <=> InQueue(y, names, n)
  BY <1>1 DEF InQueue, Index
<1>6. \A n, names, task : OneToken(y, task, names, n)' <=> OneToken(y, task, names, n)
  BY <1>1, <1>5 DEF OneToken, Index
<1>7. \A n : (InMaking(y, n)' <=> InMaking(y, n)) /\ (InHand(y, n)' <=> InHand(y, n))
  BY <1>1, <1>5 DEF InMaking, InHand
<1>8. \A n : Unsent(y, n)' <=> Unsent(y, n)
  <2>1. offers'[y] = offers[y]
    BY DEF Still
  <2>2. ASSUME NEW n PROVE Unsent(y, n)' <=> Unsent(y, n)
    <3>1. InMaking(y, n)' <=> InMaking(y, n)
      BY <1>7
    <3> QED
      BY <2>1, <3>1, Zenon DEF Unsent
  <2> QED
    BY <2>2
<1>9. \A n \in Number : Tried(y, n)' <=> Tried(y, n)
  <2>1. answered'[y] = answered[y]
    BY DEF Still
  <2>2. ASSUME NEW n \in Number PROVE Tried(y, n)' <=> Tried(y, n)
    <3>1. \A i \in Index : AnswerDue(y, i, n)' <=> AnswerDue(y, i, n)
      BY <1>4
    <3> QED
      BY <2>1, <3>1 DEF Tried, Index
  <2> QED
    BY <2>2
<1>10. MadeOnce(y)' <=> MadeOnce(y)
  BY <1>6, <1>7 DEF MadeOnce, Still, Number
<1>11. RemoteIsAnswered(y)' <=> RemoteIsAnswered(y)
  BY <1>1, <1>2 DEF RemoteIsAnswered, Index
<1>12. \A n \in Number, i \in Index : /\ Pending(y, i, n)' <=> Pending(y, i, n)
                                      /\ AnswerDue(y, i, n)' <=> AnswerDue(y, i, n)
  BY <1>3, <1>4
<1>13. \A n \in Number : OneToken(y, "handle", AcceptOps, n)' <=> OneToken(y, "handle", AcceptOps, n)
  BY <1>6
<1> QED
  BY <1>7, <1>8, <1>9, <1>10, <1>11, <1>12, <1>13

\* Offers are taken once more.
LEMMA TakenStep ==
  ASSUME NEW x \in Peer, TakenOnce(x), Takes(x)
  PROVE  /\ TakenOnce(x)'
         /\ \A n \in Number : ~Sent(x, n) /\ ~InHand(x, n) /\ ~Tried(x, n) =>
                ~Sent(x, n)' /\ ~InHand(x, n)' /\ ~Tried(x, n)'
<1>1. ASSUME NEW n \in Number
      PROVE  /\ (InHand(x, n) \/ Fresh(x, n)) => ~Tried(x, n)
             /\ Fresh(x, n) => ~InHand(x, n)
  BY DEF TakenOnce
<1>2. ASSUME NEW n \in Number, Tried(x, n)', ~Tried(x, n)
      PROVE  InHand(x, n) /\ ~InHand(x, n)'
  <2>1. ASSUME NEW i \in Index PROVE ~Has(ops'[x][i], {"setAnswer"}, n)
    BY <1>2 DEF Takes, Tried
  <2>2. answered'[x][n] = 0
    BY <1>2 DEF Takes, Tried, AnswerDue
  <2>3. PICK i \in Index : Pending(x, i, n)'
    BY <1>2, <2>1, <2>2 DEF Tried, AnswerDue, Index
  <2>4. ~Pending(x, i, n)
    BY <1>2 DEF Tried, AnswerDue
  <2> QED
    BY <2>3, <2>4 DEF Takes
<1>3. ASSUME NEW n \in Number, InHand(x, n)' PROVE ~Tried(x, n)' /\ ~Fresh(x, n)'
  <2>1. InHand(x, n) \/ (Fresh(x, n) /\ lastOffer'[x] = n)
    BY <1>3 DEF Takes
  <2>2. ~Tried(x, n)'
    BY <1>1, <1>2, <1>3, <2>1
  <2>3. ~Fresh(x, n)'
    BY <1>1, <2>1 DEF Takes, Fresh
  <2> QED
    BY <2>2, <2>3
<1>4. ASSUME NEW n \in Number, Fresh(x, n)' PROVE ~Tried(x, n)'
  <2>1. Fresh(x, n) /\ ~InHand(x, n) /\ ~Tried(x, n)
    BY <1>1, <1>4 DEF Takes
  <2> QED
    BY <1>2, <2>1
<1>5. ASSUME NEW n \in Number, NEW i \in Index, Pending(x, i, n)'
      PROVE  answered'[x][n] = 0 /\ \A j \in Index \ {i} : ~AnswerDue(x, j, n)'
  <2>1. CASE Pending(x, i, n)
    <3>1. answered[x][n] = 0 /\ \A j \in Index \ {i} : ~AnswerDue(x, j, n)
      BY <2>1 DEF TakenOnce
    <3>2. ~InHand(x, n)
      BY <2>1, <1>1 DEF Tried, AnswerDue
    <3>3. answered'[x][n] = 0
      BY <1>5, <3>1 DEF Takes, AnswerDue
    <3>4. ASSUME NEW j \in Index \ {i} PROVE ~Pending(x, j, n)' /\ ~Has(ops'[x][j], {"setAnswer"}, n)
      BY <3>1, <3>2 DEF Takes, AnswerDue
    <3> QED
      BY <3>3, <3>4 DEF AnswerDue
  <2>2. CASE ~Pending(x, i, n)
    <3>1. /\ InHand(x, n) /\ \A j \in Index \ {i} : conns'[x][j] = conns[x][j]
      BY <1>5, <2>2 DEF Takes
    <3>2. answered[x][n] = 0 /\ \A j \in Index : ~AnswerDue(x, j, n)
      BY <1>1, <3>1 DEF Tried
    <3>3. answered'[x][n] = 0 /\ \A j \in Index : ~Has(ops'[x][j], {"setAnswer"}, n)
      BY <3>2 DEF Takes, AnswerDue
    <3>4. ASSUME NEW j \in Index \ {i} PROVE ~Pending(x, j, n)'
      <4>1. ~Pending(x, j, n)
        BY <3>2 DEF AnswerDue
      <4>2. conns'[x][j] = conns[x][j]
        BY <3>1
      <4> QED
        BY <4>1, <4>2 DEF Pending, HaveRemoteOffer, Stable
    <3> QED
      BY <3>3, <3>4 DEF AnswerDue
  <2> QED
    BY <2>1, <2>2
<1>6. TakenOnce(x)'
  <2>1. \A n \in Number : OneToken(x, "handle", AcceptOps, n)'
    BY DEF Takes
  <2> QED
    BY <2>1, <1>3, <1>4, <1>5 DEF TakenOnce, Number, Index
<1>7. ASSUME NEW n \in Number, ~Sent(x, n), ~InHand(x, n), ~Tried(x, n)
      PROVE  ~Sent(x, n)' /\ ~InHand(x, n)' /\ ~Tried(x, n)'
  BY <1>2, <1>7 DEF Takes, Sent, Fresh
<1> QED
  BY <1>6, <1>7

\* A step of x keeps the offers of both in order.
LEMMA LifeStep ==
  ASSUME LifeInv, NEW x \in Peer, NEW y \in Peer, y = Other(x), x = Other(y), Still(y),
         Makes(x), Takes(x), Sends(x, y), Hears(x),
         RemoteIsAnswered(x)', InOrder(x)', InOrder(y)'
  PROVE  LifeInv'
<1>1. MadeOnce(y)' /\ RemoteIsAnswered(y)'
  BY StillKnows DEF LifeInv
<1>2. TakenOnce(x)'
  BY TakenStep DEF LifeInv
<1>3. TakenOnce(y)'
  <2>1. ASSUME NEW n \in Number, Fresh(y, n)' PROVE ~InHand(y, n) /\ ~Tried(y, n)
    <3>1. Fresh(y, n) \/ Unsent(x, n)
      BY <2>1 DEF Fresh, Sends, Still
    <3> QED
      BY <3>1 DEF LifeInv, TakenOnce, SentFirst
  <2>2. TakenOnce(y)
    BY DEF LifeInv
  <2>3. \A n \in Number : answered'[y][n] = answered[y][n]
    BY DEF Still
  <2>4. ASSUME NEW n \in Number
        PROVE  /\ OneToken(y, "handle", AcceptOps, n)'
               /\ Fresh(y, n)' => ~InHand(y, n)' /\ ~Tried(y, n)'
               /\ InHand(y, n)' => ~Tried(y, n)'
               /\ \A i \in Index : Pending(y, i, n)' =>
                     answered'[y][n] = 0 /\ \A j \in Index \ {i} : ~AnswerDue(y, j, n)'
    BY <2>1, <2>2, <2>3, StillKnows DEF TakenOnce
  <2> QED
    BY <2>4 DEF TakenOnce, Number, Index
<1>4. SentFirst(x)'
  <2>1. ASSUME NEW n \in Number, Unsent(x, n)'
        PROVE  ~Sent(y, n)' /\ ~InHand(y, n)' /\ ~Tried(y, n)'
    <3>1. Unsent(x, n)
      BY <2>1 DEF Makes
    <3>2. ~Sent(y, n) /\ ~InHand(y, n) /\ ~Tried(y, n)
      BY <3>1 DEF LifeInv, SentFirst
    <3>3. ~Sent(y, n)'
      BY <2>1, <3>2 DEF Sent, Sends, Still
    <3> QED
      BY <3>2, <3>3, StillKnows
  <2>2. y = Other(x)'
    BY DEF Other
  <2> QED
    BY <2>1, <2>2 DEF SentFirst, Number
<1>5. SentFirst(y)'
  <2>1. ASSUME NEW n \in Number, Unsent(y, n)'
        PROVE  ~Sent(x, n)' /\ ~InHand(x, n)' /\ ~Tried(x, n)'
    <3>1. Unsent(y, n)
      BY <2>1, StillKnows
    <3>2. ~Sent(x, n) /\ ~InHand(x, n) /\ ~Tried(x, n)
      BY <3>1 DEF LifeInv, SentFirst
    <3> QED
      BY <3>2, TakenStep DEF LifeInv
  <2>2. x = Other(y)'
    BY DEF Other
  <2> QED
    BY <2>1, <2>2 DEF SentFirst, Number
<1>6. AnswersSent(x)' /\ AnswersSent(y)'
  <2>1. ASSUME NEW n \in Number,
               lastAnswer'[x] = n \/ [type |-> "answer", n |-> n] \in Sdps(x)'
        PROVE  answered'[y][n] # 0
    BY <2>1 DEF Hears, LifeInv, AnswersSent, Still
  <2>2. ASSUME NEW n \in Number,
               lastAnswer'[y] = n \/ [type |-> "answer", n |-> n] \in Sdps(y)'
        PROVE  answered'[x][n] # 0
    <3>1. CASE lastAnswer[y] = n \/ [type |-> "answer", n |-> n] \in Sdps(y)
      BY <3>1 DEF LifeInv, AnswersSent, Takes
    <3>2. CASE ~(lastAnswer[y] = n \/ [type |-> "answer", n |-> n] \in Sdps(y))
      BY <2>2, <3>2 DEF Sends, Still
    <3> QED
      BY <3>1, <3>2
  <2>3. y = Other(x)' /\ x = Other(y)'
    BY DEF Other
  <2> QED
    BY <2>1, <2>2, <2>3 DEF AnswersSent, Number
<1>7. MadeOnce(x)'
  BY DEF Makes
<1>8. \A z \in Peer : z = x \/ z = y
  BY TwoPeers
<1> QED
  BY <1>1, <1>2, <1>3, <1>4, <1>5, <1>6, <1>7, <1>8 DEF LifeInv

-----------------------------------------------------------------------------
(* The order of the offers on their way *)

\* The offers of a later state are some of those before, in their order.
LEMMA OrderKept ==
  ASSUME NEW x \in Peer, InOrder(x), NEW f,
         \A k \in 0 .. Len(chan'[x]) : Offer(x, k)' =>
             /\ f[k] \in 0 .. Len(chan[x]) /\ Offer(x, f[k])
             /\ OfferNumber(x, f[k]) = OfferNumber(x, k)',
         \A k, l \in 0 .. Len(chan'[x]) : k < l => f[k] < f[l]
  PROVE  InOrder(x)'
BY DEF InOrder

LEMMA EventShape ==
  ASSUME chan \in Channels, NEW x \in Peer, NEW k \in DOMAIN chan[x]
  PROVE  /\ chan[x][k].type = "offer" =>
                /\ chan[x][k] = [type |-> "offer", n |-> chan[x][k].n]
                /\ chan[x][k].n \in Number /\ InChan(x, chan[x][k].n)
         /\ chan[x][k].type = "answer" =>
                /\ chan[x][k] = [type |-> "answer", n |-> chan[x][k].n]
                /\ chan[x][k].n \in Number /\ chan[x][k] \in Sdps(x)
<1>1. chan[x][k] \in Msg
  BY DEF Channels
<1> QED
  BY <1>1 DEF Msg, Joined, Candidate, InChan, Sdps

LEMMA ConsumeShape ==
  ASSUME chan \in Channels, NEW x \in Peer, chan[x] # <<>>, Consume(x)
  PROVE  /\ chan[x] \in Seq(Msg) /\ chan'[x] = Tail(chan[x])
         /\ Len(chan[x]) \in Nat /\ Len(chan'[x]) = Len(chan[x]) - 1 /\ 1 \in DOMAIN chan[x]
         /\ Head(chan[x]) = chan[x][1]
         /\ \A k \in 1 .. Len(chan'[x]) : k + 1 \in DOMAIN chan[x] /\ chan'[x][k] = chan[x][k + 1]
         /\ \A y \in Peer : y # x => chan'[y] = chan[y]
         /\ Sdps(x) \subseteq Sdps(x)' \cup {Head(chan[x])}
<1>1. chan[x] \in Seq(Msg) /\ chan'[x] = Tail(chan[x]) /\ \A y \in Peer : y # x => chan'[y] = chan[y]
  BY DEF Channels, Consume
<1>2. PICK s : s = chan[x]
  OBVIOUS
<1>3. /\ s \in Seq(Msg) /\ s # <<>> /\ Len(s) \in Nat /\ Len(Tail(s)) = Len(s) - 1
      /\ 1 \in DOMAIN s /\ Head(s) = s[1]
      /\ \A k \in 1 .. Len(Tail(s)) : k + 1 \in DOMAIN s /\ Tail(s)[k] = s[k + 1]
      /\ \A k \in DOMAIN s : k # 1 => k - 1 \in DOMAIN Tail(s) /\ Tail(s)[k - 1] = s[k]
  BY <1>1, <1>2
<1>4. Sdps(x) \subseteq Sdps(x)' \cup {Head(chan[x])}
  <2>1. ASSUME NEW k \in DOMAIN s, s[k].type \in {"offer", "answer"}, s[k] # Head(s)
        PROVE  s[k] \in Sdps(x)'
    <3>1. k - 1 \in DOMAIN Tail(s) /\ Tail(s)[k - 1] = s[k]
      BY <1>3, <2>1
    <3>2. \E l \in DOMAIN chan'[x] : chan'[x][l] = s[k]
      BY <1>1, <1>2, <3>1
    <3> QED
      BY <2>1, <3>2 DEF Sdps
  <2> QED
    BY <1>2, <2>1 DEF Sdps
<1> QED
  BY <1>1, <1>2, <1>3, <1>4

\* What arrives is the first, and an offer that arrives was the last one had.
LEMMA ConsumeOrder ==
  ASSUME chan \in Channels, NEW x \in Peer, InOrder(x), chan[x] # <<>>, Consume(x),
         \/ Head(chan[x]).type # "offer" /\ lastOffer'[x] = lastOffer[x]
         \/ Head(chan[x]).type = "offer" /\ lastOffer'[x] = Head(chan[x]).n
  PROVE  /\ InOrder(x)'
         /\ \A n : (Sent(x, n)' => Sent(x, n)) /\ (Fresh(x, n)' => Fresh(x, n))
<1>1. /\ Len(chan[x]) \in Nat /\ Len(chan'[x]) = Len(chan[x]) - 1 /\ 1 \in DOMAIN chan[x]
      /\ Head(chan[x]) = chan[x][1]
      /\ \A k \in 1 .. Len(chan'[x]) : k + 1 \in 1 .. Len(chan[x]) /\ chan'[x][k] = chan[x][k + 1]
  BY ConsumeShape
<1>2. \A e : e \in Sdps(x)' => e \in Sdps(x)
  BY ConsumeSdps DEF NoNewSdps
<1>3. CASE Head(chan[x]).type # "offer" /\ lastOffer'[x] = lastOffer[x]
  <2> DEFINE f == [k \in 0 .. Len(chan'[x]) |-> IF k = 0 THEN 0 ELSE k + 1]
  <2>1. ASSUME NEW k \in 0 .. Len(chan'[x]), Offer(x, k)'
        PROVE  /\ f[k] \in 0 .. Len(chan[x]) /\ Offer(x, f[k])
               /\ OfferNumber(x, f[k]) = OfferNumber(x, k)'
    <3>1. PICK l : l = f[k]
      OBVIOUS
    <3>2. k \in Nat /\ l = IF k = 0 THEN 0 ELSE k + 1
      BY <1>1, <3>1
    <3>3. CASE k = 0
      <4>1. l = 0 /\ 0 \in 0 .. Len(chan[x])
        BY <1>1, <3>2, <3>3
      <4> QED
        BY <1>3, <3>1, <3>3, <4>1 DEF Offer, OfferNumber
    <3>4. CASE k # 0
      <4>1. k \in 1 .. Len(chan'[x]) /\ l = k + 1 /\ l # 0
        BY <1>1, <3>2, <3>4
      <4>2. l \in 0 .. Len(chan[x]) /\ chan'[x][k] = chan[x][l]
        BY <1>1, <4>1
      <4>3. Offer(x, l) /\ OfferNumber(x, l) = OfferNumber(x, k)'
        <5> HIDE DEF f
        <5> QED
          BY <2>1, <3>4, <4>1, <4>2 DEF Offer, OfferNumber
      <4> QED
        BY <3>1, <4>2, <4>3
    <3> QED
      BY <3>3, <3>4
  <2>2. ASSUME NEW k \in 0 .. Len(chan'[x]), NEW l \in 0 .. Len(chan'[x]), k < l
        PROVE  f[k] < f[l]
    <3>1. f[k] \in {0, k + 1} /\ f[l] = l + 1 /\ k \in Int /\ l \in Int /\ 0 <= k
      BY <2>2
    <3> HIDE DEF f
    <3> QED
      BY <2>2, <3>1
  <2>3. InOrder(x)'
    <3> HIDE DEF f
    <3> QED
      BY <2>1, <2>2, OrderKept
  <2> QED
    BY <1>2, <1>3, <2>3 DEF Sent, Fresh, InChan
<1>4. CASE Head(chan[x]).type = "offer" /\ lastOffer'[x] = Head(chan[x]).n
  <2> DEFINE f == [k \in 0 .. Len(chan'[x]) |-> k + 1]
  <2>1. ASSUME NEW k \in 0 .. Len(chan'[x]), Offer(x, k)'
        PROVE  /\ f[k] \in 0 .. Len(chan[x]) /\ Offer(x, f[k])
               /\ OfferNumber(x, f[k]) = OfferNumber(x, k)'
    <3>1. PICK l : l = f[k]
      OBVIOUS
    <3>2. k \in Nat /\ l = k + 1 /\ l # 0 /\ l \in 0 .. Len(chan[x])
      BY <1>1, <3>1
    <3>3. CASE k = 0
      <4>1. l = 1
        BY <3>2, <3>3
      <4>2. Offer(x, 1) /\ OfferNumber(x, 1) = OfferNumber(x, 0)'
        BY <1>1, <1>4 DEF Offer, OfferNumber
      <4> QED
        BY <3>1, <3>2, <3>3, <4>1, <4>2
    <3>4. CASE k # 0
      <4>1. k \in 1 .. Len(chan'[x])
        BY <1>1, <3>2, <3>4
      <4>2. chan'[x][k] = chan[x][l]
        BY <1>1, <3>2, <4>1
      <4>3. Offer(x, l) /\ OfferNumber(x, l) = OfferNumber(x, k)'
        <5> HIDE DEF f
        <5> QED
          BY <2>1, <3>2, <3>4, <4>2 DEF Offer, OfferNumber
      <4> QED
        BY <3>1, <3>2, <4>3
    <3> QED
      BY <3>3, <3>4
  <2>2. \A k, l \in 0 .. Len(chan'[x]) : k < l => f[k] < f[l]
    BY <1>1
  <2>3. InOrder(x)'
    <3> HIDE DEF f
    <3> QED
      BY <2>1, <2>2, OrderKept
  <2>4. ASSUME NEW n, Sent(x, n)' PROVE Sent(x, n)
    <3>1. InChan(x, Head(chan[x]).n)
      BY <1>1, <1>4, EventShape
    <3> QED
      BY <1>2, <1>4, <2>4, <3>1 DEF Sent, InChan
  <2>5. ASSUME NEW n, Fresh(x, n)', lastOffer[x] = n PROVE FALSE
    <3>1. PICK k \in DOMAIN chan'[x] : chan'[x][k] = [type |-> "offer", n |-> n]
      BY <2>5 DEF Fresh, InChan, Sdps
    <3>2. k \in 1 .. Len(chan'[x])
      BY <3>1, ConsumeShape
    <3>3. PICK l : l = k + 1
      OBVIOUS
    <3>4. /\ l \in 0 .. Len(chan[x]) /\ 1 \in 0 .. Len(chan[x]) /\ 0 \in 0 .. Len(chan[x])
          /\ 0 < 1 /\ 1 < l
      BY <1>1, <3>2, <3>3
    <3>5. Offer(x, l) /\ OfferNumber(x, l) = n
      BY <1>1, <3>1, <3>2, <3>3, <3>4 DEF Offer, OfferNumber
    <3>6. Offer(x, 1) /\ OfferNumber(x, 1) = Head(chan[x]).n
      BY <1>1, <1>4 DEF Offer, OfferNumber
    <3>7. Offer(x, 0) /\ OfferNumber(x, 0) = n
      BY <2>5 DEF Offer, OfferNumber
    <3>8. OfferNumber(x, 1) = n
      BY <3>4, <3>5, <3>6, <3>7 DEF InOrder
    <3> QED
      BY <1>4, <2>5, <3>6, <3>8 DEF Fresh
  <2>6. \A n : Fresh(x, n)' => Fresh(x, n)
    BY <1>2, <2>5 DEF Fresh, InChan
  <2> QED
    BY <2>3, <2>4, <2>6
<1> QED
  BY <1>3, <1>4

\* What comes behind is no offer, or one that was not sent before.
LEMMA AppendOrder ==
  ASSUME chan \in Channels, NEW y \in Peer, InOrder(y), lastOffer'[y] = lastOffer[y],
         NEW m \in Msg, m.type # "offer", chan'[y] = Append(chan[y], m)
  PROVE  InOrder(y)' /\ Sdps(y) \subseteq Sdps(y)'
<1>1. PICK s : s = chan[y] /\ s \in Seq(Msg)
  BY DEF Channels
<1>2. /\ Len(s) \in Nat /\ Len(chan'[y]) = Len(s) + 1 /\ chan'[y][Len(s) + 1] = m
      /\ \A k \in 1 .. Len(s) : k \in DOMAIN chan'[y] /\ chan'[y][k] = s[k]
  BY <1>1
<1> DEFINE f == [k \in 0 .. Len(chan'[y]) |-> k]
<1>3. ASSUME NEW k \in 0 .. Len(chan'[y]), Offer(y, k)'
      PROVE  /\ f[k] \in 0 .. Len(chan[y]) /\ Offer(y, f[k])
             /\ OfferNumber(y, f[k]) = OfferNumber(y, k)'
  <2>1. k # Len(s) + 1
    BY <1>2, <1>3 DEF Offer
  <2> QED
    BY <1>1, <1>2, <1>3, <2>1 DEF Offer, OfferNumber
<1>4. \A k, l \in 0 .. Len(chan'[y]) : k < l => f[k] < f[l]
  OBVIOUS
<1>5. InOrder(y)'
  <2> HIDE DEF f
  <2> QED
    BY <1>3, <1>4, OrderKept
<1>6. Sdps(y) \subseteq Sdps(y)'
  BY <1>1, <1>2 DEF Sdps
<1> QED
  BY <1>5, <1>6

LEMMA SendOrder ==
  ASSUME chan \in Channels, NEW x \in Peer, NEW y \in Peer, y = Other(x), InOrder(y),
         lastOffer'[y] = lastOffer[y], NEW type, NEW n, SendSdp(x, type, n),
         type = "answer" \/ (type = "offer" /\ ~Sent(y, n))
  PROVE  /\ InOrder(y)' /\ chan'[x] = chan[x]
         /\ Sdps(y)' = Sdps(y) \cup {[type |-> type, n |-> n]}
<1>1. PICK s, e : s = chan[y] /\ s \in Seq(Msg) /\ e = [type |-> type, n |-> n]
  BY DEF Channels
<1>2. y # x
  BY OtherPeer
<1>3. chan'[y] = s \o <<e, e>> /\ chan'[x] = chan[x]
  BY <1>1, <1>2 DEF Channels, SendSdp, Relayed
<1>4. /\ Len(s) \in Nat /\ Len(chan'[y]) = Len(s) + 2
      /\ chan'[y][Len(s) + 1] = e /\ chan'[y][Len(s) + 2] = e
      /\ \A k \in 1 .. Len(s) : chan'[y][k] = s[k]
      /\ DOMAIN s = 1 .. Len(s) /\ DOMAIN chan'[y] = 1 .. (Len(s) + 2)
  BY <1>1, <1>3
<1>5. Sdps(y)' = Sdps(y) \cup {e}
  <2>1. {chan'[y][k] : k \in DOMAIN chan'[y]} = {s[k] : k \in DOMAIN s} \cup {e}
    <3>1. \A k \in DOMAIN chan'[y] : k \in DOMAIN s \/ k = Len(s) + 1 \/ k = Len(s) + 2
      BY <1>4
    <3>2. \A k \in DOMAIN s : k \in DOMAIN chan'[y]
      BY <1>4
    <3>3. Len(s) + 1 \in DOMAIN chan'[y]
      BY <1>4
    <3> QED
      BY <1>4, <3>1, <3>2, <3>3
  <2>2. e.type \in {"offer", "answer"}
    BY <1>1
  <2> QED
    BY <1>1, <2>1, <2>2 DEF Sdps
<1>6. ASSUME NEW k \in 0 .. Len(s)
      PROVE  (Offer(y, k)' <=> Offer(y, k)) /\ OfferNumber(y, k)' = OfferNumber(y, k)
  BY <1>1, <1>4 DEF Offer, OfferNumber
<1>7. ASSUME NEW k \in 0 .. Len(chan'[y]), NEW m \in 0 .. Len(chan'[y]), NEW l \in 0 .. Len(chan'[y]),
             Offer(y, k)', Offer(y, m)', Offer(y, l)', k < m, m < l,
             OfferNumber(y, k)' = OfferNumber(y, l)'
      PROVE  OfferNumber(y, m)' = OfferNumber(y, l)'
  <2>1. CASE l \in 0 .. Len(s)
    <3>1. k \in 0 .. Len(s) /\ m \in 0 .. Len(s)
      BY <1>4, <1>7, <2>1
    <3>2. Len(chan[y]) = Len(s)
      BY <1>1
    <3> QED
      BY <1>6, <1>7, <2>1, <3>1, <3>2 DEF InOrder
  <2>2. CASE l \notin 0 .. Len(s)
    <3>1. k \in 0 .. Len(s) /\ chan'[y][l] = e /\ l # 0
      BY <1>4, <1>7, <2>2
    <3>2. type = "offer" /\ OfferNumber(y, l)' = n
      BY <1>1, <1>7, <3>1 DEF Offer, OfferNumber
    <3>3. Offer(y, k) /\ OfferNumber(y, k) = n
      BY <1>6, <1>7, <3>1, <3>2
    <3>4. CASE k = 0
      BY <3>2, <3>3, <3>4 DEF OfferNumber, Sent
    <3>5. CASE k # 0
      <4>1. k \in DOMAIN chan[y]
        BY <1>1, <1>4, <3>1, <3>5
      <4>2. InChan(y, n)
        BY <3>3, <3>5, <4>1, EventShape DEF Offer, OfferNumber
      <4> QED
        BY <3>2, <4>2 DEF Sent
    <3> QED
      BY <3>4, <3>5
  <2> QED
    BY <2>1, <2>2
<1>8. InOrder(y)'
  BY <1>7 DEF InOrder
<1> QED
  BY <1>1, <1>3, <1>5, <1>8

-----------------------------------------------------------------------------
(* Steps that only take something away *)

\* No operation of a kind is requested.
Spares(x, task, names) ==
    \A n \in Number :
        /\ \A j \in Index : Has(ops'[x][j], names, n) => Has(ops[x][j], names, n)
        /\ InQueue(x, names, n)' => InQueue(x, names, n)
        /\ OneToken(x, task, names, n) => OneToken(x, task, names, n)'
        /\ StillCreating(x, task, n)

LEMMA SparesStill ==
  ASSUME NEW x \in Peer, \A j \in Index : ops'[x][j] = ops[x][j], NEW task, NEW names,
         \A n \in Number : StillCreating(x, task, n)
  PROVE  Spares(x, task, names)
BY TokenStill DEF Spares

LEMMA SparesWithin ==
  ASSUME NEW x \in Peer, NEW i \in Index, NEW task, NEW names,
         \A n \in Number : QueueWithin(x, i, names, n) /\ StillCreating(x, task, n)
  PROVE  Spares(x, task, names)
BY TokenKept DEF Spares

LEMMA MakesKept ==
  ASSUME NEW x \in Peer, MadeOnce(x), offers'[x] = offers[x], Spares(x, "offer", OfferOps)
  PROVE  Makes(x)
<1>1. ASSUME NEW n \in Number
      PROVE  (InMaking(x, n)' => InMaking(x, n)) /\ OneToken(x, "offer", OfferOps, n)'
  BY DEF Spares, InMaking, StillCreating, MadeOnce
<1> QED
  BY <1>1 DEF Makes, MadeOnce, Unsent, Number

LEMMA TakesKept ==
  ASSUME NEW x \in Peer, TakenOnce(x), Spares(x, "handle", AcceptOps),
         \A n \in Number :
             /\ (Sent(x, n)' => Sent(x, n)) /\ (Fresh(x, n)' => Fresh(x, n))
             /\ \A j \in Index : /\ Has(ops'[x][j], {"setAnswer"}, n) => AnswerDue(x, j, n)
                                 /\ Pending(x, j, n)' => Pending(x, j, n)
             /\ answered'[x][n] # answered[x][n] =>
                   /\ answered'[x][n] # 0
                   /\ \E i \in Index : Has(ops[x][i], {"setAnswer"}, n) /\ ~Pending(x, i, n)'
  PROVE  Takes(x)
<1>1. ASSUME NEW n \in Number
      PROVE  (InHand(x, n)' => InHand(x, n)) /\ OneToken(x, "handle", AcceptOps, n)'
  BY DEF Spares, InHand, StillCreating, TakenOnce
<1>2. ASSUME NEW n \in Number
      PROVE  /\ answered[x][n] # 0 => answered'[x][n] # 0
             /\ answered'[x][n] # 0 /\ answered[x][n] = 0 =>
                   \E i \in Index : Has(ops[x][i], {"setAnswer"}, n) /\ ~Pending(x, i, n)'
  OBVIOUS
<1> QED
  BY <1>1, <1>2 DEF Takes

-----------------------------------------------------------------------------
(* The answers that are about to be given *)

LEMMA AppendComes ==
  ASSUME NEW s \in Seq(Op), NEW e \in Op, AnswerComes(s) \/ e.op \in {"createAnswer", "setAnswer"}
  PROVE  AnswerComes(Append(s, e))
BY AppendPlaces DEF AnswerComes

LEMMA TailComes ==
  ASSUME NEW s \in Seq(Op), s # <<>>, AnswerComes(s), Head(s).op \notin {"createAnswer", "setAnswer"}
  PROVE  AnswerComes(Tail(s))
<1>1. PICK k \in DOMAIN s : s[k].op \in {"createAnswer", "setAnswer"}
  BY DEF AnswerComes
<1>2. k # 1
  BY <1>1
<1>3. k - 1 \in DOMAIN Tail(s) /\ Tail(s)[k - 1] = s[k]
  BY <1>2, TailByPosition
<1> QED
  BY <1>1, <1>3 DEF AnswerComes

LEMMA RemoteKept ==
  ASSUME NEW x \in Peer, RemoteIsAnswered(x), NEW i \in Index,
         \A j \in Index \ {i} : ops'[x][j] = ops[x][j] /\ conns'[x][j].pending = conns[x][j].pending,
         HaveRemoteOffer(x, i)' => AnswerComes(ops'[x][i])
  PROVE  RemoteIsAnswered(x)'
<1>1. ASSUME NEW j \in Index, j # i PROVE HaveRemoteOffer(x, j)' => AnswerComes(ops'[x][j])
  BY <1>1 DEF RemoteIsAnswered, HaveRemoteOffer, Stable
<1> QED
  BY <1>1 DEF RemoteIsAnswered, Index

-----------------------------------------------------------------------------
(* The events of a step that sends no description *)

\* y hears nothing new, and x nothing but what was on its way.
Mail(x, y) ==
    /\ InOrder(x)' /\ InOrder(y)'
    /\ \A n \in Number : (Sent(x, n)' => Sent(x, n)) /\ (Fresh(x, n)' => Fresh(x, n))
    /\ Sends(x, y) /\ Hears(x)

\* With nothing sent, only the numbers of x count.
LEMMA MailKept ==
  ASSUME NEW x \in Peer, NEW y \in Peer, NoNewSdps, InOrder(x)', InOrder(y)',
         lastOffer'[x] = lastOffer[x], lastAnswer'[x] = lastAnswer[x]
  PROVE  Mail(x, y)
BY DEF Mail, NoNewSdps, Sent, Fresh, InChan, Sends, Hears

LEMMA OrderStill ==
  ASSUME NEW y \in Peer, InOrder(y), chan'[y] = chan[y], lastOffer'[y] = lastOffer[y]
  PROVE  InOrder(y)'
BY DEF InOrder, Offer, OfferNumber

LEMMA MailSilent ==
  ASSUME NEW x \in Peer, NEW y \in Peer, InOrder(x), InOrder(y), UNCHANGED chan,
         lastOffer'[x] = lastOffer[x], lastAnswer'[x] = lastAnswer[x], lastOffer'[y] = lastOffer[y]
  PROVE  Mail(x, y)
<1>1. InOrder(x)' /\ InOrder(y)'
  BY OrderStill
<1> QED
  BY <1>1, SdpsKept, MailKept

\* Room events and candidates.
LEMMA MailConsumed ==
  ASSUME chan \in Channels, NEW x \in Peer, NEW y \in Peer, y # x, InOrder(x), InOrder(y),
         chan[x] # <<>>, Consume(x), Head(chan[x]).type \notin {"offer", "answer"},
         lastOffer'[x] = lastOffer[x], lastAnswer'[x] = lastAnswer[x], lastOffer'[y] = lastOffer[y]
  PROVE  Mail(x, y)
<1>1. InOrder(x)'
  BY ConsumeOrder
<1>2. chan'[y] = chan[y]
  BY ConsumeShape
<1>3. InOrder(y)'
  BY <1>2, OrderStill
<1> QED
  BY <1>1, <1>3, ConsumeSdps, MailKept

LEMMA MailCandidate ==
  ASSUME chan \in Channels, NEW x \in Peer, NEW y \in Peer, y # x, InOrder(x), InOrder(y),
         chan' = [chan EXCEPT ![y] = Append(@, Candidate)],
         lastOffer'[x] = lastOffer[x], lastAnswer'[x] = lastAnswer[x], lastOffer'[y] = lastOffer[y]
  PROVE  Mail(x, y)
<1>1. Candidate \in Msg /\ Candidate.type \notin {"offer", "answer"}
  BY DEF Msg, Candidate
<1>2. chan'[y] = Append(chan[y], Candidate) /\ chan'[x] = chan[x]
  BY DEF Channels
<1>3. InOrder(y)' /\ InOrder(x)'
  BY <1>1, <1>2, AppendOrder, OrderStill
<1>4. NoNewSdps
  BY <1>1, AppendSdps
<1> QED
  BY <1>3, <1>4, MailKept

LEMMA MailReconnect ==
  ASSUME chan \in Channels, NEW x \in Peer, NEW y \in Peer, y = Other(x), InOrder(x), InOrder(y),
         Reconnect(x),
         lastOffer'[x] = lastOffer[x], lastAnswer'[x] = lastAnswer[x], lastOffer'[y] = lastOffer[y]
  PROVE  Mail(x, y)
<1>1. Joined \in Msg /\ Joined.type \notin {"offer", "answer"}
  BY DEF Msg, Joined
<1>2. y # x
  BY OtherPeer
<1>3. chan'[x] = <<>> /\ (chan'[y] = chan[y] \/ chan'[y] = Append(chan[y], Joined))
  BY <1>2 DEF Channels, Reconnect
<1>4. InOrder(y)'
  BY <1>1, <1>3, AppendOrder, OrderStill
<1>5. InOrder(x)'
  <2>1. Len(chan'[x]) = 0
    BY <1>3
  <2> QED
    BY <2>1 DEF InOrder
<1>6. NoNewSdps
  BY ReconnectSdps
<1> QED
  BY <1>4, <1>5, <1>6, MailKept

-----------------------------------------------------------------------------
(* Operations *)

LEMMA LifeMail ==
  ASSUME LifeInv, NEW x \in Peer, NEW y \in Peer, y = Other(x), Still(y),
         Makes(x), Takes(x), Mail(x, y), RemoteIsAnswered(x)'
  PROVE  LifeInv'
<1>1. x = Other(y)
  BY TwoPeers
<1> QED
  BY <1>1, LifeStep DEF Mail

\* An operation of x concerns only its connection.
LEMMA StillOperate ==
  ASSUME NEW x \in Peer, NEW y \in Peer, y # x,
         \A j \in Index : ops'[y][j] = ops[y][j] /\ conns'[y][j] = conns[y][j],
         UNCHANGED <<current, created, creating, offers, lastOffer, lastAnswer>>,
         answered'[y] = answered[y]
  PROVE  Still(y)
BY DEF Still, SideUntouched

LEMMA RunningHas ==
  ASSUME ops \in Queues, NEW x \in Peer, NEW i \in Index, NEW op, Running(x, i, op),
         NEW names, op \in names
  PROVE  Has(ops[x][i], names, Arg(x, i)) /\ InQueue(x, names, Arg(x, i))
<1>1. /\ ops[x][i] \in Seq(Op) /\ ops[x][i] # <<>>
      /\ Head(ops[x][i]).op = op /\ Arg(x, i) = Head(ops[x][i]).n
  BY RunningShape
<1>2. 1 \in DOMAIN ops[x][i] /\ Head(ops[x][i]) = ops[x][i][1]
  BY <1>1
<1>3. Has(ops[x][i], names, Arg(x, i))
  BY <1>1, <1>2 DEF Has, Of
<1> QED
  BY <1>3 DEF InQueue

\* The handler ends, or goes on with an operation of the same kind or of a
\* kind that does not count.
LEMMA OperationSpares ==
  ASSUME ops \in Queues, NEW x \in Peer, NEW i \in Index, NEW op, Running(x, i, op),
         NEW task, NEW names, UNCHANGED creating,
         \/ Finish(x, i)
         \/ \E next \in OpName, m \in Number :
               /\ Proceed(x, i, next, m)
               /\ next \in names => op \in names /\ m = Arg(x, i)
  PROVE  Spares(x, task, names) /\ \A n \in Number : QueueWithin(x, i, names, n)
<1>1. ASSUME NEW n \in Number PROVE QueueWithin(x, i, names, n)
  BY FinishWithin, ProceedKinds
<1>2. \A n \in Number : StillCreating(x, task, n)
  BY DEF StillCreating
<1> QED
  BY <1>1, <1>2, SparesWithin

LEMMA OperationComes ==
  ASSUME ops \in Queues, NEW x \in Peer, NEW i \in Index, NEW op, Running(x, i, op),
         \/ Finish(x, i)
         \/ \E next \in OpName, m \in Number : Proceed(x, i, next, m),
         AnswerComes(ops[x][i]), op \notin {"createAnswer", "setAnswer"}
  PROVE  AnswerComes(ops'[x][i])
<1>1. ops[x][i] \in Seq(Op) /\ ops[x][i] # <<>> /\ Head(ops[x][i]).op = op
  BY RunningShape
<1>2. AnswerComes(Tail(ops[x][i])) /\ Tail(ops[x][i]) \in Seq(Op)
  BY <1>1, TailComes
<1>3. CASE Finish(x, i)
  BY <1>2, <1>3, FinishShape
<1>4. ASSUME NEW next \in OpName, NEW m \in Number, Proceed(x, i, next, m)
      PROVE  AnswerComes(ops'[x][i])
  BY <1>2, <1>4, ProceedShape, AppendComes
<1> QED
  BY <1>3, <1>4

\* Operations other than those that answer, of connections that get no offer of
\* the other.
LEMMA PlainOperation ==
  ASSUME TypeOK, LifeInv, NEW x \in Peer, NEW y \in Peer, y = Other(x), NEW i \in Index, NEW op,
         Running(x, i, op), op \notin {"createAnswer", "setAnswer"},
         \/ Finish(x, i)
         \/ \E next \in OpName :
               /\ Proceed(x, i, next, Arg(x, i)) /\ next # "setAnswer"
               /\ \A names \in {OfferOps, AcceptOps} : next \in names => op \in names,
         UNCHANGED <<current, created, creating, offers, lastOffer, lastAnswer, answered>>,
         \A z \in Peer, j \in Index : z # x \/ j # i => conns'[z][j] = conns[z][j],
         ~HaveRemoteOffer(x, i)' \/ conns'[x][i] = conns[x][i]
  PROVE  /\ Still(y) /\ Makes(x) /\ RemoteIsAnswered(x)'
         /\ Mail(x, y) => Takes(x)
<1>1. ops \in Queues /\ y \in Peer /\ y # x /\ Arg(x, i) \in Number
  BY Typed, OtherPeer, RunningShape
<1>2. \A j \in Index : ops'[y][j] = ops[y][j]
  BY <1>1, OtherQueues
<1>3. Still(y)
  BY <1>1, <1>2, StillOperate
<1>4. /\ Spares(x, "offer", OfferOps) /\ Spares(x, "handle", AcceptOps)
      /\ Spares(x, "none", {"setAnswer"}) /\ OnlyQueue(x, i)
  <2>1. CASE Finish(x, i)
    BY <1>1, <2>1, OperationSpares, FinishShape
  <2>2. ASSUME NEW next \in OpName, Proceed(x, i, next, Arg(x, i)), next # "setAnswer",
               \A names \in {OfferOps, AcceptOps} : next \in names => op \in names
        PROVE  /\ Spares(x, "offer", OfferOps) /\ Spares(x, "handle", AcceptOps)
               /\ Spares(x, "none", {"setAnswer"}) /\ OnlyQueue(x, i)
    BY <1>1, <2>2, OperationSpares, ProceedShape
  <2> QED
    BY <2>1, <2>2
<1>5. Makes(x)
  BY <1>4, MakesKept DEF LifeInv
<1>6. \A n \in Number, j \in Index : Pending(x, j, n)' => Pending(x, j, n)
  BY DEF Pending, HaveRemoteOffer, Stable
<1>7. ASSUME Mail(x, y) PROVE Takes(x)
  <2>1. \A n \in Number :
             /\ (Sent(x, n)' => Sent(x, n)) /\ (Fresh(x, n)' => Fresh(x, n))
             /\ \A j \in Index : Has(ops'[x][j], {"setAnswer"}, n) => AnswerDue(x, j, n)
    BY <1>4, <1>7 DEF Mail, Spares, AnswerDue
  <2> QED
    BY <1>4, <1>6, <2>1, TakesKept DEF LifeInv
<1>8. RemoteIsAnswered(x)'
  <2>1. ASSUME HaveRemoteOffer(x, i)' PROVE AnswerComes(ops'[x][i])
    <3>1. HaveRemoteOffer(x, i)
      BY <2>1 DEF HaveRemoteOffer, Stable
    <3>2. AnswerComes(ops[x][i])
      BY <3>1 DEF LifeInv, RemoteIsAnswered
    <3> QED
      BY <1>1, <3>2, OperationComes
  <2>2. \A j \in Index \ {i} : ops'[x][j] = ops[x][j] /\ conns'[x][j].pending = conns[x][j].pending
    BY <1>4 DEF OnlyQueue
  <2> QED
    BY <2>1, <2>2, RemoteKept DEF LifeInv
<1> QED
  BY <1>3, <1>5, <1>7, <1>8

LEMMA QuietOperationLife ==
  ASSUME TypeOK, LifeInv, NEW x \in Peer, NEW i \in Index,
         CreateOffer(x, i) \/ Rollback(x, i) \/ SetRemoteAnswer(x, i)
             \/ (SetRemoteOffer(x, i) /\ HaveLocalOffer(x, i))
             \/ (SetOffer(x, i) /\ HaveRemoteOffer(x, i))
  PROVE  LifeInv'
<1>1. PICK y : y = Other(x) /\ y \in Peer /\ y # x
  BY OtherPeer
<1>2. PICK op \in OpName : Running(x, i, op) /\ op \notin {"createAnswer", "setAnswer"}
  BY DEF CreateOffer, Rollback, SetRemoteAnswer, SetRemoteOffer, SetOffer, OpName
<1>3. UNCHANGED <<current, created, creating, offers, lastOffer, lastAnswer, answered, chan>>
  BY DEF CreateOffer, Rollback, SetRemoteAnswer, SetRemoteOffer, SetOffer, pcVars, stateVars, ghostVars
<1>4. \/ Finish(x, i)
      \/ \E next \in OpName :
            /\ Proceed(x, i, next, Arg(x, i)) /\ next # "setAnswer"
            /\ \A names \in {OfferOps, AcceptOps} : next \in names => op \in names
  <2>1. CASE CreateOffer(x, i)
    BY <1>2, <2>1 DEF CreateOffer, Running, OfferOps, AcceptOps, OpName
  <2>2. CASE Rollback(x, i)
    BY <1>2, <2>2 DEF Rollback, Running, OfferOps, AcceptOps, OpName
  <2> QED
    BY <2>1, <2>2 DEF SetRemoteAnswer, SetRemoteOffer, SetOffer
<1>5. /\ \A z \in Peer, j \in Index : z # x \/ j # i => conns'[z][j] = conns[z][j]
      /\ ~HaveRemoteOffer(x, i)' \/ conns'[x][i] = conns[x][i]
  <2>1. conns \in Conns
    BY Typed
  <2>2. CASE UNCHANGED conns
    BY <2>2
  <2>3. CASE Rollback(x, i)
    BY <2>1, <2>3 DEF Rollback, Conns, Conn, HaveRemoteOffer, Stable
  <2>4. CASE SetRemoteAnswer(x, i) /\ HaveLocalOffer(x, i)
    BY <2>1, <2>4 DEF SetRemoteAnswer, Conns, HaveRemoteOffer, Stable
  <2> QED
    BY <2>2, <2>3, <2>4 DEF CreateOffer, SetRemoteAnswer, SetRemoteOffer, SetOffer, pcVars, HaveLocalOffer, HaveRemoteOffer
<1>6. Mail(x, y)
  BY <1>1, <1>3, MailSilent DEF LifeInv
<1>7. Still(y) /\ Makes(x) /\ RemoteIsAnswered(x)' /\ Takes(x)
  BY <1>1, <1>2, <1>3, <1>4, <1>5, <1>6, PlainOperation
<1> QED
  BY <1>1, <1>6, <1>7, LifeMail

LEMMA SetRemoteOfferLife ==
  ASSUME TypeOK, LifeInv, NEW x \in Peer, NEW i \in Index, SetRemoteOffer(x, i)
  PROVE  LifeInv'
<1>1. CASE HaveLocalOffer(x, i)
  BY <1>1, QuietOperationLife
<1>2. CASE ~HaveLocalOffer(x, i)
  <2>1. PICK y : y = Other(x) /\ y \in Peer /\ y # x
    BY OtherPeer
  <2>2. PICK m : m = Arg(x, i)
    OBVIOUS
  <2>3. /\ Running(x, i, "setRemoteOffer") /\ Proceed(x, i, "createAnswer", m)
        /\ UNCHANGED <<current, created, creating, offers, lastOffer, lastAnswer, answered, chan>>
        /\ conns' = [conns EXCEPT ![x][i].pending = [from |-> y, type |-> "offer", n |-> m]]
    BY <1>2, <2>1, <2>2 DEF SetRemoteOffer, stateVars, ghostVars
  <2>4. ops \in Queues /\ m \in Number /\ ops[x][i] \in Seq(Op) /\ ops[x][i] # <<>>
    BY <2>2, <2>3, Typed, RunningShape
  <2>5. /\ \A z \in Peer, j \in Index : z # x \/ j # i => conns'[z][j] = conns[z][j]
        /\ conns'[x][i].pending = [from |-> y, type |-> "offer", n |-> m]
    <3>1. conns \in Conns
      BY Typed
    <3> QED
      BY <2>3, <3>1 DEF Conns, Conn
  <2>6. "createAnswer" \in OpName /\ "createAnswer" \notin OfferOps \cup AcceptOps \cup {"setAnswer"}
    BY DEF OpName, OfferOps, AcceptOps
  <2>7. OnlyQueue(x, i) /\ \A j \in Index : ops'[y][j] = ops[y][j]
    <3>1. "createAnswer" \in OpName
      BY <2>6
    <3> QED
      BY <2>1, <2>3, <2>4, <3>1, ProceedShape
  <2>8. Still(y)
    BY <2>1, <2>3, <2>5, <2>7, StillOperate
  <2>9. /\ Spares(x, "offer", OfferOps) /\ Spares(x, "handle", AcceptOps)
        /\ Spares(x, "none", {"setAnswer"})
    BY <2>3, <2>4, <2>6, OperationSpares
  <2>10. Makes(x)
    BY <2>3, <2>9, MakesKept DEF LifeInv
  <2>11. Mail(x, y)
    BY <2>1, <2>3, MailSilent DEF LifeInv
  <2>12. InHand(x, m) /\ ~InHand(x, m)'
    <3>1. "setRemoteOffer" \in AcceptOps
      BY DEF AcceptOps
    <3>2. InQueue(x, AcceptOps, m)
      BY <2>2, <2>3, <2>4, <3>1, RunningHas
    <3>3. OneToken(x, "handle", AcceptOps, m) /\ StillCreating(x, "handle", m)
      BY <2>3, <2>4 DEF LifeInv, TakenOnce, StillCreating
    <3>4. ~InQueue(x, AcceptOps, m)' /\ [task |-> "handle", n |-> m] \notin creating'[x]
      BY <2>2, <2>3, <2>4, <2>6, <3>1, <3>3, HeadSpent
    <3> QED
      BY <3>2, <3>4 DEF InHand
  <2>13. ASSUME NEW n \in Number, NEW j \in Index, Pending(x, j, n)'
         PROVE  \/ Pending(x, j, n)
                \/ /\ InHand(x, n) /\ ~InHand(x, n)'
                   /\ \A k \in Index \ {j} : conns'[x][k] = conns[x][k]
    <3>1. CASE j = i
      <4>1. n = m
        BY <2>5, <2>13, <3>1 DEF Pending
      <4> QED
        BY <2>5, <2>12, <3>1, <4>1
    <3>2. CASE j # i
      BY <2>5, <2>13, <3>2 DEF Pending, HaveRemoteOffer, Stable
    <3> QED
      BY <3>1, <3>2
  <2>14. Takes(x)
    <3>1. ASSUME NEW n \in Number
          PROVE  /\ OneToken(x, "handle", AcceptOps, n)'
                 /\ InHand(x, n)' => InHand(x, n)
                 /\ (Sent(x, n)' => Sent(x, n)) /\ (Fresh(x, n)' => Fresh(x, n))
                 /\ \A j \in Index : Has(ops'[x][j], {"setAnswer"}, n) => AnswerDue(x, j, n)
                 /\ answered'[x][n] = answered[x][n]
      BY <2>3, <2>9, <2>11 DEF Spares, InHand, StillCreating, LifeInv, TakenOnce, Mail, AnswerDue
    <3> QED
      BY <2>13, <3>1 DEF Takes
  <2>15. RemoteIsAnswered(x)'
    <3>1. PICK e : e = [op |-> "createAnswer", n |-> m]
      OBVIOUS
    <3>2. e \in Op /\ ops'[x][i] = Append(Tail(ops[x][i]), e) /\ Tail(ops[x][i]) \in Seq(Op)
      BY <2>3, <2>4, <2>6, <3>1, ProceedShape
    <3>3. AnswerComes(ops'[x][i])
      BY <3>1, <3>2, AppendComes
    <3> QED
      BY <2>5, <2>7, <3>3, RemoteKept DEF LifeInv, OnlyQueue
  <2> QED
    BY <2>1, <2>8, <2>10, <2>11, <2>14, <2>15, LifeMail
<1> QED
  BY <1>1, <1>2

LEMMA CreateAnswerLife ==
  ASSUME TypeOK, LifeInv, NEW x \in Peer, NEW i \in Index, CreateAnswer(x, i)
  PROVE  LifeInv'
<1>1. PICK y : y = Other(x) /\ y \in Peer /\ y # x
  BY OtherPeer
<1>2. PICK m : m = conns[x][i].pending.n
  OBVIOUS
<1>3. /\ Running(x, i, "createAnswer")
      /\ UNCHANGED <<current, created, creating, conns, offers, lastOffer, lastAnswer, answered, chan>>
      /\ \/ HaveRemoteOffer(x, i) /\ Proceed(x, i, "setAnswer", m)
         \/ ~HaveRemoteOffer(x, i) /\ Finish(x, i)
  BY <1>2 DEF CreateAnswer, pcVars, stateVars, ghostVars
<1>4. ops \in Queues /\ ops[x][i] \in Seq(Op) /\ ops[x][i] # <<>>
  BY <1>3, Typed, RunningShape
<1>5. HaveRemoteOffer(x, i) => m \in Number
  <2>1. conns[x][i].pending \in Sdp \cup {NoSdp}
    <3>1. conns \in Conns
      BY Typed
    <3> QED
      BY <3>1 DEF Conns, Conn
  <2> QED
    BY <1>2, <2>1 DEF HaveRemoteOffer, Stable, Sdp
<1>6. "setAnswer" \in OpName /\ "setAnswer" \notin OfferOps \cup AcceptOps
  BY DEF OpName, OfferOps, AcceptOps
<1>7. OnlyQueue(x, i) /\ \A j \in Index : ops'[y][j] = ops[y][j]
  BY <1>1, <1>3, <1>4, <1>5, <1>6, ProceedShape, FinishShape
<1>8. Still(y)
  BY <1>1, <1>3, <1>7, StillOperate
<1>9. Spares(x, "offer", OfferOps) /\ Spares(x, "handle", AcceptOps)
  BY <1>3, <1>4, <1>5, <1>6, OperationSpares
<1>10. Makes(x)
  BY <1>3, <1>9, MakesKept DEF LifeInv
<1>11. Mail(x, y)
  BY <1>1, <1>3, MailSilent DEF LifeInv
<1>12. ASSUME NEW n \in Number, NEW j \in Index, Has(ops'[x][j], {"setAnswer"}, n)
       PROVE  AnswerDue(x, j, n)
  <2>1. CASE j # i
    BY <1>7, <1>12, <2>1 DEF OnlyQueue, AnswerDue
  <2>2. CASE j = i /\ (Finish(x, i) \/ m # n)
    <3>1. QueueWithin(x, i, {"setAnswer"}, n)
      BY <1>3, <1>4, <1>5, <1>6, <2>2, FinishWithin, ProceedKinds
    <3> QED
      BY <1>12, <2>2, <3>1 DEF QueueWithin, Within, AnswerDue
  <2>3. CASE j = i /\ HaveRemoteOffer(x, i) /\ m = n
    BY <1>2, <2>3 DEF AnswerDue, Pending
  <2> QED
    BY <1>3, <2>1, <2>2, <2>3
<1>13. \A n \in Number, j \in Index : Pending(x, j, n)' => Pending(x, j, n)
  BY <1>3 DEF Pending, HaveRemoteOffer, Stable
<1>14. Takes(x)
  <2>1. \A n \in Number : (Sent(x, n)' => Sent(x, n)) /\ (Fresh(x, n)' => Fresh(x, n))
    BY <1>11 DEF Mail
  <2> QED
    BY <1>3, <1>9, <1>12, <1>13, <2>1, TakesKept DEF LifeInv
<1>15. RemoteIsAnswered(x)'
  <2>1. ASSUME HaveRemoteOffer(x, i)' PROVE AnswerComes(ops'[x][i])
    <3>1. HaveRemoteOffer(x, i)
      BY <1>3, <2>1 DEF HaveRemoteOffer, Stable
    <3>2. PICK e : e = [op |-> "setAnswer", n |-> m]
      OBVIOUS
    <3>3. e \in Op /\ ops'[x][i] = Append(Tail(ops[x][i]), e) /\ Tail(ops[x][i]) \in Seq(Op)
      BY <1>3, <1>4, <1>5, <1>6, <3>1, <3>2, ProceedShape
    <3> QED
      BY <3>2, <3>3, AppendComes
  <2> QED
    BY <1>3, <1>7, <2>1, RemoteKept DEF LifeInv, OnlyQueue
<1> QED
  BY <1>1, <1>8, <1>10, <1>11, <1>14, <1>15, LifeMail

LEMMA SetAnswerLife ==
  ASSUME TypeOK, LifeInv, NEW x \in Peer, NEW i \in Index, SetAnswer(x, i)
  PROVE  LifeInv'
<1>1. PICK y : y = Other(x) /\ y \in Peer /\ y # x
  BY OtherPeer
<1>2. PICK m : m = Arg(x, i)
  OBVIOUS
<1>3. /\ Running(x, i, "setAnswer") /\ Finish(x, i)
      /\ UNCHANGED <<current, created, creating, offers, lastOffer, lastAnswer>>
      /\ \/ ~HaveRemoteOffer(x, i) /\ UNCHANGED <<conns, chan, answered>>
         \/ /\ HaveRemoteOffer(x, i)
            /\ \E c : c.pending = NoSdp /\ conns' = [conns EXCEPT ![x][i] = c]
            /\ SendSdp(x, "answer", m)
            /\ answered' = [answered EXCEPT ![x][m] = @ + 1]
  BY <1>2 DEF SetAnswer, AnswerSet, stateVars
<1>4. ops \in Queues /\ m \in Number /\ chan \in Channels
  BY <1>2, <1>3, Typed, RunningShape
<1>5. /\ \A z \in Peer, j \in Index : z # x \/ j # i => conns'[z][j] = conns[z][j]
      /\ ~HaveRemoteOffer(x, i)'
  <2>1. conns \in Conns
    BY Typed
  <2> QED
    BY <1>3, <2>1 DEF Conns, HaveRemoteOffer, Stable
<1>6. /\ answered'[y] = answered[y]
      /\ \A n \in Number : answered'[x][n] # answered[x][n] => n = m /\ answered'[x][n] # 0
      /\ HaveRemoteOffer(x, i) => answered'[x][m] # 0
  <2>1. answered \in [Peer -> [Number -> Nat]]
    BY DEF TypeOK
  <2>2. CASE UNCHANGED answered /\ ~HaveRemoteOffer(x, i)
    BY <2>2
  <2>3. CASE answered' = [answered EXCEPT ![x][m] = @ + 1]
    <3>1. answered'[y] = answered[y] /\ \A n \in Number : n # m => answered'[x][n] = answered[x][n]
      BY <1>1, <1>4, <2>1, <2>3
    <3>2. answered'[x][m] = answered[x][m] + 1 /\ answered[x][m] \in Nat
      BY <1>4, <2>1, <2>3
    <3> QED
      BY <3>1, <3>2
  <2> QED
    BY <1>3, <2>2, <2>3
<1>7. OnlyQueue(x, i) /\ \A j \in Index : ops'[y][j] = ops[y][j]
  BY <1>1, <1>3, <1>4, FinishShape
<1>8. Still(y)
  BY <1>1, <1>3, <1>5, <1>6, <1>7, StillOperate
<1>9. /\ Spares(x, "offer", OfferOps) /\ Spares(x, "handle", AcceptOps)
      /\ Spares(x, "none", {"setAnswer"})
  BY <1>3, <1>4, OperationSpares
<1>10. Makes(x)
  BY <1>3, <1>9, MakesKept DEF LifeInv
<1>11. Mail(x, y)
  <2>1. CASE ~HaveRemoteOffer(x, i)
    BY <1>1, <1>3, <2>1, MailSilent DEF LifeInv
  <2>2. CASE HaveRemoteOffer(x, i)
    <3>1. SendSdp(x, "answer", m) /\ answered'[x][m] # 0
      BY <1>3, <1>6, <2>2
    <3>2. /\ InOrder(y)' /\ chan'[x] = chan[x]
          /\ Sdps(y)' = Sdps(y) \cup {[type |-> "answer", n |-> m]}
      BY <1>1, <1>3, <1>4, <3>1, SendOrder DEF LifeInv
    <3>3. InOrder(x)' /\ Sdps(x)' = Sdps(x)
      BY <1>3, <3>2, OrderStill DEF LifeInv, Sdps
    <3>4. Sends(x, y)
      BY <3>1, <3>2 DEF Sends, InChan
    <3> QED
      BY <1>3, <3>2, <3>3, <3>4 DEF Mail, Sent, Fresh, InChan, Hears
  <2> QED
    BY <2>1, <2>2
<1>12. \A n \in Number, j \in Index : Pending(x, j, n)' => Pending(x, j, n)
  BY <1>5 DEF Pending, HaveRemoteOffer, Stable
<1>13. Has(ops[x][i], {"setAnswer"}, m) /\ ~Pending(x, i, m)'
  BY <1>2, <1>3, <1>4, <1>5, RunningHas DEF Pending
<1>14. Takes(x)
  <2>1. ASSUME NEW n \in Number
        PROVE  /\ (Sent(x, n)' => Sent(x, n)) /\ (Fresh(x, n)' => Fresh(x, n))
               /\ \A j \in Index : Has(ops'[x][j], {"setAnswer"}, n) => AnswerDue(x, j, n)
               /\ answered'[x][n] # answered[x][n] =>
                     /\ answered'[x][n] # 0
                     /\ \E k \in Index : Has(ops[x][k], {"setAnswer"}, n) /\ ~Pending(x, k, n)'
    BY <1>6, <1>9, <1>11, <1>13 DEF Spares, Mail, AnswerDue
  <2> QED
    BY <1>9, <1>12, <2>1, TakesKept DEF LifeInv
<1>15. RemoteIsAnswered(x)'
  BY <1>5, <1>7, RemoteKept DEF LifeInv, OnlyQueue
<1> QED
  BY <1>1, <1>8, <1>10, <1>11, <1>14, <1>15, LifeMail

LEMMA SetOfferLife ==
  ASSUME TypeOK, LifeInv, NEW x \in Peer, NEW i \in Index, SetOffer(x, i)
  PROVE  LifeInv'
<1>1. CASE HaveRemoteOffer(x, i)
  BY <1>1, QuietOperationLife
<1>2. CASE ~HaveRemoteOffer(x, i)
  <2>1. PICK y : y = Other(x) /\ y \in Peer /\ y # x
    BY OtherPeer
  <2>2. PICK m : m = Arg(x, i)
    OBVIOUS
  <2>3. /\ Running(x, i, "setOffer") /\ Finish(x, i) /\ SendSdp(x, "offer", m)
        /\ UNCHANGED <<current, created, creating, offers, lastOffer, lastAnswer, answered>>
        /\ conns' = [conns EXCEPT ![x][i].pending = [from |-> x, type |-> "offer", n |-> m]]
    BY <1>2, <2>2 DEF SetOffer, stateVars, ghostVars
  <2>4. ops \in Queues /\ m \in Number /\ chan \in Channels /\ "setOffer" \in OfferOps
    BY <2>2, <2>3, Typed, RunningShape DEF OfferOps
  <2>5. /\ \A z \in Peer, j \in Index : z # x \/ j # i => conns'[z][j] = conns[z][j]
        /\ ~HaveRemoteOffer(x, i)'
    <3>1. conns \in Conns
      BY Typed
    <3> QED
      BY <2>3, <3>1 DEF Conns, Conn, HaveRemoteOffer, Stable
  <2>6. Unsent(x, m) /\ m <= offers[x]
    <3>1. InMaking(x, m)
      BY <2>2, <2>3, <2>4, RunningHas DEF InMaking
    <3>2. ~(m > offers[x])
      BY <2>4, <3>1 DEF LifeInv, MadeOnce
    <3>3. m \in Nat /\ offers[x] \in Nat
      BY <2>4, Typed DEF Number
    <3> QED
      BY <3>1, <3>2, <3>3 DEF Unsent
  <2>7. ~Unsent(x, m)'
    <3>1. OneToken(x, "offer", OfferOps, m) /\ StillCreating(x, "offer", m)
      BY <2>3, <2>4 DEF LifeInv, MadeOnce, StillCreating
    <3>2. ~InMaking(x, m)'
      BY <2>2, <2>3, <2>4, <3>1, HeadSpent DEF InMaking
    <3>3. m \in Nat /\ offers[x] \in Nat /\ offers'[x] = offers[x]
      BY <2>3, <2>4, Typed DEF Number
    <3> QED
      BY <2>6, <3>2, <3>3 DEF Unsent
  <2>8. ~Sent(y, m)
    BY <2>1, <2>4, <2>6 DEF LifeInv, SentFirst
  <2>9. Mail(x, y)
    <3>1. /\ InOrder(y)' /\ chan'[x] = chan[x]
          /\ Sdps(y)' = Sdps(y) \cup {[type |-> "offer", n |-> m]}
      BY <2>1, <2>3, <2>4, <2>8, SendOrder DEF LifeInv
    <3>2. InOrder(x)' /\ Sdps(x)' = Sdps(x)
      BY <2>3, <3>1, OrderStill DEF LifeInv, Sdps
    <3>3. Sends(x, y)
      BY <2>6, <2>7, <3>1 DEF Sends, InChan
    <3> QED
      BY <2>3, <3>1, <3>2, <3>3 DEF Mail, Sent, Fresh, InChan, Hears
  <2>10. Still(y) /\ Makes(x) /\ RemoteIsAnswered(x)' /\ Takes(x)
    BY <2>1, <2>3, <2>5, <2>9, PlainOperation
  <2> QED
    BY <2>1, <2>9, <2>10, LifeMail
<1> QED
  BY <1>1, <1>2

-----------------------------------------------------------------------------
(* Events and new offers *)

LEMMA MailArrived ==
  ASSUME chan \in Channels, NEW x \in Peer, NEW y \in Peer, y # x, InOrder(x), InOrder(y),
         chan[x] # <<>>, Consume(x), lastOffer'[y] = lastOffer[y],
         \/ /\ Head(chan[x]).type = "offer"
            /\ lastOffer'[x] = Head(chan[x]).n /\ lastAnswer'[x] = lastAnswer[x]
         \/ /\ Head(chan[x]).type = "answer"
            /\ lastOffer'[x] = lastOffer[x] /\ lastAnswer'[x] = Head(chan[x]).n
  PROVE  Mail(x, y)
<1>1. /\ InOrder(x)'
      /\ \A n \in Number : (Sent(x, n)' => Sent(x, n)) /\ (Fresh(x, n)' => Fresh(x, n))
  BY ConsumeOrder
<1>2. InOrder(y)'
  BY ConsumeShape, OrderStill
<1>3. NoNewSdps
  BY ConsumeSdps
<1>4. Sends(x, y)
  BY <1>3 DEF NoNewSdps, Sends, InChan
<1>5. Head(chan[x]).type = "answer" => [type |-> "answer", n |-> Head(chan[x]).n] \in Sdps(x)
  <2>1. PICK k \in DOMAIN chan[x] : Head(chan[x]) = chan[x][k]
    BY ConsumeShape
  <2> QED
    BY <2>1, EventShape
<1>6. Hears(x)
  BY <1>3, <1>5 DEF NoNewSdps, Hears
<1> QED
  BY <1>1, <1>2, <1>4, <1>6 DEF Mail

\* A step of x that neither requests nor sets anything.
LEMMA IdleLife ==
  ASSUME LifeInv, NEW x \in Peer, NEW y \in Peer, y = Other(x), y # x,
         UNCHANGED <<current, created, conns, ops, creating, offers, answered>>,
         lastOffer'[y] = lastOffer[y], lastAnswer'[y] = lastAnswer[y], Mail(x, y)
  PROVE  LifeInv'
<1>1. Still(y)
  BY DEF Still, SideUntouched
<1>2. /\ Spares(x, "offer", OfferOps) /\ Spares(x, "handle", AcceptOps)
      /\ Spares(x, "none", {"setAnswer"})
  BY SparesStill DEF StillCreating
<1>3. Makes(x)
  BY <1>2, MakesKept DEF LifeInv
<1>4. \A n \in Number, j \in Index : Pending(x, j, n)' => Pending(x, j, n)
  BY DEF Pending, HaveRemoteOffer, Stable
<1>5. Takes(x)
  <2>1. \A n \in Number :
            /\ (Sent(x, n)' => Sent(x, n)) /\ (Fresh(x, n)' => Fresh(x, n))
            /\ \A j \in Index : Has(ops'[x][j], {"setAnswer"}, n) => AnswerDue(x, j, n)
    BY <1>2 DEF Spares, Mail, AnswerDue
  <2> QED
    BY <1>2, <1>4, <2>1, TakesKept DEF LifeInv
<1>6. RemoteIsAnswered(x)'
  BY DEF LifeInv, RemoteIsAnswered, HaveRemoteOffer, Stable, Index
<1> QED
  BY <1>1, <1>3, <1>5, <1>6, LifeMail

\* An operation is requested of a connection.
LEMMA RequestComes ==
  ASSUME TypeOK, NEW x \in Peer, RemoteIsAnswered(x), UNCHANGED conns, NEW i \in Index,
         NEW op \in OpName, NEW n \in Number, Request(x, i, op, n)
  PROVE  RemoteIsAnswered(x)'
<1>1. ops \in Queues
  BY Typed
<1>2. PICK e : e = [op |-> op, n |-> n]
  OBVIOUS
<1>3. /\ e \in Op /\ ops[x][i] \in Seq(Op) /\ ops'[x][i] = Append(ops[x][i], e)
      /\ OnlyQueue(x, i)
  BY <1>1, <1>2, RequestShape
<1>4. ASSUME HaveRemoteOffer(x, i)' PROVE AnswerComes(ops'[x][i])
  <2>1. HaveRemoteOffer(x, i)
    BY <1>4 DEF HaveRemoteOffer, Stable
  <2>2. AnswerComes(ops[x][i])
    BY <2>1 DEF RemoteIsAnswered
  <2> QED
    BY <1>3, <2>2, AppendComes
<1> QED
  BY <1>3, <1>4, RemoteKept DEF OnlyQueue

LEMMA RequestSpares ==
  ASSUME TypeOK, NEW x \in Peer, NEW i \in Index, NEW op \in OpName, NEW m \in Number,
         Request(x, i, op, m), NEW task, NEW names, op \notin names,
         \A n \in Number : StillCreating(x, task, n)
  PROVE  Spares(x, task, names)
<1>1. ops \in Queues
  BY Typed
<1>2. \A n \in Number : QueueWithin(x, i, names, n)
  BY <1>1, RequestKinds
<1> QED
  BY <1>2, SparesWithin

\* The first request for an offer.
LEMMA RequestToken ==
  ASSUME TypeOK, NEW x \in Peer, NEW i \in Index, NEW op \in OpName, NEW m \in Number,
         Request(x, i, op, m), NEW task, NEW names, op \in names,
         \A n \in Number : OneToken(x, task, names, n) /\ StillCreating(x, task, n),
         ~InQueue(x, names, m), [task |-> task, n |-> m] \notin creating'[x]
  PROVE  \A n \in Number : /\ OneToken(x, task, names, n)'
                           /\ InQueue(x, names, n)' => InQueue(x, names, n) \/ n = m
<1>1. ops \in Queues
  BY Typed
<1>2. PICK e : e = [op |-> op, n |-> m]
  OBVIOUS
<1>3. /\ e \in Op /\ ops[x][i] \in Seq(Op) /\ ops'[x][i] = Append(ops[x][i], e)
      /\ OnlyQueue(x, i)
  BY <1>1, <1>2, RequestShape
<1>4. OneToken(x, task, names, m)'
  <2>1. ~Has(ops[x][i], names, m)
    BY DEF InQueue
  <2>2. Once(ops'[x][i], names, m)
    BY <1>3, <2>1, AppendOnce
  <2> QED
    BY <1>3, <2>2, TokenNew
<1>5. ASSUME NEW n \in Number, n # m
      PROVE  OneToken(x, task, names, n)' /\ (InQueue(x, names, n)' => InQueue(x, names, n))
  <2>1. QueueWithin(x, i, names, n)
    BY <1>1, <1>5, RequestKinds
  <2> QED
    BY <2>1, TokenKept
<1> QED
  BY <1>4, <1>5

\* x begins an offer.
LEMMA BeginOfferMakes ==
  ASSUME TypeOK, LifeInv, NEW x \in Peer, BeginOffer(x)
  PROVE  /\ Makes(x) /\ Spares(x, "handle", AcceptOps) /\ Spares(x, "none", {"setAnswer"})
         /\ RemoteIsAnswered(x)'
         /\ \A y \in Peer \ {x} :
                /\ creating'[y] = creating[y] /\ offers'[y] = offers[y]
                /\ \A j \in Index : ops'[y][j] = ops[y][j]
<1>1. PICK n : n = offers[x] + 1
  OBVIOUS
<1>2. UNCHANGED conns /\ ops \in Queues
  BY Typed DEF BeginOffer, pcVars
<1>3. "createOffer" \in OpName /\ "createOffer" \in OfferOps
  BY DEF OpName, OfferOps
<1>4. "createOffer" \notin AcceptOps /\ "createOffer" \notin {"setAnswer"}
  BY DEF AcceptOps
<1>5. CASE UNCHANGED <<offers, ops, creating>>
  <2>1. /\ Spares(x, "offer", OfferOps) /\ Spares(x, "handle", AcceptOps)
        /\ Spares(x, "none", {"setAnswer"})
    BY <1>5, SparesStill DEF StillCreating
  <2>2. Makes(x)
    BY <1>5, <2>1, MakesKept DEF LifeInv
  <2>3. RemoteIsAnswered(x)'
    BY <1>2, <1>5 DEF LifeInv, RemoteIsAnswered, HaveRemoteOffer, Stable, Index
  <2> QED
    BY <1>5, <2>1, <2>2, <2>3
<1>6. CASE ~UNCHANGED <<offers, ops, creating>>
  <2>1. /\ n \in Number /\ offers' = [offers EXCEPT ![x] = n]
        /\ \/ /\ creating' = [creating EXCEPT ![x] = @ \cup {[task |-> "offer", n |-> n]}]
              /\ UNCHANGED ops
           \/ /\ current[x] # 0 /\ Request(x, current[x], "createOffer", n)
              /\ UNCHANGED creating
    BY <1>1, <1>6 DEF BeginOffer
  <2>2. offers'[x] = n /\ offers[x] \in Nat /\ \A y \in Peer \ {x} : offers'[y] = offers[y]
    BY <2>1, Typed DEF TypeOK
  <2>3. ~InMaking(x, n) /\ \A k \in Number : OneToken(x, "offer", OfferOps, k)
    BY <1>1, <2>1, <2>2 DEF LifeInv, MadeOnce
  <2>4. /\ \A k \in Number : StillCreating(x, "handle", k) /\ StillCreating(x, "none", k)
        /\ \A y \in Peer \ {x} : creating'[y] = creating[y]
        /\ \A k : k # n => StillCreating(x, "offer", k)
    <3>1. creating \in [Peer -> SUBSET [task : {"offer", "handle"}, n : Number]]
      BY DEF TypeOK
    <3> QED
      BY <2>1, <3>1 DEF StillCreating
  <2>5. ASSUME NEW k \in Number
        PROVE  OneToken(x, "offer", OfferOps, k)' /\ (InMaking(x, k)' => InMaking(x, k) \/ k = n)
    <3>1. CASE UNCHANGED ops
      <4>1. InQueue(x, OfferOps, k)' <=> InQueue(x, OfferOps, k)
        BY <3>1 DEF InQueue, Index
      <4> QED
        BY <2>3, <2>4, <3>1, <4>1 DEF OneToken, InMaking, StillCreating, Index
    <3>2. CASE current[x] # 0 /\ Request(x, current[x], "createOffer", n) /\ UNCHANGED creating
      <4>1. PICK i \in Index : i = current[x]
        BY <3>2, Typed
      <4>2. /\ OneToken(x, "offer", OfferOps, k)'
            /\ InQueue(x, OfferOps, k)' => InQueue(x, OfferOps, k) \/ k = n
        <5>1. Request(x, i, "createOffer", n) /\ \A l \in Number : StillCreating(x, "offer", l)
          BY <3>2, <4>1 DEF StillCreating
        <5>2. ~InQueue(x, OfferOps, n) /\ [task |-> "offer", n |-> n] \notin creating'[x]
          BY <2>3, <3>2 DEF InMaking
        <5> QED
          BY <1>3, <2>1, <2>3, <5>1, <5>2, RequestToken
      <4> QED
        BY <3>2, <4>2 DEF InMaking
    <3> QED
      BY <2>1, <3>1, <3>2
  <2>6. Makes(x)
    <3>1. ASSUME NEW k \in Number
          PROVE  (k > offers'[x] => k > offers[x] /\ k # n) /\ (k = n => k > offers[x])
      BY <1>1, <2>2 DEF Number
    <3>2. \A k \in Number : k > offers[x] => ~InMaking(x, k)
      BY DEF LifeInv, MadeOnce
    <3>3. MadeOnce(x)'
      BY <2>5, <3>1, <3>2 DEF MadeOnce, Number
    <3>4. \A k \in Number : Unsent(x, k)' => Unsent(x, k)
      BY <2>5, <3>1 DEF Unsent
    <3> QED
      BY <3>3, <3>4 DEF Makes
  <2>7. /\ Spares(x, "handle", AcceptOps) /\ Spares(x, "none", {"setAnswer"})
        /\ RemoteIsAnswered(x)'
        /\ \A y \in Peer \ {x}, j \in Index : ops'[y][j] = ops[y][j]
    <3>1. CASE UNCHANGED ops
      <4>1. Spares(x, "handle", AcceptOps) /\ Spares(x, "none", {"setAnswer"})
        BY <2>4, <3>1, SparesStill
      <4>2. RemoteIsAnswered(x)'
        BY <1>2, <3>1 DEF LifeInv, RemoteIsAnswered, HaveRemoteOffer, Stable, Index
      <4> QED
        BY <3>1, <4>1, <4>2
    <3>2. CASE current[x] # 0 /\ Request(x, current[x], "createOffer", n)
      <4>1. PICK i \in Index : i = current[x] /\ Request(x, i, "createOffer", n)
        BY <3>2, Typed
      <4>2. Spares(x, "handle", AcceptOps) /\ Spares(x, "none", {"setAnswer"})
        BY <1>3, <1>4, <2>1, <2>4, <4>1, RequestSpares
      <4>3. RemoteIsAnswered(x)'
        BY <1>2, <1>3, <2>1, <4>1, RequestComes DEF LifeInv
      <4>4. \A y \in Peer \ {x}, j \in Index : ops'[y][j] = ops[y][j]
        BY <1>2, <1>3, <2>1, <4>1, RequestShape
      <4> QED
        BY <4>2, <4>3, <4>4
    <3> QED
      BY <2>1, <3>1, <3>2
  <2> QED
    BY <2>2, <2>4, <2>6, <2>7
<1> QED
  BY <1>5, <1>6

LEMMA BeginOfferLife ==
  ASSUME TypeOK, LifeInv, NEW x \in Peer, NEW y \in Peer, y = Other(x), y # x,
         BeginOffer(x), Mail(x, y)
  PROVE  LifeInv'
<1>1. UNCHANGED <<current, created, conns, lastOffer, lastAnswer, answered>>
  BY DEF BeginOffer, pcVars
<1>2. /\ Makes(x) /\ Spares(x, "handle", AcceptOps) /\ Spares(x, "none", {"setAnswer"})
      /\ RemoteIsAnswered(x)'
      /\ creating'[y] = creating[y] /\ offers'[y] = offers[y]
      /\ \A j \in Index : ops'[y][j] = ops[y][j]
  BY BeginOfferMakes
<1>3. Still(y)
  BY <1>1, <1>2 DEF Still, SideUntouched
<1>4. \A n \in Number, j \in Index : Pending(x, j, n)' => Pending(x, j, n)
  BY <1>1 DEF Pending, HaveRemoteOffer, Stable
<1>5. Takes(x)
  <2>1. \A n \in Number :
            /\ (Sent(x, n)' => Sent(x, n)) /\ (Fresh(x, n)' => Fresh(x, n))
            /\ \A j \in Index : Has(ops'[x][j], {"setAnswer"}, n) => AnswerDue(x, j, n)
    BY <1>2 DEF Spares, Mail, AnswerDue
  <2> QED
    BY <1>1, <1>2, <1>4, <2>1, TakesKept DEF LifeInv
<1> QED
  BY <1>2, <1>3, <1>5, LifeMail

\* x takes up the offer n: it requests an operation that accepts it.
LEMMA AcceptTokens ==
  ASSUME TypeOK, LifeInv, NEW x \in Peer, NEW i \in Index, NEW collision, NEW n \in Number,
         AcceptStep(x, collision, i, n), UNCHANGED conns,
         ~InQueue(x, AcceptOps, n), [task |-> "handle", n |-> n] \notin creating'[x],
         \A task, k : StillCreating(x, task, k)
  PROVE  /\ \A k \in Number : /\ OneToken(x, "handle", AcceptOps, k)'
                              /\ InHand(x, k)' => InHand(x, k) \/ k = n
         /\ Spares(x, "offer", OfferOps) /\ Spares(x, "none", {"setAnswer"})
         /\ RemoteIsAnswered(x)'
         /\ \A y \in Peer \ {x}, j \in Index : ops'[y][j] = ops[y][j]
<1>1. PICK op \in OpName : /\ Request(x, i, op, n) /\ op \in AcceptOps
                           /\ op \notin OfferOps /\ op \notin {"setAnswer"}
  BY DEF AcceptStep, OpName, AcceptOps, OfferOps
<1>2. ops \in Queues
  BY Typed
<1>3. \A k \in Number : OneToken(x, "handle", AcceptOps, k) /\ StillCreating(x, "handle", k)
  BY DEF LifeInv, TakenOnce
<1>4. \A k \in Number : /\ OneToken(x, "handle", AcceptOps, k)'
                        /\ InQueue(x, AcceptOps, k)' => InQueue(x, AcceptOps, k) \/ k = n
  BY <1>1, <1>3, RequestToken
<1>5. \A k \in Number : InHand(x, k)' => InHand(x, k) \/ k = n
  BY <1>3, <1>4 DEF InHand, StillCreating
<1>6. Spares(x, "offer", OfferOps) /\ Spares(x, "none", {"setAnswer"})
  BY <1>1, RequestSpares
<1>7. RemoteIsAnswered(x)'
  BY <1>1, RequestComes DEF LifeInv
<1>8. \A y \in Peer \ {x}, j \in Index : ops'[y][j] = ops[y][j]
  BY <1>1, <1>2, RequestShape
<1> QED
  BY <1>4, <1>5, <1>6, <1>7, <1>8

LEMMA OfferArrivesLife ==
  ASSUME TypeOK, LifeInv, NEW x \in Peer, OfferArrives(x)
  PROVE  LifeInv'
<1>1. PICK y : y = Other(x) /\ y \in Peer /\ y # x
  BY OtherPeer
<1>2. PICK m : m = Head(chan[x]).n
  OBVIOUS
<1>3. /\ chan[x] # <<>> /\ Head(chan[x]).type = "offer" /\ Consume(x)
      /\ UNCHANGED <<current, created, conns, offers, lastAnswer, answered>>
      /\ \/ lastOffer[x] # m /\ NewOffer(x, m)
         \/ lastOffer[x] = m /\ UNCHANGED <<lastOffer, ops, creating>>
  BY <1>2 DEF OfferArrives, OfferEvent, Arrives, pcVars, ghostVars
<1>4. chan \in Channels /\ ops \in Queues
  BY Typed
<1>5. m \in Number /\ InChan(x, m)
  <2>1. PICK k \in DOMAIN chan[x] : Head(chan[x]) = chan[x][k]
    BY <1>3, <1>4, ConsumeShape
  <2> QED
    BY <1>2, <1>3, <1>4, <2>1, EventShape
<1>6. lastOffer'[x] = m /\ lastOffer'[y] = lastOffer[y]
  BY <1>1, <1>3 DEF NewOffer, TypeOK
<1>7. Mail(x, y)
  BY <1>1, <1>2, <1>3, <1>4, <1>6, MailArrived DEF LifeInv
<1>8. CASE lastOffer[x] = m
  BY <1>1, <1>3, <1>6, <1>7, <1>8, IdleLife
<1>9. CASE lastOffer[x] # m
  <2>1. Fresh(x, m)
    BY <1>5, <1>9 DEF Fresh
  <2>2. ~InHand(x, m)
    BY <1>5, <2>1 DEF LifeInv, TakenOnce
  <2>3. \/ /\ creating' = [creating EXCEPT ![x] = @ \cup {[task |-> "handle", n |-> m]}]
           /\ UNCHANGED ops
        \/ /\ UNCHANGED creating
           /\ \E i \in Index : \E collision : AcceptStep(x, collision, i, m)
    BY <1>3, <1>9, Typed DEF NewOffer
  <2>4. /\ \A k \in Number : /\ OneToken(x, "handle", AcceptOps, k)'
                             /\ InHand(x, k)' => InHand(x, k) \/ k = m
        /\ Spares(x, "offer", OfferOps) /\ Spares(x, "none", {"setAnswer"})
        /\ RemoteIsAnswered(x)'
        /\ creating'[y] = creating[y] /\ \A j \in Index : ops'[y][j] = ops[y][j]
    <3>1. CASE /\ creating' = [creating EXCEPT ![x] = @ \cup {[task |-> "handle", n |-> m]}]
               /\ UNCHANGED ops
      <4>1. /\ creating'[x] = creating[x] \cup {[task |-> "handle", n |-> m]}
            /\ creating'[y] = creating[y]
        BY <1>1, <3>1 DEF TypeOK
      <4>2. \A k : StillCreating(x, "offer", k) /\ StillCreating(x, "none", k)
        BY <4>1 DEF StillCreating
      <4>3. ASSUME NEW k \in Number PROVE OneToken(x, "handle", AcceptOps, k)'
        <5>1. OneToken(x, "handle", AcceptOps, k)
          BY DEF LifeInv, TakenOnce
        <5> QED
          BY <2>2, <3>1, <4>1, <5>1 DEF OneToken, InQueue, InHand, Index
      <4>4. \A k \in Number : InHand(x, k)' => InHand(x, k) \/ k = m
        BY <3>1, <4>1 DEF InHand, InQueue, Index
      <4>5. Spares(x, "offer", OfferOps) /\ Spares(x, "none", {"setAnswer"})
        BY <3>1, <4>2, SparesStill
      <4>6. RemoteIsAnswered(x)'
        BY <1>3, <3>1 DEF LifeInv, RemoteIsAnswered, HaveRemoteOffer, Stable, Index
      <4> QED
        BY <3>1, <4>1, <4>3, <4>4, <4>5, <4>6
    <3>2. ASSUME UNCHANGED creating, NEW i \in Index, NEW collision, AcceptStep(x, collision, i, m)
          PROVE  /\ \A k \in Number : /\ OneToken(x, "handle", AcceptOps, k)'
                                      /\ InHand(x, k)' => InHand(x, k) \/ k = m
                 /\ Spares(x, "offer", OfferOps) /\ Spares(x, "none", {"setAnswer"})
                 /\ RemoteIsAnswered(x)'
                 /\ creating'[y] = creating[y] /\ \A j \in Index : ops'[y][j] = ops[y][j]
      <4>1. ~InQueue(x, AcceptOps, m) /\ [task |-> "handle", n |-> m] \notin creating'[x]
        BY <2>2, <3>2 DEF InHand
      <4>2. \A task, k : StillCreating(x, task, k)
        BY <3>2 DEF StillCreating
      <4> QED
        BY <1>1, <1>3, <1>5, <3>2, <4>1, <4>2, AcceptTokens
    <3> QED
      BY <2>3, <3>1, <3>2
  <2>5. Still(y)
    BY <1>3, <1>6, <2>4 DEF Still, SideUntouched
  <2>6. Makes(x)
    BY <1>3, <2>4, MakesKept DEF LifeInv
  <2>7. Takes(x)
    <3>1. ASSUME NEW n \in Number
          PROVE  /\ OneToken(x, "handle", AcceptOps, n)'
                 /\ InHand(x, n)' => InHand(x, n) \/ (Fresh(x, n) /\ lastOffer'[x] = n)
                 /\ (Sent(x, n)' => Sent(x, n)) /\ (Fresh(x, n)' => Fresh(x, n))
                 /\ \A i \in Index : Has(ops'[x][i], {"setAnswer"}, n) => AnswerDue(x, i, n)
                 /\ \A i \in Index : Pending(x, i, n)' => Pending(x, i, n)
                 /\ answered'[x][n] = answered[x][n]
      <4>1. \A i \in Index : Pending(x, i, n)' => Pending(x, i, n)
        BY <1>3 DEF Pending, HaveRemoteOffer, Stable
      <4> QED
        BY <1>3, <1>6, <1>7, <2>1, <2>4, <4>1 DEF Spares, Mail, AnswerDue
    <3> QED
      BY <3>1 DEF Takes
  <2> QED
    BY <1>1, <1>7, <2>4, <2>5, <2>6, <2>7, LifeMail
<1> QED
  BY <1>8, <1>9

LEMMA AnswerArrivesLife ==
  ASSUME TypeOK, LifeInv, NEW x \in Peer, AnswerArrives(x)
  PROVE  LifeInv'
<1>1. PICK y : y = Other(x) /\ y \in Peer /\ y # x
  BY OtherPeer
<1>2. PICK m : m = Head(chan[x]).n
  OBVIOUS
<1>3. /\ chan[x] # <<>> /\ Head(chan[x]).type = "answer" /\ Consume(x)
      /\ UNCHANGED <<current, created, conns, creating, offers, lastOffer, answered>>
      /\ lastAnswer' = [lastAnswer EXCEPT ![x] = m]
      /\ \/ current[x] # 0 /\ Request(x, current[x], "setRemoteAnswer", m)
         \/ UNCHANGED ops
  BY <1>2 DEF AnswerArrives, Arrives, pcVars, ghostVars
<1>4. chan \in Channels /\ ops \in Queues
  BY Typed
<1>5. m \in Number
  <2>1. PICK k \in DOMAIN chan[x] : Head(chan[x]) = chan[x][k]
    BY <1>3, <1>4, ConsumeShape
  <2> QED
    BY <1>2, <1>3, <1>4, <2>1, EventShape
<1>6. lastAnswer'[x] = m /\ lastAnswer'[y] = lastAnswer[y]
  BY <1>1, <1>3 DEF TypeOK
<1>7. Mail(x, y)
  BY <1>1, <1>2, <1>3, <1>4, <1>6, MailArrived DEF LifeInv
<1>8. CASE UNCHANGED ops
  BY <1>1, <1>3, <1>6, <1>7, <1>8, IdleLife
<1>9. CASE current[x] # 0 /\ Request(x, current[x], "setRemoteAnswer", m)
  <2>1. PICK i \in Index : Request(x, i, "setRemoteAnswer", m)
    BY <1>9, Typed
  <2>2. PICK op \in OpName : /\ Request(x, i, op, m)
                             /\ op \notin OfferOps /\ op \notin AcceptOps /\ op \notin {"setAnswer"}
    BY <2>1 DEF OpName, OfferOps, AcceptOps
  <2>3. \A task, n : StillCreating(x, task, n)
    BY <1>3 DEF StillCreating
  <2>4. /\ Spares(x, "offer", OfferOps) /\ Spares(x, "handle", AcceptOps)
        /\ Spares(x, "none", {"setAnswer"})
    BY <1>5, <2>2, <2>3, RequestSpares
  <2>5. RemoteIsAnswered(x)'
    BY <1>3, <1>5, <2>2, RequestComes DEF LifeInv
  <2>6. \A j \in Index : ops'[y][j] = ops[y][j]
    BY <1>1, <1>4, <1>5, <2>2, OtherQueues
  <2>7. Still(y)
    BY <1>3, <1>6, <2>6 DEF Still, SideUntouched
  <2>8. Makes(x)
    BY <1>3, <2>4, MakesKept DEF LifeInv
  <2>9. \A n \in Number, j \in Index : Pending(x, j, n)' => Pending(x, j, n)
    BY <1>3 DEF Pending, HaveRemoteOffer, Stable
  <2>10. Takes(x)
    <3>1. \A n \in Number :
              /\ (Sent(x, n)' => Sent(x, n)) /\ (Fresh(x, n)' => Fresh(x, n))
              /\ \A j \in Index : Has(ops'[x][j], {"setAnswer"}, n) => AnswerDue(x, j, n)
      BY <1>7, <2>4 DEF Spares, Mail, AnswerDue
    <3> QED
      BY <1>3, <2>4, <2>9, <3>1, TakesKept DEF LifeInv
  <2> QED
    BY <1>1, <1>7, <2>5, <2>7, <2>8, <2>10, LifeMail
<1> QED
  BY <1>3, <1>8, <1>9

\* The handler that waited for a connection requests its operation.
LEMMA ConnectionCreatedLife ==
  ASSUME TypeOK, LifeInv, NEW x \in Peer, NEW c \in creating[x], ConnectionCreated(x, c)
  PROVE  LifeInv'
<1>1. PICK y : y = Other(x) /\ y \in Peer /\ y # x
  BY OtherPeer
<1>2. PICK i \in Index :
          /\ i = created[x] + 1
          /\ created' = [created EXCEPT ![x] = i] /\ current' = [current EXCEPT ![x] = i]
          /\ creating' = [creating EXCEPT ![x] = @ \ {c}]
          /\ UNCHANGED <<conns, offers, lastOffer, lastAnswer, chan, answered>>
          /\ \/ c.task = "offer" /\ Request(x, i, "createOffer", c.n)
             \/ c.task = "handle" /\ AcceptStep(x, making[x], i, c.n)
  BY DEF ConnectionCreated, stateVars, ghostVars
<1>3. /\ creating'[x] = creating[x] \ {c} /\ creating'[y] = creating[y]
      /\ created'[y] = created[y] /\ current'[y] = current[y]
  BY <1>1, <1>2 DEF TypeOK
<1>4. PICK n \in Number : c = [task |-> c.task, n |-> n] /\ n = c.n
  BY DEF TypeOK
<1>5. \A task, k : StillCreating(x, task, k)
  BY <1>3 DEF StillCreating
<1>6. ops \in Queues
  BY Typed
<1>7. Mail(x, y)
  BY <1>1, <1>2, MailSilent DEF LifeInv
<1>8. \A k \in Number, j \in Index : Pending(x, j, k)' => Pending(x, j, k)
  BY <1>2 DEF Pending, HaveRemoteOffer, Stable
<1>9. CASE c.task = "offer"
  <2>1. Request(x, i, "createOffer", n)
    BY <1>2, <1>4, <1>9
  <2>2. "createOffer" \in OpName /\ "createOffer" \in OfferOps
    BY DEF OpName, OfferOps
  <2>3. "createOffer" \notin AcceptOps /\ "createOffer" \notin {"setAnswer"}
    BY DEF AcceptOps
  <2>4. Spares(x, "handle", AcceptOps) /\ Spares(x, "none", {"setAnswer"})
    BY <1>5, <2>1, <2>2, <2>3, RequestSpares
  <2>5. \A k \in Number : OneToken(x, "offer", OfferOps, k) /\ StillCreating(x, "offer", k)
    BY <1>5 DEF LifeInv, MadeOnce
  <2>6. ~InQueue(x, OfferOps, n) /\ [task |-> "offer", n |-> n] \notin creating'[x]
    BY <1>3, <1>4, <1>9, <2>5 DEF OneToken
  <2>7. \A k \in Number : /\ OneToken(x, "offer", OfferOps, k)'
                          /\ InQueue(x, OfferOps, k)' => InQueue(x, OfferOps, k) \/ k = n
    BY <2>1, <2>2, <2>5, <2>6, RequestToken
  <2>8. InMaking(x, n)
    BY <1>4, <1>9 DEF InMaking
  <2>9. \A k \in Number : InMaking(x, k)' => InMaking(x, k)
    BY <2>5, <2>7, <2>8 DEF InMaking, StillCreating
  <2>10. Makes(x)
    BY <1>2, <2>7, <2>9 DEF Makes, LifeInv, MadeOnce, Unsent, Number
  <2>11. RemoteIsAnswered(x)'
    BY <1>2, <2>1, <2>2, RequestComes DEF LifeInv
  <2>12. \A j \in Index : ops'[y][j] = ops[y][j]
    BY <1>1, <1>6, <2>1, <2>2, OtherQueues
  <2>13. Still(y)
    BY <1>2, <1>3, <2>12 DEF Still, SideUntouched
  <2>14. Takes(x)
    <3>1. \A k \in Number :
              /\ (Sent(x, k)' => Sent(x, k)) /\ (Fresh(x, k)' => Fresh(x, k))
              /\ \A j \in Index : Has(ops'[x][j], {"setAnswer"}, k) => AnswerDue(x, j, k)
      BY <1>7, <2>4 DEF Spares, Mail, AnswerDue
    <3> QED
      BY <1>2, <1>8, <2>4, <3>1, TakesKept DEF LifeInv
  <2> QED
    BY <1>1, <1>7, <2>10, <2>11, <2>13, <2>14, LifeMail
<1>10. CASE c.task = "handle"
  <2>1. AcceptStep(x, making[x], i, n)
    BY <1>2, <1>4, <1>10
  <2>2. OneToken(x, "handle", AcceptOps, n)
    BY DEF LifeInv, TakenOnce
  <2>3. ~InQueue(x, AcceptOps, n) /\ [task |-> "handle", n |-> n] \notin creating'[x]
    BY <1>3, <1>4, <1>10, <2>2 DEF OneToken
  <2>4. /\ \A k \in Number : /\ OneToken(x, "handle", AcceptOps, k)'
                             /\ InHand(x, k)' => InHand(x, k) \/ k = n
        /\ Spares(x, "offer", OfferOps) /\ Spares(x, "none", {"setAnswer"})
        /\ RemoteIsAnswered(x)'
        /\ \A z \in Peer \ {x}, j \in Index : ops'[z][j] = ops[z][j]
    BY <1>2, <1>5, <2>1, <2>3, AcceptTokens
  <2>5. InHand(x, n)
    BY <1>4, <1>10 DEF InHand
  <2>6. Still(y)
    BY <1>1, <1>2, <1>3, <2>4 DEF Still, SideUntouched
  <2>7. Makes(x)
    BY <1>2, <2>4, MakesKept DEF LifeInv
  <2>8. Takes(x)
    <3>1. ASSUME NEW k \in Number
          PROVE  /\ OneToken(x, "handle", AcceptOps, k)'
                 /\ InHand(x, k)' => InHand(x, k)
                 /\ (Sent(x, k)' => Sent(x, k)) /\ (Fresh(x, k)' => Fresh(x, k))
                 /\ \A j \in Index : Has(ops'[x][j], {"setAnswer"}, k) => AnswerDue(x, j, k)
                 /\ answered'[x][k] = answered[x][k]
      BY <1>2, <1>7, <2>4, <2>5 DEF Spares, Mail, AnswerDue
    <3> QED
      BY <1>8, <3>1 DEF Takes
  <2> QED
    BY <1>1, <1>7, <2>4, <2>6, <2>7, <2>8, LifeMail
<1> QED
  BY <1>2, <1>9, <1>10

LEMMA ReconnectLife ==
  ASSUME TypeOK, LifeInv, NEW x \in Peer, Reconnect(x)
  PROVE  LifeInv'
<1>1. PICK y : y = Other(x) /\ y \in Peer /\ y # x
  BY OtherPeer
<1>2. UNCHANGED <<current, created, conns, lastOffer, lastAnswer, answered>>
  BY DEF Reconnect, BeginOffer, pcVars, stateVars
<1>3. Mail(x, y)
  BY <1>1, <1>2, Typed, MailReconnect DEF LifeInv
<1>4. CASE BeginOffer(x)
  BY <1>1, <1>3, <1>4, BeginOfferLife
<1>5. CASE ~BeginOffer(x)
  <2>1. UNCHANGED <<ops, creating, offers>>
    BY <1>5 DEF Reconnect, stateVars
  <2> QED
    BY <1>1, <1>2, <1>3, <2>1, IdleLife
<1> QED
  BY <1>4, <1>5

LEMMA LifeNext == TypeOK /\ LifeInv /\ [Next]_vars => LifeInv'
<1> SUFFICES ASSUME TypeOK, LifeInv, [Next]_vars PROVE LifeInv'
  OBVIOUS
<1>0. chan \in Channels
  BY Typed
<1>1. ASSUME NEW x \in Peer, ParticipantJoined(x) PROVE LifeInv'
  <2>1. PICK y : y = Other(x) /\ y \in Peer /\ y # x
    BY OtherPeer
  <2>2. /\ chan[x] # <<>> /\ Consume(x) /\ Head(chan[x]).type \notin {"offer", "answer"}
        /\ BeginOffer(x) /\ UNCHANGED <<lastOffer, lastAnswer>>
    BY <1>1 DEF ParticipantJoined, Arrives, BeginOffer
  <2>3. Mail(x, y)
    BY <1>0, <2>1, <2>2, MailConsumed DEF LifeInv
  <2> QED
    BY <2>1, <2>2, <2>3, BeginOfferLife
<1>2. ASSUME NEW x \in Peer, WatchdogFires(x) \/ RestartIce(x) PROVE LifeInv'
  <2>1. PICK y : y = Other(x) /\ y \in Peer /\ y # x
    BY OtherPeer
  <2>2. BeginOffer(x) /\ UNCHANGED <<chan, lastOffer, lastAnswer>>
    BY <1>2 DEF WatchdogFires, RestartIce, BeginOffer
  <2>3. Mail(x, y)
    BY <2>1, <2>2, MailSilent DEF LifeInv
  <2> QED
    BY <2>1, <2>2, <2>3, BeginOfferLife
<1>3. ASSUME NEW x \in Peer, CandidateArrives(x) \/ CandidateFound(x) PROVE LifeInv'
  <2>1. PICK y : y = Other(x) /\ y \in Peer /\ y # x
    BY OtherPeer
  <2>2. UNCHANGED <<current, created, conns, ops, creating, offers, answered, lastOffer, lastAnswer>>
    BY <1>3 DEF CandidateArrives, CandidateFound, pcVars, stateVars, ghostVars
  <2>3. Mail(x, y)
    <3>1. CASE CandidateArrives(x)
      <4>1. chan[x] # <<>> /\ Consume(x) /\ Head(chan[x]).type \notin {"offer", "answer"}
        BY <3>1 DEF CandidateArrives, Arrives
      <4> QED
        BY <1>0, <2>1, <2>2, <4>1, MailConsumed DEF LifeInv
    <3>2. CASE CandidateFound(x)
      BY <1>0, <2>1, <2>2, <3>2, MailCandidate DEF LifeInv, CandidateFound
    <3> QED
      BY <1>3, <3>1, <3>2
  <2> QED
    BY <2>1, <2>2, <2>3, IdleLife
<1>4. CASE UNCHANGED vars
  <2>1. PICK x, y : x \in Peer /\ y = Other(x) /\ y \in Peer /\ y # x
    BY OtherPeer, ConstantsAssumption
  <2>2. UNCHANGED <<current, created, conns, ops, creating, offers, answered, lastOffer, lastAnswer, chan>>
    BY <1>4 DEF vars, pcVars, stateVars, ghostVars
  <2>3. Mail(x, y)
    BY <2>1, <2>2, MailSilent DEF LifeInv
  <2> QED
    BY <2>1, <2>2, <2>3, IdleLife
<1>5. ASSUME NEW x \in Peer, Operate(x) PROVE LifeInv'
  BY <1>5, QuietOperationLife, SetOfferLife, SetRemoteOfferLife, CreateAnswerLife, SetAnswerLife
     DEF Operate
<1>6. ASSUME NEW x \in Peer, NEW i \in Index, CandidateLookedUp(x, i) PROVE LifeInv'
  <2>1. PICK y : y = Other(x) /\ y \in Peer /\ y # x
    BY OtherPeer
  <2>2. UNCHANGED <<current, created, conns, ops, creating, offers, answered, lastOffer, lastAnswer, chan>>
    BY <1>6, LookupFrame DEF pcVars, stateVars, ghostVars
  <2>3. Mail(x, y)
    BY <2>1, <2>2, MailSilent DEF LifeInv
  <2> QED
    BY <2>1, <2>2, <2>3, IdleLife
<1> QED
  BY <1>1, <1>2, <1>3, <1>4, <1>5, <1>6, OfferArrivesLife, AnswerArrivesLife, ReconnectLife,
     ConnectionCreatedLife DEF Next, Deliver, Trigger

LEMMA LifeInit == Init => LifeInv
<1> SUFFICES ASSUME Init, NEW x \in Peer
             PROVE  /\ MadeOnce(x) /\ TakenOnce(x) /\ SentFirst(x)
                    /\ AnswersSent(x) /\ InOrder(x) /\ RemoteIsAnswered(x)
  BY DEF LifeInv
<1>1. Other(x) \in Peer
  BY OtherPeer
<1>2. \A y \in Peer : /\ creating[y] = {} /\ lastOffer[y] = 0 /\ lastAnswer[y] = 0 /\ offers[y] = 0
                      /\ \A i \in Index : ops[y][i] = <<>> /\ conns[y][i] = NewConn
                      /\ \A n \in Number : answered[y][n] = 0
                      /\ chan[y] = <<>> \/ chan[y] = <<Joined>>
  BY DEF Init
<1>3. ASSUME NEW y \in Peer PROVE Sdps(y) = {}
  BY <1>2 DEF Sdps, Joined
<1>4. ASSUME NEW y \in Peer, NEW names, NEW n
      PROVE  /\ ~InQueue(y, names, n)
             /\ \A i \in Index : ~Has(ops[y][i], names, n) /\ Once(ops[y][i], names, n)
  BY <1>2 DEF InQueue, Has, Once
<1>5. \A y \in Peer, i \in Index : ~HaveRemoteOffer(y, i)
  BY <1>2 DEF HaveRemoteOffer, Stable, NewConn
<1>6. ASSUME NEW y \in Peer, NEW n \in Number
      PROVE  /\ ~InMaking(y, n) /\ ~InHand(y, n) /\ ~Sent(y, n) /\ ~Fresh(y, n) /\ ~Tried(y, n)
             /\ \A i \in Index : ~Pending(y, i, n)
  <2>1. n # 0
    BY DEF Number
  <2>2. ~InMaking(y, n) /\ ~InHand(y, n)
    BY <1>2, <1>4 DEF InMaking, InHand
  <2>3. ~Sent(y, n) /\ ~Fresh(y, n)
    BY <1>2, <1>3, <2>1 DEF Sent, Fresh, InChan
  <2>4. \A i \in Index : ~Pending(y, i, n)
    BY <1>5 DEF Pending
  <2>5. ~Tried(y, n)
    BY <1>2, <1>4, <2>4 DEF Tried, AnswerDue
  <2> QED
    BY <2>2, <2>3, <2>4, <2>5
<1>9. ASSUME NEW task, NEW names, NEW n PROVE OneToken(x, task, names, n)
  BY <1>2, <1>4 DEF OneToken
<1>7. InOrder(x)
  <2>1. \A k \in 0 .. Len(chan[x]) : Offer(x, k) => k = 0
    BY <1>2 DEF Offer, Joined
  <2> QED
    BY <2>1 DEF InOrder
<1>8. AnswersSent(x)
  <2>1. \A n \in Number : n # 0
    BY DEF Number
  <2> QED
    BY <1>2, <1>3, <2>1 DEF AnswersSent
<1>10. MadeOnce(x)
  BY <1>6, <1>9 DEF MadeOnce
<1>11. TakenOnce(x)
  BY <1>6, <1>9 DEF TakenOnce
<1>12. SentFirst(x) /\ RemoteIsAnswered(x)
  BY <1>1, <1>5, <1>6 DEF SentFirst, RemoteIsAnswered
<1> QED
  BY <1>7, <1>8, <1>10, <1>11, <1>12

-----------------------------------------------------------------------------
(* What ends the wait of one of the two *)

LEMMA AppendEnds ==
  ASSUME NEW s \in Seq(Op), NEW e \in Op, EndsWait(s) \/ e.op \in {"rollback", "setRemoteAnswer"}
  PROVE  EndsWait(Append(s, e))
BY AppendPlaces DEF EndsWait

LEMMA TailEnds ==
  ASSUME NEW s \in Seq(Op), s # <<>>, EndsWait(s), Head(s).op \notin {"rollback", "setRemoteAnswer"}
  PROVE  EndsWait(Tail(s))
<1>1. PICK k \in DOMAIN s : s[k].op \in {"rollback", "setRemoteAnswer"}
  BY DEF EndsWait
<1>2. k # 1
  BY <1>1
<1>3. k - 1 \in DOMAIN Tail(s) /\ Tail(s)[k - 1] = s[k]
  BY <1>2, TailByPosition
<1> QED
  BY <1>1, <1>3 DEF EndsWait

LEMMA StillHandling ==
  ASSUME NEW y \in Peer, Still(y), NEW a
  PROVE  Handling(y, a)' <=> Handling(y, a)
<1>1. ASSUME NEW i \in Index PROVE AnswerMade(y, i, a)' <=> AnswerMade(y, i, a)
  <2>1. ops'[y][i] = ops[y][i] /\ conns'[y][i] = conns[y][i]
    BY DEF Still, SideUntouched
  <2> QED
    BY <2>1 DEF AnswerMade, HaveLocalOffer, HaveRemoteOffer, Stable
<1>2. creating'[y] = creating[y]
  BY DEF Still, SideUntouched
<1> QED
  BY <1>1, <1>2 DEF Handling, Index

\* While x waits, the other does what it was doing.
LEMMA WaiterServed ==
  ASSUME NEW x \in Peer, NEW y \in Peer, y = Other(x), Served(x), Still(y),
         Sdps(y) \subseteq Sdps(y)', lastAnswer'[x] = lastAnswer[x],
         Waiting(x)' => Waiting(x) /\ (AnswerNears(x) => AnswerNears(x)')
  PROVE  Served(x)'
<1> SUFFICES ASSUME Waiting(x)' PROVE AnswerNears(x)' \/ OfferNears(y)' \/ Handling(y, lastAnswer[x])'
  BY DEF Served
<1>1. PICK a : a = lastAnswer[x]
  OBVIOUS
<1>2. AnswerNears(x) \/ OfferNears(y) \/ Handling(y, a)
  BY <1>1 DEF Served
<1>3. OfferNears(y) => OfferNears(y)'
  BY DEF OfferNears, Still
<1>4. Handling(y, a) => Handling(y, a)'
  BY StillHandling
<1>5. Handling(y, a)' => Handling(y, lastAnswer[x])'
  <2>1. lastAnswer'[x] = a
    BY <1>1
  <2> QED
    BY <2>1 DEF Handling, AnswerMade, Good, NewAnswers
<1> QED
  BY <1>2, <1>3, <1>4, <1>5

\* While y waits, x goes on handling its offer until y hears of it.
LEMMA OtherServed ==
  ASSUME TypeOK, NEW x \in Peer, NEW y \in Peer, x = Other(y), Served(y), Still(y),
         NEW a, a = lastAnswer[y], Sdps(y) \subseteq Sdps(y)',
         Waiting(y) /\ OfferNears(x) => OfferNears(x)' \/ Handling(x, a)' \/ AnswerNears(y)',
         Waiting(y) /\ Handling(x, a) => Handling(x, a)' \/ AnswerNears(y)'
  PROVE  Served(y)'
<1> SUFFICES ASSUME Waiting(y)' PROVE AnswerNears(y)' \/ OfferNears(x)' \/ Handling(x, lastAnswer[y])'
  BY DEF Served
<1>1. current'[y] = current[y] /\ lastAnswer'[y] = a /\ lastOffer'[y] = lastOffer[y]
  BY DEF Still, SideUntouched
<1>2. Waiting(y)
  <2>1. current[y] \in Index
    BY <1>1, Typed DEF Waiting
  <2>2. conns'[y][current[y]] = conns[y][current[y]]
    BY <2>1 DEF Still, SideUntouched
  <2> QED
    BY <1>1, <2>2 DEF Waiting, HaveLocalOffer, Stable
<1>3. AnswerNears(y) => AnswerNears(y)'
  <2>1. current[y] \in Index
    BY <1>2, Typed DEF Waiting
  <2>2. ops'[y][current[y]] = ops[y][current[y]]
    BY <2>1 DEF Still, SideUntouched
  <2> QED
    BY <1>1, <2>2 DEF AnswerNears
<1>4. Handling(x, a)' => Handling(x, lastAnswer[y])'
  BY <1>1 DEF Handling, AnswerMade, Good, NewAnswers
<1> QED
  BY <1>2, <1>3, <1>4 DEF Served

\* What is requested behind leaves the answer in the making alone.
LEMMA MadeAppend ==
  ASSUME ops \in Queues, NEW x \in Peer, NEW i \in Index, NEW a, NEW e \in Op,
         ops'[x][i] = Append(ops[x][i], e), e.op = "setAnswer" => e.n # a,
         conns'[x][i].pending = conns[x][i].pending, AnswerMade(x, i, a)
  PROVE  AnswerMade(x, i, a)'
<1>1. PICK s : s = ops[x][i] /\ s \in Seq(Op)
  BY DEF Queues
<1>2. \A op : Good(s, op, a) => Good(Append(s, e), op, a)
  BY <1>1, AppendGood
<1>3. NewAnswers(s, 0, a) => NewAnswers(Append(s, e), 0, a)
  BY <1>1, AppendNew
<1>4. /\ HaveLocalOffer(x, i)' <=> HaveLocalOffer(x, i)
      /\ HaveRemoteOffer(x, i)' <=> HaveRemoteOffer(x, i)
  BY DEF HaveLocalOffer, HaveRemoteOffer, Stable
<1> QED
  BY <1>1, <1>2, <1>3, <1>4 DEF AnswerMade

\* So does the end of an operation that is not part of it, unless that drops
\* the offer to be answered.
LEMMA MadeTail ==
  ASSUME ops \in Queues, NEW x \in Peer, NEW i \in Index, NEW a, NEW op, Running(x, i, op),
         op \notin {"rollback", "setRemoteOffer"},
         \/ ops'[x][i] = Tail(ops[x][i])
         \/ \E e \in Op : /\ ops'[x][i] = Append(Tail(ops[x][i]), e)
                          /\ e.op = "setAnswer" => e.n # a,
         HaveLocalOffer(x, i)' => HaveLocalOffer(x, i),
         HaveRemoteOffer(x, i) /\ NewAnswers(ops[x][i], 0, a) => HaveRemoteOffer(x, i)',
         AnswerMade(x, i, a)
  PROVE  AnswerMade(x, i, a)'
<1>1. PICK s : s = ops[x][i] /\ s \in Seq(Op) /\ s # <<>> /\ Head(s).op = op
  BY RunningShape
<1>2. Tail(s) \in Seq(Op)
  BY <1>1
<1>3. \A good : Good(s, good, a) /\ good # op => Good(Tail(s), good, a)
  BY <1>1, TailGood
<1>4. NewAnswers(s, 0, a) => NewAnswers(Tail(s), 0, a)
  BY <1>1, TailStillNew
<1>5. \A good : Good(Tail(s), good, a) => Good(ops'[x][i], good, a)
  BY <1>1, <1>2, AppendGood
<1>6. NewAnswers(Tail(s), 0, a) => NewAnswers(ops'[x][i], 0, a)
  BY <1>1, <1>2, AppendNew
<1>7. \A good \in {"rollback", "setRemoteOffer"} : Good(s, good, a) => Good(ops'[x][i], good, a)
  BY <1>3, <1>5
<1> QED
  BY <1>1, <1>4, <1>6, <1>7 DEF AnswerMade

\* Only one connection of x changes.
LEMMA HandlingKept ==
  ASSUME NEW x \in Peer, NEW i \in Index, NEW a,
         \A j \in Index \ {i} : ops'[x][j] = ops[x][j] /\ conns'[x][j].pending = conns[x][j].pending,
         creating[x] \subseteq creating'[x],
         AnswerMade(x, i, a) => AnswerMade(x, i, a)',
         Handling(x, a)
  PROVE  Handling(x, a)'
<1>1. ASSUME NEW j \in Index, j # i, AnswerMade(x, j, a) PROVE AnswerMade(x, j, a)'
  <2>1. ops'[x][j] = ops[x][j] /\ conns'[x][j].pending = conns[x][j].pending
    BY <1>1
  <2> QED
    BY <1>1, <2>1 DEF AnswerMade, HaveLocalOffer, HaveRemoteOffer, Stable
<1> QED
  BY <1>1 DEF Handling, Index

-----------------------------------------------------------------------------
(* Every step serves whoever waits *)

\* A new operation that is no answer: nothing that ends a wait is lost.
LEMMA RequestServes ==
  ASSUME TypeOK, NEW x \in Peer, NEW i \in Index, NEW op \in OpName, NEW n \in Number,
         Request(x, i, op, n), op # "setAnswer", UNCHANGED conns
  PROVE  /\ current[x] # 0 /\ EndsWait(ops[x][current[x]]) => EndsWait(ops'[x][current[x]])
         /\ \A a : creating[x] \subseteq creating'[x] /\ Handling(x, a) => Handling(x, a)'
<1>1. PICK e : e = [op |-> op, n |-> n]
  OBVIOUS
<1>2. /\ ops \in Queues /\ ops[x][i] \in Seq(Op) /\ e \in Op /\ e.op = op
      /\ ops'[x][i] = Append(ops[x][i], e) /\ OnlyQueue(x, i)
  BY <1>1, Typed, RequestShape
<1>3. ASSUME current[x] # 0, EndsWait(ops[x][current[x]]) PROVE EndsWait(ops'[x][current[x]])
  <2>1. current[x] \in Index
    BY <1>3, Typed
  <2>2. CASE current[x] = i
    BY <1>2, <1>3, <2>2, AppendEnds
  <2>3. CASE current[x] # i
    BY <1>2, <1>3, <2>1, <2>3 DEF OnlyQueue
  <2> QED
    BY <2>2, <2>3
<1>4. ASSUME NEW a, creating[x] \subseteq creating'[x], Handling(x, a) PROVE Handling(x, a)'
  <2>1. AnswerMade(x, i, a) => AnswerMade(x, i, a)'
    BY <1>2, MadeAppend
  <2> QED
    BY <1>2, <1>4, <2>1, HandlingKept DEF OnlyQueue
<1> QED
  BY <1>3, <1>4

\* x requests an operation or nothing, and no description comes or goes.
LEMMA QuietWait ==
  ASSUME TypeOK, NEW x \in Peer, NEW y \in Peer, y = Other(x), x = Other(y), Served(x), Served(y),
         Still(y), UNCHANGED <<current, conns>>,
         lastOffer'[x] = lastOffer[x], lastAnswer'[x] = lastAnswer[x],
         Sdps(x) \subseteq Sdps(x)', Sdps(y) \subseteq Sdps(y)', creating[x] \subseteq creating'[x],
         \/ UNCHANGED ops
         \/ \E i \in Index, op \in OpName \ {"setAnswer"}, n \in Number : Request(x, i, op, n)
  PROVE  Served(x)' /\ Served(y)'
<1>1. /\ current[x] # 0 /\ EndsWait(ops[x][current[x]]) => EndsWait(ops'[x][current[x]])
      /\ \A a : Handling(x, a) => Handling(x, a)'
  <2>1. CASE UNCHANGED ops
    <3>1. ASSUME NEW j \in Index, NEW a PROVE AnswerMade(x, j, a)' <=> AnswerMade(x, j, a)
      BY <2>1 DEF AnswerMade, HaveLocalOffer, HaveRemoteOffer, Stable
    <3> QED
      BY <2>1, <3>1 DEF Handling
  <2>2. ASSUME NEW i \in Index, NEW op \in OpName \ {"setAnswer"}, NEW n \in Number, Request(x, i, op, n)
        PROVE  /\ current[x] # 0 /\ EndsWait(ops[x][current[x]]) => EndsWait(ops'[x][current[x]])
               /\ \A a : Handling(x, a) => Handling(x, a)'
    BY <2>2, RequestServes
  <2> QED
    BY <2>1, <2>2
<1>2. Waiting(x)' => Waiting(x) /\ (AnswerNears(x) => AnswerNears(x)')
  <2>1. Waiting(x)' <=> Waiting(x)
    BY DEF Waiting, HaveLocalOffer, Stable
  <2> QED
    BY <1>1, <2>1 DEF AnswerNears, Waiting
<1>3. Served(x)'
  BY <1>2, WaiterServed
<1>4. PICK a : a = lastAnswer[y]
  OBVIOUS
<1>5. OfferNears(x) => OfferNears(x)'
  BY DEF OfferNears
<1>6. Served(y)'
  BY <1>1, <1>4, <1>5, OtherServed
<1> QED
  BY <1>3, <1>6

LEMMA BeginOfferServes ==
  ASSUME TypeOK, LifeInv, NEW x \in Peer, NEW y \in Peer, y = Other(x), x = Other(y), y # x,
         Served(x), Served(y), BeginOffer(x),
         Sdps(x) \subseteq Sdps(x)', Sdps(y) \subseteq Sdps(y)'
  PROVE  Served(x)' /\ Served(y)'
<1>1. UNCHANGED <<current, created, conns, lastOffer, lastAnswer, answered>>
  BY DEF BeginOffer, pcVars
<1>2. Still(y)
  <2>1. /\ creating'[y] = creating[y] /\ offers'[y] = offers[y]
        /\ \A j \in Index : ops'[y][j] = ops[y][j]
    BY BeginOfferMakes
  <2> QED
    BY <1>1, <2>1 DEF Still, SideUntouched
<1>3. creating[x] \subseteq creating'[x]
  BY DEF BeginOffer, TypeOK
<1>4. \/ UNCHANGED ops
      \/ \E i \in Index, op \in OpName \ {"setAnswer"}, n \in Number : Request(x, i, op, n)
  <2>1. ASSUME current[x] # 0, offers[x] + 1 \in Number,
               Request(x, current[x], "createOffer", offers[x] + 1)
        PROVE  \E i \in Index, op \in OpName \ {"setAnswer"}, n \in Number : Request(x, i, op, n)
    <3>1. current[x] \in Index /\ "createOffer" \in OpName \ {"setAnswer"}
      BY <2>1, Typed DEF OpName
    <3> QED
      BY <2>1, <3>1
  <2> QED
    BY <2>1 DEF BeginOffer
<1>5. UNCHANGED <<current, conns>> /\ lastOffer'[x] = lastOffer[x] /\ lastAnswer'[x] = lastAnswer[x]
  BY <1>1
<1> QED
  BY <1>2, <1>3, <1>4, <1>5, QuietWait

\* What is requested last stays to be done.
LEMMA RequestLast ==
  ASSUME TypeOK, NEW x \in Peer, NEW i \in Index, NEW op \in OpName, NEW n \in Number,
         Request(x, i, op, n), NEW a
  PROVE  /\ Good(ops'[x][i], op, a)
         /\ op \in {"rollback", "setRemoteAnswer"} => EndsWait(ops'[x][i])
<1>1. PICK e : e = [op |-> op, n |-> n]
  OBVIOUS
<1>2. ops[x][i] \in Seq(Op) /\ e \in Op /\ e.op = op /\ ops'[x][i] = Append(ops[x][i], e)
  BY <1>1, Typed, RequestShape
<1> QED
  BY <1>2, LastGood, AppendEnds

LEMMA OfferArrivesServes ==
  ASSUME TypeOK, NEW x \in Peer, NEW y \in Peer, y = Other(x), x = Other(y), y # x,
         Served(x), Served(y), OfferArrives(x)
  PROVE  Served(x)' /\ Served(y)'
<1>1. PICK m, a : m = Head(chan[x]).n /\ a = lastAnswer[y]
  OBVIOUS
<1>2. /\ chan[x] # <<>> /\ Head(chan[x]).type = "offer" /\ Consume(x)
      /\ UNCHANGED <<current, created, conns, offers, lastAnswer, answered>>
      /\ \/ lastOffer[x] # m /\ NewOffer(x, m)
         \/ lastOffer[x] = m /\ UNCHANGED <<lastOffer, ops, creating>>
  BY <1>1 DEF OfferArrives, OfferEvent, Arrives, pcVars, ghostVars
<1>3. chan \in Channels /\ ops \in Queues /\ (current[x] # 0 => current[x] \in Index)
  BY Typed
<1>4. m \in Number
  <2>1. PICK k \in DOMAIN chan[x] : Head(chan[x]) = chan[x][k]
    BY <1>2, <1>3, ConsumeShape
  <2> QED
    BY <1>1, <1>2, <1>3, <2>1, EventShape
<1>5. chan'[y] = chan[y] /\ Sdps(x) \subseteq Sdps(x)' \cup {Head(chan[x])}
  BY <1>2, <1>3, ConsumeShape
<1>6. Sdps(y) \subseteq Sdps(y)'
  BY <1>5 DEF Sdps
<1>7. lastOffer'[y] = lastOffer[y]
  BY <1>2 DEF NewOffer, TypeOK
<1>8. CASE lastOffer[x] = m
  <2>1. UNCHANGED <<lastOffer, ops, creating>>
    BY <1>2, <1>8
  <2>2. Still(y)
    BY <1>2, <2>1 DEF Still, SideUntouched
  <2>3. OfferNears(x) => OfferNears(x)'
    BY <1>1, <1>5, <1>8, <2>1 DEF OfferNears
  <2>4. AnswerNears(x) => AnswerNears(x)'
    BY <1>1, <1>2, <1>5, <1>8, <2>1 DEF AnswerNears
  <2>5. Waiting(x)' => Waiting(x)
    BY <1>2 DEF Waiting, HaveLocalOffer, Stable
  <2>6. Served(x)'
    BY <1>2, <1>6, <2>2, <2>4, <2>5, WaiterServed
  <2>7. ASSUME NEW j \in Index PROVE AnswerMade(x, j, a)' <=> AnswerMade(x, j, a)
    BY <1>2, <2>1 DEF AnswerMade, HaveLocalOffer, HaveRemoteOffer, Stable
  <2>8. Handling(x, a) => Handling(x, a)'
    BY <2>1, <2>7 DEF Handling
  <2>9. Served(y)'
    BY <1>1, <1>6, <2>2, <2>3, <2>8, OtherServed
  <2> QED
    BY <2>6, <2>9
<1>9. CASE lastOffer[x] # m /\ current[x] = 0
  <2>1. creating' = [creating EXCEPT ![x] = @ \cup {[task |-> "handle", n |-> m]}] /\ UNCHANGED ops
    BY <1>2, <1>9 DEF NewOffer
  <2>2. [task |-> "handle", n |-> m] \in creating'[x] /\ creating'[y] = creating[y]
    BY <2>1 DEF TypeOK
  <2>3. Still(y)
    BY <1>2, <1>7, <2>1, <2>2 DEF Still, SideUntouched
  <2>4. Handling(x, a)'
    BY <2>2 DEF Handling
  <2>5. Served(y)'
    BY <1>1, <1>6, <2>3, <2>4, OtherServed
  <2>6. Served(x)'
    BY <1>2, <1>9 DEF Served, Waiting
  <2> QED
    BY <2>5, <2>6
<1>10. CASE lastOffer[x] # m /\ current[x] # 0
  <2>1. PICK i \in Index : i = current[x]
    BY <1>3, <1>10
  <2>2. PICK op \in OpName :
            /\ Request(x, i, op, m) /\ UNCHANGED creating
            /\ \/ op = "rollback"
               \/ op = "setRemoteOffer" /\ ~HaveLocalOffer(x, i)
    BY <1>2, <1>10, <2>1 DEF NewOffer, AcceptStep, OpName
  <2>3. Good(ops'[x][i], op, a) /\ (op = "rollback" => EndsWait(ops'[x][i]))
    BY <1>4, <2>2, RequestLast
  <2>4. HaveLocalOffer(x, i)' <=> HaveLocalOffer(x, i)
    BY <1>2 DEF HaveLocalOffer, Stable
  <2>5. Served(x)'
    <3>1. Waiting(x)' => AnswerNears(x)'
      BY <1>2, <2>1, <2>2, <2>3, <2>4 DEF Waiting, AnswerNears
    <3> QED
      BY <3>1 DEF Served
  <2>6. Handling(x, a)'
    BY <2>2, <2>3, <2>4 DEF Handling, AnswerMade
  <2>7. \A j \in Index : ops'[y][j] = ops[y][j]
    BY <1>3, <1>4, <2>2, OtherQueues
  <2>8. Still(y)
    BY <1>2, <1>7, <2>2, <2>7 DEF Still, SideUntouched
  <2>9. Served(y)'
    BY <1>1, <1>6, <2>6, <2>8, OtherServed
  <2> QED
    BY <2>5, <2>9
<1> QED
  BY <1>8, <1>9, <1>10

LEMMA AnswerArrivesServes ==
  ASSUME TypeOK, NEW x \in Peer, NEW y \in Peer, y = Other(x), x = Other(y), y # x,
         Served(x), Served(y), AnswerArrives(x)
  PROVE  Served(x)' /\ Served(y)'
<1>1. PICK m, a : m = Head(chan[x]).n /\ a = lastAnswer[y]
  OBVIOUS
<1>2. /\ chan[x] # <<>> /\ Head(chan[x]).type = "answer" /\ Consume(x)
      /\ UNCHANGED <<current, created, conns, creating, offers, lastOffer, answered>>
      /\ lastAnswer' = [lastAnswer EXCEPT ![x] = m]
      /\ \/ /\ lastAnswer[x] # m /\ current[x] # 0 /\ HaveLocalOffer(x, current[x])
            /\ Request(x, current[x], "setRemoteAnswer", m)
         \/ /\ lastAnswer[x] = m \/ current[x] = 0 \/ ~HaveLocalOffer(x, current[x])
            /\ UNCHANGED ops
  BY <1>1 DEF AnswerArrives, Arrives, pcVars, ghostVars
<1>3. chan \in Channels /\ ops \in Queues /\ (current[x] # 0 => current[x] \in Index)
  BY Typed
<1>4. m \in Number
  <2>1. PICK k \in DOMAIN chan[x] : Head(chan[x]) = chan[x][k]
    BY <1>2, <1>3, ConsumeShape
  <2> QED
    BY <1>1, <1>2, <1>3, <2>1, EventShape
<1>5. chan'[y] = chan[y] /\ Sdps(x) \subseteq Sdps(x)' \cup {Head(chan[x])}
  BY <1>2, <1>3, ConsumeShape
<1>6. Sdps(y) \subseteq Sdps(y)'
  BY <1>5 DEF Sdps
<1>7. lastAnswer'[y] = lastAnswer[y] /\ lastAnswer'[x] = m
  BY <1>2 DEF TypeOK
<1>8. OfferNears(x) => OfferNears(x)'
  BY <1>2, <1>5 DEF OfferNears
<1>9. CASE /\ lastAnswer[x] # m /\ current[x] # 0 /\ HaveLocalOffer(x, current[x])
           /\ Request(x, current[x], "setRemoteAnswer", m)
  <2>1. PICK i \in Index : i = current[x] /\ Request(x, i, "setRemoteAnswer", m)
    BY <1>3, <1>9
  <2>2. "setRemoteAnswer" \in OpName /\ "setRemoteAnswer" # "setAnswer"
    BY DEF OpName
  <2>3. EndsWait(ops'[x][i])
    BY <1>4, <2>1, <2>2, RequestLast
  <2>4. Served(x)'
    BY <1>2, <2>1, <2>3 DEF Served, AnswerNears
  <2>5. Handling(x, a) => Handling(x, a)'
    BY <1>2, <1>4, <2>1, <2>2, RequestServes
  <2>6. \A j \in Index : ops'[y][j] = ops[y][j]
    BY <1>3, <1>4, <2>1, <2>2, OtherQueues
  <2>7. Still(y)
    BY <1>2, <1>7, <2>6 DEF Still, SideUntouched
  <2>8. Served(y)'
    BY <1>1, <1>6, <1>8, <2>5, <2>7, OtherServed
  <2> QED
    BY <2>4, <2>8
<1>10. CASE /\ lastAnswer[x] = m \/ current[x] = 0 \/ ~HaveLocalOffer(x, current[x])
            /\ UNCHANGED ops
  <2>1. Still(y)
    BY <1>2, <1>7, <1>10 DEF Still, SideUntouched
  <2>2. Served(x)'
    <3>1. Waiting(x)' <=> Waiting(x)
      BY <1>2 DEF Waiting, HaveLocalOffer, Stable
    <3>2. ASSUME lastAnswer[x] = m PROVE Served(x)'
      <4>1. AnswerNears(x) => AnswerNears(x)'
        BY <1>1, <1>2, <1>5, <1>7, <1>10, <3>2 DEF AnswerNears
      <4> QED
        BY <1>6, <1>7, <2>1, <3>1, <3>2, <4>1, WaiterServed
    <3>3. ASSUME lastAnswer[x] # m PROVE Served(x)'
      BY <1>10, <3>1, <3>3 DEF Served, Waiting
    <3> QED
      BY <3>2, <3>3
  <2>3. ASSUME NEW j \in Index PROVE AnswerMade(x, j, a)' <=> AnswerMade(x, j, a)
    BY <1>2, <1>10 DEF AnswerMade, HaveLocalOffer, HaveRemoteOffer, Stable
  <2>4. Handling(x, a) => Handling(x, a)'
    BY <1>2, <2>3 DEF Handling
  <2>5. Served(y)'
    BY <1>1, <1>6, <1>8, <2>1, <2>4, OtherServed
  <2> QED
    BY <2>2, <2>5
<1> QED
  BY <1>2, <1>9, <1>10

LEMMA ConnectionCreatedServes ==
  ASSUME TypeOK, NEW x \in Peer, NEW y \in Peer, y = Other(x), x = Other(y), y # x,
         Untouched(x), Served(x), Served(y), NEW c \in creating[x], ConnectionCreated(x, c)
  PROVE  Served(x)' /\ Served(y)'
<1>0. PICK a : a = lastAnswer[y]
  OBVIOUS
<1>1. PICK i \in Index :
          /\ i = created[x] + 1
          /\ created' = [created EXCEPT ![x] = i] /\ current' = [current EXCEPT ![x] = i]
          /\ creating' = [creating EXCEPT ![x] = @ \ {c}]
          /\ UNCHANGED <<conns, offers, lastOffer, lastAnswer, chan, answered>>
          /\ \/ c.task = "offer" /\ Request(x, i, "createOffer", c.n)
             \/ c.task = "handle" /\ AcceptStep(x, making[x], i, c.n)
  BY DEF ConnectionCreated, stateVars, ghostVars
<1>2. /\ creating'[x] = creating[x] \ {c} /\ creating'[y] = creating[y]
      /\ created'[y] = created[y] /\ current'[y] = current[y] /\ current'[x] = i
  BY <1>1 DEF TypeOK
<1>3. c.n \in Number
  BY DEF TypeOK
<1>4. PICK op \in OpName \ {"setAnswer"} :
          /\ Request(x, i, op, c.n)
          /\ c.task = "handle" => op \in {"rollback", "setRemoteOffer"}
  BY <1>1 DEF AcceptStep, OpName
<1>5. i > created[x]
  BY <1>1, Typed
<1>6. ~HaveLocalOffer(x, i)
  BY <1>5 DEF Untouched, NewConn, HaveLocalOffer, Stable
<1>7. ~HaveLocalOffer(x, i)'
  BY <1>1, <1>6 DEF HaveLocalOffer, Stable
<1>8. Served(x)'
  BY <1>2, <1>7 DEF Served, Waiting
<1>9. \A j \in Index : ops'[y][j] = ops[y][j]
  BY <1>3, <1>4, Typed, OtherQueues
<1>10. Still(y)
  BY <1>1, <1>2, <1>9 DEF Still, SideUntouched
<1>11. Sdps(x) \subseteq Sdps(x)' /\ Sdps(y) \subseteq Sdps(y)'
  BY <1>1 DEF Sdps
<1>12. Handling(x, a) => Handling(x, a)'
  <2>1. CASE c.task = "handle"
    <3>1. Good(ops'[x][i], op, a)
      BY <1>3, <1>4, RequestLast
    <3>2. AnswerMade(x, i, a)'
      BY <1>4, <1>7, <2>1, <3>1 DEF AnswerMade
    <3> QED
      BY <3>2 DEF Handling
  <2>2. ASSUME c.task # "handle", NEW d \in creating[x], d.task = "handle" PROVE Handling(x, a)'
    BY <1>2, <2>2 DEF Handling
  <2>3. ASSUME NEW j \in Index, AnswerMade(x, j, a) PROVE Handling(x, a)'
    <3>1. OnlyQueue(x, i)
      BY <1>3, <1>4, Typed, RequestShape
    <3>2. CASE j = i
      <4>1. PICK e : e = [op |-> op, n |-> c.n]
        OBVIOUS
      <4>2. ops \in Queues /\ e \in Op /\ e.op # "setAnswer" /\ ops'[x][i] = Append(ops[x][i], e)
        BY <1>3, <1>4, <4>1, Typed, RequestShape
      <4>3. AnswerMade(x, i, a)'
        BY <1>1, <2>3, <3>2, <4>2, MadeAppend
      <4> QED
        BY <4>3 DEF Handling
    <3>3. CASE j # i
      <4>1. ops'[x][j] = ops[x][j] /\ conns'[x][j] = conns[x][j]
        BY <1>1, <3>1, <3>3 DEF OnlyQueue
      <4>2. AnswerMade(x, j, a)'
        BY <2>3, <4>1 DEF AnswerMade, HaveLocalOffer, HaveRemoteOffer, Stable
      <4> QED
        BY <4>2 DEF Handling, Index
    <3> QED
      BY <3>2, <3>3
  <2> QED
    BY <2>1, <2>2, <2>3 DEF Handling
<1>13. OfferNears(x) => OfferNears(x)'
  BY <1>1, <1>11 DEF OfferNears
<1>14. Served(y)'
  BY <1>0, <1>10, <1>11, <1>12, <1>13, OtherServed
<1> QED
  BY <1>8, <1>14

\* The operations.  One that only ends, or goes on, at a connection where no
\* wait begins.
LEMMA OperationServes ==
  ASSUME TypeOK, NEW x \in Peer, NEW y \in Peer, y = Other(x), x = Other(y), y # x,
         Served(x), Served(y), NEW i \in Index, NEW op, Running(x, i, op),
         \/ Finish(x, i)
         \/ \E next \in OpName, m \in Number : Proceed(x, i, next, m),
         UNCHANGED <<current, created, creating, offers, lastOffer, lastAnswer>>,
         answered'[y] = answered[y],
         \A z \in Peer, j \in Index : z # x \/ j # i => conns'[z][j] = conns[z][j],
         HaveLocalOffer(x, i)' =>
             HaveLocalOffer(x, i) /\ op \notin {"rollback", "setRemoteAnswer"},
         Sdps(x) \subseteq Sdps(x)', Sdps(y) \subseteq Sdps(y)',
         \A a : a = lastAnswer[y] /\ AnswerMade(x, i, a) => AnswerMade(x, i, a)' \/ AnswerNears(y)'
  PROVE  Served(x)' /\ Served(y)'
<1>1. PICK s : s = ops[x][i] /\ s \in Seq(Op) /\ s # <<>> /\ Head(s).op = op
  BY Typed, RunningShape
<1>2. /\ OnlyQueue(x, i) /\ \A j \in Index : ops'[y][j] = ops[y][j]
      /\ \/ ops'[x][i] = Tail(s)
         \/ \E e \in Op : ops'[x][i] = Append(Tail(s), e)
  <2>1. CASE Finish(x, i)
    BY <1>1, <2>1, Typed, FinishShape
  <2>2. ASSUME NEW next \in OpName, NEW m \in Number, Proceed(x, i, next, m)
        PROVE  /\ OnlyQueue(x, i) /\ \A j \in Index : ops'[y][j] = ops[y][j]
               /\ \E e \in Op : ops'[x][i] = Append(Tail(s), e)
    <3>1. /\ [op |-> next, n |-> m] \in Op
          /\ ops'[x][i] = Append(Tail(s), [op |-> next, n |-> m])
          /\ OnlyQueue(x, i) /\ \A z \in Peer \ {x}, j \in Index : ops'[z][j] = ops[z][j]
      BY <1>1, <2>2, Typed, ProceedShape
    <3> QED
      BY <3>1
  <2> QED
    BY <2>1, <2>2
<1>3. Still(y)
  BY <1>2 DEF Still, SideUntouched
<1>4. \A j \in Index \ {i} : ops'[x][j] = ops[x][j] /\ conns'[x][j] = conns[x][j]
  BY <1>2 DEF OnlyQueue
<1>5. ASSUME Waiting(x)' PROVE Waiting(x) /\ (AnswerNears(x) => AnswerNears(x)')
  <2>1. PICK j \in Index : j = current[x] /\ j = current'[x]
    BY <1>5, Typed DEF Waiting
  <2>2. HaveLocalOffer(x, j)'
    BY <1>5, <2>1 DEF Waiting
  <2>3. HaveLocalOffer(x, j) /\ (EndsWait(ops[x][j]) => EndsWait(ops'[x][j]))
    <3>1. CASE j # i
      BY <1>4, <2>2, <3>1 DEF HaveLocalOffer, Stable
    <3>2. CASE j = i
      <4>1. Tail(s) \in Seq(Op)
        BY <1>1
      <4>2. op \notin {"rollback", "setRemoteAnswer"} /\ HaveLocalOffer(x, i)
        BY <2>2, <3>2
      <4>3. EndsWait(s) => EndsWait(Tail(s))
        BY <1>1, <4>2, TailEnds
      <4>4. EndsWait(s) => EndsWait(ops'[x][i])
        BY <1>2, <4>1, <4>3, AppendEnds
      <4> QED
        BY <1>1, <3>2, <4>2, <4>4
    <3> QED
      BY <3>1, <3>2
  <2>4. Waiting(x)
    BY <1>5, <2>1, <2>3 DEF Waiting
  <2> QED
    BY <2>1, <2>3, <2>4 DEF AnswerNears
<1>6. Served(x)'
  BY <1>3, <1>5, WaiterServed
<1>7. PICK a : a = lastAnswer[y]
  OBVIOUS
<1>8. Handling(x, a) => Handling(x, a)' \/ AnswerNears(y)'
  <2>1. CASE AnswerMade(x, i, a) => AnswerMade(x, i, a)'
    BY <1>4, <2>1, HandlingKept
  <2>2. CASE ~(AnswerMade(x, i, a) => AnswerMade(x, i, a)')
    BY <1>7, <2>2
  <2> QED
    BY <2>1, <2>2
<1>9. OfferNears(x) => OfferNears(x)'
  BY DEF OfferNears
<1>10. Served(y)'
  BY <1>3, <1>7, <1>8, <1>9, OtherServed
<1> QED
  BY <1>6, <1>10

LEMMA CreateOfferServes ==
  ASSUME TypeOK, NEW x \in Peer, NEW y \in Peer, y = Other(x), x = Other(y), y # x,
         Served(x), Served(y), NEW i \in Index, CreateOffer(x, i)
  PROVE  Served(x)' /\ Served(y)'
<1>1. /\ Running(x, i, "createOffer") /\ Proceed(x, i, "setOffer", Arg(x, i))
      /\ UNCHANGED <<current, created, creating, conns, offers, lastOffer, lastAnswer, answered, chan>>
      /\ "setOffer" \in OpName
  BY DEF CreateOffer, pcVars, stateVars, ghostVars, OpName
<1>2. ops \in Queues /\ Arg(x, i) \in Number
  BY <1>1, Typed, RunningShape
<1>3. PICK e : e = [op |-> "setOffer", n |-> Arg(x, i)]
  OBVIOUS
<1>4. e \in Op /\ e.op = "setOffer" /\ ops'[x][i] = Append(Tail(ops[x][i]), e)
  BY <1>1, <1>2, <1>3, ProceedShape
<1>5. /\ HaveLocalOffer(x, i)' <=> HaveLocalOffer(x, i)
      /\ HaveRemoteOffer(x, i)' <=> HaveRemoteOffer(x, i)
  BY <1>1 DEF HaveLocalOffer, HaveRemoteOffer, Stable
<1>6. \A a : AnswerMade(x, i, a) => AnswerMade(x, i, a)'
  BY <1>1, <1>2, <1>4, <1>5, MadeTail
<1>7. Sdps(x) \subseteq Sdps(x)' /\ Sdps(y) \subseteq Sdps(y)'
  BY <1>1 DEF Sdps
<1> QED
  BY <1>1, <1>2, <1>5, <1>6, <1>7, OperationServes

LEMMA SetOfferServes ==
  ASSUME TypeOK, LifeInv, NEW x \in Peer, NEW y \in Peer, y = Other(x), x = Other(y), y # x,
         Served(x), Served(y), NEW i \in Index, SetOffer(x, i)
  PROVE  Served(x)' /\ Served(y)'
<1>1. /\ Running(x, i, "setOffer") /\ Finish(x, i)
      /\ UNCHANGED <<current, created, creating, offers, lastOffer, lastAnswer, answered>>
  BY DEF SetOffer, ghostVars
<1>2. ops \in Queues /\ ops'[x][i] = Tail(ops[x][i]) /\ Arg(x, i) \in Number
  BY <1>1, Typed, RunningShape, FinishShape
<1>3. CASE HaveRemoteOffer(x, i) /\ UNCHANGED <<conns, chan>>
  <2>1. /\ HaveLocalOffer(x, i)' <=> HaveLocalOffer(x, i)
        /\ HaveRemoteOffer(x, i)' <=> HaveRemoteOffer(x, i)
    BY <1>3 DEF HaveLocalOffer, HaveRemoteOffer, Stable
  <2>2. \A a : AnswerMade(x, i, a) => AnswerMade(x, i, a)'
    BY <1>1, <1>2, <2>1, MadeTail
  <2>3. Sdps(x) \subseteq Sdps(x)' /\ Sdps(y) \subseteq Sdps(y)'
    BY <1>3 DEF Sdps
  <2> QED
    BY <1>1, <1>3, <2>1, <2>2, <2>3, OperationServes
<1>4. CASE /\ ~HaveRemoteOffer(x, i)
           /\ conns' = [conns EXCEPT ![x][i].pending =
                 [from |-> x, type |-> "offer", n |-> Arg(x, i)]]
           /\ SendSdp(x, "offer", Arg(x, i))
  <2>1. PICK m : m = Arg(x, i)
    OBVIOUS
  <2>2. InQueue(x, OfferOps, m)
    BY <1>1, <1>2, <2>1, RunningHas DEF OfferOps
  <2>3. ~Sent(y, m)
    BY <1>2, <2>1, <2>2 DEF LifeInv, SentFirst, Unsent, InMaking
  <2>4. lastOffer[y] # m /\ lastOffer'[y] = lastOffer[y] /\ InOrder(y)
    BY <1>1, <2>3 DEF Sent, LifeInv
  <2>5. chan'[x] = chan[x] /\ Sdps(y)' = Sdps(y) \cup {[type |-> "offer", n |-> m]}
    <3>1. chan \in Channels /\ SendSdp(x, "offer", m)
      BY <1>4, <2>1, Typed
    <3>2. /\ InOrder(y)' /\ chan'[x] = chan[x]
          /\ Sdps(y)' = Sdps(y) \cup {[type |-> "offer", n |-> m]}
      BY <2>3, <2>4, <3>1, SendOrder
    <3> QED
      BY <3>2
  <2>6. AnswerNears(y)' /\ OfferNears(y)'
    <3>1. PICK e : e = [type |-> "offer", n |-> m]
      OBVIOUS
    <3>2. e.type = "offer" /\ e.n # lastOffer'[y] /\ e \in Sdps(y)'
      BY <2>4, <2>5, <3>1
    <3> QED
      BY <3>2 DEF AnswerNears, OfferNears
  <2>7. Served(x)' /\ Served(y)'
    BY <2>6 DEF Served
  <2> QED
    BY <2>7
<1> QED
  BY <1>3, <1>4 DEF SetOffer

LEMMA RollbackServes ==
  ASSUME TypeOK, NEW x \in Peer, NEW y \in Peer, y = Other(x), x = Other(y), y # x,
         Served(x), Served(y), NEW i \in Index, Rollback(x, i)
  PROVE  Served(x)' /\ Served(y)'
<1>1. /\ Running(x, i, "rollback") /\ Proceed(x, i, "setRemoteOffer", Arg(x, i))
      /\ conns' = [conns EXCEPT ![x][i].pending = NoSdp]
      /\ UNCHANGED <<current, created, creating, offers, lastOffer, lastAnswer, answered, chan>>
      /\ "setRemoteOffer" \in OpName
  BY DEF Rollback, stateVars, ghostVars, OpName
<1>2. ops \in Queues /\ Arg(x, i) \in Number
  BY <1>1, Typed, RunningShape
<1>3. PICK e : e = [op |-> "setRemoteOffer", n |-> Arg(x, i)]
  OBVIOUS
<1>4. e \in Op /\ e.op = "setRemoteOffer" /\ ops'[x][i] = Append(Tail(ops[x][i]), e)
  BY <1>1, <1>2, <1>3, ProceedShape
<1>5. Tail(ops[x][i]) \in Seq(Op)
  <2>1. ops[x][i] \in Seq(Op) /\ ops[x][i] # <<>>
    BY <1>1, <1>2, RunningShape
  <2> QED
    BY <2>1
<1>6. /\ conns'[x][i].pending = NoSdp
      /\ \A z \in Peer, j \in Index : z # x \/ j # i => conns'[z][j] = conns[z][j]
  BY <1>1, Typed DEF Conns, Conn
<1>7. ~HaveLocalOffer(x, i)'
  BY <1>6 DEF HaveLocalOffer, Stable
<1>8. \A a : AnswerMade(x, i, a)'
  BY <1>4, <1>5, <1>7, LastGood DEF AnswerMade
<1>9. Sdps(x) \subseteq Sdps(x)' /\ Sdps(y) \subseteq Sdps(y)'
  BY <1>1 DEF Sdps
<1> QED
  BY <1>1, <1>2, <1>6, <1>7, <1>8, <1>9, OperationServes

LEMMA SetRemoteAnswerServes ==
  ASSUME TypeOK, NEW x \in Peer, NEW y \in Peer, y = Other(x), x = Other(y), y # x,
         Served(x), Served(y), NEW i \in Index, SetRemoteAnswer(x, i)
  PROVE  Served(x)' /\ Served(y)'
<1>1. /\ Running(x, i, "setRemoteAnswer") /\ Finish(x, i)
      /\ UNCHANGED <<current, created, creating, offers, lastOffer, lastAnswer, answered, chan>>
      /\ \/ ~HaveLocalOffer(x, i) /\ UNCHANGED conns
         \/ /\ HaveLocalOffer(x, i)
            /\ conns' = [conns EXCEPT ![x][i] =
                  [pending |-> NoSdp, local |-> @.pending,
                   remote |-> [from |-> Other(x), type |-> "answer", n |-> Arg(x, i)]]]
  BY DEF SetRemoteAnswer, stateVars, ghostVars
<1>2. ops \in Queues /\ ops'[x][i] = Tail(ops[x][i])
  BY <1>1, Typed, FinishShape
<1>3. /\ ~HaveLocalOffer(x, i)'
      /\ HaveRemoteOffer(x, i) => HaveRemoteOffer(x, i)'
      /\ \A z \in Peer, j \in Index : z # x \/ j # i => conns'[z][j] = conns[z][j]
  <2>1. CASE ~HaveLocalOffer(x, i) /\ UNCHANGED conns
    BY <2>1 DEF HaveLocalOffer, HaveRemoteOffer, Stable
  <2>2. CASE /\ HaveLocalOffer(x, i)
             /\ conns' = [conns EXCEPT ![x][i] =
                   [pending |-> NoSdp, local |-> @.pending,
                    remote |-> [from |-> Other(x), type |-> "answer", n |-> Arg(x, i)]]]
    BY <2>2, Typed DEF HaveLocalOffer, HaveRemoteOffer, Stable, Conns
  <2> QED
    BY <1>1, <2>1, <2>2
<1>4. \A a : AnswerMade(x, i, a) => AnswerMade(x, i, a)'
  BY <1>1, <1>2, <1>3, MadeTail
<1>5. Sdps(x) \subseteq Sdps(x)' /\ Sdps(y) \subseteq Sdps(y)'
  BY <1>1 DEF Sdps
<1> QED
  BY <1>1, <1>3, <1>4, <1>5, OperationServes

LEMMA SetRemoteOfferServes ==
  ASSUME TypeOK, NEW x \in Peer, NEW y \in Peer, y = Other(x), x = Other(y), y # x,
         Served(x), Served(y), NEW i \in Index, SetRemoteOffer(x, i)
  PROVE  Served(x)' /\ Served(y)'
<1>1. /\ Running(x, i, "setRemoteOffer")
      /\ UNCHANGED <<current, created, creating, offers, lastOffer, lastAnswer, answered, chan>>
      /\ \/ HaveLocalOffer(x, i) /\ Finish(x, i) /\ UNCHANGED conns
         \/ /\ ~HaveLocalOffer(x, i)
            /\ conns' = [conns EXCEPT ![x][i].pending =
                  [from |-> Other(x), type |-> "offer", n |-> Arg(x, i)]]
            /\ Proceed(x, i, "createAnswer", Arg(x, i))
  BY DEF SetRemoteOffer, stateVars, ghostVars
<1>2. /\ ops \in Queues /\ Arg(x, i) \in Number /\ ops[x][i] \in Seq(Op) /\ ops[x][i] # <<>>
      /\ Head(ops[x][i]).op = "setRemoteOffer" /\ "createAnswer" \in OpName
  BY <1>1, Typed, RunningShape DEF OpName
<1>3. Sdps(x) \subseteq Sdps(x)' /\ Sdps(y) \subseteq Sdps(y)'
  BY <1>1 DEF Sdps
<1>4. PICK s : s = ops[x][i] /\ s \in Seq(Op) /\ s # <<>>
  BY <1>2
<1>7. PICK t : t = Tail(s) /\ t \in Seq(Op)
  <2>1. Tail(s) \in Seq(Op)
    BY <1>4
  <2> QED
    BY <2>1
<1>5. CASE HaveLocalOffer(x, i) /\ Finish(x, i) /\ UNCHANGED conns
  <2>1. ops'[x][i] = t
    BY <1>2, <1>4, <1>7, <1>5, FinishShape
  <2>2. HaveLocalOffer(x, i)' /\ ~HaveRemoteOffer(x, i)
    BY <1>5 DEF HaveLocalOffer, HaveRemoteOffer, Stable
  <2>3. ASSUME NEW a, AnswerMade(x, i, a) PROVE AnswerMade(x, i, a)'
    <3>1. Good(s, "rollback", a)
      BY <1>4, <1>7, <1>5, <2>2, <2>3 DEF AnswerMade
    <3>2. Good(t, "rollback", a)
      BY <1>2, <1>4, <1>7, <3>1, TailGood
    <3> QED
      BY <2>1, <3>2 DEF AnswerMade
  <2> QED
    BY <1>1, <1>3, <1>5, <2>3, OperationServes
<1>6. CASE /\ ~HaveLocalOffer(x, i)
           /\ conns' = [conns EXCEPT ![x][i].pending =
                 [from |-> Other(x), type |-> "offer", n |-> Arg(x, i)]]
           /\ Proceed(x, i, "createAnswer", Arg(x, i))
  <2>1. PICK e : e = [op |-> "createAnswer", n |-> Arg(x, i)]
    OBVIOUS
  <2>2. e \in Op /\ e.op = "createAnswer" /\ ops'[x][i] = Append(t, e)
    BY <1>2, <1>4, <1>7, <1>6, <2>1, ProceedShape
  <2>3. /\ conns'[x][i].pending = [from |-> Other(x), type |-> "offer", n |-> Arg(x, i)]
        /\ \A z \in Peer, j \in Index : z # x \/ j # i => conns'[z][j] = conns[z][j]
    BY <1>6, Typed DEF Conns, Conn
  <2>4. conns'[x][i].pending # NoSdp
    BY <1>2, <2>3, OtherPeer, NoSdpAssumption DEF Sdp
  <2>5. HaveRemoteOffer(x, i)' /\ ~HaveLocalOffer(x, i)'
    BY <2>3, <2>4, OtherPeer DEF HaveRemoteOffer, HaveLocalOffer, Stable
  <2>6. ASSUME NEW a, AnswerMade(x, i, a) PROVE AnswerMade(x, i, a)'
    <3>1. \A good : Good(t, good, a) => Good(ops'[x][i], good, a)
      BY <1>4, <1>7, <2>2, AppendGood
    <3>2. NewAnswers(t, 0, a) => NewAnswers(ops'[x][i], 0, a)
      BY <1>4, <1>7, <2>2, AppendNew
    <3>3. CASE Good(s, "rollback", a)
      <4>1. Good(t, "rollback", a)
        BY <1>2, <1>4, <1>7, <3>3, TailGood
      <4> QED
        BY <3>1, <4>1 DEF AnswerMade
    <3>4. CASE Good(s, "setRemoteOffer", a)
      <4>1. Good(t, "setRemoteOffer", a) \/ NewAnswers(t, 0, a)
        BY <1>4, <1>7, <3>4, TailGood
      <4> QED
        BY <2>5, <3>1, <3>2, <4>1 DEF AnswerMade
    <3>5. CASE NewAnswers(s, 0, a)
      <4>1. NewAnswers(t, 0, a)
        BY <1>4, <1>7, <3>5, TailStillNew
      <4> QED
        BY <2>5, <3>2, <4>1 DEF AnswerMade
    <3> QED
      BY <1>4, <1>7, <2>6, <3>3, <3>4, <3>5 DEF AnswerMade
  <2> QED
    BY <1>1, <1>2, <1>3, <1>6, <2>3, <2>5, <2>6, OperationServes
<1> QED
  BY <1>1, <1>5, <1>6

\* The answer in the making is not the one y has had: that one was sent, and
\* the pending offer was not answered.
LEMMA CreateAnswerServes ==
  ASSUME TypeOK, LifeInv, NEW x \in Peer, NEW y \in Peer, y = Other(x), x = Other(y), y # x,
         Served(x), Served(y), NEW i \in Index, CreateAnswer(x, i)
  PROVE  Served(x)' /\ Served(y)'
<1>1. PICK n : n = conns[x][i].pending.n
  OBVIOUS
<1>2. /\ Running(x, i, "createAnswer")
      /\ UNCHANGED <<current, created, creating, conns, offers, lastOffer, lastAnswer, answered, chan>>
      /\ \/ HaveRemoteOffer(x, i) /\ Proceed(x, i, "setAnswer", n)
         \/ ~HaveRemoteOffer(x, i) /\ Finish(x, i)
  BY <1>1 DEF CreateAnswer, pcVars, stateVars, ghostVars
<1>3. ops \in Queues /\ "setAnswer" \in OpName
  BY Typed DEF OpName
<1>4. /\ HaveLocalOffer(x, i)' <=> HaveLocalOffer(x, i)
      /\ HaveRemoteOffer(x, i)' <=> HaveRemoteOffer(x, i)
  BY <1>2 DEF HaveLocalOffer, HaveRemoteOffer, Stable
<1>5. Sdps(x) \subseteq Sdps(x)' /\ Sdps(y) \subseteq Sdps(y)'
  BY <1>2 DEF Sdps
<1>6. CASE ~HaveRemoteOffer(x, i) /\ Finish(x, i)
  <2>1. ops'[x][i] = Tail(ops[x][i])
    BY <1>3, <1>6, FinishShape
  <2>2. \A a : AnswerMade(x, i, a) => AnswerMade(x, i, a)'
    BY <1>2, <1>3, <1>4, <2>1, MadeTail
  <2> QED
    BY <1>2, <1>4, <1>5, <1>6, <2>2, OperationServes
<1>7. CASE HaveRemoteOffer(x, i) /\ Proceed(x, i, "setAnswer", n)
  <2>1. n \in Number
    <3>1. conns[x][i].pending \in Sdp
      BY <1>7, Typed DEF HaveRemoteOffer, Stable, Conns, Conn
    <3> QED
      BY <1>1, <3>1 DEF Sdp
  <2>2. answered[x][n] = 0
    BY <1>1, <1>7, <2>1 DEF LifeInv, TakenOnce, Pending
  <2>3. lastAnswer[y] # n
    BY <2>1, <2>2 DEF LifeInv, AnswersSent
  <2>4. PICK e : e = [op |-> "setAnswer", n |-> n]
    OBVIOUS
  <2>5. e \in Op /\ e.n = n /\ ops'[x][i] = Append(Tail(ops[x][i]), e)
    BY <1>3, <1>7, <2>1, <2>4, ProceedShape
  <2>6. \A a : a = lastAnswer[y] /\ AnswerMade(x, i, a) => AnswerMade(x, i, a)'
    BY <1>2, <1>3, <1>4, <2>3, <2>5, MadeTail
  <2> QED
    BY <1>2, <1>3, <1>4, <1>5, <1>7, <2>1, <2>6, OperationServes
<1> QED
  BY <1>2, <1>6, <1>7

LEMMA SetAnswerServes ==
  ASSUME TypeOK, LifeInv, NEW x \in Peer, NEW y \in Peer, y = Other(x), x = Other(y), y # x,
         Served(x), Served(y), NEW i \in Index, SetAnswer(x, i)
  PROVE  Served(x)' /\ Served(y)'
<1>1. PICK m : m = Arg(x, i)
  OBVIOUS
<1>2. /\ Running(x, i, "setAnswer") /\ Finish(x, i)
      /\ UNCHANGED <<current, created, creating, offers, lastOffer, lastAnswer>>
      /\ \/ ~HaveRemoteOffer(x, i) /\ UNCHANGED <<conns, chan, answered>>
         \/ /\ HaveRemoteOffer(x, i)
            /\ conns' = [conns EXCEPT ![x][i] =
                  [pending |-> NoSdp, remote |-> @.pending,
                   local |-> [from |-> x, type |-> "answer", n |-> m]]]
            /\ SendSdp(x, "answer", m)
            /\ answered' = [answered EXCEPT ![x][m] = @ + 1]
  BY <1>1 DEF SetAnswer, AnswerSet, stateVars
<1>3. /\ ops \in Queues /\ ops'[x][i] = Tail(ops[x][i]) /\ m \in Number
      /\ ops[x][i] \in Seq(Op) /\ ops[x][i] # <<>> /\ Head(ops[x][i]).op = "setAnswer"
      /\ Head(ops[x][i]).n = m
  BY <1>1, <1>2, Typed, RunningShape, FinishShape
<1>4. CASE ~HaveRemoteOffer(x, i) /\ UNCHANGED <<conns, chan, answered>>
  <2>1. /\ HaveLocalOffer(x, i)' <=> HaveLocalOffer(x, i)
        /\ HaveRemoteOffer(x, i)' <=> HaveRemoteOffer(x, i)
    BY <1>4 DEF HaveLocalOffer, HaveRemoteOffer, Stable
  <2>2. \A a : AnswerMade(x, i, a) => AnswerMade(x, i, a)'
    BY <1>2, <1>3, <2>1, MadeTail
  <2>3. Sdps(x) \subseteq Sdps(x)' /\ Sdps(y) \subseteq Sdps(y)'
    BY <1>4 DEF Sdps
  <2> QED
    BY <1>2, <1>4, <2>1, <2>2, <2>3, OperationServes
<1>5. CASE /\ HaveRemoteOffer(x, i)
           /\ conns' = [conns EXCEPT ![x][i] =
                 [pending |-> NoSdp, remote |-> @.pending,
                  local |-> [from |-> x, type |-> "answer", n |-> m]]]
           /\ SendSdp(x, "answer", m)
           /\ answered' = [answered EXCEPT ![x][m] = @ + 1]
  <2>1. /\ conns'[x][i].pending = NoSdp
        /\ \A z \in Peer, j \in Index : z # x \/ j # i => conns'[z][j] = conns[z][j]
    BY <1>5, Typed DEF Conns
  <2>2. ~HaveLocalOffer(x, i)'
    BY <2>1 DEF HaveLocalOffer, Stable
  <2>3. chan \in Channels /\ InOrder(y) /\ lastOffer'[y] = lastOffer[y] /\ lastAnswer'[y] = lastAnswer[y]
    BY <1>2, Typed DEF LifeInv
  <2>4. chan'[x] = chan[x] /\ Sdps(y)' = Sdps(y) \cup {[type |-> "answer", n |-> m]}
    BY <1>5, <2>3, SendOrder
  <2>5. Sdps(x) \subseteq Sdps(x)' /\ Sdps(y) \subseteq Sdps(y)'
    BY <2>4 DEF Sdps
  <2>6. answered'[y] = answered[y]
    BY <1>5 DEF TypeOK
  <2>7. ASSUME NEW a, a = lastAnswer[y], AnswerMade(x, i, a) PROVE AnswerMade(x, i, a)' \/ AnswerNears(y)'
    <3>1. CASE m # a
      BY <2>3, <2>4, <2>7, <3>1 DEF AnswerNears
    <3>2. CASE m = a
      <4>1. ~NewAnswers(ops[x][i], 0, a)
        <5>1. 1 \in DOMAIN ops[x][i] /\ ops[x][i][1] = Head(ops[x][i]) /\ 1 > 0
          BY <1>3
        <5> QED
          BY <1>3, <3>2, <5>1 DEF NewAnswers
      <4> QED
        BY <1>2, <1>3, <2>2, <2>7, <4>1, MadeTail
    <3> QED
      BY <3>1, <3>2
  <2> QED
    BY <1>2, <2>1, <2>2, <2>5, <2>6, <2>7, OperationServes
<1> QED
  BY <1>2, <1>4, <1>5

LEMMA ServedNext == TypeOK /\ CandidatesWait /\ LifeInv /\ WaitInv /\ [Next]_vars => WaitInv'
<1> SUFFICES ASSUME TypeOK, CandidatesWait, LifeInv, WaitInv, [Next]_vars, reconnects' = 0
             PROVE  \A p \in Peer : Served(p)'
  BY DEF WaitInv
<1>0. chan \in Channels /\ reconnects \in Nat
  BY Typed, ConstantsAssumption DEF TypeOK
<1>1. ASSUME NEW x \in Peer, Reconnect(x) PROVE FALSE
  BY <1>0, <1>1 DEF Reconnect
<1>2. reconnects = 0
  BY <1>1 DEF Next, Deliver, Operate, Trigger, ParticipantJoined, OfferArrives, OfferEvent,
     AnswerArrives, CandidateArrives, CreateOffer, SetOffer, Rollback, SetRemoteOffer, CreateAnswer,
     SetAnswer, AnswerSet, SetRemoteAnswer, WatchdogFires, RestartIce, ConnectionCreated,
     CandidateFound, CandidateLookedUp, vars, ghostVars
<1>3. \A p \in Peer : Served(p)
  BY <1>2 DEF WaitInv
<1>4. ASSUME NEW x \in Peer, NEW y \in Peer, y = Other(x), x = Other(y), y # x,
             Deliver(x) \/ Operate(x) \/ Trigger(x) \/ CandidateFound(x)
             \/ \E c \in creating[x] : ConnectionCreated(x, c)
      PROVE  Served(x)' /\ Served(y)'
  <2>1. Served(x) /\ Served(y)
    BY <1>3
  <2>2. CASE ParticipantJoined(x)
    <3>1. chan[x] # <<>> /\ Consume(x) /\ Head(chan[x]).type = "joined" /\ BeginOffer(x)
      BY <2>2 DEF ParticipantJoined, Arrives
    <3>2. Sdps(x) \subseteq Sdps(x)' \cup {Head(chan[x])} /\ chan'[y] = chan[y]
      BY <1>0, <1>4, <3>1, ConsumeShape
    <3>3. Sdps(x) \subseteq Sdps(x)' /\ Sdps(y) \subseteq Sdps(y)'
      BY <3>1, <3>2 DEF Sdps
    <3> QED
      BY <1>4, <2>1, <3>1, <3>3, BeginOfferServes
  <2>3. CASE WatchdogFires(x) \/ RestartIce(x)
    <3>1. BeginOffer(x) /\ UNCHANGED chan
      BY <2>3 DEF WatchdogFires, RestartIce
    <3>2. Sdps(x) \subseteq Sdps(x)' /\ Sdps(y) \subseteq Sdps(y)'
      BY <3>1 DEF Sdps
    <3> QED
      BY <1>4, <2>1, <3>1, <3>2, BeginOfferServes
  <2>4. CASE CandidateArrives(x) \/ CandidateFound(x)
    <3>1. UNCHANGED <<current, created, conns, ops, creating, offers, answered, lastOffer, lastAnswer>>
      BY <2>4 DEF CandidateArrives, CandidateFound, pcVars, stateVars, ghostVars
    <3>2. Sdps(x) \subseteq Sdps(x)' /\ Sdps(y) \subseteq Sdps(y)'
      <4>1. CASE CandidateArrives(x)
        <5>1. chan[x] # <<>> /\ Consume(x) /\ Head(chan[x]).type = "candidate"
          BY <4>1 DEF CandidateArrives, Arrives
        <5>2. Sdps(x) \subseteq Sdps(x)' \cup {Head(chan[x])} /\ chan'[y] = chan[y]
          BY <1>0, <1>4, <5>1, ConsumeShape
        <5> QED
          BY <5>1, <5>2 DEF Sdps
      <4>2. CASE CandidateFound(x)
        <5>1. chan' = [chan EXCEPT ![y] = Append(@, Candidate)]
          BY <1>4, <4>2 DEF CandidateFound
        <5>2. chan'[y] = Append(chan[y], Candidate) /\ chan'[x] = chan[x]
          BY <1>0, <1>4, <5>1 DEF Channels
        <5>3. Candidate \in Msg /\ Candidate.type # "offer"
          BY DEF Msg, Candidate
        <5>4. InOrder(y) /\ lastOffer'[y] = lastOffer[y]
          BY <3>1 DEF LifeInv
        <5>5. Sdps(y) \subseteq Sdps(y)'
          BY <1>0, <5>2, <5>3, <5>4, AppendOrder
        <5> QED
          BY <5>2, <5>5 DEF Sdps
      <4> QED
        BY <2>4, <4>1, <4>2
    <3>3. Still(y)
      BY <3>1 DEF Still, SideUntouched
    <3>4. /\ UNCHANGED <<current, conns>> /\ UNCHANGED ops /\ creating[x] \subseteq creating'[x]
          /\ lastOffer'[x] = lastOffer[x] /\ lastAnswer'[x] = lastAnswer[x]
      BY <3>1
    <3> QED
      BY <1>4, <2>1, <3>2, <3>3, <3>4, QuietWait
  <2>5. CASE OfferArrives(x) \/ AnswerArrives(x)
    BY <1>4, <2>1, <2>5, OfferArrivesServes, AnswerArrivesServes
  <2>6. CASE \E c \in creating[x] : ConnectionCreated(x, c)
    BY <1>4, <2>1, <2>6, ConnectionCreatedServes DEF CandidatesWait
  <2>7. ASSUME NEW i \in Index,
               CreateOffer(x, i) \/ SetOffer(x, i) \/ Rollback(x, i) \/ SetRemoteOffer(x, i)
        PROVE  Served(x)' /\ Served(y)'
    BY <1>4, <2>1, <2>7, CreateOfferServes, SetOfferServes, RollbackServes, SetRemoteOfferServes
  <2>8. ASSUME NEW i \in Index, CreateAnswer(x, i) \/ SetAnswer(x, i) \/ SetRemoteAnswer(x, i)
        PROVE  Served(x)' /\ Served(y)'
    BY <1>4, <2>1, <2>8, CreateAnswerServes, SetAnswerServes, SetRemoteAnswerServes
  <2> QED
    BY <1>1, <1>4, <2>2, <2>3, <2>4, <2>5, <2>6, <2>7, <2>8 DEF Deliver, Operate, Trigger
<1>5. CASE UNCHANGED vars \/ \E x \in Peer, i \in Index : CandidateLookedUp(x, i)
  <2>1. UNCHANGED <<current, conns, ops, creating, lastOffer, lastAnswer, chan>>
    BY <1>5, LookupFrame DEF vars, pcVars, stateVars
  <2>2. ASSUME NEW p \in Peer PROVE Served(p)'
    <3>1. Served(p)
      BY <1>3
    <3>2. /\ Waiting(p)' <=> Waiting(p)
          /\ \A q \in Peer : Sdps(q)' = Sdps(q)
      BY <2>1 DEF Waiting, HaveLocalOffer, Stable, Sdps
    <3>3. Other(p) \in Peer
      BY OtherPeer
    <3>4. AnswerNears(p) => AnswerNears(p)'
      BY <2>1, <3>2 DEF AnswerNears
    <3>5. OfferNears(Other(p)) => OfferNears(Other(p))'
      BY <2>1, <3>2, <3>3 DEF OfferNears
    <3>6. Handling(Other(p), lastAnswer[p]) => Handling(Other(p), lastAnswer[p])'
      BY <2>1, <3>3 DEF Handling, AnswerMade, HaveLocalOffer, HaveRemoteOffer, Stable
    <3> QED
      BY <3>1, <3>2, <3>4, <3>5, <3>6 DEF Served
  <2> QED
    BY <2>2
<1>6. ASSUME NEW x \in Peer, Served(x)' /\ Served(Other(x))' PROVE \A p \in Peer : Served(p)'
  BY <1>6, TwoPeers
<1>7. CASE Next /\ ~\E x \in Peer, i \in Index : CandidateLookedUp(x, i)
  <2>1. PICK x \in Peer : \/ Deliver(x) \/ Operate(x) \/ Trigger(x) \/ CandidateFound(x)
                          \/ \E c \in creating[x] : ConnectionCreated(x, c)
    BY <1>7 DEF Next
  <2>2. PICK y : y = Other(x) /\ y \in Peer /\ y # x /\ x = Other(y)
    BY OtherPeer, TwoPeers
  <2> QED
    BY <1>4, <1>6, <2>1, <2>2
<1> QED
  BY <1>5, <1>7

LEMMA ServedInit == Init => WaitInv
<1> SUFFICES ASSUME Init, NEW p \in Peer PROVE ~Waiting(p)
  BY DEF WaitInv, Served
<1> QED
  BY DEF Init, Waiting

\* Nothing that would end a wait is left when the two are idle.
LEMMA IdleWaits == TypeOK /\ LifeInv /\ WaitInv => NobodyWaitsInVain
<1> SUFFICES ASSUME TypeOK, LifeInv, WaitInv, reconnects = 0, Idle, NEW p \in Peer, current[p] # 0,
                    ~Stable(p, current[p])
             PROVE  FALSE
  BY DEF NobodyWaitsInVain, NobodyWaits
<1>1. PICK q : q = Other(p) /\ q \in Peer
  BY OtherPeer
<1>2. PICK i \in Index : i = current[p]
  BY Typed
<1>3. \A x \in Peer : /\ creating[x] = {} /\ chan[x] = <<>>
                      /\ \A j \in Index : ops[x][j] = <<>>
  BY DEF Idle
<1>4. \A x \in Peer : Sdps(x) = {}
  BY <1>3 DEF Sdps
<1>5. \A x \in Peer, j \in Index : ~HaveRemoteOffer(x, j)
  BY <1>3 DEF LifeInv, RemoteIsAnswered, AnswerComes
<1>6. Waiting(p)
  BY <1>2, <1>5 DEF Waiting, HaveLocalOffer, HaveRemoteOffer
<1>7. AnswerNears(p) \/ OfferNears(q) \/ Handling(q, lastAnswer[p])
  BY <1>1, <1>6 DEF WaitInv, Served
<1>8. ~AnswerNears(p) /\ ~OfferNears(q)
  BY <1>1, <1>2, <1>3, <1>4 DEF AnswerNears, OfferNears, EndsWait
<1>9. \A j \in Index : \A op, a : ~Good(ops[q][j], op, a)
  BY <1>1, <1>3 DEF Good
<1>10. ~Handling(q, lastAnswer[p])
  BY <1>1, <1>3, <1>5, <1>9 DEF Handling, AnswerMade
<1> QED
  BY <1>7, <1>8, <1>10

-----------------------------------------------------------------------------
(* The promise of OfferAnswer *)

LEMMA HeldWaits ==
  ASSUME NEW x \in Peer
  PROVE  /\ Waiting(x) <=> Held(x).pending # NoSdp /\ Held(x).pending.from = x
         /\ Waiting(x)' <=> Held(x)'.pending # NoSdp /\ Held(x)'.pending.from = x
BY DEF Waiting, Held, HaveLocalOffer, Stable, NewConn

\* What is not seen from outside: the connection that either side has keeps its
\* descriptions.
LEMMA HeldKept ==
  ASSUME \A x \in Peer : Held(x)' = Held(x)
  PROVE  Open' = Open /\ Sessions' = Sessions
<1>1. \A x \in Peer : Waiting(x)' <=> Waiting(x)
  BY HeldWaits
<1> QED
  BY <1>1 DEF Open, Sessions

\* The offers that are open when one of the two does not wait.
LEMMA OneOpen ==
  ASSUME NEW x \in Peer
  PROVE  /\ ~Waiting(Other(x)) => Open = IF Waiting(x) THEN {Held(x).pending} ELSE {}
         /\ ~Waiting(Other(x))' => Open' = IF Waiting(x)' THEN {Held(x)'.pending} ELSE {}
<1>1. \A y \in Peer : y = x \/ y = Other(x)
  BY TwoPeers
<1> QED
  BY <1>1 DEF Open

\* x sets descriptions of the connection it has.
LEMMA HeldSet ==
  ASSUME TypeOK, NEW x \in Peer, NEW i \in Index, i = current[x], UNCHANGED current,
         NEW c, conns' = [conns EXCEPT ![x][i] = c]
  PROVE  /\ Held(x) = conns[x][i] /\ Held(x)' = c
         /\ \A y \in Peer : y # x => Held(y)' = Held(y)
<1>1. i # 0 /\ conns \in Conns
  BY Typed DEF Index
<1>2. conns'[x][i] = c /\ \A y \in Peer : y # x => conns'[y] = conns[y]
  BY <1>1 DEF Conns
<1> QED
  BY <1>1, <1>2 DEF Held

\* The session of x, if that is all that changes.
LEMMA SessionSet ==
  ASSUME NEW x \in Peer, Held(Other(x))' = Held(Other(x)), NEW l, NEW r,
         Held(x)'.local = l, Held(x)'.remote = r
  PROVE  Sessions' = [Sessions EXCEPT ![x] = [local |-> l, remote |-> r]]
<1>1. \A y \in Peer : y = x \/ y = Other(x)
  BY TwoPeers
<1> QED
  BY <1>1 DEF Sessions

LEMMA HeldStage ==
  ASSUME NEW x \in Peer
  PROVE  /\ Steady(x) => ~Waiting(x)
         /\ \A d : Awaits(x, d) => Held(x).pending = d
         /\ \A l, r : HasSession(x, l, r) =>
                ~Waiting(x) /\ Held(x) = [pending |-> NoSdp, local |-> l, remote |-> r]
<1>1. Steady(x) => ~Waiting(x)
  BY DEF Steady, Waiting, HaveLocalOffer
<1>2. \A d : Awaits(x, d) => Held(x).pending = d
  BY DEF Awaits, Held
<1>3. ASSUME NEW l, NEW r, HasSession(x, l, r)
      PROVE  ~Waiting(x) /\ Held(x) = [pending |-> NoSdp, local |-> l, remote |-> r]
  <2>1. Held(x) = [pending |-> NoSdp, local |-> l, remote |-> r]
    BY <1>3 DEF HasSession, Held
  <2> QED
    BY <2>1, HeldWaits
<1> QED
  BY <1>1, <1>2, <1>3

\* The offer is set and sent.
LEMMA SetOfferPromise ==
  ASSUME TypeOK, CalmInv, calm, NEW x \in Peer, NEW i \in Index, SetOffer(x, i)
  PROVE  offers[x] \in Number /\ Promise!MakeOffer(x, Other(x), offers[x])
<1>1. /\ i = current[x] /\ Offering(x) /\ Arg(x, i) = offers[x] /\ offers[x] \in Number
  BY BusyWith DEF SetOffer
<1>2. Other(x) \in Peer /\ Other(x) # x
  BY OtherPeer
<1>3. ~HaveRemoteOffer(x, i)
  BY <1>1 DEF Offering, Steady, HaveRemoteOffer, Index
<1>4. PICK c : /\ c = [conns[x][i] EXCEPT !.pending = OfferOf(x)]
               /\ conns' = [conns EXCEPT ![x][i] = c]
  BY <1>1, <1>3 DEF SetOffer, OfferOf
<1>5. UNCHANGED <<current, answered>>
  BY DEF SetOffer, ghostVars
<1>6. Held(x) = conns[x][i] /\ Held(x)' = c /\ Held(Other(x))' = Held(Other(x))
  BY <1>1, <1>2, <1>4, <1>5, HeldSet
<1>7. c.pending = OfferOf(x) /\ c.local = Held(x).local /\ c.remote = Held(x).remote
  <2>1. conns[x][i] \in Conn
    BY Typed DEF Conns
  <2> QED
    BY <1>4, <1>6, <2>1 DEF Conn
<1>8. ~Waiting(x) /\ ~Waiting(Other(x))
  BY <1>1, <1>2, HeldStage DEF Offering
<1>9. Waiting(x)' /\ ~Waiting(Other(x))'
  <2>1. Waiting(x)'
    BY <1>1, <1>6, <1>7, HeldWaits, OfferIsSdp
  <2>2. ~Waiting(Other(x))'
    BY <1>2, <1>6, <1>8, HeldWaits
  <2> QED
    BY <2>1, <2>2
<1>10. Open = {} /\ Open' = {OfferOf(x)}
  BY <1>6, <1>7, <1>8, <1>9, OneOpen
<1>11. Sessions' = Sessions
  <2>1. \A y \in Peer : Held(y)'.local = Held(y).local /\ Held(y)'.remote = Held(y).remote
    BY <1>6, <1>7, TwoPeers
  <2> QED
    BY <2>1 DEF Sessions
<1>12. answered[Other(x)][offers[x]] = 0
  BY <1>1 DEF Offering, Unanswered
<1> QED
  BY <1>1, <1>5, <1>10, <1>11, <1>12 DEF Promise!MakeOffer, Promise!Offer, OfferOf

\* The answer is set and sent.
LEMMA SetAnswerPromise ==
  ASSUME TypeOK, CalmInv, calm, NEW x \in Peer, NEW i \in Index, SetAnswer(x, i)
  PROVE  \E p \in Peer, n \in Number : x \in Peer \ {p} /\ Promise!SendAnswer(p, x, n)
<1>1. PICK p, n : p = Other(x) /\ n = offers[p]
  OBVIOUS
<1>2. /\ i = current[x] /\ Answering(p) /\ x = Other(p) /\ Arg(x, i) = n /\ n \in Number
      /\ Awaits(x, OfferOf(p))
  BY <1>1, BusyWith DEF SetAnswer, AnswerSet
<1>3. p \in Peer /\ p # x
  BY <1>1, OtherPeer
<1>4. HaveRemoteOffer(x, i) /\ conns[x][i].pending = OfferOf(p)
  BY <1>1, <1>2, <1>3, OfferIsSdp DEF Awaits, HaveRemoteOffer, Stable
<1>5. PICK c : /\ c = [pending |-> NoSdp, remote |-> OfferOf(p),
                       local |-> [from |-> x, type |-> "answer", n |-> n]]
               /\ conns' = [conns EXCEPT ![x][i] = c]
  BY <1>2, <1>4 DEF SetAnswer, AnswerSet
<1>6. UNCHANGED current /\ answered' = [answered EXCEPT ![x][n] = @ + 1]
  BY <1>2, <1>4 DEF SetAnswer, AnswerSet
<1>7. answered' = [answered EXCEPT ![x][n] = 1] /\ answered[x][n] = 0
  <2>1. answered[x][n] = 0
    BY <1>1, <1>2 DEF Answering, Unanswered
  <2>2. answered \in [Peer -> [Number -> Nat]]
    BY DEF TypeOK
  <2> QED
    BY <1>2, <1>6, <2>1, <2>2
<1>8. Held(x)' = c /\ Held(p)' = Held(p)
  BY <1>2, <1>3, <1>5, <1>6, HeldSet
<1>9. Held(p).pending = OfferOf(p) /\ Held(x).pending = OfferOf(p)
  BY <1>2, <1>3, HeldStage DEF Answering
<1>10. OfferOf(p) # NoSdp /\ OfferOf(p).from = p
  BY <1>1, <1>2, <1>3, OfferIsSdp
<1>11. Waiting(p) /\ ~Waiting(x) /\ Waiting(p)' /\ ~Waiting(x)'
  <2>1. Held(x)'.pending = NoSdp
    BY <1>5, <1>8
  <2> QED
    BY <1>3, <1>8, <1>9, <1>10, <2>1, HeldWaits
<1>12. Open = {OfferOf(p)} /\ Open' = {OfferOf(p)}
  BY <1>2, <1>3, <1>8, <1>9, <1>11, OneOpen
<1>13. Sessions' = [Sessions EXCEPT ![x] =
           [local |-> [from |-> x, type |-> "answer", n |-> n], remote |-> OfferOf(p)]]
  <2>1. /\ Held(x)'.local = [from |-> x, type |-> "answer", n |-> n]
        /\ Held(x)'.remote = OfferOf(p)
    BY <1>5, <1>8
  <2> QED
    BY <1>1, <1>8, <2>1, SessionSet
<1>14. OfferOf(p) = Promise!Offer(p, n)
  BY <1>1 DEF OfferOf, Promise!Offer
<1>15. Promise!SendAnswer(p, x, n)
  BY <1>7, <1>12, <1>13, <1>14 DEF Promise!SendAnswer, Promise!AtAnswerer, Promise!Answer
<1> QED
  BY <1>2, <1>3, <1>15

\* The answer is taken.
LEMMA SetRemoteAnswerPromise ==
  ASSUME TypeOK, CalmInv, calm, NEW x \in Peer, NEW i \in Index, SetRemoteAnswer(x, i)
  PROVE  offers[x] \in Number /\ Promise!Conclude(x, Other(x), offers[x])
<1>1. /\ i = current[x] /\ Answered(x) /\ Arg(x, i) = offers[x] /\ offers[x] \in Number
  BY BusyWith DEF SetRemoteAnswer
<1>2. Other(x) \in Peer /\ Other(x) # x
  BY OtherPeer
<1>3. OfferOf(x) # NoSdp /\ OfferOf(x).from = x
  BY <1>1, OfferIsSdp
<1>4. /\ Awaits(x, OfferOf(x)) /\ conns[x][i].pending = OfferOf(x)
      /\ HasSession(Other(x), AnswerTo(x), OfferOf(x))
  BY <1>1 DEF Answered, Awaits
<1>5. HaveLocalOffer(x, i)
  BY <1>3, <1>4 DEF HaveLocalOffer, Stable
<1>6. PICK c : /\ c = [pending |-> NoSdp, local |-> OfferOf(x), remote |-> AnswerTo(x)]
               /\ conns' = [conns EXCEPT ![x][i] = c]
  <2>1. conns' = [conns EXCEPT ![x][i] = [pending |-> NoSdp, local |-> @.pending,
                       remote |-> [from |-> Other(x), type |-> "answer", n |-> Arg(x, i)]]]
    BY <1>5 DEF SetRemoteAnswer
  <2> QED
    BY <1>1, <1>4, <2>1 DEF AnswerTo
<1>7. UNCHANGED <<current, answered>>
  BY DEF SetRemoteAnswer, ghostVars
<1>8. Held(x)' = c /\ Held(Other(x))' = Held(Other(x))
  BY <1>1, <1>2, <1>6, <1>7, HeldSet
<1>9. /\ Held(x).pending = OfferOf(x) /\ ~Waiting(Other(x))
      /\ Held(Other(x)).local = AnswerTo(x) /\ Held(Other(x)).remote = OfferOf(x)
  BY <1>2, <1>4, HeldStage
<1>10. Waiting(x) /\ ~Waiting(x)' /\ ~Waiting(Other(x))'
  <2>1. Held(x)'.pending = NoSdp
    BY <1>6, <1>8
  <2> QED
    BY <1>2, <1>3, <1>8, <1>9, <2>1, HeldWaits
<1>11. Open = {OfferOf(x)} /\ Open' = {}
  BY <1>9, <1>10, OneOpen
<1>12. Sessions' = [Sessions EXCEPT ![x] = [local |-> OfferOf(x), remote |-> AnswerTo(x)]]
  <2>1. Held(x)'.local = OfferOf(x) /\ Held(x)'.remote = AnswerTo(x)
    BY <1>6, <1>8
  <2> QED
    BY <1>8, <2>1, SessionSet
<1>13. Sessions[Other(x)] = [local |-> AnswerTo(x), remote |-> OfferOf(x)]
  BY <1>2, <1>9 DEF Sessions
<1>14. /\ OfferOf(x) = Promise!Offer(x, offers[x])
       /\ AnswerTo(x) = Promise!Answer(Other(x), offers[x])
  BY DEF OfferOf, AnswerTo, Promise!Offer, Promise!Answer
<1> QED
  BY <1>1, <1>7, <1>11, <1>12, <1>13, <1>14
     DEF Promise!Conclude, Promise!AtAnswerer, Promise!AtOfferer

\* A new connection has no descriptions, and the remote offer is nobody's own.
LEMMA HiddenPromise ==
  ASSUME TypeOK, CalmInv, calm, NEW x \in Peer,
         \/ \E c \in creating[x] : ConnectionCreated(x, c)
         \/ \E i \in Index : SetRemoteOffer(x, i)
  PROVE  Open' = Open /\ Sessions' = Sessions
<1>1. Other(x) \in Peer /\ Other(x) # x /\ \A y \in Peer : y = x \/ y = Other(x)
  BY OtherPeer, TwoPeers
<1>2. CASE \E c \in creating[x] : ConnectionCreated(x, c)
  <2>1. PICK c \in creating[x] : ConnectionCreated(x, c)
    BY <1>2
  <2>2. /\ current[x] = 0 /\ created[x] = 0
        /\ \A i \in Index : conns[x][i] = NewConn
    BY <2>1 DEF CalmInv, OneConnection, Index
  <2>3. 1 \in Index /\ current' = [current EXCEPT ![x] = 1] /\ UNCHANGED conns
    BY <2>1, <2>2 DEF ConnectionCreated
  <2>4. current'[x] = 1 /\ current'[Other(x)] = current[Other(x)]
    BY <1>1, <2>3 DEF TypeOK
  <2>5. Held(x)' = Held(x) /\ Held(Other(x))' = Held(Other(x))
    BY <2>2, <2>3, <2>4 DEF Held
  <2> QED
    BY <1>1, <2>5, HeldKept
<1>3. ASSUME NEW i \in Index, SetRemoteOffer(x, i) PROVE Open' = Open /\ Sessions' = Sessions
  <2>1. i = current[x] /\ Steady(x) /\ i # 0
    BY <1>3, BusyWith DEF SetRemoteOffer, Index
  <2>2. ~HaveLocalOffer(x, i)
    BY <2>1 DEF Steady, HaveLocalOffer
  <2>3. PICK c, d : /\ d = [from |-> Other(x), type |-> "offer", n |-> Arg(x, i)]
                    /\ c = [conns[x][i] EXCEPT !.pending = d]
                    /\ conns' = [conns EXCEPT ![x][i] = c]
    BY <1>3, <2>2 DEF SetRemoteOffer
  <2>4. UNCHANGED current
    BY <1>3 DEF SetRemoteOffer
  <2>5. Held(x) = conns[x][i] /\ Held(x)' = c /\ Held(Other(x))' = Held(Other(x))
    BY <1>1, <2>1, <2>3, <2>4, HeldSet
  <2>6. /\ Held(x)'.pending.from # x
        /\ Held(x)'.local = Held(x).local /\ Held(x)'.remote = Held(x).remote
    <3>1. conns[x][i] \in Conn
      BY Typed DEF Conns
    <3> QED
      BY <1>1, <2>3, <2>5, <3>1 DEF Conn
  <2>7. ~Waiting(x) /\ ~Waiting(x)'
    BY <2>1, <2>6, HeldStage, HeldWaits
  <2>8. /\ Waiting(Other(x))' <=> Waiting(Other(x))
        /\ Held(Other(x))'.pending = Held(Other(x)).pending
    BY <1>1, <2>5, HeldWaits
  <2>9. Open' = Open
    BY <1>1, <2>7, <2>8 DEF Open
  <2>10. Sessions' = Sessions
    BY <1>1, <2>5, <2>6 DEF Sessions
  <2> QED
    BY <2>9, <2>10
<1> QED
  BY <1>2, <1>3

\* Only three steps of a calm negotiation show.
LEMMA PromiseStep ==
  ASSUME TypeOK, CalmInv, [Next]_vars, calm'
  PROVE  calm /\ (Promise!Negotiate \/ UNCHANGED <<Open, Sessions, answered>>)
<1>1. ASSUME UNCHANGED <<current, conns, answered>>
      PROVE  UNCHANGED <<Open, Sessions, answered>>
  BY <1>1, HeldKept DEF Held
<1>2. ASSUME NEW x \in Peer, Deliver(x) \/ Trigger(x) \/ CandidateFound(x)
      PROVE  calm /\ UNCHANGED <<Open, Sessions, answered>>
  <2>1. CASE BeginOffer(x)
    BY <1>1, <2>1 DEF BeginOffer, pcVars
  <2>2. CASE Reconnect(x) /\ ~BeginOffer(x)
    BY <1>1, <2>2 DEF Reconnect, pcVars
  <2>3. CASE OfferArrives(x) \/ AnswerArrives(x) \/ CandidateFound(x) \/ CandidateArrives(x)
    BY <1>1, <2>3 DEF OfferArrives, OfferEvent, AnswerArrives, CandidateFound,
                      CandidateArrives, pcVars, ghostVars
  <2> QED
    BY <1>2, <2>1, <2>2, <2>3
       DEF Deliver, Trigger, ParticipantJoined, WatchdogFires, RestartIce
<1>3. ASSUME NEW x \in Peer, NEW i \in Index,
             \/ CreateOffer(x, i) \/ SetOffer(x, i) \/ Rollback(x, i) \/ SetRemoteOffer(x, i)
             \/ CreateAnswer(x, i) \/ SetAnswer(x, i) \/ SetRemoteAnswer(x, i)
      PROVE  calm /\ (Promise!Negotiate \/ UNCHANGED <<Open, Sessions, answered>>)
  <2>1. calm
    BY <1>3 DEF CreateOffer, SetOffer, Rollback, SetRemoteOffer, CreateAnswer, SetAnswer,
                AnswerSet, SetRemoteAnswer
  <2>2. Other(x) \in Peer \ {x}
    BY OtherPeer
  <2>3. CASE SetOffer(x, i) \/ SetRemoteAnswer(x, i)
    <3>1. /\ offers[x] \in Number
          /\ \/ Promise!MakeOffer(x, Other(x), offers[x])
             \/ Promise!Conclude(x, Other(x), offers[x])
      BY <2>1, <2>3, SetOfferPromise, SetRemoteAnswerPromise
    <3> QED
      BY <2>1, <2>2, <3>1 DEF Promise!Negotiate
  <2>4. CASE SetAnswer(x, i)
    <3>1. PICK p \in Peer, n \in Number : x \in Peer \ {p} /\ Promise!SendAnswer(p, x, n)
      BY <2>1, <2>4, SetAnswerPromise
    <3> QED
      BY <2>1, <3>1 DEF Promise!Negotiate
  <2>5. CASE SetRemoteOffer(x, i)
    BY <2>1, <2>5, HiddenPromise DEF SetRemoteOffer, ghostVars
  <2>6. ~Rollback(x, i)
    BY <2>1, BusyWith DEF Rollback
  <2>7. CASE CreateOffer(x, i) \/ CreateAnswer(x, i)
    BY <1>1, <2>1, <2>7 DEF CreateOffer, CreateAnswer, pcVars, ghostVars
  <2> QED
    BY <1>3, <2>3, <2>4, <2>5, <2>6, <2>7
<1>4. ASSUME NEW x \in Peer, NEW c \in creating[x], ConnectionCreated(x, c)
      PROVE  calm /\ UNCHANGED <<Open, Sessions, answered>>
  <2>1. calm /\ UNCHANGED answered
    BY <1>4 DEF ConnectionCreated, ghostVars
  <2> QED
    BY <1>4, <2>1, HiddenPromise
<1>5. CASE UNCHANGED vars
  BY <1>1, <1>5 DEF vars, pcVars, ghostVars
<1>6. ASSUME NEW x \in Peer, NEW i \in Index, CandidateLookedUp(x, i)
      PROVE  calm /\ UNCHANGED <<Open, Sessions, answered>>
  BY <1>1, <1>6, LookupFrame DEF pcVars, ghostVars
<1> QED
  BY <1>2, <1>3, <1>4, <1>5, <1>6 DEF Next, Operate

-----------------------------------------------------------------------------
(* The theorems *)

LEMMA Negotiations == Spec => [](TypeOK /\ CalmInv /\ CandidatesWait)
BY TypeInit, TypeStep, BackedInit, BackedStep, CalmInit, CalmStep, WaitInit, WaitNext, PTL DEF Spec

\* However the two copies of an offer, the creation of connections and lost
\* sockets interleave, an offer that meets no other is answered at most once
\* (_handleOffer, _lastProcessedOfferSdp).
THEOREM Answers == Spec => []AnsweredOnce
<1>1. TypeOK /\ CalmInv => AnsweredOnce
  <2> SUFFICES ASSUME TypeOK, CalmInv, calm, NEW p \in Peer, NEW n \in Number
               PROVE  answered[p][n] <= 1
    BY DEF AnsweredOnce
  <2>1. Other(p) \in Peer /\ Other(Other(p)) = p
    BY OtherPeer, TwoPeers
  <2>2. OffersKnown(Other(p))
    BY <2>1 DEF CalmInv
  <2> QED
    BY <2>1, <2>2 DEF OffersKnown
<1> QED
  BY <1>1, Negotiations, PTL

\* Offers that do not meet end in one session, the same at both ends: what was
\* offered and what was answered to it.
THEOREM Agreement == Spec => []CalmAgrees
<1>1. TypeOK /\ CalmInv => CalmAgrees
  <2> SUFFICES ASSUME TypeOK, CalmInv, calm, Settled, NEW x \in Peer, offers[x] > 0
               PROVE  Agreed /\ \A p \in Peer : conns[p][current[p]].local # NoSdp
    BY DEF CalmAgrees
  <2>1. offers[x] # 0
    BY Typed
  <2>2. PICK p \in Peer : Negotiating(p)
    BY <2>1 DEF CalmInv, Unbegun
  <2>3. PICK q : q = Other(p)
    OBVIOUS
  <2>4. /\ q \in Peer /\ q # p /\ p = Other(q)
        /\ \A y \in Peer : y = p \/ y = q
    BY <2>3, OtherPeer, TwoPeers
  <2>5. offers[p] \in Number
    BY <2>2 DEF Negotiating
  <2>6. \A y \in Peer : Free(y) /\ Steady(y)
    BY SettledIsQuiet, Typed
  <2>7. ~Awaits(p, OfferOf(p))
    BY <2>5, <2>6, OfferIsSdp DEF Awaits, Steady, Stable
  <2>8. \A task, op, n : ~Creates(p, task, n) /\ ~Does(p, op, n)
    <3>1. \A task, n : ~Creates(p, task, n)
      BY <2>6 DEF Free, Creates
    <3>2. current[p] # 0 => ops[p][current[p]] = <<>>
      BY <2>6, Typed DEF Free
    <3>3. ASSUME NEW op, NEW n PROVE ~Does(p, op, n)
      <4>1. PICK e : e = [op |-> op, n |-> n]
        OBVIOUS
      <4>2. <<e>> # <<>>
        OBVIOUS
      <4> QED
        BY <3>2, <4>1, <4>2 DEF Does
    <3> QED
      BY <3>1, <3>3
  <2>9. Concluded(p)
    BY <2>2, <2>7, <2>8 DEF Negotiating, Offering, Offered, Answering, Answered
  <2>10. /\ HasSession(p, OfferOf(p), AnswerTo(p)) /\ HasSession(q, AnswerTo(p), OfferOf(p))
    BY <2>3, <2>9 DEF Concluded
  <2>11. OfferOf(p) # NoSdp /\ AnswerTo(p) # NoSdp
    <3>1. AnswerTo(p) \in Sdp
      BY <2>3, <2>4, <2>5 DEF AnswerTo, Sdp
    <3> QED
      BY <2>5, <3>1, OfferIsSdp, NoSdpAssumption
  <2>12. Agreed
    BY <2>3, <2>4, <2>10 DEF Agreed, HasSession
  <2> QED
    BY <2>4, <2>10, <2>11, <2>12 DEF HasSession
<1> QED
  BY <1>1, Negotiations, PTL

\* As long as offers do not meet, the two clients with their handlers, queues,
\* connections and lost sockets, and the relay with its copies, implement the
\* negotiation of OfferAnswer: one offer at a time, answered once, whose session
\* the answerer has first and the offerer next (_createOffer, _handleOffer, the
\* webrtc:answer handler).
THEOREM Negotiates == Spec => ImplementsOfferAnswer
<1>1. Init => Promise!Init
  <2> SUFFICES ASSUME Init PROVE Promise!Init
    OBVIOUS
  <2>1. \A x \in Peer : Held(x) = NewConn
    BY DEF Init, Held
  <2>2. Open = {}
    BY <2>1, HeldWaits DEF Open, NewConn
  <2>3. Sessions = [x \in Peer |-> [local |-> NoSdp, remote |-> NoSdp]]
    BY <2>1 DEF Sessions, NewConn
  <2> QED
    BY <2>2, <2>3 DEF Init, Promise!Init
<1>2. TypeOK /\ TypeOK' /\ CalmInv /\ [Next]_vars => [Promise!Next]_(Promise!vars)
  <2> SUFFICES ASSUME TypeOK, TypeOK', CalmInv, [Next]_vars
               PROVE  [Promise!Next]_(Promise!vars)
    OBVIOUS
  <2>1. calm \in BOOLEAN /\ calm' \in BOOLEAN
    BY DEF TypeOK
  <2>2. CASE ~calm'
    BY <2>1, <2>2 DEF Promise!Next
  <2>3. CASE calm'
    <3>1. calm /\ (Promise!Negotiate \/ UNCHANGED <<Open, Sessions, answered>>)
      BY <2>3, PromiseStep
    <3>2. UNCHANGED calm
      BY <2>1, <2>3, <3>1
    <3>3. CASE Promise!Negotiate
      BY <3>1, <3>2, <3>3 DEF Promise!Next
    <3>4. CASE UNCHANGED <<Open, Sessions, answered>>
      BY <3>2, <3>4 DEF Promise!vars
    <3> QED
      BY <3>1, <3>3, <3>4
  <2> QED
    BY <2>2, <2>3
<1> QED
  BY <1>1, <1>2, Negotiations, PTL DEF Spec, ImplementsOfferAnswer, Promise!Spec

\* Offers that do not meet create one connection at either end.
THEOREM Connections == Spec => []CalmConnectsOnce
<1>1. CalmInv => CalmConnectsOnce
  BY DEF CalmInv, OneConnection, CalmConnectsOnce
<1> QED
  BY <1>1, Negotiations, PTL

\* In calm negotiations a candidate is looked up for the one connection there is.
LEMMA CalmLookup ==
  ASSUME TypeOK, CalmInv, CandidatesWait, [Next]_vars, calm', NEW p \in Peer, NEW i \in Index,
         looking'[p][i] < looking[p][i]
  PROVE  i = current'[p]
<1>0. looking \in [Peer -> [Index -> Nat]]
  BY DEF TypeOK
<1>1. ~(looking' = looking)
  BY <1>0
<1>2. ASSUME NEW x \in Peer, CandidateArrives(x) PROVE FALSE
  <2>1. looking' = [looking EXCEPT ![x][current[x]] = @ + 1]
    BY <1>1, <1>2 DEF CandidateArrives
  <2>2. looking'[p][i] = looking[p][i] \/ looking'[p][i] = looking[p][i] + 1
    BY <1>0, <2>1
  <2> QED
    BY <1>0, <2>2
<1>3. ASSUME NEW x \in Peer, Deliver(x) \/ Trigger(x) \/ CandidateFound(x) PROVE FALSE
  BY <1>1, <1>2, <1>3
     DEF Deliver, Trigger, ParticipantJoined, OfferArrives, OfferEvent, AnswerArrives,
         CandidateFound, WatchdogFires, RestartIce, Reconnect, iceVars
<1>4. ASSUME NEW x \in Peer, Operate(x) \/ \E c \in creating[x] : ConnectionCreated(x, c)
      PROVE  FALSE
  BY <1>1, <1>4
     DEF Operate, CreateOffer, SetOffer, Rollback, SetRemoteOffer, CreateAnswer, SetAnswer,
         AnswerSet, SetRemoteAnswer, ConnectionCreated, iceVars
<1>5. PICK x \in Peer, j \in Index : CandidateLookedUp(x, j)
  BY <1>1, <1>3, <1>4 DEF Next, vars, iceVars
<1>6. calm /\ UNCHANGED <<current, created>>
  BY <1>5, LookupFrame DEF pcVars
<1>7. looking[p][i] > 0
  <2>1. looking'[p][i] \in Nat
    BY <1>5, LookedUpTyped DEF TypeOK
  <2> QED
    BY <1>0, <2>1
<1>8. i <= created[p] /\ current[p] = created[p] /\ created[p] <= 1
  BY <1>6, <1>7 DEF CandidatesWait, LookupsFirst, Untouched, CalmInv, OneConnection
<1> QED
  BY <1>6, <1>8, Typed DEF Index

\* What is drained there goes to that connection, which has its remote description.
LEMMA CalmDrain ==
  ASSUME TypeOK, CalmInv, CandidatesWait, [Next]_vars, calm', NEW p \in Peer,
         "early" \in buffered[p] \ buffered'[p]
  PROVE  Described(p, current[p])'
<1>0. buffered \in [Peer -> SUBSET Kind] /\ ~(buffered' = buffered)
  BY DEF TypeOK
<1>1. ASSUME NEW x \in Peer, NEW kind, Buffer(x, kind) PROVE FALSE
  BY <1>0, <1>1 DEF Buffer
<1>2. ASSUME NEW x \in Peer,
             \/ Deliver(x) \/ Trigger(x) \/ CandidateFound(x)
             \/ \E i \in Index : CandidateLookedUp(x, i)
      PROVE  FALSE
  BY <1>0, <1>1, <1>2
     DEF Deliver, Trigger, ParticipantJoined, OfferArrives, OfferEvent, AnswerArrives,
         CandidateArrives, CandidateLookedUp, CandidateFound, WatchdogFires, RestartIce,
         Reconnect, iceVars
<1>3. PICK x \in Peer, i \in Index : SetAnswer(x, i) \/ SetRemoteAnswer(x, i)
  <2>1. ASSUME NEW x \in Peer, NEW c \in creating[x], ConnectionCreated(x, c) PROVE FALSE
    BY <1>0, <2>1 DEF ConnectionCreated, iceVars
  <2>2. PICK x \in Peer : Operate(x)
    BY <1>0, <1>2, <2>1 DEF Next, vars, iceVars
  <2>3. ASSUME NEW i \in Index,
               \/ CreateOffer(x, i) \/ SetOffer(x, i) \/ Rollback(x, i)
               \/ SetRemoteOffer(x, i) \/ CreateAnswer(x, i)
        PROVE  FALSE
    BY <1>0, <2>3 DEF CreateOffer, SetOffer, Rollback, SetRemoteOffer, CreateAnswer, iceVars
  <2> QED
    BY <2>2, <2>3 DEF Operate
<1>4. Drain(x)
  BY <1>0, <1>3 DEF SetAnswer, AnswerSet, SetRemoteAnswer, iceVars
<1>5. x = p
  BY <1>0, <1>4 DEF Drain
<1>6. calm /\ UNCHANGED current
  BY <1>3 DEF SetAnswer, AnswerSet, SetRemoteAnswer
<1>7. i = current[p]
  <2>1. i <= created[p]
    BY <1>3, <1>5, RunningCreated DEF SetAnswer, AnswerSet, SetRemoteAnswer
  <2>2. current[p] = created[p] /\ created[p] <= 1
    BY <1>6 DEF CandidatesWait, Untouched, CalmInv, OneConnection
  <2> QED
    BY <2>1, <2>2, Typed DEF Index
<1>8. conns'[p][i].remote # NoSdp
  <2>1. CASE SetAnswer(x, i)
    <3>1. HaveRemoteOffer(p, i)
      BY <1>0, <1>5, <2>1 DEF SetAnswer, AnswerSet, iceVars
    <3>2. conns' = [conns EXCEPT ![p][i] =
              [pending |-> NoSdp, remote |-> conns[p][i].pending,
               local |-> [from |-> p, type |-> "answer", n |-> Arg(p, i)]]]
      BY <1>5, <2>1, <3>1 DEF SetAnswer, AnswerSet
    <3>3. conns'[p][i].remote = conns[p][i].pending
      BY <3>2, Typed DEF Conns
    <3> QED
      BY <3>1, <3>3 DEF HaveRemoteOffer, Stable
  <2>2. CASE SetRemoteAnswer(x, i)
    <3>1. HaveLocalOffer(p, i)
      BY <1>0, <1>5, <2>2 DEF SetRemoteAnswer
    <3>2. conns' = [conns EXCEPT ![p][i] =
              [pending |-> NoSdp, local |-> conns[p][i].pending,
               remote |-> [from |-> Other(p), type |-> "answer", n |-> Arg(p, i)]]]
      BY <1>5, <2>2, <3>1 DEF SetRemoteAnswer
    <3>3. conns'[p][i].remote = [from |-> Other(p), type |-> "answer", n |-> Arg(p, i)]
      BY <3>2, Typed DEF Conns
    <3>4. Arg(p, i) \in Number
      BY <1>5, <2>2, RunningTyped DEF SetRemoteAnswer, TypeOK, Queues
    <3>5. conns'[p][i].remote \in Sdp
      BY <3>3, <3>4, OtherPeer DEF Sdp
    <3> QED
      BY <3>5, NoSdpAssumption
  <2> QED
    BY <1>3, <2>1, <2>2
<1> QED
  BY <1>6, <1>7, <1>8 DEF Described

\* Whatever collides or is lost, an early candidate does not stay in the buffer of a
\* connection that has its remote description once things are settled, and as long
\* as offers do not meet it leaves the buffer only for such a connection
\* (_pendingCandidates, _drainPendingCandidates and the webrtc:candidate handler;
\* what a connection refuses is not among what is promised).
THEOREM Candidates == Spec => NoCandidateStranded
<1> DEFINE Kept == \A p \in Peer :
               Settled /\ current[p] # 0 /\ conns[p][current[p]].remote # NoSdp =>
                   "early" \notin buffered[p]
           Handed == calm' => \A p \in Peer :
               /\ \A i \in Index : looking'[p][i] < looking[p][i] => i = current'[p]
               /\ "early" \in buffered[p] \ buffered'[p] => Described(p, current[p])'
<1>1. CandidatesWait => Kept
  BY DEF CandidatesWait, EarlyWaits
<1>2. TypeOK /\ CalmInv /\ CandidatesWait /\ [Next]_vars => [Handed]_vars
  BY CalmLookup, CalmDrain
<1> HIDE DEF Kept, Handed
<1>3. Spec => []Kept /\ [][Handed]_vars
  BY <1>1, <1>2, Negotiations, PTL DEF Spec
<1> QED
  BY <1>3 DEF NoCandidateStranded, Kept, Handed

\* Duplicates, offers that collide and operations that are rejected never leave
\* one of the two waiting for an answer that nobody will send: as long as no
\* socket is lost, a connection with a pending offer means that something is
\* still to be done (_createOffer, _handleOffer and the webrtc:answer handler).
THEOREM Waits == Spec => []NobodyWaitsInVain
<1>1. Init => LifeInv /\ WaitInv
  BY LifeInit, ServedInit
<1>2. TypeOK /\ CandidatesWait /\ LifeInv /\ WaitInv /\ [Next]_vars => (LifeInv /\ WaitInv)'
  BY LifeNext, ServedNext
<1>3. TypeOK /\ LifeInv /\ WaitInv => NobodyWaitsInVain
  BY IdleWaits
<1> QED
  BY <1>1, <1>2, <1>3, Negotiations, PTL DEF Spec

=============================================================================
