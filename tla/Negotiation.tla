------------------------------ MODULE Negotiation ------------------------------
(***************************************************************************)
(* Offer / answer negotiation between two clients of a call                 *)
(* (webrtc_call_service.dart) over the relay of videoHandler.ts.            *)
(*                                                                         *)
(* A client is one Dart isolate: a handler runs from await to await.  What  *)
(* it awaits is an operation of an RTCPeerConnection, which runs the        *)
(* operations requested of it one after the other, or the creation of the   *)
(* connection itself, which first waits for camera and microphone.  One     *)
(* pair of a mesh is modelled: everything is keyed by the peer's id.        *)
(***************************************************************************)
EXTENDS Naturals, Sequences, FiniteSets
CONSTANTS
    Peer,          \* the two users
    First,         \* who was in the room first, and hears the other one join
    NoSdp,         \* no description
    MaxOffers,     \* offers the two may make between them
    MaxConns,      \* connections a peer may create
    MaxCandidates, \* candidates that may be under way at once
    MaxReconnects  \* times the socket of a peer may be lost and come back

ASSUME ConstantsAssumption ==
    /\ IsFiniteSet(Peer) /\ Cardinality(Peer) = 2
    /\ First \in Peer
    /\ MaxOffers \in Nat /\ MaxConns \in Nat
    /\ MaxCandidates \in Nat /\ MaxReconnects \in Nat

VARIABLES
    connected,  \* whether _callState is connected
    current,    \* _peerConnections[peer]: index of a connection, 0 if there is none
    created,    \* connections created so far
    conns,      \* the descriptions of every connection
    ops,        \* operations requested of every connection and not yet done
    creating,   \* handlers suspended in _createPeerConnectionForPeer
    making,     \* _makingOffer[peer]
    watchdog,   \* whether _offerWatchdogTimers[peer] is running
    offers,     \* offers started so far, which number them
    lastOffer,  \* number of the offer in _lastProcessedOfferSdp[peer], 0 if none
    lastAnswer, \* the same of _lastProcessedAnswerSdp[peer]
    buffered,   \* the kinds of candidates in _pendingCandidates[peer]
    looking,    \* looking[p][i]: webrtc:candidate handlers that await the remote
                \* description of connection i
    gathering,  \* a candidate of the local description is still to come
    chan,       \* events on their way to a peer, in order
    reconnects, \* reconnections so far
    answered,   \* answered[p][n]: answers p has sent to offer n
    calm        \* no offer was started while another negotiation was going on

pcVars == <<current, created, conns>>
stateVars == <<making, watchdog, offers, lastOffer, lastAnswer>>
iceVars == <<buffered, looking, gathering>>
ghostVars == <<connected, reconnects, answered>>
vars == <<pcVars, ops, creating, stateVars, iceVars, chan, ghostVars, calm>>

-----------------------------------------------------------------------------
(* Types *)

Other(p) == CHOOSE q \in Peer : q # p

Number == 1 .. MaxOffers
Index == 1 .. MaxConns

\* The answer n of a peer answers the offer n of the other.
Sdp == [from : Peer, type : {"offer", "answer"}, n : Number]
ASSUME NoSdpAssumption == NoSdp \notin Sdp

\* signalingState is stable without a pending offer, have-local-offer or
\* have-remote-offer with one; local and remote are what was negotiated last.
Conn == [pending : Sdp \cup {NoSdp}, local : Sdp \cup {NoSdp}, remote : Sdp \cup {NoSdp}]

NewConn == [pending |-> NoSdp, local |-> NoSdp, remote |-> NoSdp]

\* createOffer and setOffer belong to _createOffer, the next four to
\* _handleOffer, the last to the webrtc:answer handler.
Op == [op : {"createOffer", "setOffer", "rollback", "setRemoteOffer",
             "createAnswer", "setAnswer", "setRemoteAnswer"}, n : Number]

Joined == [type |-> "joined", n |-> 0]
Candidate == [type |-> "candidate", n |-> 0]
Msg == {Joined, Candidate} \cup [type : {"offer", "answer"}, n : Number]

\* A buffered candidate is early, no connection having had it, or was refused by
\* a connection that had its remote description.
Kind == {"early", "refused"}

TypeOK ==
    /\ connected \in [Peer -> BOOLEAN]
    /\ current \in [Peer -> 0 .. MaxConns]
    /\ created \in [Peer -> 0 .. MaxConns]
    /\ conns \in [Peer -> [Index -> Conn]]
    /\ ops \in [Peer -> [Index -> Seq(Op)]]
    /\ creating \in [Peer -> SUBSET [task : {"offer", "handle"}, n : Number]]
    /\ making \in [Peer -> BOOLEAN]
    /\ watchdog \in [Peer -> BOOLEAN]
    /\ offers \in [Peer -> 0 .. MaxOffers]
    /\ lastOffer \in [Peer -> 0 .. MaxOffers]
    /\ lastAnswer \in [Peer -> 0 .. MaxOffers]
    /\ buffered \in [Peer -> SUBSET Kind]
    /\ looking \in [Peer -> [Index -> Nat]]
    /\ gathering \in [Peer -> BOOLEAN]
    /\ chan \in [Peer -> Seq(Msg)]
    /\ reconnects \in 0 .. MaxReconnects
    /\ answered \in [Peer -> [Number -> Nat]]
    /\ calm \in BOOLEAN

\* The second peer has had its room:joined with the first in it; the first is
\* about to get room:participant_joined.
Init ==
    /\ connected = [p \in Peer |-> p # First]
    /\ current = [p \in Peer |-> 0]
    /\ created = [p \in Peer |-> 0]
    /\ conns = [p \in Peer |-> [i \in Index |-> NewConn]]
    /\ ops = [p \in Peer |-> [i \in Index |-> <<>>]]
    /\ creating = [p \in Peer |-> {}]
    /\ making = [p \in Peer |-> FALSE]
    /\ watchdog = [p \in Peer |-> p # First]
    /\ offers = [p \in Peer |-> 0]
    /\ lastOffer = [p \in Peer |-> 0]
    /\ lastAnswer = [p \in Peer |-> 0]
    /\ buffered = [p \in Peer |-> {}]
    /\ looking = [p \in Peer |-> [i \in Index |-> 0]]
    /\ gathering = [p \in Peer |-> FALSE]
    /\ chan = [p \in Peer |-> IF p = First THEN <<Joined>> ELSE <<>>]
    /\ reconnects = 0
    /\ answered = [p \in Peer |-> [n \in Number |-> 0]]
    /\ calm = TRUE

-----------------------------------------------------------------------------
(* The relay *)

\* webrtc:offer and webrtc:answer are emitted to the target's user room and to
\* the call room, and the target is in both: it gets them twice in a row.
Relayed(type, n) == <<[type |-> type, n |-> n], [type |-> type, n |-> n]>>

\* p sends a description; a candidate that belongs to it is still to come.
SendSdp(p, type, n) ==
    /\ chan' = [chan EXCEPT ![Other(p)] = @ \o Relayed(type, n)]
    /\ gathering' = [gathering EXCEPT ![p] = TRUE]

Arrives(p, type) == chan[p] # <<>> /\ Head(chan[p]).type = type

Consume(p) == chan' = [chan EXCEPT ![p] = Tail(@)]

-----------------------------------------------------------------------------
(* Operations of a connection *)

Stable(p, i) == conns[p][i].pending = NoSdp
HaveLocalOffer(p, i) == ~Stable(p, i) /\ conns[p][i].pending.from = p
HaveRemoteOffer(p, i) == ~Stable(p, i) /\ conns[p][i].pending.from # p

\* getRemoteDescription is not null.
Described(p, i) == HaveRemoteOffer(p, i) \/ conns[p][i].remote # NoSdp

Request(p, i, op, n) ==
    ops' = [ops EXCEPT ![p][i] = Append(@, [op |-> op, n |-> n])]

Running(p, i, op) == ops[p][i] # <<>> /\ Head(ops[p][i]).op = op
Arg(p, i) == Head(ops[p][i]).n

\* The running operation is done; its handler requests the next or ends.
Proceed(p, i, op, n) ==
    ops' = [ops EXCEPT ![p][i] = Append(Tail(@), [op |-> op, n |-> n])]
Finish(p, i) == ops' = [ops EXCEPT ![p][i] = Tail(@)]

-----------------------------------------------------------------------------
(* _createOffer *)

\* Nothing is negotiated or about to be, and nobody waits for an answer.
Settled ==
    \A p \in Peer :
        /\ creating[p] = {}
        /\ \A i \in Index : ops[p][i] = <<>> /\ (i = current[p] => Stable(p, i))
        /\ \A k \in DOMAIN chan[p] : chan[p][k].type \notin {"offer", "answer"}

\* _createOffer up to its first await.  An existing connection must be stable;
\* if it is not, the finally clause resets _makingOffer, whoever set it.
BeginOffer(p) ==
    LET n == offers[p] + 1
        start == /\ n \in Number
                 /\ offers' = [offers EXCEPT ![p] = n]
                 /\ making' = [making EXCEPT ![p] = TRUE]
                 /\ calm' = (calm /\ Settled)
    IN  /\ watchdog' = [watchdog EXCEPT ![p] = FALSE]
        /\ \/ /\ current[p] = 0
              /\ start
              /\ creating' = [creating EXCEPT ![p] = @ \cup {[task |-> "offer", n |-> n]}]
              /\ UNCHANGED ops
           \/ /\ current[p] # 0 /\ Stable(p, current[p])
              /\ start
              /\ Request(p, current[p], "createOffer", n)
              /\ UNCHANGED creating
           \/ /\ current[p] # 0 /\ ~Stable(p, current[p])
              /\ making' = [making EXCEPT ![p] = FALSE]
              /\ UNCHANGED <<offers, ops, creating, calm>>
        /\ UNCHANGED <<pcVars, lastOffer, lastAnswer, answered>>

\* The bound on offers leaves room for k more, and for one in answer to every
\* room:participant_joined on its way.
RoomFor(k) ==
    LET joinedTo(p) == Cardinality({i \in DOMAIN chan[p] : chan[p][i] = Joined})
        q == Other(First)
    IN  offers[First] + offers[q] + joinedTo(First) + joinedTo(q) + k <= MaxOffers

\* room:participant_joined: an offer to a new peer, an ICE restart with a known one.
ParticipantJoined(p) ==
    /\ Arrives(p, "joined")
    /\ Consume(p)
    /\ connected' = [connected EXCEPT ![p] = @ \/ current[p] = 0]
    /\ BeginOffer(p)
    /\ UNCHANGED <<iceVars, reconnects>>

\* Six seconds after room:joined there is no connection.
WatchdogFires(p) ==
    /\ watchdog[p]
    /\ current[p] = 0
    /\ RoomFor(1)
    /\ BeginOffer(p)
    /\ UNCHANGED <<chan, iceVars, connected, reconnects>>

\* ICE of a negotiated connection failed, or was disconnected for 3.5 seconds.
RestartIce(p) ==
    /\ current[p] # 0
    /\ conns[p][current[p]].remote # NoSdp
    /\ RoomFor(1)
    /\ BeginOffer(p)
    /\ UNCHANGED <<chan, iceVars, connected, reconnects>>

\* p's socket is lost, with what was on its way to p, and comes back.  In a
\* connected call p joins the room again, of which the other is told, and
\* restarts ICE; or, if it has no connection yet, the room:joined it gets starts
\* the watchdog again.
Reconnect(p) ==
    /\ reconnects < MaxReconnects
    /\ reconnects' = reconnects + 1
    /\ \/ /\ ~connected[p]
          /\ chan' = [chan EXCEPT ![p] = <<>>]
          /\ UNCHANGED <<pcVars, ops, creating, stateVars, answered, calm>>
       \/ /\ connected[p]
          /\ chan' = [chan EXCEPT ![p] = <<>>, ![Other(p)] = Append(@, Joined)]
          /\ RoomFor(2)
          /\ \/ /\ current[p] # 0
                /\ BeginOffer(p)
             \/ /\ current[p] = 0
                /\ watchdog' = [watchdog EXCEPT ![p] = TRUE]
                /\ UNCHANGED <<pcVars, ops, creating, making, offers, lastOffer,
                               lastAnswer, answered, calm>>
    /\ UNCHANGED <<iceVars, connected>>

CreateOffer(p, i) ==
    /\ Running(p, i, "createOffer")
    /\ Proceed(p, i, "setOffer", Arg(p, i))
    /\ UNCHANGED <<pcVars, creating, stateVars, iceVars, chan, ghostVars, calm>>

\* Mutants of SetOffer: the offer is sent without being set; _makingOffer is
\* not reset when setLocalDescription throws.
SetOfferUnset(p, i) ==
    /\ Running(p, i, "setOffer")
    /\ SendSdp(p, "offer", Arg(p, i))
    /\ Finish(p, i)
    /\ making' = [making EXCEPT ![p] = FALSE]
    /\ UNCHANGED <<pcVars, creating, buffered, looking, watchdog, offers, lastOffer,
                   lastAnswer, ghostVars, calm>>
SetOfferNoFinally(p, i) ==
    /\ Running(p, i, "setOffer")
    /\ \/ /\ HaveRemoteOffer(p, i)
          /\ UNCHANGED <<conns, chan, gathering, making>>
       \/ /\ ~HaveRemoteOffer(p, i)
          /\ conns' = [conns EXCEPT ![p][i].pending =
                [from |-> p, type |-> "offer", n |-> Arg(p, i)]]
          /\ SendSdp(p, "offer", Arg(p, i))
          /\ making' = [making EXCEPT ![p] = FALSE]
    /\ Finish(p, i)
    /\ UNCHANGED <<current, created, creating, buffered, looking, watchdog, offers,
                   lastOffer, lastAnswer, ghostVars, calm>>

\* setLocalDescription(offer): sent if it is accepted; a connection with a
\* remote offer rejects it, which the handler catches.
SetOffer(p, i) ==
    /\ Running(p, i, "setOffer")
    /\ \/ /\ HaveRemoteOffer(p, i)
          /\ UNCHANGED <<conns, chan, gathering>>
       \/ /\ ~HaveRemoteOffer(p, i)
          /\ conns' = [conns EXCEPT ![p][i].pending =
                [from |-> p, type |-> "offer", n |-> Arg(p, i)]]
          /\ SendSdp(p, "offer", Arg(p, i))
    /\ Finish(p, i)
    /\ making' = [making EXCEPT ![p] = FALSE]
    /\ UNCHANGED <<current, created, creating, buffered, looking, watchdog, offers,
                   lastOffer, lastAnswer, ghostVars, calm>>

-----------------------------------------------------------------------------
(* _handleOffer *)

\* With its connection at hand _handleOffer rolls back its own offer, or goes
\* straight to setRemoteDescription.
AcceptStep(p, collision, i, n) ==
    IF collision THEN Request(p, i, "rollback", n) ELSE Request(p, i, "setRemoteOffer", n)

\* Mutant of NewOffer: an existing connection is not looked for.
NewOfferUntested(p, n) ==
    /\ lastOffer' = [lastOffer EXCEPT ![p] = n]
    /\ watchdog' = [watchdog EXCEPT ![p] = FALSE]
    /\ creating' = [creating EXCEPT ![p] = @ \cup {[task |-> "handle", n |-> n]}]
    /\ UNCHANGED ops

\* The handler of an offer that is new to p.
NewOffer(p, n) ==
    /\ lastOffer' = [lastOffer EXCEPT ![p] = n]
    /\ watchdog' = [watchdog EXCEPT ![p] = FALSE]
    /\ \/ /\ current[p] = 0
          /\ creating' = [creating EXCEPT ![p] = @ \cup {[task |-> "handle", n |-> n]}]
          /\ UNCHANGED ops
       \/ /\ current[p] # 0
          /\ AcceptStep(p, making[p] \/ HaveLocalOffer(p, current[p]), current[p], n)
          /\ UNCHANGED creating

\* webrtc:offer; fresh says whether the handler takes the offer for a new one.
OfferEvent(p, fresh) ==
    /\ Arrives(p, "offer")
    /\ Consume(p)
    /\ \/ /\ fresh
          /\ NewOffer(p, Head(chan[p]).n)
       \/ /\ ~fresh
          /\ watchdog' = [watchdog EXCEPT ![p] = FALSE]
          /\ UNCHANGED <<lastOffer, ops, creating>>
    /\ UNCHANGED <<pcVars, making, offers, lastAnswer, iceVars, ghostVars, calm>>

\* Mutants of OfferArrives: duplicates are not recognised; every later offer is
\* taken for a duplicate.
OfferUndeduplicated(p) == OfferEvent(p, TRUE)
OfferOnlyFirst(p) == OfferEvent(p, lastOffer[p] = 0)

OfferArrives(p) ==
    /\ chan[p] # <<>>
    /\ OfferEvent(p, lastOffer[p] # Head(chan[p]).n)

\* A connection is created for a suspended handler, and takes the place of the
\* one that another handler may have created meanwhile.
ConnectionCreated(p, c) ==
    LET i == created[p] + 1
    IN  /\ i \in Index
        /\ created' = [created EXCEPT ![p] = i]
        /\ current' = [current EXCEPT ![p] = i]
        /\ creating' = [creating EXCEPT ![p] = @ \ {c}]
        /\ \/ c.task = "offer" /\ Request(p, i, "createOffer", c.n)
           \/ c.task = "handle" /\ AcceptStep(p, making[p], i, c.n)
        /\ UNCHANGED <<conns, stateVars, iceVars, chan, ghostVars, calm>>

\* Mutant of Rollback: the rollback is set like any other description.
RollbackAsDescription(p, i) ==
    /\ Running(p, i, "rollback")
    /\ conns' = [conns EXCEPT ![p][i].pending =
          [from |-> p, type |-> "rollback", n |-> Arg(p, i)]]
    /\ Proceed(p, i, "setRemoteOffer", Arg(p, i))
    /\ UNCHANGED <<current, created, creating, stateVars, iceVars, chan, ghostVars, calm>>

\* The offer of p is dropped; without one the rollback throws, and is caught.
Rollback(p, i) ==
    /\ Running(p, i, "rollback")
    /\ conns' = [conns EXCEPT ![p][i].pending = NoSdp]
    /\ Proceed(p, i, "setRemoteOffer", Arg(p, i))
    /\ UNCHANGED <<current, created, creating, stateVars, iceVars, chan, ghostVars, calm>>

\* setRemoteDescription(offer), rejected by a connection with a local offer.
SetRemoteOffer(p, i) ==
    /\ Running(p, i, "setRemoteOffer")
    /\ \/ /\ HaveLocalOffer(p, i)
          /\ Finish(p, i)
          /\ UNCHANGED conns
       \/ /\ ~HaveLocalOffer(p, i)
          /\ conns' = [conns EXCEPT ![p][i].pending =
                [from |-> Other(p), type |-> "offer", n |-> Arg(p, i)]]
          /\ Proceed(p, i, "createAnswer", Arg(p, i))
    /\ UNCHANGED <<current, created, creating, stateVars, iceVars, chan, ghostVars, calm>>

\* createAnswer answers the offer that is pending, and throws without one.
CreateAnswer(p, i) ==
    /\ Running(p, i, "createAnswer")
    /\ \/ HaveRemoteOffer(p, i) /\ Proceed(p, i, "setAnswer", conns[p][i].pending.n)
       \/ ~HaveRemoteOffer(p, i) /\ Finish(p, i)
    /\ UNCHANGED <<pcVars, creating, stateVars, iceVars, chan, ghostVars, calm>>

\* _drainPendingCandidates: the buffer is emptied before its candidates are added,
\* one after the other, to the connection p has by now; what that connection
\* refuses is lost, and nothing else changes.
Drain(p) == buffered' = [buffered EXCEPT ![p] = {}]

\* setLocalDescription(answer), after which the answer is sent and, if drain,
\* the buffer is drained.
AnswerSet(p, i, drain) ==
    /\ Running(p, i, "setAnswer")
    /\ Finish(p, i)
    /\ \/ /\ ~HaveRemoteOffer(p, i)
          /\ UNCHANGED <<conns, chan, iceVars, answered>>
       \/ /\ HaveRemoteOffer(p, i)
          /\ conns' = [conns EXCEPT ![p][i] =
                [pending |-> NoSdp, remote |-> @.pending,
                 local |-> [from |-> p, type |-> "answer", n |-> Arg(p, i)]]]
          /\ SendSdp(p, "answer", Arg(p, i))
          /\ answered' = [answered EXCEPT ![p][Arg(p, i)] = @ + 1]
          /\ IF drain THEN Drain(p) ELSE UNCHANGED buffered
          /\ UNCHANGED looking
    /\ UNCHANGED <<current, created, creating, stateVars, connected, reconnects, calm>>

\* Mutant of SetAnswer: the candidates stay in the buffer.
SetAnswerNoDrain(p, i) == AnswerSet(p, i, FALSE)
SetAnswer(p, i) == AnswerSet(p, i, TRUE)

-----------------------------------------------------------------------------
(* webrtc:answer and webrtc:candidate *)

\* A duplicate, an answer without a connection and an answer without an offer
\* that waits for it are skipped.
AnswerArrives(p) ==
    /\ Arrives(p, "answer")
    /\ Consume(p)
    /\ LET n == Head(chan[p]).n
       IN  /\ lastAnswer' = [lastAnswer EXCEPT ![p] = n]
           /\ \/ /\ lastAnswer[p] # n /\ current[p] # 0 /\ HaveLocalOffer(p, current[p])
                 /\ Request(p, current[p], "setRemoteAnswer", n)
              \/ /\ lastAnswer[p] = n \/ current[p] = 0 \/ ~HaveLocalOffer(p, current[p])
                 /\ UNCHANGED ops
    /\ UNCHANGED <<pcVars, creating, making, watchdog, offers, lastOffer, iceVars,
                   ghostVars, calm>>

\* setRemoteDescription(answer), after which the buffer is drained.
SetRemoteAnswer(p, i) ==
    /\ Running(p, i, "setRemoteAnswer")
    /\ Finish(p, i)
    /\ \/ /\ ~HaveLocalOffer(p, i)
          /\ UNCHANGED <<conns, buffered>>
       \/ /\ HaveLocalOffer(p, i)
          /\ conns' = [conns EXCEPT ![p][i] =
                [pending |-> NoSdp, local |-> @.pending,
                 remote |-> [from |-> Other(p), type |-> "answer", n |-> Arg(p, i)]]]
          /\ Drain(p)
    /\ UNCHANGED <<current, created, creating, stateVars, looking, gathering, chan, ghostVars,
                   calm>>

\* Candidates on their way to p, and the connections they are looked up for.
UnderWay(p) ==
    Cardinality({k \in DOMAIN chan[p] : chan[p][k] = Candidate})
        + Cardinality({i \in Index : looking[p][i] > 0})

\* onIceCandidate, once the description has been sent.
CandidateFound(p) ==
    /\ gathering[p]
    /\ UnderWay(p) + UnderWay(Other(p)) < MaxCandidates
    /\ gathering' = [gathering EXCEPT ![p] = FALSE]
    /\ chan' = [chan EXCEPT ![Other(p)] = Append(@, Candidate)]
    /\ UNCHANGED <<pcVars, ops, creating, stateVars, buffered, looking, ghostVars, calm>>

Buffer(p, kind) == buffered' = [buffered EXCEPT ![p] = @ \cup {kind}]

\* Up to the await of getRemoteDescription, or to the buffer without a connection.
CandidateArrives(p) ==
    /\ Arrives(p, "candidate")
    /\ Consume(p)
    /\ \/ /\ current[p] = 0
          /\ Buffer(p, "early")
          /\ UNCHANGED looking
       \/ /\ current[p] # 0
          /\ looking' = [looking EXCEPT ![p][current[p]] = @ + 1]
          /\ UNCHANGED buffered
    /\ UNCHANGED <<pcVars, ops, creating, stateVars, gathering, ghostVars, calm>>

\* The rest of the handler.  It adds the candidate to the connection it has looked
\* at, and buffers it if that has no remote description, or if addCandidate throws.
CandidateLookedUp(p, i) ==
    /\ looking[p][i] > 0
    /\ looking' = [looking EXCEPT ![p][i] = @ - 1]
    /\ \/ Described(p, i) /\ UNCHANGED buffered
       \/ Described(p, i) /\ Buffer(p, "refused")
       \/ ~Described(p, i) /\ Buffer(p, "early")
    /\ UNCHANGED <<pcVars, ops, creating, stateVars, gathering, chan, ghostVars, calm>>

\* The plugin answers getRemoteDescription at once, and its answers come in the
\* order of the requests: before the end of any operation of a later connection.
LookupsDone(p, i) == \A j \in Index : j < i => looking[p][j] = 0

-----------------------------------------------------------------------------

Deliver(p) ==
    ParticipantJoined(p) \/ OfferArrives(p) \/ AnswerArrives(p) \/ CandidateArrives(p)

Operate(p) ==
    \E i \in Index :
        /\ LookupsDone(p, i)
        /\ \/ CreateOffer(p, i) \/ SetOffer(p, i)
           \/ Rollback(p, i) \/ SetRemoteOffer(p, i) \/ CreateAnswer(p, i) \/ SetAnswer(p, i)
           \/ SetRemoteAnswer(p, i)

Trigger(p) == WatchdogFires(p) \/ RestartIce(p) \/ Reconnect(p)

Next ==
    \E p \in Peer :
        \/ Deliver(p) \/ Operate(p) \/ Trigger(p)
        \/ \E c \in creating[p] : ConnectionCreated(p, c)
        \/ CandidateFound(p)
        \/ \E i \in Index : CandidateLookedUp(p, i)

Spec == Init /\ [][Next]_vars

-----------------------------------------------------------------------------
(* What must hold *)

\* _makingOffer is set only while an offer is being made: however offers fail
\* or overlap, it never stays behind to make _handleOffer see a collision
\* where there is none.
MakingOfferIsBacked ==
    \A p \in Peer : making[p] =>
        \/ \E c \in creating[p] : c.task = "offer"
        \/ \E i \in Index : \E k \in DOMAIN ops[p][i] :
              ops[p][i][k].op \in {"createOffer", "setOffer"}

\* Though every offer is delivered twice, it is answered at most once, as long
\* as no offer is started while another is being negotiated.  (Three offers of
\* one side in a row can have theirs answered by the handler of another.)
AnsweredOnce ==
    calm => \A p \in Peer, n \in Number : answered[p][n] <= 1

\* When nothing is going on any more, the two ends of the call have the same
\* session: what is local here is remote there.
Agreed ==
    \A p \in Peer : LET q == Other(p)
                    IN  /\ current[p] # 0 /\ current[q] # 0
                        /\ conns[p][current[p]].local = conns[q][current[q]].remote

\* As long as no offer is started while another is being negotiated, the two
\* ends have agreed, on a session and not on none, whenever things are settled.
CalmAgrees ==
    calm /\ Settled /\ (\E p \in Peer : offers[p] > 0) =>
        Agreed /\ \A p \in Peer : conns[p][current[p]].local # NoSdp

\* In calm negotiations a peer never creates a second connection to replace the
\* one it has.
CalmConnectsOnce ==
    calm => \A p \in Peer : created[p] <= 1

\* When things are settled a connection with a remote description has no early
\* candidate left in the buffer, however offers collide and connections replace one
\* another under the suspended handlers.  (A candidate it has refused may be there:
\* the handler buffers it again, and only the next negotiation takes it out.)  And as
\* long as offers do not meet, a candidate is only looked up for the connection in
\* use, and an early one leaves the buffer only for that connection once it has a
\* remote description.  (Where connections replace one another, a drain may hand
\* candidates to one that has none, which refuses them, and they are lost.)
NoCandidateStranded ==
    /\ [](\A p \in Peer :
             Settled /\ current[p] # 0 /\ conns[p][current[p]].remote # NoSdp =>
                 "early" \notin buffered[p])
    /\ [][calm' => \A p \in Peer :
             /\ \A i \in Index : looking'[p][i] < looking[p][i] => i = current'[p]
             /\ "early" \in buffered[p] \ buffered'[p] => Described(p, current[p])']_vars

\* Nothing is on its way or being done, and no watchdog will fire.
Idle ==
    \A p \in Peer :
        /\ creating[p] = {} /\ chan[p] = <<>>
        /\ \A i \in Index : ops[p][i] = <<>>
        /\ watchdog[p] => current[p] # 0

\* Nobody waits for an answer that will not come, and can make no offer any
\* more because of it (_createOffer requires a stable connection).
NobodyWaits == Idle => \A p \in Peer : current[p] # 0 => Stable(p, current[p])

\* Duplicates, offers that collide and operations that fail always leave the two
\* able to negotiate again, as long as no socket is lost.
NobodyWaitsInVain == reconnects = 0 => NobodyWaits

-----------------------------------------------------------------------------
(* What the negotiation promises *)

\* p waits for the answer to its offer.
Waiting(p) == current[p] # 0 /\ HaveLocalOffer(p, current[p])

\* The descriptions of the connection p has, which are none without one.
Held(p) == IF current[p] = 0 THEN NewConn ELSE conns[p][current[p]]
Open == {Held(p).pending : p \in {x \in Peer : Waiting(x)}}
Sessions == [p \in Peer |-> [local |-> Held(p).local, remote |-> Held(p).remote]]

Promise == INSTANCE OfferAnswer WITH open <- Open, session <- Sessions

\* As long as no offer is started while another is being negotiated, the handlers,
\* queues, copies and lost sockets of the two clients implement one negotiation
\* after the other: an offer is sent when none is open, answered at most once, and
\* its session reaches the answerer and then the offerer, with nothing between.
ImplementsOfferAnswer == Promise!Spec

-----------------------------------------------------------------------------
(* What the repository says and the code does not do *)

\* README.md:63: "Perfect Negotiation glare resolution".  Colliding offers are
\* resolved to one session.
GlareResolved ==
    Settled /\ (\A p \in Peer : current[p] # 0) => Agreed

=============================================================================
