--------------------------- MODULE VideoMediaProofs ---------------------------
(***************************************************************************)
(* Proofs about VideoMedia: for every number of users and every bound, what  *)
(* the participants of a room list, what they were told and what is open     *)
(* stay consistent.                                                         *)
(*                                                                         *)
(* A handler goes on with the objects it read before its await, so an        *)
(* invariant of the room has to say what every request under way may still   *)
(* do: `Backed` and the parts below follow the requests in the channel.      *)
(***************************************************************************)
EXTENDS VideoMedia, TLAPS

\* The participant object is the one room.participants holds for its user.
Current(p) == member[participants[p].user] = p

Lengths ==
    /\ Len(participants) <= MaxParticipants /\ Len(transports) <= MaxTransports
    /\ Len(producers) <= MaxProducers /\ Len(consumers) <= MaxConsumers

MembersOwn == \A u \in User : member[u] # 0 => participants[member[u]].user = u

\* The transports of a participant's slots were made for its user.
SlotsOwned ==
    \A p \in DOMAIN participants :
        /\ participants[p].send # 0 =>
               /\ participants[p].send \in DOMAIN transports
               /\ transports[participants[p].send].owner = participants[p].user
        /\ participants[p].recv # 0 =>
               /\ participants[p].recv \in DOMAIN transports
               /\ transports[participants[p].recv].owner = participants[p].user

\* So were those of the producers it lists.
ProducersOwned ==
    /\ \A k \in DOMAIN producers : producers[k].t \in DOMAIN transports
    /\ \A p \in DOMAIN participants : \A k \in participants[p].producers :
           /\ k \in DOMAIN producers
           /\ transports[producers[k].t].owner = participants[p].user

ConsumersKnown ==
    /\ \A c \in DOMAIN consumers : consumers[c].k \in DOMAIN producers
    /\ \A p \in DOMAIN participants : participants[p].consumers \subseteq DOMAIN consumers

\* What a request names exists, and belongs to the user who sent it.
Backed(r) ==
    /\ r.op \in {"transport", "produce", "consume", "pause", "resume"} =>
           r.p \in DOMAIN participants
    /\ r.op = "produce" =>
           /\ r.t \in DOMAIN transports
           /\ transports[r.t].owner = participants[r.p].user
           /\ participants[r.p].tidy => participants[r.p].send = r.t
    /\ r.op = "consume" => r.k \in DOMAIN producers
    /\ r.op \in {"pause", "resume"} =>
           /\ r.k \in DOMAIN producers
           /\ transports[producers[r.k].t].owner = participants[r.p].user
RequestsBacked == \A i \in DOMAIN channel : Backed(channel[i])

\* A member of a live room has its send transport open, and what is under way
\* for it will not be closed when it comes.
Usable(r) ==
    /\ r.op = "transport" /\ Current(r.p) => r.live
    /\ r.op = "produce" /\ Current(r.p) => transports[r.t].open
MembersUsable ==
    /\ room = "none" => \A u \in User : member[u] = 0
    /\ room = "dead" => \A i \in DOMAIN channel : channel[i].op = "closed"
    /\ room = "open" => \A u \in User : member[u] # 0 /\ Of(u).send # 0 =>
                            transports[Of(u).send].open
    /\ \A i \in DOMAIN channel : Usable(channel[i])

\* Nobody is told of its own producer, nor of one that is not made yet.
OwnersHearNothing ==
    \A k \in 1..MaxProducers :
        /\ k \notin DOMAIN producers => \A u \in User : heard[u][k] = "nothing"
        /\ k \in DOMAIN producers => heard[transports[producers[k].t].owner][k] = "nothing"

\* A close is in the channel behind every consumer, made or being made, that it
\* has to reach.
CloseFollows(k, i) ==
    \E j \in DOMAIN channel : j > i /\ channel[j].op = "closed" /\ k \in channel[j].ks
ClosesPending ==
    room = "open" =>
        /\ \A u \in User : member[u] # 0 =>
               \A c \in Of(u).consumers :
                   ~producers[consumers[c].k].open => CloseFollows(consumers[c].k, 0)
        /\ \A i \in DOMAIN channel :
               channel[i].op = "consume" /\ Current(channel[i].p)
                   /\ ~producers[channel[i].k].open => CloseFollows(channel[i].k, i)

Inv ==
    /\ TypeOK /\ Lengths /\ MembersOwn /\ SlotsOwned /\ ProducersOwned /\ ConsumersKnown
    /\ RequestsBacked /\ MembersUsable /\ OwnersHearNothing /\ ClosesPending
    /\ EveryProducerIsKnown /\ ListedProducersAreOpen /\ LastWordIsTrue
    /\ TidyLeaversLeaveNothing


-----------------------------------------------------------------------------
(* Sequences *)

LEMMA AppendEffect ==
  ASSUME NEW S, NEW s \in Seq(S), NEW e \in S
  PROVE  /\ Append(s, e) \in Seq(S) /\ Len(Append(s, e)) = Len(s) + 1
         /\ DOMAIN Append(s, e) = DOMAIN s \cup {Len(s) + 1}
         /\ Len(s) + 1 \notin DOMAIN s
         /\ \A i \in DOMAIN s : Append(s, e)[i] = s[i]
         /\ Append(s, e)[Len(s) + 1] = e
OBVIOUS

\* What is behind the head of the channel moves up by one.
LEMMA TailEffect ==
  ASSUME NEW S, NEW s \in Seq(S), s # <<>>
  PROVE  /\ Tail(s) \in Seq(S) /\ 1 \in DOMAIN s /\ Head(s) = s[1]
         /\ \A i \in DOMAIN Tail(s) : i \in Nat /\ i + 1 \in DOMAIN s /\ Tail(s)[i] = s[i + 1]
         /\ \A i \in DOMAIN s : i # 1 => i - 1 \in DOMAIN Tail(s) /\ Tail(s)[i - 1] = s[i]
OBVIOUS

\* An update in place, element by element.
LEMMA UpdateEffect ==
  ASSUME NEW S, NEW s \in Seq(S), NEW f, DOMAIN f = DOMAIN s,
         f = [i \in DOMAIN s |-> f[i]], \A i \in DOMAIN s : f[i] \in S
  PROVE  f \in Seq(S) /\ Len(f) = Len(s)
<1>1. DOMAIN s = 1..Len(s) /\ Len(s) \in Nat
  OBVIOUS
<1>2. f \in [1..Len(s) -> S]
  BY <1>1
<1> QED
  BY <1>1, <1>2

LEMMA SetEffect ==
  ASSUME NEW S, NEW s \in Seq(S), NEW i \in DOMAIN s, NEW e \in S
  PROVE  /\ [s EXCEPT ![i] = e] \in Seq(S) /\ Len([s EXCEPT ![i] = e]) = Len(s)
         /\ DOMAIN [s EXCEPT ![i] = e] = DOMAIN s
         /\ [s EXCEPT ![i] = e][i] = e
         /\ \A j \in DOMAIN s : j # i => [s EXCEPT ![i] = e][j] = s[j]
OBVIOUS

LEMMA Shapes ==
  ASSUME TypeOK
  PROVE  /\ (DOMAIN participants = 1..Len(participants) /\ Len(participants) \in Nat)
         /\ (\A p \in DOMAIN participants : participants[p] \in Participant)
         /\ (DOMAIN transports = 1..Len(transports) /\ Len(transports) \in Nat)
         /\ (\A t \in DOMAIN transports : transports[t] \in [owner : User, open : BOOLEAN])
         /\ (DOMAIN producers = 1..Len(producers) /\ Len(producers) \in Nat)
         /\ (\A k \in DOMAIN producers :
                producers[k] \in [t : 1..MaxTransports, open : BOOLEAN, paused : BOOLEAN])
         /\ (DOMAIN consumers = 1..Len(consumers) /\ Len(consumers) \in Nat)
         /\ (\A c \in DOMAIN consumers :
                consumers[c] \in [t : 1..MaxTransports, k : 1..MaxProducers])
         /\ (DOMAIN channel = 1..Len(channel) /\ Len(channel) \in Nat)
         /\ (\A i \in DOMAIN channel : channel[i] \in Request)
         /\ (\A u \in User : /\ member[u] \in Nat /\ member[u] <= Len(participants)
                             /\ member[u] # 0 => member[u] \in DOMAIN participants)
<1>1. /\ participants \in Seq(Participant)
      /\ transports \in Seq([owner : User, open : BOOLEAN])
      /\ producers \in Seq([t : 1..MaxTransports, open : BOOLEAN, paused : BOOLEAN])
      /\ consumers \in Seq([t : 1..MaxTransports, k : 1..MaxProducers])
      /\ channel \in Seq(Request)
      /\ member \in [User -> 0..Len(participants)]
  BY DEF TypeOK
<1>2. ASSUME NEW S, NEW s \in Seq(S)
      PROVE  DOMAIN s = 1..Len(s) /\ Len(s) \in Nat /\ \A i \in DOMAIN s : s[i] \in S
  OBVIOUS
<1>3. DOMAIN participants = 1..Len(participants) /\ Len(participants) \in Nat
  BY <1>1, <1>2
<1>4. \A p \in DOMAIN participants : participants[p] \in Participant
  BY <1>1, <1>2
<1>5. DOMAIN transports = 1..Len(transports) /\ Len(transports) \in Nat
  BY <1>1, <1>2
<1>6. \A t \in DOMAIN transports : transports[t] \in [owner : User, open : BOOLEAN]
  BY <1>1, <1>2
<1>7. DOMAIN producers = 1..Len(producers) /\ Len(producers) \in Nat
  BY <1>1, <1>2
<1>8. \A k \in DOMAIN producers :
          producers[k] \in [t : 1..MaxTransports, open : BOOLEAN, paused : BOOLEAN]
  BY <1>1, <1>2
<1>9. DOMAIN consumers = 1..Len(consumers) /\ Len(consumers) \in Nat
  BY <1>1, <1>2
<1>10. \A c \in DOMAIN consumers :
          consumers[c] \in [t : 1..MaxTransports, k : 1..MaxProducers]
  BY <1>1, <1>2
<1>11. DOMAIN channel = 1..Len(channel) /\ Len(channel) \in Nat
  BY <1>1, <1>2
<1>12. \A i \in DOMAIN channel : channel[i] \in Request
  BY <1>1, <1>2
<1>13. \A u \in User : /\ member[u] \in Nat /\ member[u] <= Len(participants)
                       /\ member[u] # 0 => member[u] \in DOMAIN participants
  BY <1>1, <1>3
<1> QED
  BY <1>3, <1>4, <1>5, <1>6, <1>7, <1>8, <1>9, <1>10, <1>11, <1>12, <1>13, Zenon

-----------------------------------------------------------------------------
(* The initial state *)

LEMMA InitInv == Init => Inv
<1> SUFFICES ASSUME Init PROVE Inv
  OBVIOUS
<1> USE DEF Init
<1>1. TypeOK
  BY BoundsAssumption DEF TypeOK, Nothing
<1>2. Lengths /\ MembersOwn
  BY BoundsAssumption DEF Lengths, MembersOwn
<1>3. SlotsOwned /\ ProducersOwned /\ ConsumersKnown /\ RequestsBacked
  BY DEF SlotsOwned, ProducersOwned, ConsumersKnown, RequestsBacked
<1>4. MembersUsable /\ ClosesPending
  BY DEF MembersUsable, ClosesPending
<1>5. OwnersHearNothing
  BY DEF OwnersHearNothing, Nothing
<1>6. EveryProducerIsKnown /\ ListedProducersAreOpen /\ LastWordIsTrue /\ TidyLeaversLeaveNothing
  BY DEF EveryProducerIsKnown, ListedProducersAreOpen, LastWordIsTrue,
         TidyLeaversLeaveNothing, Members
<1> QED
  BY <1>1, <1>2, <1>3, <1>4, <1>5, <1>6 DEF Inv

-----------------------------------------------------------------------------
(* Requests *)

\* A request that is backed, usable and of an open producer keeps the invariant.
LEMMA SendKeeps ==
  ASSUME Inv, NEW r \in Request, Send(r), Backed(r), Usable(r),
         r.op = "consume" => producers[r.k].open
  PROVE  Inv'
<1>a. UNCHANGED <<up, room, participants, member, transports, producers, consumers,
                  inRoom, left, known, heard>>
  BY DEF Send, roomVars, mediaVars, clientVars
<1>b. /\ channel \in Seq(Request) /\ channel' = Append(channel, r) /\ room = "open"
  BY DEF Inv, TypeOK, Send
<1>c. /\ channel' \in Seq(Request)
      /\ DOMAIN channel' = DOMAIN channel \cup {Len(channel) + 1}
      /\ \A i \in DOMAIN channel : channel'[i] = channel[i]
      /\ channel'[Len(channel) + 1] = r
  BY <1>b, AppendEffect
<1>1. TypeOK'
  BY <1>a, <1>c DEF Inv, TypeOK
<1>2. (Lengths /\ MembersOwn /\ SlotsOwned /\ ProducersOwned /\ ConsumersKnown)'
  BY <1>a DEF Inv, Lengths, MembersOwn, SlotsOwned, ProducersOwned, ConsumersKnown
<1>3. RequestsBacked'
  BY <1>a, <1>c DEF Inv, RequestsBacked, Backed
<1>4. MembersUsable'
  BY <1>a, <1>b, <1>c DEF Inv, MembersUsable, Usable, Current, Of
<1>5. OwnersHearNothing'
  BY <1>a DEF Inv, OwnersHearNothing
<1>6. ClosesPending'
  <2>1. ASSUME NEW k, NEW i, CloseFollows(k, i) PROVE CloseFollows(k, i)'
    BY <1>c, <2>1 DEF CloseFollows
  <2>2. ASSUME NEW u \in User, member[u] # 0, NEW c \in Of(u).consumers,
               ~producers[consumers[c].k].open, NEW k, k = consumers[c].k
        PROVE  CloseFollows(k, 0)'
    <3>1. CloseFollows(k, 0)
      BY <1>b, <2>2, Zenon DEF Inv, ClosesPending
    <3> QED
      BY <2>1, <3>1
  <2>3. ASSUME NEW i \in DOMAIN channel', channel'[i].op = "consume",
               Current(channel'[i].p), NEW k, k = channel'[i].k, ~producers[k].open
        PROVE  CloseFollows(k, i)'
    <3>1. i \in DOMAIN channel /\ channel'[i] = channel[i]
      BY <1>c, <2>3
    <3>2. CloseFollows(k, i)
      BY <1>b, <2>3, <3>1, Zenon DEF Inv, ClosesPending
    <3> QED
      BY <2>1, <3>2
  <2> QED
    BY <1>a, <2>2, <2>3 DEF ClosesPending, Of, Current, CloseFollows
<1>7. (EveryProducerIsKnown /\ ListedProducersAreOpen /\ LastWordIsTrue
         /\ TidyLeaversLeaveNothing)'
  BY <1>a DEF Inv, EveryProducerIsKnown, ListedProducersAreOpen, LastWordIsTrue,
         TidyLeaversLeaveNothing, Listed, Members, Of
<1> QED
  BY <1>1, <1>2, <1>3, <1>4, <1>5, <1>6, <1>7 DEF Inv

\* Nor does the end of the process change anything of the room.
LEMMA OnlyProcess ==
  ASSUME Inv, up' \in BOOLEAN, UNCHANGED <<roomVars, mediaVars, channel, clientVars>>
  PROVE  Inv'
<1>a. UNCHANGED <<room, participants, member, transports, producers, consumers, channel,
                  inRoom, left, known, heard>>
  BY DEF roomVars, mediaVars, clientVars
<1>1. TypeOK'
  BY <1>a DEF Inv, TypeOK
<1>2. (Lengths /\ MembersOwn /\ SlotsOwned /\ ProducersOwned /\ ConsumersKnown)'
  BY <1>a DEF Inv, Lengths, MembersOwn, SlotsOwned, ProducersOwned, ConsumersKnown
<1>3. (RequestsBacked /\ MembersUsable)'
  BY <1>a DEF Inv, RequestsBacked, Backed, MembersUsable, Usable, Current, Of
<1>4. (OwnersHearNothing /\ ClosesPending)'
  BY <1>a DEF Inv, OwnersHearNothing, ClosesPending, CloseFollows, Current, Of
<1>5. (EveryProducerIsKnown /\ ListedProducersAreOpen /\ LastWordIsTrue
         /\ TidyLeaversLeaveNothing)'
  BY <1>a DEF Inv, EveryProducerIsKnown, ListedProducersAreOpen, LastWordIsTrue,
         TidyLeaversLeaveNothing, Listed, Members, Of
<1> QED
  BY <1>1, <1>2, <1>3, <1>4, <1>5 DEF Inv

\* What a member's requests name is within the bounds.
LEMMA MemberInRange ==
  ASSUME Inv, NEW u \in User, member[u] # 0
  PROVE  /\ member[u] \in 1..MaxParticipants /\ member[u] \in DOMAIN participants
         /\ Of(u) \in Participant /\ Of(u).user = u
         /\ Current(member[u])
<1>1. member[u] \in DOMAIN participants /\ member[u] \in Nat
      /\ member[u] <= Len(participants) /\ Len(participants) \in Nat
  BY Shapes DEF Inv
<1>2. participants[member[u]].user = u
  BY DEF Inv, MembersOwn
<1>3. participants[member[u]] \in Participant
  BY <1>1, Shapes DEF Inv
<1>4. member[u] \in 1..MaxParticipants
  BY <1>1, BoundsAssumption DEF Inv, Lengths
<1> QED
  BY <1>1, <1>2, <1>3, <1>4 DEF Of, Current

LEMMA CreateTransportKeeps ==
  ASSUME Inv, NEW u \in User, NEW dir \in Direction, CreateTransport(u, dir)
  PROVE  Inv'
<1> DEFINE r == [op |-> "transport", p |-> member[u], dir |-> dir, live |-> TRUE]
<1>1. member[u] # 0 /\ Send(r)
  BY DEF CreateTransport
<1>2. r \in Request
  BY <1>1, MemberInRange DEF Request
<1>3. Backed(r) /\ Usable(r) /\ r.op # "consume"
  BY <1>1, MemberInRange DEF Backed, Usable
<1> HIDE DEF r
<1> QED
  BY <1>1, <1>2, <1>3, SendKeeps

LEMMA CreateProducerKeeps ==
  ASSUME Inv, NEW u \in User, CreateProducer(u)
  PROVE  Inv'
<1> DEFINE r == [op |-> "produce", p |-> member[u], t |-> Of(u).send]
<1>1. member[u] # 0 /\ Of(u).send # 0 /\ Send(r)
  BY DEF CreateProducer
<1>2. /\ member[u] \in 1..MaxParticipants /\ member[u] \in DOMAIN participants
      /\ Of(u) \in Participant
  BY <1>1, MemberInRange
<1>3. Of(u).send \in 1..MaxTransports
  BY <1>1, <1>2, BoundsAssumption DEF Participant
<1>4. r \in Request
  BY <1>2, <1>3 DEF Request
<1>5. Of(u).send \in DOMAIN transports /\ transports[Of(u).send].owner = Of(u).user
  BY <1>1, <1>2 DEF Inv, SlotsOwned, Of
<1>6. Backed(r)
  BY <1>2, <1>5 DEF Backed, Of
<1>7. transports[Of(u).send].open
  BY <1>1 DEF Inv, MembersUsable, Send
<1>8. Usable(r) /\ r.op # "consume"
  BY <1>7 DEF Usable
<1> HIDE DEF r
<1> QED
  BY <1>1, <1>4, <1>6, <1>8, SendKeeps

LEMMA CreateConsumerKeeps ==
  ASSUME Inv, NEW u \in User, NEW k \in DOMAIN producers, CreateConsumer(u, k)
  PROVE  Inv'
<1> DEFINE r == [op |-> "consume", p |-> member[u], t |-> Of(u).recv, k |-> k]
<1>1. member[u] # 0 /\ Of(u).recv # 0 /\ producers[k].open /\ Send(r)
  BY DEF CreateConsumer
<1>2. /\ member[u] \in 1..MaxParticipants /\ member[u] \in DOMAIN participants
      /\ Of(u) \in Participant
  BY <1>1, MemberInRange
<1>3. Of(u).recv \in 1..MaxTransports
  BY <1>1, <1>2, BoundsAssumption DEF Participant
<1>4. k \in 1..MaxProducers
  BY Shapes, BoundsAssumption DEF Inv, Lengths
<1>5. r \in Request
  BY <1>2, <1>3, <1>4 DEF Request
<1>6. Backed(r) /\ Usable(r) /\ producers[r.k].open
  BY <1>1, <1>2 DEF Backed, Usable
<1> HIDE DEF r
<1> QED
  BY <1>1, <1>5, <1>6, SendKeeps

LEMMA PauseProducerKeeps ==
  ASSUME Inv, NEW u \in User, NEW k \in DOMAIN producers, NEW op \in {"pause", "resume"},
         PauseProducer(u, k, op)
  PROVE  Inv'
<1> DEFINE r == [op |-> op, p |-> member[u], k |-> k]
<1>1. member[u] # 0 /\ k \in Of(u).producers /\ Send(r)
  BY DEF PauseProducer
<1>2. /\ member[u] \in 1..MaxParticipants /\ member[u] \in DOMAIN participants
  BY <1>1, MemberInRange
<1>3. k \in 1..MaxProducers
  BY Shapes, BoundsAssumption DEF Inv, Lengths
<1>4. r \in Request
  BY <1>2, <1>3 DEF Request
<1>5. transports[producers[k].t].owner = participants[member[u]].user
  BY <1>1, <1>2 DEF Inv, ProducersOwned, Of
<1>6. Backed(r) /\ Usable(r) /\ r.op # "consume"
  BY <1>2, <1>5 DEF Backed, Usable
<1> HIDE DEF r
<1> QED
  BY <1>1, <1>4, <1>6, SendKeeps

LEMMA PauseConsumerKeeps ==
  ASSUME Inv, NEW u \in User, NEW c \in DOMAIN consumers, PauseConsumer(u, c)
  PROVE  Inv'
<1>1. CASE Send([op |-> "consumer", ok |-> Alive(c)])
  <2> DEFINE r == [op |-> "consumer", ok |-> Alive(c)]
  <2>1. Alive(c) \in BOOLEAN
    BY DEF Alive
  <2>2. r \in Request /\ Send(r)
    BY <1>1, <2>1 DEF Request
  <2>3. Backed(r) /\ Usable(r) /\ r.op # "consume"
    BY DEF Backed, Usable
  <2> HIDE DEF r
  <2> QED
    BY <2>2, <2>3, SendKeeps
<1>2. CASE up' = FALSE /\ UNCHANGED <<roomVars, mediaVars, channel, clientVars>>
  BY <1>2, OnlyProcess
<1> QED
  BY <1>1, <1>2 DEF PauseConsumer

-----------------------------------------------------------------------------
(* Answers *)

\* An answer that changes nothing of the room keeps the invariant.
LEMMA PopKeeps ==
  ASSUME Inv, channel # <<>>, Head(channel).op # "closed", channel' = Tail(channel),
         up' \in BOOLEAN, UNCHANGED <<roomVars, mediaVars, clientVars>>
  PROVE  Inv'
<1>a. UNCHANGED <<room, participants, member, transports, producers, consumers,
                  inRoom, left, known, heard>>
  BY DEF roomVars, mediaVars, clientVars
<1>b. channel \in Seq(Request)
  BY DEF Inv, TypeOK
<1>c. /\ channel' \in Seq(Request) /\ Head(channel) = channel[1]
      /\ \A i \in DOMAIN channel' : i \in Nat /\ i + 1 \in DOMAIN channel
                                    /\ channel'[i] = channel[i + 1]
      /\ \A i \in DOMAIN channel : i # 1 => i - 1 \in DOMAIN channel'
                                            /\ channel'[i - 1] = channel[i]
      /\ DOMAIN channel \subseteq Nat /\ 0 \notin DOMAIN channel
  BY <1>b, TailEffect
<1>1. TypeOK'
  BY <1>a, <1>c DEF Inv, TypeOK
<1>2. (Lengths /\ MembersOwn /\ SlotsOwned /\ ProducersOwned /\ ConsumersKnown)'
  BY <1>a DEF Inv, Lengths, MembersOwn, SlotsOwned, ProducersOwned, ConsumersKnown
<1>3. RequestsBacked'
  BY <1>a, <1>c DEF Inv, RequestsBacked, Backed
<1>4. MembersUsable'
  BY <1>a, <1>c DEF Inv, MembersUsable, Usable, Current, Of
<1>5. OwnersHearNothing'
  BY <1>a DEF Inv, OwnersHearNothing
<1>6. ClosesPending'
  <2>1. ASSUME NEW k, NEW i \in Nat, CloseFollows(k, i + 1) PROVE CloseFollows(k, i)'
    <3>1. PICK j \in DOMAIN channel :
              j > i + 1 /\ channel[j].op = "closed" /\ k \in channel[j].ks
      BY <2>1 DEF CloseFollows
    <3>2. j \in Nat /\ j # 1 /\ j - 1 > i
      BY <1>c, <3>1
    <3>3. j - 1 \in DOMAIN channel' /\ channel'[j - 1] = channel[j]
      BY <1>c, <3>1, <3>2
    <3> QED
      BY <3>1, <3>2, <3>3 DEF CloseFollows
  <2>2. ASSUME NEW k, CloseFollows(k, 0) PROVE CloseFollows(k, 1)
    <3>1. PICK j \in DOMAIN channel :
              j > 0 /\ channel[j].op = "closed" /\ k \in channel[j].ks
      BY <2>2 DEF CloseFollows
    <3>2. j # 1 /\ j \in Nat
      BY <1>c, <3>1
    <3>3. j > 1
      BY <3>1, <3>2
    <3> QED
      BY <3>1, <3>3 DEF CloseFollows
  <2>3. ASSUME room = "open", NEW u \in User, member[u] # 0, NEW c \in Of(u).consumers,
               ~producers[consumers[c].k].open, NEW k, k = consumers[c].k
        PROVE  CloseFollows(k, 0)'
    <3>1. CloseFollows(k, 0)
      BY <2>3, Zenon DEF Inv, ClosesPending
    <3>2. CloseFollows(k, 0 + 1)
      BY <2>2, <3>1
    <3> QED
      BY <2>1, <3>2
  <2>4. ASSUME room = "open", NEW i \in DOMAIN channel', channel'[i].op = "consume",
               Current(channel'[i].p), NEW k, k = channel'[i].k, ~producers[k].open
        PROVE  CloseFollows(k, i)'
    <3>1. i \in Nat /\ i + 1 \in DOMAIN channel /\ channel'[i] = channel[i + 1]
      BY <1>c, <2>4
    <3>2. CloseFollows(k, i + 1)
      BY <2>4, <3>1, Zenon DEF Inv, ClosesPending
    <3> QED
      BY <2>1, <3>1, <3>2
  <2> QED
    BY <1>a, <2>3, <2>4 DEF ClosesPending, Of, Current, CloseFollows
<1>7. (EveryProducerIsKnown /\ ListedProducersAreOpen /\ LastWordIsTrue
         /\ TidyLeaversLeaveNothing)'
  BY <1>a DEF Inv, EveryProducerIsKnown, ListedProducersAreOpen, LastWordIsTrue,
         TidyLeaversLeaveNothing, Listed, Members, Of
<1> QED
  BY <1>1, <1>2, <1>3, <1>4, <1>5, <1>6, <1>7 DEF Inv

LEMMA RefusedKeeps == ASSUME Inv, Refused PROVE Inv'
BY PopKeeps DEF Refused, Answer, Inv, TypeOK

LEMMA ConsumerPausedKeeps == ASSUME Inv, ConsumerPaused PROVE Inv'
<1>1. channel # <<>> /\ Head(channel).op = "consumer" /\ channel \in Seq(Request)
  BY DEF ConsumerPaused, Answer, Inv, TypeOK
<1>2. Head(channel) \in Request
  BY <1>1
<1>3. Head(channel).ok \in BOOLEAN
  BY <1>1, <1>2 DEF Request
<1> QED
  BY <1>1, <1>3, PopKeeps DEF ConsumerPaused, Answer

\* What an answer takes from the channel, and where the rest moves to.
LEMMA AnswerEffect ==
  ASSUME Inv, NEW op, Answer(op)
  PROVE  /\ Head(channel) \in Request /\ Head(channel).op \in op
         /\ Backed(Head(channel)) /\ Usable(Head(channel))
         /\ Head(channel) = channel[1] /\ 1 \in DOMAIN channel
         /\ channel' \in Seq(Request)
         /\ \A i \in DOMAIN channel' : i \in Nat /\ i + 1 \in DOMAIN channel
                                       /\ channel'[i] = channel[i + 1]
<1>1. channel \in Seq(Request) /\ channel # <<>> /\ channel' = Tail(channel)
      /\ Head(channel).op \in op
  BY DEF Inv, TypeOK, Answer
<1>2. /\ Tail(channel) \in Seq(Request) /\ 1 \in DOMAIN channel /\ Head(channel) = channel[1]
      /\ \A i \in DOMAIN Tail(channel) : i \in Nat /\ i + 1 \in DOMAIN channel
                                         /\ Tail(channel)[i] = channel[i + 1]
  BY <1>1, TailEffect
<1>3. channel[1] \in Request
  BY <1>1, <1>2
<1>4. Backed(channel[1])
  BY <1>2 DEF Inv, RequestsBacked
<1>5. Usable(channel[1])
  BY <1>2 DEF Inv, MembersUsable
<1> QED
  BY <1>1, <1>2, <1>3, <1>4, <1>5

LEMMA CloseShifts ==
  ASSUME channel \in Seq(Request), channel # <<>>, channel' = Tail(channel), NEW k
  PROVE  /\ \A i \in Nat : CloseFollows(k, i + 1) => CloseFollows(k, i)'
         /\ ~(Head(channel).op = "closed" /\ k \in Head(channel).ks) =>
                (CloseFollows(k, 0) => CloseFollows(k, 0)')
<1>a. /\ Head(channel) = channel[1]
      /\ \A i \in DOMAIN channel : i # 1 => i - 1 \in DOMAIN channel'
                                            /\ channel'[i - 1] = channel[i]
      /\ DOMAIN channel \subseteq Nat /\ 0 \notin DOMAIN channel
  BY TailEffect
<1>1. ASSUME NEW i \in Nat, CloseFollows(k, i + 1) PROVE CloseFollows(k, i)'
  <2>1. PICK j \in DOMAIN channel :
            j > i + 1 /\ channel[j].op = "closed" /\ k \in channel[j].ks
    BY <1>1 DEF CloseFollows
  <2>2. j \in Nat /\ j # 1 /\ j - 1 > i
    BY <1>a, <2>1
  <2>3. j - 1 \in DOMAIN channel' /\ channel'[j - 1] = channel[j]
    BY <1>a, <2>1, <2>2
  <2> QED
    BY <2>1, <2>2, <2>3 DEF CloseFollows
<1>2. ASSUME ~(Head(channel).op = "closed" /\ k \in Head(channel).ks), CloseFollows(k, 0)
      PROVE  CloseFollows(k, 0)'
  <2>1. PICK j \in DOMAIN channel :
            j > 0 /\ channel[j].op = "closed" /\ k \in channel[j].ks
    BY <1>2 DEF CloseFollows
  <2>2. j # 1 /\ j \in Nat
    BY <1>a, <1>2, <2>1
  <2>3. j > 0 + 1
    BY <2>1, <2>2
  <2>4. CloseFollows(k, 0 + 1)
    BY <2>1, <2>3 DEF CloseFollows
  <2> QED
    BY <1>1, <2>4
<1> QED
  BY <1>1, <1>2

\* An answer that neither closes nor makes a consumer keeps the closes pending.
LEMMA ClosesStayPending ==
  ASSUME Inv, NEW op, Answer(op), "closed" \notin op, UNCHANGED <<room, member, consumers>>,
         \A p \in DOMAIN participants : participants'[p].user = participants[p].user
             /\ participants'[p].consumers = participants[p].consumers,
         \A k \in DOMAIN producers : producers'[k].open = producers[k].open
  PROVE  ClosesPending'
<1>a. /\ Head(channel).op # "closed"
      /\ \A i \in DOMAIN channel' : i \in Nat /\ i + 1 \in DOMAIN channel
                                    /\ channel'[i] = channel[i + 1]
  BY AnswerEffect
<1>b. channel \in Seq(Request) /\ channel # <<>> /\ channel' = Tail(channel)
  BY DEF Inv, TypeOK, Answer
<1>1. ASSUME room = "open", NEW u \in User, member[u] # 0, NEW p, p = member[u],
             NEW c \in participants'[p].consumers, NEW k, k = consumers[c].k,
             ~producers'[k].open
      PROVE  CloseFollows(k, 0)'
  <2>1. p \in DOMAIN participants
    BY <1>1, Shapes DEF Inv
  <2>2. c \in participants[p].consumers
    BY <1>1, <2>1
  <2>3. c \in DOMAIN consumers /\ k \in DOMAIN producers
    BY <1>1, <2>1, <2>2 DEF Inv, ConsumersKnown
  <2>4. ~producers[k].open
    BY <1>1, <2>3
  <2>5. CloseFollows(k, 0)
    BY <1>1, <2>2, <2>4, Zenon DEF Inv, ClosesPending, Of
  <2> QED
    BY <1>a, <1>b, <2>5, CloseShifts
<1>2. ASSUME room = "open", NEW i \in DOMAIN channel', channel'[i].op = "consume",
             NEW p, p = channel'[i].p, member[participants'[p].user] = p,
             NEW k, k = channel'[i].k, ~producers'[k].open
      PROVE  CloseFollows(k, i)'
  <2>1. i \in Nat /\ i + 1 \in DOMAIN channel /\ channel'[i] = channel[i + 1]
    BY <1>a, <1>2
  <2>2. Backed(channel[i + 1])
    BY <2>1 DEF Inv, RequestsBacked
  <2>3. p \in DOMAIN participants /\ k \in DOMAIN producers
    BY <1>2, <2>1, <2>2 DEF Backed
  <2>4. Current(channel[i + 1].p) /\ ~producers[k].open
    BY <1>2, <2>1, <2>3 DEF Current
  <2>5. CloseFollows(k, i + 1)
    BY <1>2, <2>1, <2>4, Zenon DEF Inv, ClosesPending
  <2> QED
    BY <1>b, <2>1, <2>5, CloseShifts
<1> QED
  BY <1>1, <1>2 DEF ClosesPending, Of, Current, CloseFollows

LEMMA TransportCreatedKeeps == ASSUME Inv, TransportCreated PROVE Inv'
<1>0. PICK r, p0, p, n, seen :
          /\ r = Head(channel) /\ p0 = r.p /\ p = participants[p0]
          /\ n = Len(transports) + 1
          /\ seen = (p[r.dir] = 0 /\ member[p.user] = p0)
  OBVIOUS
<1>q. PICK q : q = [p EXCEPT ![r.dir] = n, !.tidy = p.tidy /\ seen]
  OBVIOUS
<1>e0. PICK e : e = [owner |-> p.user, open |-> r.live]
  OBVIOUS
<1>a. /\ Answer({"transport"}) /\ Len(transports) < MaxTransports
      /\ transports' = Append(transports, e)
      /\ participants' = [participants EXCEPT ![p0] = q]
      /\ UNCHANGED <<up, room, member, producers, consumers, inRoom, left, known, heard>>
  BY <1>0, <1>q, <1>e0 DEF TransportCreated, clientVars
<1>b. /\ r \in Request /\ r.op = "transport" /\ Backed(r) /\ Usable(r)
      /\ channel' \in Seq(Request)
      /\ \A i \in DOMAIN channel' : i + 1 \in DOMAIN channel /\ channel'[i] = channel[i + 1]
  BY <1>0, <1>a, AnswerEffect
<1>c. r.dir \in Direction /\ r.live \in BOOLEAN
  BY <1>b DEF Request
<1>d. p0 \in DOMAIN participants
  BY <1>0, <1>b DEF Backed
<1>e. p \in Participant
  BY <1>0, <1>d, Shapes DEF Inv
<1>f. /\ participants \in Seq(Participant)
      /\ transports \in Seq([owner : User, open : BOOLEAN])
  BY DEF Inv, TypeOK
<1>n. /\ n \in Nat /\ n # 0 /\ n \in 0..MaxTransports
  BY <1>0, <1>a, <1>f, BoundsAssumption
<1>g. e \in [owner : User, open : BOOLEAN] /\ e.owner = p.user /\ e.open = r.live
  BY <1>c, <1>e, <1>e0 DEF Participant
<1>h. /\ transports' \in Seq([owner : User, open : BOOLEAN])
      /\ Len(transports') = n
      /\ DOMAIN transports' = DOMAIN transports \cup {n} /\ n \notin DOMAIN transports
      /\ \A t \in DOMAIN transports : transports'[t] = transports[t]
      /\ transports'[n].owner = p.user /\ transports'[n].open = r.live
  BY <1>0, <1>a, <1>f, <1>g, AppendEffect
<1>i. q \in Participant
  BY <1>c, <1>e, <1>n, <1>q, <1>0 DEF Participant, Direction
<1>j. /\ q.user = p.user /\ q.producers = p.producers /\ q.consumers = p.consumers
      /\ q.tidy = (p.tidy /\ seen)
      /\ q.send = IF r.dir = "send" THEN n ELSE p.send
      /\ q.recv = IF r.dir = "recv" THEN n ELSE p.recv
      /\ r.dir = "send" => p[r.dir] = p.send
  BY <1>c, <1>e, <1>q DEF Participant, Direction
<1>k. /\ participants' \in Seq(Participant) /\ Len(participants') = Len(participants)
      /\ DOMAIN participants' = DOMAIN participants
      /\ participants'[p0] = q
      /\ \A x \in DOMAIN participants : x # p0 => participants'[x] = participants[x]
  BY <1>a, <1>d, <1>f, <1>i, SetEffect
<1>m. \A x \in DOMAIN participants :
          /\ participants'[x].user = participants[x].user
          /\ participants'[x].producers = participants[x].producers
          /\ participants'[x].consumers = participants[x].consumers
          /\ participants'[x].tidy => participants[x].tidy
          /\ x # p0 \/ r.dir # "send" => participants'[x].send = participants[x].send
          /\ x # p0 \/ r.dir # "recv" => participants'[x].recv = participants[x].recv
  BY <1>0, <1>j, <1>k
<1>s. seen => member[p.user] = p0 /\ (r.dir = "send" => p.send = 0)
  BY <1>0, <1>j
<1>1. TypeOK'
  BY <1>a, <1>b, <1>h, <1>k DEF Inv, TypeOK
<1>2. Lengths'
  BY <1>a, <1>n, <1>h, <1>k, BoundsAssumption DEF Inv, Lengths
<1>3. MembersOwn'
  BY <1>a, <1>m, Shapes DEF Inv, MembersOwn
<1>4. SlotsOwned'
  <2>1. ASSUME NEW x \in DOMAIN participants, x # p0, participants[x].send # 0
        PROVE  participants[x].send \in DOMAIN transports'
               /\ transports'[participants[x].send].owner = participants[x].user
    BY <2>1, <1>h DEF Inv, SlotsOwned
  <2>2. ASSUME NEW x \in DOMAIN participants, x # p0, participants[x].recv # 0
        PROVE  participants[x].recv \in DOMAIN transports'
               /\ transports'[participants[x].recv].owner = participants[x].user
    BY <2>2, <1>h DEF Inv, SlotsOwned
  <2>3. q.send # 0 => q.send \in DOMAIN transports' /\ transports'[q.send].owner = q.user
    BY <1>0, <1>d, <1>h, <1>j DEF Inv, SlotsOwned
  <2>4. q.recv # 0 => q.recv \in DOMAIN transports' /\ transports'[q.recv].owner = q.user
    BY <1>0, <1>d, <1>h, <1>j DEF Inv, SlotsOwned
  <2> QED
    BY <2>1, <2>2, <2>3, <2>4, <1>k DEF SlotsOwned
<1>p. \A k \in DOMAIN producers : producers[k].t \in DOMAIN transports
  BY DEF Inv, ProducersOwned
<1>5. ProducersOwned'
  BY <1>a, <1>h, <1>k, <1>m, <1>p DEF Inv, ProducersOwned
<1>6. ConsumersKnown'
  BY <1>a, <1>k, <1>m DEF Inv, ConsumersKnown
<1>7. RequestsBacked'
  <2>1. ASSUME NEW i \in DOMAIN channel', NEW x, x = channel'[i] PROVE Backed(x)'
    <3>1. Backed(x)
      BY <2>1, <1>b DEF Inv, RequestsBacked
    <3>2. ASSUME x.op = "produce", x.p = p0, q.tidy PROVE r.dir # "send"
      <4>1. p.send = x.t /\ x.t \in DOMAIN transports
        BY <3>1, <3>2, <1>0, <1>j DEF Backed
      <4>2. p.send # 0
        BY <4>1, Shapes DEF Inv
      <4> QED
        BY <3>2, <4>2, <1>j, <1>s
    <3>3. x.op = "produce" => (participants'[x.p].tidy => participants'[x.p].send = x.t)
      BY <3>1, <3>2, <1>0, <1>j, <1>k, <1>m DEF Backed
    <3> QED
      BY <3>1, <3>3, <1>a, <1>h, <1>k, <1>m, <1>p DEF Backed
  <2> QED
    BY <2>1 DEF RequestsBacked, Backed
<1>8. MembersUsable'
  <2>1. ASSUME NEW i \in DOMAIN channel', NEW x, x = channel'[i] PROVE Usable(x)'
    <3>1. Usable(x) /\ Backed(x)
      BY <2>1, <1>b DEF Inv, MembersUsable, RequestsBacked
    <3>2. x.op \in {"transport", "produce"} => (Current(x.p)' <=> Current(x.p))
      BY <3>1, <1>a, <1>m DEF Backed, Current
    <3> QED
      BY <3>1, <3>2, <1>h DEF Usable, Backed
  <2>2. ASSUME room = "open", NEW u \in User, member[u] # 0, NEW x, x = member[u],
               participants'[x].send # 0
        PROVE  transports'[participants'[x].send].open
    <3>1. x \in DOMAIN participants /\ participants[x].user = u
      BY <2>2, Shapes DEF Inv, MembersOwn
    <3>2. CASE x = p0 /\ r.dir = "send"
      <4>1. Current(r.p)
        BY <2>2, <3>1, <3>2, <1>0 DEF Current
      <4>2. r.live
        BY <4>1, <1>b DEF Usable
      <4> QED
        BY <3>2, <4>2, <1>h, <1>j, <1>k
    <3>3. CASE x # p0 \/ r.dir # "send"
      <4>1. participants'[x].send = participants[x].send
        BY <3>1, <3>3, <1>m
      <4>2. transports[participants[x].send].open /\ participants[x].send \in DOMAIN transports
        BY <2>2, <3>1, <4>1 DEF Inv, MembersUsable, SlotsOwned, Of
      <4> QED
        BY <4>1, <4>2, <1>h
    <3> QED
      BY <3>2, <3>3
  <2>3. room = "none" => \A u \in User : member[u] = 0
    BY DEF Inv, MembersUsable
  <2>4. room = "dead" => \A i \in DOMAIN channel' : channel'[i].op = "closed"
    BY <1>b DEF Inv, MembersUsable
  <2> QED
    BY <1>a, <2>1, <2>2, <2>3, <2>4 DEF MembersUsable, Of, Usable, Current
<1>9. OwnersHearNothing'
  BY <1>a, <1>h, <1>p DEF Inv, OwnersHearNothing
<1>10. ClosesPending'
  BY <1>a, <1>m, ClosesStayPending
<1>11. EveryProducerIsKnown' /\ ListedProducersAreOpen' /\ LastWordIsTrue'
  <2>1. \A u \in User : member[u] # 0 => Of(u)'.producers = Of(u).producers
    BY <1>a, <1>m, Shapes DEF Inv, Of
  <2>2. Members' = Members /\ \A u \in User : Listed(u)' = Listed(u)
    BY <2>1, <1>a DEF Listed, Members
  <2> QED
    BY <2>1, <2>2, <1>a DEF Inv, TypeOK, EveryProducerIsKnown, ListedProducersAreOpen,
       LastWordIsTrue, Members
<1>12. TidyLeaversLeaveNothing'
  <2>1. ASSUME NEW x \in DOMAIN participants, member[participants[x].user] # x,
               participants'[x].tidy
        PROVE  participants'[x] = participants[x]
    BY <2>1, <1>0, <1>j, <1>k, <1>s
  <2>2. \A x \in DOMAIN participants :
           /\ participants[x].send \in DOMAIN transports' => participants[x].send # n
           /\ participants[x].recv \in DOMAIN transports' => participants[x].recv # n
    BY <1>h, <1>n DEF Inv, SlotsOwned
  <2> QED
    BY <2>1, <2>2, <1>a, <1>h, <1>k, <1>m DEF Inv, TidyLeaversLeaveNothing
<1> QED
  BY <1>1, <1>2, <1>3, <1>4, <1>5, <1>6, <1>7, <1>8, <1>9, <1>10, <1>11, <1>12 DEF Inv

LEMMA ProducerCreatedKeeps == ASSUME Inv, ProducerCreated PROVE Inv'
<1>0. PICK r, p0, p, n : r = Head(channel) /\ p0 = r.p /\ p = participants[p0]
                         /\ n = Len(producers) + 1
  OBVIOUS
<1>q. PICK q : q = [p EXCEPT !.producers = p.producers \cup {n}]
  OBVIOUS
<1>e0. PICK e : e = [t |-> r.t, open |-> transports[r.t].open, paused |-> FALSE]
  OBVIOUS
<1>a. /\ Answer({"produce"}) /\ Len(producers) < MaxProducers
      /\ producers' = Append(producers, e)
      /\ participants' = [participants EXCEPT ![p0] = q]
      /\ known' = [v \in User |-> IF v \in inRoom \ {p.user} THEN known[v] \cup {n} ELSE known[v]]
      /\ UNCHANGED <<up, room, member, transports, consumers, inRoom, left, heard>>
  BY <1>0, <1>q, <1>e0 DEF ProducerCreated
<1>b. /\ r \in Request /\ r.op = "produce" /\ Backed(r) /\ Usable(r)
      /\ channel' \in Seq(Request)
      /\ \A i \in DOMAIN channel' : i + 1 \in DOMAIN channel /\ channel'[i] = channel[i + 1]
  BY <1>0, <1>a, AnswerEffect
<1>d. /\ p0 \in DOMAIN participants /\ r.t \in DOMAIN transports
      /\ transports[r.t].owner = p.user /\ (p.tidy => p.send = r.t)
  BY <1>0, <1>b DEF Backed
<1>e. p \in Participant
  BY <1>0, <1>d, Shapes DEF Inv
<1>f. /\ participants \in Seq(Participant)
      /\ producers \in Seq([t : 1..MaxTransports, open : BOOLEAN, paused : BOOLEAN])
  BY DEF Inv, TypeOK
<1>n. n \in Nat /\ n \in 1..MaxProducers
  BY <1>0, <1>a, <1>f, BoundsAssumption
<1>t. r.t \in 1..MaxTransports /\ transports[r.t].open \in BOOLEAN
  BY <1>d, Shapes, BoundsAssumption DEF Inv, Lengths
<1>g. /\ e \in [t : 1..MaxTransports, open : BOOLEAN, paused : BOOLEAN]
      /\ e.t = r.t /\ e.open = transports[r.t].open
  BY <1>t, <1>e0
<1>h. /\ producers' \in Seq([t : 1..MaxTransports, open : BOOLEAN, paused : BOOLEAN])
      /\ Len(producers') = n
      /\ DOMAIN producers' = DOMAIN producers \cup {n} /\ n \notin DOMAIN producers
      /\ \A k \in DOMAIN producers : producers'[k] = producers[k]
      /\ producers'[n].t = r.t /\ producers'[n].open = transports[r.t].open
  BY <1>0, <1>a, <1>f, <1>g, AppendEffect
<1>j. /\ q.user = p.user /\ q.producers = p.producers \cup {n} /\ q.consumers = p.consumers
      /\ q.tidy = p.tidy /\ q.send = p.send /\ q.recv = p.recv
  BY <1>e, <1>q DEF Participant
<1>i. q \in Participant
  BY <1>e, <1>n, <1>q DEF Participant
<1>k. /\ participants' \in Seq(Participant) /\ Len(participants') = Len(participants)
      /\ DOMAIN participants' = DOMAIN participants
      /\ participants'[p0] = q
      /\ \A x \in DOMAIN participants : x # p0 => participants'[x] = participants[x]
  BY <1>a, <1>d, <1>f, <1>i, SetEffect
<1>m. \A x \in DOMAIN participants :
          /\ participants'[x].user = participants[x].user
          /\ participants'[x].consumers = participants[x].consumers
          /\ participants'[x].tidy = participants[x].tidy
          /\ participants'[x].send = participants[x].send
          /\ participants'[x].recv = participants[x].recv
  BY <1>0, <1>j, <1>k
<1>l. \A x \in DOMAIN participants : \A k \in participants'[x].producers :
          k \in participants[x].producers \/ (x = p0 /\ k = n)
  BY <1>0, <1>j, <1>k
<1>1. TypeOK'
  <2>1. known' \in [User -> SUBSET (1..MaxProducers)]
    BY <1>a, <1>n DEF Inv, TypeOK
  <2> QED
    BY <2>1, <1>a, <1>b, <1>h, <1>k DEF Inv, TypeOK
<1>2. Lengths'
  BY <1>a, <1>n, <1>h, <1>k, BoundsAssumption DEF Inv, Lengths
<1>3. MembersOwn'
  BY <1>a, <1>m, Shapes DEF Inv, MembersOwn
<1>4. SlotsOwned'
  BY <1>a, <1>k, <1>m DEF Inv, SlotsOwned
<1>5. ProducersOwned'
  <2>1. \A k \in DOMAIN producers' : producers'[k].t \in DOMAIN transports
    BY <1>d, <1>h DEF Inv, ProducersOwned
  <2>2. ASSUME NEW x \in DOMAIN participants, NEW k \in participants'[x].producers
        PROVE  k \in DOMAIN producers' /\ transports[producers'[k].t].owner = participants[x].user
    <3>1. CASE k \in participants[x].producers
      BY <3>1, <1>h DEF Inv, ProducersOwned
    <3>2. CASE x = p0 /\ k = n
      BY <3>2, <1>0, <1>d, <1>h
    <3> QED
      BY <2>2, <3>1, <3>2, <1>l
  <2> QED
    BY <2>1, <2>2, <1>a, <1>k, <1>m DEF ProducersOwned
<1>6. ConsumersKnown'
  BY <1>a, <1>h, <1>k, <1>m DEF Inv, ConsumersKnown
<1>p. \A k \in DOMAIN producers : producers[k].t \in DOMAIN transports
  BY DEF Inv, ProducersOwned
<1>7. RequestsBacked'
  <2>1. ASSUME NEW i \in DOMAIN channel', NEW x, x = channel'[i] PROVE Backed(x)'
    <3>1. Backed(x)
      BY <2>1, <1>b DEF Inv, RequestsBacked
    <3> QED
      BY <3>1, <1>a, <1>h, <1>k, <1>m DEF Backed
  <2> QED
    BY <2>1 DEF RequestsBacked, Backed
<1>8. MembersUsable'
  <2>1. ASSUME NEW i \in DOMAIN channel', NEW x, x = channel'[i] PROVE Usable(x)'
    <3>1. Usable(x) /\ Backed(x)
      BY <2>1, <1>b DEF Inv, MembersUsable, RequestsBacked
    <3>2. x.op \in {"transport", "produce"} => (Current(x.p)' <=> Current(x.p))
      BY <3>1, <1>a, <1>m DEF Backed, Current
    <3> QED
      BY <3>1, <3>2, <1>a DEF Usable, Backed
  <2>2. ASSUME room = "open", NEW u \in User, member[u] # 0, NEW x, x = member[u],
               participants'[x].send # 0
        PROVE  transports'[participants'[x].send].open
    BY <2>2, <1>a, <1>m, Shapes DEF Inv, MembersUsable, Of
  <2>3. room = "none" => \A u \in User : member[u] = 0
    BY DEF Inv, MembersUsable
  <2>4. room = "dead" => \A i \in DOMAIN channel' : channel'[i].op = "closed"
    BY <1>b DEF Inv, MembersUsable
  <2> QED
    BY <1>a, <2>1, <2>2, <2>3, <2>4 DEF MembersUsable, Of, Usable, Current
<1>9. OwnersHearNothing'
  <2>1. p.user \in User
    BY <1>e DEF Participant
  <2> QED
    BY <2>1, <1>a, <1>d, <1>h, <1>p DEF Inv, OwnersHearNothing
<1>10. ClosesPending'
  BY <1>a, <1>h, <1>m, ClosesStayPending
<1>o. \A u \in User : member[u] # 0 => member[u] \in DOMAIN participants
                                       /\ participants[member[u]].user = u
  BY Shapes DEF Inv, MembersOwn
<1>11. EveryProducerIsKnown'
  <2>1. ASSUME NEW v \in inRoom, NEW w \in User, member[w] # 0, w # v, NEW x, x = member[w],
               NEW k \in participants'[x].producers
        PROVE  k \in known'[v]
    <3>1. v \in User
      BY DEF Inv, TypeOK
    <3>2. known[v] \subseteq known'[v]
      BY <3>1, <1>a
    <3>3. CASE k \in participants[x].producers
      BY <2>1, <3>2, <3>3 DEF Inv, EveryProducerIsKnown, Listed, Members, Of
    <3>4. CASE x = p0 /\ k = n
      BY <2>1, <3>1, <3>4, <1>0, <1>a, <1>o
    <3> QED
      BY <2>1, <3>3, <3>4, <1>l, <1>o
  <2> QED
    BY <2>1, <1>a DEF EveryProducerIsKnown, Listed, Members, Of
<1>12. ListedProducersAreOpen'
  <2>1. ASSUME NEW u \in User, member[u] # 0, NEW x, x = member[u],
               NEW k \in participants'[x].producers
        PROVE  producers'[k].open
    <3>1. CASE k \in participants[x].producers
      <4>1. producers[k].open
        BY <2>1, <3>1 DEF Inv, ListedProducersAreOpen, Members, Of
      <4>2. k \in DOMAIN producers
        BY <2>1, <3>1, <1>o DEF Inv, ProducersOwned
      <4> QED
        BY <4>1, <4>2, <1>h
    <3>2. CASE x = p0 /\ k = n
      <4>1. Current(r.p)
        BY <2>1, <3>2, <1>0, <1>o DEF Current
      <4> QED
        BY <3>2, <4>1, <1>b, <1>h DEF Usable
    <3> QED
      BY <2>1, <3>1, <3>2, <1>l, <1>o
  <2> QED
    BY <2>1, <1>a DEF ListedProducersAreOpen, Members, Of
<1>13. LastWordIsTrue'
  BY <1>a, <1>h, <1>n DEF Inv, TypeOK, LastWordIsTrue, OwnersHearNothing
<1>14. TidyLeaversLeaveNothing'
  <2>1. ASSUME NEW x \in DOMAIN participants, member[participants[x].user] # x,
               participants[x].tidy
        PROVE  /\ \A t \in {participants[x].send, participants[x].recv} \cap DOMAIN transports :
                      ~transports[t].open
               /\ \A k \in participants'[x].producers : ~producers'[k].open
    <3>1. \A t \in {participants[x].send, participants[x].recv} \cap DOMAIN transports :
              ~transports[t].open
      BY <2>1 DEF Inv, TidyLeaversLeaveNothing
    <3>2. \A k \in participants[x].producers : ~producers'[k].open
      BY <2>1, <1>h DEF Inv, TidyLeaversLeaveNothing, ProducersOwned
    <3>3. x = p0 => ~producers'[n].open
      BY <2>1, <3>1, <1>0, <1>d, <1>h
    <3> QED
      BY <3>1, <3>2, <3>3, <1>l
  <2>2. ASSUME NEW x \in DOMAIN participants, member[participants'[x].user] # x,
               participants'[x].tidy
        PROVE  /\ \A t \in {participants'[x].send, participants'[x].recv}
                                \cap DOMAIN transports : ~transports[t].open
               /\ \A k \in participants'[x].producers : ~producers'[k].open
    <3>1. /\ participants'[x].user = participants[x].user
          /\ participants'[x].tidy = participants[x].tidy
          /\ participants'[x].send = participants[x].send
          /\ participants'[x].recv = participants[x].recv
      BY <1>m
    <3> QED
      BY <2>1, <2>2, <3>1
  <2> QED
    BY <2>2, <1>a, <1>k DEF TidyLeaversLeaveNothing
<1> QED
  BY <1>1, <1>2, <1>3, <1>4, <1>5, <1>6, <1>7, <1>8, <1>9, <1>10, <1>11, <1>12, <1>13, <1>14
     DEF Inv

LEMMA ConsumerCreatedKeeps == ASSUME Inv, ConsumerCreated PROVE Inv'
<1>0. PICK r, p0, p, n : r = Head(channel) /\ p0 = r.p /\ p = participants[p0]
                         /\ n = Len(consumers) + 1
  OBVIOUS
<1>q. PICK q : q = [p EXCEPT !.consumers = p.consumers \cup {n}]
  OBVIOUS
<1>e0. PICK e : e = [t |-> r.t, k |-> r.k]
  OBVIOUS
<1>a. /\ Answer({"consume"}) /\ Len(consumers) < MaxConsumers
      /\ consumers' = Append(consumers, e)
      /\ participants' = [participants EXCEPT ![p0] = q]
      /\ UNCHANGED <<up, room, member, transports, producers, inRoom, left, known, heard>>
  BY <1>0, <1>q, <1>e0 DEF ConsumerCreated, clientVars
<1>b. /\ r \in Request /\ r.op = "consume" /\ Backed(r) /\ r = channel[1] /\ 1 \in DOMAIN channel
      /\ channel' \in Seq(Request)
      /\ \A i \in DOMAIN channel' : i \in Nat /\ i + 1 \in DOMAIN channel
                                    /\ channel'[i] = channel[i + 1]
  BY <1>0, <1>a, AnswerEffect
<1>d. p0 \in DOMAIN participants /\ r.k \in DOMAIN producers
  BY <1>0, <1>b DEF Backed
<1>e. p \in Participant
  BY <1>0, <1>d, Shapes DEF Inv
<1>f. /\ participants \in Seq(Participant)
      /\ consumers \in Seq([t : 1..MaxTransports, k : 1..MaxProducers])
  BY DEF Inv, TypeOK
<1>n. n \in Nat /\ n \in 1..MaxConsumers
  BY <1>0, <1>a, <1>f, BoundsAssumption
<1>t. r.t \in 1..MaxTransports /\ r.k \in 1..MaxProducers
  BY <1>b DEF Request
<1>g. e \in [t : 1..MaxTransports, k : 1..MaxProducers] /\ e.k = r.k
  BY <1>t, <1>e0
<1>h. /\ consumers' \in Seq([t : 1..MaxTransports, k : 1..MaxProducers])
      /\ Len(consumers') = n
      /\ DOMAIN consumers' = DOMAIN consumers \cup {n} /\ n \notin DOMAIN consumers
      /\ \A c \in DOMAIN consumers : consumers'[c] = consumers[c]
      /\ consumers'[n].k = r.k
  BY <1>0, <1>a, <1>f, <1>g, AppendEffect
<1>j. /\ q.user = p.user /\ q.producers = p.producers /\ q.consumers = p.consumers \cup {n}
      /\ q.tidy = p.tidy /\ q.send = p.send /\ q.recv = p.recv
  BY <1>e, <1>q DEF Participant
<1>i. q \in Participant
  BY <1>e, <1>n, <1>q DEF Participant
<1>k. /\ participants' \in Seq(Participant) /\ Len(participants') = Len(participants)
      /\ DOMAIN participants' = DOMAIN participants
      /\ participants'[p0] = q
      /\ \A x \in DOMAIN participants : x # p0 => participants'[x] = participants[x]
  BY <1>a, <1>d, <1>f, <1>i, SetEffect
<1>m. \A x \in DOMAIN participants :
          /\ participants'[x].user = participants[x].user
          /\ participants'[x].producers = participants[x].producers
          /\ participants'[x].tidy = participants[x].tidy
          /\ participants'[x].send = participants[x].send
          /\ participants'[x].recv = participants[x].recv
  BY <1>0, <1>j, <1>k
<1>l. \A x \in DOMAIN participants : \A c \in participants'[x].consumers :
          c \in participants[x].consumers \/ (x = p0 /\ c = n)
  BY <1>0, <1>j, <1>k
<1>o. \A u \in User : member[u] # 0 => member[u] \in DOMAIN participants
                                       /\ participants[member[u]].user = u
  BY Shapes DEF Inv, MembersOwn
<1>1. TypeOK'
  BY <1>a, <1>b, <1>h, <1>k DEF Inv, TypeOK
<1>2. Lengths'
  BY <1>a, <1>n, <1>h, <1>k, BoundsAssumption DEF Inv, Lengths
<1>3. MembersOwn'
  BY <1>a, <1>m, Shapes DEF Inv, MembersOwn
<1>4. SlotsOwned' /\ ProducersOwned'
  BY <1>a, <1>k, <1>m DEF Inv, SlotsOwned, ProducersOwned
<1>5. ConsumersKnown'
  <2>1. \A c \in DOMAIN consumers' : consumers'[c].k \in DOMAIN producers
    BY <1>d, <1>h DEF Inv, ConsumersKnown
  <2>2. ASSUME NEW x \in DOMAIN participants, NEW c \in participants'[x].consumers
        PROVE  c \in DOMAIN consumers'
    BY <2>2, <1>h, <1>l DEF Inv, ConsumersKnown
  <2> QED
    BY <2>1, <2>2, <1>a, <1>k DEF ConsumersKnown
<1>6. RequestsBacked'
  <2>1. ASSUME NEW i \in DOMAIN channel', NEW x, x = channel'[i] PROVE Backed(x)'
    <3>1. Backed(x)
      BY <2>1, <1>b DEF Inv, RequestsBacked
    <3> QED
      BY <3>1, <1>a, <1>k, <1>m DEF Backed
  <2> QED
    BY <2>1 DEF RequestsBacked, Backed
<1>7. MembersUsable'
  <2>1. ASSUME NEW i \in DOMAIN channel', NEW x, x = channel'[i] PROVE Usable(x)'
    <3>1. Usable(x) /\ Backed(x)
      BY <2>1, <1>b DEF Inv, MembersUsable, RequestsBacked
    <3>2. x.op \in {"transport", "produce"} => (Current(x.p)' <=> Current(x.p))
      BY <3>1, <1>a, <1>m DEF Backed, Current
    <3> QED
      BY <3>1, <3>2, <1>a DEF Usable, Backed
  <2>2. ASSUME room = "open", NEW u \in User, member[u] # 0, NEW x, x = member[u],
               participants'[x].send # 0
        PROVE  transports'[participants'[x].send].open
    BY <2>2, <1>a, <1>m, Shapes DEF Inv, MembersUsable, Of
  <2>3. room = "none" => \A u \in User : member[u] = 0
    BY DEF Inv, MembersUsable
  <2>4. room = "dead" => \A i \in DOMAIN channel' : channel'[i].op = "closed"
    BY <1>b DEF Inv, MembersUsable
  <2> QED
    BY <1>a, <2>1, <2>2, <2>3, <2>4 DEF MembersUsable, Of, Usable, Current
<1>8. OwnersHearNothing' /\ LastWordIsTrue'
  BY <1>a DEF Inv, OwnersHearNothing, LastWordIsTrue
<1>9. ClosesPending'
  <2>a. channel \in Seq(Request) /\ channel # <<>> /\ channel' = Tail(channel)
    BY <1>a DEF Inv, TypeOK, Answer
  <2>1. ASSUME room = "open", NEW u \in User, member[u] # 0, NEW x, x = member[u],
               NEW c \in participants'[x].consumers, NEW k, k = consumers'[c].k,
               ~producers[k].open
        PROVE  CloseFollows(k, 0)'
    <3>1. CASE c \in participants[x].consumers
      <4>1. c \in DOMAIN consumers
        BY <2>1, <3>1, <1>o DEF Inv, ConsumersKnown
      <4>2. CloseFollows(k, 0)
        BY <2>1, <3>1, <4>1, <1>h DEF Inv, ClosesPending, Of
      <4>3. Head(channel).op # "closed"
        BY <1>0, <1>b
      <4> QED
        BY <2>a, <4>2, <4>3, CloseShifts
    <3>2. CASE x = p0 /\ c = n
      <4>1. k = channel[1].k /\ channel[1].op = "consume" /\ Current(channel[1].p)
        BY <2>1, <3>2, <1>0, <1>b, <1>h, <1>o DEF Current
      <4>2. CloseFollows(k, 0 + 1)
        BY <2>1, <4>1, <1>b DEF Inv, ClosesPending
      <4> QED
        BY <2>a, <4>2, CloseShifts
    <3> QED
      BY <2>1, <3>1, <3>2, <1>l, <1>o
  <2>2. ASSUME room = "open", NEW i \in DOMAIN channel', channel'[i].op = "consume",
               NEW x, x = channel'[i].p, member[participants'[x].user] = x,
               NEW k, k = channel'[i].k, ~producers[k].open
        PROVE  CloseFollows(k, i)'
    <3>1. i \in Nat /\ i + 1 \in DOMAIN channel /\ channel'[i] = channel[i + 1]
      BY <1>b, <2>2
    <3>2. Backed(channel[i + 1])
      BY <3>1 DEF Inv, RequestsBacked
    <3>3. Current(channel[i + 1].p)
      BY <2>2, <3>1, <3>2, <1>m DEF Backed, Current
    <3>4. CloseFollows(k, i + 1)
      BY <2>2, <3>1, <3>3, Zenon DEF Inv, ClosesPending
    <3> QED
      BY <2>a, <3>1, <3>4, CloseShifts
  <2> QED
    BY <2>1, <2>2, <1>a DEF ClosesPending, Of, Current, CloseFollows
<1>10. EveryProducerIsKnown' /\ ListedProducersAreOpen'
  <2>1. \A u \in User : member[u] # 0 => Of(u)'.producers = Of(u).producers
    BY <1>a, <1>m, <1>o DEF Of
  <2>2. Members' = Members /\ \A u \in User : Listed(u)' = Listed(u)
    BY <2>1, <1>a DEF Listed, Members
  <2> QED
    BY <2>1, <2>2, <1>a DEF Inv, TypeOK, EveryProducerIsKnown, ListedProducersAreOpen, Members
<1>11. TidyLeaversLeaveNothing'
  BY <1>a, <1>k, <1>m DEF Inv, TidyLeaversLeaveNothing
<1> QED
  BY <1>1, <1>2, <1>3, <1>4, <1>5, <1>6, <1>7, <1>8, <1>9, <1>10, <1>11 DEF Inv

LEMMA ProducerPausedKeeps == ASSUME Inv, ProducerPaused PROVE Inv'
<1>0. PICK r, k0, u0 : r = Head(channel) /\ k0 = r.k /\ u0 = participants[r.p].user
  OBVIOUS
<1>e0. PICK e : e = [producers[k0] EXCEPT !.paused = (r.op = "pause")]
  OBVIOUS
<1>a. /\ Answer({"pause", "resume"})
      /\ producers' = [producers EXCEPT ![k0] = e]
      /\ heard' = [v \in User |-> IF v \in inRoom \ {u0} THEN [heard[v] EXCEPT ![k0] = r.op]
                                  ELSE heard[v]]
      /\ UNCHANGED <<up, room, participants, member, transports, consumers, inRoom, left, known>>
  BY <1>0, <1>e0 DEF ProducerPaused, roomVars
<1>b. /\ r \in Request /\ r.op \in {"pause", "resume"} /\ Backed(r)
      /\ channel' \in Seq(Request)
      /\ \A i \in DOMAIN channel' : i + 1 \in DOMAIN channel /\ channel'[i] = channel[i + 1]
  BY <1>0, <1>a, AnswerEffect
<1>d. k0 \in DOMAIN producers /\ transports[producers[k0].t].owner = u0
  BY <1>0, <1>b DEF Backed
<1>f. producers \in Seq([t : 1..MaxTransports, open : BOOLEAN, paused : BOOLEAN])
  BY DEF Inv, TypeOK
<1>e. producers[k0] \in [t : 1..MaxTransports, open : BOOLEAN, paused : BOOLEAN]
  BY <1>d, Shapes DEF Inv
<1>g. /\ e \in [t : 1..MaxTransports, open : BOOLEAN, paused : BOOLEAN]
      /\ e.t = producers[k0].t /\ e.open = producers[k0].open /\ e.paused = (r.op = "pause")
  BY <1>e, <1>e0
<1>h. /\ producers' \in Seq([t : 1..MaxTransports, open : BOOLEAN, paused : BOOLEAN])
      /\ Len(producers') = Len(producers) /\ DOMAIN producers' = DOMAIN producers
      /\ producers'[k0] = e
      /\ \A k \in DOMAIN producers : k # k0 => producers'[k] = producers[k]
  BY <1>a, <1>d, <1>f, <1>g, SetEffect
<1>m. \A k \in DOMAIN producers : /\ producers'[k].t = producers[k].t
                                  /\ producers'[k].open = producers[k].open
  BY <1>g, <1>h
<1>n. k0 \in 1..MaxProducers
  BY <1>0, <1>b DEF Request
<1>i. heard \in [User -> [1..MaxProducers -> {"nothing", "pause", "resume"}]]
  BY DEF Inv, TypeOK
<1>j. ASSUME NEW v \in User
      PROVE  /\ heard'[v] \in [1..MaxProducers -> {"nothing", "pause", "resume"}]
             /\ \A k \in 1..MaxProducers : k # k0 => heard'[v][k] = heard[v][k]
             /\ v \in inRoom \ {u0} => heard'[v][k0] = r.op
             /\ v \notin inRoom \ {u0} => heard'[v][k0] = heard[v][k0]
  <2>1. heard[v] \in [1..MaxProducers -> {"nothing", "pause", "resume"}]
    BY <1>i
  <2>2. heard'[v] = IF v \in inRoom \ {u0} THEN [heard[v] EXCEPT ![k0] = r.op] ELSE heard[v]
    BY <1>a
  <2> QED
    BY <2>1, <2>2, <1>b, <1>n
<1>1. TypeOK'
  <2>1. heard' \in [User -> [1..MaxProducers -> {"nothing", "pause", "resume"}]]
    BY <1>a, <1>j
  <2> QED
    BY <2>1, <1>a, <1>b, <1>h DEF Inv, TypeOK
<1>2. (Lengths /\ MembersOwn /\ SlotsOwned /\ ConsumersKnown)'
  BY <1>a, <1>h DEF Inv, Lengths, MembersOwn, SlotsOwned, ConsumersKnown
<1>3. ProducersOwned'
  BY <1>a, <1>h, <1>m DEF Inv, ProducersOwned
<1>4. RequestsBacked'
  <2>1. ASSUME NEW i \in DOMAIN channel', NEW x, x = channel'[i] PROVE Backed(x)'
    <3>1. Backed(x)
      BY <2>1, <1>b DEF Inv, RequestsBacked
    <3> QED
      BY <3>1, <1>a, <1>h, <1>m DEF Backed
  <2> QED
    BY <2>1 DEF RequestsBacked, Backed
<1>5. MembersUsable'
  BY <1>a, <1>b DEF Inv, MembersUsable, Usable, Current, Of
<1>o. \A k \in DOMAIN producers : k \in 1..MaxProducers
  BY Shapes, BoundsAssumption DEF Inv, Lengths
<1>p. ASSUME NEW k \in DOMAIN producers, NEW w, w = transports[producers[k].t].owner
      PROVE  w \in User /\ heard[w][k] = "nothing"
  <2>1. producers[k].t \in DOMAIN transports
    BY DEF Inv, ProducersOwned
  <2>2. transports[producers[k].t] \in [owner : User, open : BOOLEAN]
    BY <2>1, Shapes DEF Inv
  <2> QED
    BY <2>2, <1>o, <1>p DEF Inv, OwnersHearNothing
<1>6. OwnersHearNothing'
  <2>1. ASSUME NEW k \in 1..MaxProducers, k \notin DOMAIN producers, NEW v \in User
        PROVE  heard'[v][k] = "nothing"
    BY <2>1, <1>d, <1>j DEF Inv, OwnersHearNothing
  <2>2. ASSUME NEW k \in DOMAIN producers, NEW w, w = transports[producers[k].t].owner
        PROVE  heard'[w][k] = "nothing"
    <3>1. w \in User /\ heard[w][k] = "nothing"
      BY <2>2, <1>p
    <3>2. k = k0 => w = u0
      BY <2>2, <1>d
    <3> QED
      BY <3>1, <3>2, <1>j, <1>o
  <2> QED
    BY <2>1, <2>2, <1>a, <1>h, <1>m DEF OwnersHearNothing
<1>7. ClosesPending'
  BY <1>a, <1>m, ClosesStayPending
<1>8. (EveryProducerIsKnown /\ TidyLeaversLeaveNothing)'
  <2>1. EveryProducerIsKnown'
    BY <1>a DEF Inv, EveryProducerIsKnown, Listed, Members, Of
  <2>2. \A x \in DOMAIN participants : \A k \in participants[x].producers :
            producers'[k].open = producers[k].open
    BY <1>m DEF Inv, ProducersOwned
  <2> QED
    BY <2>1, <2>2, <1>a DEF Inv, TidyLeaversLeaveNothing
<1>9. ListedProducersAreOpen'
  <2>1. ASSUME NEW u \in User, member[u] # 0, NEW k \in Of(u).producers
        PROVE  producers'[k].open
    <3>1. k \in DOMAIN producers /\ producers[k].open
      BY <2>1, MemberInRange DEF Inv, ProducersOwned, ListedProducersAreOpen, Members, Of
    <3> QED
      BY <3>1, <1>m
  <2> QED
    BY <2>1, <1>a DEF ListedProducersAreOpen, Members, Of
<1>10. LastWordIsTrue'
  <2>1. ASSUME NEW u \in inRoom, NEW k \in DOMAIN producers
        PROVE  heard'[u][k] = "nothing" \/ (heard'[u][k] = "pause") = producers'[k].paused
    <3>1. u \in User
      BY DEF Inv, TypeOK
    <3>2. CASE k # k0
      BY <3>1, <3>2, <1>h, <1>j, <1>o DEF Inv, LastWordIsTrue
    <3>3. CASE k = k0 /\ u # u0
      BY <3>1, <3>3, <1>g, <1>h, <1>j
    <3>4. CASE k = k0 /\ u = u0
      BY <3>1, <3>4, <1>d, <1>j, <1>p
    <3> QED
      BY <3>2, <3>3, <3>4
  <2> QED
    BY <2>1, <1>a, <1>h DEF LastWordIsTrue
<1> QED
  BY <1>1, <1>2, <1>3, <1>4, <1>5, <1>6, <1>7, <1>8, <1>9, <1>10 DEF Inv

LEMMA ConsumersClosedKeeps == ASSUME Inv, ConsumersClosed PROVE Inv'
<1>0. PICK r, gone : r = Head(channel) /\ gone = {c \in DOMAIN consumers : consumers[c].k \in r.ks}
  OBVIOUS
<1>a. /\ Answer({"closed"})
      /\ participants' = [x \in DOMAIN participants |->
             [participants[x] EXCEPT !.consumers = participants[x].consumers \ gone]]
      /\ UNCHANGED <<up, room, member, transports, producers, consumers, inRoom, left, known, heard>>
  BY <1>0 DEF ConsumersClosed, mediaVars, clientVars
<1>b. /\ r \in Request /\ r.op = "closed"
      /\ channel' \in Seq(Request)
      /\ \A i \in DOMAIN channel' : i \in Nat /\ i + 1 \in DOMAIN channel
                                    /\ channel'[i] = channel[i + 1]
  BY <1>0, <1>a, AnswerEffect
<1>c. ASSUME NEW x \in DOMAIN participants
      PROVE  /\ participants'[x] \in Participant
             /\ participants'[x].consumers = participants[x].consumers \ gone
             /\ participants'[x].user = participants[x].user
             /\ participants'[x].producers = participants[x].producers
             /\ participants'[x].tidy = participants[x].tidy
             /\ participants'[x].send = participants[x].send
             /\ participants'[x].recv = participants[x].recv
  <2>1. participants[x] \in Participant
    BY Shapes DEF Inv
  <2> QED
    BY <2>1, <1>a DEF Participant
<1>k. /\ participants' \in Seq(Participant) /\ Len(participants') = Len(participants)
      /\ DOMAIN participants' = DOMAIN participants
  <2>1. participants \in Seq(Participant)
    BY DEF Inv, TypeOK
  <2>2. DOMAIN participants' = DOMAIN participants
        /\ participants' = [x \in DOMAIN participants |-> participants'[x]]
    BY <1>a
  <2> QED
    BY <2>1, <2>2, <1>c, UpdateEffect
<1>o. \A u \in User : member[u] # 0 => member[u] \in DOMAIN participants
                                       /\ participants[member[u]].user = u
  BY Shapes DEF Inv, MembersOwn
<1>1. TypeOK'
  BY <1>a, <1>b, <1>k DEF Inv, TypeOK
<1>2. (Lengths /\ MembersOwn /\ SlotsOwned /\ ProducersOwned /\ ConsumersKnown)'
  <2>1. (Lengths /\ MembersOwn)'
    BY <1>a, <1>c, <1>k, <1>o DEF Inv, Lengths, MembersOwn
  <2>2. SlotsOwned'
    BY <1>a, <1>c, <1>k DEF Inv, SlotsOwned
  <2>4. ProducersOwned'
    BY <1>a, <1>c, <1>k DEF Inv, ProducersOwned
  <2>3. ConsumersKnown'
    BY <1>a, <1>c, <1>k DEF Inv, ConsumersKnown
  <2> QED
    BY <2>1, <2>2, <2>3, <2>4
<1>3. RequestsBacked'
  <2>1. ASSUME NEW i \in DOMAIN channel', NEW x, x = channel'[i] PROVE Backed(x)'
    <3>1. Backed(x)
      BY <2>1, <1>b DEF Inv, RequestsBacked
    <3> QED
      BY <3>1, <1>a, <1>c, <1>k DEF Backed
  <2> QED
    BY <2>1 DEF RequestsBacked, Backed
<1>4. MembersUsable'
  <2>1. ASSUME NEW i \in DOMAIN channel', NEW x, x = channel'[i] PROVE Usable(x)'
    <3>1. Usable(x) /\ Backed(x)
      BY <2>1, <1>b DEF Inv, MembersUsable, RequestsBacked
    <3>2. x.op \in {"transport", "produce"} => (Current(x.p)' <=> Current(x.p))
      BY <3>1, <1>a, <1>c DEF Backed, Current
    <3> QED
      BY <3>1, <3>2, <1>a DEF Usable, Backed
  <2>2. ASSUME room = "open", NEW u \in User, member[u] # 0, NEW x, x = member[u],
               participants'[x].send # 0
        PROVE  transports'[participants'[x].send].open
    BY <2>2, <1>a, <1>c, <1>o DEF Inv, MembersUsable, Of
  <2>3. room = "none" => \A u \in User : member[u] = 0
    BY DEF Inv, MembersUsable
  <2>4. room = "dead" => \A i \in DOMAIN channel' : channel'[i].op = "closed"
    BY <1>b DEF Inv, MembersUsable
  <2> QED
    BY <1>a, <2>1, <2>2, <2>3, <2>4 DEF MembersUsable, Of, Usable, Current
<1>5. OwnersHearNothing' /\ LastWordIsTrue'
  BY <1>a DEF Inv, OwnersHearNothing, LastWordIsTrue
<1>6. ClosesPending'
  <2>a. channel \in Seq(Request) /\ channel # <<>> /\ channel' = Tail(channel)
    BY <1>a DEF Inv, TypeOK, Answer
  <2>1. ASSUME room = "open", NEW u \in User, member[u] # 0, NEW x, x = member[u],
               NEW c \in participants'[x].consumers, NEW k, k = consumers[c].k,
               ~producers[k].open
        PROVE  CloseFollows(k, 0)'
    <3>1. c \in participants[x].consumers /\ c \notin gone
      BY <2>1, <1>c, <1>o
    <3>2. c \in DOMAIN consumers
      BY <2>1, <3>1, <1>o DEF Inv, ConsumersKnown
    <3>3. k \notin Head(channel).ks
      BY <2>1, <3>1, <3>2, <1>0
    <3>4. CloseFollows(k, 0)
      BY <2>1, <3>1 DEF Inv, ClosesPending, Of
    <3> QED
      BY <2>a, <3>3, <3>4, CloseShifts
  <2>2. ASSUME room = "open", NEW i \in DOMAIN channel', channel'[i].op = "consume",
               NEW x, x = channel'[i].p, member[participants'[x].user] = x,
               NEW k, k = channel'[i].k, ~producers[k].open
        PROVE  CloseFollows(k, i)'
    <3>1. i \in Nat /\ i + 1 \in DOMAIN channel /\ channel'[i] = channel[i + 1]
      BY <1>b, <2>2
    <3>2. Backed(channel[i + 1])
      BY <3>1 DEF Inv, RequestsBacked
    <3>3. Current(channel[i + 1].p)
      BY <2>2, <3>1, <3>2, <1>c DEF Backed, Current
    <3>4. CloseFollows(k, i + 1)
      BY <2>2, <3>1, <3>3, Zenon DEF Inv, ClosesPending
    <3> QED
      BY <2>a, <3>1, <3>4, CloseShifts
  <2> QED
    BY <2>1, <2>2, <1>a DEF ClosesPending, Of, Current, CloseFollows
<1>7. EveryProducerIsKnown' /\ ListedProducersAreOpen'
  <2>1. \A u \in User : member[u] # 0 => Of(u)'.producers = Of(u).producers
    BY <1>a, <1>c, <1>o DEF Of
  <2>2. Members' = Members /\ \A u \in User : Listed(u)' = Listed(u)
    BY <2>1, <1>a DEF Listed, Members
  <2> QED
    BY <2>1, <2>2, <1>a DEF Inv, TypeOK, EveryProducerIsKnown, ListedProducersAreOpen, Members
<1>8. TidyLeaversLeaveNothing'
  <2>1. ASSUME NEW x \in DOMAIN participants', NEW q, q = participants[x],
               member'[participants'[x].user] # x, participants'[x].tidy
        PROVE  /\ \A t \in {participants'[x].send, participants'[x].recv} \cap DOMAIN transports' :
                       ~transports'[t].open
               /\ \A k \in participants'[x].producers : ~producers'[k].open
    <3>1. x \in DOMAIN participants /\ member[q.user] # x /\ q.tidy
      BY <2>1, <1>a, <1>c, <1>k
    <3>2. /\ \A t \in {q.send, q.recv} \cap DOMAIN transports : ~transports[t].open
          /\ \A k \in q.producers : ~producers[k].open
      BY <2>1, <3>1 DEF Inv, TidyLeaversLeaveNothing
    <3> QED
      BY <2>1, <3>1, <3>2, <1>a, <1>c
  <2> QED
    BY <2>1 DEF TidyLeaversLeaveNothing
<1> QED
  BY <1>1, <1>2, <1>3, <1>4, <1>5, <1>6, <1>7, <1>8 DEF Inv

-----------------------------------------------------------------------------
(* Joining *)

LEMMA JoinKeeps == ASSUME Inv, NEW u \in User, Join(u) PROVE Inv'
<1>0. PICK n, o, f :
          /\ n = Len(participants) + 1
          /\ o = [user |-> u, send |-> 0, recv |-> 0, producers |-> {}, consumers |-> {},
                  tidy |-> TRUE]
          /\ f = [x \in DOMAIN participants |->
                     [participants[x] EXCEPT !.tidy = participants[x].tidy /\ x # member[u]]]
  OBVIOUS
<1>a. /\ Len(participants) < MaxParticipants
      /\ room' = (IF room = "none" THEN "open" ELSE room)
      /\ participants' = Append(f, o)
      /\ member' = [member EXCEPT ![u] = n]
      /\ inRoom' = inRoom \cup {u}
      /\ known' = [known EXCEPT ![u] = Listed(u)]
      /\ heard' = [heard EXCEPT ![u] = Nothing]
      /\ UNCHANGED <<up, transports, producers, consumers, channel, left>>
  BY <1>0 DEF Join, mediaVars
<1>b. participants \in Seq(Participant) /\ \A x \in DOMAIN participants : participants[x] \in Participant
  BY Shapes DEF Inv, TypeOK
<1>c. ASSUME NEW x \in DOMAIN participants
      PROVE  /\ f[x] \in Participant
             /\ f[x].user = participants[x].user /\ f[x].send = participants[x].send
             /\ f[x].recv = participants[x].recv /\ f[x].producers = participants[x].producers
             /\ f[x].consumers = participants[x].consumers
             /\ f[x].tidy = (participants[x].tidy /\ x # member[u])
  BY <1>0, <1>b DEF Participant
<1>d. f \in Seq(Participant) /\ Len(f) = Len(participants) /\ DOMAIN f = DOMAIN participants
  <2>1. DOMAIN f = DOMAIN participants /\ f = [x \in DOMAIN participants |-> f[x]]
    BY <1>0
  <2> QED
    BY <2>1, <1>b, <1>c, UpdateEffect
<1>e. /\ o \in Participant /\ o.user = u /\ o.send = 0 /\ o.recv = 0
      /\ o.producers = {} /\ o.consumers = {}
  BY <1>0, BoundsAssumption DEF Participant
<1>k. /\ participants' \in Seq(Participant) /\ Len(participants') = n
      /\ DOMAIN participants' = DOMAIN participants \cup {n} /\ n \notin DOMAIN participants
      /\ participants'[n] = o
      /\ \A x \in DOMAIN participants : participants'[x] = f[x]
  BY <1>0, <1>a, <1>d, <1>e, AppendEffect
<1>m. \A x \in DOMAIN participants :
          /\ participants'[x].user = participants[x].user
          /\ participants'[x].send = participants[x].send
          /\ participants'[x].recv = participants[x].recv
          /\ participants'[x].producers = participants[x].producers
          /\ participants'[x].consumers = participants[x].consumers
          /\ participants'[x].tidy = (participants[x].tidy /\ x # member[u])
  BY <1>c, <1>k
<1>n. /\ member'[u] = n /\ n \in Nat /\ n # 0 /\ n \in 0..Len(participants')
      /\ \A v \in User : v # u => member'[v] = member[v]
  BY <1>0, <1>a, <1>b, <1>k DEF Inv, TypeOK
<1>o. \A v \in User : member[v] # 0 => member[v] \in DOMAIN participants
                                       /\ participants[member[v]].user = v
  BY Shapes DEF Inv, MembersOwn
<1>p. \A x \in DOMAIN participants : Current(x)' => Current(x) /\ participants[x].user # u
                                                   /\ participants[x].user \in User /\ x # 0
  <2>1. \A x \in DOMAIN participants : participants[x].user \in User /\ x # n /\ x # 0
    BY <1>b, <1>k, Shapes DEF Inv, Participant
  <2> QED
    BY <2>1, <1>m, <1>n DEF Current
<1>r. room = "none" => \A v \in User : member[v] = 0
  BY DEF Inv, MembersUsable
<1>l. Listed(u) \subseteq 1..MaxProducers
  <2>1. \A v \in User : member[v] # 0 => Of(v).producers \subseteq 1..MaxProducers
    BY <1>b, <1>o DEF Of, Participant
  <2> QED
    BY <2>1 DEF Listed, Members
<1>1. TypeOK'
  <2>1. member' \in [User -> 0..Len(participants')]
    <3>1. \A v \in User : member'[v] \in 0..Len(participants')
      BY <1>0, <1>k, <1>n, Shapes DEF Inv
    <3> QED
      BY <3>1, <1>a DEF Inv, TypeOK
  <2>2. known' \in [User -> SUBSET (1..MaxProducers)]
    BY <1>a, <1>l DEF Inv, TypeOK
  <2>3. heard' \in [User -> [1..MaxProducers -> {"nothing", "pause", "resume"}]]
    BY <1>a DEF Inv, TypeOK, Nothing
  <2> QED
    BY <2>1, <2>2, <2>3, <1>a, <1>k DEF Inv, TypeOK
<1>2. Lengths'
  BY <1>0, <1>a, <1>b, <1>k, BoundsAssumption DEF Inv, Lengths
<1>3. MembersOwn'
  BY <1>e, <1>k, <1>m, <1>n, <1>o DEF MembersOwn
<1>4. SlotsOwned'
  BY <1>a, <1>e, <1>k, <1>m DEF Inv, SlotsOwned
<1>5. ProducersOwned'
  BY <1>a, <1>e, <1>k, <1>m DEF Inv, ProducersOwned
<1>6. ConsumersKnown'
  BY <1>a, <1>e, <1>k, <1>m DEF Inv, ConsumersKnown
<1>7. RequestsBacked'
  <2>1. ASSUME NEW i \in DOMAIN channel, NEW x, x = channel[i] PROVE Backed(x)'
    <3>1. Backed(x)
      BY <2>1 DEF Inv, RequestsBacked
    <3> QED
      BY <3>1, <1>a, <1>k, <1>m DEF Backed
  <2> QED
    BY <2>1, <1>a DEF RequestsBacked, Backed
<1>8. MembersUsable'
  <2>1. ASSUME NEW i \in DOMAIN channel, NEW x, x = channel[i] PROVE Usable(x)'
    <3>1. Usable(x) /\ Backed(x)
      BY <2>1 DEF Inv, MembersUsable, RequestsBacked
    <3>2. x.op \in {"transport", "produce"} => (Current(x.p)' => Current(x.p))
      BY <3>1, <1>p DEF Backed
    <3> QED
      BY <3>1, <3>2, <1>a DEF Usable, Backed
  <2>2. ASSUME room' = "open", NEW v \in User, NEW x, x = member'[v], x # 0,
               participants'[x].send # 0
        PROVE  transports[participants'[x].send].open
    <3>1. v # u
      BY <2>2, <1>e, <1>k, <1>n
    <3>2. x = member[v] /\ room = "open"
      BY <2>2, <3>1, <1>a, <1>n, <1>r
    <3>3. x \in DOMAIN participants
      BY <2>2, <3>2, <1>o
    <3>4. participants'[x].send = participants[x].send
      BY <3>3, <1>m
    <3> QED
      BY <2>2, <3>2, <3>4 DEF Inv, MembersUsable, Of
  <2>3. room' # "none" /\ (room' = "dead" => room = "dead")
    BY <1>a
  <2> QED
    BY <2>1, <2>2, <2>3, <1>a DEF Inv, MembersUsable, Of, Usable, Current
<1>9. OwnersHearNothing'
  <2>1. ASSUME NEW k \in 1..MaxProducers, NEW v \in User
        PROVE  heard'[v][k] = IF v = u THEN "nothing" ELSE heard[v][k]
    BY <1>a DEF Inv, TypeOK, Nothing
  <2>2. ASSUME NEW k \in DOMAIN producers
        PROVE  transports[producers[k].t].owner \in User
    BY Shapes DEF Inv, ProducersOwned
  <2> QED
    BY <2>1, <2>2, <1>a DEF Inv, OwnersHearNothing
<1>10. ClosesPending'
  <2>1. ASSUME room' = "open", NEW v \in User, NEW x, x = member'[v], x # 0,
               NEW c \in participants'[x].consumers, NEW k, k = consumers[c].k,
               ~producers[k].open
        PROVE  CloseFollows(k, 0)
    <3>1. v # u
      BY <2>1, <1>e, <1>k, <1>n
    <3>2. x = member[v] /\ room = "open"
      BY <2>1, <3>1, <1>a, <1>n, <1>r
    <3>3. x \in DOMAIN participants
      BY <2>1, <3>2, <1>o
    <3>4. c \in participants[x].consumers
      BY <2>1, <3>3, <1>m
    <3> QED
      BY <2>1, <3>2, <3>4 DEF Inv, ClosesPending, Of
  <2>2. ASSUME room' = "open", NEW i \in DOMAIN channel, channel[i].op = "consume",
               NEW x, x = channel[i].p, member'[participants'[x].user] = x,
               NEW k, k = channel[i].k, ~producers[k].open
        PROVE  CloseFollows(k, i)
    <3>1. Backed(channel[i])
      BY DEF Inv, RequestsBacked
    <3>2. Current(x) /\ x # 0 /\ participants[x].user \in User
      BY <2>2, <3>1, <1>p DEF Backed, Current
    <3>3. room = "open"
      BY <2>2, <3>2, <1>a, <1>r DEF Current
    <3> QED
      BY <2>2, <3>2, <3>3 DEF Inv, ClosesPending
  <2>3. UNCHANGED <<producers, consumers, channel>>
    BY <1>a
  <2> QED
    BY <2>1, <2>2, <2>3 DEF ClosesPending, Of, Current, CloseFollows
<1>11. EveryProducerIsKnown'
  <2>1. ASSUME NEW v \in User, NEW w \in User, member'[w] # 0, w # v,
               NEW k \in participants'[member'[w]].producers
        PROVE  k \in Listed(v)
    <3>1. w # u
      BY <2>1, <1>e, <1>k, <1>n
    <3>2. member'[w] = member[w] /\ member[w] \in DOMAIN participants
      BY <2>1, <3>1, <1>n, <1>o
    <3>3. k \in Of(w).producers
      BY <2>1, <3>2, <1>m DEF Of
    <3> QED
      BY <2>1, <3>2, <3>3 DEF Listed, Members
  <2>2. \A v \in User : Listed(v)' \subseteq Listed(v)
    BY <2>1 DEF Listed, Members, Of
  <2>3. known'[u] = Listed(u) /\ \A v \in User : v # u => known'[v] = known[v]
    BY <1>a DEF Inv, TypeOK
  <2>4. inRoom \subseteq User
    BY DEF Inv, TypeOK
  <2> QED
    BY <2>2, <2>3, <2>4, <1>a DEF Inv, EveryProducerIsKnown
<1>12. ListedProducersAreOpen'
  <2>1. ASSUME NEW v \in User, NEW x, x = member'[v], x # 0, NEW k \in participants'[x].producers
        PROVE  producers[k].open
    <3>1. v # u
      BY <2>1, <1>e, <1>k, <1>n
    <3>2. x = member[v] /\ x \in DOMAIN participants
      BY <2>1, <3>1, <1>n, <1>o
    <3>3. k \in participants[x].producers
      BY <2>1, <3>2, <1>m
    <3> QED
      BY <2>1, <3>2, <3>3 DEF Inv, ListedProducersAreOpen, Members, Of
  <2> QED
    BY <2>1, <1>a DEF ListedProducersAreOpen, Members, Of
<1>13. LastWordIsTrue'
  <2>1. \A k \in DOMAIN producers : k \in 1..MaxProducers
    BY Shapes, BoundsAssumption DEF Inv, Lengths
  <2>2. \A k \in DOMAIN producers : heard'[u][k] = "nothing"
    BY <2>1, <1>a DEF Inv, TypeOK, Nothing
  <2>3. \A v \in User : v # u => heard'[v] = heard[v]
    BY <1>a DEF Inv, TypeOK
  <2> QED
    BY <2>2, <2>3, <1>a DEF Inv, TypeOK, LastWordIsTrue
<1>14. TidyLeaversLeaveNothing'
  <2>1. ASSUME NEW x \in DOMAIN participants, member'[participants'[x].user] # x,
               participants'[x].tidy
        PROVE  member[participants[x].user] # x /\ participants[x].tidy
    <3>1. participants[x].user \in User
      BY <1>b DEF Participant
    <3>2. participants[x].tidy /\ x # member[u]
      BY <2>1, <1>m
    <3>3. participants'[x].user = participants[x].user
      BY <1>m
    <3> QED
      BY <2>1, <3>1, <3>2, <3>3, <1>n
  <2>2. member'[participants'[n].user] = n
    BY <1>e, <1>k, <1>n
  <2> QED
    BY <2>1, <2>2, <1>a, <1>k, <1>m DEF Inv, TidyLeaversLeaveNothing
<1> QED
  BY <1>1, <1>2, <1>3, <1>4, <1>5, <1>6, <1>7, <1>8, <1>9, <1>10, <1>11, <1>12, <1>13, <1>14
     DEF Inv

\* A socket that leaves the Socket.IO room changes nothing of the call room.
LEMMA SocketGoneKeeps ==
  ASSUME Inv, inRoom' \subseteq inRoom, left' \subseteq User,
         UNCHANGED <<up, roomVars, mediaVars, channel, known, heard>>
  PROVE  Inv'
<1>a. UNCHANGED <<up, room, participants, member, transports, producers, consumers, channel,
                  known, heard>>
  BY DEF roomVars, mediaVars
<1>1. TypeOK'
  BY <1>a DEF Inv, TypeOK
<1>2. (Lengths /\ MembersOwn /\ SlotsOwned /\ ProducersOwned /\ ConsumersKnown)'
  BY <1>a DEF Inv, Lengths, MembersOwn, SlotsOwned, ProducersOwned, ConsumersKnown
<1>3. (RequestsBacked /\ MembersUsable)'
  BY <1>a DEF Inv, RequestsBacked, Backed, MembersUsable, Usable, Current, Of
<1>4. (OwnersHearNothing /\ ClosesPending)'
  BY <1>a DEF Inv, OwnersHearNothing, ClosesPending, CloseFollows, Current, Of
<1>5. (EveryProducerIsKnown /\ ListedProducersAreOpen /\ LastWordIsTrue
         /\ TidyLeaversLeaveNothing)'
  BY <1>a DEF Inv, EveryProducerIsKnown, ListedProducersAreOpen, LastWordIsTrue,
         TidyLeaversLeaveNothing, Listed, Members, Of
<1> QED
  BY <1>1, <1>2, <1>3, <1>4, <1>5 DEF Inv

-----------------------------------------------------------------------------
(* Closing *)

LEMMA CloseEffect ==
  ASSUME Inv, NEW ts, NEW ks, Close(ts, ks)
  PROVE  /\ transports' \in Seq([owner : User, open : BOOLEAN])
         /\ Len(transports') = Len(transports) /\ DOMAIN transports' = DOMAIN transports
         /\ \A t \in DOMAIN transports :
                /\ transports'[t].owner = transports[t].owner
                /\ transports'[t].open <=> transports[t].open /\ t \notin ts
         /\ producers' \in Seq([t : 1..MaxTransports, open : BOOLEAN, paused : BOOLEAN])
         /\ Len(producers') = Len(producers) /\ DOMAIN producers' = DOMAIN producers
         /\ \A k \in DOMAIN producers :
                /\ producers'[k].t = producers[k].t
                /\ producers'[k].paused = producers[k].paused
                /\ producers'[k].open <=> producers[k].open /\ k \notin ks
<1>1. ASSUME NEW t \in DOMAIN transports
      PROVE  /\ transports'[t] \in [owner : User, open : BOOLEAN]
             /\ transports'[t].owner = transports[t].owner
             /\ transports'[t].open <=> transports[t].open /\ t \notin ts
  <2>1. transports[t] \in [owner : User, open : BOOLEAN]
    BY Shapes DEF Inv
  <2>2. transports'[t] = [transports[t] EXCEPT !.open = transports[t].open /\ t \notin ts]
    BY DEF Close
  <2> QED
    BY <2>1, <2>2
<1>2. ASSUME NEW k \in DOMAIN producers
      PROVE  /\ producers'[k] \in [t : 1..MaxTransports, open : BOOLEAN, paused : BOOLEAN]
             /\ producers'[k].t = producers[k].t
             /\ producers'[k].paused = producers[k].paused
             /\ producers'[k].open <=> producers[k].open /\ k \notin ks
  <2>1. producers[k] \in [t : 1..MaxTransports, open : BOOLEAN, paused : BOOLEAN]
    BY Shapes DEF Inv
  <2>2. producers'[k] = [producers[k] EXCEPT !.open = producers[k].open /\ k \notin ks]
    BY DEF Close
  <2> QED
    BY <2>1, <2>2
<1>3. /\ transports' \in Seq([owner : User, open : BOOLEAN])
      /\ Len(transports') = Len(transports) /\ DOMAIN transports' = DOMAIN transports
  <2>1. transports \in Seq([owner : User, open : BOOLEAN])
    BY DEF Inv, TypeOK
  <2>2. DOMAIN transports' = DOMAIN transports
        /\ transports' = [t \in DOMAIN transports |-> transports'[t]]
    BY DEF Close
  <2> QED
    BY <1>1, <2>1, <2>2, UpdateEffect
<1>4. /\ producers' \in Seq([t : 1..MaxTransports, open : BOOLEAN, paused : BOOLEAN])
      /\ Len(producers') = Len(producers) /\ DOMAIN producers' = DOMAIN producers
  <2>1. producers \in Seq([t : 1..MaxTransports, open : BOOLEAN, paused : BOOLEAN])
    BY DEF Inv, TypeOK
  <2>2. DOMAIN producers' = DOMAIN producers
        /\ producers' = [k \in DOMAIN producers |-> producers'[k]]
    BY DEF Close
  <2> QED
    BY <1>2, <2>1, <2>2, UpdateEffect
<1> QED
  BY <1>1, <1>2, <1>3, <1>4

LEMMA ForgottenEffect ==
  ASSUME Inv, NEW ks, participants' = Forgotten(ks)
  PROVE  /\ participants' \in Seq(Participant) /\ Len(participants') = Len(participants)
         /\ DOMAIN participants' = DOMAIN participants
         /\ \A x \in DOMAIN participants :
                /\ participants'[x].user = participants[x].user
                /\ participants'[x].send = participants[x].send
                /\ participants'[x].recv = participants[x].recv
                /\ participants'[x].tidy = participants[x].tidy
                /\ participants'[x].consumers = participants[x].consumers
                /\ participants'[x].producers = participants[x].producers \ ks
<1>1. ASSUME NEW x \in DOMAIN participants
      PROVE  /\ participants'[x] \in Participant
             /\ participants'[x].user = participants[x].user
             /\ participants'[x].send = participants[x].send
             /\ participants'[x].recv = participants[x].recv
             /\ participants'[x].tidy = participants[x].tidy
             /\ participants'[x].consumers = participants[x].consumers
             /\ participants'[x].producers = participants[x].producers \ ks
  <2>1. participants[x] \in Participant
    BY Shapes DEF Inv
  <2>2. participants'[x] =
            [participants[x] EXCEPT !.producers = participants[x].producers \ ks]
    BY DEF Forgotten
  <2> QED
    BY <2>1, <2>2 DEF Participant
<1>2. participants \in Seq(Participant)
  BY DEF Inv, TypeOK
<1>3. DOMAIN participants' = DOMAIN participants
      /\ participants' = [x \in DOMAIN participants |-> participants'[x]]
  BY DEF Forgotten
<1> QED
  BY <1>1, <1>2, <1>3, UpdateEffect

\* What every closing keeps, whoever leaves or dies.
LEMMA ClosingKeeps ==
  ASSUME Inv, NEW ts, NEW ks, Close(ts, ks), participants' = Forgotten(ks),
         UNCHANGED <<consumers, known, heard>>,
         \A u \in User : member'[u] \in {member[u], 0}, inRoom' \subseteq inRoom
  PROVE  /\ (Lengths /\ MembersOwn /\ SlotsOwned /\ ProducersOwned /\ ConsumersKnown)'
         /\ (OwnersHearNothing /\ EveryProducerIsKnown /\ LastWordIsTrue)'
         /\ \A x : Backed(x) => Backed(x)'
<1>a. /\ DOMAIN transports' = DOMAIN transports /\ Len(transports') = Len(transports)
      /\ DOMAIN producers' = DOMAIN producers /\ Len(producers') = Len(producers)
      /\ DOMAIN participants' = DOMAIN participants /\ Len(participants') = Len(participants)
  BY CloseEffect, ForgottenEffect
<1>b. \A x \in DOMAIN participants :
          /\ participants'[x].user = participants[x].user
          /\ participants'[x].send = participants[x].send
          /\ participants'[x].recv = participants[x].recv
          /\ participants'[x].tidy = participants[x].tidy
          /\ participants'[x].consumers = participants[x].consumers
          /\ participants'[x].producers \subseteq participants[x].producers
  BY ForgottenEffect
<1>c. \A t \in DOMAIN transports : transports'[t].owner = transports[t].owner
  BY CloseEffect
<1>d. \A k \in DOMAIN producers : /\ producers'[k].t = producers[k].t
                                  /\ producers'[k].paused = producers[k].paused
  BY CloseEffect
<1>e. UNCHANGED <<consumers, known, heard>>
  OBVIOUS
<1>o. \A v \in User : member[v] # 0 => member[v] \in DOMAIN participants
                                       /\ participants[member[v]].user = v
  BY Shapes DEF Inv, MembersOwn
<1>p. \A k \in DOMAIN producers : producers[k].t \in DOMAIN transports
  BY DEF Inv, ProducersOwned
<1>1. Lengths'
  BY <1>a, <1>e DEF Inv, Lengths
<1>2. MembersOwn'
  BY <1>b, <1>o DEF MembersOwn
<1>3. SlotsOwned'
  BY <1>a, <1>b, <1>c DEF Inv, SlotsOwned
<1>4. ProducersOwned'
  <2>1. ASSUME NEW x \in DOMAIN participants, NEW k \in participants'[x].producers
        PROVE  /\ k \in DOMAIN producers
               /\ transports'[producers'[k].t].owner = participants'[x].user
    <3>1. k \in participants[x].producers
      BY <2>1, <1>b
    <3>2. k \in DOMAIN producers /\ transports[producers[k].t].owner = participants[x].user
      BY <3>1 DEF Inv, ProducersOwned
    <3> QED
      BY <3>2, <1>b, <1>c, <1>d, <1>p
  <2>2. \A k \in DOMAIN producers : producers'[k].t \in DOMAIN transports
    BY <1>d, <1>p
  <2> QED
    BY <2>1, <2>2, <1>a DEF ProducersOwned
<1>5. ConsumersKnown'
  BY <1>a, <1>b, <1>e DEF Inv, ConsumersKnown
<1>6. OwnersHearNothing'
  BY <1>a, <1>c, <1>d, <1>e, <1>p DEF Inv, OwnersHearNothing
<1>7. EveryProducerIsKnown'
  <2>1. ASSUME NEW v \in inRoom, NEW w \in User, member'[w] # 0, w # v,
               NEW k \in participants'[member'[w]].producers
        PROVE  k \in known[v]
    <3>1. member'[w] = member[w] /\ member[w] \in DOMAIN participants
      BY <2>1, <1>o
    <3>2. k \in Of(w).producers
      BY <2>1, <3>1, <1>b DEF Of
    <3> QED
      BY <2>1, <3>1, <3>2 DEF Inv, EveryProducerIsKnown, Listed, Members
  <2> QED
    BY <2>1, <1>e DEF EveryProducerIsKnown, Listed, Members, Of
<1>8. LastWordIsTrue'
  BY <1>a, <1>d, <1>e DEF Inv, LastWordIsTrue
<1>9. \A x : Backed(x) => Backed(x)'
  BY <1>a, <1>b, <1>c, <1>d, <1>p DEF Backed
<1> QED
  BY <1>1, <1>2, <1>3, <1>4, <1>5, <1>6, <1>7, <1>8, <1>9

\* When the router closes with everything on it, no leaver leaves anything open.
LEMMA AllClosed ==
  ASSUME Inv, NEW ks, OnTransports(DOMAIN transports) \subseteq ks,
         Close(DOMAIN transports, ks), participants' = Forgotten(ks)
  PROVE  TidyLeaversLeaveNothing' /\ \A t \in DOMAIN transports' : ~transports'[t].open
<1>1. DOMAIN transports' = DOMAIN transports /\ \A t \in DOMAIN transports : ~transports'[t].open
  BY CloseEffect
<1>2. ASSUME NEW x \in DOMAIN participants, NEW k \in participants'[x].producers
      PROVE  ~producers'[k].open
  <2>1. k \in participants[x].producers /\ k \notin ks
    BY <1>2, ForgottenEffect
  <2>2. k \in DOMAIN producers /\ producers[k].t \in DOMAIN transports
    BY <2>1 DEF Inv, ProducersOwned
  <2>3. ~producers[k].open
    BY <2>1, <2>2 DEF OnTransports
  <2> QED
    BY <2>2, <2>3, CloseEffect
<1>3. DOMAIN participants' = DOMAIN participants
  BY ForgottenEffect
<1> QED
  BY <1>1, <1>2, <1>3 DEF TidyLeaversLeaveNothing

LEMMA WorkerDiedKeeps == ASSUME Inv, WorkerDied PROVE Inv'
<1>0. PICK ks : ks = OnTransports(DOMAIN transports)
  OBVIOUS
<1>a. /\ room' = "dead" /\ Close(DOMAIN transports, ks) /\ participants' = Forgotten(ks)
      /\ up' \in BOOLEAN /\ channel' = <<>>
      /\ UNCHANGED <<member, consumers, inRoom, left, known, heard>>
  BY <1>0 DEF WorkerDied, clientVars
<1>b. /\ participants' \in Seq(Participant) /\ Len(participants') = Len(participants)
      /\ transports' \in Seq([owner : User, open : BOOLEAN])
      /\ producers' \in Seq([t : 1..MaxTransports, open : BOOLEAN, paused : BOOLEAN])
  BY <1>a, CloseEffect, ForgottenEffect
<1>1. TypeOK'
  BY <1>a, <1>b DEF Inv, TypeOK
<1>2. /\ (Lengths /\ MembersOwn /\ SlotsOwned /\ ProducersOwned /\ ConsumersKnown)'
      /\ (OwnersHearNothing /\ EveryProducerIsKnown /\ LastWordIsTrue)'
  BY <1>a, ClosingKeeps
<1>3. (RequestsBacked /\ MembersUsable /\ ClosesPending)'
  BY <1>a DEF RequestsBacked, MembersUsable, ClosesPending
<1>4. TidyLeaversLeaveNothing'
  BY <1>0, <1>a, AllClosed
<1>5. ListedProducersAreOpen'
  <2>1. ASSUME NEW u \in User, member[u] # 0, NEW k \in participants'[member[u]].producers
        PROVE  FALSE
    <3>1. member[u] \in DOMAIN participants
      BY <2>1, Shapes DEF Inv
    <3>2. k \in participants[member[u]].producers /\ k \notin ks
      BY <2>1, <3>1, <1>a, ForgottenEffect
    <3>3. k \in DOMAIN producers /\ producers[k].t \in DOMAIN transports /\ producers[k].open
      BY <2>1, <3>1, <3>2 DEF Inv, ProducersOwned, ListedProducersAreOpen, Members, Of
    <3> QED
      BY <3>2, <3>3, <1>0 DEF OnTransports
  <2> QED
    BY <2>1, <1>a DEF ListedProducersAreOpen, Members, Of
<1> QED
  BY <1>1, <1>2, <1>3, <1>4, <1>5 DEF Inv

-----------------------------------------------------------------------------
(* Leaving *)

\* The last member leaves: the router closes.
LEMMA LastLeaves ==
  ASSUME Inv, NEW u \in User, member[u] # 0, Members = {u}, RemoveParticipant(u),
         inRoom' \subseteq inRoom, left' \subseteq User, UNCHANGED <<up, consumers, known, heard>>
  PROVE  Inv'
<1>0. PICK ks : ks = Of(u).producers \cup OnTransports(DOMAIN transports)
  OBVIOUS
<1>a. /\ Close(DOMAIN transports, ks) /\ participants' = Forgotten(ks)
      /\ member' = [member EXCEPT ![u] = 0] /\ room' = "none" /\ channel' = RouterClosed
  BY <1>0 DEF RemoveParticipant
<1>b. /\ participants' \in Seq(Participant) /\ Len(participants') = Len(participants)
      /\ DOMAIN participants' = DOMAIN participants
      /\ transports' \in Seq([owner : User, open : BOOLEAN])
      /\ producers' \in Seq([t : 1..MaxTransports, open : BOOLEAN, paused : BOOLEAN])
  BY <1>a, CloseEffect, ForgottenEffect
<1>m. \A x \in DOMAIN participants : participants'[x].user = participants[x].user
  BY <1>a, ForgottenEffect
<1>c. /\ member' \in [User -> 0..Len(participants')] /\ \A v \in User : member'[v] = 0
  <2>1. member \in [User -> 0..Len(participants)] /\ Len(participants) \in Nat
    BY Shapes DEF Inv, TypeOK
  <2>2. \A v \in User : v # u => member[v] = 0
    BY DEF Members
  <2> QED
    BY <2>1, <2>2, <1>a, <1>b
<1>d. ASSUME NEW i \in DOMAIN channel
      PROVE  /\ channel'[i] \in Request
             /\ channel'[i].op = channel[i].op
             /\ channel[i].op # "transport" => channel'[i] = channel[i]
             /\ channel[i].op = "transport" => channel'[i].p = channel[i].p
  <2>1. channel[i] \in Request
    BY Shapes DEF Inv
  <2>2. CASE channel[i].op = "transport"
    <3>1. channel[i] \in [op : {"transport"}, p : 1..MaxParticipants, dir : Direction,
                          live : BOOLEAN]
      BY <2>1, <2>2 DEF Request
    <3>2. channel'[i] = [channel[i] EXCEPT !.live = FALSE]
      BY <2>2, <1>a DEF RouterClosed
    <3>3. channel'[i] \in [op : {"transport"}, p : 1..MaxParticipants, dir : Direction,
                           live : BOOLEAN]
          /\ channel'[i].p = channel[i].p
      BY <3>1, <3>2
    <3> QED
      BY <2>2, <3>3 DEF Request
  <2>3. CASE channel[i].op # "transport"
    BY <2>1, <2>3, <1>a DEF RouterClosed
  <2> QED
    BY <2>2, <2>3
<1>e. channel' \in Seq(Request) /\ DOMAIN channel' = DOMAIN channel
  <2>1. channel \in Seq(Request)
    BY DEF Inv, TypeOK
  <2>2. DOMAIN channel' = DOMAIN channel /\ channel' = [i \in DOMAIN channel |-> channel'[i]]
    BY <1>a DEF RouterClosed
  <2> QED
    BY <2>1, <2>2, <1>d, UpdateEffect
<1>1. TypeOK'
  BY <1>a, <1>b, <1>c, <1>e DEF Inv, TypeOK
<1>2. /\ (Lengths /\ MembersOwn /\ SlotsOwned /\ ProducersOwned /\ ConsumersKnown)'
      /\ (OwnersHearNothing /\ EveryProducerIsKnown /\ LastWordIsTrue)'
      /\ \A x : Backed(x) => Backed(x)'
  BY <1>a, <1>c, ClosingKeeps
<1>3. RequestsBacked'
  <2>1. ASSUME NEW i \in DOMAIN channel, NEW x, x = channel'[i] PROVE Backed(x)'
    <3>1. Backed(channel[i])
      BY DEF Inv, RequestsBacked
    <3>2. Backed(x)
      BY <2>1, <3>1, <1>d DEF Backed
    <3> QED
      BY <3>2, <1>2
  <2> QED
    BY <2>1, <1>e DEF RequestsBacked, Backed
<1>4. MembersUsable'
  <2>1. ASSUME NEW i \in DOMAIN channel, NEW x, x = channel'[i] PROVE Usable(x)'
    <3>1. Backed(channel[i])
      BY DEF Inv, RequestsBacked
    <3>2. x.op \in {"transport", "produce"} => x.p \in DOMAIN participants
      BY <2>1, <3>1, <1>d DEF Backed
    <3>3. x.op \in {"transport", "produce"} => participants'[x.p].user \in User /\ x.p # 0
      BY <3>2, <1>m, Shapes DEF Inv, Participant
    <3> QED
      BY <3>3, <1>c DEF Usable, Current
  <2> QED
    BY <2>1, <1>a, <1>c, <1>e DEF MembersUsable, Usable, Current
<1>5. (ClosesPending /\ ListedProducersAreOpen)'
  BY <1>a, <1>c DEF ClosesPending, ListedProducersAreOpen, Members
<1>6. TidyLeaversLeaveNothing'
  BY <1>0, <1>a, AllClosed
<1> QED
  BY <1>1, <1>2, <1>3, <1>4, <1>5, <1>6 DEF Inv

\* A member leaves others behind: what it has closes, and the worker is asked to
\* tell their consumers.
LEMMA OneLeaves ==
  ASSUME Inv, NEW u \in User, member[u] # 0, Members # {u}, RemoveParticipant(u),
         inRoom' \subseteq inRoom, left' \subseteq User, UNCHANGED <<up, consumers, known, heard>>
  PROVE  Inv'
<1>0. PICK ts, ks : /\ ts = {Of(u).send, Of(u).recv}
                    /\ ks = Of(u).producers \cup OnTransports(ts)
  OBVIOUS
<1>a. /\ Close(ts, ks) /\ participants' = Forgotten(ks)
      /\ member' = [member EXCEPT ![u] = 0] /\ room' = room
      /\ channel' = IF ks = {} THEN channel ELSE Append(channel, [op |-> "closed", ks |-> ks])
  BY <1>0 DEF RemoveParticipant, TellClosed
<1>b. /\ participants' \in Seq(Participant) /\ Len(participants') = Len(participants)
      /\ DOMAIN participants' = DOMAIN participants
      /\ transports' \in Seq([owner : User, open : BOOLEAN])
      /\ DOMAIN transports' = DOMAIN transports
      /\ producers' \in Seq([t : 1..MaxTransports, open : BOOLEAN, paused : BOOLEAN])
      /\ DOMAIN producers' = DOMAIN producers
  BY <1>a, CloseEffect, ForgottenEffect
<1>m. \A x \in DOMAIN participants :
          /\ participants'[x].user = participants[x].user
          /\ participants'[x].send = participants[x].send
          /\ participants'[x].recv = participants[x].recv
          /\ participants'[x].tidy = participants[x].tidy
          /\ participants'[x].consumers = participants[x].consumers
          /\ participants'[x].producers = participants[x].producers \ ks
  BY <1>a, ForgottenEffect
<1>h. /\ \A t \in DOMAIN transports : transports'[t].open <=> transports[t].open /\ t \notin ts
      /\ \A k \in DOMAIN producers : producers'[k].open <=> producers[k].open /\ k \notin ks
  BY <1>a, CloseEffect
<1>c. /\ member' \in [User -> 0..Len(participants')]
      /\ member'[u] = 0 /\ \A v \in User : v # u => member'[v] = member[v]
  <2>1. member \in [User -> 0..Len(participants)] /\ Len(participants) \in Nat
    BY Shapes DEF Inv, TypeOK
  <2> QED
    BY <2>1, <1>a, <1>b
<1>o. \A v \in User : member[v] # 0 => member[v] \in DOMAIN participants
                                       /\ participants[member[v]].user = v
  BY Shapes DEF Inv, MembersOwn
<1>k. ks \subseteq 1..MaxProducers /\ ks \subseteq DOMAIN producers
  <2>1. Of(u).producers \subseteq DOMAIN producers
    BY <1>o DEF Inv, ProducersOwned, Of
  <2>2. OnTransports(ts) \subseteq DOMAIN producers
    BY DEF OnTransports
  <2>3. DOMAIN producers \subseteq 1..MaxProducers
    BY Shapes, BoundsAssumption DEF Inv, Lengths
  <2> QED
    BY <2>1, <2>2, <2>3, <1>0
<1>e. /\ channel' \in Seq(Request)
      /\ \A i \in DOMAIN channel : i \in DOMAIN channel' /\ channel'[i] = channel[i]
      /\ \A i \in DOMAIN channel' : i \in DOMAIN channel \/ channel'[i].op = "closed"
      /\ ks # {} => /\ Len(channel) + 1 \in DOMAIN channel'
                    /\ channel'[Len(channel) + 1].op = "closed"
                    /\ channel'[Len(channel) + 1].ks = ks
  <2>1. channel \in Seq(Request)
    BY DEF Inv, TypeOK
  <2>2. [op |-> "closed", ks |-> ks] \in Request
    BY <1>k DEF Request
  <2>3. CASE ks = {}
    BY <2>1, <2>3, <1>a
  <2>4. CASE ks # {}
    <3>1. channel' = Append(channel, [op |-> "closed", ks |-> ks])
      BY <2>4, <1>a
    <3>2. /\ channel' \in Seq(Request)
          /\ DOMAIN channel' = DOMAIN channel \cup {Len(channel) + 1}
          /\ \A i \in DOMAIN channel : channel'[i] = channel[i]
          /\ channel'[Len(channel) + 1] = [op |-> "closed", ks |-> ks]
      BY <2>1, <2>2, <3>1, AppendEffect
    <3> QED
      BY <3>2
  <2> QED
    BY <2>3, <2>4
<1>1. TypeOK'
  BY <1>a, <1>b, <1>c, <1>e DEF Inv, TypeOK
<1>2. /\ (Lengths /\ MembersOwn /\ SlotsOwned /\ ProducersOwned /\ ConsumersKnown)'
      /\ (OwnersHearNothing /\ EveryProducerIsKnown /\ LastWordIsTrue)'
      /\ \A x : Backed(x) => Backed(x)'
  BY <1>a, <1>c, ClosingKeeps
<1>3. RequestsBacked'
  <2>1. ASSUME NEW i \in DOMAIN channel', NEW x, x = channel'[i] PROVE Backed(x)'
    <3>1. CASE i \in DOMAIN channel
      <4>1. Backed(x)
        BY <2>1, <3>1, <1>e DEF Inv, RequestsBacked
      <4> QED
        BY <4>1, <1>2
    <3>2. CASE x.op = "closed"
      BY <3>2 DEF Backed
    <3> QED
      BY <2>1, <3>1, <3>2, <1>e
  <2> QED
    BY <2>1 DEF RequestsBacked, Backed
\* A transport that another user uses is not among those that close.
<1>t. ASSUME NEW t \in DOMAIN transports, transports[t].owner # u PROVE t \notin ts
  <2>1. t # 0
    BY Shapes DEF Inv
  <2> QED
    BY <2>1, <1>t, <1>0, <1>o DEF Inv, SlotsOwned, Of
<1>p. \A x \in DOMAIN participants :
          Current(x)' => Current(x) /\ participants[x].user # u /\ participants[x].user \in User
  <2>1. \A x \in DOMAIN participants : participants[x].user \in User /\ x # 0
    BY Shapes DEF Inv, Participant
  <2> QED
    BY <2>1, <1>m, <1>c DEF Current
<1>4. MembersUsable'
  <2>1. ASSUME NEW i \in DOMAIN channel', NEW x, x = channel'[i] PROVE Usable(x)'
    <3>1. CASE i \in DOMAIN channel
      <4>1. Usable(x) /\ Backed(x)
        BY <2>1, <3>1, <1>e DEF Inv, MembersUsable, RequestsBacked
      <4>2. x.op \in {"transport", "produce"} /\ Current(x.p)' =>
                Current(x.p) /\ participants[x.p].user # u
        BY <4>1, <1>p DEF Backed
      <4>3. x.op = "produce" /\ Current(x.p)' => x.t \notin ts /\ x.t \in DOMAIN transports
        BY <4>1, <4>2, <1>t DEF Backed
      <4> QED
        BY <4>1, <4>2, <4>3, <1>h DEF Usable
    <3>2. CASE x.op = "closed"
      BY <3>2 DEF Usable
    <3> QED
      BY <2>1, <3>1, <3>2, <1>e
  <2>2. ASSUME room = "open", NEW v \in User, NEW x, x = member'[v], x # 0,
               participants'[x].send # 0
        PROVE  transports'[participants'[x].send].open
    <3>1. v # u /\ x = member[v] /\ x \in DOMAIN participants /\ participants[x].user = v
      BY <2>2, <1>c, <1>o
    <3>2. participants'[x].send = participants[x].send
      BY <3>1, <1>m
    <3>3. /\ participants[x].send \in DOMAIN transports
          /\ transports[participants[x].send].owner = v
          /\ transports[participants[x].send].open
      BY <2>2, <3>1, <3>2 DEF Inv, SlotsOwned, MembersUsable, Of
    <3> QED
      BY <3>1, <3>2, <3>3, <1>h, <1>t
  <2>3. room = "none" => \A v \in User : member'[v] = 0
    BY <1>c DEF Inv, MembersUsable
  <2>4. room = "dead" => \A i \in DOMAIN channel' : channel'[i].op = "closed"
    BY <1>e DEF Inv, MembersUsable
  <2> QED
    BY <2>1, <2>2, <2>3, <2>4, <1>a DEF MembersUsable, Of, Usable, Current
<1>5. ClosesPending'
  <2>1. ASSUME NEW k, NEW i, CloseFollows(k, i) PROVE CloseFollows(k, i)'
    BY <1>e, <2>1 DEF CloseFollows
  <2>2. ASSUME NEW k \in ks, NEW i \in DOMAIN channel \cup {0} PROVE CloseFollows(k, i)'
    <3>1. Len(channel) + 1 > i
      BY <2>2, Shapes DEF Inv
    <3> QED
      BY <2>2, <3>1, <1>e DEF CloseFollows
  <2>3. ASSUME room = "open", NEW v \in User, NEW x, x = member'[v], x # 0,
               NEW c \in participants'[x].consumers, NEW k, k = consumers[c].k,
               ~producers'[k].open
        PROVE  CloseFollows(k, 0)'
    <3>1. x = member[v] /\ x \in DOMAIN participants
      BY <2>3, <1>c, <1>o
    <3>2. c \in participants[x].consumers
      BY <2>3, <3>1, <1>m
    <3>3. k \in DOMAIN producers
      BY <2>3, <3>1, <3>2 DEF Inv, ConsumersKnown
    <3>4. CASE ~producers[k].open
      <4>1. CloseFollows(k, 0)
        BY <2>3, <3>1, <3>2, <3>4 DEF Inv, ClosesPending, Of
      <4> QED
        BY <2>1, <4>1
    <3>5. CASE k \in ks
      BY <2>2, <3>5
    <3> QED
      BY <2>3, <3>3, <3>4, <3>5, <1>h
  <2>4. ASSUME room = "open", NEW i \in DOMAIN channel', channel'[i].op = "consume",
               NEW x, x = channel'[i].p, member'[participants'[x].user] = x,
               NEW k, k = channel'[i].k, ~producers'[k].open
        PROVE  CloseFollows(k, i)'
    <3>1. i \in DOMAIN channel /\ channel'[i] = channel[i]
      BY <2>4, <1>e
    <3>2. Backed(channel[i])
      BY <3>1 DEF Inv, RequestsBacked
    <3>3. x \in DOMAIN participants /\ k \in DOMAIN producers
      BY <2>4, <3>1, <3>2 DEF Backed
    <3>4. Current(x)
      BY <2>4, <3>3, <1>p DEF Current
    <3>5. CASE ~producers[k].open
      <4>1. CloseFollows(k, i)
        BY <2>4, <3>1, <3>4, <3>5 DEF Inv, ClosesPending
      <4> QED
        BY <2>1, <4>1
    <3>6. CASE k \in ks
      BY <2>2, <3>1, <3>6
    <3> QED
      BY <2>4, <3>3, <3>5, <3>6, <1>h
  <2>5. UNCHANGED consumers
    OBVIOUS
  <2> QED
    BY <2>3, <2>4, <2>5, <1>a DEF ClosesPending, Of, Current, CloseFollows
<1>6. ListedProducersAreOpen'
  <2>1. ASSUME NEW v \in User, NEW x, x = member'[v], x # 0, NEW k \in participants'[x].producers
        PROVE  producers'[k].open
    <3>1. x = member[v] /\ x \in DOMAIN participants
      BY <2>1, <1>c, <1>o
    <3>2. k \in participants[x].producers /\ k \notin ks
      BY <2>1, <3>1, <1>m
    <3>3. producers[k].open /\ k \in DOMAIN producers
      BY <2>1, <3>1, <3>2 DEF Inv, ListedProducersAreOpen, ProducersOwned, Members, Of
    <3> QED
      BY <3>2, <3>3, <1>h
  <2> QED
    BY <2>1 DEF ListedProducersAreOpen, Members, Of
<1>7. TidyLeaversLeaveNothing'
  <2>1. ASSUME NEW x \in DOMAIN participants, member'[participants'[x].user] # x,
               participants'[x].tidy
        PROVE  /\ \A t \in {participants'[x].send, participants'[x].recv}
                                \cap DOMAIN transports : ~transports'[t].open
               /\ \A k \in participants'[x].producers : ~producers'[k].open
    <3>1. /\ participants'[x].user = participants[x].user
          /\ participants'[x].send = participants[x].send
          /\ participants'[x].recv = participants[x].recv
          /\ participants'[x].tidy = participants[x].tidy
          /\ participants'[x].producers = participants[x].producers \ ks
          /\ participants[x].user \in User
      BY <1>m, Shapes DEF Inv, Participant
    <3>2. CASE member[participants[x].user] # x
      <4>1. /\ \A t \in {participants[x].send, participants[x].recv} \cap DOMAIN transports :
                   ~transports[t].open
            /\ \A k \in participants[x].producers : ~producers[k].open
        BY <2>1, <3>1, <3>2 DEF Inv, TidyLeaversLeaveNothing
      <4>2. participants[x].producers \subseteq DOMAIN producers
        BY DEF Inv, ProducersOwned
      <4> QED
        BY <3>1, <4>1, <4>2, <1>h
    <3>3. CASE member[participants[x].user] = x
      <4>1. x = member[u]
        BY <2>1, <3>1, <3>3, <1>c
      <4>2. participants[x].send \in ts /\ participants[x].recv \in ts
            /\ participants[x].producers \subseteq ks
        BY <4>1, <1>0 DEF Of
      <4> QED
        BY <3>1, <4>2, <1>h
    <3> QED
      BY <3>2, <3>3
  <2> QED
    BY <2>1, <1>b DEF TidyLeaversLeaveNothing
<1> QED
  BY <1>1, <1>2, <1>3, <1>4, <1>5, <1>6, <1>7 DEF Inv

LEMMA LeaveKeeps == ASSUME Inv, NEW u \in User, Leave(u) PROVE Inv'
<1>a. /\ inRoom' \subseteq inRoom /\ left' \subseteq User
      /\ UNCHANGED <<up, consumers, known, heard>>
  BY DEF Leave, Inv, TypeOK
<1>1. CASE member[u] = 0
  BY <1>1, <1>a, SocketGoneKeeps DEF Leave, roomVars, mediaVars
<1>2. CASE member[u] # 0
  <2>1. RemoveParticipant(u)
    BY <1>2 DEF Leave
  <2> QED
    BY <1>2, <1>a, <2>1, LastLeaves, OneLeaves
<1> QED
  BY <1>1, <1>2

LEMMA ReconnectKeeps == ASSUME Inv, NEW u \in User, Reconnect(u) PROVE Inv'
<1>1. inRoom' \subseteq inRoom /\ left' \subseteq User
  BY DEF Reconnect, Inv, TypeOK
<1> QED
  BY <1>1, SocketGoneKeeps DEF Reconnect

-----------------------------------------------------------------------------
(* The theorems *)

LEMMA WorkerStepKeeps == ASSUME Inv, WorkerStep PROVE Inv'
BY TransportCreatedKeeps, ProducerCreatedKeeps, ConsumerCreatedKeeps, RefusedKeeps,
   ProducerPausedKeeps, ConsumerPausedKeeps, ConsumersClosedKeeps, WorkerDiedKeeps
   DEF WorkerStep

LEMMA ClientStepKeeps == ASSUME Inv, NEW u \in User, ClientStep(u) PROVE Inv'
<1>1. CASE Join(u) \/ Leave(u) \/ Reconnect(u) \/ CreateProducer(u)
  BY <1>1, JoinKeeps, LeaveKeeps, ReconnectKeeps, CreateProducerKeeps
<1>2. CASE \E dir \in Direction : CreateTransport(u, dir)
  BY <1>2, CreateTransportKeeps
<1>3. CASE \E k \in DOMAIN producers :
               \/ CreateConsumer(u, k)
               \/ \E op \in {"pause", "resume"} : PauseProducer(u, k, op)
  <2>1. PICK k \in DOMAIN producers :
                 \/ CreateConsumer(u, k)
                 \/ \E op \in {"pause", "resume"} : PauseProducer(u, k, op)
    BY <1>3
  <2>2. CASE CreateConsumer(u, k)
    BY <2>2, CreateConsumerKeeps
  <2>3. CASE \E op \in {"pause", "resume"} : PauseProducer(u, k, op)
    BY <2>3, PauseProducerKeeps
  <2> QED
    BY <2>1, <2>2, <2>3
<1>4. CASE \E c \in DOMAIN consumers : PauseConsumer(u, c)
  BY <1>4, PauseConsumerKeeps
<1> QED
  BY <1>1, <1>2, <1>3, <1>4 DEF ClientStep

LEMMA InvStep == Inv /\ [Next]_vars => Inv'
<1> SUFFICES ASSUME Inv, [Next]_vars PROVE Inv'
  OBVIOUS
<1>1. CASE WorkerStep
  BY <1>1, WorkerStepKeeps
<1>2. CASE \E u \in User : ClientStep(u)
  BY <1>2, ClientStepKeeps
<1>3. CASE UNCHANGED vars
  BY <1>3, OnlyProcess DEF vars, Inv, TypeOK
<1> QED
  BY <1>1, <1>2, <1>3 DEF Next

LEMMA Invariance == Spec => []Inv
BY InitInv, InvStep, PTL DEF Spec

\* Every variable has its type: no handler writes outside the maps and lists of
\* the room, whatever its await let happen.
THEOREM TypeCorrect == Spec => []TypeOK
BY Invariance, PTL DEF Inv

\* Whoever is in the room has been told of every producer the others have there,
\* by room:joined or by room:new_producer (videoHandler.ts:81 and 246).
THEOREM ProducersAreKnown == Spec => []EveryProducerIsKnown
BY Invariance, PTL DEF Inv

\* No participant lists a producer that has closed: room:joined offers no dead
\* media (videoHandler.ts:240).
THEOREM ListsAreOpen == Spec => []ListedProducersAreOpen
BY Invariance, PTL DEF Inv

\* A pause or resume that was announced is what the producer is, in whatever
\* order the handlers of several users go on (videoHandler.ts:267-293).
THEOREM Announcements == Spec => []LastWordIsTrue
BY Invariance, PTL DEF Inv

\* removeParticipant closes all there is of a participant the code has kept
\* sight of (roomManager.ts:77).
THEOREM Tidiness == Spec => []TidyLeaversLeaveNothing
BY Invariance, PTL DEF Inv

\* When the worker has answered everything, no member of a live room has a
\* consumer of a closed producer left (videoHandler.ts:334).
THEOREM Drained == Spec => []DrainedConsumersAreLive
<1>1. Inv => DrainedConsumersAreLive
  <2> SUFFICES ASSUME Inv, room = "open", channel = <<>>, NEW u \in Members,
                      NEW c \in Of(u).consumers
               PROVE  producers[consumers[c].k].open
    BY DEF DrainedConsumersAreLive
  <2>1. ~CloseFollows(consumers[c].k, 0)
    BY DEF CloseFollows
  <2> QED
    BY <2>1 DEF Inv, ClosesPending, Members
<1> QED
  BY <1>1, Invariance, PTL

-----------------------------------------------------------------------------
(* The room of the registry *)

LEMMA JoinShows ==
  ASSUME Inv, NEW u \in User, Join(u) PROVE [TheRoom!Next]_(TheRoom!vars)
<1>1. Members' = Members \cup {u}
  BY BoundsAssumption, Shapes DEF Inv, TypeOK, Join, Members
<1>2. CASE room = "none"
  <2>1. Members = {} /\ room' = "open"
    BY <1>2 DEF Inv, MembersUsable, Members, Join
  <2>2. TheRoom!Found(u)
    BY <1>1, <1>2, <2>1 DEF TheRoom!Found
  <2> QED
    BY <2>2 DEF TheRoom!Next
<1>3. CASE room # "none"
  <2>1. TheRoom!Enter(u)
    BY <1>1, <1>3 DEF Join, TheRoom!Enter
  <2> QED
    BY <2>1 DEF TheRoom!Next
<1> QED
  BY <1>2, <1>3

LEMMA LeaveShows ==
  ASSUME Inv, NEW u \in User, Leave(u) PROVE [TheRoom!Next]_(TheRoom!vars)
<1>1. CASE member[u] = 0
  BY <1>1 DEF Leave, roomVars, Members, TheRoom!vars
<1>2. CASE member[u] # 0
  <2>1. /\ member' = [member EXCEPT ![u] = 0]
        /\ room' = IF Members = {u} THEN "none" ELSE room
    BY <1>2 DEF Leave, RemoveParticipant
  <2>2. Members' = Members \ {u} /\ u \in Members
    BY <1>2, <2>1 DEF Inv, TypeOK, Members
  <2>3. room # "none"
    BY <1>2 DEF Inv, MembersUsable
  <2>4. TheRoom!Leave(u)
    BY <2>1, <2>2, <2>3 DEF TheRoom!Leave
  <2> QED
    BY <2>4 DEF TheRoom!Next
<1> QED
  BY <1>1, <1>2

\* The room that transports, producers and consumers are made in is a room of the
\* registry: the step of a handler is a step of a CallRoom, or shows nothing.
THEOREM MediaRoom == Spec => ImplementsCallRoom
<1>1. Init => TheRoom!Init
  BY DEF Init, TheRoom!Init, Members
<1>2. Inv /\ [Next]_vars => [TheRoom!Next]_(TheRoom!vars)
  <2> SUFFICES ASSUME Inv, [Next]_vars PROVE [TheRoom!Next]_(TheRoom!vars)
    OBVIOUS
  <2>1. ASSUME UNCHANGED <<room, member>> PROVE UNCHANGED TheRoom!vars
    BY <2>1 DEF TheRoom!vars, Members
  <2>2. ASSUME WorkerDied PROVE [TheRoom!Next]_(TheRoom!vars)
    BY <2>2 DEF WorkerDied, Members, TheRoom!Next, TheRoom!Die
  <2>3. ASSUME WorkerStep, ~WorkerDied PROVE UNCHANGED <<room, member>>
    BY <2>3 DEF WorkerStep, TransportCreated, ProducerCreated, ConsumerCreated, Refused,
                ProducerPaused, ConsumerPaused, ConsumersClosed, roomVars
  <2>4. ASSUME NEW u \in User, ClientStep(u), ~Join(u), ~Leave(u)
        PROVE  UNCHANGED <<room, member>>
    BY <2>4 DEF ClientStep, Reconnect, CreateProducer, CreateTransport, CreateConsumer,
                PauseProducer, PauseConsumer, Send, roomVars
  <2>5. ASSUME NEW u \in User, ClientStep(u) PROVE [TheRoom!Next]_(TheRoom!vars)
    BY <2>1, <2>4, <2>5, JoinShows, LeaveShows
  <2>6. CASE UNCHANGED vars
    BY <2>1, <2>6 DEF vars, roomVars
  <2> QED
    BY <2>1, <2>2, <2>3, <2>5, <2>6 DEF Next
<1> QED
  BY <1>1, <1>2, Invariance, PTL DEF Spec, ImplementsCallRoom, TheRoom!Spec

=============================================================================
