------------------------------ MODULE OfferAnswer ------------------------------
(***************************************************************************)
(* What the negotiation of webrtc_call_service.dart promises the two ends   *)
(* of a call as long as no offer is started while another is negotiated:    *)
(* there is one offer at a time; it is answered once, and the end that      *)
(* answers has the new session first; the end that offered has it next, and *)
(* it is the same.  Connections, queues, copies, candidates and the relay   *)
(* do not show.                                                             *)
(***************************************************************************)
EXTENDS Naturals

CONSTANTS
    Peer,    \* the two ends
    Number,  \* numbers of offers
    NoSdp    \* no description

VARIABLES
    open,      \* the offers that were sent and still wait for their answer
    session,   \* the descriptions each end has negotiated last
    answered,  \* answered[p][n]: answers p has sent to the offer n of the other
    calm       \* no offer was started while another negotiation was going on

vars == <<open, session, answered, calm>>

Offer(p, n) == [from |-> p, type |-> "offer", n |-> n]
Answer(p, n) == [from |-> p, type |-> "answer", n |-> n]

\* The session of either end when q has answered the offer n of p.
AtAnswerer(p, q, n) == [local |-> Answer(q, n), remote |-> Offer(p, n)]
AtOfferer(p, q, n) == [local |-> Offer(p, n), remote |-> Answer(q, n)]

Init ==
    /\ open = {}
    /\ session = [p \in Peer |-> [local |-> NoSdp, remote |-> NoSdp]]
    /\ answered = [p \in Peer |-> [n \in Number |-> 0]]
    /\ calm = TRUE

\* p sends a new offer, when none is open.
MakeOffer(p, q, n) ==
    /\ open = {}
    /\ answered[q][n] = 0
    /\ open' = {Offer(p, n)}
    /\ UNCHANGED <<session, answered>>

\* q answers the open offer, once.
SendAnswer(p, q, n) ==
    /\ open = {Offer(p, n)}
    /\ answered[q][n] = 0
    /\ answered' = [answered EXCEPT ![q][n] = 1]
    /\ session' = [session EXCEPT ![q] = AtAnswerer(p, q, n)]
    /\ UNCHANGED open

\* p takes the answer, which q has sent.
Conclude(p, q, n) ==
    /\ open = {Offer(p, n)}
    /\ session[q] = AtAnswerer(p, q, n)
    /\ open' = {}
    /\ session' = [session EXCEPT ![p] = AtOfferer(p, q, n)]
    /\ UNCHANGED answered

Negotiate ==
    \E p \in Peer, n \in Number : \E q \in Peer \ {p} :
        MakeOffer(p, q, n) \/ SendAnswer(p, q, n) \/ Conclude(p, q, n)

\* Once two negotiations have overlapped nothing is promised any more.
Next ==
    \/ calm /\ Negotiate /\ UNCHANGED calm
    \/ calm' = FALSE

Spec == Init /\ [][Next]_vars

=============================================================================
