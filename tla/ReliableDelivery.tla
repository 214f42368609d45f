-------------------------- MODULE ReliableDelivery --------------------------
(***************************************************************************)
(* Directed reliable messages from one peer to another: PacketPipeline and *)
(* ReliableTransport of the sender, a wire that loses, delays, reorders    *)
(* and repeats, then TransportRouter.routeIncoming, PacketPipeline and     *)
(* OrderingBuffer of the receiver, and the acknowledgements back.          *)
(*                                                                         *)
(* The packets form one unicast stream when ordered, and carry no streamId *)
(* otherwise.  Fragmentation and the choice of a physical route are not    *)
(* modelled here: a refused or deferred transmission is a loss or a delay  *)
(* on the wire.  Time is: a timer may fire whenever it is armed.           *)
(*                                                                         *)
(* A definition introduced by "Slip:" is no part of the model; see         *)
(* OrderingBuffer.                                                         *)
(***************************************************************************)
EXTENDS Integers, Sequences, FiniteSets

CONSTANTS
    Ids,          \* packet identities
    Reliable,     \* those sent through sendReliable (isAckable); the rest are
                  \* presence:* and canvas:* packets, sent best effort
    MaxAttempts,  \* maxAttempts (6)
    MaxPending,   \* MAX_PENDING (100)
    MaxSeen,      \* TransportRouter.MAX_SEEN (2000)
    MaxHistory,   \* ReliableTransport.MAX_HISTORY (3000)
    MaxRestarts,  \* bound: how often a side leaves the room or is forgotten
    Mark,         \* in the router's window: the id of a packet we sent
    Free, MaxSeq, MaxHold, MaxHanded    \* see OrderingBuffer

ASSUME IdsAssumption == /\ Free \notin Ids
                        /\ Mark \notin Ids
                        /\ Reliable \subseteq Ids
                        /\ IsFiniteSet(Ids)
ASSUME LimitsAssumption == /\ MaxAttempts \in Nat \ {0}
                           /\ MaxPending \in Nat \ {0}
                           /\ MaxSeen \in Nat \ {0}
                           /\ MaxHistory \in Nat \ {0}
                           /\ MaxRestarts \in Nat
                           /\ MaxSeq \in Nat \ {0}
                           /\ MaxHold \in Nat \ {0}
                           /\ MaxHanded \in Nat

VARIABLES
    \* the sender
    sending,      \* has the sender's pipeline a room?
    used,         \* identities already given to a packet
    stamped,      \* packet.seq, 0 when it has none
    nextSeq,      \* localStreamSeq of the scope "stream:receiver"
    pending,      \* PendingMessage.attempts, 0 when not in the pending map
    sent,         \* history: messages sendReliable was called for
    receipt,      \* DeliveryReceipt.status, "none" while the promise is open
    \* the wire
    wire,         \* packets that may still arrive
    acks,         \* acknowledged ids whose ack may still arrive
    \* the receiver
    receiving,    \* has the receiver's pipeline a room?
    seen,         \* packetOrder of the router, oldest first
    history,      \* messageHistoryOrder of the pipeline, oldest first
    accepted,     \* history: ids that ever passed the duplicate filter
    expected, holding, gapTimer, gapDetected, handed,   \* OrderingBuffer
    restarts,     \* bookkeeping for the bound MaxRestarts
    ordered       \* do the packets carry a streamId?  Settled by the application

senderVars == <<sending, used, stamped, nextSeq, pending, sent, receipt>>
bufferVars == <<expected, holding, gapTimer, gapDetected, handed>>
receiverVars == <<receiving, seen, history, accepted>>
vars == <<senderVars, wire, acks, receiverVars, bufferVars, restarts, ordered>>

OB == INSTANCE OrderingBuffer
RC == INSTANCE ReliableChannel

-----------------------------------------------------------------------------
\* Slip: only the latest entry is compared.
LatestInRange(w) == IF w = <<>> THEN {} ELSE {w[Len(w)]}

InRange(w) == {w[k] : k \in 1..Len(w)}

\* A sliding window: add the entries x, then forget from the old end.
Slide(w, x, max) ==
    LET v == w \o x
    IN  IF Len(v) > max THEN SubSeq(v, Len(v) - max + 1, Len(v)) ELSE v

Open == {i \in Ids : pending[i] > 0}

\* Slip: the promise resolves, the entry stays in the pending map.
ResolveOnly(i, status) ==
    /\ receipt' = [receipt EXCEPT ![i] = status]
    /\ UNCHANGED pending

\* A message leaves the pending map and its promise resolves.
Resolve(i, status) ==
    /\ pending' = [pending EXCEPT ![i] = 0]
    /\ receipt' = [receipt EXCEPT ![i] = status]

-----------------------------------------------------------------------------
(* The sender *)

Refuse(i) == receipt' = [receipt EXCEPT ![i] = "rejected"]

\* sendPacket(): the number is taken from the stream before the transport is
\* asked, so a message refused for back-pressure leaves a hole in the stream.
Send(i) ==
    /\ sending
    /\ i \notin used
    /\ nextSeq <= MaxSeq
    /\ used' = used \cup {i}
    /\ IF ordered
       THEN /\ stamped' = [stamped EXCEPT ![i] = nextSeq]
            /\ nextSeq' = nextSeq + 1
       ELSE UNCHANGED <<stamped, nextSeq>>
    /\ \/ /\ i \notin Reliable
          /\ wire' = wire \cup {i}
          /\ UNCHANGED <<pending, sent, receipt>>
       \/ /\ i \in Reliable
          /\ Cardinality(Open) >= MaxPending
          /\ sent' = sent \cup {i}
          /\ Refuse(i)
          /\ UNCHANGED <<pending, wire>>
       \/ /\ i \in Reliable
          /\ Cardinality(Open) < MaxPending
          /\ sent' = sent \cup {i}
          /\ pending' = [pending EXCEPT ![i] = 1]
          /\ wire' = wire \cup {i}
          /\ UNCHANGED receipt
    /\ UNCHANGED <<sending, acks, receiverVars, bufferVars, restarts>>

\* Slips: one attempt too many; no end to the attempts.
RetryOnceMore(i) ==
    /\ pending[i] > 0
    /\ \/ pending[i] > MaxAttempts /\ Resolve(i, "timeout") /\ UNCHANGED wire
       \/ /\ pending[i] <= MaxAttempts
          /\ pending' = [pending EXCEPT ![i] = @ + 1]
          /\ wire' = wire \cup {i}
          /\ UNCHANGED receipt
    /\ UNCHANGED <<sending, used, stamped, nextSeq, sent, acks,
                   receiverVars, bufferVars, restarts>>

RetryForever(i) ==
    /\ pending[i] > 0
    /\ wire' = wire \cup {i}
    /\ UNCHANGED <<sending, used, stamped, nextSeq, pending, sent, receipt, acks,
                   receiverVars, bufferVars, restarts>>

\* The retry timer of one message: give up, or transmit the same packet again.
RetryTimer(i) ==
    /\ pending[i] > 0
    /\ \/ /\ pending[i] >= MaxAttempts
          /\ Resolve(i, "timeout")
          /\ UNCHANGED wire
       \/ /\ pending[i] < MaxAttempts
          /\ pending' = [pending EXCEPT ![i] = @ + 1]
          /\ wire' = wire \cup {i}
          /\ UNCHANGED receipt
    /\ UNCHANGED <<sending, used, stamped, nextSeq, sent, acks,
                   receiverVars, bufferVars, restarts>>

\* handleAck(), for an ack of any earlier transmission and of any session.
ReceiveAck(i) ==
    /\ i \in acks
    /\ acks' \in {acks, acks \ {i}}
    /\ \/ /\ sending /\ pending[i] > 0
          /\ Resolve(i, "delivered")
       \/ /\ ~(sending /\ pending[i] > 0)
          /\ UNCHANGED <<pending, receipt>>
    /\ UNCHANGED <<sending, used, stamped, nextSeq, sent, wire,
                   receiverVars, bufferVars, restarts>>

\* handleNack().  Nothing in this repository sends a NACK; a peer that does may
\* refuse a message at any time.
ReceiveNack(i, reason) ==
    /\ sending
    /\ pending[i] > 0
    /\ \/ /\ reason = "BUFFER_OVERFLOW"
          /\ pending[i] + 1 < MaxAttempts
          /\ pending' = [pending EXCEPT ![i] = @ + 1]
          /\ UNCHANGED receipt
       \/ /\ reason = "BUFFER_OVERFLOW"
          /\ pending[i] + 1 >= MaxAttempts
          /\ Resolve(i, "rejected")
       \/ /\ reason # "BUFFER_OVERFLOW"
          /\ Resolve(i, "rejected")
    /\ UNCHANGED <<sending, used, stamped, nextSeq, sent, wire, acks,
                   receiverVars, bufferVars, restarts>>

\* Slip: the pending map is emptied and the promises are forgotten.
SenderLeaveSilently ==
    /\ sending
    /\ restarts < MaxRestarts
    /\ sending' = FALSE
    /\ nextSeq' = 1
    /\ pending' = [i \in Ids |-> 0]
    /\ restarts' = restarts + 1
    /\ UNCHANGED <<used, stamped, sent, receipt, wire, acks, receiverVars, bufferVars>>

\* clear() of the sender's pipeline, on leaving the room: every open promise is
\* settled and the stream counters are dropped.
SenderLeave ==
    /\ sending
    /\ restarts < MaxRestarts
    /\ sending' = FALSE
    /\ nextSeq' = 1
    /\ receipt' = [i \in Ids |-> IF pending[i] > 0 THEN "rejected" ELSE receipt[i]]
    /\ pending' = [i \in Ids |-> 0]
    /\ restarts' = restarts + 1
    /\ UNCHANGED <<used, stamped, sent, wire, acks, receiverVars, bufferVars>>

\* init(): the sender is back in the same room.
SenderInit ==
    /\ ~sending
    /\ sending' = TRUE
    /\ UNCHANGED <<used, stamped, nextSeq, pending, sent, receipt, wire, acks,
                   receiverVars, bufferVars, restarts>>

\* forgetPeer(): the roster says the receiver has left, and the counter of its
\* scope is dropped.  Retries go on, and nothing tells the receiver.
ForgetPeer ==
    /\ sending
    /\ ordered
    /\ restarts < MaxRestarts
    /\ nextSeq' = 1
    /\ restarts' = restarts + 1
    /\ UNCHANGED <<sending, used, stamped, pending, sent, receipt, wire, acks,
                   receiverVars, bufferVars>>

-----------------------------------------------------------------------------
(* The wire *)

Lose(i) ==
    /\ i \in wire \cup acks
    /\ \/ wire' = wire \ {i} /\ UNCHANGED acks
       \/ acks' = acks \ {i} /\ UNCHANGED wire
    /\ UNCHANGED <<senderVars, receiverVars, bufferVars, restarts>>

\* One copy of i arrives; another may still be under way.
Arrives(i) ==
    /\ i \in wire
    /\ wire' \in {wire, wire \ {i}}

-----------------------------------------------------------------------------
(* The receiver *)

\* The ack of i goes through TransportRouter.sendTo, which remembers its id.
AckMark(i) == IF i \in Reliable THEN <<Mark>> ELSE <<>>
SendAck(i) == acks' = IF i \in Reliable THEN acks \cup {i} ELSE acks

\* routeIncoming() drops an id it remembers, before the pipeline sees it.
RouterDrop(i) ==
    /\ Arrives(i)
    /\ i \in InRange(seen)
    /\ UNCHANGED <<senderVars, acks, receiverVars, bufferVars, restarts>>

\* handleIncoming() between leave() and init(): the router has marked the id.
OutOfRoom(i) ==
    /\ Arrives(i)
    /\ i \notin InRange(seen)
    /\ ~receiving
    /\ seen' = Slide(seen, <<i>>, MaxSeen)
    /\ UNCHANGED <<senderVars, acks, receiving, history, accepted, bufferVars, restarts>>

\* filterDuplicate() knows the id: acknowledge once more, deliver nothing.
Duplicate(i) ==
    /\ Arrives(i)
    /\ i \notin InRange(seen)
    /\ receiving
    /\ i \in InRange(history)
    /\ seen' = Slide(seen, <<i>> \o AckMark(i), MaxSeen)
    /\ SendAck(i)
    /\ UNCHANGED <<senderVars, receiving, history, accepted, bufferVars, restarts>>

\* A new id: remember it, acknowledge it, and only then ask the ordering
\* buffer.  A gap repair request goes through the router as well.
Fresh(i) ==
    /\ Arrives(i)
    /\ i \notin InRange(seen)
    /\ receiving
    /\ i \notin InRange(history)
    /\ history' = Slide(history, <<i>>, MaxHistory)
    /\ accepted' = accepted \cup {i}
    /\ SendAck(i)
    /\ IF ordered THEN OB!Inflow([seq |-> stamped[i], id |-> i]) ELSE OB!Bypass(i)
    /\ LET repair == IF gapTimer' /\ ~gapTimer THEN <<Mark>> ELSE <<>>
       IN  seen' = Slide(seen, <<i>> \o AckMark(i) \o repair, MaxSeen)
    /\ UNCHANGED <<senderVars, receiving, restarts>>

Receive(i) == RouterDrop(i) \/ OutOfRoom(i) \/ Duplicate(i) \/ Fresh(i)

GapTimeout ==
    /\ OB!GapTimeout
    /\ UNCHANGED <<senderVars, wire, acks, receiverVars, restarts>>

\* leave(): the pipeline, its windows and the ordering buffer are cleared.
ReceiverLeave ==
    /\ receiving
    /\ restarts < MaxRestarts
    /\ receiving' = FALSE
    /\ seen' = <<>>
    /\ history' = <<>>
    /\ OB!Clear
    /\ restarts' = restarts + 1
    /\ UNCHANGED <<senderVars, wire, acks, accepted>>

\* init(): the router is reset once more, the pipeline adopts the room.
ReceiverInit ==
    /\ ~receiving
    /\ receiving' = TRUE
    /\ seen' = <<>>
    /\ UNCHANGED <<senderVars, wire, acks, history, accepted, bufferVars, restarts>>

-----------------------------------------------------------------------------
Init ==
    /\ sending = TRUE
    /\ used = {}
    /\ stamped = [i \in Ids |-> 0]
    /\ nextSeq = 1
    /\ pending = [i \in Ids |-> 0]
    /\ sent = {}
    /\ receipt = [i \in Ids |-> "none"]
    /\ wire = {}
    /\ acks = {}
    /\ receiving = TRUE
    /\ seen = <<>>
    /\ history = <<>>
    /\ accepted = {}
    /\ OB!Init
    /\ restarts = 0
    /\ ordered \in BOOLEAN

Step ==
    \/ \E i \in Ids :
          \/ Send(i) \/ RetryTimer(i) \/ ReceiveAck(i)
          \/ \E reason \in {"BUFFER_OVERFLOW", "INVALID"} : ReceiveNack(i, reason)
          \/ Lose(i) \/ Receive(i)
    \/ SenderLeave \/ SenderInit \/ ForgetPeer
    \/ GapTimeout \/ ReceiverLeave \/ ReceiverInit

Next == Step /\ UNCHANGED ordered

Spec == Init /\ [][Next]_vars

\* Retry timers fire (setTimeout), as long as the message is pending.  Nothing
\* is assumed of the wire or of the peers.
FairSpec == Spec /\ \A i \in Ids : WF_vars(RetryTimer(i) /\ UNCHANGED ordered)

-----------------------------------------------------------------------------
Entry == [seq : 0..MaxSeq, id : Ids]

TypeOK ==
    /\ sending \in BOOLEAN
    /\ used \subseteq Ids
    /\ stamped \in [Ids -> 0..MaxSeq]
    /\ nextSeq \in 1..(MaxSeq + 1)
    /\ pending \in [Ids -> 0..MaxAttempts]
    /\ sent \subseteq Reliable
    /\ receipt \in [Ids -> {"none", "delivered", "timeout", "rejected"}]
    /\ wire \subseteq used
    /\ acks \subseteq Reliable
    /\ receiving \in BOOLEAN
    /\ seen \in Seq(Ids \cup {Mark}) /\ Len(seen) <= MaxSeen
    /\ history \in Seq(Ids) /\ Len(history) <= MaxHistory
    /\ accepted \subseteq used
    /\ restarts \in 0..MaxRestarts
    /\ ordered \in BOOLEAN
    /\ OB!TypeOK

\* The promises of sendReliable(): each is settled once, and as "delivered"
\* only for a message the receiver took, across duplicate and late acks,
\* timers that race with them, NACKs and room changes on either side.
ImplementsChannel == RC!Spec

\* A reliable message is in the pending map exactly as long as its promise is
\* open: no promise hangs without a timer that will settle it (the defect the
\* comment in clear() records) and no settled message is retried.
PendingIsOpen == \A i \in Ids : (pending[i] > 0) <=> (i \in sent /\ receipt[i] = "none")

\* Within one stay in the room the application gets a packet at most once: in a
\* stream always, even for a copy so late that both windows have forgotten it;
\* outside a stream unless MaxHistory other packets came in between.
AtMostOnce ==
    \A j, k \in 1..Len(handed) :
        (j < k /\ handed[j].id = handed[k].id) => (~ordered /\ k - j > MaxHistory)

\* Every promise is settled in the end, whatever the wire does.
PromisesSettle == \A i \in Ids : (pending[i] > 0) ~> (pending[i] = 0)
=============================================================================
