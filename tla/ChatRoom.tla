------------------------------ MODULE ChatRoom ------------------------------
(***************************************************************************)
(* The chat of a room (features/chat/chat.service.ts) over links that keep *)
(* order and lose packets: sending with a retry until the first        *)
(* receipt, the duplicate filters of the transport (by packet id) and of   *)
(* the chat (by message id), history requests, the anti-entropy digest,    *)
(* and the local cache, which is read asynchronously on entering a room    *)
(* and written by a debounced save.  A message is an id; its stamp stands  *)
(* for its hybrid timestamp, taken anew by every packet that carries it.   *)
(***************************************************************************)
EXTENDS Naturals, Sequences

CONSTANTS
    Peers,
    Rooms,
    Lobby,        \* the room everyone starts in
    MaxMessages,  \* bound on the messages sent
    MaxAttempts,  \* how often a message without receipt is sent again (5)
    MaxDrops,     \* bound on the packets the network loses
    MaxMoves,     \* bound on room changes and restarts together
    Movers        \* the peers that change rooms and restart

\* MCFeatures assumes it of the instance.
ChatAssumption ==
    /\ Lobby \in Rooms
    /\ MaxMessages \in Nat /\ MaxAttempts \in Nat \ {0}

VARIABLES
    room,        \* room[p]: currentRoomId
    generation,  \* generation[p]: roomGeneration
    messages,    \* messages[p]: the list, as a set ordered by stamp
    mySeq,       \* mySeq[p]
    peerSeqs,    \* peerSeqs[p][q]: the highest number seen of q
    unacked,     \* unacked[p][id]: attempts armed so far, where a retry is due
    loads,       \* loads[p]: reads of the cache not answered yet
    saveDue,     \* saveDue[p]: the debounced save is armed
    askAgain,    \* askAgain[p]: the history retry is armed
    stored,      \* stored[p][r]: the cache of p for room r
    seen,        \* seen[p]: packet ids the transport of p has delivered
    network,     \* network[p][q]: packets under way from p to q, in order
    sent,        \* sent[id]: author and room of each message so far
    audience,    \* audience[id]: peers in the room since it was sent
    reached,     \* messages another peer than their author has taken in
    clock, drops, moves

vars == <<room, generation, messages, mySeq, peerSeqs, unacked, loads, saveDue, askAgain,
          stored, seen, network, sent, audience, reached, clock, drops, moves>>

Ids == 1 .. MaxMessages
Statuses == {"sent", "delivered"}
Message == [id : Ids, from : Peers, stamp : Nat, seq : Nat, status : Statuses]

IdsOf(list) == {m.id : m \in list}
Sent == DOMAIN sent
Others(p) == {q \in Peers \ {p} : room[q] = room[p]}
Latest(list) == IF list = {} THEN 0 ELSE CHOOSE s \in {m.stamp : m \in list} :
                                           \A m \in list : m.stamp <= s

Init ==
    /\ room = [p \in Peers |-> Lobby]
    /\ generation = [p \in Peers |-> 1]
    /\ messages = [p \in Peers |-> {}]
    /\ mySeq = [p \in Peers |-> 0]
    /\ peerSeqs = [p \in Peers |-> [q \in Peers |-> 0]]
    /\ unacked = [p \in Peers |-> <<>>]
    /\ loads = [p \in Peers |-> {}]
    /\ saveDue = [p \in Peers |-> FALSE]
    /\ askAgain = [p \in Peers |-> FALSE]
    /\ stored = [p \in Peers |-> [r \in Rooms |-> {}]]
    /\ seen = [p \in Peers |-> {}]
    /\ network = [p \in Peers |-> [q \in Peers |-> <<>>]]
    /\ sent = <<>> /\ audience = <<>> /\ reached = {}
    /\ clock = 1 /\ drops = 0 /\ moves = 0

-----------------------------------------------------------------------------
(* Sending.                                                                *)

Broadcast(p, targets, pkt) ==
    [network EXCEPT ![p] = [q \in Peers |-> IF q \in targets THEN Append(@[q], pkt) ELSE @[q]]]

\* A packet with a number of its own is known by it; any other has a fresh id.
MessagePacket(p, id, seq) ==
    [kind |-> "message", room |-> room[p], id |-> id, seq |-> seq, stamp |-> clock]

Unacked(p, id, attempts) ==
    [x \in DOMAIN unacked[p] \cup {id} |-> IF x = id THEN attempts ELSE unacked[p][x]]
\* Slip: the whole queue is cleared.
AllAcked(p, id) == <<>>

Acked(p, id) == [x \in DOMAIN unacked[p] \ {id} |-> unacked[p][x]]

sendMessage(p, id) ==
    /\ Sent = 1 .. id - 1
    /\ mySeq' = [mySeq EXCEPT ![p] = @ + 1]
    /\ messages' = [messages EXCEPT ![p] = @ \cup
           {[id |-> id, from |-> p, stamp |-> clock, seq |-> mySeq[p] + 1, status |-> "sent"]}]
    /\ network' = Broadcast(p, Others(p), MessagePacket(p, id, mySeq[p] + 1))
    /\ unacked' = [unacked EXCEPT ![p] = Unacked(p, id, 1)]
    /\ saveDue' = [saveDue EXCEPT ![p] = TRUE]
    /\ sent' = [x \in Sent \cup {id} |-> IF x = id THEN [author |-> p, room |-> room[p]]
                                                   ELSE sent[x]]
    /\ audience' = [x \in Sent \cup {id} |-> IF x = id THEN Others(p) ELSE audience[x]]
    /\ clock' = clock + 1
    /\ UNCHANGED <<room, generation, peerSeqs, loads, askAgain, stored, seen, reached, drops, moves>>

\* The copy sent again has no number, hence an id no filter knows, and a new stamp.
RetryPacket(p, id) == MessagePacket(p, id, 0)

Retry(p, id) ==
    /\ id \in DOMAIN unacked[p]
    /\ IF \E m \in messages[p] : m.id = id /\ m.status = "sent"
         THEN /\ network' = Broadcast(p, Others(p), RetryPacket(p, id))
              /\ clock' = clock + 1
              /\ unacked' = [unacked EXCEPT ![p] =
                     IF unacked[p][id] >= MaxAttempts THEN Acked(p, id)
                                                      ELSE Unacked(p, id, unacked[p][id] + 1)]
         ELSE /\ unacked' = [unacked EXCEPT ![p] = Acked(p, id)]
              /\ UNCHANGED <<network, clock>>
    /\ UNCHANGED <<room, generation, messages, mySeq, peerSeqs, loads, saveDue, askAgain,
                   stored, seen, sent, audience, reached, drops, moves>>

-----------------------------------------------------------------------------
(* Receiving.  A packet of another room changes nothing.                   *)

\* p takes the next packet of q and answers with the given packets.
Take(p, q, answers) ==
    network' = [network EXCEPT ![q][p] = Tail(@), ![p][q] = @ \o answers]

Receive(p, q, kind) ==
    /\ network[q][p] # <<>> /\ Head(network[q][p]).kind = kind
    /\ Head(network[q][p]).room = room[p]
    /\ UNCHANGED <<room, generation, mySeq, loads, askAgain, stored, sent, audience,
                   clock, drops, moves>>

\* Adds the messages of others' lists that p does not have, as delivered.
WithoutKnown(p, items) == {m \in items : m.id \notin IdsOf(messages[p])}
Merge(p, items) ==
    LET added == {[m EXCEPT !.status = "delivered"] : m \in WithoutKnown(p, items)} IN
    /\ messages' = [messages EXCEPT ![p] = @ \cup added]
    /\ saveDue' = [saveDue EXCEPT ![p] = @ \/ added # {}]
    /\ reached' = reached \cup {m.id : m \in {n \in added : n.from # p}}

PacketId(q, pkt) == <<pkt.room, q, pkt.seq>>
IsRepeat(p, q, pkt) == pkt.seq > 0 /\ PacketId(q, pkt) \in seen[p]

OnMessage(p, q) ==
    LET pkt == Head(network[q][p]) IN
    /\ Receive(p, q, "message")
    /\ IF IsRepeat(p, q, pkt)
         THEN Take(p, q, <<>>) /\ UNCHANGED <<messages, saveDue, reached, seen, peerSeqs>>
         ELSE /\ seen' = [seen EXCEPT ![p] = IF pkt.seq > 0 THEN @ \cup {PacketId(q, pkt)} ELSE @]
              /\ peerSeqs' = [peerSeqs EXCEPT ![p][q] = IF pkt.seq > @ THEN pkt.seq ELSE @]
              /\ IF pkt.id \in IdsOf(messages[p])
                   THEN Take(p, q, <<>>) /\ UNCHANGED <<messages, saveDue, reached>>
                   ELSE /\ Merge(p, {[id |-> pkt.id, from |-> q, stamp |-> pkt.stamp,
                                      seq |-> pkt.seq, status |-> "sent"]})
                        /\ Take(p, q, <<[kind |-> "ack", room |-> room[p], id |-> pkt.id]>>)
    /\ UNCHANGED unacked

OnAck(p, q) ==
    LET id == Head(network[q][p]).id
        acked == {m \in messages[p] : m.id = id /\ m.from = p} IN
    /\ Receive(p, q, "ack")
    /\ Take(p, q, <<>>)
    /\ messages' = [messages EXCEPT ![p] =
           (@ \ acked) \cup {[m EXCEPT !.status = "delivered"] : m \in acked}]
    /\ unacked' = [unacked EXCEPT ![p] = IF acked # {} THEN Acked(p, id) ELSE @]
    /\ saveDue' = [saveDue EXCEPT ![p] = @ \/ acked # {}]
    /\ UNCHANGED <<peerSeqs, seen, reached>>

Answer(p, items) ==
    IF items = {} THEN <<>> ELSE <<[kind |-> "items", room |-> room[p], items |-> items]>>

\* chat:history:request and sync:digest, sent one after the other: answered by
\* everything younger than the asker's last message, and by one's own messages
\* beyond the highest number the asker has seen.
OnCatchUp(p, q) ==
    LET pkt == Head(network[q][p])
        recent == {m \in messages[p] : m.stamp > pkt.since}
        missing == {m \in messages[p] : m.from = p /\ m.seq > pkt.seqs[p]} IN
    /\ Receive(p, q, "catchup")
    /\ Take(p, q, Answer(p, recent) \o Answer(p, missing))
    /\ UNCHANGED <<messages, saveDue, reached, peerSeqs, seen, unacked>>

\* chat:history:response and sync:delta_response
OnItems(p, q) ==
    /\ Receive(p, q, "items")
    /\ Take(p, q, <<>>)
    /\ Merge(p, Head(network[q][p]).items)
    /\ UNCHANGED <<peerSeqs, seen, unacked>>

Discard(p, q) ==
    /\ network[q][p] # <<>> /\ Take(p, q, <<>>)
    /\ UNCHANGED <<room, generation, messages, mySeq, peerSeqs, unacked, loads, saveDue,
                   askAgain, stored, seen, sent, audience, reached, clock, moves>>

Ignored(p, q) ==
    network[q][p] # <<>> /\ Head(network[q][p]).room # room[p] /\ Discard(p, q) /\ UNCHANGED drops

Deliver(p, q) ==
    \/ OnMessage(p, q) \/ OnAck(p, q) \/ OnCatchUp(p, q) \/ OnItems(p, q) \/ Ignored(p, q)

Lose(p, q) ==
    drops < MaxDrops /\ drops' = drops + 1 /\ Discard(p, q)

-----------------------------------------------------------------------------
(* Rooms, the cache and restarts.                                          *)

\* Asking for history and broadcasting the digest, from the given lists.
CatchUp(p, r, list, seq, seqs) ==
    Broadcast(p, {q \in Peers \ {p} : room[q] = r},
              [kind |-> "catchup", room |-> r, since |-> Latest(list),
               seqs |-> [seqs EXCEPT ![p] = seq]])

\* p is no longer where the messages under way were meant for it.
Leaves(p) == [id \in Sent |-> IF sent[id].author = p THEN {} ELSE audience[id] \ {p}]

SavedNow(p) ==
    [stored EXCEPT ![p][room[p]] = IF messages[p] # {} THEN messages[p] ELSE @]

\* init for another room: the old one is saved at once, its timers cancelled.
init(p, r) ==
    /\ room[p] # r /\ p \in Movers /\ moves < MaxMoves /\ moves' = moves + 1
    /\ stored' = SavedNow(p)
    /\ room' = [room EXCEPT ![p] = r]
    /\ generation' = [generation EXCEPT ![p] = @ + 1]
    /\ messages' = [messages EXCEPT ![p] = {}]
    /\ unacked' = [unacked EXCEPT ![p] = <<>>]
    /\ saveDue' = [saveDue EXCEPT ![p] = FALSE]
    /\ loads' = [loads EXCEPT ![p] = @ \cup {[room |-> r, generation |-> generation'[p]]}]
    /\ askAgain' = [askAgain EXCEPT ![p] = TRUE]
    /\ network' = CatchUp(p, r, {}, mySeq[p], peerSeqs[p])
    /\ audience' = Leaves(p)
    /\ UNCHANGED <<mySeq, peerSeqs, seen, sent, reached, clock, drops>>

\* The panel closes and opens again in the same room; closing saves, a crash
\* does not.  Numbers start again from zero.
Restart(p, saves) ==
    /\ p \in Movers /\ moves < MaxMoves /\ moves' = moves + 1
    /\ stored' = IF saves THEN SavedNow(p) ELSE stored
    /\ messages' = [messages EXCEPT ![p] = {}]
    /\ mySeq' = [mySeq EXCEPT ![p] = 0]
    /\ peerSeqs' = [peerSeqs EXCEPT ![p] = [q \in Peers |-> 0]]
    /\ seen' = [seen EXCEPT ![p] = {}]
    /\ unacked' = [unacked EXCEPT ![p] = <<>>]
    /\ saveDue' = [saveDue EXCEPT ![p] = FALSE]
    /\ loads' = [loads EXCEPT ![p] = {[room |-> room[p], generation |-> generation[p]]}]
    /\ askAgain' = [askAgain EXCEPT ![p] = TRUE]
    /\ network' = CatchUp(p, room[p], {}, 0, peerSeqs'[p])
    /\ audience' = Leaves(p)
    /\ UNCHANGED <<room, generation, sent, reached, clock, drops>>

\* 1.5 s later the history is asked for once more.
RetryHistory(p) ==
    /\ askAgain[p] /\ askAgain' = [askAgain EXCEPT ![p] = FALSE]
    /\ network' = CatchUp(p, room[p], messages[p], mySeq[p], peerSeqs[p])
    /\ UNCHANGED <<room, generation, messages, mySeq, peerSeqs, unacked, loads, saveDue,
                   stored, seen, sent, audience, reached, clock, drops, moves>>

\* The answer of the cache counts only for the room and generation that asked,
\* and only while the list is still empty.
\* Slip: whatever was read counts.
AnyLoad(p, load) == TRUE

IsCurrent(p, load) == load.room = room[p] /\ load.generation = generation[p]

Cached(p, r) == stored[p][r]

loadCachedMessages(p, load) ==
    /\ load \in loads[p]
    /\ loads' = [loads EXCEPT ![p] = @ \ {load}]
    /\ messages' = [messages EXCEPT ![p] =
           IF IsCurrent(p, load) /\ messages[p] = {} THEN Cached(p, load.room) ELSE @]
    /\ UNCHANGED <<room, generation, mySeq, peerSeqs, unacked, saveDue, askAgain, stored,
                   seen, network, sent, audience, reached, clock, drops, moves>>

saveMessages(p) ==
    /\ saveDue[p] /\ saveDue' = [saveDue EXCEPT ![p] = FALSE]
    /\ stored' = SavedNow(p)
    /\ UNCHANGED <<room, generation, messages, mySeq, peerSeqs, unacked, loads, askAgain,
                   seen, network, sent, audience, reached, clock, drops, moves>>

Next ==
    \/ \E p \in Peers :
          \/ RetryHistory(p) \/ saveMessages(p)
          \/ \E id \in Ids : sendMessage(p, id)
          \/ \E id \in Sent : Retry(p, id)
          \/ \E r \in Rooms : init(p, r)
          \/ \E saves \in BOOLEAN : Restart(p, saves)
          \/ \E load \in loads[p] : loadCachedMessages(p, load)
    \/ \E p, q \in Peers : Deliver(p, q) \/ Lose(p, q)

RetryDue == \E p \in Peers : \E id \in Sent : Retry(p, id)
DeliverDue == \E p, q \in Peers : Deliver(p, q)

FairSpec == Init /\ [][Next]_vars /\ WF_vars(RetryDue) /\ WF_vars(DeliverDue)

-----------------------------------------------------------------------------
TypeOK ==
    /\ room \in [Peers -> Rooms] /\ generation \in [Peers -> Nat]
    /\ \A p \in Peers :
          /\ messages[p] \subseteq Message
          /\ \A r \in Rooms : stored[p][r] \subseteq Message
          /\ \A l \in loads[p] : l \in [room : Rooms, generation : Nat]
          /\ DOMAIN unacked[p] \subseteq Ids
          /\ \A id \in DOMAIN unacked[p] : unacked[p][id] \in 1 .. MaxAttempts
    /\ saveDue \in [Peers -> BOOLEAN] /\ askAgain \in [Peers -> BOOLEAN]
    /\ mySeq \in [Peers -> Nat] /\ peerSeqs \in [Peers -> [Peers -> Nat]]
    /\ \A id \in Sent : sent[id] \in [author : Peers, room : Rooms] /\ audience[id] \subseteq Peers
    /\ reached \subseteq Ids

\* Two copies of one message never stand in a list, whichever of direct send,
\* retry, history, digest and cache brought them, in whatever order.
NoTwice ==
    \A p \in Peers : \A m, n \in messages[p] : m.id = n.id => m = n

\* A list and a cache hold only messages of their own room: no late answer, late
\* save or late packet brings those of the room before.
OfItsRoom ==
    \A p \in Peers :
        /\ \A m \in messages[p] : sent[m.id].room = room[p]
        /\ \A r \in Rooms : \A m \in stored[p][r] : sent[m.id].room = r

\* A message its author is shown as delivered has reached somebody, through
\* restarts and reads of the cache as well.
DeliveredReached ==
    \A p \in Peers : \A m \in messages[p] :
        m.from = p /\ m.status = "delivered" => m.id \in reached

\* Some peer of the room the message was sent in has it, if any has stayed.
GotThrough ==
    \A id \in Sent : audience[id] # {} => \E q \in audience[id] : id \in IdsOf(messages[q])
=============================================================================
