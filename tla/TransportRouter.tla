--------------------------- MODULE TransportRouter ---------------------------
(***************************************************************************)
(* Which way a packet goes out: the channels to other peers, the server's  *)
(* relay, or a queue until a channel opens                                 *)
(* (core/transport/transport-router.ts, with the sender of                 *)
(* core/network/topology.service.ts and the room handoff of                *)
(* core/network/network.service.ts).                                       *)
(*                                                                         *)
(* A packet is for one peer or for All.  out is history: what was handed   *)
(* to the channels or to the server, and in which room.                    *)
(***************************************************************************)
EXTENDS Naturals, Sequences, FiniteSets

CONSTANTS
    Peers, All,
    MaxPackets, MaxPending,  \* MaxPending: MAX_PENDING_P2P
    MaxRooms

\* MCTransport assumes it of the instance.
RouterAssumption ==
    /\ All \notin Peers
    /\ MaxPackets \in Nat /\ MaxPending \in Nat \ {0} /\ MaxRooms \in Nat \ {0}

VARIABLES
    room, relayed,  \* the rooms entered so far, and those that allow the relay
    view,           \* activeView: "none", "stable", "draining" or "relay" (TIER3)
    links,          \* open channels
    packets,        \* what was sent, oldest first
    pending,        \* pendingP2P
    flushing,       \* flushTimer
    out

vars == <<room, relayed, view, links, packets, pending, flushing, out>>

Init ==
    /\ room = 1 /\ relayed \in SUBSET {1}
    /\ view = "none" /\ links = {} /\ packets = <<>>
    /\ pending = <<>> /\ flushing = FALSE /\ out = {}

RelayAllowed == room \in relayed

By(id, carrier, to) == [id |-> id, by |-> carrier, to |-> to, room |-> room, late |-> FALSE]

\* sendP2PPacket: to the target, or to everyone there is a channel to.
Channel(to) == IF to = All THEN links # {} ELSE to \in links

Entry(id, to) == [id |-> id, to |-> to, room |-> room, late |-> FALSE]

\* deferOrDrop; the oldest makes room.
Deferred(q, e) == Append(IF Len(q) >= MaxPending THEN Tail(q) ELSE q, e)

ByChannel(id, to) == Channel(to) /\ out' = out \cup {By(id, "peer", to)} /\ UNCHANGED <<pending, flushing>>
ByServer(id, to) == out' = out \cup {By(id, "server", to)} /\ UNCHANGED <<pending, flushing>>
Dropped == UNCHANGED <<pending, flushing, out>>
Defer(id, to) ==
    /\ pending' = Deferred(pending, Entry(id, to)) /\ flushing' = TRUE
    /\ UNCHANGED out

\* What does not go out is deferred, or dropped if the next update replaces it.
OrDeferred(p) == ~Channel(p.to) /\ (IF p.brief THEN Dropped ELSE Defer(p.id, p.to))

\* broadcast, sendTo
Route(p) ==
    IF ~RelayAllowed THEN ByChannel(p.id, p.to) \/ (~Channel(p.to) /\ Dropped)
    ELSE IF view \in {"none", "relay"} THEN ByServer(p.id, p.to)
    ELSE IF view = "draining" /\ p.to = All
         THEN /\ out' = out \cup {By(p.id, "server", All)}
                            \cup {x \in {By(p.id, "peer", All)} : Channel(All)}
              /\ UNCHANGED <<pending, flushing>>
    ELSE IF p.to = All \/ p.to \in links THEN ByChannel(p.id, p.to) \/ OrDeferred(p)
    ELSE ByServer(p.id, p.to)

Send(to, brief) ==
    LET p == [id |-> Len(packets) + 1, to |-> to, brief |-> brief, room |-> room]
    IN  /\ Len(packets) < MaxPackets
        /\ packets' = Append(packets, p)
        /\ Route(p)
        /\ UNCHANGED <<room, relayed, view, links>>

\* ReliableTransport sends it again.
SendAgain(i) ==
    /\ packets[i].room = room /\ ~packets[i].brief
    /\ Route(packets[i])
    /\ UNCHANGED <<room, relayed, view, links, packets>>

\* A channel that is listed closes before it is written to.
ClosesUnder(i) ==
    LET p == packets[i]
    IN  /\ RelayAllowed /\ view = "stable" /\ p.room = room /\ p.to \in links /\ ~p.brief
        /\ links' = links \ {p.to}
        /\ Defer(p.id, p.to)
        /\ UNCHANGED <<room, relayed, view, packets>>

\* What of the queue goes out over the channels c, and what stays: what neither
\* goes nor has waited too long, in its order.
Goes(e, c) == IF e.to = All THEN c # {} ELSE e.to \in c
Staying(q, c) == {i \in DOMAIN q : ~q[i].late /\ ~Goes(q[i], c)}

SentFrom(q, c) ==
    {[id |-> e.id, by |-> "peer", to |-> e.to, room |-> room, late |-> e.late] :
        e \in {q[i] : i \in {j \in DOMAIN q : ~q[j].late /\ Goes(q[j], c)}}}

Increasing(n, S) == {f \in [1..n -> S] : \A j, k \in 1..n : j < k => f[j] < f[k]}

\* flushPendingP2P
Flushed(c) ==
    /\ out' = out \cup SentFrom(pending, c)
    /\ LET n == Cardinality(Staying(pending, c))
       IN  \E at \in Increasing(n, Staying(pending, c)) : pending' = [k \in 1..n |-> pending[at[k]]]
    /\ flushing' = (pending' # <<>>)

Flush ==
    /\ flushing /\ Flushed(links)
    /\ UNCHANGED <<room, relayed, view, links, packets>>

\* updateView, with every change of the topology.
UpdateView(v, c) ==
    /\ <<v, c>> # <<view, links>>
    /\ RelayAllowed \/ v = "stable"
    /\ view' = v /\ links' = c
    /\ Flushed(c)
    /\ UNCHANGED <<room, relayed, packets>>

\* Twenty seconds pass for what is queued.
Expire ==
    /\ \E i \in DOMAIN pending : ~pending[i].late
    /\ pending' = [i \in DOMAIN pending |-> [pending[i] EXCEPT !.late = TRUE]]
    /\ UNCHANGED <<room, relayed, view, links, packets, flushing, out>>

\* Slip: the queue survives the change of rooms.
KeepsQueue == UNCHANGED <<pending, flushing>>

ResetQueue == pending' = <<>> /\ flushing' = FALSE

\* leave and init: reset, then the policy of the next room, then its topology.
NextRoom(allowed) ==
    /\ room < MaxRooms
    /\ room' = room + 1
    /\ relayed' = IF allowed THEN relayed \cup {room + 1} ELSE relayed
    /\ view' = "none" /\ links' = {}
    /\ ResetQueue
    /\ UNCHANGED <<packets, out>>

Next ==
    \/ \E to \in Peers \cup {All}, brief \in BOOLEAN : Send(to, brief)
    \/ \E i \in DOMAIN packets : SendAgain(i) \/ ClosesUnder(i)
    \/ \E v \in {"stable", "draining", "relay"}, c \in SUBSET Peers : UpdateView(v, c)
    \/ \E allowed \in BOOLEAN : NextRoom(allowed)
    \/ Flush \/ Expire

Spec == Init /\ [][Next]_vars

-----------------------------------------------------------------------------
\* Every variable keeps its type (transport-router.ts:12-40).
TypeOK ==
    /\ room \in 1..MaxRooms /\ relayed \subseteq 1..room
    /\ view \in {"none", "stable", "draining", "relay"} /\ links \subseteq Peers
    /\ packets \in Seq([id : 1..MaxPackets, to : Peers \cup {All}, brief : BOOLEAN, room : 1..room])
    /\ pending \in Seq([id : DOMAIN packets, to : Peers \cup {All}, room : 1..room, late : BOOLEAN])
    /\ Len(packets) <= MaxPackets /\ Len(pending) <= MaxPending /\ flushing \in BOOLEAN
    /\ out \subseteq [id : DOMAIN packets, by : {"peer", "server"}, to : Peers \cup {All},
                      room : 1..room, late : BOOLEAN]

\* A room that is to be direct never has the server carry a packet, neither
\* while it is set up nor by what was queued (transport-router.ts:66-82).
NeverRelayed == \A o \in out : o.by = "server" => o.room \in relayed

\* What was sent in a room goes out in that room or never
\* (transport-router.ts:242-249).
OwnRoomOnly == \A o \in out : o.room = packets[o.id].room

\* A packet for one peer goes to that peer, deferred or not
\* (transport-router.ts:275-278).
UnicastStaysUnicast == \A o \in out : o.to = packets[o.id].to

\* Nothing goes out that waited too long (transport-router.ts:200-204).
NothingLate == \A o \in out : ~o.late

\* What waits for a channel is tried again: a timer is set as long as there is
\* something to flush (transport-router.ts:189-240).
TimerCoversQueue == pending # <<>> => flushing

\* A packet goes out in its own room or never, to its own peer, before it waited
\* too long, over the server in a relayed room alone; what waits is tried again.
PacketsKeepTheirRoom ==
    /\ TypeOK
    /\ NeverRelayed /\ OwnRoomOnly /\ UnicastStaysUnicast /\ NothingLate /\ TimerCoversQueue
=============================================================================
