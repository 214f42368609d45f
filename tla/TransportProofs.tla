--------------------------- MODULE TransportProofs ---------------------------
(***************************************************************************)
(* Theorems about the parts of the transport, for every number of peers,   *)
(* packets, sockets and rooms and every bound: which way a packet goes out *)
(* (TransportRouter), the stamps (HybridClock), the tier of a room         *)
(* (TierCoordinator), the probes on a channel (LinkMonitor), fragments     *)
(* (Chunking) and the socket to the server (SignalingClient).  Each part   *)
(* has its invariant; at the end they are stated of MCTransport.           *)
(***************************************************************************)
EXTENDS MCTransport, FiniteSetTheorems, WellFoundedInduction, TLAPS

(***************************************************************************)
(* The router.  Its invariant: what waits for a channel is of the room its *)
(* peer is in, and addressed as the packet is.  What is said of the queue  *)
(* and of the hops is said for any log of packets, since both change.      *)
(***************************************************************************)

Someone == Peers \cup {All}
Packets(r) == [id : 1..MaxPackets, to : Someone, brief : BOOLEAN, room : 1..r]
Entries(log, r) == [id : DOMAIN log, to : Someone, room : 1..r, late : BOOLEAN]
Hops(log, r) ==
    [id : DOMAIN log, by : {"peer", "server"}, to : Someone, room : 1..r, late : BOOLEAN]

\* A packet's number is its place.
Log(log, r) ==
    /\ log \in Seq(Packets(r)) /\ Len(log) <= MaxPackets
    /\ \A i \in DOMAIN log : log[i].id = i

Waits(e, log, r) ==
    /\ e \in Entries(log, r)
    /\ e.room = r /\ e.to = log[e.id].to /\ log[e.id].room = r

Queue(q, log, r) ==
    /\ q \in Seq(Entries(log, r)) /\ Len(q) <= MaxPending
    /\ \A i \in DOMAIN q : Waits(q[i], log, r)

GoodHop(o, log, r, allowed) ==
    /\ o \in Hops(log, r) /\ ~o.late
    /\ o.room = log[o.id].room /\ o.to = log[o.id].to
    /\ o.by = "server" => o.room \in allowed

Gone(hops, log, r, allowed) == \A o \in hops : GoodHop(o, log, r, allowed)

Room == room \in 1..MaxRooms /\ relayed \subseteq 1..room
Topology == view \in {"none", "stable", "draining", "relay"} /\ links \subseteq Peers
Timer == flushing \in BOOLEAN /\ (pending # <<>> => flushing)

RouterInv ==
    /\ Room /\ Topology /\ Log(packets, room)
    /\ Queue(pending, packets, room) /\ Timer /\ Gone(out, packets, room, relayed)

LEMMA RouterSafe == RouterInv => Router!PacketsKeepTheirRoom
BY DEF RouterInv, Room, Topology, Log, Queue, Timer, Gone, GoodHop, Packets, Entries, Hops, Someone,
       Router!PacketsKeepTheirRoom, Router!TypeOK, Router!TimerCoversQueue, Router!NeverRelayed,
       Router!OwnRoomOnly, Router!UnicastStaysUnicast, Router!NothingLate

LEMMA RouterInit == ASSUME Router!RouterAssumption, Router!Init PROVE RouterInv
<1>1. Room /\ Topology /\ Timer
  <2>1. room \in 1..MaxRooms  BY DEF Router!Init, Router!RouterAssumption
  <2>2. relayed \subseteq 1..room  BY DEF Router!Init
  <2>3. Topology /\ Timer  BY DEF Router!Init, Topology, Timer
  <2> QED  BY <2>1, <2>2, <2>3 DEF Room
<1>2. Log(<<>>, 1) /\ Queue(<<>>, <<>>, 1)
  BY DEF Router!RouterAssumption, Log, Queue
<1> QED  BY <1>1, <1>2 DEF RouterInv, Router!Init, Gone

-----------------------------------------------------------------------------
(* Queues *)

\* What joins a queue of what waits leaves a queue of what waits.
LEMMA DeferredWaits ==
    ASSUME Router!RouterAssumption, NEW log, NEW r, NEW q0, Queue(q0, log, r), NEW e, Waits(e, log, r)
    PROVE  Queue(Router!Deferred(q0, e), log, r) /\ Router!Deferred(q0, e) # <<>>
<1> DEFINE E == Entries(log, r)
           q == IF Len(q0) >= MaxPending THEN Tail(q0) ELSE q0
<1> HIDE DEF E
<1>0. q0 \in Seq(E) /\ Len(q0) <= MaxPending  BY DEF Queue, E
<1>1. /\ q \in Seq(E) /\ Len(q) < MaxPending
      /\ \A i \in 1..Len(q) : \E j \in 1..Len(q0) : q[i] = q0[j]
  BY <1>0 DEF Router!RouterAssumption
<1>2. e \in E  BY DEF Waits, E
<1>3. \A i \in 1..Len(q) : Waits(q[i], log, r)
  BY <1>0, <1>1 DEF Queue
<1> HIDE DEF q
<1>4. /\ Append(q, e) \in Seq(E) /\ Len(Append(q, e)) = Len(q) + 1
      /\ \A i \in 1..Len(q) : Append(q, e)[i] = q[i]
      /\ Append(q, e)[Len(q) + 1] = e
  BY <1>1, <1>2
<1>5. Len(q) \in Nat  BY <1>1
<1>6. Queue(Append(q, e), log, r)
  <2>1. Len(Append(q, e)) <= MaxPending  BY <1>1, <1>4, <1>5 DEF Router!RouterAssumption
  <2>2. ASSUME NEW i \in DOMAIN Append(q, e) PROVE Waits(Append(q, e)[i], log, r)
    BY <1>3, <1>4, <1>5
  <2> QED  BY <1>4, <2>1, <2>2 DEF Queue, E
<1>7. Append(q, e) # <<>>  BY <1>1, <1>4, <1>5
<1> QED  BY <1>6, <1>7 DEF q, Router!Deferred

\* Of a queue of what waits, the part that stays is one too, and what goes is sent
\* to where it belongs.
LEMMA FlushedWaits ==
    ASSUME Router!RouterAssumption, Room, Log(packets, room), Queue(pending, packets, room), NEW c,
           NEW at \in Router!Increasing(Cardinality(Router!Staying(pending, c)),
                                        Router!Staying(pending, c))
    PROVE  /\ Queue([k \in 1..Cardinality(Router!Staying(pending, c)) |-> pending[at[k]]],
                    packets, room)
           /\ Gone(Router!SentFrom(pending, c), packets, room, relayed)
<1> DEFINE S == Router!Staying(pending, c)
           n == Cardinality(S)
           q == [k \in 1..n |-> pending[at[k]]]
           E == Entries(packets, room)
<1> HIDE DEF E
<1>0. pending \in Seq(E) /\ Len(pending) <= MaxPending  BY DEF Queue, E
<1>1. S \subseteq 1..Len(pending)  BY <1>0 DEF Router!Staying
<1>2. n \in Nat /\ n <= Len(pending)
  <2>1. IsFiniteSet(1..Len(pending)) /\ Cardinality(1..Len(pending)) = Len(pending)
    BY <1>0, FS_Interval
  <2> QED  BY <1>1, <2>1, FS_Subset, FS_CardinalityType
<1>3. at \in [1..n -> S]  BY DEF Router!Increasing
<1> HIDE DEF S, n
<1>4. \A k \in 1..n : at[k] \in 1..Len(pending)  BY <1>1, <1>3
<1>5. \A k \in 1..n : q[k] \in E /\ Waits(q[k], packets, room)  BY <1>0, <1>4 DEF Queue
<1>6. q \in Seq(E) /\ Len(q) = n
  BY <1>2, <1>5
<1>7. Queue(q, packets, room)
  <2>1. Len(q) <= MaxPending  BY <1>0, <1>2, <1>6 DEF Router!RouterAssumption
  <2> QED  BY <1>5, <1>6, <2>1 DEF Queue, E
<1>8. ASSUME NEW o \in Router!SentFrom(pending, c) PROVE GoodHop(o, packets, room, relayed)
  <2>1. PICK i \in DOMAIN pending :
           /\ ~pending[i].late
           /\ o = [id |-> pending[i].id, by |-> "peer", to |-> pending[i].to, room |-> room,
                   late |-> pending[i].late]
    BY DEF Router!SentFrom
  <2>2. Waits(pending[i], packets, room)  BY DEF Queue
  <2>3. /\ pending[i].id \in DOMAIN packets /\ pending[i].to \in Someone /\ room \in 1..room
        /\ pending[i].late = FALSE
    BY <2>1, <2>2 DEF Waits, Entries, Room, Router!RouterAssumption
  <2> QED  BY <2>1, <2>2, <2>3 DEF GoodHop, Hops, Waits
<1> QED  BY <1>7, <1>8 DEF S, n, Gone

\* A longer log takes nothing back.
LEMMA LongerLog ==
    ASSUME NEW log, NEW r \in Nat, Log(log, r), NEW p \in Packets(r), p.id = Len(log) + 1,
           Len(log) < MaxPackets, MaxPackets \in Nat
    PROVE  /\ Log(Append(log, p), r)
           /\ Append(log, p)[p.id] = p /\ p.id \in DOMAIN Append(log, p)
           /\ \A q : Queue(q, log, r) => Queue(q, Append(log, p), r)
           /\ \A hops, allowed : Gone(hops, log, r, allowed) => Gone(hops, Append(log, p), r, allowed)
<1> DEFINE P == Packets(r)  more == Append(log, p)
<1> HIDE DEF P
<1>1. log \in Seq(P) /\ p \in P  BY DEF Log, P
<1>2. /\ more \in Seq(P) /\ Len(more) = Len(log) + 1 /\ Len(log) \in Nat
      /\ \A i \in DOMAIN log : i \in DOMAIN more /\ more[i] = log[i]
      /\ more[Len(log) + 1] = p
  BY <1>1
<1> HIDE DEF more
<1>3. Log(more, r)
  <2>1. \A i \in DOMAIN more : i \in DOMAIN log \/ i = Len(log) + 1  BY <1>1, <1>2
  <2> QED  BY <1>2, <2>1 DEF Log, P
<1>4. p.id \in DOMAIN more  BY <1>2
<1>5. Entries(log, r) \subseteq Entries(more, r) /\ Hops(log, r) \subseteq Hops(more, r)
  BY <1>2 DEF Entries, Hops
<1>6. ASSUME NEW e, Waits(e, log, r) PROVE Waits(e, more, r)
  BY <1>2, <1>5, <1>6 DEF Waits, Entries
<1>7. ASSUME NEW q, Queue(q, log, r) PROVE Queue(q, more, r)
  BY <1>5, <1>6, <1>7 DEF Queue
<1>8. ASSUME NEW hops, NEW allowed, Gone(hops, log, r, allowed) PROVE Gone(hops, more, r, allowed)
  BY <1>2, <1>5, <1>8 DEF Gone, GoodHop, Hops
<1> QED  BY <1>2, <1>3, <1>4, <1>7, <1>8 DEF more

-----------------------------------------------------------------------------
(* Steps.  What a packet's way out leaves behind, whatever the log is by then. *)

Left(log) ==
    /\ Queue(pending', log, room) /\ Timer' /\ Gone(out', log, room, relayed)

LEMMA HopIsGood ==
    ASSUME Room, NEW log, NEW id \in DOMAIN log, log[id].room = room, log[id].to \in Someone,
           NEW carrier \in {"peer", "server"}, carrier = "server" => room \in relayed
    PROVE  GoodHop(Router!By(id, carrier, log[id].to), log, room, relayed)
<1>1. room \in 1..room  BY DEF Room
<1> QED  BY <1>1 DEF GoodHop, Hops, Router!By

LEMMA RouteLeaves ==
    ASSUME Router!RouterAssumption, Room, Timer, NEW log, Queue(pending, log, room),
           Gone(out, log, room, relayed),
           NEW id \in DOMAIN log, NEW p, p.id = id, p.to = log[id].to, log[id].room = room,
           p.to \in Someone, Router!Route(p)
    PROVE  Left(log)
<1> DEFINE Same == UNCHANGED <<pending, flushing>>
<1>1. \A carrier \in {"peer", "server"} :
         (carrier = "server" => Router!RelayAllowed) =>
            GoodHop(Router!By(p.id, carrier, p.to), log, room, relayed)
  BY HopIsGood DEF Router!RelayAllowed
<1>2. Same /\ out' = out => Left(log)  BY DEF Left, Timer
<1>3. Router!ByChannel(p.id, p.to) => Left(log)
  BY <1>1 DEF Router!ByChannel, Left, Timer, Gone
<1>4. Router!RelayAllowed /\ Router!ByServer(p.id, p.to) => Left(log)
  BY <1>1 DEF Router!ByServer, Left, Timer, Gone
<1>5. Router!Defer(p.id, p.to) => Left(log)
  <2>1. Waits(Router!Entry(p.id, p.to), log, room)
    <3>1. room \in 1..room  BY DEF Room
    <3> QED  BY <3>1 DEF Router!Entry, Waits, Entries
  <2> QED  BY <2>1, DeferredWaits DEF Router!Defer, Left, Timer
<1>6. Router!Dropped => Left(log)  BY <1>2 DEF Router!Dropped
<1>7. Router!OrDeferred(p) => Left(log)  BY <1>5, <1>6 DEF Router!OrDeferred
<1>8. CASE ~Router!RelayAllowed  BY <1>3, <1>6, <1>8 DEF Router!Route
<1>9. CASE Router!RelayAllowed
  <2>1. CASE view \in {"none", "relay"}  BY <1>4, <1>9, <2>1 DEF Router!Route
  <2>2. CASE view = "draining" /\ p.to = All
    <3>1. /\ out' = (out \cup {Router!By(p.id, "server", All)})
                     \cup {x \in {Router!By(p.id, "peer", All)} : Router!Channel(All)}
          /\ UNCHANGED <<pending, flushing>>
      BY <1>9, <2>2 DEF Router!Route
    <3>2. \A o \in out' : o \in out \/ o = Router!By(p.id, "server", p.to)
                                    \/ o = Router!By(p.id, "peer", p.to)
      BY <3>1, <2>2
    <3>3. Gone(out', log, room, relayed)  BY <1>1, <1>9, <3>2 DEF Gone
    <3> QED  BY <3>1, <3>3 DEF Left, Timer
  <2>3. CASE view \notin {"none", "relay"} /\ ~(view = "draining" /\ p.to = All)
    BY <1>3, <1>4, <1>7, <1>9, <2>3 DEF Router!Route
  <2> QED  BY <2>1, <2>2, <2>3
<1> QED  BY <1>8, <1>9

LEMMA InLog ==
    ASSUME Log(packets, room), NEW i \in DOMAIN packets
    PROVE  packets[i].id = i /\ packets[i].to \in Someone
<1> DEFINE P == Packets(room)
<1>1. packets \in Seq(P)  BY DEF Log
<1> HIDE DEF P
<1>2. packets[i] \in P  BY <1>1
<1>3. packets[i].to \in Someone  BY <1>2 DEF P, Packets
<1> QED  BY <1>3 DEF Log

\* An instance has FiniteSets under names of its own.
LEMMA SameSize == \A S : Router!Cardinality(S) = Cardinality(S)
BY DEF Router!Cardinality, Cardinality

LEMMA FlushedLeaves ==
    ASSUME Router!RouterAssumption, RouterInv, NEW c, Router!Flushed(c)
    PROVE  Left(packets)
<1> DEFINE n == Cardinality(Router!Staying(pending, c))
<1>1. PICK at \in Router!Increasing(n, Router!Staying(pending, c)) :
         pending' = [k \in 1..n |-> pending[at[k]]]
  BY SameSize DEF Router!Flushed
<1>2. /\ Queue(pending', packets, room)
      /\ Gone(Router!SentFrom(pending, c), packets, room, relayed)
  BY <1>1, FlushedWaits DEF RouterInv
<1>3. out' = out \cup Router!SentFrom(pending, c) /\ flushing' = (pending' # <<>>)
  BY DEF Router!Flushed
<1> QED  BY <1>2, <1>3 DEF Left, Timer, Gone, RouterInv

LEMMA RouterStep ==
    ASSUME Router!RouterAssumption, RouterInv, [Router!Next]_Router!vars
    PROVE  RouterInv'
<1>0. /\ Room /\ Topology /\ Log(packets, room) /\ Queue(pending, packets, room) /\ Timer
      /\ Gone(out, packets, room, relayed)
      /\ room \in Nat
  BY DEF RouterInv, Room, Router!RouterAssumption
<1>1. ASSUME Left(packets'), UNCHANGED <<room, relayed>>, Topology', Log(packets', room)
      PROVE  RouterInv'
  BY <1>0, <1>1 DEF RouterInv, Left, Room
<1>2. CASE UNCHANGED Router!vars
  BY <1>0, <1>2 DEF Router!vars, RouterInv, Room, Topology, Timer
<1>3. ASSUME NEW to \in Peers \cup {All}, NEW brief \in BOOLEAN, Router!Send(to, brief)
      PROVE  RouterInv'
  <2> DEFINE p == [id |-> Len(packets) + 1, to |-> to, brief |-> brief, room |-> room]
  <2>1. /\ Len(packets) < MaxPackets /\ packets' = Append(packets, p) /\ Router!Route(p)
        /\ UNCHANGED <<room, relayed, view, links>>
    BY <1>3 DEF Router!Send
  <2>2. p \in Packets(room) /\ p.id = Len(packets) + 1 /\ p.to \in Someone /\ p.room = room
    <3>1. Len(packets) + 1 \in 1..MaxPackets  BY <1>0, <2>1 DEF Log, Router!RouterAssumption
    <3>2. room \in 1..room  BY <1>0 DEF Room
    <3> QED  BY <3>1, <3>2 DEF Packets, Someone
  <2> HIDE DEF p
  <2>3. /\ Log(packets', room) /\ packets'[p.id] = p /\ p.id \in DOMAIN packets'
        /\ Queue(pending, packets', room) /\ Gone(out, packets', room, relayed)
    BY <1>0, <2>1, <2>2, LongerLog DEF Router!RouterAssumption
  <2>4. Left(packets')  BY <1>0, <2>1, <2>2, <2>3, RouteLeaves
  <2> QED  BY <1>0, <1>1, <2>1, <2>3, <2>4 DEF Topology
<1>4. ASSUME NEW i \in DOMAIN packets, Router!SendAgain(i) PROVE RouterInv'
  <2>1. /\ packets[i].room = room /\ Router!Route(packets[i])
        /\ UNCHANGED <<room, relayed, view, links, packets>>
    BY <1>4 DEF Router!SendAgain
  <2>2. packets[i].id = i /\ packets[i].to \in Someone  BY <1>0, InLog
  <2>3. Left(packets)  BY <1>0, <2>1, <2>2, RouteLeaves
  <2> QED  BY <1>0, <1>1, <2>1, <2>3 DEF Topology
<1>5. ASSUME NEW i \in DOMAIN packets, Router!ClosesUnder(i) PROVE RouterInv'
  <2>1. /\ packets[i].room = room /\ links' \subseteq links
        /\ Router!Defer(packets[i].id, packets[i].to)
        /\ UNCHANGED <<room, relayed, view, packets>>
    BY <1>5 DEF Router!ClosesUnder
  <2>2. packets[i].id = i /\ packets[i].to \in Someone /\ room \in 1..room
    BY <1>0, InLog DEF Room
  <2>3. Waits(Router!Entry(i, packets[i].to), packets, room)
    BY <2>1, <2>2 DEF Router!Entry, Waits, Entries
  <2>4. Left(packets)
    BY <1>0, <2>1, <2>2, <2>3, DeferredWaits DEF Router!Defer, Left, Timer
  <2> QED  BY <1>0, <1>1, <2>1, <2>4 DEF Topology
<1>6. ASSUME NEW v \in {"stable", "draining", "relay"}, NEW c \in SUBSET Peers,
             Router!UpdateView(v, c)
      PROVE  RouterInv'
  <2>1. view' = v /\ links' = c /\ Router!Flushed(c) /\ UNCHANGED <<room, relayed, packets>>
    BY <1>6 DEF Router!UpdateView
  <2> QED  BY <1>0, <1>1, <2>1, FlushedLeaves DEF Topology
<1>7. CASE Router!Flush
  BY <1>0, <1>1, <1>7, FlushedLeaves DEF Router!Flush, Topology
<1>8. ASSUME NEW allowed \in BOOLEAN, Router!NextRoom(allowed) PROVE RouterInv'
  <2>1. /\ room < MaxRooms /\ room' = room + 1 /\ relayed \subseteq relayed'
        /\ relayed' \subseteq relayed \cup {room + 1}
        /\ view' = "none" /\ links' = {} /\ pending' = <<>> /\ flushing' = FALSE
        /\ UNCHANGED <<packets, out>>
    BY <1>8 DEF Router!NextRoom, Router!ResetQueue
  <2>2. Room'  BY <1>0, <2>1 DEF Room, Router!RouterAssumption
  <2>3. Log(packets, room')
    <3>1. Packets(room) \subseteq Packets(room')  BY <1>0, <2>1 DEF Packets
    <3> QED  BY <1>0, <3>1 DEF Log
  <2>4. Gone(out, packets, room', relayed')
    <3>1. Hops(packets, room) \subseteq Hops(packets, room')  BY <1>0, <2>1 DEF Hops
    <3> QED  BY <1>0, <2>1, <3>1 DEF Gone, GoodHop
  <2>5. Queue(<<>>, packets, room')  BY DEF Queue, Router!RouterAssumption
  <2> QED  BY <2>1, <2>2, <2>3, <2>4, <2>5 DEF RouterInv, Topology, Timer
<1>9. CASE Router!Expire
  <2> DEFINE E == Entries(packets, room)
  <2>1. /\ pending' = [i \in DOMAIN pending |-> [pending[i] EXCEPT !.late = TRUE]]
        /\ UNCHANGED <<room, relayed, view, links, packets, flushing, out>>
    BY <1>9 DEF Router!Expire
  <2>2. ASSUME NEW i \in DOMAIN pending
        PROVE  Waits([pending[i] EXCEPT !.late = TRUE], packets, room)
    <3>1. Waits(pending[i], packets, room)  BY <1>0 DEF Queue
    <3> QED  BY <3>1 DEF Waits, Entries
  <2>3. pending \in Seq(E) /\ Len(pending) <= MaxPending  BY <1>0 DEF Queue
  <2>4. \A i \in DOMAIN pending : [pending[i] EXCEPT !.late = TRUE] \in E
    BY <2>2 DEF Waits
  <2> HIDE DEF E
  <2>5. pending' \in Seq(E) /\ Len(pending') = Len(pending) /\ DOMAIN pending' = DOMAIN pending
    BY <2>1, <2>3, <2>4
  <2>6. Queue(pending', packets, room)
    BY <2>1, <2>2, <2>3, <2>5 DEF Queue, E
  <2>7. pending' # <<>> => pending # <<>>  BY <2>3, <2>5
  <2>8. Left(packets)  BY <1>0, <2>1, <2>6, <2>7 DEF Left, Timer
  <2> QED  BY <1>0, <1>1, <2>1, <2>8 DEF Topology
<1> QED
  BY <1>2, <1>3, <1>4, <1>5, <1>6, <1>7, <1>8, <1>9 DEF Router!Next

LEMMA RouterCorrect == Router!Spec => []Router!PacketsKeepTheirRoom
<1>1. Router!Init => RouterInv  BY RouterAssumption, RouterInit
<1>2. RouterInv /\ [Router!Next]_Router!vars => RouterInv'  BY RouterAssumption, RouterStep
<1> QED  BY <1>1, <1>2, RouterSafe, PTL DEF Router!Spec

(***************************************************************************)
(* The clock.  What a peer knows is not stamped later than its clock, so   *)
(* that whatever it sends next is stamped after all of it.                 *)
(***************************************************************************)

NotLater(x, y) == x.w < y.w \/ (x.w = y.w /\ x.c <= y.c)

\* Ids are given out once, and only what was sent is known or named.
Issued ==
    /\ IsFiniteSet(stamped)
    /\ \A m, n \in stamped : m.id = n.id => m = n
    /\ \A m \in stamped : /\ m.id <= Cardinality(stamped)
                          /\ \A i \in m.after : i <= Cardinality(stamped)
    /\ \A p \in Hosts : \A i \in known[p] : i <= Cardinality(stamped)

KnownIsPast == \A p \in Hosts, m \in stamped : m.id \in known[p] => NotLater(m.stamp, clock[p])
AfterIsPast == \A m, n \in stamped : m.id \in n.after => NotLater(m.stamp, n.stamp)
TopIsTop == \A p \in Hosts : now[p] <= top[p]

ClockInv ==
    /\ Clock!TypeOK /\ Clock!Causal /\ Clock!NotPoisoned
    /\ Issued /\ KnownIsPast /\ AfterIsPast /\ TopIsTop

LEMMA SameClockSize == \A S : Clock!Cardinality(S) = Cardinality(S)
BY DEF Clock!Cardinality, Cardinality

\* A tick goes forward, until the counter is exhausted.
LEMMA TickForward ==
    ASSUME NEW k \in Clock!Stamps, NEW t \in 0..MaxTime
    PROVE  LET s == Clock!Tick(k, t)
           IN  /\ s \in Clock!Stamps /\ s.w \in {k.w, t}
               /\ NotLater(k, s)
               /\ Clock!Earlier(k, s) \/ s.c = MaxCounter
BY ClockAssumption
DEF Clock!ClockAssumption, Clock!Stamps, Clock!Tick, Clock!Counted, Clock!Stamp, NotLater, Clock!Earlier

\* A merge leads neither behind the peer's clock nor behind the stamp it was told.
LEMMA MergeForward ==
    ASSUME NEW k \in Clock!Stamps, NEW t \in 0..MaxTime, NEW r \in Clock!Stamps
    PROVE  LET s == Clock!Merge(k, t, r)
           IN  /\ s \in Clock!Stamps
               /\ NotLater(k, s)
               /\ ~Clock!Refused(r.w, t) => NotLater(r, s)
               /\ s.w = k.w \/ s.w <= t + MaxDrift
<1> DEFINE rw == IF Clock!Refused(r.w, t) THEN 0 ELSE r.w
           w == Clock!Larger(k.w, Clock!Larger(rw, t))
<1>1. /\ k.w \in 0..MaxTime /\ k.c \in 0..MaxCounter /\ r.w \in 0..MaxTime /\ r.c \in 0..MaxCounter
      /\ MaxTime \in Nat /\ MaxDrift \in Nat /\ MaxCounter \in Nat
  BY ClockAssumption DEF Clock!Stamps, Clock!ClockAssumption
<1>2. /\ rw \in 0..MaxTime /\ rw <= t + MaxDrift
      /\ ~Clock!Refused(r.w, t) => rw = r.w
  BY <1>1 DEF Clock!Refused
<1> HIDE DEF rw
<1>3. w \in 0..MaxTime /\ w >= k.w /\ w >= rw /\ w >= t /\ w \in {k.w, rw, t}
  BY <1>1, <1>2 DEF Clock!Larger
<1> HIDE DEF w
<1>4. \A c \in 0..MaxCounter : Clock!Counted(c) \in 0..MaxCounter /\ Clock!Counted(c) >= c
  BY <1>1 DEF Clock!Counted
<1>5. Clock!Larger(k.c, r.c) \in 0..MaxCounter /\ Clock!Larger(k.c, r.c) >= k.c
      /\ Clock!Larger(k.c, r.c) >= r.c
  BY <1>1 DEF Clock!Larger
<1>6. PICK c \in 0..MaxCounter :
        /\ Clock!Merge(k, t, r) = Clock!Stamp(w, c)
        /\ w = k.w => c >= k.c
        /\ w = rw => c >= r.c
  <2>1. CASE w = k.w /\ w = rw
    BY <1>1, <1>4, <1>5, <2>1 DEF Clock!Merge, rw, w
  <2>2. CASE w = k.w /\ w # rw
    BY <1>1, <1>4, <2>2 DEF Clock!Merge, rw, w
  <2>3. CASE w # k.w /\ w = rw
    BY <1>1, <1>4, <2>3 DEF Clock!Merge, rw, w
  <2>4. CASE w # k.w /\ w # rw
    BY <1>1, <2>4 DEF Clock!Merge, rw, w
  <2> QED  BY <2>1, <2>2, <2>3, <2>4
<1> QED
  BY <1>1, <1>2, <1>3, <1>6 DEF Clock!Stamp, Clock!Stamps, NotLater

LEMMA ClockInit == Clock!Init => ClockInv
<1> SUFFICES ASSUME Clock!Init PROVE ClockInv
  OBVIOUS
<1>1. Cardinality(stamped) = 0 /\ IsFiniteSet(stamped)
  BY FS_EmptySet DEF Clock!Init
<1>2. Clock!TypeOK /\ Clock!NotPoisoned /\ TopIsTop
  BY ClockAssumption
  DEF Clock!Init, Clock!TypeOK, Clock!Stamps, Clock!Stamp, Clock!ClockAssumption, Clock!NotPoisoned,
      TopIsTop
<1>3. Clock!Causal /\ Issued /\ KnownIsPast /\ AfterIsPast
  BY <1>1 DEF Clock!Init, Clock!Causal, Issued, KnownIsPast, AfterIsPast
<1> QED  BY <1>2, <1>3 DEF ClockInv

LEMMA ClockStep ==
    ASSUME ClockInv, [Clock!Next]_Clock!vars
    PROVE  ClockInv' /\ Clock!Forward
<1>0. /\ Clock!TypeOK /\ Clock!Causal /\ Clock!NotPoisoned
      /\ Issued /\ KnownIsPast /\ AfterIsPast /\ TopIsTop
      /\ MaxTime \in Nat /\ MaxDrift \in Nat /\ MaxCounter \in Nat /\ MaxPackets \in Nat
      /\ MaxStamps \in Nat
  BY ClockAssumption, RouterAssumption DEF ClockInv, Clock!ClockAssumption, Router!RouterAssumption
<1>1. ASSUME UNCHANGED clock PROVE Clock!Forward
  BY <1>0, <1>1 DEF Clock!Forward, Clock!Earlier, Clock!TypeOK, Clock!Stamps
<1>2. CASE UNCHANGED Clock!vars
  BY <1>0, <1>1, <1>2
  DEF Clock!vars, ClockInv, Clock!TypeOK, Clock!Causal, Clock!NotPoisoned, Issued, KnownIsPast,
      AfterIsPast, TopIsTop
<1>3. ASSUME NEW p \in Hosts, NEW t \in 0..MaxTime, Clock!SetClock(p, t)
      PROVE  ClockInv' /\ Clock!Forward
  <2>1. /\ now' = [now EXCEPT ![p] = t] /\ top' = [top EXCEPT ![p] = Clock!Larger(@, t)]
        /\ UNCHANGED <<clock, stamped, known, blind>>
    BY <1>3 DEF Clock!SetClock
  <2>2. /\ now' \in [Hosts -> 0..MaxTime] /\ top' \in [Hosts -> 0..MaxTime]
        /\ \A q \in Hosts : now'[q] <= top'[q] /\ top[q] <= top'[q]
    BY <1>0, <2>1 DEF Clock!TypeOK, TopIsTop, Clock!Larger
  <2>3. Clock!NotPoisoned'
    <3> SUFFICES ASSUME NEW q \in Hosts PROVE clock'[q].w <= top'[q] + MaxDrift
      BY DEF Clock!NotPoisoned
    <3>1. clock[q].w \in Nat /\ top[q] \in Nat /\ top'[q] \in Nat
      BY <1>0, <2>2 DEF Clock!TypeOK, Clock!Stamps
    <3> QED  BY <1>0, <2>1, <2>2, <3>1 DEF Clock!NotPoisoned
  <2>4. Clock!TypeOK' /\ Clock!Causal' /\ Issued' /\ KnownIsPast' /\ AfterIsPast' /\ TopIsTop'
    BY <1>0, <2>1, <2>2 DEF Clock!TypeOK, Clock!Causal, Issued, KnownIsPast, AfterIsPast, TopIsTop
  <2> QED  BY <1>1, <2>1, <2>3, <2>4 DEF ClockInv
<1>4. ASSUME NEW p \in Hosts, NEW large \in BOOLEAN, Clock!Send(p, large)
      PROVE  ClockInv' /\ Clock!Forward
  <2> DEFINE s == Clock!Tick(clock[p], now[p])
             id == Cardinality(stamped) + 1
             m == [id |-> id, from |-> p, stamp |-> s, large |-> large, after |-> known[p]]
  <2>1. /\ id <= MaxStamps
        /\ clock' = [clock EXCEPT ![p] = s]
        /\ stamped' = stamped \cup {m}
        /\ known' = [known EXCEPT ![p] = @ \cup {id}]
        /\ UNCHANGED <<now, blind, top>>
    BY <1>4, SameClockSize DEF Clock!Send, Clock!Id
  <2>2. clock[p] \in Clock!Stamps /\ now[p] \in 0..MaxTime  BY <1>0 DEF Clock!TypeOK
  <2>3. /\ s \in Clock!Stamps /\ s.w \in {clock[p].w, now[p]} /\ NotLater(clock[p], s)
        /\ Clock!Earlier(clock[p], s) \/ s.c = MaxCounter
    BY <2>2, TickForward
  <2> HIDE DEF s
  <2>4. Cardinality(stamped) \in Nat /\ id \in 1..MaxStamps
    BY <1>0, <2>1, FS_CardinalityType DEF Issued
  <2>5. m.id = id /\ m.stamp = s /\ m.after = known[p]  OBVIOUS
  <2>6. m \notin stamped  BY <1>0, <2>4 DEF Issued
  <2>7. IsFiniteSet(stamped') /\ Cardinality(stamped') = id
    BY <1>0, <2>1, <2>6, FS_AddElement DEF Issued
  <2>8. \A n \in stamped : n.id # id /\ id \notin n.after /\ n.id <= id
    <3> TAKE n \in stamped
    <3>1. n.id \in Nat /\ n.id <= Cardinality(stamped)  BY <1>0 DEF Issued, Clock!TypeOK
    <3>2. \A i \in n.after : i \in Nat /\ i <= Cardinality(stamped)
      BY <1>0 DEF Issued, Clock!TypeOK
    <3> QED  BY <2>4, <3>1, <3>2
  <2>9. ASSUME NEW n \in stamped, n.id \in known[p]
        PROVE  NotLater(n.stamp, s) /\ (Clock!Earlier(n.stamp, s) \/ s.c = MaxCounter)
    <3>1. NotLater(n.stamp, clock[p])  BY <1>0, <2>9 DEF KnownIsPast
    <3>2. n.stamp \in Clock!Stamps  BY <1>0 DEF Clock!TypeOK
    <3> QED  BY <1>0, <2>2, <2>3, <3>1, <3>2 DEF NotLater, Clock!Earlier, Clock!Stamps
  <2>10. id \notin known[p]  BY <1>0, <2>4 DEF Issued
  <2> HIDE DEF id
  <2>11. Clock!TypeOK'
    <3>1. m \in [id : 1..MaxStamps, from : Hosts, stamp : Clock!Stamps, large : BOOLEAN,
                 after : SUBSET (1..MaxStamps)]
      BY <1>0, <2>3, <2>4 DEF Clock!TypeOK
    <3> HIDE DEF m
    <3>2. /\ clock' \in [Hosts -> Clock!Stamps]
          /\ known' \in [Hosts -> SUBSET (1..MaxStamps)]
      BY <1>0, <2>1, <2>3, <2>4 DEF Clock!TypeOK
    <3> QED  BY <1>0, <2>1, <3>1, <3>2 DEF Clock!TypeOK
  <2> HIDE DEF m
  <2>12. Issued'
    <3>1. \A x, y \in stamped' : x.id = y.id => x = y
      BY <1>0, <2>1, <2>5, <2>8 DEF Issued
    <3>2. \A i \in known[p] : i <= id
      <4> TAKE i \in known[p]
      <4>1. i \in Nat /\ i <= Cardinality(stamped)  BY <1>0 DEF Issued, Clock!TypeOK
      <4> QED  BY <2>4, <4>1 DEF id
    <3>3. \A x \in stamped' : x.id <= id /\ \A i \in x.after : i <= id
      <4> TAKE x \in stamped'
      <4>1. CASE x = m  BY <2>4, <2>5, <3>2, <4>1
      <4>2. CASE x \in stamped
        <5>1. x.id <= id  BY <2>8, <4>2
        <5>2. ASSUME NEW i \in x.after PROVE i <= id
          <6>1. i \in Nat /\ i <= Cardinality(stamped)  BY <1>0, <4>2 DEF Issued, Clock!TypeOK
          <6> QED  BY <2>4, <6>1 DEF id
        <5> QED  BY <5>1, <5>2
      <4> QED  BY <2>1, <4>1, <4>2
    <3>4. ASSUME NEW q \in Hosts, NEW i \in known'[q] PROVE i <= id
      <4>1. CASE i = id  BY <2>4, <4>1
      <4>2. CASE i # id
        <5>1. i \in known[q]  BY <1>0, <2>1, <4>2 DEF Clock!TypeOK
        <5>2. i \in Nat /\ i <= Cardinality(stamped)  BY <1>0, <5>1 DEF Issued, Clock!TypeOK
        <5> QED  BY <2>4, <5>2 DEF id
      <4> QED  BY <4>1, <4>2
    <3> QED  BY <2>7, <3>1, <3>3, <3>4 DEF Issued
  <2>13. KnownIsPast'
    <3> SUFFICES ASSUME NEW q \in Hosts, NEW x \in stamped', x.id \in known'[q]
                 PROVE  NotLater(x.stamp, clock'[q])
      BY DEF KnownIsPast
    <3>1. CASE q # p
      <4>1. x.id \in known[q] /\ clock'[q] = clock[q]  BY <1>0, <2>1, <3>1 DEF Clock!TypeOK
      <4>2. x # m
        <5>1. id \notin known[q]  BY <1>0, <2>4 DEF Issued, id
        <5> QED  BY <2>5, <4>1, <5>1
      <4> QED  BY <1>0, <2>1, <4>1, <4>2 DEF KnownIsPast
    <3>2. CASE q = p /\ x = m
      BY <1>0, <2>1, <2>3, <2>5, <3>2 DEF NotLater, Clock!TypeOK, Clock!Stamps
    <3>3. CASE q = p /\ x # m
      <4>1. x \in stamped /\ x.id \in known[p] /\ clock'[p] = s
        BY <1>0, <2>1, <2>8, <3>3 DEF Clock!TypeOK
      <4> QED  BY <2>9, <3>3, <4>1
    <3> QED  BY <3>1, <3>2, <3>3
  <2>14. AfterIsPast' /\ Clock!Causal'
    <3>1. ASSUME NEW x \in stamped', NEW y \in stamped', x.id \in y.after
          PROVE  /\ NotLater(x.stamp, y.stamp)
                 /\ Clock!Earlier(x.stamp, y.stamp) \/ y.stamp.c = MaxCounter
      <4>1. CASE x = m /\ y = m  BY <2>5, <2>10, <3>1, <4>1
      <4>2. CASE x = m /\ y \in stamped  BY <2>5, <2>8, <3>1, <4>2
      <4>3. CASE x \in stamped /\ y = m  BY <2>5, <2>9, <3>1, <4>3
      <4>4. CASE x \in stamped /\ y \in stamped
        BY <1>0, <3>1, <4>4 DEF AfterIsPast, Clock!Causal
      <4> QED  BY <2>1, <4>1, <4>2, <4>3, <4>4
    <3> QED  BY <3>1 DEF AfterIsPast, Clock!Causal
  <2>15. Clock!NotPoisoned' /\ TopIsTop'
    <3>1. \A q \in Hosts : clock[q].w \in Nat /\ top[q] \in Nat /\ now[q] \in Nat
      BY <1>0 DEF Clock!TypeOK, Clock!Stamps
    <3>2. s.w <= top[p] + MaxDrift
      BY <1>0, <2>3, <3>1 DEF Clock!NotPoisoned, TopIsTop
    <3> QED  BY <1>0, <2>1, <3>2 DEF Clock!NotPoisoned, TopIsTop, Clock!TypeOK
  <2>16. Clock!Forward
    <3> SUFFICES ASSUME NEW q \in Hosts PROVE ~Clock!Earlier(clock'[q], clock[q])
      BY DEF Clock!Forward
    <3>1. clock[q] \in Clock!Stamps  BY <1>0 DEF Clock!TypeOK
    <3>2. CASE q = p
      BY <1>0, <2>1, <2>3, <3>1, <3>2 DEF Clock!TypeOK, Clock!Earlier, NotLater, Clock!Stamps
    <3>3. CASE q # p
      BY <1>0, <2>1, <3>1, <3>3 DEF Clock!TypeOK, Clock!Earlier, Clock!Stamps
    <3> QED  BY <3>2, <3>3
  <2> QED  BY <2>11, <2>12, <2>13, <2>14, <2>15, <2>16 DEF ClockInv
<1>5. ASSUME NEW p \in Hosts, NEW m \in stamped, Clock!Receive(p, m)
      PROVE  ClockInv' /\ Clock!Forward
  <2> DEFINE told == ~m.large /\ ~Clock!Refused(m.stamp.w, now[p])
             s == IF m.large THEN Clock!Tick(clock[p], now[p])
                  ELSE Clock!Merge(clock[p], now[p], m.stamp)
             more == IF told THEN {m.id} \cup m.after ELSE {}
  <2>1. /\ clock' = [clock EXCEPT ![p] = s]
        /\ known' = [known EXCEPT ![p] = @ \cup more]
        /\ UNCHANGED <<now, stamped, top>>
    BY <1>5 DEF Clock!Receive
  <2>1a. blind' = [blind EXCEPT ![p] = IF told THEN @ ELSE @ \cup {m.id}]
    BY <1>5 DEF Clock!Receive
  <2>2. /\ clock[p] \in Clock!Stamps /\ now[p] \in 0..MaxTime /\ m.stamp \in Clock!Stamps
        /\ m.id \in 1..MaxStamps /\ m.after \subseteq 1..MaxStamps
    BY <1>0 DEF Clock!TypeOK
  <2>3. /\ s \in Clock!Stamps /\ NotLater(clock[p], s)
        /\ s.w \in {clock[p].w, now[p]} \/ s.w <= now[p] + MaxDrift
        /\ told => NotLater(m.stamp, s)
    <3>1. CASE m.large  BY <2>2, <3>1, TickForward
    <3>2. CASE ~m.large  BY <2>2, <3>2, MergeForward
    <3> QED  BY <3>1, <3>2
  <2> HIDE DEF s
  <2>4. Clock!TypeOK'
    <3>1. clock' \in [Hosts -> Clock!Stamps]  BY <1>0, <2>1, <2>3 DEF Clock!TypeOK
    <3>2. /\ known' \in [Hosts -> SUBSET (1..MaxStamps)] /\ blind' \in [Hosts -> SUBSET (1..MaxStamps)]
      BY <1>0, <2>1, <2>1a, <2>2 DEF Clock!TypeOK
    <3> QED  BY <1>0, <2>1, <3>1, <3>2 DEF Clock!TypeOK
  <2>5. Issued'
    <3>1. \A i \in more : i <= Cardinality(stamped)  BY <1>0 DEF Issued
    <3>2. \A q \in Hosts : known'[q] \subseteq known[q] \cup more
      BY <1>0, <2>1 DEF Clock!TypeOK
    <3> QED  BY <1>0, <2>1, <3>1, <3>2 DEF Issued
  <2>6. KnownIsPast'
    <3> SUFFICES ASSUME NEW q \in Hosts, NEW x \in stamped', x.id \in known'[q]
                 PROVE  NotLater(x.stamp, clock'[q])
      BY DEF KnownIsPast
    <3>0. x \in stamped /\ x.stamp \in Clock!Stamps  BY <1>0, <2>1 DEF Clock!TypeOK
    <3>1. CASE q # p
      BY <1>0, <2>1, <3>0, <3>1 DEF Clock!TypeOK, KnownIsPast
    <3>2. CASE q = p /\ x.id \in known[p]
      <4>1. NotLater(x.stamp, clock[p]) /\ clock'[p] = s
        BY <1>0, <2>1, <3>0, <3>2 DEF KnownIsPast, Clock!TypeOK
      <4> QED  BY <1>0, <2>2, <2>3, <3>0, <3>2, <4>1 DEF NotLater, Clock!Stamps
    <3>3. CASE q = p /\ x.id \notin known[p]
      <4>1. x.id \in more /\ clock'[p] = s  BY <1>0, <2>1, <3>3 DEF Clock!TypeOK
      <4>2. told /\ (x = m \/ x.id \in m.after)  BY <1>0, <3>0, <4>1 DEF Issued
      <4>3. NotLater(x.stamp, m.stamp)
        BY <1>0, <2>2, <3>0, <4>2 DEF AfterIsPast, NotLater, Clock!Stamps
      <4> QED  BY <1>0, <2>2, <2>3, <3>0, <3>3, <4>1, <4>2, <4>3 DEF NotLater, Clock!Stamps
    <3> QED  BY <3>1, <3>2, <3>3
  <2>7. AfterIsPast' /\ Clock!Causal'  BY <1>0, <2>1 DEF AfterIsPast, Clock!Causal
  <2>8. Clock!NotPoisoned' /\ TopIsTop'
    <3>1. \A q \in Hosts : clock[q].w \in Nat /\ top[q] \in Nat /\ now[q] \in Nat
      BY <1>0 DEF Clock!TypeOK, Clock!Stamps
    <3>2. s.w \in Nat  BY <1>0, <2>3 DEF Clock!Stamps
    <3>3. s.w <= top[p] + MaxDrift
      BY <1>0, <2>3, <3>1, <3>2 DEF Clock!NotPoisoned, TopIsTop
    <3> QED  BY <1>0, <2>1, <3>3 DEF Clock!NotPoisoned, TopIsTop, Clock!TypeOK
  <2>9. Clock!Forward
    <3> SUFFICES ASSUME NEW q \in Hosts PROVE ~Clock!Earlier(clock'[q], clock[q])
      BY DEF Clock!Forward
    <3>1. clock[q] \in Clock!Stamps  BY <1>0 DEF Clock!TypeOK
    <3>2. CASE q = p
      BY <1>0, <2>1, <2>3, <3>1, <3>2 DEF Clock!TypeOK, Clock!Earlier, NotLater, Clock!Stamps
    <3>3. CASE q # p
      BY <1>0, <2>1, <3>1, <3>3 DEF Clock!TypeOK, Clock!Earlier, Clock!Stamps
    <3> QED  BY <3>2, <3>3
  <2> QED  BY <2>4, <2>5, <2>6, <2>7, <2>8, <2>9 DEF ClockInv
<1> QED
  BY <1>2, <1>3, <1>4, <1>5 DEF Clock!Next

LEMMA ClockCorrect ==
    Clock!Spec => [](Clock!TypeOK /\ Clock!Causal /\ Clock!NotPoisoned) /\ [][Clock!Forward]_Clock!vars
<1>1. ClockInv /\ [Clock!Next]_Clock!vars => ClockInv' /\ [Clock!Forward]_Clock!vars
  BY ClockStep
<1>2. ClockInv => Clock!TypeOK /\ Clock!Causal /\ Clock!NotPoisoned  BY DEF ClockInv
<1> QED  BY <1>1, <1>2, ClockInit, PTL DEF Clock!Spec

(***************************************************************************)
(* The tier.  A timer runs exactly while the room heads for another tier,  *)
(* and every count since it was set calls for that tier.                   *)
(***************************************************************************)

Heads ==
    /\ timers = IF heading = tier THEN {} ELSE {heading}
    /\ heading # tier =>
          /\ count \in since /\ Tier!Allowed(heading)
          /\ \A n \in since : Tier!Calls(tier, heading, n)

TierTypes ==
    /\ direct \in BOOLEAN /\ count \in Counts \cup {1} /\ tier \in 1..3 /\ heading \in 1..3
    /\ since \subseteq Counts /\ judged \in BOOLEAN /\ updates \in 0..MaxUpdates

TierInv == TierTypes /\ Heads /\ Tier!DirectStays /\ Tier!SuitsOrChanges

LEMMA TierSafe == TierInv => Tier!TypeOK /\ Tier!DirectStays /\ Tier!SuitsOrChanges
<1> SUFFICES ASSUME TierInv PROVE Tier!TypeOK
  BY DEF TierInv
<1>1. timers = {} \/ timers = {heading}  BY DEF TierInv, Heads
<1>2. Cardinality(timers) <= 1
  <2>1. CASE timers = {}  BY <2>1, FS_EmptySet
  <2>2. CASE timers = {heading}
    <3>1. Cardinality({heading}) = 1  BY FS_Singleton
    <3> QED  BY <2>2, <3>1
  <2> QED  BY <1>1, <2>1, <2>2
<1>3. Tier!Cardinality(timers) = Cardinality(timers)  BY DEF Tier!Cardinality, Cardinality
<1> QED  BY <1>1, <1>2, <1>3 DEF TierInv, TierTypes, Tier!TypeOK

LEMMA TierInit == Tier!Init => TierInv
BY TierAssumption
DEF Tier!TierAssumption, Tier!Init, Tier!Start, TierInv, TierTypes, Heads, Tier!DirectStays,
    Tier!SuitsOrChanges, Tier!Calls

LEMMA TierStep ==
    ASSUME TierInv, [Tier!Next]_Tier!vars
    PROVE  TierInv' /\ Tier!Sustained
<1>0. /\ TierTypes /\ Heads /\ Tier!DirectStays /\ Tier!SuitsOrChanges
      /\ Counts \subseteq Nat /\ MaxUpdates \in Nat
  BY TierAssumption DEF TierInv, Tier!TierAssumption
<1>1. CASE UNCHANGED Tier!vars
  BY <1>0, <1>1
  DEF Tier!vars, TierInv, TierTypes, Heads, Tier!DirectStays, Tier!SuitsOrChanges, Tier!Sustained,
      Tier!Allowed
<1>2. CASE Tier!NextRoom
  BY <1>0, <1>2
  DEF Tier!NextRoom, TierInv, TierTypes, Heads, Tier!DirectStays, Tier!SuitsOrChanges, Tier!Calls,
      Tier!Sustained
<1>3. ASSUME NEW n \in Counts, Tier!Update(n) PROVE TierInv' /\ Tier!Sustained
  <2>1. /\ updates < MaxUpdates /\ updates' = updates + 1 /\ count' = n /\ judged' = TRUE
        /\ UNCHANGED <<direct, tier>> /\ n \in Nat
    BY <1>0, <1>3 DEF Tier!Update
  <2>2. CASE /\ \A u \in 1..3 : ~(Tier!Allowed(u) /\ Tier!Calls(tier, u, n))
             /\ Tier!Cancel(n)
    BY <1>0, <2>1, <2>2
    DEF Tier!Cancel, Tier!Stop, TierInv, TierTypes, Heads, Tier!DirectStays, Tier!SuitsOrChanges,
        Tier!Sustained, Tier!Allowed
  <2>3. ASSUME NEW u \in 1..3, Tier!Allowed(u), Tier!Calls(tier, u, n), Tier!Schedule(u, n)
        PROVE  TierInv' /\ Tier!Sustained
    <3>1. /\ u # tier /\ heading' = u /\ timers' = {u} /\ n \in since' /\ since' \subseteq Counts
          /\ \A k \in since' : Tier!Calls(tier, u, k)
      <4>1. u # tier  BY <2>3 DEF Tier!Calls
      <4>2. CASE heading = u
        <5>1. since' = since \cup {n} /\ UNCHANGED <<heading, timers>>
          BY <2>3, <4>2 DEF Tier!Schedule, Tier!InProgress
        <5>2. timers = {u} /\ \A k \in since : Tier!Calls(tier, u, k)
          BY <1>0, <4>1, <4>2 DEF Heads
        <5> QED  BY <1>0, <2>3, <4>1, <4>2, <5>1, <5>2 DEF TierTypes
      <4>3. CASE heading # u
        BY <2>3, <4>1, <4>3 DEF Tier!Schedule, Tier!InProgress
      <4> QED  BY <4>2, <4>3
    <3>2. \A v \in 1..3 : Tier!Calls(tier, v, n) => v = u
      BY <1>0, <2>1, <2>3 DEF Tier!Calls, TierTypes
    <3>3. ~direct
      BY <1>0, <2>3, <3>1 DEF Tier!Allowed, Tier!DirectStays
    <3> QED
      BY <1>0, <2>1, <2>3, <3>1, <3>2, <3>3
      DEF TierInv, TierTypes, Heads, Tier!DirectStays, Tier!SuitsOrChanges, Tier!Sustained, Tier!Allowed
  <2> QED  BY <1>3, <2>2, <2>3 DEF Tier!Update
<1>4. ASSUME NEW u \in 1..3, Tier!Fire(u) PROVE TierInv' /\ Tier!Sustained
  <2>1. /\ u = heading /\ u # tier /\ timers = {u} /\ UNCHANGED <<direct, count, since, updates>>
        /\ Tier!Calls(tier, u, count) /\ Tier!Allowed(u)
    BY <1>0, <1>4 DEF Tier!Fire, Heads
  <2>2. tier' = u /\ heading' = u /\ timers' = {} /\ judged' = FALSE
    BY <1>4, <2>1 DEF Tier!Fire
  <2>3. ~direct  BY <1>0, <2>1 DEF Tier!DirectStays
  <2> QED
    BY <1>0, <2>1, <2>2, <2>3
    DEF TierInv, TierTypes, Heads, Tier!DirectStays, Tier!SuitsOrChanges, Tier!Sustained
<1> QED  BY <1>1, <1>2, <1>3, <1>4 DEF Tier!Next

LEMMA TierCorrect ==
    Tier!Spec => /\ [](Tier!TypeOK /\ Tier!DirectStays /\ Tier!SuitsOrChanges)
                 /\ [][Tier!Sustained]_Tier!vars
<1>1. TierInv /\ [Tier!Next]_Tier!vars => TierInv' /\ [Tier!Sustained]_Tier!vars  BY TierStep
<1> QED  BY <1>1, TierInit, TierSafe, PTL DEF Tier!Spec

(***************************************************************************)
(* The probes.  On a channel something was heard on, no more of them are   *)
(* open than sweeps have passed since the oldest was sent.                 *)
(***************************************************************************)

LinkFlags == tracked \in BOOLEAN /\ fresh \in BOOLEAN
LinkNumbers ==
    /\ link \in {"closed", "open", "half"}
    /\ age \in 0..4 /\ probes \in 0..MaxProbes /\ waiting \in 0..(MaxDelay + 1)
    /\ events \in 0..MaxOpenings
    /\ link # "open" => waiting = 0
Covered == link = "open" /\ ~fresh => probes <= waiting

LinkInv == LinkFlags /\ LinkNumbers /\ Covered

LEMMA LinkInit == Link!Init => LinkInv
<1> SUFFICES ASSUME Link!Init PROVE LinkInv
  OBVIOUS
<1>1. LinkFlags  BY DEF Link!Init, LinkFlags
<1>2. LinkNumbers  BY LinkAssumption DEF Link!LinkAssumption, Link!Init, LinkNumbers
<1>3. Covered  BY DEF Link!Init, Covered
<1> QED  BY <1>1, <1>2, <1>3 DEF LinkInv

LEMMA LinkStep ==
    ASSUME LinkInv, [Link!Next]_Link!vars
    PROVE  LinkInv' /\ Link!Keeps
<1>0. /\ MaxProbes \in Nat /\ MaxDelay \in Nat /\ MaxOpenings \in Nat /\ MaxDelay < MaxProbes
      /\ LinkFlags /\ LinkNumbers /\ Covered
  BY LinkAssumption DEF Link!LinkAssumption, LinkInv
<1>1. Link!Older \in 0..4  BY <1>0 DEF Link!Older, LinkNumbers
<1>2. CASE UNCHANGED Link!vars
  BY <1>2 DEF Link!vars, LinkInv, LinkFlags, LinkNumbers, Covered, Link!Keeps
<1>3. CASE Link!Inbound
  <2>1. LinkFlags'  BY <1>0, <1>3 DEF Link!Inbound, Link!NoteInbound, LinkFlags
  <2>2. LinkNumbers' /\ probes' <= waiting'
    BY <1>0, <1>3 DEF Link!Inbound, Link!NoteInbound, LinkNumbers
  <2>3. Link!Keeps  BY <1>3 DEF Link!Inbound, Link!NoteInbound, Link!Keeps
  <2> QED  BY <2>1, <2>2, <2>3 DEF LinkInv, Covered
<1>4. CASE Link!Sweep
  <2>0. UNCHANGED <<fresh, events>> /\ (link = "open" => waiting <= MaxDelay)
    BY <1>4 DEF Link!Sweep
  <2>1. CASE ~Link!Connected /\ Link!Forget /\ UNCHANGED <<link, waiting>>
    <3>1. LinkFlags'  BY <1>0, <2>0, <2>1 DEF Link!Forget, LinkFlags
    <3>2. LinkNumbers' /\ link' # "open" /\ link # "open"
      BY <1>0, <2>0, <2>1 DEF Link!Connected, Link!Forget, LinkNumbers
    <3> QED  BY <3>1, <3>2 DEF LinkInv, Covered, Link!Keeps
  <2>2. CASE Link!Connected /\ ~tracked /\ Link!NoteInbound /\ UNCHANGED <<link, waiting>>
    <3>1. LinkFlags'  BY <1>0, <2>0, <2>2 DEF Link!NoteInbound, LinkFlags
    <3>2. LinkNumbers' /\ probes' <= waiting'
      BY <1>0, <2>0, <2>2 DEF Link!NoteInbound, LinkNumbers
    <3> QED  BY <2>2, <3>1, <3>2 DEF LinkInv, Covered, Link!Keeps
  <2>3. CASE Link!Connected /\ tracked /\ Link!Healthy
    <3>1. LinkFlags' /\ UNCHANGED tracked  BY <1>0, <2>0, <2>3 DEF Link!Healthy, LinkFlags
    <3>2. LinkNumbers' /\ UNCHANGED <<link, probes, fresh>> /\ (link = "open" => waiting <= waiting')
      BY <1>0, <1>1, <2>0, <2>3 DEF Link!Healthy, Link!Waited, LinkNumbers
    <3>3. Covered'
      <4>1. probes \in Nat /\ waiting \in Nat /\ waiting' \in Nat  BY <1>0, <3>2 DEF LinkNumbers
      <4>2. link' = "open" /\ ~fresh' => probes <= waiting /\ waiting <= waiting'
        BY <1>0, <3>2 DEF Covered
      <4>3. link' = "open" /\ ~fresh' => probes' <= waiting'  BY <3>2, <4>1, <4>2
      <4> QED  BY <4>3 DEF Covered
    <3> QED  BY <2>3, <3>1, <3>2, <3>3 DEF LinkInv, Link!Keeps
  <2>4. CASE Link!Connected /\ tracked /\ probes >= MaxProbes /\ Link!Dead
    <3>1. LinkFlags'  BY <1>0, <2>0, <2>4 DEF Link!Dead, Link!Forget, LinkFlags
    <3>2. LinkNumbers' /\ link' = "closed"
      BY <1>0, <2>0, <2>4 DEF Link!Dead, Link!Forget, LinkNumbers
    <3>3. link = "open" => ~(probes <= waiting)
      BY <1>0, <2>0, <2>4 DEF LinkNumbers
    <3> QED  BY <1>0, <3>1, <3>2, <3>3 DEF LinkInv, Covered, Link!Keeps
  <2>5. CASE Link!Connected /\ tracked /\ ~(probes >= MaxProbes) /\ Link!Probe
    <3>1. LinkFlags' /\ UNCHANGED tracked  BY <1>0, <2>0, <2>5 DEF Link!Probe, LinkFlags
    <3>2. /\ LinkNumbers' /\ UNCHANGED <<link, fresh>> /\ probes' = probes + 1
          /\ link = "open" => waiting' = waiting + 1
      BY <1>0, <1>1, <2>0, <2>5 DEF Link!Probe, Link!Asked, LinkNumbers
    <3>3. Covered'
      <4>1. probes \in Nat /\ waiting \in Nat  BY <1>0 DEF LinkNumbers
      <4>2. link' = "open" /\ ~fresh' => probes <= waiting /\ waiting' = waiting + 1
        BY <1>0, <3>2 DEF Covered
      <4>3. link' = "open" /\ ~fresh' => probes' <= waiting'  BY <3>2, <4>1, <4>2
      <4> QED  BY <4>3 DEF Covered
    <3> QED  BY <2>5, <3>1, <3>2, <3>3 DEF LinkInv, Link!Keeps
  <2> QED  BY <1>4, <2>1, <2>2, <2>3, <2>4, <2>5 DEF Link!Sweep
<1>5. CASE Link!Opens
  <2>1. LinkFlags' /\ fresh' = TRUE  BY <1>0, <1>5 DEF Link!Opens, LinkFlags
  <2>2. LinkNumbers' /\ link # "open"  BY <1>0, <1>5 DEF Link!Opens, LinkNumbers
  <2> QED  BY <2>1, <2>2 DEF LinkInv, Covered, Link!Keeps
<1>6. CASE Link!Closes \/ Link!OtherEndGoes
  <2>1. LinkFlags' /\ UNCHANGED tracked  BY <1>0, <1>6 DEF Link!Closes, Link!OtherEndGoes, LinkFlags
  <2>2. LinkNumbers' /\ link' # "open"
    BY <1>0, <1>6 DEF Link!Closes, Link!OtherEndGoes, LinkNumbers
  <2> QED  BY <2>1, <2>2 DEF LinkInv, Covered, Link!Keeps
<1>7. CASE Link!Departs
  <2>1. LinkFlags'  BY <1>0, <1>7 DEF Link!Departs, Link!Forget, LinkFlags
  <2>2. LinkNumbers' /\ UNCHANGED link /\ probes' <= waiting'
    BY <1>0, <1>7 DEF Link!Departs, Link!Forget, LinkNumbers
  <2> QED  BY <2>1, <2>2 DEF LinkInv, Covered, Link!Keeps
<1> QED  BY <1>2, <1>3, <1>4, <1>5, <1>6, <1>7 DEF Link!Next

LEMMA LinkCorrect == Link!Spec => []Link!TypeOK /\ [][Link!Keeps]_Link!vars
<1>1. LinkInv /\ [Link!Next]_Link!vars => LinkInv' /\ [Link!Keeps]_Link!vars  BY LinkStep
<1>2. LinkInv => Link!TypeOK  BY DEF LinkInv, LinkFlags, LinkNumbers, Link!TypeOK
<1> QED  BY <1>1, <1>2, LinkInit, PTL DEF Link!Spec

-----------------------------------------------------------------------------
(* Fragments.  What is known of a fragment does not go away while its      *)
(* transfer may still come: it is held, or the transfer came out or was    *)
(* dropped; and a transfer comes out with its last fragment only, when     *)
(* every other one had been seen.                                          *)

Receipts == {"unsent", "out", "delivered", "timeout", "rejected"}

Told ==
    /\ receipt \in [Transfers -> [1..Parts -> Receipts]]
    /\ attempts \in [Chunks!Fragments -> 0..MaxAttempts]
    /\ net \subseteq Chunks!Fragments /\ seen \subseteq Chunks!Fragments
    /\ active \in [Transfers -> SUBSET (1..Parts)]
    /\ done \in Seq(Transfers) /\ Len(done) <= MaxDone
    /\ put \in [Transfers -> Nat]

\* A set of at most n.
AtMost(S, n) == IsFiniteSet(S) /\ Cardinality(S) <= n

Finished(t) == t \in dropped \cup arrived

\* What is held was seen, and what was seen is held until the transfer is done for.
HeldIsSeen ==
    /\ \A t \in Transfers : \A i \in active[t] : <<t, i>> \in seen
    /\ \A t \in Transfers, i \in 1..Parts : <<t, i>> \in seen => i \in active[t] \/ Finished(t)

CameOutWhole ==
    /\ \A t \in Transfers : put[t] = 0 \/ (put[t] = 1 /\ \A i \in 1..Parts : <<t, i>> \in seen)
    /\ \A k \in 1..Len(done) : done[k] \in arrived

AckedIsKnown ==
    \A t \in Transfers, i \in 1..Parts :
        receipt[t][i] = "delivered" => i \in active[t] \/ Finished(t)

ChunkInv ==
    /\ Told /\ AtMost(Chunks!Outstanding, MaxFragments) /\ AtMost(Chunks!Held, MaxActive)
    /\ HeldIsSeen /\ CameOutWhole /\ AckedIsKnown

LEMMA AtMostSubset ==
    ASSUME NEW S, NEW T, NEW n \in Nat, AtMost(S, n), T \subseteq S
    PROVE  AtMost(T, n)
<1>1. IsFiniteSet(T) /\ Cardinality(T) <= Cardinality(S)  BY FS_Subset DEF AtMost
<1>2. Cardinality(T) \in Nat /\ Cardinality(S) \in Nat  BY <1>1, FS_CardinalityType DEF AtMost
<1> QED  BY <1>1, <1>2 DEF AtMost

LEMMA AtMostAdd ==
    ASSUME NEW S, NEW T, NEW n \in Nat, NEW m \in Nat, AtMost(S, n), AtMost(T, m)
    PROVE  AtMost(S \cup T, n + m)
<1>1. /\ IsFiniteSet(S \cup T)
      /\ Cardinality(S \cup T) = Cardinality(S) + Cardinality(T) - Cardinality(S \cap T)
  BY FS_Union DEF AtMost
<1>2. IsFiniteSet(S \cap T)  BY FS_Subset DEF AtMost
<1>3. /\ Cardinality(S) \in Nat /\ Cardinality(T) \in Nat /\ Cardinality(S \cap T) \in Nat
  BY <1>2, FS_CardinalityType DEF AtMost
<1> QED  BY <1>1, <1>3 DEF AtMost

LEMMA AtMostOne == ASSUME NEW x PROVE AtMost({x}, 1)
<1>1. IsFiniteSet({}) /\ Cardinality({}) = 0  BY FS_EmptySet
<1>2. IsFiniteSet({x}) /\ Cardinality({x}) = 1
  <2>1. x \notin {} /\ {} \cup {x} = {x}  OBVIOUS
  <2> QED  BY <1>1, <2>1, FS_AddElement
<1> QED  BY <1>2 DEF AtMost

LEMMA ChunkInit == ASSUME Chunks!ChunksAssumption, Chunks!Init PROVE ChunkInv
<1>1. Told /\ HeldIsSeen /\ CameOutWhole /\ AckedIsKnown
  BY DEF Chunks!ChunksAssumption, Chunks!Init, Told, HeldIsSeen, CameOutWhole, AckedIsKnown,
         Receipts, Finished, Chunks!Fragments
<1>2. Chunks!Outstanding = {} /\ Chunks!Held = {}
  BY DEF Chunks!Init, Chunks!Outstanding, Chunks!Held, Chunks!Fragments
<1>3. \A n \in Nat : AtMost({}, n)  BY FS_EmptySet DEF AtMost
<1> QED  BY <1>1, <1>2, <1>3 DEF ChunkInv, Chunks!ChunksAssumption

\* The receiver's half is as it was.
LEMMA ReceiverKept ==
    ASSUME ChunkInv, UNCHANGED Chunks!receiver
    PROVE  /\ (HeldIsSeen /\ CameOutWhole)' /\ Chunks!Held' = Chunks!Held
           /\ \A t \in Transfers : Finished(t)' <=> Finished(t)
BY DEF ChunkInv, Chunks!receiver, HeldIsSeen, CameOutWhole, Chunks!Held, Finished

LEMMA SendStep ==
    ASSUME Chunks!ChunksAssumption, ChunkInv, NEW t \in Transfers, Chunks!Send(t)
    PROVE  ChunkInv'
<1>n. PICK n : n = Cardinality(Chunks!Outstanding)  OBVIOUS
<1>0. /\ MaxFragments \in Nat /\ MaxActive \in Nat /\ Parts \in Nat \ {0} /\ n \in Nat
      /\ MaxAttempts \in Nat \ {0} /\ n <= MaxFragments
  BY <1>n, FS_CardinalityType DEF ChunkInv, AtMost, Chunks!ChunksAssumption
<1>t. PICK Taken : Taken = {i \in 1..Parts : n + i <= MaxFragments}  OBVIOUS
<1>1. /\ receipt[t][1] = "unsent"
      /\ receipt' = [receipt EXCEPT ![t] = [i \in 1..Parts |-> IF i \in Taken THEN "out" ELSE "rejected"]]
      /\ attempts' = [f \in Chunks!Fragments |-> IF f[1] = t /\ f[2] \in Taken THEN 1 ELSE attempts[f]]
      /\ net' = net \cup ({t} \X Taken)
      /\ UNCHANGED Chunks!receiver
  BY <1>n, <1>t DEF Chunks!Send, Chunks!Cardinality, Cardinality
<1>2. Told'
  <2>1. receipt' \in [Transfers -> [1..Parts -> Receipts]]
    BY <1>1 DEF ChunkInv, Told, Receipts
  <2>2. attempts' \in [Chunks!Fragments -> 0..MaxAttempts]
    BY <1>0, <1>1 DEF ChunkInv, Told
  <2>3. net' \subseteq Chunks!Fragments  BY <1>1, <1>t DEF ChunkInv, Told, Chunks!Fragments
  <2> QED  BY <1>1, <2>1, <2>2, <2>3 DEF ChunkInv, Told, Chunks!receiver
<1>3. Chunks!Outstanding' \subseteq Chunks!Outstanding \cup ({t} \X Taken)
  <2>1. SUFFICES ASSUME NEW u \in Transfers, NEW i \in 1..Parts, receipt'[u][i] = "out"
                 PROVE  receipt[u][i] = "out" \/ (u = t /\ i \in Taken)
    BY DEF Chunks!Outstanding, Chunks!Fragments
  <2> QED  BY <1>1, <2>1 DEF ChunkInv, Told
<1>4. AtMost({t} \X Taken, MaxFragments - n)
  <2>1. IsFiniteSet(1..(MaxFragments - n)) /\ Cardinality(1..(MaxFragments - n)) = MaxFragments - n
    BY <1>0, FS_Interval
  <2>2. Taken \subseteq 1..(MaxFragments - n)  BY <1>0, <1>t
  <2>3. AtMost(Taken, MaxFragments - n)
    <3>m. PICK m : m = MaxFragments - n  OBVIOUS
    <3>1. AtMost(1..m, m) /\ m \in Nat /\ Taken \subseteq 1..m
      BY <1>0, <2>1, <2>2, <3>m DEF AtMost
    <3>2. AtMost(Taken, m)  BY <3>1, AtMostSubset
    <3> QED  BY <3>2, <3>m
  <2>4. IsFiniteSet({t}) /\ Cardinality({t}) = 1
    <3>1. t \notin {} /\ {} \cup {t} = {t} /\ IsFiniteSet({}) /\ Cardinality({}) = 0
      BY FS_EmptySet
    <3> QED  BY <3>1, FS_AddElement
  <2>5. /\ IsFiniteSet({t} \X Taken)
        /\ Cardinality({t} \X Taken) = Cardinality({t}) * Cardinality(Taken)
    BY <2>3, <2>4, FS_Product DEF AtMost
  <2>6. Cardinality(Taken) \in Nat  BY <2>3, FS_CardinalityType DEF AtMost
  <2> QED  BY <1>0, <2>3, <2>4, <2>5, <2>6 DEF AtMost
<1>5. AtMost(Chunks!Outstanding', MaxFragments)
  <2>1. AtMost(Chunks!Outstanding, n)  BY <1>n, <1>0 DEF ChunkInv, AtMost
  <2>2. AtMost(Chunks!Outstanding \cup ({t} \X Taken), n + (MaxFragments - n))
    BY <1>0, <1>4, <2>1, AtMostAdd
  <2> QED  BY <1>0, <1>3, <2>2, AtMostSubset
<1>6. AckedIsKnown'
  <2>1. SUFFICES ASSUME NEW u \in Transfers, NEW i \in 1..Parts, receipt'[u][i] = "delivered"
                 PROVE  i \in active[u] \/ Finished(u)
    BY <1>1, ReceiverKept DEF AckedIsKnown, Chunks!receiver
  <2>2. receipt[u][i] = "delivered"  BY <1>1, <2>1 DEF ChunkInv, Told
  <2> QED  BY <2>2 DEF ChunkInv, AckedIsKnown
<1> QED  BY <1>1, <1>2, <1>5, <1>6, ReceiverKept DEF ChunkInv

LEMMA RetriedStep ==
    ASSUME Chunks!ChunksAssumption, ChunkInv, NEW t \in Transfers, NEW i \in 1..Parts,
           Chunks!Retry(t, i)
    PROVE  ChunkInv'
<1>1. UNCHANGED Chunks!receiver  BY DEF Chunks!Retry
<1>2. /\ receipt' \in [Transfers -> [1..Parts -> Receipts]]
      /\ \A u \in Transfers, k \in 1..Parts :
            receipt'[u][k] = receipt[u][k] \/ receipt'[u][k] = "timeout"
  <2>1. receipt' = receipt \/ receipt' = [receipt EXCEPT ![t][i] = "timeout"]
    BY DEF Chunks!Retry, Chunks!Retried
  <2>2. receipt \in [Transfers -> [1..Parts -> Receipts]]  BY DEF ChunkInv, Told
  <2>3. CASE receipt' = receipt  BY <2>2, <2>3
  <2>4. CASE receipt' = [receipt EXCEPT ![t][i] = "timeout"]
    BY <2>2, <2>4 DEF Receipts
  <2> QED  BY <2>1, <2>3, <2>4
<1>3. attempts' \in [Chunks!Fragments -> 0..MaxAttempts] /\ net' \subseteq Chunks!Fragments
  <2>1. <<t, i>> \in Chunks!Fragments  BY DEF Chunks!Fragments
  <2>2. attempts[<<t, i>>] \in 0..MaxAttempts  BY <2>1 DEF ChunkInv, Told
  <2>3. CASE attempts[<<t, i>>] >= MaxAttempts
    BY <2>3 DEF ChunkInv, Told, Chunks!Retry, Chunks!Retried
  <2>4. CASE ~(attempts[<<t, i>>] >= MaxAttempts)
    <3>1. /\ attempts' = [attempts EXCEPT ![<<t, i>>] = attempts[<<t, i>>] + 1]
          /\ net' = net \cup {<<t, i>>}
      BY <2>4 DEF Chunks!Retry, Chunks!Retried
    <3>2. attempts[<<t, i>>] + 1 \in 0..MaxAttempts
      BY <2>2, <2>4 DEF Chunks!ChunksAssumption
    <3>3. attempts \in [Chunks!Fragments -> 0..MaxAttempts] /\ net \subseteq Chunks!Fragments
      BY DEF ChunkInv, Told
    <3> QED  BY <2>1, <3>1, <3>2, <3>3
  <2> QED  BY <2>3, <2>4
<1>4. Told'  BY <1>1, <1>2, <1>3 DEF ChunkInv, Told, Chunks!receiver
<1>5. Chunks!Outstanding' \subseteq Chunks!Outstanding
  <2>1. \A u \in Transfers, k \in 1..Parts : receipt'[u][k] = "out" => receipt[u][k] = "out"
    BY <1>2
  <2> QED  BY <2>1 DEF Chunks!Outstanding, Chunks!Fragments
<1>6. AtMost(Chunks!Outstanding', MaxFragments)
  BY <1>5, AtMostSubset DEF ChunkInv, Chunks!ChunksAssumption
<1>7. AckedIsKnown'
  BY <1>1, <1>2, ReceiverKept DEF ChunkInv, AckedIsKnown, Chunks!receiver
<1> QED  BY <1>1, <1>4, <1>6, <1>7, ReceiverKept DEF ChunkInv

\* What becomes of an entry of the reassembler when fragments are only taken out.
LEMMA FewerHeld ==
    ASSUME Chunks!ChunksAssumption, ChunkInv, NEW S, S = Chunks!Held', S \subseteq Chunks!Held
    PROVE  AtMost(Chunks!Held', MaxActive)
BY AtMostSubset DEF ChunkInv, Chunks!ChunksAssumption

\* A fragment that is new is taken in.
LEMMA IngestStep ==
    ASSUME Chunks!ChunksAssumption, ChunkInv, NEW t \in Transfers, NEW i \in 1..Parts,
           <<t, i>> \notin seen, Chunks!Ingest(t, i)
    PROVE  /\ seen' \subseteq Chunks!Fragments /\ active' \in [Transfers -> SUBSET (1..Parts)]
           /\ done' \in Seq(Transfers) /\ Len(done') <= MaxDone /\ put' \in [Transfers -> Nat]
           /\ AtMost(Chunks!Held', MaxActive) /\ HeldIsSeen' /\ CameOutWhole'
           /\ \A u \in Transfers : Finished(u) => Finished(u)'
           /\ i \in active'[t] \/ Finished(t)'
           /\ \A u \in Transfers : \A k \in active[u] : k \in active'[u] \/ Finished(u)'
<1>0. /\ MaxActive \in Nat /\ MaxDone \in Nat /\ Parts \in Nat \ {0}
      /\ <<t, i>> \in Chunks!Fragments
  BY DEF Chunks!ChunksAssumption, Chunks!Fragments
<1>h. PICK held : held = active[t] \cup {i}  OBVIOUS
<1>1. CASE active[t] = {} /\ Cardinality(Chunks!Held) >= MaxActive
  <2>1. /\ seen' = seen \cup {<<t, i>>} /\ dropped' = dropped \cup {t}
        /\ UNCHANGED <<active, done, put, arrived>>
    BY <1>1 DEF Chunks!Ingest, Chunks!Cardinality, Cardinality
  <2>2. Chunks!Held' \subseteq Chunks!Held  BY <2>1 DEF Chunks!Held
  <2>3. AtMost(Chunks!Held', MaxActive)  BY <2>2, FewerHeld
  <2> QED  BY <1>0, <2>1, <2>3 DEF ChunkInv, Told, HeldIsSeen, CameOutWhole, Finished
<1>2. CASE ~(active[t] = {} /\ Cardinality(Chunks!Held) >= MaxActive) /\ held # 1..Parts
  <2>1. /\ seen' = seen \cup {<<t, i>>} /\ active' = [active EXCEPT ![t] = held]
        /\ UNCHANGED <<done, put, dropped, arrived>>
    BY <1>2, <1>h DEF Chunks!Ingest, Chunks!Completes, Chunks!Cardinality, Cardinality
  <2>2. /\ active' \in [Transfers -> SUBSET (1..Parts)] /\ active'[t] = held
        /\ \A u \in Transfers : u # t => active'[u] = active[u]
    BY <1>h, <2>1 DEF ChunkInv, Told
  <2>3. AtMost(Chunks!Held', MaxActive)
    <3>1. Chunks!Held' \subseteq Chunks!Held \cup {t}  BY <2>2 DEF Chunks!Held
    <3>2. CASE active[t] # {}
      <4>1. Chunks!Held' \subseteq Chunks!Held  BY <3>1, <3>2 DEF Chunks!Held
      <4> QED  BY <4>1, FewerHeld
    <3>3. CASE active[t] = {}
      <4>n. PICK n : n = Cardinality(Chunks!Held)  OBVIOUS
      <4>1. n \in Nat /\ AtMost(Chunks!Held, n)
        BY <4>n, FS_CardinalityType DEF ChunkInv, AtMost
      <4>2. AtMost(Chunks!Held \cup {t}, n + 1)  BY <4>1, AtMostAdd, AtMostOne
      <4>3. n + 1 <= MaxActive  BY <1>0, <1>2, <3>3, <4>n, <4>1
      <4>4. AtMost(Chunks!Held', n + 1)  BY <3>1, <4>1, <4>2, AtMostSubset
      <4>5. Cardinality(Chunks!Held') \in Nat  BY <4>4, FS_CardinalityType DEF AtMost
      <4> QED  BY <1>0, <4>1, <4>3, <4>4, <4>5 DEF AtMost
    <3> QED  BY <3>2, <3>3
  <2>4. HeldIsSeen'
    <3>1. \A u \in Transfers : \A k \in active'[u] : <<u, k>> \in seen'
      BY <1>h, <2>1, <2>2 DEF ChunkInv, HeldIsSeen
    <3>2. \A u \in Transfers, k \in 1..Parts : <<u, k>> \in seen' => k \in active'[u] \/ Finished(u)
      BY <1>h, <2>1, <2>2 DEF ChunkInv, HeldIsSeen
    <3> QED  BY <2>1, <3>1, <3>2 DEF HeldIsSeen, Finished
  <2>5. CameOutWhole'  BY <2>1 DEF ChunkInv, CameOutWhole
  <2> QED
    BY <1>0, <1>h, <2>1, <2>2, <2>3, <2>4, <2>5 DEF ChunkInv, Told, Finished
<1>3. CASE ~(active[t] = {} /\ Cardinality(Chunks!Held) >= MaxActive) /\ held = 1..Parts
  <2>1. /\ active' = [active EXCEPT ![t] = {}] /\ seen' = seen \cup {<<t, i>>}
        /\ done' = Chunks!Last(Append(done, t), MaxDone)
        /\ put' = [put EXCEPT ![t] = put[t] + 1] /\ arrived' = arrived \cup {t}
        /\ dropped' = dropped
    BY <1>3, <1>h DEF Chunks!Ingest, Chunks!Completes, Chunks!SeenAfter, Chunks!Cardinality, Cardinality
  <2>2. /\ active' \in [Transfers -> SUBSET (1..Parts)] /\ active'[t] = {}
        /\ \A u \in Transfers : u # t => active'[u] = active[u]
    BY <2>1 DEF ChunkInv, Told
  <2>3. AtMost(Chunks!Held', MaxActive)
    <3>1. Chunks!Held' \subseteq Chunks!Held  BY <2>2 DEF Chunks!Held
    <3> QED  BY <3>1, FewerHeld
  <2>4. HeldIsSeen'
    <3>1. \A u \in Transfers : \A k \in active'[u] : <<u, k>> \in seen'
      BY <2>1, <2>2 DEF ChunkInv, HeldIsSeen
    <3>2. \A u \in Transfers, k \in 1..Parts : <<u, k>> \in seen' => k \in active'[u] \/ Finished(u)'
      BY <2>1, <2>2 DEF ChunkInv, HeldIsSeen, Finished
    <3> QED  BY <3>1, <3>2 DEF HeldIsSeen
  <2>5. \A k \in 1..Parts : <<t, k>> \in seen'
    BY <1>3, <1>h, <2>1 DEF ChunkInv, HeldIsSeen
  <2>6. put[t] = 0  BY DEF ChunkInv, CameOutWhole
  <2>7. put' \in [Transfers -> Nat] /\ put'[t] = 1 /\ \A u \in Transfers : u # t => put'[u] = put[u]
    BY <2>1, <2>6 DEF ChunkInv, Told
  <2>8. /\ done' \in Seq(Transfers) /\ Len(done') <= MaxDone
        /\ \A k \in 1..Len(done') : done'[k] \in arrived'
    <3>q. PICK q : q = Append(done, t)  OBVIOUS
    <3>1. /\ q \in Seq(Transfers) /\ Len(q) = Len(done) + 1 /\ Len(done) \in Nat /\ Len(done) <= MaxDone
          /\ \A k \in 1..Len(q) : q[k] \in arrived'
      BY <3>q, <2>1 DEF ChunkInv, Told, CameOutWhole
    <3>2. CASE Len(q) > MaxDone
      <4>1. done' = Tail(q)  BY <2>1, <3>q, <3>2 DEF Chunks!Last
      <4>2. /\ Tail(q) \in Seq(Transfers) /\ Len(Tail(q)) = Len(q) - 1
            /\ \A k \in 1..Len(Tail(q)) : Tail(q)[k] = q[k + 1]
        BY <3>1
      <4>3. \A k \in 1..Len(Tail(q)) : k + 1 \in 1..Len(q)  BY <3>1, <4>2
      <4> QED  BY <1>0, <3>1, <4>1, <4>2, <4>3
    <3>3. CASE ~(Len(q) > MaxDone)
      <4>1. done' = q  BY <2>1, <3>q, <3>3 DEF Chunks!Last
      <4> QED  BY <1>0, <3>1, <3>3, <4>1
    <3> QED  BY <3>2, <3>3
  <2>9. CameOutWhole'
    <3>1. ASSUME NEW u \in Transfers
          PROVE  put'[u] = 0 \/ (put'[u] = 1 /\ \A k \in 1..Parts : <<u, k>> \in seen')
      BY <2>1, <2>5, <2>7 DEF ChunkInv, CameOutWhole
    <3> QED  BY <2>8, <3>1 DEF CameOutWhole
  <2> QED  BY <1>0, <2>1, <2>2, <2>3, <2>4, <2>7, <2>8, <2>9 DEF ChunkInv, Told, Finished
<1> QED  BY <1>1, <1>2, <1>3

LEMMA HearStep ==
    ASSUME Chunks!ChunksAssumption, ChunkInv, NEW t \in Transfers, NEW i \in 1..Parts,
           NEW lost \in BOOLEAN, Chunks!Hear(t, i, lost)
    PROVE  ChunkInv'
<1>1. /\ net' = net \ {<<t, i>>} /\ attempts' = attempts
      /\ receipt' = IF receipt[t][i] = "out" /\ ~lost
                    THEN [receipt EXCEPT ![t][i] = "delivered"] ELSE receipt
  BY DEF Chunks!Hear
<1>2. /\ receipt' \in [Transfers -> [1..Parts -> Receipts]]
      /\ \A u \in Transfers, k \in 1..Parts :
            receipt'[u][k] = receipt[u][k] \/ (u = t /\ k = i /\ receipt'[u][k] = "delivered")
  BY <1>1 DEF ChunkInv, Told, Receipts
<1>3. AtMost(Chunks!Outstanding', MaxFragments)
  <2>1. \A u \in Transfers, k \in 1..Parts : receipt'[u][k] = "out" => receipt[u][k] = "out"
    BY <1>2
  <2>2. Chunks!Outstanding' \subseteq Chunks!Outstanding
    BY <2>1 DEF Chunks!Outstanding, Chunks!Fragments
  <2> QED  BY <2>2, AtMostSubset DEF ChunkInv, Chunks!ChunksAssumption
<1>4. /\ seen' \subseteq Chunks!Fragments /\ active' \in [Transfers -> SUBSET (1..Parts)]
      /\ done' \in Seq(Transfers) /\ Len(done') <= MaxDone /\ put' \in [Transfers -> Nat]
      /\ AtMost(Chunks!Held', MaxActive) /\ HeldIsSeen' /\ CameOutWhole'
      /\ \A u \in Transfers : Finished(u) => Finished(u)'
      /\ i \in active'[t] \/ Finished(t)'
      /\ \A u \in Transfers : \A k \in active[u] : k \in active'[u] \/ Finished(u)'
  <2>1. CASE Chunks!Known(t, i)
    <3>1. UNCHANGED <<active, seen, done, put, dropped, arrived>>  BY <2>1 DEF Chunks!Hear
    <3>2. Chunks!Held' = Chunks!Held  BY <3>1 DEF Chunks!Held
    <3>3. HeldIsSeen' /\ CameOutWhole'  BY <3>1 DEF ChunkInv, HeldIsSeen, CameOutWhole, Finished
    <3>4. i \in active[t] \/ Finished(t)
      <4>1. CASE \E k \in DOMAIN done : done[k] = t
        BY <4>1 DEF ChunkInv, Told, CameOutWhole, Finished
      <4>2. CASE <<t, i>> \in seen  BY <4>2 DEF ChunkInv, HeldIsSeen
      <4> QED  BY <2>1, <4>1, <4>2 DEF Chunks!Known
    <3> QED  BY <3>1, <3>2, <3>3, <3>4 DEF ChunkInv, Told, Finished
  <2>2. CASE ~Chunks!Known(t, i)
    <3>1. Chunks!Ingest(t, i) /\ <<t, i>> \notin seen  BY <2>2 DEF Chunks!Hear, Chunks!Known
    <3> QED  BY <3>1, IngestStep
  <2> QED  BY <2>1, <2>2
<1>5. AckedIsKnown'
  <2>1. SUFFICES ASSUME NEW u \in Transfers, NEW k \in 1..Parts, receipt'[u][k] = "delivered"
                 PROVE  k \in active'[u] \/ Finished(u)'
    BY DEF AckedIsKnown
  <2>2. CASE u = t /\ k = i  BY <1>4, <2>2
  <2>3. CASE ~(u = t /\ k = i)
    <3>1. receipt[u][k] = "delivered"  BY <1>2, <2>1, <2>3
    <3>2. k \in active[u] \/ Finished(u)  BY <3>1 DEF ChunkInv, AckedIsKnown
    <3> QED  BY <1>4, <3>2
  <2> QED  BY <2>2, <2>3
<1>6. Told'
  <2>1. net' \subseteq Chunks!Fragments /\ attempts' \in [Chunks!Fragments -> 0..MaxAttempts]
    BY <1>1 DEF ChunkInv, Told
  <2> QED  BY <1>2, <1>4, <2>1 DEF Told
<1> QED  BY <1>3, <1>4, <1>5, <1>6 DEF ChunkInv

LEMMA ExpireStep ==
    ASSUME Chunks!ChunksAssumption, ChunkInv, NEW t \in Transfers, Chunks!Expire(t)
    PROVE  ChunkInv'
<1>1. /\ active' = [active EXCEPT ![t] = {}] /\ dropped' = dropped \cup {t}
      /\ UNCHANGED <<receipt, attempts, net, seen, done, rejoined, put, arrived>>
  BY DEF Chunks!Expire
<1>2. /\ active' \in [Transfers -> SUBSET (1..Parts)] /\ active'[t] = {}
      /\ \A u \in Transfers : u # t => active'[u] = active[u]
  BY <1>1 DEF ChunkInv, Told
<1>3. Chunks!Held' \subseteq Chunks!Held /\ Chunks!Outstanding' = Chunks!Outstanding
  BY <1>1, <1>2 DEF Chunks!Held, Chunks!Outstanding
<1>4. AtMost(Chunks!Held', MaxActive)  BY <1>3, FewerHeld
<1>5. HeldIsSeen' /\ CameOutWhole' /\ AckedIsKnown'
  BY <1>1, <1>2 DEF ChunkInv, HeldIsSeen, CameOutWhole, AckedIsKnown, Finished
<1>6. Told'  BY <1>1, <1>2 DEF ChunkInv, Told
<1> QED  BY <1>3, <1>4, <1>5, <1>6 DEF ChunkInv

LEMMA RejoinStep == ASSUME Chunks!ChunksAssumption, ChunkInv, Chunks!Rejoin PROVE ChunkInv'
<1>1. /\ active' = [t \in Transfers |-> {}] /\ seen' = {} /\ done' = <<>>
      /\ put' = [t \in Transfers |-> 0]
      /\ dropped' = dropped \cup {t \in Transfers : \E i \in 1..Parts : <<t, i>> \in seen}
      /\ UNCHANGED <<receipt, attempts, net, arrived>>
  BY DEF Chunks!Rejoin
<1>2. Chunks!Held' \subseteq Chunks!Held /\ Chunks!Outstanding' = Chunks!Outstanding
  BY <1>1 DEF Chunks!Held, Chunks!Outstanding
<1>3. AtMost(Chunks!Held', MaxActive)  BY <1>2, FewerHeld
<1>4. Told'  BY <1>1 DEF ChunkInv, Told, Chunks!ChunksAssumption
<1>5. HeldIsSeen' /\ CameOutWhole'  BY <1>1 DEF HeldIsSeen, CameOutWhole
<1>6. AckedIsKnown'
  <2>1. SUFFICES ASSUME NEW t \in Transfers, NEW i \in 1..Parts, receipt[t][i] = "delivered"
                 PROVE  Finished(t)'
    BY <1>1 DEF AckedIsKnown
  <2>2. i \in active[t] \/ Finished(t)  BY <2>1 DEF ChunkInv, AckedIsKnown
  <2>3. CASE i \in active[t]
    <3>1. <<t, i>> \in seen  BY <2>3 DEF ChunkInv, HeldIsSeen
    <3> QED  BY <1>1, <3>1 DEF Finished
  <2>4. CASE Finished(t)  BY <1>1, <2>4 DEF Finished
  <2> QED  BY <2>2, <2>3, <2>4
<1> QED  BY <1>2, <1>3, <1>4, <1>5, <1>6 DEF ChunkInv

LEMMA ChunkHolds ==
    ASSUME ChunkInv
    PROVE  Chunks!TypeOK /\ Chunks!PutOnce /\ Chunks!AckedIsNotLost
<1>1. Chunks!PutOnce /\ Chunks!AckedIsNotLost
  BY DEF ChunkInv, CameOutWhole, AckedIsKnown, Finished, Chunks!PutOnce, Chunks!AckedIsNotLost
<1>2. Chunks!TypeOK
  BY DEF ChunkInv, Told, AtMost, Receipts, Chunks!TypeOK, Chunks!Cardinality, Cardinality
<1> QED  BY <1>1, <1>2

LEMMA ChunkStep ==
    ASSUME Chunks!ChunksAssumption, ChunkInv, [Chunks!Next]_Chunks!vars
    PROVE  ChunkInv'
<1>1. CASE Chunks!Rejoin  BY <1>1, RejoinStep
<1>2. ASSUME NEW t \in Transfers, Chunks!Send(t) PROVE ChunkInv'  BY <1>2, SendStep
<1>3. ASSUME NEW t \in Transfers, Chunks!Expire(t) PROVE ChunkInv'  BY <1>3, ExpireStep
<1>4. ASSUME NEW t \in Transfers, NEW i \in 1..Parts, Chunks!Retry(t, i) PROVE ChunkInv'
  BY <1>4, RetriedStep
<1>5. ASSUME NEW t \in Transfers, NEW i \in 1..Parts, NEW lost \in BOOLEAN, Chunks!Hear(t, i, lost)
      PROVE  ChunkInv'
  BY <1>5, HearStep
<1>6. CASE UNCHANGED Chunks!vars
  <2>1. Chunks!Held' = Chunks!Held /\ Chunks!Outstanding' = Chunks!Outstanding
    BY <1>6 DEF Chunks!vars, Chunks!Held, Chunks!Outstanding
  <2> QED
    BY <1>6, <2>1 DEF ChunkInv, Told, HeldIsSeen, CameOutWhole, AckedIsKnown, Finished, Chunks!vars
<1> QED  BY <1>1, <1>2, <1>3, <1>4, <1>5, <1>6 DEF Chunks!Next

LEMMA ChunkCorrect ==
    ASSUME Chunks!ChunksAssumption
    PROVE  Chunks!Spec => [](Chunks!TypeOK /\ Chunks!PutOnce /\ Chunks!AckedIsNotLost)
<1>1. Chunks!Init => ChunkInv  BY ChunkInit
<1>2. ChunkInv /\ [Chunks!Next]_Chunks!vars => ChunkInv'  BY ChunkStep
<1> QED  BY <1>1, <1>2, ChunkHolds, PTL DEF Chunks!Spec

-----------------------------------------------------------------------------
(* Numbers.                                                                *)

\* A set of numbers that is not empty has a least one.
LEMMA Least == ASSUME NEW T \in SUBSET Nat, T # {} PROVE \E n \in T : \A m \in T : n <= m
<1>f. PICK F : F = {1..n : n \in T}  OBVIOUS
<1>1. F \subseteq FiniteSubsetsOf(Nat) /\ F # {}
  <2>1. ASSUME NEW n \in T PROVE IsFiniteSet(1..n) /\ 1..n \subseteq Nat
    BY FS_Interval
  <2> QED  BY <1>f, <2>1 DEF FiniteSubsetsOf
<1>2. PICK x \in F : \A y \in F : ~(<<y, x>> \in StrictSubsetOrdering(Nat))
  BY <1>1, WFMin, FS_StrictSubsetOrderingWellFounded
<1>3. PICK n \in T : x = 1..n  BY <1>f
<1>4. ASSUME NEW m \in T, m < n PROVE FALSE
  <2>1. 1..m \subseteq 1..n /\ n \in 1..n /\ n \notin 1..m  BY <1>4
  <2>2. PICK y : y = 1..m  OBVIOUS
  <2>3. y \in SUBSET Nat /\ x \in SUBSET Nat /\ y \subseteq x /\ y # x /\ y \in F
    BY <1>3, <1>4, <1>f, <2>1, <2>2
  <2>4. <<y, x>> \in StrictSubsetOrdering(Nat)  BY <2>3 DEF StrictSubsetOrdering
  <2> QED  BY <1>2, <2>3, <2>4
<1> QED  BY <1>4

\* Induction, for a set of numbers.
LEMMA Induct ==
    ASSUME NEW S, 0 \in S, \A n \in Nat : n \in S => n + 1 \in S
    PROVE  Nat \subseteq S
<1>1. SUFFICES ASSUME Nat \ S # {} PROVE FALSE  OBVIOUS
<1>2. PICK n \in Nat \ S : \A m \in Nat \ S : n <= m  BY <1>1, Least
<1>3. n # 0 /\ n - 1 \in Nat /\ (n - 1) + 1 = n /\ n - 1 \in S  BY <1>2
<1> QED  BY <1>2, <1>3

-----------------------------------------------------------------------------
(* The connection to the server.                                           *)

Everyone == Owners \cup {NoOwner}
Messages(kinds, o, ages) == [kind : kinds, owner : {o}, stale : ages]

\* kept is what FreshAmong(q) defines, for the first n messages of q.
KeepsFresh(kept, q, n) ==
    kept = [i \in 0..n |->
                IF i = 0 THEN <<>>
                ELSE IF q[i].stale THEN kept[i - 1] ELSE Append(kept[i - 1], q[i])]

LEMMA FreshExists == ASSUME NEW M, NEW q \in Seq(M) PROVE KeepsFresh(Signaling!FreshAmong(q), q, Len(q))
<1>s. PICK S : S = {n \in Nat : \E kept : KeepsFresh(kept, q, n)}  OBVIOUS
<1>1. 0 \in S
  <2>1. PICK kept : kept = [i \in 0..0 |-> <<>>]  OBVIOUS
  <2>2. KeepsFresh(kept, q, 0)  BY <2>1 DEF KeepsFresh
  <2> QED  BY <1>s, <2>2
<1>2. ASSUME NEW n \in Nat, n \in S PROVE n + 1 \in S
  <2>1. PICK f : KeepsFresh(f, q, n)  BY <1>s, <1>2
  <2>2. PICK kept : kept = [i \in 0..(n + 1) |->
           IF i <= n THEN f[i] ELSE IF q[i].stale THEN f[n] ELSE Append(f[n], q[i])]
    OBVIOUS
  <2>3. \A i \in 0..n : kept[i] = f[i]  BY <2>2
  <2>4. ASSUME NEW i \in 0..(n + 1)
        PROVE  kept[i] = IF i = 0 THEN <<>>
                         ELSE IF q[i].stale THEN kept[i - 1] ELSE Append(kept[i - 1], q[i])
    <3>1. CASE i = 0  BY <2>1, <2>3, <3>1 DEF KeepsFresh
    <3>2. CASE i \in 1..n
      <4>1. i \in 0..n /\ i - 1 \in 0..n /\ i # 0  BY <3>2
      <4>2. f[i] = IF q[i].stale THEN f[i - 1] ELSE Append(f[i - 1], q[i])
        BY <2>1, <4>1 DEF KeepsFresh
      <4> QED  BY <2>3, <4>1, <4>2
    <3>3. CASE i = n + 1
      <4>1. i # 0 /\ i - 1 = n /\ ~(i <= n) /\ n \in 0..n  BY <3>3
      <4> QED  BY <2>2, <2>3, <4>1
    <3> QED  BY <3>1, <3>2, <3>3
  <2>5. KeepsFresh(kept, q, n + 1)  BY <2>2, <2>4 DEF KeepsFresh
  <2> QED  BY <1>s, <2>5
<1>3. Len(q) \in S  BY <1>1, <1>2, Induct
<1>4. \E kept : KeepsFresh(kept, q, Len(q))  BY <1>s, <1>3
<1>5. Signaling!FreshAmong(q) = CHOOSE kept : KeepsFresh(kept, q, Len(q))
  BY DEF Signaling!FreshAmong, KeepsFresh
<1> QED  BY <1>4, <1>5

\* What is kept is of the queue, did not wait too long, and is no more than it was.
LEMMA FreshIsFresh ==
    ASSUME NEW M, NEW q \in Seq(M)
    PROVE  /\ Signaling!FreshOnly(q) \in Seq({m \in M : ~m.stale})
           /\ Len(Signaling!FreshOnly(q)) <= Len(q)
<1>k. PICK kept : kept = Signaling!FreshAmong(q)  OBVIOUS
<1>g. PICK G : G = {m \in M : ~m.stale}  OBVIOUS
<1>s. PICK S : S = {n \in Nat : n <= Len(q) => kept[n] \in Seq(G) /\ Len(kept[n]) <= n}  OBVIOUS
<1>1. \A i \in 0..Len(q) : kept[i] = IF i = 0 THEN <<>>
                           ELSE IF q[i].stale THEN kept[i - 1] ELSE Append(kept[i - 1], q[i])
  <2>1. KeepsFresh(kept, q, Len(q))  BY <1>k, FreshExists
  <2> QED  BY <2>1 DEF KeepsFresh
<1>2. 0 \in S
  <2>1. kept[0] = <<>>  BY <1>1
  <2>2. kept[0] \in Seq(G) /\ Len(kept[0]) <= 0  BY <2>1
  <2> QED  BY <1>s, <2>2
<1>3. ASSUME NEW n \in Nat, n \in S PROVE n + 1 \in S
  <2>1. SUFFICES ASSUME n + 1 <= Len(q) PROVE kept[n + 1] \in Seq(G) /\ Len(kept[n + 1]) <= n + 1
    BY <1>s
  <2>2. n + 1 \in 0..Len(q) /\ n + 1 # 0 /\ (n + 1) - 1 = n /\ n <= Len(q) /\ n + 1 \in 1..Len(q)
    BY <2>1
  <2>3. kept[n] \in Seq(G) /\ Len(kept[n]) <= n  BY <1>s, <1>3, <2>2
  <2>4. kept[n + 1] = IF q[n + 1].stale THEN kept[n] ELSE Append(kept[n], q[n + 1])
    BY <1>1, <2>2
  <2>5. CASE q[n + 1].stale  BY <2>3, <2>4, <2>5
  <2>6. CASE ~q[n + 1].stale
    <3>1. q[n + 1] \in G  BY <1>g, <2>2, <2>6
    <3>2. /\ Append(kept[n], q[n + 1]) \in Seq(G)
          /\ Len(Append(kept[n], q[n + 1])) = Len(kept[n]) + 1 /\ Len(kept[n]) \in Nat
      BY <2>3, <3>1
    <3> QED  BY <2>3, <2>4, <2>6, <3>2
  <2> QED  BY <2>5, <2>6
<1>4. Len(q) \in S  BY <1>2, <1>3, Induct
<1> QED  BY <1>g, <1>k, <1>s, <1>4 DEF Signaling!FreshOnly

\* What a socket carries: nothing while it connects, at first its join, and of its
\* own room alone; what waits is of the room wanted.
Good(s) ==
    /\ s.state \in {"none", "connecting"} => s.frames = <<>>
    /\ s.state \in {"open", "dead"} => s.frames # <<>>
    /\ \A i \in 1..Len(s.frames) :
        /\ s.frames[i].owner = s.owner /\ ~s.frames[i].stale
        /\ (i = 1) <=> (s.frames[i].kind = "join")

Frames == [kind : {"join", "signal", "leave"}, owner : Everyone, stale : BOOLEAN]
States == {"none", "connecting", "open", "dead", "closing"}
OneSocket == [state : States, owner : Everyone, frames : Seq(Frames), answer : BOOLEAN]

Connection ==
    /\ owner \in Everyone /\ cur \in Sockets \cup {NoSocket} /\ fence \in Sockets \cup {NoSocket}
    /\ calls \in 0..MaxCalls /\ faults \in 0..MaxFaults
Flags == connected \in BOOLEAN /\ registered \in BOOLEAN /\ retrying \in BOOLEAN

AllGood(n) == n \in [Sockets -> OneSocket] /\ \A s \in Sockets : Good(n[s])

\* Only the socket in use lives.
OneLives(n, c) == \A s \in Sockets : n[s].state \in {"connecting", "open", "dead"} => s = c

\* The callbacks that count are those of the socket in use, or of none.
FenceIsCurrent(n, c, f) ==
    IF c = NoSocket THEN f = NoSocket \/ n[f].state = "none"
    ELSE f = c /\ n[c].state # "none"

Queued(q, o) == q \in Seq(Messages({"signal"}, o, BOOLEAN)) /\ Len(q) <= MaxQueue

SignalingInv ==
    /\ Connection /\ Flags /\ AllGood(sockets) /\ OneLives(sockets, cur)
    /\ FenceIsCurrent(sockets, cur, fence) /\ Queued(queue, owner)
    /\ cur # NoSocket => sockets[cur].owner = owner /\ ~retrying
    /\ registered => cur # NoSocket /\ sockets[cur].answer
    /\ connected => cur # NoSocket /\ sockets[cur].state \in {"open", "dead", "closing"}

LEMMA SignalingSafe ==
    ASSUME SignalingInv
    PROVE  /\ Signaling!TypeOK /\ Signaling!FramesOfTheRoom /\ Signaling!NothingStale
           /\ Signaling!StateIsOfTheSocket
<1>1. \A s \in Sockets : sockets[s] \in OneSocket /\ Good(sockets[s])
  BY DEF SignalingInv, AllGood
<1>2. Signaling!TypeOK
  BY <1>1 DEF SignalingInv, Connection, Flags, Queued, OneSocket, Everyone, States, Signaling!TypeOK
<1>3. Signaling!FramesOfTheRoom /\ Signaling!NothingStale
  BY <1>1 DEF Good, OneSocket, Signaling!FramesOfTheRoom, Signaling!NothingStale
<1>4. Signaling!StateIsOfTheSocket  BY DEF SignalingInv, Signaling!StateIsOfTheSocket
<1> QED  BY <1>2, <1>3, <1>4

LEMMA NothingQueued == ASSUME NEW o, MaxQueue \in Nat PROVE Queued(<<>>, o)
<1>1. \A M : <<>> \in Seq(M)  OBVIOUS
<1>2. Len(<<>>) <= MaxQueue  OBVIOUS
<1> QED  BY <1>1, <1>2 DEF Queued

\* Nothing has been sent over a socket that is not used.
LEMMA UnusedGood == Signaling!Unused \in OneSocket /\ Good(Signaling!Unused)
BY DEF Signaling!Unused, OneSocket, States, Everyone, Good

LEMMA SignalingInit == ASSUME Signaling!SignalingAssumption, Signaling!Init PROVE SignalingInv
<1>1. AllGood(sockets) /\ OneLives(sockets, cur)
  BY UnusedGood DEF Signaling!Init, Signaling!Unused, AllGood, OneLives
<1>2. Queued(queue, owner)
  BY NothingQueued DEF Signaling!Init, Signaling!SignalingAssumption
<1>3. Connection
  BY DEF Signaling!Init, Signaling!SignalingAssumption, Connection, Everyone
<1>4. FenceIsCurrent(sockets, cur, fence) /\ Flags  BY DEF Signaling!Init, FenceIsCurrent, Flags
<1>5. cur = NoSocket /\ ~registered /\ ~connected  BY DEF Signaling!Init
<1> QED  BY <1>1, <1>2, <1>3, <1>4, <1>5 DEF SignalingInv

\* One socket changes.
LEMMA OneChanges ==
    ASSUME NEW n, AllGood(n), NEW s \in Sockets, NEW x \in OneSocket, Good(x),
           NEW m, m = [n EXCEPT ![s] = x]
    PROVE  AllGood(m) /\ m[s] = x /\ \A u \in Sockets : u # s => m[u] = n[u]
BY DEF AllGood

LEMMA ClosedGood ==
    ASSUME NEW n, AllGood(n), NEW s \in Sockets,
           NEW m, m = Signaling!Closed(n, s), Signaling!Active(s)
    PROVE  /\ AllGood(m) /\ m[s] = [n[s] EXCEPT !.state = "closing"]
           /\ \A u \in Sockets : u # s => m[u] = n[u]
<1>x. PICK x : x = [n[s] EXCEPT !.state = "closing"]  OBVIOUS
<1>1. n[s] \in OneSocket /\ Good(n[s])  BY DEF AllGood
<1>2. x \in OneSocket /\ Good(x)  BY <1>x, <1>1 DEF OneSocket, States, Good
<1>3. m = [n EXCEPT ![s] = x]  BY <1>x DEF Signaling!Closed
<1>4. AllGood(m) /\ m[s] = x /\ \A u \in Sockets : u # s => m[u] = n[u]
  BY <1>2, <1>3 DEF AllGood
<1> QED  BY <1>x, <1>4

\* More goes over a socket that has begun.
LEMMA SentGood ==
    ASSUME NEW n, AllGood(n), NEW s \in Sockets, n[s].state \in {"open", "dead"},
           NEW f \in Frames, f.owner = n[s].owner, ~f.stale, f.kind # "join",
           NEW m, m = Signaling!Sent(n, s, <<f>>)
    PROVE  /\ AllGood(m) /\ m[s].state = n[s].state /\ m[s].owner = n[s].owner
           /\ m[s].answer = n[s].answer /\ \A u \in Sockets : u # s => m[u] = n[u]
<1>1. CASE n[s].state = "dead"  BY <1>1 DEF Signaling!Sent
<1>2. CASE n[s].state # "dead"
  <2>x. PICK x : x = [n[s] EXCEPT !.frames = n[s].frames \o <<f>>]  OBVIOUS
  <2>1. n[s] \in OneSocket /\ Good(n[s])  BY DEF AllGood
  <2>2. n[s].frames \in Seq(Frames) /\ n[s].frames # <<>> /\ Len(n[s].frames) \in Nat \ {0}
    BY <2>1 DEF OneSocket, Good
  <2>3. /\ x.frames = n[s].frames \o <<f>> /\ x.state = n[s].state /\ x.owner = n[s].owner
        /\ x.answer = n[s].answer /\ x \in OneSocket
    <3>f. PICK fs : fs = n[s].frames \o <<f>>  OBVIOUS
    <3>1. fs \in Seq(Frames)  BY <2>2, <3>f
    <3>2. x = [n[s] EXCEPT !.frames = fs]  BY <2>x, <3>f
    <3>3. x.frames = fs /\ x.state = n[s].state /\ x.owner = n[s].owner /\ x.answer = n[s].answer
      BY <2>1, <3>2 DEF OneSocket
    <3>4. x \in OneSocket  BY <2>1, <3>1, <3>2 DEF OneSocket
    <3> QED  BY <3>3, <3>4, <3>f
  <2>4. Len(x.frames) = Len(n[s].frames) + 1 /\ x.frames # <<>>  BY <2>2, <2>3
  <2>5. \A i \in 1..Len(x.frames) :
          IF i <= Len(n[s].frames) THEN x.frames[i] = n[s].frames[i] ELSE x.frames[i] = f /\ i # 1
    BY <2>2, <2>3, <2>4
  <2>6. \A i \in 1..Len(x.frames) : i <= Len(n[s].frames) => i \in 1..Len(n[s].frames)
    BY <2>2, <2>4
  <2>7. Good(x)
    <3>1. ASSUME NEW i \in 1..Len(x.frames)
          PROVE  /\ x.frames[i].owner = x.owner /\ ~x.frames[i].stale
                 /\ (i = 1) <=> (x.frames[i].kind = "join")
      BY <2>1, <2>3, <2>5, <2>6 DEF Good
    <3> QED  BY <2>1, <2>3, <2>4, <3>1 DEF Good
  <2>8. m = [n EXCEPT ![s] = x]  BY <1>2, <2>x DEF Signaling!Sent
  <2> QED  BY <2>3, <2>7, <2>8, OneChanges
<1> QED  BY <1>1, <1>2

\* A socket that opens sends the join and what had waited for it.
LEMMA OpenGood ==
    ASSUME NEW s \in Sockets, sockets[s] \in OneSocket, sockets[s].owner = owner,
           sockets[s].frames = <<>>, Queued(queue, owner), NEW x,
           x = [sockets[s] EXCEPT !.state = "open", !.frames = Signaling!Flushed(queue, owner)]
    PROVE  x \in OneSocket /\ Good(x) /\ x.state = "open" /\ x.owner = owner
<1>r. PICK rest : rest = Signaling!FreshOnly(queue)  OBVIOUS
<1>j. PICK j : j = [kind |-> "join", owner |-> owner, stale |-> FALSE]  OBVIOUS
<1>1. rest \in Seq({m \in Messages({"signal"}, owner, BOOLEAN) : ~m.stale})
  BY <1>r, FreshIsFresh DEF Queued
<1>2. x.frames = <<j>> \o rest /\ x.state = "open" /\ x.owner = owner /\ x.answer = sockets[s].answer
  BY <1>r, <1>j DEF OneSocket, Signaling!Flushed, Signaling!Frame
<1>3. owner \in Everyone  BY DEF OneSocket
<1>4. j \in Frames  BY <1>j, <1>3 DEF Frames
<1>5. rest \in Seq(Frames)
  <2>1. {m \in Messages({"signal"}, owner, BOOLEAN) : ~m.stale} \subseteq Frames
    BY <1>3 DEF Messages, Frames
  <2> QED  BY <1>1, <2>1
<1>6. x \in OneSocket
  <2>1. <<j>> \o rest \in Seq(Frames)  BY <1>4, <1>5
  <2>2. x = [state |-> "open", owner |-> owner, frames |-> <<j>> \o rest, answer |-> sockets[s].answer]
    BY <1>r, <1>j DEF OneSocket, Signaling!Flushed, Signaling!Frame
  <2>b. PICK b \in BOOLEAN : b = sockets[s].answer  BY DEF OneSocket
  <2>f. PICK fs \in Seq(Frames) : fs = <<j>> \o rest  BY <2>1
  <2>4. x = [state |-> "open", owner |-> owner, frames |-> fs, answer |-> b]
    BY <2>b, <2>f, <2>2
  <2>5. owner \in Everyone /\ "open" \in States  BY <1>3 DEF States
  <2> QED  BY <2>4, <2>5 DEF OneSocket
<1>7. Len(x.frames) = Len(rest) + 1 /\ Len(rest) \in Nat /\ x.frames # <<>>  BY <1>1, <1>2
<1>8. ASSUME NEW i \in 1..Len(x.frames)
      PROVE  /\ x.frames[i].owner = x.owner /\ ~x.frames[i].stale
             /\ (i = 1) <=> (x.frames[i].kind = "join")
  <2>1. CASE i = 1  BY <1>2, <1>j, <1>7, <2>1
  <2>2. CASE i # 1
    <3>1. i - 1 \in 1..Len(rest) /\ x.frames[i] = rest[i - 1]  BY <1>1, <1>2, <1>7, <2>2
    <3>2. rest[i - 1] \in {m \in Messages({"signal"}, owner, BOOLEAN) : ~m.stale}
      BY <1>1, <3>1
    <3> QED  BY <1>2, <2>2, <3>1, <3>2 DEF Messages
  <2> QED  BY <2>1, <2>2
<1>9. Good(x)  BY <1>2, <1>7, <1>8 DEF Good
<1> QED  BY <1>2, <1>6, <1>9

\* Whatever waited for the room, the fresh of it or nothing waits on.
LEMMA QueueKept ==
    ASSUME Signaling!SignalingAssumption, Queued(queue, owner)
    PROVE  Queued(Signaling!FreshOnly(queue), owner)
<1>q. PICK q : q = Signaling!FreshOnly(queue)  OBVIOUS
<1>1. q \in Seq({m \in Messages({"signal"}, owner, BOOLEAN) : ~m.stale}) /\ Len(q) <= Len(queue)
  BY <1>q, FreshIsFresh DEF Queued
<1>2. q \in Seq(Messages({"signal"}, owner, BOOLEAN))  BY <1>1
<1>3. Len(q) \in Nat /\ Len(queue) \in Nat  BY <1>1 DEF Queued
<1> QED  BY <1>1, <1>2, <1>3, <1>q DEF Queued, Signaling!SignalingAssumption

Lives(s) == s.state \in {"connecting", "open", "dead"}
NoneLives(n) == \A s \in Sockets : ~Lives(n[s])

\* The socket in use is closed.
LEMMA ClosedAll ==
    ASSUME Signaling!SignalingAssumption, NEW n, AllGood(n), OneLives(n, cur),
           \A s \in Sockets : n[s].state = sockets[s].state,
           NEW m, m = Signaling!Closed(n, cur), cur \in Sockets \cup {NoSocket}
    PROVE  AllGood(m) /\ NoneLives(m)
<1>1. CASE Signaling!Active(cur)
  <2>1. cur \in Sockets /\ cur # NoSocket
    BY <1>1 DEF Signaling!Active
  <2>2. /\ AllGood(m) /\ m[cur] = [n[cur] EXCEPT !.state = "closing"]
        /\ \A u \in Sockets : u # cur => m[u] = n[u]
    BY <1>1, <2>1, ClosedGood
  <2>3. n[cur] \in OneSocket  BY <2>1 DEF AllGood
  <2>4. m[cur].state = "closing"  BY <2>2, <2>3 DEF OneSocket
  <2> QED  BY <2>2, <2>4 DEF OneLives, NoneLives, Lives
<1>2. CASE ~Signaling!Active(cur)
  <2>1. m = n  BY <1>2 DEF Signaling!Closed
  <2>2. NoneLives(n)
    BY <1>2 DEF OneLives, NoneLives, Lives, Signaling!Active, Signaling!SignalingAssumption
  <2> QED  BY <2>1, <2>2
<1> QED  BY <1>1, <1>2

LEMMA LeftGood ==
    ASSUME Signaling!SignalingAssumption, SignalingInv
    PROVE  AllGood(Signaling!Left) /\ NoneLives(Signaling!Left)
<1>0. AllGood(sockets) /\ OneLives(sockets, cur) /\ cur \in Sockets \cup {NoSocket}
  BY DEF SignalingInv, Connection
<1>1. CASE connected /\ Signaling!IsOpen(cur)
  <2>f. PICK f : f = Signaling!Frame("leave", owner)  OBVIOUS
  <2>m. PICK m : m = Signaling!Sent(sockets, cur, <<f>>)  OBVIOUS
  <2>1. cur \in Sockets /\ sockets[cur].state \in {"open", "dead"} /\ sockets[cur].owner = owner
    BY <1>0, <1>1 DEF Signaling!IsOpen, SignalingInv
  <2>2. f \in Frames /\ f.owner = owner /\ ~f.stale /\ f.kind # "join"
    BY <2>f DEF Signaling!Frame, Frames, SignalingInv, Connection
  <2>3. /\ AllGood(m) /\ m[cur].state = sockets[cur].state
        /\ \A u \in Sockets : u # cur => m[u] = sockets[u]
    BY <1>0, <2>1, <2>2, <2>m, SentGood
  <2>4. OneLives(m, cur) /\ \A s \in Sockets : m[s].state = sockets[s].state
    BY <1>0, <2>3 DEF OneLives
  <2>5. Signaling!Left = Signaling!Closed(m, cur)  BY <1>1, <2>f, <2>m DEF Signaling!Left
  <2> QED  BY <1>0, <2>3, <2>4, <2>5, ClosedAll
<1>2. CASE ~(connected /\ Signaling!IsOpen(cur))
  <2>1. Signaling!Left = Signaling!Closed(sockets, cur)  BY <1>2 DEF Signaling!Left
  <2> QED  BY <1>0, <2>1, ClosedAll
<1> QED  BY <1>1, <1>2

LEMMA EstablishStep ==
    ASSUME Signaling!SignalingAssumption, NEW n, AllGood(n), NoneLives(n),
           NEW o \in Everyone, Signaling!Establish(o, n)
    PROVE  /\ AllGood(sockets') /\ OneLives(sockets', cur') /\ FenceIsCurrent(sockets', cur', fence')
           /\ cur' \in Sockets /\ cur' # NoSocket /\ fence' = cur' /\ sockets'[cur'].owner = o
<1>1. PICK s \in Sockets :
         /\ n[s].state = "none"
         /\ sockets' = [n EXCEPT ![s] = [Signaling!Unused EXCEPT !.state = "connecting", !.owner = o]]
         /\ cur' = s /\ fence' = s
  BY DEF Signaling!Establish
<1>x. PICK x : x = [Signaling!Unused EXCEPT !.state = "connecting", !.owner = o]  OBVIOUS
<1>2. x = [state |-> "connecting", owner |-> o, frames |-> <<>>, answer |-> FALSE]
  BY <1>x DEF Signaling!Unused
<1>3. x \in OneSocket /\ Good(x)  BY <1>2 DEF OneSocket, States, Good
<1>4. sockets' = [n EXCEPT ![s] = x]  BY <1>1, <1>x
<1>5. /\ AllGood(sockets') /\ sockets'[s] = x
      /\ \A u \in Sockets : u # s => sockets'[u] = n[u]
  BY <1>3, <1>4 DEF AllGood
<1>6. OneLives(sockets', s)  BY <1>5 DEF OneLives, NoneLives, Lives
<1>7. s # NoSocket  BY DEF Signaling!SignalingAssumption
<1> QED  BY <1>1, <1>2, <1>5, <1>6, <1>7 DEF FenceIsCurrent

\* A new socket takes over.
LEMMA TakenOver ==
    ASSUME Signaling!SignalingAssumption, SignalingInv, NEW n, AllGood(n), NoneLives(n),
           NEW o \in Everyone, Signaling!Establish(o, n), owner' = o, Signaling!Down,
           retrying' = FALSE, Queued(queue', o), calls' \in 0..MaxCalls, faults' = faults
    PROVE  SignalingInv'
<1>1. /\ AllGood(sockets') /\ OneLives(sockets', cur') /\ FenceIsCurrent(sockets', cur', fence')
      /\ cur' \in Sockets /\ cur' # NoSocket /\ fence' = cur' /\ sockets'[cur'].owner = o
  BY EstablishStep
<1>2. Connection'  BY <1>1 DEF SignalingInv, Connection
<1>3. Flags' /\ ~registered' /\ ~connected' /\ ~retrying'  BY DEF Signaling!Down, Flags
<1>4. AllGood(sockets)' /\ OneLives(sockets, cur)' /\ FenceIsCurrent(sockets, cur, fence)'
  BY <1>1 DEF AllGood, OneLives, FenceIsCurrent
<1>5. Queued(queue, owner)'  BY DEF Queued
<1> QED  BY <1>1, <1>2, <1>3, <1>4, <1>5 DEF SignalingInv

LEMMA ConnectStep ==
    ASSUME Signaling!SignalingAssumption, SignalingInv, NEW o \in Owners, Signaling!Connect(o)
    PROVE  SignalingInv'
<1>1. AllGood(Signaling!Left) /\ NoneLives(Signaling!Left)  BY LeftGood
<1>2. Queued(queue', o)
  BY NothingQueued DEF Signaling!Connect, Signaling!QueueAfter, Signaling!SignalingAssumption
<1>3. calls' \in 0..MaxCalls
  BY DEF Signaling!Connect, Signaling!Call, Signaling!SignalingAssumption, SignalingInv, Connection
<1>4. /\ Signaling!Establish(o, Signaling!Left) /\ owner' = o /\ Signaling!Down
      /\ retrying' = FALSE /\ faults' = faults
  BY DEF Signaling!Connect
<1>5. o \in Everyone  BY DEF Everyone
<1> QED  BY <1>1, <1>2, <1>3, <1>4, <1>5, TakenOver

LEMMA ReconnectStep ==
    ASSUME Signaling!SignalingAssumption, SignalingInv, NEW o \in Owners, Signaling!Reconnect(o)
    PROVE  SignalingInv'
<1>n. PICK n : n = Signaling!Closed(sockets, cur)  OBVIOUS
<1>1. AllGood(n) /\ NoneLives(n)  BY <1>n, ClosedAll DEF SignalingInv, Connection
<1>2. Queued(queue', o)
  <2>1. CASE o = owner
    BY <2>1, QueueKept DEF Signaling!Reconnect, Signaling!QueueAfter, SignalingInv
  <2>2. CASE o # owner
    BY <2>2, NothingQueued
    DEF Signaling!Reconnect, Signaling!QueueAfter, Signaling!SignalingAssumption
  <2> QED  BY <2>1, <2>2
<1>3. calls' \in 0..MaxCalls
  BY DEF Signaling!Reconnect, Signaling!Call, Signaling!SignalingAssumption, SignalingInv, Connection
<1>4. /\ Signaling!Establish(o, n) /\ owner' = o /\ Signaling!Down
      /\ retrying' = FALSE /\ faults' = faults
  BY <1>n DEF Signaling!Reconnect
<1>5. o \in Everyone  BY DEF Everyone
<1> QED  BY <1>1, <1>2, <1>3, <1>4, <1>5, TakenOver

LEMMA DisconnectStep ==
    ASSUME Signaling!SignalingAssumption, SignalingInv, Signaling!Disconnect
    PROVE  SignalingInv'
<1>0. /\ sockets' = Signaling!Left /\ cur' = NoSocket /\ fence' = NoSocket /\ owner' = NoOwner
      /\ connected' = FALSE /\ registered' = FALSE /\ retrying' = FALSE /\ queue' = <<>>
      /\ faults' = faults
  BY DEF Signaling!Disconnect, Signaling!Down, Signaling!QueueAfter
<1>1. AllGood(sockets') /\ NoneLives(sockets')  BY <1>0, LeftGood
<1>2. Queued(queue', owner')
  BY <1>0, NothingQueued DEF Signaling!SignalingAssumption
<1>3. calls' \in 0..MaxCalls
  BY DEF Signaling!Disconnect, Signaling!Call, Signaling!SignalingAssumption, SignalingInv, Connection
<1>4. Connection'  BY <1>0, <1>3 DEF SignalingInv, Connection, Everyone
<1>5. Flags'  BY <1>0 DEF Flags
<1>6. AllGood(sockets)' /\ OneLives(sockets, cur)'
  BY <1>1 DEF AllGood, NoneLives, OneLives, Lives
<1>7. FenceIsCurrent(sockets, cur, fence)'  BY <1>0 DEF FenceIsCurrent
<1>8. Queued(queue, owner)'  BY <1>2 DEF Queued
<1> QED  BY <1>0, <1>4, <1>5, <1>6, <1>7, <1>8 DEF SignalingInv

\* The socket s changes, what is believed of the connection does not.
LEMMA OnlySocket ==
    ASSUME SignalingInv, NEW s \in Sockets, NEW x, x = sockets'[s], AllGood(sockets'),
           \A u \in Sockets : u # s => sockets'[u] = sockets[u],
           x.owner = sockets[s].owner,
           Lives(x) => Lives(sockets[s]), x.state = "none" <=> sockets[s].state = "none",
           sockets[s].answer => x.answer,
           s = cur /\ connected => x.state \in {"open", "dead", "closing"},
           UNCHANGED <<owner, cur, fence, connected, registered, retrying, calls>>,
           faults' \in 0..MaxFaults, Queued(queue', owner)
    PROVE  SignalingInv'
<1>1. Connection' /\ Flags'  BY DEF SignalingInv, Connection, Flags
<1>2. OneLives(sockets, cur)'  BY DEF SignalingInv, OneLives, Lives
<1>3. FenceIsCurrent(sockets, cur, fence)'
  BY DEF SignalingInv, Connection, FenceIsCurrent
<1>4. AllGood(sockets)' /\ Queued(queue, owner)'  BY DEF AllGood, Queued
<1>5. cur # NoSocket => sockets'[cur].owner = owner /\ ~retrying
  BY DEF SignalingInv, Connection
<1>6. registered => cur # NoSocket /\ sockets'[cur].answer
  BY DEF SignalingInv, Connection
<1>7. connected => cur # NoSocket /\ sockets'[cur].state \in {"open", "dead", "closing"}
  BY DEF SignalingInv, Connection
<1> QED  BY <1>1, <1>2, <1>3, <1>4, <1>5, <1>6, <1>7 DEF SignalingInv

LEMMA FaultsCounted ==
    ASSUME Signaling!SignalingAssumption, SignalingInv, Signaling!Fault \/ UNCHANGED faults
    PROVE  faults' \in 0..MaxFaults
BY DEF Signaling!SignalingAssumption, SignalingInv, Connection, Signaling!Fault

LEMMA SaidStep ==
    ASSUME Signaling!SignalingAssumption, SignalingInv, Signaling!Send
    PROVE  SignalingInv'
<1>f. PICK f : f = Signaling!Frame("signal", owner)  OBVIOUS
<1>0. UNCHANGED <<owner, cur, fence, connected, registered, retrying, calls, faults>>
  BY DEF Signaling!Send
<1>1. CASE Signaling!IsOpen(cur) /\ sockets' = Signaling!Sent(sockets, cur, <<f>>) /\ UNCHANGED queue
  <2>1. cur \in Sockets /\ sockets[cur].state \in {"open", "dead"} /\ sockets[cur].owner = owner
    BY <1>1 DEF Signaling!IsOpen, SignalingInv, Connection
  <2>2. f \in Frames /\ f.owner = owner /\ ~f.stale /\ f.kind # "join"
    BY <1>f DEF Signaling!Frame, Frames, SignalingInv, Connection
  <2>x. PICK x : x = sockets'[cur]  OBVIOUS
  <2>3. /\ AllGood(sockets') /\ x.state = sockets[cur].state
        /\ x.owner = sockets[cur].owner /\ x.answer = sockets[cur].answer
        /\ \A u \in Sockets : u # cur => sockets'[u] = sockets[u]
    <3>1. AllGood(sockets)  BY DEF SignalingInv
    <3> QED  BY <1>1, <2>1, <2>2, <2>x, <3>1, SentGood
  <2>4. Queued(queue', owner)  BY <1>1 DEF SignalingInv, Queued
  <2>5. faults' \in 0..MaxFaults  BY <1>0, FaultsCounted
  <2> QED  BY <1>0, <2>1, <2>3, <2>4, <2>5, <2>x, OnlySocket DEF Lives
<1>2. CASE Len(queue) < MaxQueue /\ queue' = Append(queue, f) /\ UNCHANGED sockets
  <2>1. f \in Messages({"signal"}, owner, BOOLEAN)  BY <1>f DEF Signaling!Frame, Messages
  <2>2. Queued(queue', owner)
    <3>1. queue \in Seq(Messages({"signal"}, owner, BOOLEAN)) /\ Len(queue) \in Nat
      BY DEF SignalingInv, Queued
    <3>2. /\ Append(queue, f) \in Seq(Messages({"signal"}, owner, BOOLEAN))
          /\ Len(Append(queue, f)) = Len(queue) + 1
      BY <2>1, <3>1
    <3> QED  BY <1>2, <3>1, <3>2 DEF Queued, Signaling!SignalingAssumption
  <2>3. Queued(queue, owner)'  BY <1>0, <2>2 DEF Queued
  <2>4. Connection' /\ Flags'  BY <1>0 DEF SignalingInv, Connection, Flags
  <2>5. (AllGood(sockets) /\ OneLives(sockets, cur) /\ FenceIsCurrent(sockets, cur, fence))'
    BY <1>0, <1>2 DEF SignalingInv, AllGood, OneLives, FenceIsCurrent
  <2> QED  BY <1>0, <1>2, <2>3, <2>4, <2>5 DEF SignalingInv
<1> QED  BY <1>1, <1>2, <1>f DEF Signaling!Send

LEMMA AgeStep ==
    ASSUME Signaling!SignalingAssumption, SignalingInv, Signaling!Age
    PROVE  SignalingInv'
<1>0. /\ queue' = [i \in DOMAIN queue |-> [queue[i] EXCEPT !.stale = TRUE]]
      /\ UNCHANGED <<owner, cur, fence, connected, registered, retrying, sockets, calls, faults>>
  BY DEF Signaling!Age
<1>m. PICK M : M = Messages({"signal"}, owner, BOOLEAN)  OBVIOUS
<1>1. queue \in Seq(M) /\ DOMAIN queue = 1..Len(queue) /\ Len(queue) \in Nat
  BY <1>m DEF SignalingInv, Queued
<1>2. \A i \in 1..Len(queue) : [queue[i] EXCEPT !.stale = TRUE] \in M
  <2>1. \A i \in 1..Len(queue) : queue[i] \in M  BY <1>1
  <2>2. \A x \in M : [x EXCEPT !.stale = TRUE] \in M  BY <1>m DEF Messages
  <2> QED  BY <2>1, <2>2
<1>3. queue' \in Seq(M) /\ Len(queue') = Len(queue)  BY <1>0, <1>1, <1>2
<1>4. Queued(queue, owner)'  BY <1>0, <1>3, <1>m DEF SignalingInv, Queued
<1>5. Connection' /\ Flags'  BY <1>0 DEF SignalingInv, Connection, Flags
<1>6. (AllGood(sockets) /\ OneLives(sockets, cur) /\ FenceIsCurrent(sockets, cur, fence))'
  BY <1>0 DEF SignalingInv, AllGood, OneLives, FenceIsCurrent
<1> QED  BY <1>0, <1>4, <1>5, <1>6 DEF SignalingInv

LEMMA OpensStep ==
    ASSUME Signaling!SignalingAssumption, SignalingInv, NEW s \in Sockets, Signaling!Opens(s)
    PROVE  SignalingInv'
<1>n. PICK n : n = [sockets EXCEPT ![s].state = "open"]  OBVIOUS
<1>0. /\ sockets[s].state = "connecting" /\ Signaling!OnOpen(s, n)
      /\ UNCHANGED <<owner, cur, fence, registered, retrying, calls, faults>>
  BY <1>n DEF Signaling!Opens
<1>1. s = cur /\ fence = s /\ s # NoSocket /\ sockets[s].owner = owner
  BY <1>0 DEF SignalingInv, OneLives, FenceIsCurrent, Signaling!SignalingAssumption
<1>2. sockets[s] \in OneSocket /\ Good(sockets[s]) /\ sockets[s].frames = <<>>
  BY <1>0 DEF SignalingInv, AllGood, Good
<1>3. n[s] = [sockets[s] EXCEPT !.state = "open"] /\ n[s].state = "open"
  BY <1>n, <1>2 DEF SignalingInv, AllGood, OneSocket
<1>x. PICK x : x = [sockets[s] EXCEPT !.state = "open", !.frames = Signaling!Flushed(queue, owner)]
  OBVIOUS
<1>4. /\ connected' = TRUE /\ queue' = <<>>
      /\ sockets' = [n EXCEPT ![s].frames = n[s].frames \o Signaling!Flushed(queue, owner)]
  BY <1>0, <1>1, <1>3 DEF Signaling!OnOpen, Signaling!IsCurrent, Signaling!Sent
<1>5. x \in OneSocket /\ Good(x) /\ x.state = "open" /\ x.owner = owner
  BY <1>1, <1>2, <1>x, OpenGood DEF SignalingInv
<1>6. sockets' = [sockets EXCEPT ![s] = x]
  <2>q. PICK q : q = Signaling!Flushed(queue, owner)  OBVIOUS
  <2>1. n[s].frames \o q = q
    <3>1. n[s].frames = <<>>  BY <1>2, <1>3 DEF OneSocket
    <3>2. q \in Seq(Frames)  BY <1>5, <1>x, <1>2, <2>q DEF OneSocket
    <3> QED  BY <3>1, <3>2
  <2>2. sockets' = [n EXCEPT ![s].frames = q]  BY <1>4, <2>1, <2>q
  <2> QED  BY <1>2, <1>n, <1>x, <2>2, <2>q DEF OneSocket, SignalingInv, AllGood
<1>7. /\ AllGood(sockets') /\ sockets'[s] = x
      /\ \A u \in Sockets : u # s => sockets'[u] = sockets[u]
  BY <1>5, <1>6 DEF SignalingInv, AllGood
<1>8. x.answer = sockets[s].answer  BY <1>x, <1>2 DEF OneSocket
<1>9. Connection' /\ Flags'  BY <1>0, <1>4 DEF SignalingInv, Connection, Flags
<1>10. (AllGood(sockets) /\ OneLives(sockets, cur) /\ FenceIsCurrent(sockets, cur, fence))'
  BY <1>0, <1>1, <1>5, <1>7 DEF SignalingInv, AllGood, OneLives, FenceIsCurrent
<1>11. Queued(queue, owner)'
  <2>1. Queued(<<>>, owner')  BY NothingQueued DEF Signaling!SignalingAssumption
  <2> QED  BY <1>4, <2>1 DEF Queued
<1>12. /\ cur # NoSocket => sockets'[cur].owner = owner /\ ~retrying
       /\ registered => cur # NoSocket /\ sockets'[cur].answer
       /\ cur # NoSocket /\ sockets'[cur].state \in {"open", "dead", "closing"}
  BY <1>1, <1>5, <1>7, <1>8 DEF SignalingInv
<1> QED  BY <1>0, <1>9, <1>10, <1>11, <1>12 DEF SignalingInv

\* Nothing changes but whether the room counts as joined.
LEMMA OpensLateStep ==
    ASSUME Signaling!SignalingAssumption, SignalingInv, NEW s \in Sockets, Signaling!OpensLate(s)
    PROVE  SignalingInv'
<1>0. /\ sockets[s].state = "closing" /\ s # cur /\ cur # NoSocket
      /\ Signaling!OnOpen(s, sockets)
      /\ UNCHANGED <<owner, cur, fence, registered, retrying, calls, faults>>
  BY DEF Signaling!OpensLate
<1>1. fence # s  BY <1>0 DEF SignalingInv, FenceIsCurrent
<1>2. ~Signaling!Active(s)  BY <1>0 DEF Signaling!Active
<1>3. UNCHANGED <<sockets, connected, queue>>
  BY <1>0, <1>1, <1>2 DEF Signaling!OnOpen, Signaling!IsCurrent, Signaling!Closed
<1> QED
  BY <1>0, <1>3 DEF SignalingInv, Connection, Flags, AllGood, OneLives, FenceIsCurrent, Queued

LEMMA HearsStep ==
    ASSUME Signaling!SignalingAssumption, SignalingInv, NEW s \in Sockets, Signaling!Hears(s)
    PROVE  SignalingInv'
<1>0. /\ sockets[s].answer /\ sockets[s].state \in {"open", "closing"} /\ fence = s
      /\ registered' = TRUE
      /\ UNCHANGED <<owner, cur, fence, connected, queue, retrying, sockets, calls, faults>>
  BY DEF Signaling!Hears, Signaling!IsCurrent
<1>1. cur = s /\ s # NoSocket
  BY <1>0 DEF SignalingInv, FenceIsCurrent, Signaling!SignalingAssumption
<1>2. Connection' /\ Flags'  BY <1>0 DEF SignalingInv, Connection, Flags
<1>3. /\ AllGood(sockets)' /\ OneLives(sockets, cur)' /\ FenceIsCurrent(sockets, cur, fence)'
      /\ Queued(queue, owner)'
  BY <1>0 DEF SignalingInv, AllGood, OneLives, FenceIsCurrent, Queued
<1>4. /\ cur # NoSocket => sockets[cur].owner = owner /\ ~retrying
      /\ connected => cur # NoSocket /\ sockets[cur].state \in {"open", "dead", "closing"}
  BY DEF SignalingInv
<1> QED  BY <1>0, <1>1, <1>2, <1>3, <1>4 DEF SignalingInv

LEMMA JoinsStep ==
    ASSUME Signaling!SignalingAssumption, SignalingInv, NEW s \in Sockets, Signaling!Joins(s)
    PROVE  SignalingInv'
<1>0. /\ sockets' = [sockets EXCEPT ![s].answer = TRUE]
      /\ UNCHANGED <<owner, cur, fence, connected, registered, queue, retrying, calls, faults>>
  BY DEF Signaling!Joins
<1>x. PICK x : x = [sockets[s] EXCEPT !.answer = TRUE]  OBVIOUS
<1>1. sockets[s] \in OneSocket /\ Good(sockets[s])  BY DEF SignalingInv, AllGood
<1>2. /\ x \in OneSocket /\ Good(x) /\ x.state = sockets[s].state
      /\ x.owner = sockets[s].owner /\ x.answer
  BY <1>1, <1>x DEF OneSocket, Good
<1>3. /\ AllGood(sockets') /\ sockets'[s] = x
      /\ \A u \in Sockets : u # s => sockets'[u] = sockets[u]
  <2>1. sockets' = [sockets EXCEPT ![s] = x]  BY <1>0, <1>x
  <2> QED  BY <1>2, <2>1 DEF SignalingInv, AllGood
<1>4. faults' \in 0..MaxFaults  BY <1>0, FaultsCounted
<1>5. Queued(queue', owner)  BY <1>0 DEF SignalingInv, Queued
<1>6. s = cur /\ connected => x.state \in {"open", "dead", "closing"}
  BY <1>2 DEF SignalingInv
<1> QED  BY <1>0, <1>2, <1>3, <1>4, <1>5, <1>6, OnlySocket DEF Lives

\* A socket that is closed or dies, its answer and its owner as they were.
LEMMA StateStep ==
    ASSUME Signaling!SignalingAssumption, SignalingInv, NEW s \in Sockets,
           NEW state \in {"dead", "closing"},
           sockets[s].state \in {"open", "dead"},
           sockets' = [sockets EXCEPT ![s].state = state],
           UNCHANGED <<owner, cur, fence, connected, registered, queue, retrying, calls>>,
           faults' \in 0..MaxFaults
    PROVE  SignalingInv'
<1>x. PICK x : x = [sockets[s] EXCEPT !.state = state]  OBVIOUS
<1>1. sockets[s] \in OneSocket /\ Good(sockets[s])  BY DEF SignalingInv, AllGood
<1>2. /\ x \in OneSocket /\ Good(x) /\ x.state = state
      /\ x.owner = sockets[s].owner /\ x.answer = sockets[s].answer
  BY <1>1, <1>x DEF OneSocket, Good, States
<1>3. /\ AllGood(sockets') /\ sockets'[s] = x
      /\ \A u \in Sockets : u # s => sockets'[u] = sockets[u]
  <2>1. sockets' = [sockets EXCEPT ![s] = x]  BY <1>x
  <2> QED  BY <1>2, <2>1 DEF SignalingInv, AllGood
<1>4. Queued(queue', owner)  BY DEF SignalingInv, Queued
<1> QED  BY <1>2, <1>3, <1>4, OnlySocket DEF Lives

\* The callbacks of the socket in use when it is gone; of another one nothing but
\* that it is free again.
LEMMA GoneStep ==
    ASSUME Signaling!SignalingAssumption, SignalingInv, NEW s \in Sockets,
           sockets[s].state # "none",
           sockets' = [sockets EXCEPT ![s] = Signaling!Unused],
           IF s = cur THEN Signaling!OnClose(s)
           ELSE UNCHANGED <<cur, connected, registered, queue, retrying>>,
           UNCHANGED <<owner, fence, calls>>, faults' \in 0..MaxFaults
    PROVE  SignalingInv'
<1>1. /\ AllGood(sockets') /\ sockets'[s] = Signaling!Unused
      /\ \A u \in Sockets : u # s => sockets'[u] = sockets[u]
  BY UnusedGood DEF SignalingInv, AllGood
<1>2. sockets'[s].state = "none"  BY <1>1 DEF Signaling!Unused
<1>3. s # NoSocket  BY DEF Signaling!SignalingAssumption
<1>4. CASE s = cur
  <2>1. fence = s  BY <1>3, <1>4 DEF SignalingInv, FenceIsCurrent
  <2>2. /\ cur' = NoSocket /\ connected' = FALSE /\ registered' = FALSE
        /\ queue' = Signaling!FreshOnly(queue)
        /\ retrying' = (retrying \/ owner # NoOwner)
    BY <1>4, <2>1 DEF Signaling!OnClose, Signaling!IsCurrent, Signaling!Down, Signaling!QueueAfter
  <2>3. Connection'  BY <2>2 DEF SignalingInv, Connection
  <2>4. Flags'  BY <2>2 DEF SignalingInv, Flags
  <2>5. OneLives(sockets, cur)'
    BY <1>1, <1>2, <1>4 DEF SignalingInv, OneLives
  <2>6. FenceIsCurrent(sockets, cur, fence)'  BY <1>2, <2>1, <2>2 DEF FenceIsCurrent
  <2>7. Queued(queue, owner)'
    <3>1. Queued(Signaling!FreshOnly(queue), owner)  BY QueueKept DEF SignalingInv
    <3> QED  BY <2>2, <3>1 DEF Queued
  <2>8. AllGood(sockets)'  BY <1>1 DEF AllGood
  <2> QED  BY <2>2, <2>3, <2>4, <2>5, <2>6, <2>7, <2>8 DEF SignalingInv
<1>5. CASE s # cur
  <2>0. UNCHANGED <<cur, connected, registered, queue, retrying>>  BY <1>5
  <2>1. Connection' /\ Flags'  BY <2>0 DEF SignalingInv, Connection, Flags
  <2>2. OneLives(sockets, cur)'  BY <1>1, <1>2, <2>0 DEF SignalingInv, OneLives
  <2>3. FenceIsCurrent(sockets, cur, fence)'
    BY <1>1, <1>2, <1>5, <2>0 DEF SignalingInv, Connection, FenceIsCurrent
  <2>4. Queued(queue, owner)' /\ AllGood(sockets)'  BY <1>1, <2>0 DEF SignalingInv, Queued, AllGood
  <2>5. /\ cur # NoSocket => sockets'[cur].owner = owner /\ ~retrying
        /\ registered => cur # NoSocket /\ sockets'[cur].answer
        /\ connected => cur # NoSocket /\ sockets'[cur].state \in {"open", "dead", "closing"}
    BY <1>1, <1>5 DEF SignalingInv, Connection
  <2> QED  BY <2>0, <2>1, <2>2, <2>3, <2>4, <2>5 DEF SignalingInv
<1> QED  BY <1>4, <1>5

LEMMA RetryStep ==
    ASSUME Signaling!SignalingAssumption, SignalingInv, Signaling!Retry
    PROVE  SignalingInv'
<1>1. cur = NoSocket /\ ~connected /\ ~registered  BY DEF Signaling!Retry, SignalingInv
<1>2. ~Signaling!Active(cur)  BY <1>1 DEF Signaling!Active
<1>3. /\ Signaling!Establish(owner, sockets) /\ retrying' = FALSE
      /\ UNCHANGED <<owner, connected, registered, queue, calls, faults>>
  BY <1>2 DEF Signaling!Retry
<1>4. AllGood(sockets) /\ NoneLives(sockets)
  BY <1>1 DEF SignalingInv, OneLives, NoneLives, Lives, Signaling!SignalingAssumption
<1>5. Signaling!Down /\ owner' = owner  BY <1>1, <1>3 DEF Signaling!Down, SignalingInv, Flags
<1>6. Queued(queue', owner)  BY <1>3 DEF SignalingInv, Queued
<1>7. calls' \in 0..MaxCalls /\ owner \in Everyone  BY <1>3 DEF SignalingInv, Connection
<1> QED  BY <1>3, <1>4, <1>5, <1>6, <1>7, TakenOver

LEMMA SocketStep ==
    ASSUME Signaling!SignalingAssumption, SignalingInv, NEW s \in Sockets, Signaling!Socket(s)
    PROVE  SignalingInv'
<1>1. CASE Signaling!Refused(s) \/ Signaling!Lost(s)
  <2>1. /\ sockets[s].state \in {"connecting", "open"} /\ Signaling!Fault
        /\ sockets' = [sockets EXCEPT ![s] = Signaling!Unused] /\ Signaling!OnClose(s)
        /\ UNCHANGED <<owner, fence, calls>>
    BY <1>1 DEF Signaling!Refused, Signaling!Lost
  <2>2. s = cur  BY <2>1 DEF SignalingInv, OneLives
  <2>3. faults' \in 0..MaxFaults  BY <2>1, FaultsCounted
  <2> QED  BY <2>1, <2>2, <2>3, GoneStep
<1>2. CASE Signaling!CloseEnds(s)
  <2>1. faults' \in 0..MaxFaults  BY <1>2, FaultsCounted DEF Signaling!CloseEnds
  <2> QED  BY <1>2, <2>1, GoneStep DEF Signaling!CloseEnds
<1>3. CASE Signaling!Dies(s)
  <2>1. faults' \in 0..MaxFaults  BY <1>3, FaultsCounted DEF Signaling!Dies
  <2> QED  BY <1>3, <2>1, StateStep DEF Signaling!Dies
<1> QED
  BY <1>1, <1>2, <1>3, OpensStep, OpensLateStep, JoinsStep, HearsStep DEF Signaling!Socket

LEMMA PongStep ==
    ASSUME Signaling!SignalingAssumption, SignalingInv, Signaling!PongTimeout
    PROVE  SignalingInv'
<1>1. /\ cur \in Sockets /\ sockets[cur].state \in {"open", "dead"}
      /\ UNCHANGED <<owner, cur, fence, connected, registered, queue, retrying, calls>>
  BY DEF Signaling!PongTimeout, Signaling!IsOpen, SignalingInv, Connection
<1>2. sockets' = [sockets EXCEPT ![cur].state = "closing"]
  BY <1>1 DEF Signaling!PongTimeout, Signaling!IsOpen, Signaling!Closed, Signaling!Active
<1>3. faults' \in 0..MaxFaults  BY FaultsCounted DEF Signaling!PongTimeout
<1> QED  BY <1>1, <1>2, <1>3, StateStep

LEMMA SignalingStep ==
    ASSUME Signaling!SignalingAssumption, SignalingInv, [Signaling!Next]_Signaling!vars
    PROVE  SignalingInv'
<1>1. CASE UNCHANGED Signaling!vars
  BY <1>1 DEF Signaling!vars, SignalingInv, Connection, Flags, AllGood, OneLives, FenceIsCurrent,
              Queued
<1>2. CASE \E o \in Owners : Signaling!Connect(o) \/ Signaling!Reconnect(o)
  BY <1>2, ConnectStep, ReconnectStep
<1>3. CASE \E s \in Sockets : Signaling!Socket(s)  BY <1>3, SocketStep
<1> QED
  BY <1>1, <1>2, <1>3, DisconnectStep, SaidStep, AgeStep, PongStep, RetryStep DEF Signaling!Next

LEMMA SignalingCorrect ==
    ASSUME Signaling!SignalingAssumption
    PROVE  Signaling!Spec => [](/\ Signaling!TypeOK /\ Signaling!FramesOfTheRoom
                                /\ Signaling!NothingStale /\ Signaling!StateIsOfTheSocket)
<1>1. Signaling!Init => SignalingInv  BY SignalingInit
<1>2. SignalingInv /\ [Signaling!Next]_Signaling!vars => SignalingInv'  BY SignalingStep
<1> QED  BY <1>1, <1>2, SignalingSafe, PTL DEF Signaling!Spec

-----------------------------------------------------------------------------
(* The parts as MCTransport composes them: a step of the whole is a step   *)
(* of the part or leaves it alone.                                         *)

LEMMA Composed ==
    /\ MCInit =>
          /\ Signaling!Init /\ Router!Init /\ Clock!Init /\ Chunks!Init /\ Link!Init /\ Tier!Init
    /\ [MCNext]_MCVars =>
          /\ [Signaling!Next]_Signaling!vars /\ [Router!Next]_Router!vars
          /\ [Clock!Next]_Clock!vars /\ [Chunks!Next]_Chunks!vars
          /\ [Link!Next]_Link!vars /\ [Tier!Next]_Tier!vars
<1> USE DEF MCVars, signalingVars, routerVars, clockVars, chunkVars, linkVars, tierVars,
            Signaling!vars, Router!vars, Clock!vars, Chunks!vars, Link!vars, Tier!vars
<1>1. MCInit =>
         /\ Signaling!Init /\ Router!Init /\ Clock!Init /\ Chunks!Init /\ Link!Init /\ Tier!Init
  BY DEF MCInit
<1>2. ASSUME [MCNext]_MCVars
      PROVE  /\ [Signaling!Next]_Signaling!vars /\ [Router!Next]_Router!vars
             /\ [Clock!Next]_Clock!vars /\ [Chunks!Next]_Chunks!vars
             /\ [Link!Next]_Link!vars /\ [Tier!Next]_Tier!vars
  <2>1. CASE UNCHANGED MCVars  BY <2>1
  <2>2. CASE OfOrder(Next)  BY <2>2 DEF OfOrder
  <2>3. CASE OfSignaling(Signaling!Next)  BY <2>3 DEF OfSignaling
  <2>4. CASE OfClock(Clock!Next)  BY <2>4 DEF OfClock
  <2>5. CASE OfRouter(Router!Next)  BY <2>5 DEF OfRouter
  <2>6. CASE OfChunks(Chunks!Next)  BY <2>6 DEF OfChunks
  <2>7. CASE OfLink(Link!Next)  BY <2>7 DEF OfLink
  <2>8. CASE OfTier(Tier!Next)  BY <2>8 DEF OfTier
  <2> QED  BY <1>2, <2>1, <2>2, <2>3, <2>4, <2>5, <2>6, <2>7, <2>8 DEF MCNext
<1> QED  BY <1>1, <1>2

\* Whichever way the packets of a peer go, through changes of the mesh and of the
\* room, a packet goes out in its own room or never, to its own peer, in time, over
\* the server in a relayed room alone, and what waits is tried again
\* (transport-router.ts:66-278).
THEOREM PacketsKeepTheirRoomCorrect == MCSpec => []PacketsKeepTheirRoom
BY Composed, RouterCorrect, PTL DEF MCSpec, Router!Spec, PacketsKeepTheirRoom

\* However the clocks of the peers are set and packets are reordered, a packet is
\* stamped after all its sender had received with a stamp, no peer is pulled
\* further ahead than the drift allowed, and no stamp goes back
\* (hybrid-clock.ts:22-106).
THEOREM StampsFollowCausesCorrect == MCSpec => StampsFollowCauses
<1>1. [Clock!Forward]_Clock!vars => [which = "clock" => Clock!Forward]_clockVars
  BY DEF Clock!vars, clockVars
<1>2. Clock!TypeOK /\ Clock!Causal /\ Clock!NotPoisoned =>
         (which = "clock" => Clock!TypeOK /\ Clock!Causal /\ Clock!NotPoisoned)
  OBVIOUS
<1> QED  BY <1>1, <1>2, Composed, ClockCorrect, PTL DEF MCSpec, Clock!Spec, StampsFollowCauses

\* Whatever rosters arrive between a threshold and its timer, the tier changes only
\* for a count that was sustained, it suits the count or a timer runs for the one
\* that does, and a direct room never leaves the direct mesh
\* (tier-coordinator.ts:83-214).
THEOREM TierFollowsTheRoomCorrect == MCSpec => TierFollowsTheRoom
<1>1. [Tier!Sustained]_Tier!vars => [which = "tier" => Tier!Sustained]_tierVars
  BY DEF Tier!vars, tierVars
<1>2. Tier!TypeOK /\ Tier!DirectStays /\ Tier!SuitsOrChanges =>
         (which = "tier" => Tier!TypeOK /\ Tier!DirectStays /\ Tier!SuitsOrChanges)
  OBVIOUS
<1> QED  BY <1>1, <1>2, Composed, TierCorrect, PTL DEF MCSpec, Tier!Spec, TierFollowsTheRoom

\* However fragments are lost, repeated or late, a payload comes out of the
\* reassembler once, and a fragment that was acknowledged is held until its payload
\* is whole, timed out, was refused or left behind (chunker.ts:145-275).
THEOREM TransfersComeOnceCorrect == MCSpec => []TransfersComeOnce
<1>1. Chunks!TypeOK /\ Chunks!PutOnce /\ Chunks!AckedIsNotLost => TransfersComeOnce
  BY DEF TransfersComeOnce
<1>2. MCSpec => Chunks!Spec  BY Composed, PTL DEF MCSpec, Chunks!Spec
<1>3. Chunks!ChunksAssumption  BY ChunksAssumption
<1> QED  BY <1>1, <1>2, <1>3, ChunkCorrect, PTL

\* Whatever sockets are refused, lost, go dead or answer late, and whatever room is
\* asked for meanwhile, a socket carries its join first and then what is of its room
\* and not stale, and the room counts as joined only while the socket in use
\* joined it (signaling.service.ts:171-390, 525-655).
THEOREM SocketsKeepTheirRoomCorrect == MCSpec => []SocketsKeepTheirRoom
<1>1. (/\ Signaling!TypeOK /\ Signaling!FramesOfTheRoom /\ Signaling!NothingStale
       /\ Signaling!StateIsOfTheSocket) => SocketsKeepTheirRoom
  BY DEF SocketsKeepTheirRoom
<1>2. MCSpec => Signaling!Spec  BY Composed, PTL DEF MCSpec, Signaling!Spec
<1>3. Signaling!SignalingAssumption  BY SignalingAssumption
<1> QED  BY <1>1, <1>2, <1>3, SignalingCorrect, PTL

\* As long as a peer that is there answers within as many sweeps as it may leave
\* probes open, its channel is never torn down, however often it falls silent
\* (link-monitor.ts:178-208).
THEOREM OnlyDeadLinksEndCorrect == MCSpec => OnlyDeadLinksEnd
<1>1. [Link!Keeps]_Link!vars => [which = "link" => Link!Keeps]_linkVars
  BY DEF Link!vars, linkVars
<1>2. Link!TypeOK => (which = "link" => Link!TypeOK)  OBVIOUS
<1> QED  BY <1>1, <1>2, Composed, LinkCorrect, PTL DEF MCSpec, Link!Spec, OnlyDeadLinksEnd
=============================================================================
