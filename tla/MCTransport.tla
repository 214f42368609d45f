----------------------------- MODULE MCTransport -----------------------------
(***************************************************************************)
(* The parts of the transport, each by itself, for TLC.  A behaviour is of *)
(* one part, chosen once:                                                  *)
(*   "order"      one receive stream           (OrderingBuffer)            *)
(*   "signaling"  the socket to the server     (SignalingClient)           *)
(*   "clock"      the stamps of packets        (HybridClock)               *)
(*   "router"     channel, relay or queue      (TransportRouter)           *)
(*   "chunks"     fragments of large payloads  (Chunking)                  *)
(*   "link"       probes on one channel        (LinkMonitor)               *)
(*   "tier"       the tier of a room           (TierCoordinator)           *)
(***************************************************************************)
EXTENDS OrderingBuffer

CONSTANTS
    Owners, NoOwner, Sockets, NoSocket,                 \* of SignalingClient
    MaxQueue, MaxFrames, MaxCalls, MaxFaults,
    o1, o2, s1, s2, s3,                                 \* two owners, three sockets
    Hosts, MaxTime, MaxDrift, MaxCounter, MaxStamps,    \* of HybridClock
    Peers, All, MaxPackets, MaxPending, MaxRooms,       \* of TransportRouter
    Transfers, Parts, MaxFragments, MaxAttempts, MaxActive, MaxDone,  \* of Chunking
    t1, t2,                                             \* two transfers
    MaxProbes, MaxDelay, MaxOpenings,                   \* of LinkMonitor
    Counts, MaxUpdates                                  \* of TierCoordinator

VARIABLES
    owner, cur, fence, connected, registered, queue, retrying, sockets, calls, faults,
    now, clock, stamped, known, blind, top,
    room, relayed, view, links, packets, pending, flushing, out,
    receipt, attempts, net, active, seen, done, rejoined, put, dropped, arrived,
    link, tracked, age, probes, waiting, fresh, events,
    direct, count, tier, heading, timers, since, judged, updates,
    which

signalingVars == <<owner, cur, fence, connected, registered, queue, retrying, sockets, calls, faults>>
clockVars == <<now, clock, stamped, known, blind, top>>
routerVars == <<room, relayed, view, links, packets, pending, flushing, out>>
chunkVars == <<receipt, attempts, net, active, seen, done, rejoined, put, dropped, arrived>>
linkVars == <<link, tracked, age, probes, waiting, fresh, events>>
tierVars == <<direct, count, tier, heading, timers, since, judged, updates>>
streamVars == vars
MCVars == <<streamVars, signalingVars, clockVars, routerVars, chunkVars, linkVars, tierVars, which>>

Signaling == INSTANCE SignalingClient
Clock == INSTANCE HybridClock WITH Peers <- Hosts, MaxPackets <- MaxStamps
Router == INSTANCE TransportRouter
Link == INSTANCE LinkMonitor WITH MaxEvents <- MaxOpenings
Tier == INSTANCE TierCoordinator

Chunks == INSTANCE Chunking WITH MaxPending <- MaxFragments

\* What the theorems about them assume.
ASSUME SignalingAssumption == Signaling!SignalingAssumption
ASSUME ClockAssumption == Clock!ClockAssumption
ASSUME RouterAssumption == Router!RouterAssumption
ASSUME ChunksAssumption == Chunks!ChunksAssumption
ASSUME LinkAssumption == Link!LinkAssumption
ASSUME TierAssumption == Tier!TierAssumption

MCInit ==
    /\ which \in {"order", "signaling", "clock", "router", "chunks", "link", "tier"}
    /\ Init /\ Signaling!Init /\ Clock!Init /\ Router!Init /\ Chunks!Init /\ Link!Init /\ Tier!Init
    /\ which # "router" => relayed = {}
    /\ which # "tier" => ~direct

OfOrder(A) ==
    /\ which = "order" /\ A
    /\ UNCHANGED <<signalingVars, clockVars, routerVars, chunkVars, linkVars, tierVars, which>>
OfSignaling(A) ==
    /\ which = "signaling" /\ A
    /\ UNCHANGED <<streamVars, clockVars, routerVars, chunkVars, linkVars, tierVars, which>>
OfClock(A) ==
    /\ which = "clock" /\ A
    /\ UNCHANGED <<streamVars, signalingVars, routerVars, chunkVars, linkVars, tierVars, which>>
OfRouter(A) ==
    /\ which = "router" /\ A
    /\ UNCHANGED <<streamVars, signalingVars, clockVars, chunkVars, linkVars, tierVars, which>>
OfChunks(A) ==
    /\ which = "chunks" /\ A
    /\ UNCHANGED <<streamVars, signalingVars, clockVars, routerVars, linkVars, tierVars, which>>
OfLink(A) ==
    /\ which = "link" /\ A
    /\ UNCHANGED <<streamVars, signalingVars, clockVars, routerVars, chunkVars, tierVars, which>>
OfTier(A) ==
    /\ which = "tier" /\ A
    /\ UNCHANGED <<streamVars, signalingVars, clockVars, routerVars, chunkVars, linkVars, which>>

MCNext ==
    \/ OfOrder(Next)
    \/ OfSignaling(Signaling!Next) \/ OfClock(Clock!Next) \/ OfRouter(Router!Next)
    \/ OfChunks(Chunks!Next) \/ OfLink(Link!Next) \/ OfTier(Tier!Next)

\* The fairness of the parts that promise to get somewhere.  A behaviour is of
\* one part, so a disjunction over parts asks the same as one condition for each.
MCFairness ==
    /\ WF_MCVars(\/ OfSignaling(Signaling!PongTimeout) \/ OfChunks(Chunks!Expire(t1))
                 \/ OfLink(Link!Sweep) \/ OfOrder(GapTimeout))
    /\ WF_MCVars(OfSignaling(Signaling!Retry) \/ OfChunks(Chunks!Expire(t2)))
    /\ WF_MCVars(OfSignaling(Signaling!Settles(s1)) \/ OfChunks(Chunks!Retry(t1, 1)))
    /\ WF_MCVars(OfSignaling(Signaling!Settles(s2)) \/ OfChunks(Chunks!Retry(t1, 2)))
    /\ WF_MCVars(OfSignaling(Signaling!Settles(s3)) \/ OfChunks(Chunks!Retry(t2, 1)))
    /\ WF_MCVars(OfChunks(Chunks!Retry(t2, 2)))

MCSpec == MCInit /\ [][MCNext]_MCVars /\ MCFairness

-----------------------------------------------------------------------------
\* SignalingClient: a socket carries the join of its room and what is of it,
\* nothing that waited too long, and what is believed of the connection is of the
\* socket in use.
SocketsKeepTheirRoom ==
    which = "signaling" =>
        /\ Signaling!TypeOK
        /\ Signaling!FramesOfTheRoom /\ Signaling!NothingStale
        /\ Signaling!StateIsOfTheSocket

\* SignalingClient: a room that stays wanted is joined in the end.
RoomIsRejoined == <>[](which = "signaling" => Signaling!IsRejoined)

\* HybridClock: a packet sorts after what its sender had received with a stamp,
\* no peer is pulled beyond the drift allowed, and no stamp goes back.
StampsFollowCauses ==
    /\ [](which = "clock" => Clock!TypeOK /\ Clock!Causal /\ Clock!NotPoisoned)
    /\ [][which = "clock" => Clock!Forward]_clockVars

\* TransportRouter: a packet goes out in its own room or never, to its own
\* peer, before it waited too long, over the server in a relayed room alone, and
\* whatever waits is tried again.
PacketsKeepTheirRoom == which = "router" => Router!PacketsKeepTheirRoom

\* Chunking: a transfer comes out of the reassembler once, and what was
\* acknowledged is held until its transfer is whole.
TransfersComeOnce ==
    which = "chunks" => Chunks!TypeOK /\ Chunks!PutOnce /\ Chunks!AckedIsNotLost

\* Chunking: every send gets its receipt and no fragment is held for ever.
TransfersSettle == <>[](which = "chunks" => Chunks!IsSettled)

\* LinkMonitor: a channel whose other end answers is never torn down.
OnlyDeadLinksEnd ==
    /\ [](which = "link" => Link!TypeOK)
    /\ [][which = "link" => Link!Keeps]_linkVars

\* LinkMonitor: a channel whose other end is gone does not stay.
HalfOpenLinksEnd == <>[](which = "link" => link # "half")

\* TierCoordinator: the tier changes only for a count that was sustained, it suits
\* the count or a timer runs for the one that does, and a direct room never leaves
\* the direct mesh.
TierFollowsTheRoom ==
    /\ [](which = "tier" => Tier!TypeOK /\ Tier!DirectStays /\ Tier!SuitsOrChanges)
    /\ [][which = "tier" => Tier!Sustained]_tierVars
=============================================================================
