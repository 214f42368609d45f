---------------------------- MODULE PeerSignaling ----------------------------
(***************************************************************************)
(* How a mesh mends its links: session descriptions travel over the        *)
(* channels that are left, one relay at most, and over the signaling       *)
(* server where nothing better is known (core/network/peer-signaling.ts).  *)
(* TopologyService decides which links are missing and retries them        *)
(* (core/network/topology.service.ts).                                     *)
(*                                                                         *)
(* Peers are numbers because the code breaks ties by comparing their       *)
(* identities.  The numbers of descriptions are only compared, so they are *)
(* kept as what the comparisons give: a signal is "stale" once the target  *)
(* has applied a later one of that origin, and lag[p][q] says how many of  *)
(* q's next ones p will refuse because q counts from 0 again.  "late"      *)
(* descriptions belong to an attempt that was replaced since.              *)
(*                                                                         *)
(* External: negotiation itself.  An answer to the current offer brings    *)
(* the link up, any other leaves the attempt waiting for the sweep.        *)
(***************************************************************************)
EXTENDS Naturals, FiniteSets

CONSTANTS
    Peers,      \* a set of numbers
    Required,   \* the links of the plan, each the set of its two ends
    MaxDrops,   \* links lost
    MaxReloads, \* pages reloaded
    MaxLag,     \* descriptions refused after a reload
    MaxHasty,   \* retries and sweeps that overtake a handshake under way
    MaxRounds   \* descriptions under way from one peer to another

None == 0

VARIABLES
    chan,    \* chan[p]: to whom p holds an open channel (isConnected)
    conn,    \* conn[p][q]: p's attempt at q, "none", "offering" or "waiting"
    repair,  \* repair[p]: retryTimers
    map,     \* map[p]: the links p's routing map confirms
    roster,  \* roster[p]: allPeers
    lag, signals,
    server,  \* the signaling server answers
    room,    \* who is registered there
    faults   \* drops, reloads and hasty steps so far

peerVars == <<chan, conn, repair, map, roster, lag>>
vars == <<peerVars, signals, server, room, faults>>

Linked(p, q) == q \in chan[p] /\ p \in chan[q]
Links == UNION {{{p, q} : q \in {r \in chan[p] : Linked(p, r)}} : p \in Peers}

Init ==
    /\ chan = [p \in Peers |-> {q \in Peers : {p, q} \in Required /\ p # q}]
    /\ conn = [p \in Peers |-> [q \in Peers |-> "none"]]
    /\ repair = [p \in Peers |-> {}]
    /\ map = [p \in Peers |-> Required]
    /\ roster = [p \in Peers |-> Peers]
    /\ lag = [p \in Peers |-> [q \in Peers |-> 0]]
    /\ signals = {} /\ server = TRUE /\ room = Peers
    /\ faults = [drops |-> 0, reloads |-> 0, hasty |-> 0]

Fault(kind, bound) == faults[kind] < bound /\ faults' = [faults EXCEPT ![kind] = @ + 1]

-----------------------------------------------------------------------------
(* Routing a signal *)

\* The peers within k links of t on the map m.
Near(m, t) ==
    LET within[k \in 0..Cardinality(Peers)] ==
            IF k = 0 THEN {t}
            ELSE within[k - 1] \cup {p \in Peers : \E q \in within[k - 1] : {p, q} \in m}
    IN  within

\* LinkStateRouter.nextHop
NextHop(m, o, t) ==
    LET near == Near(m, t)
        first == {h \in Peers \ {o} : {o, h} \in m}
        ks == {k \in DOMAIN near : first \cap near[k] # {}}
        nearest == first \cap near[CHOOSE i \in ks : \A j \in ks : i <= j]
    IN  IF ks = {} THEN None ELSE CHOOSE h \in nearest : \A g \in nearest : h <= g

Fanout == 3

FirstOf(S) == {p \in S : Cardinality({q \in S : q < p}) < Fanout}

Over(o, S) == {[hop |-> o, at |-> q] : q \in S}
ByServer == [hop |-> None, at |-> None]


\* route(): the channel itself, the next hop alone, or a guess and the server.
Carriers(c, m, o, t) ==
    LET hop == NextHop(m, o, t)
        relays == IF hop # None THEN {hop} \cap c ELSE FirstOf(c \ {t})
    IN  IF t \in c THEN Over(o, {t})
        ELSE IF relays = {} THEN {ByServer}
        ELSE Over(o, relays) \cup (IF hop = None THEN {ByServer} ELSE {})

Rounds(ss, o, t) == {s.round : s \in {x \in ss : x.from = o /\ x.to = t}}
NextRound(ss, o, t) ==
    1 + (IF Rounds(ss, o, t) = {} THEN 0
         ELSE CHOOSE r \in Rounds(ss, o, t) : \A s \in Rounds(ss, o, t) : s <= r)
RoomToSend(ss, o, t) == NextRound(ss, o, t) <= MaxRounds

\* A signal of o to t with the next number.  What goes to a server that does not
\* answer, or into a channel that is dead without o knowing it, is lost.
Signal(ss, o, t, kind, late) ==
    ss \cup {[from |-> o, to |-> t, kind |-> kind, hop |-> c.hop, at |-> c.at,
              round |-> NextRound(ss, o, t), late |-> late, stale |-> lag[t][o] > 0] :
                 c \in {x \in Carriers(chan[o], map[o], o, t) :
                            IF x.at = None THEN server ELSE Linked(o, x.at)}}

\* ++seqCounter: everyone's lag behind o shrinks.
Counted(l, o) == [p \in Peers |-> [l[p] EXCEPT ![o] = IF @ > 0 THEN @ - 1 ELSE 0]]

\* A new offer of p to q replaces the attempt whose descriptions are under way.
Replaced(ss, p, q) ==
    {IF (s.from = p /\ s.to = q /\ s.kind = "offer") \/ (s.from = q /\ s.to = p /\ s.kind = "answer")
     THEN [s EXCEPT !.late = TRUE] ELSE s : s \in ss}

\* restartIce, initiateConnection
Offer(p, q) ==
    /\ RoomToSend(signals, p, q)
    /\ conn' = [conn EXCEPT ![p][q] = "offering"]
    /\ signals' = Signal(Replaced(signals, p, q), p, q, "offer", FALSE)
    /\ lag' = Counted(lag, p)

\* p's handshake with q is under way: a retry is slower, but for MaxHasty times.
Underway(p, q) ==
    \E s \in signals : \/ s.from = p /\ s.to = q
                       \/ s.from = q /\ s.to = p /\ s.kind = "answer"

Patient(p, q) == IF Underway(p, q) THEN Fault("hasty", MaxHasty) ELSE UNCHANGED faults

-----------------------------------------------------------------------------
(* TopologyService *)

\* schedulePeerReconnection, where the link is required and the peer present.
Scheduled(p, q) == IF {p, q} \in Required /\ q \in roster[p] THEN repair[p] \cup {q} ELSE repair[p]

\* The reconciliation loop: the lower identity dials what is missing.
Dial(p, q) ==
    /\ p < q /\ {p, q} \in Required /\ q \in roster[p] /\ p \in room
    /\ q \notin chan[p] /\ conn[p][q] = "none"
    /\ Offer(p, q)
    /\ UNCHANGED <<chan, repair, map, roster, server, room, faults>>

\* The backoff timer fires.
Retry(p, q) ==
    /\ q \in repair[p]
    /\ \/ /\ q \notin roster[p] \/ q \in chan[p]
          /\ repair' = [repair EXCEPT ![p] = @ \ {q}]
          /\ lag' = IF q \notin roster[p] THEN [lag EXCEPT ![p][q] = 0] ELSE lag
          /\ UNCHANGED <<conn, signals, faults>>
       \/ /\ q \in roster[p] \ chan[p]
          /\ Offer(p, q) /\ Patient(p, q)
          /\ UNCHANGED repair
    /\ UNCHANGED <<chan, map, roster, server, room>>

\* sweepStuckConnections: the attempt failed, and is repaired at once.
Sweep(p, q) ==
    /\ conn[p][q] # "none"
    /\ conn' = [conn EXCEPT ![p][q] = "none"]
    /\ repair' = [repair EXCEPT ![p] = Scheduled(p, q)]
    /\ Patient(p, q)
    /\ UNCHANGED <<chan, map, roster, lag, signals, server, room>>

\* A link is lost at p; its other end finds out later (LinkMonitor, ICE).
LinkLost(p, q) ==
    /\ q \in chan[p]
    /\ IF p \in chan[q] THEN Fault("drops", MaxDrops) ELSE UNCHANGED faults
    /\ chan' = [chan EXCEPT ![p] = @ \ {q}]
    /\ map' = [map EXCEPT ![p] = @ \ {{p, q}}]
    /\ repair' = [repair EXCEPT ![p] = Scheduled(p, q)]
    /\ signals' = {s \in signals : {s.hop, s.at} # {p, q}}
    /\ UNCHANGED <<conn, roster, lag, server, room>>

\* Link-state advertisements reach p (module LinkState).
Converge(p) ==
    /\ map[p] # Links
    /\ map' = [map EXCEPT ![p] = Links]
    /\ UNCHANGED <<chan, conn, repair, roster, lag, signals, server, room, faults>>

\* 'roster' from the server, and pruneDepartedPeers.
Roster(p) ==
    /\ server /\ p \in room /\ roster[p] # room
    /\ roster' = [roster EXCEPT ![p] = room]
    /\ repair' = [repair EXCEPT ![p] = @ \cap room]
    /\ lag' = [lag EXCEPT ![p] = [q \in Peers |-> IF q \in repair[p] \ room THEN 0 ELSE @[q]]]
    /\ UNCHANGED <<chan, conn, map, signals, server, room, faults>>

-----------------------------------------------------------------------------
(* A signal arrives *)

\* Forwarded to the target over p's own channel, or dropped.
Forward(s) ==
    /\ s.at \notin {None, s.to}
    /\ signals' = (signals \ {s}) \cup
                      (IF Linked(s.at, s.to) THEN {[s EXCEPT !.hop = s.at, !.at = s.to]} ELSE {})
    /\ UNCHANGED <<peerVars, server, room, faults>>

\* By the mesh a description no newer than the last one applied is refused.
Refused(s) == s.at # None /\ s.stale

Refuse(s) ==
    /\ s.at = s.to /\ Refused(s)
    /\ signals' = signals \ {s}
    /\ UNCHANGED <<peerVars, server, room, faults>>

\* What is under way once s is applied.
After(s) ==
    {IF x.from = s.from /\ x.to = s.to /\ x.round <= s.round /\ s.at # None
     THEN [x EXCEPT !.stale = TRUE] ELSE x : x \in signals \ {s}}

\* Slip: both ends insist on their own offer.
BothInsist(p, q) == conn[p][q] = "offering"

\* Of two offers that cross, the higher identity ignores the other's.
Ignored(p, q) == conn[p][q] = "offering" /\ p > q

Arrived(s) == s.at \in {None, s.to} /\ ~Refused(s)

HearOffer(s) ==
    /\ Arrived(s) /\ s.kind = "offer"
    /\ IF Ignored(s.to, s.from)
       THEN signals' = After(s) /\ UNCHANGED <<conn, lag>>
       ELSE /\ RoomToSend(After(s), s.to, s.from)
            /\ signals' = Signal(After(s), s.to, s.from, "answer", s.late)
            /\ lag' = Counted(lag, s.to)
            /\ conn' = [conn EXCEPT ![s.to][s.from] =
                           IF s.from \in chan[s.to] THEN "none" ELSE "waiting"]
    /\ UNCHANGED <<chan, repair, map, roster, server, room, faults>>

\* The answer to the offer that is out brings the link up at both ends.
HearAnswer(s) ==
    LET p == s.to  q == s.from
        up == ~s.late /\ conn[p][q] = "offering" /\ (conn[q][p] = "waiting" \/ p \in chan[q])
    IN  /\ Arrived(s) /\ s.kind = "answer"
        /\ signals' = After(s)
        /\ chan' = IF up THEN [chan EXCEPT ![p] = @ \cup {q}, ![q] = @ \cup {p}] ELSE chan
        /\ conn' = IF up THEN [conn EXCEPT ![p][q] = "none", ![q][p] = "none"]
                   ELSE IF conn[p][q] = "offering" THEN [conn EXCEPT ![p][q] = "waiting"]
                   ELSE conn
        /\ repair' = IF up THEN [repair EXCEPT ![p] = @ \ {q}, ![q] = @ \ {p}] ELSE repair
        /\ UNCHANGED <<map, roster, lag, server, room, faults>>

-----------------------------------------------------------------------------
(* Faults *)

\* p's page is loaded again: it starts from nothing and counts from 0.
Reload(p) ==
    /\ Fault("reloads", MaxReloads)
    /\ chan' = [chan EXCEPT ![p] = {}]
    /\ conn' = [conn EXCEPT ![p] = [q \in Peers |-> "none"]]
    /\ repair' = [repair EXCEPT ![p] = {}]
    /\ map' = [map EXCEPT ![p] = {}]
    /\ roster' = [roster EXCEPT ![p] = {}]
    /\ \E behind \in [Peers \ {p} -> 0..MaxLag] :
           lag' = [q \in Peers |-> IF q = p THEN [r \in Peers |-> 0]
                                   ELSE [lag[q] EXCEPT ![p] = behind[q]]]
    /\ signals' = {IF s.from = p \/ (s.to = p /\ s.kind = "answer")
                   THEN [s EXCEPT !.late = TRUE] ELSE s :
                       s \in {x \in signals : p \notin {x.hop, x.at}}}
    /\ room' = room \ {p}
    /\ UNCHANGED server

Register(p) ==
    /\ server /\ p \notin room
    /\ room' = room \cup {p}
    /\ UNCHANGED <<peerVars, signals, server, faults>>

\* The server is lost, with what was under way through it.
ServerDies ==
    /\ server /\ server' = FALSE
    /\ signals' = {s \in signals : s.at # None}
    /\ UNCHANGED <<peerVars, room, faults>>

Hear(s) == Forward(s) \/ Refuse(s) \/ HearOffer(s) \/ HearAnswer(s)

Next ==
    \/ \E p \in Peers : Converge(p) \/ Roster(p) \/ Reload(p) \/ Register(p)
    \/ \E p, q \in Peers : Dial(p, q) \/ Retry(p, q) \/ Sweep(p, q) \/ LinkLost(p, q)
    \/ \E s \in signals : Hear(s)
    \/ ServerDies

Spec == Init /\ [][Next]_vars

\* Timers fire, what is under way arrives, a dead channel is noticed.
Between(p, q) == \E s \in signals : s.from = p /\ s.to = q /\ Hear(s)
Notice(p, q) == p \notin chan[q] /\ LinkLost(p, q)

Fairness ==
    /\ \A p \in Peers : WF_vars(Converge(p)) /\ WF_vars(Roster(p)) /\ WF_vars(Register(p))
    /\ \A p, q \in Peers :
        /\ WF_vars(Dial(p, q)) /\ WF_vars(Retry(p, q)) /\ WF_vars(Sweep(p, q))
        /\ WF_vars(Between(p, q)) /\ WF_vars(Notice(p, q))

FairSpec == Spec /\ Fairness

-----------------------------------------------------------------------------
\* Every variable keeps its type (peer-signaling.ts:11-31, 83-88).
TypeOK ==
    /\ chan \in [Peers -> SUBSET Peers] /\ \A p \in Peers : p \notin chan[p]
    /\ conn \in [Peers -> [Peers -> {"none", "offering", "waiting"}]]
    /\ repair \in [Peers -> SUBSET Peers] /\ roster \in [Peers -> SUBSET Peers]
    /\ map \in [Peers -> SUBSET SUBSET Peers]
    /\ lag \in [Peers -> [Peers -> 0..MaxLag]]
    /\ signals \subseteq [from : Peers, to : Peers, kind : {"offer", "answer"},
                          hop : Peers \cup {None}, at : Peers \cup {None},
                          round : 1..MaxRounds, late : BOOLEAN, stale : BOOLEAN]
    /\ server \in BOOLEAN /\ room \subseteq Peers

Reachable(p, q) == p \in Near(Links, q)[Cardinality(Peers)]

Healed ==
    \A p, q \in Peers :
        {p, q} \in Required /\ p # q /\ q \in roster[p] /\ p \in roster[q]
            /\ ((server /\ {p, q} \subseteq room) \/ Reachable(p, q))
            => Linked(p, q)

=============================================================================
