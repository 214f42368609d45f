------------------------------ MODULE LinkState ------------------------------
(***************************************************************************)
(* The link-state database of core/topology/link-state.ts, one per peer,   *)
(* and the flooding, the database push and the routing loop of             *)
(* core/network/topology.service.ts that keep the copies equal.            *)
(*                                                                         *)
(* A link is a pair of peers.  Each end learns in a step of its own that   *)
(* its data channels opened or closed; what is under way on a link that    *)
(* closes is gone.  A link has two channels, one of them unordered, so no  *)
(* order is assumed; the control channel gives up after five retransmits,  *)
(* so an advertisement may be lost on a live link as well.  A reload keeps *)
(* the identity of a peer and forgets everything else.                     *)
(*                                                                         *)
(* Abstracted: costs (every change of a neighbour set counts as one), the  *)
(* splitting of a push into messages, the limits on the size of databases  *)
(* and advertisements, which no room of the modelled size reaches.         *)
(***************************************************************************)
EXTENDS Naturals, FiniteSets

CONSTANTS
    Peers,
    Links,        \* the pairs of peers that may have a link
    Rooms,        \* the sets of links of the settled rooms a behaviour starts in
    Ttl,          \* defaultTtl
    MaxSeq,       \* bound: sequence numbers
    MaxEvents     \* bound: links that come or go, reloads, losses, expiries

\* What a room is; MCRouting assumes it.
RoomAssumption ==
    /\ IsFiniteSet(Peers)
    /\ Links \subseteq {{p, q} : p, q \in Peers}
    /\ \A l \in Links : Cardinality(l) = 2
    /\ Rooms \subseteq SUBSET Links
    /\ Ttl \in Nat \ {0, 1}
    /\ MaxSeq \in Nat /\ Cardinality(Peers) <= MaxSeq    \* for the settled rooms
    /\ MaxEvents \in Nat

VARIABLES
    link,     \* the links whose data channels are open
    node,     \* node[p]: what peer p keeps
    wire,     \* the advertisements and pushes under way
    old,      \* the advertisements older than maxLsaAgeMs
    events,   \* bookkeeping for the bound MaxEvents
    reloaded, \* history: the peers that were reloaded
    excuses   \* history: why the databases may be left to differ

history == <<old, events, reloaded, excuses>>
vars == <<link, node, wire, history>>

(* An advertisement: [origin, seq, neighbours].                            *)
(* A packet: [from, to, lsas, ttl], one advertisement or a whole database. *)
(* What a peer keeps, node[p]:                                             *)
(*   conn         getConnectedPeers(), as far as p has noticed             *)
(*   lsdb         the database: at most one advertisement of each origin   *)
(*   mySeq, mine  the number and the neighbours it advertised or owes      *)
(*   pendingEmit  an emission is owed                                      *)
(*   cooling      the last one may be less than minEmitIntervalMs ago      *)

-----------------------------------------------------------------------------
Neighbours(p) == {q \in Peers : {p, q} \in link}

\* p and q are joined by a path of links.
Joined(p, q, links) ==
    \A S \in SUBSET Peers :
        (p \in S /\ \A l \in links : l \cap S # {} => l \subseteq S) => q \in S

Entry(db, o) == {e \in db : e.origin = o}

Put(db, e) == (db \ Entry(db, e.origin)) \cup {e}

Advertisement(p, seq, nbrs) == [origin |-> p, seq |-> seq, neighbours |-> nbrs]

NewNode == [conn |-> {}, lsdb |-> {}, mySeq |-> 0, mine |-> {},
            pendingEmit |-> FALSE, cooling |-> FALSE]

Suppressed(n) == [n EXCEPT !.mine = n.conn, !.pendingEmit = TRUE]

\* Slip: the number is used again.
EmittedAgain(p, n) ==
    [n EXCEPT !.mine = n.conn, !.pendingEmit = FALSE, !.cooling = TRUE,
              !.lsdb = Put(@, Advertisement(p, n.mySeq, n.conn))]
Emitted(p, n) ==
    [n EXCEPT !.mine = n.conn, !.pendingEmit = FALSE, !.cooling = TRUE, !.mySeq = @ + 1,
              !.lsdb = Put(@, Advertisement(p, n.mySeq + 1, n.conn))]

\* updateLocalNeighbours(): nothing to say, too early to say it, or said under
\* a new number and noted in the own database.
Advertised(p, n) ==
    IF n.conn = n.mine /\ ~n.pendingEmit THEN n
    ELSE IF n.cooling THEN Suppressed(n) ELSE Emitted(p, n)

\* floodLSA() for each of the advertisements: to every neighbour but the one
\* it came from, as far as the channel is open.
Flood(p, n, lsas, ttl, except) ==
    {[from |-> p, to |-> q, lsas |-> {e}, ttl |-> ttl] :
        e \in lsas, q \in (n.conn \cap Neighbours(p)) \ except}

\* What advertiseNeighbours() of peer p in state n adds to its database, and sends.
News(p, n) == Advertised(p, n).lsdb \ n.lsdb

\* The bound on sequence numbers.
Capped(n) == n.mySeq >= MaxSeq

\* handleLSA() for the advertisements of a message, in any order: they have
\* different origins.  One's own is not adopted; its number is, when it is not
\* below the present one: the peer was reloaded, or an echo came back.
Fresher(n, e) == \A h \in Entry(n.lsdb, e.origin) : e.seq > h.seq

\* Slip: one's own advertisement is only a replay.
IgnoreOwn(p, n, lsas) == {}
Recover(p, n, lsas) == {e \in Entry(lsas, p) : e.seq >= n.mySeq}

Accepted(p, n, lsas) == {e \in lsas : e.origin # p /\ Fresher(n, e)}

Handled(p, n, lsas) ==
    LET news == Accepted(p, n, lsas)
        db == {h \in n.lsdb : Entry(news, h.origin) = {}} \cup news
    IN  IF Recover(p, n, lsas) = {} THEN [n EXCEPT !.lsdb = db]
        ELSE [n EXCEPT !.lsdb = db, !.pendingEmit = TRUE,
                       !.mySeq = (CHOOSE e \in Recover(p, n, lsas) : TRUE).seq + 1]

-----------------------------------------------------------------------------
Event == events < MaxEvents /\ events' = events + 1

\* The channels of a new connection open.  It replaces what an end may still
\* have of the connection before: that end then never sees 'disconnected'.
LinkUp(l) ==
    /\ l \notin link
    /\ Event
    /\ link' = link \cup {l}
    /\ node' = [p \in Peers |-> IF p \in l THEN [node[p] EXCEPT !.conn = @ \ l] ELSE node[p]]
    /\ UNCHANGED <<wire, old, reloaded, excuses>>

LinkDown(l) ==
    /\ l \in link
    /\ Event
    /\ link' = link \ {l}
    /\ wire' = {m \in wire : {m.from, m.to} # l}
    /\ UNCHANGED <<node, old, reloaded, excuses>>

\* The handlers below run some time after the last emission of the peer:
\* minEmitIntervalMs may have passed or not.
Later(n) == {n, [n EXCEPT !.cooling = FALSE]}

\* advertiseNeighbours() at the end of a handler that left peer p in state n,
\* after sending `before`.
Advertise(p, n, before) ==
    /\ ~Capped(n)
    /\ node' = [node EXCEPT ![p] = Advertised(p, n)]
    /\ wire' = wire \cup before \cup Flood(p, n, News(p, n), Ttl - 1, {})
    /\ UNCHANGED <<link, history>>

\* The 'connected' callback once a channel is open: push the database to the
\* peer, then advertise.  (It comes once more when the second channel opens,
\* and only repeats the push.)
Connected(p, q) ==
    /\ q \in Neighbours(p) \ node[p].conn
    /\ LET push == {[from |-> p, to |-> q, lsas |-> db, ttl |-> Ttl] : db \in {node[p].lsdb} \ {{}}}
       IN  \E n \in Later([node[p] EXCEPT !.conn = @ \cup {q}]) : Advertise(p, n, push)

Disconnected(p, q) ==
    /\ q \in node[p].conn \ Neighbours(p)
    /\ \E n \in Later([node[p] EXCEPT !.conn = @ \ {q}]) : Advertise(p, n, {})

\* The routing loop: ageOut(), then advertiseNeighbours().  TickSoon: the last
\* emission was less than minEmitIntervalMs ago; the interval of the loop is
\* longer, so a Tick comes in the end.
Aged(p) == [node[p] EXCEPT !.lsdb = Entry(@, p) \cup (@ \ old)]

TickSoon(p) == Advertise(p, Aged(p), {})
Tick(p) == Advertise(p, [Aged(p) EXCEPT !.cooling = FALSE], {})

\* A link:lsa or link:lsdb_sync packet: what is new is flooded on.
Receive(m) ==
    LET p == m.to
        n == node[p]
        onward == IF m.ttl > 1 THEN Accepted(p, n, m.lsas) ELSE {}
    IN  /\ m \in wire
        /\ node' = [node EXCEPT ![p] = Handled(p, n, m.lsas)]
        /\ wire' = (wire \ {m}) \cup Flood(p, n, onward, m.ttl - 1, {m.from})
        /\ UNCHANGED <<link, history>>

\* The control channel gives up on a packet.
Lose(m) ==
    /\ m \in wire
    /\ Event
    /\ wire' = wire \ {m}
    /\ excuses' = excuses \cup {"lost"}
    /\ UNCHANGED <<link, node, old, reloaded>>

\* An advertisement reaches maxLsaAgeMs: peers drop it at their next tick.
Expire(e) ==
    /\ \E p \in Peers : e \in node[p].lsdb
    /\ e \notin old
    /\ Event
    /\ old' = old \cup {e}
    /\ excuses' = excuses \cup {"expired"}
    /\ UNCHANGED <<link, node, wire, reloaded>>

\* The page of p is reloaded: its channels close, reset() forgets the rest.
\* "unknown": some peer did not hold the last advertisement of p.
Restart(p) ==
    /\ Event
    /\ link' = {l \in link : p \notin l}
    /\ wire' = {m \in wire : p \notin {m.from, m.to}}
    /\ node' = [node EXCEPT ![p] = NewNode]
    /\ reloaded' = reloaded \cup {p}
    /\ excuses' = IF \A q \in Peers : Entry(node[q].lsdb, p) = Entry(node[p].lsdb, p)
                  THEN excuses ELSE excuses \cup {"unknown"}
    /\ UNCHANGED old

-----------------------------------------------------------------------------
\* A room that has settled: each peer advertised each link as it came up.
Settled(p) ==
    LET seen == {q \in Peers : Neighbours(q) # {} /\ Joined(p, q, link)}
    IN  [NewNode EXCEPT
            !.conn = Neighbours(p), !.mine = Neighbours(p), !.mySeq = Cardinality(Neighbours(p)),
            !.lsdb = {Advertisement(q, Cardinality(Neighbours(q)), Neighbours(q)) : q \in seen}]

Init ==
    /\ link \in Rooms
    /\ node = [p \in Peers |-> Settled(p)]
    /\ wire = {}
    /\ old = {}
    /\ events = 0
    /\ reloaded = {}
    /\ excuses = {}

Next ==
    \/ \E p, q \in Peers : Connected(p, q) \/ Disconnected(p, q)
    \/ \E l \in Links : LinkUp(l) \/ LinkDown(l)
    \/ \E p \in Peers : Tick(p) \/ TickSoon(p) \/ Restart(p)
    \/ \E m \in wire : Receive(m) \/ Lose(m)
    \/ \E p \in Peers : \E e \in node[p].lsdb : Expire(e)

Spec == Init /\ [][Next]_vars

\* Callbacks and the routing loop run, time passes, and what a channel does
\* not give up on arrives.
FairSpec ==
    /\ Spec
    /\ \A p \in Peers : WF_vars(Tick(p))
    /\ \A p, q \in Peers : WF_vars(Connected(p, q)) /\ WF_vars(Disconnected(p, q))
    /\ \A p, q \in Peers : WF_vars(\E m \in wire : m.from = p /\ m.to = q /\ Receive(m))

-----------------------------------------------------------------------------
TypeOK ==
    /\ link \subseteq Links
    /\ \A p \in Peers :
          /\ node[p].conn \subseteq Peers \ {p} /\ node[p].mine \subseteq Peers \ {p}
          /\ node[p].mySeq \in 0..(MaxSeq + 1)
          /\ node[p].pendingEmit \in BOOLEAN /\ node[p].cooling \in BOOLEAN
          /\ \A o \in Peers : Cardinality(Entry(node[p].lsdb, o)) <= 1
          /\ \A e \in node[p].lsdb : e.seq \in 1..MaxSeq /\ e.neighbours \subseteq Peers \ {e.origin}
    /\ \A m \in wire : {m.from, m.to} \in link /\ m.ttl \in 1..Ttl /\ m.lsas # {}
    /\ excuses \subseteq {"lost", "expired", "unknown"}

\* "Suppressed changes are not lost": unless an emission is owed, the last
\* advertisement of a peer names the neighbours it last noted, under its present
\* number, across rate limiting, flapping links and recovered numbers.
NothingUnsaid ==
    \A p \in Peers :
        LET n == node[p] IN
        ~n.pendingEmit =>
            Entry(n.lsdb, p) = (IF n.mySeq = 0 THEN {} ELSE {Advertisement(p, n.mySeq, n.mine)})

\* The advertisements in databases and under way.
Advertisements ==
    (UNION {node[p].lsdb : p \in Peers}) \cup (UNION {m.lsas : m \in wire})

\* Until a peer is reloaded its sequence numbers never name two different
\* neighbour sets, wherever in the room the advertisements are.
Unambiguous ==
    \A e, f \in Advertisements :
        (e.origin \notin reloaded /\ e.origin = f.origin /\ e.seq = f.seq) => e = f

\* A number names one neighbour set, whatever copies are about, and a suppressed
\* change is owed, not lost.
OneMeaning == TypeOK /\ Unambiguous /\ NothingUnsaid

\* Peers joined by a path of links hold each other's present neighbours.
Agreed ==
    \A p, q \in Peers :
        p # q /\ Joined(p, q, link) => \E e \in Entry(node[p].lsdb, q) : e.neighbours = Neighbours(q)

BelowBound == \A p \in Peers : ~Capped(node[p])
=============================================================================
