------------------------------ MODULE Broadcast ------------------------------
(***************************************************************************)
(* One application broadcast through the sparse mesh of a TIER1 room:      *)
(* sendP2PPacket() at its origin, routeIncomingPacket() everywhere else    *)
(* (core/network/topology.service.ts), each peer forwarding by the routes  *)
(* it derived from its own database (RouteMap).                            *)
(*                                                                         *)
(* The room is as LinkState leaves it: either every peer holds every       *)
(* advertisement, or the room is young and each holds its own only.  Links *)
(* may fail while the packet travels, and before the databases say so.     *)
(***************************************************************************)
EXTENDS RouteMap

CONSTANTS
    Costs,     \* what a peer may advertise for a link
    Ttl,       \* DEFAULT_TTL
    MaxDown    \* bound: links that fail

\* MCRouting assumes it of the instance.
BroadcastAssumption ==
    PeersAssumption /\ Costs \subseteq Nat \ {0} /\ Ttl \in Nat \ {0} /\ MaxDown \in Nat

VARIABLES
    claims,    \* claims[p][q]: the cost p measures on its link to q; 0: none
    warm,      \* the databases have converged
    route,     \* route[p]: the routes of p (cached until its database changes)
    children,  \* children[p]: p's children in the tree of the origin
    origin,
    down,      \* links that have failed
    started,
    wire,      \* copies under way: [from, to, ttl]
    seen,      \* peers that have taken the packet
    copies     \* history: copies[p], how many copies were sent to p

tables == <<claims, warm, route, children, origin>>
vars == <<tables, down, started, wire, seen, copies>>

-----------------------------------------------------------------------------
Database(p) == [o \in (IF warm THEN Peers ELSE {p}) |-> claims[o]]

Mesh == Adjacency([o \in Peers |-> claims[o]])

\* getConnectedPeers()
Connected(p) == {q \in Adjacent(Mesh, p) : {p, q} \notin down}

\* A copy leaves p for each of the targets it is connected to.
Send(p, targets, ttl) ==
    {[from |-> p, to |-> q, ttl |-> ttl] : q \in targets \cap Connected(p)}

Count(out) == [q \in Peers |-> copies[q] + Cardinality({m \in out : m.to = q})]

-----------------------------------------------------------------------------
Targets(planned) == IF planned \cap Connected(origin) = {} THEN Peers ELSE planned

\* sendP2PPacket() without a target: to the children, or to all neighbours when
\* there is no tree; again to all neighbours if that reached none.
Originate ==
    LET out == Send(origin, Targets(UNION children[origin]), Ttl)
    IN  /\ ~started
        /\ started' = TRUE
        /\ seen' = {origin}
        /\ wire' = out
        /\ copies' = Count(out)
        /\ UNCHANGED <<tables, down>>

\* The neighbour through which p would reach the origin, or no opinion.
OnReversePath(p, from) ==
    origin \in DOMAIN route[p] => route[p][origin].nextHop = from

\* Reverse-path forwarding: only what came by the reverse path goes on, to the
\* children in the origin's tree, or without one to every other neighbour.
Forwarded(p, m) ==
    IF OnReversePath(p, m.from) /\ m.ttl > 1
    THEN Send(p, (IF children[p] = {} THEN Peers ELSE UNION children[p]) \ {m.from, origin}, m.ttl - 1)
    ELSE {}

\* routeIncomingPacket(): what was seen is dropped, the rest delivered, then
\* forwarded.
Drop(m) ==
    /\ m \in wire
    /\ m.to \in seen
    /\ wire' = wire \ {m}
    /\ UNCHANGED <<tables, down, started, seen, copies>>

Deliver(m) ==
    /\ m \in wire
    /\ m.to \notin seen
    /\ seen' = seen \cup {m.to}
    /\ wire' = (wire \ {m}) \cup Forwarded(m.to, m)
    /\ copies' = Count(Forwarded(m.to, m))
    /\ UNCHANGED <<tables, down, started>>

\* A channel closes, with what is under way on it (before or while the packet
\* travels: later nothing depends on it).
LinkDown(p, q) ==
    /\ q \in Connected(p)
    /\ started => wire # {}
    /\ Cardinality(down) < MaxDown
    /\ down' = down \cup {{p, q}}
    /\ wire' = {m \in wire : {m.from, m.to} # {p, q}}
    /\ UNCHANGED <<tables, started, seen, copies>>

-----------------------------------------------------------------------------
\* The end with the larger identity may measure one more than the other.
Measured(cost, skew) ==
    [p \in Peers |-> [q \in Peers |->
        IF p = q \/ cost[{p, q}] = 0 THEN 0
        ELSE cost[{p, q}] + (IF p > q THEN skew ELSE 0)]]

Init ==
    /\ \E cost \in [{{p, q} : p, q \in Peers} -> Costs \cup {0}], skew \in {0, 1} :
          /\ \A p \in Peers : cost[{p}] = 0
          /\ claims = Measured(cost, skew)
          /\ \/ warm = TRUE
             \* In a young room costs play no part.
             \/ warm = FALSE /\ skew = 0 /\ \A l \in DOMAIN cost : cost[l] <= 1
    /\ origin \in Peers
    /\ route = [p \in Peers |-> Routes(Database(p), p)]
    /\ children = [p \in Peers |-> BroadcastChildren(Database(p), p, origin)]
    /\ down = {}
    /\ started = FALSE
    /\ wire = {}
    /\ seen = {}
    /\ copies = [p \in Peers |-> 0]

Next ==
    \/ Originate
    \/ \E m \in wire : Drop(m) \/ Deliver(m)
    \/ \E p, q \in Peers : LinkDown(p, q)

Spec == Init /\ [][Next]_vars /\ WF_vars(Originate) /\ WF_vars(\E m \in wire : Drop(m) \/ Deliver(m))

-----------------------------------------------------------------------------
TypeOK ==
    /\ \A p \in Peers : Cardinality(children[p]) <= 1 /\ \A c \in children[p] : c \subseteq Peers \ {p}
    /\ seen \subseteq Peers /\ (started <=> origin \in seen)
    /\ \A m \in wire : m.ttl \in 1..Ttl /\ m.to \in Connected(m.from)
    /\ \A p \in Peers : copies[p] \in 0..Cardinality(Peers)

\* The cost of a route is the least there is, and its next hop the smallest of
\* those on a cheapest path: a fact of the map alone, whichever peer computes it.
RoutesAreShortest ==
    warm => \A p, q \in Peers :
        LET cost(r) == IF r = q THEN 0 ELSE route[r][q].cost
            via == {r \in Adjacent(Mesh, p) : r = q \/ q \in DOMAIN route[r]}
        IN  p # q =>
            IF q \in DOMAIN route[p]
            THEN /\ \A r \in via : route[p][q].cost <= Mesh[p][r] + cost(r)
                 /\ route[p][q].nextHop \in via
                 /\ \A r \in via : route[p][q].cost = Mesh[p][r] + cost(r) => route[p][q].nextHop <= r
                 /\ LET h == route[p][q].nextHop IN route[p][q].cost = Mesh[p][h] + cost(h)
            ELSE via = {}

\* What each peer works out alone fits together: p is a child of u exactly if u
\* is the neighbour p accepts the origin's broadcasts from.
TreesAgree ==
    warm => \A p \in Peers \ {origin}, u \in Peers :
        (p \in UNION children[u]) <=>
            (origin \in DOMAIN route[p] /\ route[p][origin].nextHop = u)

\* In a converged room every peer is sent the packet once: no copy is wasted.
OneCopy == (warm /\ down = {}) => \A p \in Peers : copies[p] <= (IF p = origin THEN 0 ELSE 1)

\* "A tree computed from a stale map must never silently swallow a broadcast at
\* its source": whoever has a live link when it sends sends something.
NotSwallowed == [][(started' /\ ~started /\ Connected(origin) # {}) => wire' # {}]_vars

Reached(S) == origin \in S /\ \A p \in S : Adjacent(Mesh, p) \subseteq S
=============================================================================
