------------------------------ MODULE RouteMap -------------------------------
(***************************************************************************)
(* The routes a peer derives from its link-state database: the adjacency   *)
(* both ends confirm, the next hops and the broadcast trees of             *)
(* core/topology/link-state.ts.  Peers are numbers because the code breaks *)
(* ties by comparing their identities.                                     *)
(*                                                                         *)
(* A database maps each origin it knows to the costs it advertises; a cost *)
(* of 0 stands for no link.  The code makes every cost at least 1.         *)
(***************************************************************************)
EXTENDS Naturals, FiniteSets

CONSTANT Peers

\* MCRouting assumes it of the instance.
PeersAssumption == Peers \subseteq Nat /\ IsFiniteSet(Peers)

Larger(x, y) == IF x > y THEN x ELSE y

\* buildAdjacency(): an edge that both ends advertise, at the larger cost.
Adjacency(db) ==
    [p \in Peers |-> [q \in Peers |->
        IF {p, q} \subseteq DOMAIN db /\ db[p][q] > 0 /\ db[q][p] > 0
        THEN Larger(db[p][q], db[q][p]) ELSE 0]]

Adjacent(adj, p) == {q \in Peers : adj[p][q] > 0}

-----------------------------------------------------------------------------
(* Dijkstra's loop, which the code has twice: recompute() labels a peer    *)
(* with the first hop toward it, getBroadcastChildren() with its parent.   *)

FirstHop(root, s, cur, q) == IF cur = root THEN q ELSE s.label[cur]

\* "hop": the first hop toward q; "parent": the peer q is reached from.
Label(kind, root, s, cur, q) ==
    IF kind = "hop" THEN FirstHop(root, s, cur, q) ELSE cur

Nearest(s) ==
    LET frontier == DOMAIN s.dist \ s.done
    IN  CHOOSE p \in frontier : \A q \in frontier :
            s.dist[p] < s.dist[q] \/ (s.dist[p] = s.dist[q] /\ p <= q)

\* Slip: a tie is left to whoever came first.
FirstWins(s, q, cost, label) == q \notin DOMAIN s.dist \/ cost < s.dist[q]

\* A neighbour is relabelled for a lower cost, or for a smaller label at the same.
Improves(s, q, cost, label) ==
    \/ q \notin DOMAIN s.dist
    \/ cost < s.dist[q]
    \/ cost = s.dist[q] /\ label < s.label[q]

Expanded(adj, root, s, kind) ==
    LET cur == Nearest(s)
        cost(q) == s.dist[cur] + adj[cur][q]
        better == {q \in Adjacent(adj, cur) \ s.done :
                      Improves(s, q, cost(q), Label(kind, root, s, cur, q))}
        known == DOMAIN s.dist \cup better
    IN  [dist |-> [q \in known |-> IF q \in better THEN cost(q) ELSE s.dist[q]],
         label |-> [q \in known |-> IF q \in better THEN Label(kind, root, s, cur, q) ELSE s.label[q]],
         done |-> s.done \cup {cur}]

Search(adj, root, kind) ==
    LET run[k \in 0..Cardinality(Peers)] ==
            IF k = 0
            THEN [dist |-> [p \in {root} |-> 0], label |-> [p \in {root} |-> root], done |-> {}]
            ELSE LET s == run[k - 1]
                 IN  IF DOMAIN s.dist = s.done THEN s ELSE Expanded(adj, root, s, kind)
    IN  run[Cardinality(Peers)]

-----------------------------------------------------------------------------
\* recompute(): cost and next hop of every peer that `me` can reach.
Routes(db, me) ==
    LET s == Search(Adjacency(db), me, "hop")
    IN  [q \in DOMAIN s.dist \ {me} |-> [nextHop |-> s.label[q], cost |-> s.dist[q]]]

\* getBroadcastChildren(origin) of `me`: {children}, or {} for null, when the
\* origin has no edge in the map.
BroadcastChildren(db, me, origin) ==
    LET adj == Adjacency(db)
        s == Search(adj, origin, "parent")
    IN  IF origin \notin DOMAIN db \/ Adjacent(adj, origin) = {} THEN {}
        ELSE {{q \in DOMAIN s.dist \ {origin} : s.label[q] = me}}
=============================================================================
