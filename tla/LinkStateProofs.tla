--------------------------- MODULE LinkStateProofs ---------------------------
(***************************************************************************)
(* Proofs about the link-state databases: for any peers, links, lifetimes  *)
(* of packets and any losses, reorderings, flapping links and reloads, a   *)
(* sequence number names one neighbour set, and no change of the           *)
(* neighbours is forgotten.                                                *)
(*                                                                         *)
(* The first needs Highest: no copy about of what a peer advertised since  *)
(* it was loaded carries a number beyond the one the peer itself is at.    *)
(***************************************************************************)
EXTENDS LinkState, FiniteSetTheorems, TLAPS

Lsa == [origin : Peers, seq : 1..MaxSeq, neighbours : SUBSET Peers]
Packet == [from : Peers, to : Peers, lsas : SUBSET Lsa, ttl : 1..Ttl]
Node == [conn : SUBSET Peers, lsdb : SUBSET Lsa, mySeq : 0..(MaxSeq + 1),
         mine : SUBSET Peers, pendingEmit : BOOLEAN, cooling : BOOLEAN]

\* Advertisements of different origins, none of a peer that has a link to itself.
Database(S) ==
    /\ S \subseteq Lsa
    /\ \A e \in S : e.origin \notin e.neighbours
    /\ \A e, f \in S : e.origin = f.origin => e = f

\* The node n of the peer p has said what it should have.
Said(p, n) ==
    ~n.pendingEmit =>
        Entry(n.lsdb, p) = (IF n.mySeq = 0 THEN {} ELSE {Advertisement(p, n.mySeq, n.mine)})

Good(p, n) ==
    /\ n \in Node /\ p \notin n.conn /\ p \notin n.mine
    /\ Database(n.lsdb)
    /\ Said(p, n)

Nodes == node \in [Peers -> Node] /\ \A p \in Peers : Good(p, node[p])

Wire ==
    /\ wire \subseteq Packet
    /\ \A m \in wire : {m.from, m.to} \in link /\ m.lsas # {} /\ Database(m.lsas)

Highest ==
    \A e \in Advertisements : e.origin \notin reloaded => e.seq <= node[e.origin].mySeq

IInv ==
    /\ link \subseteq Links /\ excuses \subseteq {"lost", "expired", "unknown"}
    /\ Nodes /\ Wire /\ Unambiguous /\ Highest

-----------------------------------------------------------------------------
(* Links and databases *)

\* A peer has no link to itself.
LEMMA LinksJoinTwo ==
  ASSUME RoomAssumption, link \subseteq Links, NEW p \in Peers
  PROVE  p \notin Neighbours(p) /\ Neighbours(p) \subseteq Peers
<1>1. ASSUME {p, p} \in link
      PROVE  FALSE
  <2>1. Cardinality({p, p}) = 2
    BY <1>1 DEF RoomAssumption
  <2>2. Cardinality({p}) = 1 /\ {p, p} = {p}
    BY FS_Singleton
  <2> QED
    BY <2>1, <2>2
<1> QED
  BY <1>1 DEF Neighbours

LEMMA AtMostOneEntry ==
  ASSUME NEW S, Database(S), NEW o
  PROVE  Cardinality(Entry(S, o)) <= 1
<1>1. CASE Entry(S, o) = {}
  BY <1>1, FS_EmptySet
<1>2. CASE Entry(S, o) # {}
  <2>1. PICK e \in Entry(S, o) : TRUE
    BY <1>2
  <2>2. Entry(S, o) = {e}
    BY <2>1 DEF Entry, Database
  <2>3. Cardinality({e}) = 1
    BY FS_Singleton
  <2> QED
    BY <2>2, <2>3
<1> QED
  BY <1>1, <1>2

LEMMA SubDatabase ==
  ASSUME NEW S, Database(S), NEW T \in SUBSET S
  PROVE  Database(T)
BY DEF Database

\* What advertiseNeighbours() leaves of the node n.
LEMMA AdvertisedGood ==
  ASSUME RoomAssumption, NEW p \in Peers, NEW n, Good(p, n), ~Capped(n)
  PROVE  LET a == Advertisement(p, n.mySeq + 1, n.conn)
             t == Advertised(p, n)
         IN  /\ Good(p, t) /\ a \in Lsa /\ a.origin \notin a.neighbours
             /\ t.mySeq >= n.mySeq
             /\ t.lsdb \subseteq n.lsdb \cup {a}
             /\ News(p, n) \subseteq {a}
             /\ News(p, n) # {} => t.mySeq = n.mySeq + 1
             /\ t.lsdb \subseteq n.lsdb \/ t.mySeq = n.mySeq + 1
<1> DEFINE a == Advertisement(p, n.mySeq + 1, n.conn)
           t == Advertised(p, n)
<1>1. n.mySeq \in 0..(MaxSeq + 1) /\ n.mySeq < MaxSeq /\ MaxSeq \in Nat
  BY DEF Good, Node, Capped, RoomAssumption
<1>2. /\ a \in Lsa /\ a.origin = p /\ a.seq = n.mySeq + 1 /\ a.neighbours = n.conn
      /\ p \notin n.conn
  BY <1>1 DEF Advertisement, Lsa, Good, Node
<1>3. CASE n.conn = n.mine /\ ~n.pendingEmit
  <2>1. t = n
    BY <1>3 DEF Advertised
  <2> QED
    BY <1>1, <1>2, <2>1 DEF News
<1>4. CASE ~(n.conn = n.mine /\ ~n.pendingEmit) /\ n.cooling
  <2>1. t = [n EXCEPT !.mine = n.conn, !.pendingEmit = TRUE]
    BY <1>4 DEF Advertised, Suppressed
  <2>2. /\ t \in Node /\ t.conn = n.conn /\ t.mine = n.conn /\ t.lsdb = n.lsdb
        /\ t.mySeq = n.mySeq /\ t.pendingEmit = TRUE
    BY <2>1 DEF Good, Node
  <2> HIDE DEF t
  <2>3. Good(p, t)
    BY <2>2 DEF Good, Said
  <2> QED
    BY <1>1, <1>2, <2>2, <2>3 DEF News, t
<1>5. CASE ~(n.conn = n.mine /\ ~n.pendingEmit) /\ ~n.cooling
  <2> DEFINE db == Put(n.lsdb, a)
             seq == n.mySeq + 1
  <2>1. db = (n.lsdb \ {e \in n.lsdb : e.origin = p}) \cup {a}
    BY <1>2 DEF Put, Entry
  <2>2. Database(db) /\ Entry(db, p) = {a}
    BY <1>2, <2>1 DEF Database, Good, Entry
  <2>3. db \in SUBSET Lsa /\ seq \in 0..(MaxSeq + 1) /\ seq # 0
    BY <1>1, <2>2 DEF Database
  <2>4. t = [n EXCEPT !.mine = n.conn, !.pendingEmit = FALSE, !.cooling = TRUE,
                      !.mySeq = seq, !.lsdb = db]
    BY <1>5 DEF Advertised, Emitted, Good, Node
  <2> HIDE DEF db
  <2>5. /\ t \in Node /\ t.conn = n.conn /\ t.mine = n.conn /\ t.lsdb = db
        /\ t.mySeq = seq
    BY <2>3, <2>4 DEF Good, Node
  <2> HIDE DEF t
  <2>6. Good(p, t)
    BY <1>2, <2>2, <2>3, <2>5 DEF Good, Said, Advertisement
  <2> QED
    BY <1>1, <1>2, <2>1, <2>5, <2>6 DEF News, t
<1> QED
  BY <1>3, <1>4, <1>5

\* What handleLSA() leaves of it.
LEMMA HandledGood ==
  ASSUME RoomAssumption, NEW p \in Peers, NEW n, Good(p, n), NEW S, Database(S)
  PROVE  LET t == Handled(p, n, S)
         IN  Good(p, t) /\ t.mySeq >= n.mySeq /\ t.lsdb \subseteq n.lsdb \cup S
<1> DEFINE t == Handled(p, n, S)
           news == Accepted(p, n, S)
           db == {h \in n.lsdb : Entry(news, h.origin) = {}} \cup news
<1>1. news \subseteq S /\ \A e \in news : e.origin # p
  BY DEF Accepted
<1> HIDE DEF news
<1>2. db \subseteq n.lsdb \cup S
  BY <1>1
<1>3. Database(db) /\ Entry(db, p) = Entry(n.lsdb, p)
  BY <1>1 DEF Database, Good, Entry
<1>4. /\ n.mySeq \in 0..(MaxSeq + 1) /\ MaxSeq \in Nat /\ db \in SUBSET Lsa
  BY <1>3 DEF Good, Node, RoomAssumption, Database
<1> HIDE DEF db
<1>5. CASE Recover(p, n, S) = {}
  <2>1. t = [n EXCEPT !.lsdb = db]
    BY <1>5 DEF Handled, db, news
  <2>2. /\ t \in Node /\ t.conn = n.conn /\ t.mine = n.mine /\ t.lsdb = db
        /\ t.mySeq = n.mySeq /\ t.pendingEmit = n.pendingEmit
    BY <1>4, <2>1 DEF Good, Node
  <2> HIDE DEF t
  <2>3. Good(p, t)
    BY <1>3, <2>2 DEF Good, Said
  <2> QED
    BY <1>2, <1>4, <2>2, <2>3 DEF t, db
<1>6. CASE Recover(p, n, S) # {}
  <2> DEFINE e == CHOOSE e \in Recover(p, n, S) : TRUE
             seq == e.seq + 1
  <2>1. e \in Recover(p, n, S)
    BY <1>6
  <2> HIDE DEF e
  <2>2. e \in Lsa /\ e.seq >= n.mySeq
    BY <2>1 DEF Recover, Entry, Database
  <2>3. seq \in 0..(MaxSeq + 1) /\ seq >= n.mySeq
    BY <1>4, <2>2 DEF Lsa
  <2>4. t = [n EXCEPT !.lsdb = db, !.pendingEmit = TRUE, !.mySeq = seq]
    BY <1>6 DEF Handled, db, news, e
  <2> HIDE DEF seq
  <2>5. /\ t \in Node /\ t.conn = n.conn /\ t.mine = n.mine /\ t.lsdb = db
        /\ t.mySeq = seq /\ t.pendingEmit = TRUE
    BY <1>4, <2>3, <2>4 DEF Good, Node
  <2> HIDE DEF t
  <2>6. Good(p, t)
    BY <1>3, <2>5 DEF Good, Said
  <2> QED
    BY <1>2, <2>3, <2>5, <2>6 DEF t, db
<1> QED
  BY <1>5, <1>6

-----------------------------------------------------------------------------
(* Steps *)

LEMMA AdvertisementsType ==
  ASSUME IInv
  PROVE  Advertisements \subseteq Lsa
<1> SUFFICES ASSUME NEW e \in Advertisements
             PROVE  e \in Lsa
  OBVIOUS
<1>1. CASE \E p \in Peers : e \in node[p].lsdb
  <2>1. PICK p \in Peers : e \in node[p].lsdb
    BY <1>1
  <2>2. Database(node[p].lsdb)
    BY DEF IInv, Nodes, Good
  <2> QED
    BY <2>1, <2>2 DEF Database
<1>2. CASE \E m \in wire : e \in m.lsas
  <2>1. PICK m \in wire : e \in m.lsas
    BY <1>2
  <2>2. Database(m.lsas)
    BY DEF IInv, Wire
  <2> QED
    BY <2>1, <2>2 DEF Database
<1> QED
  BY <1>1, <1>2 DEF Advertisements

\* What an advertisement of the peer p adds keeps numbers unambiguous: it is
\* beyond all that are about.
LEMMA NumbersStand ==
  ASSUME IInv, RoomAssumption, Nodes', reloaded \subseteq reloaded',
         \A q \in Peers \ reloaded' : node'[q].mySeq >= node[q].mySeq,
         NEW p \in Peers, NEW a \in Lsa,
         a.origin = p, a.seq = node[p].mySeq + 1,
         Advertisements' \subseteq
             Advertisements \cup (IF node'[p].mySeq = node[p].mySeq + 1 THEN {a} ELSE {})
  PROVE  Unambiguous' /\ Highest'
<1>1. /\ \A q \in Peers : node[q].mySeq \in Nat /\ node'[q].mySeq \in Nat
      /\ Advertisements \subseteq Lsa /\ \A e \in Lsa : e.seq \in Nat /\ e.origin \in Peers
  <2>1. \A q \in Peers : node[q] \in Node /\ node'[q] \in Node
    BY DEF IInv, Nodes
  <2>2. Advertisements \subseteq Lsa
    BY AdvertisementsType
  <2>3. MaxSeq \in Nat
    BY DEF RoomAssumption
  <2> QED
    BY <2>1, <2>2, <2>3 DEF Node, Lsa
<1>2. ASSUME NEW e \in Advertisements', NEW f \in Advertisements',
             e.origin \notin reloaded', e.origin = f.origin, e.seq = f.seq
      PROVE  e = f
  <2>1. CASE e \in Advertisements /\ f \in Advertisements
    BY <1>2, <2>1 DEF IInv, Unambiguous
  <2>2. CASE e \in Advertisements /\ f = a
    BY <1>1, <1>2, <2>2 DEF IInv, Highest
  <2>3. CASE f \in Advertisements /\ e = a
    BY <1>1, <1>2, <2>3 DEF IInv, Highest
  <2> QED
    BY <2>1, <2>2, <2>3
<1>3. ASSUME NEW e \in Advertisements', e.origin \notin reloaded'
      PROVE  e.seq <= node'[e.origin].mySeq
  <2>1. CASE e \in Advertisements
    <3>1. e.origin \in Peers \ reloaded' /\ e.seq <= node[e.origin].mySeq
      BY <1>1, <1>3, <2>1 DEF IInv, Highest
    <3> QED
      BY <1>1, <2>1, <3>1
  <2>2. CASE e = a /\ node'[p].mySeq = node[p].mySeq + 1
    BY <1>1, <2>2
  <2> QED
    BY <2>1, <2>2
<1> QED
  BY <1>2, <1>3 DEF Unambiguous, Highest

\* A step that brings no advertisement.
LEMMA NothingNew ==
  ASSUME IInv, RoomAssumption, Nodes', reloaded \subseteq reloaded',
         \A q \in Peers \ reloaded' : node'[q].mySeq >= node[q].mySeq,
         Advertisements' \subseteq Advertisements
  PROVE  Unambiguous' /\ Highest'
<1>1. Advertisements \subseteq Lsa
  BY AdvertisementsType
<1>2. /\ \A q \in Peers : node[q].mySeq \in Nat /\ node'[q].mySeq \in Nat
      /\ \A e \in Lsa : e.seq \in Nat /\ e.origin \in Peers
  BY DEF RoomAssumption, IInv, Nodes, Good, Node, Lsa
<1>3. Unambiguous'
  BY DEF IInv, Unambiguous
<1>4. ASSUME NEW e \in Advertisements', e.origin \notin reloaded'
      PROVE  e.seq <= node'[e.origin].mySeq
  <2>1. e.origin \in Peers \ reloaded' /\ e.seq <= node[e.origin].mySeq /\ e.seq \in Nat
    BY <1>1, <1>2, <1>4 DEF IInv, Highest
  <2> QED
    BY <1>2, <2>1
<1> QED
  BY <1>3, <1>4 DEF Highest

\* What floodLSA() sends.
LEMMA FloodWire ==
  ASSUME RoomAssumption, NEW p \in Peers, NEW n \in Node, NEW S, Database(S),
         NEW ttl \in 1..Ttl, NEW except
  PROVE  /\ Flood(p, n, S, ttl, except) \subseteq Packet
         /\ \A m \in Flood(p, n, S, ttl, except) :
               /\ {m.from, m.to} \in link /\ m.lsas # {} /\ Database(m.lsas)
               /\ m.lsas \subseteq S
<1> SUFFICES ASSUME NEW m \in Flood(p, n, S, ttl, except)
             PROVE  /\ m \in Packet
                    /\ {m.from, m.to} \in link /\ m.lsas # {} /\ Database(m.lsas)
                    /\ m.lsas \subseteq S
  OBVIOUS
<1>1. PICK e \in S, q \in (n.conn \cap Neighbours(p)) \ except :
         m = [from |-> p, to |-> q, lsas |-> {e}, ttl |-> ttl]
  BY DEF Flood
<1>2. Database({e}) /\ {e} \in SUBSET Lsa
  BY DEF Database
<1>3. q \in Peers /\ {p, q} \in link
  BY DEF Neighbours
<1> QED
  BY <1>1, <1>2, <1>3 DEF Packet

LEMMA AdvertiseStep ==
  ASSUME RoomAssumption, IInv, NEW p \in Peers, NEW n, Good(p, n),
         n.mySeq = node[p].mySeq, n.lsdb \subseteq node[p].lsdb,
         NEW before, before \subseteq Packet,
         \A m \in before : /\ {m.from, m.to} \in link /\ m.lsas # {} /\ Database(m.lsas)
                           /\ m.lsas \subseteq Advertisements,
         Advertise(p, n, before)
  PROVE  IInv'
<1> DEFINE a == Advertisement(p, n.mySeq + 1, n.conn)
           t == Advertised(p, n)
           sent == Flood(p, n, News(p, n), Ttl - 1, {})
<1>1. /\ ~Capped(n) /\ node' = [node EXCEPT ![p] = t]
      /\ wire' = wire \cup before \cup sent
      /\ UNCHANGED <<link, old, events, reloaded, excuses>>
  BY DEF Advertise, history
<1>2. /\ Good(p, t) /\ a \in Lsa /\ a.origin \notin a.neighbours
      /\ t.mySeq >= n.mySeq /\ t.lsdb \subseteq n.lsdb \cup {a} /\ News(p, n) \subseteq {a}
      /\ News(p, n) # {} => t.mySeq = n.mySeq + 1
      /\ t.lsdb \subseteq n.lsdb \/ t.mySeq = n.mySeq + 1
  BY <1>1, AdvertisedGood
<1>3. a.origin = p /\ a.seq = node[p].mySeq + 1
  BY DEF Advertisement
<1> HIDE DEF a, t
<1>4. /\ sent \subseteq Packet
      /\ \A m \in sent : /\ {m.from, m.to} \in link /\ m.lsas # {} /\ Database(m.lsas)
                         /\ m.lsas \subseteq News(p, n)
  <2>1. Database(News(p, n))
    BY <1>2 DEF Database
  <2>2. Ttl - 1 \in 1..Ttl /\ n \in Node
    BY DEF RoomAssumption, Good
  <2> QED
    BY <2>1, <2>2, FloodWire
<1> HIDE DEF sent
<1>5. /\ DOMAIN node = Peers /\ node'[p] = t
      /\ \A q \in Peers : q # p => node'[q] = node[q]
  BY <1>1 DEF IInv, Nodes
<1>6. Nodes'
  BY <1>1, <1>2, <1>5 DEF IInv, Nodes, Good
<1>7. Wire'
  BY <1>1, <1>4 DEF IInv, Wire
<1>8. Advertisements' \subseteq
          Advertisements \cup (IF node'[p].mySeq = node[p].mySeq + 1 THEN {a} ELSE {})
  <2>1. ASSUME NEW q \in Peers, NEW e \in node'[q].lsdb
        PROVE  \/ e \in Advertisements
               \/ e = a /\ node'[p].mySeq = node[p].mySeq + 1
    BY <1>2, <1>5 DEF Advertisements
  <2>2. ASSUME NEW m \in wire', NEW e \in m.lsas
        PROVE  \/ e \in Advertisements
               \/ e = a /\ node'[p].mySeq = node[p].mySeq + 1
    BY <1>1, <1>2, <1>4, <1>5, <2>2 DEF Advertisements
  <2> QED
    BY <2>1, <2>2 DEF Advertisements
<1>9. \A q \in Peers \ reloaded' : node'[q].mySeq >= node[q].mySeq
  BY <1>2, <1>5, RoomAssumption DEF IInv, Nodes, Good, Node, RoomAssumption
<1>10. Unambiguous' /\ Highest'
  BY <1>1, <1>2, <1>3, <1>6, <1>8, <1>9, NumbersStand
<1> QED
  BY <1>1, <1>6, <1>7, <1>10 DEF IInv

\* The interval between two emissions may have passed.
LEMMA LaterGood ==
  ASSUME NEW p, NEW m, Good(p, m), NEW n \in Later(m)
  PROVE  Good(p, n) /\ n.mySeq = m.mySeq /\ n.lsdb = m.lsdb
<1>1. CASE n = m
  BY <1>1
<1>2. CASE n = [m EXCEPT !.cooling = FALSE]
  <2>1. /\ n \in Node /\ n.conn = m.conn /\ n.mine = m.mine /\ n.lsdb = m.lsdb
        /\ n.mySeq = m.mySeq /\ n.pendingEmit = m.pendingEmit
    BY <1>2 DEF Good, Node
  <2> QED
    BY <2>1 DEF Good, Said
<1> QED
  BY <1>1, <1>2 DEF Later

LEMMA ConnectedStep ==
  ASSUME RoomAssumption, IInv, NEW p \in Peers, NEW q \in Peers, Connected(p, q)
  PROVE  IInv'
<1> DEFINE push == {[from |-> p, to |-> q, lsas |-> db, ttl |-> Ttl] :
                       db \in {node[p].lsdb} \ {{}}}
           m == [node[p] EXCEPT !.conn = @ \cup {q}]
<1>1. /\ q \in Neighbours(p) \ node[p].conn
      /\ \E n \in Later(m) : Advertise(p, n, push)
  BY DEF Connected
<1>2. Good(p, node[p]) /\ node[p] \in Node
  BY DEF IInv, Nodes, Good
<1>3. q # p /\ {p, q} \in link
  BY <1>1, LinksJoinTwo DEF IInv, Neighbours
<1> HIDE DEF m
<1>4. PICK n \in Later(m) : Advertise(p, n, push)
  BY <1>1
<1>5. /\ m \in Node /\ m.conn = node[p].conn \cup {q} /\ m.mine = node[p].mine
      /\ m.lsdb = node[p].lsdb /\ m.mySeq = node[p].mySeq
      /\ m.pendingEmit = node[p].pendingEmit
  BY <1>2 DEF Node, m
<1>6. Good(p, m)
  BY <1>2, <1>3, <1>5 DEF Good, Said
<1>7. Good(p, n) /\ n.mySeq = m.mySeq /\ n.lsdb = m.lsdb
  BY <1>4, <1>6, LaterGood
<1>8. /\ push \subseteq Packet
      /\ \A u \in push : /\ {u.from, u.to} \in link /\ u.lsas # {} /\ Database(u.lsas)
                         /\ u.lsas \subseteq Advertisements
  <2> SUFFICES ASSUME NEW u \in push
               PROVE  /\ u \in Packet /\ {u.from, u.to} \in link /\ u.lsas # {}
                      /\ Database(u.lsas) /\ u.lsas \subseteq Advertisements
    OBVIOUS
  <2>1. u = [from |-> p, to |-> q, lsas |-> node[p].lsdb, ttl |-> Ttl]
        /\ node[p].lsdb # {}
    OBVIOUS
  <2>2. Database(node[p].lsdb) /\ node[p].lsdb \in SUBSET Lsa /\ Ttl \in 1..Ttl
    BY <1>2 DEF Good, Node, RoomAssumption
  <2>3. node[p].lsdb \subseteq Advertisements
    BY DEF Advertisements
  <2> QED
    BY <1>3, <2>1, <2>2, <2>3 DEF Packet
<1> HIDE DEF push
<1> QED
  BY <1>4, <1>5, <1>7, <1>8, AdvertiseStep

LEMMA DisconnectedStep ==
  ASSUME RoomAssumption, IInv, NEW p \in Peers, NEW q \in Peers, Disconnected(p, q)
  PROVE  IInv'
<1> DEFINE m == [node[p] EXCEPT !.conn = @ \ {q}]
<1>1. Good(p, node[p]) /\ node[p] \in Node
  BY DEF IInv, Nodes, Good
<1>2. PICK n \in Later(m) : Advertise(p, n, {})
  BY DEF Disconnected
<1> HIDE DEF m
<1>3. /\ m \in Node /\ m.conn = node[p].conn \ {q} /\ m.mine = node[p].mine
      /\ m.lsdb = node[p].lsdb /\ m.mySeq = node[p].mySeq
      /\ m.pendingEmit = node[p].pendingEmit
  BY <1>1 DEF Node, m
<1>4. Good(p, m)
  BY <1>1, <1>3 DEF Good, Said
<1>5. Good(p, n) /\ n.mySeq = m.mySeq /\ n.lsdb = m.lsdb
  BY <1>2, <1>4, LaterGood
<1> QED
  BY <1>2, <1>3, <1>5, AdvertiseStep

LEMMA TickStep ==
  ASSUME RoomAssumption, IInv, NEW p \in Peers, Tick(p) \/ TickSoon(p)
  PROVE  IInv'
<1> DEFINE m == Aged(p)
           n == [m EXCEPT !.cooling = FALSE]
           db == Entry(node[p].lsdb, p) \cup (node[p].lsdb \ old)
<1>1. Good(p, node[p]) /\ node[p] \in Node
  BY DEF IInv, Nodes, Good
<1>2. db \in SUBSET node[p].lsdb /\ Entry(db, p) = Entry(node[p].lsdb, p)
  BY DEF Entry
<1>3. Database(db) /\ db \in SUBSET Lsa
  BY <1>1, <1>2, SubDatabase DEF Good, Node
<1>4. m = [node[p] EXCEPT !.lsdb = db]
  BY DEF Aged
<1> HIDE DEF m, db
<1>5. /\ m \in Node /\ m.conn = node[p].conn /\ m.mine = node[p].mine
      /\ m.lsdb = db /\ m.mySeq = node[p].mySeq
      /\ m.pendingEmit = node[p].pendingEmit
  BY <1>1, <1>3, <1>4 DEF Node
<1>6. Good(p, m)
  BY <1>1, <1>2, <1>3, <1>5 DEF Good, Said
<1>7. n \in Later(m) /\ m \in Later(m)
  BY DEF Later
<1>8. Advertise(p, n, {}) \/ Advertise(p, m, {})
  BY DEF Tick, TickSoon, m
<1> HIDE DEF n
<1>9. /\ Good(p, n) /\ n.mySeq = m.mySeq /\ n.lsdb = m.lsdb
  BY <1>6, <1>7, LaterGood
<1> QED
  BY <1>2, <1>5, <1>6, <1>8, <1>9, AdvertiseStep

LEMMA ReceiveStep ==
  ASSUME RoomAssumption, IInv, NEW m \in wire, Receive(m)
  PROVE  IInv'
<1> DEFINE p == m.to
           n == node[p]
           t == Handled(p, n, m.lsas)
           onward == IF m.ttl > 1 THEN Accepted(p, n, m.lsas) ELSE {}
           sent == Flood(p, n, onward, m.ttl - 1, {m.from})
<1>1. /\ node' = [node EXCEPT ![p] = t] /\ wire' = (wire \ {m}) \cup sent
      /\ UNCHANGED <<link, old, events, reloaded, excuses>>
  BY DEF Receive, history
<1>2. /\ p \in Peers /\ m.ttl \in 1..Ttl /\ Database(m.lsas) /\ Good(p, n) /\ n \in Node
  BY DEF IInv, Nodes, Wire, Packet, Good
<1>3. Good(p, t) /\ t.mySeq >= n.mySeq /\ t.lsdb \subseteq n.lsdb \cup m.lsas
  BY <1>2, HandledGood
<1>4. /\ sent \subseteq Packet
      /\ \A u \in sent : /\ {u.from, u.to} \in link /\ u.lsas # {} /\ Database(u.lsas)
                         /\ u.lsas \subseteq m.lsas
  <2>1. CASE m.ttl > 1
    <3>1. onward \in SUBSET m.lsas /\ Database(onward)
      BY <1>2, SubDatabase DEF Accepted
    <3>2. m.ttl - 1 \in 1..Ttl
      BY <1>2, <2>1 DEF RoomAssumption
    <3> HIDE DEF onward, n, p
    <3>3. /\ sent \subseteq Packet
          /\ \A u \in sent : /\ {u.from, u.to} \in link /\ u.lsas # {}
                             /\ Database(u.lsas) /\ u.lsas \subseteq onward
      BY <1>2, <3>1, <3>2, FloodWire
    <3> QED
      BY <3>1, <3>3
  <2>2. CASE ~(m.ttl > 1)
    BY <2>2 DEF Flood
  <2> QED
    BY <2>1, <2>2
<1> HIDE DEF sent, t, onward
<1>5. /\ node'[p] = t /\ \A q \in Peers : q # p => node'[q] = node[q]
  BY <1>1, <1>2 DEF IInv, Nodes
<1>6. Nodes'
  BY <1>1, <1>3, <1>5 DEF IInv, Nodes, Good
<1>7. Wire'
  BY <1>1, <1>4 DEF IInv, Wire
<1>8. Advertisements' \subseteq Advertisements
  <2>1. ASSUME NEW q \in Peers, NEW e \in node'[q].lsdb
        PROVE  e \in Advertisements
    BY <1>3, <1>5 DEF Advertisements
  <2>2. ASSUME NEW u \in wire', NEW e \in u.lsas
        PROVE  e \in Advertisements
    BY <1>1, <1>4, <2>2 DEF Advertisements
  <2> QED
    BY <2>1, <2>2 DEF Advertisements
<1>9. \A q \in Peers \ reloaded' : node'[q].mySeq >= node[q].mySeq
  BY <1>2, <1>3, <1>5 DEF IInv, Nodes, Good, Node, RoomAssumption
<1>10. Unambiguous' /\ Highest'
  BY <1>1, <1>6, <1>8, <1>9, NothingNew
<1> QED
  BY <1>1, <1>6, <1>7, <1>10 DEF IInv

\* Links come and go, and packets are lost with them.
LEMMA LinkStep ==
  ASSUME RoomAssumption, IInv, NEW l \in Links, LinkUp(l) \/ LinkDown(l)
  PROVE  IInv'
<1>1. link' \subseteq Links /\ UNCHANGED <<reloaded, excuses>>
  BY DEF LinkUp, LinkDown, IInv
<1>2. ASSUME NEW p \in Peers
      PROVE  Good(p, node[p]) /\ node[p] \in Node
  BY DEF IInv, Nodes, Good
<1>3. Nodes' /\ \A p \in Peers : /\ node'[p].mySeq = node[p].mySeq
                                 /\ node'[p].lsdb = node[p].lsdb
  <2>1. CASE LinkUp(l)
    <3> DEFINE t(p) == IF p \in l THEN [node[p] EXCEPT !.conn = @ \ l] ELSE node[p]
    <3>1. node' = [p \in Peers |-> t(p)]
      BY <2>1 DEF LinkUp
    <3>2. ASSUME NEW p \in Peers
          PROVE  Good(p, t(p)) /\ t(p).mySeq = node[p].mySeq /\ t(p).lsdb = node[p].lsdb
      <4>1. /\ t(p) \in Node /\ t(p).conn \subseteq node[p].conn
            /\ t(p).mine = node[p].mine /\ t(p).lsdb = node[p].lsdb
            /\ t(p).mySeq = node[p].mySeq /\ t(p).pendingEmit = node[p].pendingEmit
        BY <1>2 DEF Node
      <4> HIDE DEF t
      <4> QED
        BY <1>2, <4>1 DEF Good, Said
    <3> HIDE DEF t
    <3>3. \A p \in Peers : node'[p] = t(p)
      BY <3>1
    <3> QED
      BY <3>1, <3>2, <3>3 DEF Nodes, Good
  <2>2. CASE LinkDown(l)
    BY <2>2 DEF LinkDown, IInv, Nodes
  <2> QED
    BY <2>1, <2>2
<1>4. Wire' /\ wire' \subseteq wire
  BY DEF LinkUp, LinkDown, IInv, Wire
<1>5. Advertisements' \subseteq Advertisements
  BY <1>3, <1>4 DEF Advertisements
<1>6. Unambiguous' /\ Highest'
  <2>1. \A p \in Peers : node[p].mySeq \in Nat
    BY <1>2 DEF Node, RoomAssumption
  <2> QED
    BY <1>1, <1>3, <1>5, <2>1, NothingNew
<1> QED
  BY <1>1, <1>3, <1>4, <1>6 DEF IInv

LEMMA LoseStep ==
  ASSUME RoomAssumption, IInv, NEW m \in wire, Lose(m)
  PROVE  IInv'
<1>1. /\ wire' = wire \ {m} /\ excuses' = excuses \cup {"lost"}
      /\ UNCHANGED <<link, node, reloaded>>
  BY DEF Lose
<1>2. Nodes' /\ Wire'
  BY <1>1 DEF IInv, Nodes, Wire
<1>3. Unambiguous' /\ Highest'
  <2>1. Advertisements' \subseteq Advertisements
    BY <1>1 DEF Advertisements
  <2>2. \A q \in Peers : node'[q].mySeq >= node[q].mySeq
    BY <1>1 DEF IInv, Nodes, Good, Node, RoomAssumption
  <2> QED
    BY <1>1, <1>2, <2>1, <2>2, NothingNew
<1> QED
  BY <1>1, <1>2, <1>3 DEF IInv

LEMMA ExpireStep ==
  ASSUME IInv, NEW e, Expire(e)
  PROVE  IInv'
<1>1. /\ excuses' = excuses \cup {"expired"}
      /\ UNCHANGED <<link, node, wire, reloaded>>
  BY DEF Expire
<1> QED
  BY <1>1 DEF IInv, Nodes, Wire, Unambiguous, Highest, Advertisements

\* A reloaded peer starts its numbers again, which is why it is excepted.
LEMMA RestartStep ==
  ASSUME RoomAssumption, IInv, NEW p \in Peers, Restart(p)
  PROVE  IInv'
<1>1. /\ link' = {l \in link : p \notin l}
      /\ wire' = {m \in wire : p \notin {m.from, m.to}}
      /\ node' = [node EXCEPT ![p] = NewNode]
      /\ reloaded' = reloaded \cup {p}
  BY DEF Restart
<1>2. excuses' \subseteq {"lost", "expired", "unknown"}
  BY DEF Restart, IInv
<1>3. Good(p, NewNode) /\ NewNode.lsdb = {}
  <2>1. NewNode \in Node /\ Entry({}, p) = {}
    BY DEF NewNode, Node, RoomAssumption, Entry
  <2> QED
    BY <2>1 DEF Good, Said, Database, NewNode
<1>4. node'[p] = NewNode /\ \A q \in Peers : q # p => node'[q] = node[q]
  BY <1>1 DEF IInv, Nodes
<1>5. Nodes'
  BY <1>1, <1>3, <1>4 DEF IInv, Nodes, Good
<1>6. Wire'
  BY <1>1 DEF IInv, Wire
<1>7. Advertisements' \subseteq Advertisements
  BY <1>1, <1>3, <1>4 DEF Advertisements
<1>8. \A q \in Peers \ reloaded' : node'[q].mySeq >= node[q].mySeq
  BY <1>1, <1>4 DEF IInv, Nodes, Good, Node, RoomAssumption
<1>9. Unambiguous' /\ Highest'
  BY <1>1, <1>5, <1>7, <1>8, NothingNew
<1> QED
  BY <1>1, <1>2, <1>5, <1>6, <1>9 DEF IInv

-----------------------------------------------------------------------------
(* The settled room *)

LEMMA InitStep ==
  ASSUME RoomAssumption, Init
  PROVE  IInv
<1> DEFINE deg(q) == Cardinality(Neighbours(q))
<1>1. /\ link \subseteq Links /\ wire = {} /\ excuses = {} /\ reloaded = {}
      /\ node = [p \in Peers |-> Settled(p)]
  BY DEF Init, RoomAssumption
<1>2. ASSUME NEW q \in Peers
      PROVE  /\ q \notin Neighbours(q) /\ Neighbours(q) \subseteq Peers
             /\ deg(q) \in 0..MaxSeq /\ (deg(q) = 0 <=> Neighbours(q) = {})
  <2>1. q \notin Neighbours(q) /\ Neighbours(q) \subseteq Peers
    BY <1>1, LinksJoinTwo
  <2>2. IsFiniteSet(Peers) /\ Cardinality(Peers) \in Nat
    BY FS_CardinalityType DEF RoomAssumption
  <2>3. IsFiniteSet(Neighbours(q)) /\ deg(q) <= Cardinality(Peers)
    BY <2>1, <2>2, FS_Subset
  <2>4. deg(q) \in Nat /\ (deg(q) = 0 <=> Neighbours(q) = {})
    BY <2>3, FS_CardinalityType, FS_EmptySet
  <2> HIDE DEF deg
  <2>5. deg(q) \in 0..MaxSeq
    BY <2>2, <2>3, <2>4 DEF RoomAssumption
  <2> QED
    BY <2>1, <2>4, <2>5
<1> HIDE DEF deg
<1>3. ASSUME NEW p \in Peers
      PROVE  Good(p, Settled(p)) /\ Settled(p).mySeq = deg(p)
             /\ \A e \in Settled(p).lsdb : e.seq = deg(e.origin)
                                           /\ e.neighbours = Neighbours(e.origin)
  <2> DEFINE seen == {q \in Peers : Neighbours(q) # {} /\ Joined(p, q, link)}
             db == {Advertisement(q, Cardinality(Neighbours(q)), Neighbours(q)) : q \in seen}
  <2>1. Settled(p) = [NewNode EXCEPT !.conn = Neighbours(p), !.mine = Neighbours(p),
                                     !.mySeq = deg(p), !.lsdb = db]
    BY DEF Settled, deg
  <2>2. p \in seen <=> Neighbours(p) # {}
    BY DEF Joined
  <2>3. \A e \in db : /\ e.origin \in seen /\ e.seq = deg(e.origin)
                      /\ e.neighbours = Neighbours(e.origin)
                      /\ e = Advertisement(e.origin, deg(e.origin), Neighbours(e.origin))
    BY DEF Advertisement, deg
  <2>4. p \in seen => Advertisement(p, deg(p), Neighbours(p)) \in db
    BY DEF deg
  <2>5. seen \subseteq Peers /\ \A q \in seen : Neighbours(q) # {}
    OBVIOUS
  <2> HIDE DEF seen, db
  <2>6. db \subseteq Lsa /\ Database(db)
    <3>1. ASSUME NEW e \in db
          PROVE  e \in Lsa /\ e.origin \notin e.neighbours
      <4> DEFINE q == e.origin
      <4>1. q \in Peers /\ Neighbours(q) # {}
        BY <2>3, <2>5
      <4>2. deg(q) \in 1..MaxSeq /\ Neighbours(q) \in SUBSET Peers /\ q \notin Neighbours(q)
        BY <1>2, <4>1 DEF RoomAssumption
      <4>3. e = Advertisement(q, deg(q), Neighbours(q))
        BY <2>3
      <4> HIDE DEF q
      <4> QED
        BY <4>1, <4>2, <4>3 DEF Advertisement, Lsa
    <3>2. \A e, f \in db : e.origin = f.origin => e = f
      BY <2>3
    <3> QED
      BY <3>1, <3>2 DEF Database
  <2>7. Entry(db, p) = IF deg(p) = 0 THEN {} ELSE {Advertisement(p, deg(p), Neighbours(p))}
    <3>1. CASE deg(p) = 0
      <4>1. p \notin seen
        BY <1>2, <2>2, <3>1
      <4> QED
        BY <2>3, <3>1, <4>1 DEF Entry
    <3>2. CASE deg(p) # 0
      <4>1. Advertisement(p, deg(p), Neighbours(p)) \in db
        BY <1>2, <2>2, <2>4, <3>2
      <4> QED
        BY <2>3, <3>2, <4>1 DEF Entry, Advertisement
    <3> QED
      BY <3>1, <3>2
  <2>8. /\ Settled(p) \in Node /\ Settled(p).conn = Neighbours(p)
        /\ Settled(p).mine = Neighbours(p) /\ Settled(p).lsdb = db
        /\ Settled(p).mySeq = deg(p)
    <3>1. /\ NewNode \in Node /\ db \in SUBSET Lsa /\ Neighbours(p) \in SUBSET Peers
          /\ deg(p) \in 0..(MaxSeq + 1)
      BY <1>2, <2>6 DEF NewNode, Node, RoomAssumption
    <3> DEFINE nbrs == Neighbours(p)
               d == deg(p)
               t == Settled(p)
    <3> HIDE DEF nbrs, d, t
    <3>2. t = [NewNode EXCEPT !.conn = nbrs, !.mine = nbrs, !.mySeq = d, !.lsdb = db]
      BY <2>1 DEF nbrs, d, t
    <3>3. /\ t \in Node /\ t.conn = nbrs /\ t.mine = nbrs /\ t.lsdb = db /\ t.mySeq = d
      BY <3>1, <3>2 DEF nbrs, d, Node
    <3> QED
      BY <3>3 DEF nbrs, d, t
  <2>9. Good(p, Settled(p))
    BY <1>2, <2>6, <2>7, <2>8 DEF Good, Said
  <2> QED
    BY <2>3, <2>8, <2>9
<1> DEFINE s(p) == Settled(p)
<1>4. \A p \in Peers : node[p] = s(p)
  BY <1>1
<1> HIDE DEF s
<1>5. Nodes
  BY <1>1, <1>3, <1>4 DEF Nodes, Good, s
<1>6. \A e \in Advertisements : /\ e.origin \in Peers /\ e.seq = deg(e.origin)
                                /\ e.neighbours = Neighbours(e.origin)
                                /\ e \in Lsa
  <2>1. \A e \in Advertisements : \E p \in Peers : e \in s(p).lsdb
    BY <1>1, <1>4 DEF Advertisements
  <2>2. \A p \in Peers : s(p).lsdb \subseteq Lsa
    BY <1>3 DEF s, Good, Database
  <2> QED
    BY <1>3, <2>1, <2>2 DEF s, Lsa
<1>7. Highest
  <2>1. \A p \in Peers : node[p].mySeq = deg(p) /\ deg(p) \in Nat
    BY <1>2, <1>3, <1>4 DEF s, RoomAssumption
  <2> QED
    BY <1>6, <2>1 DEF Highest
<1>8. Unambiguous
  BY <1>6 DEF Unambiguous, Lsa
<1>9. Wire
  BY <1>1 DEF Wire
<1> QED
  BY <1>1, <1>5, <1>7, <1>8, <1>9 DEF IInv

-----------------------------------------------------------------------------
(* The theorem *)

\* A sequence number names one neighbour set wherever its copies are, until the
\* peer is reloaded, and a change of the neighbours that was not advertised is
\* owed: with any peers and links, whatever is lost, delayed, aged out or said
\* twice (advertiseNeighbours(), updateLocalNeighbours(), handleLSA()).
THEOREM OneMeaningCorrect ==
  ASSUME RoomAssumption
  PROVE  Spec => []OneMeaning
<1>1. Init => IInv
  BY InitStep
<1>2. IInv /\ [Next]_vars => IInv'
  <2> SUFFICES ASSUME IInv, [Next]_vars
               PROVE  IInv'
    OBVIOUS
  <2>1. CASE \E p, q \in Peers : Connected(p, q) \/ Disconnected(p, q)
    BY <2>1, ConnectedStep, DisconnectedStep
  <2>2. CASE \E l \in Links : LinkUp(l) \/ LinkDown(l)
    BY <2>2, LinkStep
  <2>3. CASE \E p \in Peers : Tick(p) \/ TickSoon(p)
    BY <2>3, TickStep
  <2>4. CASE \E p \in Peers : Restart(p)
    BY <2>4, RestartStep
  <2>5. CASE \E m \in wire : Receive(m)
    BY <2>5, ReceiveStep
  <2>6. CASE \E m \in wire : Lose(m)
    BY <2>6, LoseStep
  <2>7. CASE \E p \in Peers : \E e \in node[p].lsdb : Expire(e)
    BY <2>7, ExpireStep
  <2>8. CASE UNCHANGED vars
    BY <2>8 DEF vars, history, IInv, Nodes, Wire, Unambiguous, Highest, Advertisements
  <2> QED
    BY <2>1, <2>2, <2>3, <2>4, <2>5, <2>6, <2>7, <2>8 DEF Next
<1>3. ASSUME IInv
      PROVE  OneMeaning
  <2>1. TypeOK
    <3>1. ASSUME NEW p \in Peers
          PROVE  /\ node[p].conn \subseteq Peers \ {p} /\ node[p].mine \subseteq Peers \ {p}
                 /\ node[p].mySeq \in 0..(MaxSeq + 1)
                 /\ node[p].pendingEmit \in BOOLEAN /\ node[p].cooling \in BOOLEAN
                 /\ \A o \in Peers : Cardinality(Entry(node[p].lsdb, o)) <= 1
                 /\ \A e \in node[p].lsdb : /\ e.seq \in 1..MaxSeq
                                            /\ e.neighbours \subseteq Peers \ {e.origin}
      <4>1. Good(p, node[p])
        BY <1>3 DEF IInv, Nodes
      <4>2. Database(node[p].lsdb) /\ node[p] \in Node
        BY <4>1 DEF Good
      <4>3. \A o \in Peers : Cardinality(Entry(node[p].lsdb, o)) <= 1
        BY <4>2, AtMostOneEntry
      <4>4. \A e \in node[p].lsdb : /\ e.seq \in 1..MaxSeq
                                    /\ e.neighbours \subseteq Peers \ {e.origin}
        BY <4>2 DEF Database, Lsa
      <4> QED
        BY <4>1, <4>2, <4>3, <4>4 DEF Good, Node
    <3>2. \A m \in wire : {m.from, m.to} \in link /\ m.ttl \in 1..Ttl /\ m.lsas # {}
      BY <1>3 DEF IInv, Wire, Packet
    <3> QED
      BY <1>3, <3>1, <3>2 DEF IInv, TypeOK
  <2>2. NothingUnsaid
    BY <1>3 DEF IInv, Nodes, Good, Said, NothingUnsaid
  <2> QED
    BY <1>3, <2>1, <2>2 DEF IInv, OneMeaning
<1> QED
  BY <1>1, <1>2, <1>3, PTL DEF Spec
=============================================================================
