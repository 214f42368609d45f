-------------------------- MODULE ReplicationProofs --------------------------
(***************************************************************************)
(* Proofs about the replicated stores: for any replicas, any operations,   *)
(* any thresholds and any order of packets, snapshots are exact, no        *)
(* replica loses what it has applied, and the reducer of a replica is      *)
(* given the operations once and, until something is compacted, each after *)
(* all that it depends on.                                                 *)
(*                                                                         *)
(* SnapshotIsExact together with the type is inductive, and so is that no  *)
(* snapshot folds an operation twice.  The order needs an invariant about  *)
(* every operation there is, wherever it may be (Chronicle): it depends on *)
(* operations that were issued before it and carry smaller lamports.       *)
(*                                                                         *)
(* The second half is about one store on disk (StoreDurability).           *)
(***************************************************************************)
EXTENDS Replication, StoreDurability, SequenceTheorems, FiniteSetTheorems,
        WellFoundedInduction, TLAPS

-----------------------------------------------------------------------------
(* The functions of ReplicaStore.  What carries the lemmas about them is   *)
(* ContiguousRun: between a snapshot's vector and the contiguous vector    *)
(* every number is live.                                                   *)

\* What a store has applied: counted by the vector of its snapshot, or live.
Has(s) == Below(s.snapshot.vector) \cup Ids(s.events)

\* No operation is in two batches of the state.
Once(state) ==
    \A j, k \in DOMAIN state : j # k => Ids(state[j]) \cap Ids(state[k]) = {}

\* The state v counts, each operation in it once.
Faithful(state, v) == Folded(state) = Below(v) /\ Once(state)
Exact(s) == Faithful(s.snapshot.state, s.snapshot.vector)

\* A store as it should be, and one that has what s has.
Sound(s) == s \in Store /\ Exact(s)
Keeps(s, t) ==
    /\ Sound(t)
    /\ Has(s) \subseteq Has(t)
    /\ Dominates(t.snapshot.vector, s.snapshot.vector)

\* What an operation of the journal depends on is in the journal.
Ordered(s) ==
    \A e \in s.events : /\ e.lamport <= s.lamport
                        /\ \A d \in e.deps : HasOp(s, d)

\* s becomes t with at most the operation e more.
Takes(s, t, e) ==
    /\ t.events \subseteq s.events \cup {e}
    /\ Parked(t) \subseteq Parked(s) \cup {e}
    /\ t.localSeq = s.localSeq
    /\ Ordered(t)

-----------------------------------------------------------------------------
(* The CHOOSE of ContiguousSeq *)

LEMMA LeastOfNats ==
  ASSUME NEW T, T \subseteq Nat, T # {}
  PROVE  \E x \in T : \A y \in T : x <= y
<1>1. \E x \in T : \A y \in T : ~(<<y, x>> \in OpToRel(<, Nat))
  <2>1. IsWellFoundedOn(OpToRel(<, Nat), Nat)
    BY NatLessThanWellFounded
  <2> QED
    BY <2>1, WFMin, Zenon
<1>2. PICK x \in T : \A y \in T : ~(<<y, x>> \in OpToRel(<, Nat))
  BY <1>1
<1>3. \A y \in T : ~(y < x)
  BY <1>2 DEF OpToRel
<1> QED
  BY <1>3

\* Every number from the snapshot's vector up to the contiguous one is live.
LEMMA ContiguousRun ==
  ASSUME NEW s \in Store, NEW a \in Replicas
  PROVE  /\ ContiguousSeq(s, a) \in 0..MaxOps
         /\ s.snapshot.vector[a] <= ContiguousSeq(s, a)
         /\ \A k \in (s.snapshot.vector[a] + 1)..ContiguousSeq(s, a) : Live(s, a, k)
<1> USE BoundsAssumption
<1> DEFINE from == s.snapshot.vector[a]
           Missing == {n \in (from + 1)..(MaxOps + 1) : ~Live(s, a, n)}
           Ends(n) == ~Live(s, a, n) /\ \A k \in (from + 1)..(n - 1) : Live(s, a, k)
           next == CHOOSE n \in (from + 1)..(MaxOps + 1) : Ends(n)
<1>1. from \in 0..MaxOps
  BY DEF Store, Snapshot, Vector
<1>2. ~Live(s, a, MaxOps + 1)
  BY DEF Live, Store, Event
<1>3. MaxOps + 1 \in Missing /\ Missing \subseteq Nat
  BY <1>1, <1>2
<1>4. PICK n \in Missing : \A m \in Missing : n <= m
  BY <1>3, LeastOfNats
<1>5. Ends(n) /\ n \in (from + 1)..(MaxOps + 1)
  BY <1>1, <1>4
<1>6. next \in (from + 1)..(MaxOps + 1) /\ Ends(next)
  BY <1>5, Zenon
<1>7. ContiguousSeq(s, a) = next - 1
  BY DEF ContiguousSeq
<1> QED
  BY <1>1, <1>6, <1>7

LEMMA ContiguousType ==
  ASSUME NEW s \in Store
  PROVE  Contiguous(s) \in Vector
BY ContiguousRun DEF Contiguous, Vector

\* The contiguous vector counts what the snapshot counts and the events baked.
LEMMA BakedIsContiguous ==
  ASSUME NEW s \in Store
  PROVE  Below(Contiguous(s)) = Below(s.snapshot.vector) \cup Ids(Baked(s))
<1> DEFINE v == s.snapshot.vector
           c == Contiguous(s)
<1>1. v \in Vector /\ c \in Vector
  BY ContiguousType DEF Store, Snapshot
<1>2. ASSUME NEW d \in Below(c), d \notin Below(v)
      PROVE  d \in Ids(Baked(s))
  <2>1. d \in OpId /\ d[1] \in Replicas /\ d[2] \in 1..MaxOps /\ d = <<d[1], d[2]>>
    BY <1>2 DEF Below, OpId
  <2>2. v[d[1]] < d[2] /\ d[2] <= ContiguousSeq(s, d[1])
    BY <1>1, <1>2, <2>1 DEF Below, Vector, Contiguous
  <2>3. Live(s, d[1], d[2])
    BY <1>1, <2>1, <2>2, ContiguousRun DEF Vector
  <2>4. PICK e \in s.events : e.author = d[1] /\ e.seq = d[2]
    BY <2>3 DEF Live
  <2>5. e \in Baked(s)
    BY <2>1, <2>2, <2>4 DEF Baked, Beyond, Contiguous
  <2> QED
    BY <2>1, <2>4, <2>5 DEF Ids, Id
<1>3. ASSUME NEW d \in Below(v)
      PROVE  d \in Below(c)
  <2>1. d \in OpId /\ d[1] \in Replicas /\ d[2] \in 1..MaxOps /\ d[2] <= v[d[1]]
    BY <1>3 DEF Below, OpId
  <2>2. v[d[1]] <= c[d[1]]
    BY <2>1, ContiguousRun DEF Contiguous
  <2> QED
    BY <1>1, <2>1, <2>2 DEF Below, Vector
<1>4. ASSUME NEW e \in Baked(s)
      PROVE  Id(e) \in Below(c)
  <2>1. e \in Event /\ e.seq <= c[e.author]
    BY <1>4 DEF Baked, Beyond, Store
  <2> QED
    BY <2>1 DEF Event, Id, Below, OpId
<1> QED
  BY <1>2, <1>3, <1>4 DEF Ids

-----------------------------------------------------------------------------
(* Folding *)

LEMMA FoldedThen ==
  ASSUME NEW state \in Seq(SUBSET Event), NEW batch \in SUBSET Event
  PROVE  /\ Then(state, batch) \in Seq(SUBSET Event)
         /\ Folded(Then(state, batch)) = Folded(state) \cup Ids(batch)
         /\ Once(state) /\ Folded(state) \cap Ids(batch) = {} => Once(Then(state, batch))
<1>1. CASE batch = {}
  BY <1>1 DEF Then, Ids
<1>2. CASE batch # {}
  <2> DEFINE new == Append(state, batch)
  <2>1. /\ new \in Seq(SUBSET Event)
        /\ Len(new) = Len(state) + 1
        /\ \A k \in 1..Len(state) : new[k] = state[k]
        /\ new[Len(state) + 1] = batch
        /\ DOMAIN new = 1..(Len(state) + 1)
        /\ DOMAIN state = 1..Len(state)
        /\ Len(state) \in Nat
    OBVIOUS
  <2>2. Folded(new) = Folded(state) \cup Ids(batch)
    <3>1. ASSUME NEW d \in Folded(new)
          PROVE  d \in Folded(state) \cup Ids(batch)
      <4>1. PICK k \in 1..(Len(state) + 1) : d \in Ids(new[k])
        BY <2>1, <3>1 DEF Folded
      <4> QED
        BY <2>1, <4>1 DEF Folded
    <3>2. ASSUME NEW d \in Folded(state)
          PROVE  d \in Folded(new)
      <4>1. PICK k \in 1..Len(state) : d \in Ids(state[k])
        BY <2>1, <3>2 DEF Folded
      <4>2. k \in DOMAIN new /\ new[k] = state[k]
        BY <2>1, <4>1
      <4> QED
        BY <4>1, <4>2 DEF Folded
    <3>3. Ids(batch) \subseteq Folded(new)
      BY <2>1 DEF Folded
    <3> QED
      BY <3>1, <3>2, <3>3
  <2>3. ASSUME Once(state), Folded(state) \cap Ids(batch) = {}
        PROVE  Once(new)
    <3>1. \A k \in 1..Len(state) : Ids(state[k]) \cap Ids(batch) = {}
      BY <2>1, <2>3 DEF Folded
    <3>2. ASSUME NEW j \in 1..(Len(state) + 1), NEW k \in 1..(Len(state) + 1), j # k
          PROVE  Ids(new[j]) \cap Ids(new[k]) = {}
      <4>1. CASE j = Len(state) + 1
        <5>1. k \in 1..Len(state)
          BY <2>1, <3>2, <4>1
        <5> QED
          BY <2>1, <3>1, <4>1, <5>1
      <4>2. CASE k = Len(state) + 1
        <5>1. j \in 1..Len(state)
          BY <2>1, <3>2, <4>2
        <5> QED
          BY <2>1, <3>1, <4>2, <5>1
      <4>3. CASE j # Len(state) + 1 /\ k # Len(state) + 1
        <5>1. j \in 1..Len(state) /\ k \in 1..Len(state)
          BY <2>1, <4>3
        <5> QED
          BY <2>1, <2>3, <3>2, <5>1 DEF Once
      <4> QED
        BY <4>1, <4>2, <4>3
    <3> QED
      BY <2>1, <3>2 DEF Once
  <2> QED
    BY <1>2, <2>1, <2>2, <2>3 DEF Then
<1> QED
  BY <1>1, <1>2

\* A batch of operations beyond the vector of a snapshot has none of its own.
LEMMA BeyondIsNew ==
  ASSUME NEW s \in Store, NEW batch \in SUBSET Beyond(s)
  PROVE  Below(s.snapshot.vector) \cap Ids(batch) = {}
<1>1. ASSUME NEW e \in batch
      PROVE  Id(e) \notin Below(s.snapshot.vector)
  <2>1. e \in Event /\ s.snapshot.vector \in Vector /\ e.seq > s.snapshot.vector[e.author]
    BY <1>1 DEF Store, Snapshot, Beyond
  <2> QED
    BY <2>1 DEF Event, Vector, Id, Below
<1> QED
  BY <1>1 DEF Ids

\* The state shows exactly what the store has.
LEMMA StateIsHas ==
  ASSUME NEW s, Sound(s)
  PROVE  Folded(State(s)) = Has(s) /\ Once(State(s))
<1>1. s \in Store /\ Exact(s)
  BY DEF Sound
<1>2. s.snapshot.state \in Seq(SUBSET Event) /\ Beyond(s) \in SUBSET Event
  BY <1>1 DEF Store, Snapshot, Beyond
<1>3. Folded(State(s)) = Below(s.snapshot.vector) \cup Ids(Beyond(s))
  BY <1>1, <1>2, FoldedThen DEF State, Exact, Faithful
<1>5. Once(State(s))
  BY <1>1, <1>2, FoldedThen, BeyondIsNew DEF State, Exact, Faithful
<1>4. ASSUME NEW e \in s.events, e \notin Beyond(s)
      PROVE  Id(e) \in Below(s.snapshot.vector)
  <2>1. e \in Event /\ s.snapshot.vector \in Vector
    BY <1>1 DEF Store, Snapshot
  <2> QED
    BY <1>4, <2>1 DEF Beyond, Event, Vector, Id, Below, OpId
<1> QED
  BY <1>3, <1>4, <1>5 DEF Has, Ids, Beyond

LEMMA KeepsItself ==
  ASSUME NEW s, Sound(s)
  PROVE  Keeps(s, s)
BY DEF Keeps, Sound, Store, Snapshot, Vector, Dominates

\* A store that differs in neither snapshot nor journal, or has more operations.
LEMMA KeepsMore ==
  ASSUME NEW s, Sound(s), NEW t \in Store,
         t.snapshot = s.snapshot, s.events \subseteq t.events
  PROVE  Keeps(s, t)
<1>1. Dominates(s.snapshot.vector, s.snapshot.vector)
  BY KeepsItself DEF Keeps
<1> QED
  BY <1>1 DEF Keeps, Sound, Exact, Has, Ids

LEMMA KeepsOn ==
  ASSUME NEW s, Sound(s), NEW t, Keeps(s, t), NEW u, Keeps(t, u)
  PROVE  Keeps(s, u)
<1>1. /\ s.snapshot.vector \in Vector /\ t.snapshot.vector \in Vector
      /\ u.snapshot.vector \in Vector
  BY DEF Keeps, Sound, Store, Snapshot
<1>2. Dominates(u.snapshot.vector, s.snapshot.vector)
  BY <1>1 DEF Keeps, Dominates, Vector
<1> QED
  BY <1>2 DEF Keeps

-----------------------------------------------------------------------------
(* The functions on stores keep them sound and lose nothing *)

LEMMA CompactedKeeps ==
  ASSUME NEW s, Sound(s), NEW force
  PROVE  Keeps(s, Compacted(s, force))
<1> USE BoundsAssumption
<1> DEFINE c == Contiguous(s)
           t == [s EXCEPT !.snapshot = [vector |-> c,
                                        state  |-> Then(s.snapshot.state, Baked(s))],
                          !.clock    = Merge(s.clock, c),
                          !.events   = {e \in s.events : Id(e) \notin SafeCut(s)},
                          !.opsSince = 0]
<1>1. s \in Store /\ Exact(s)
  BY DEF Sound
<1>2. c \in Vector /\ Below(c) = Below(s.snapshot.vector) \cup Ids(Baked(s))
  BY <1>1, ContiguousType, BakedIsContiguous
<1>3. s.snapshot.state \in Seq(SUBSET Event) /\ Baked(s) \in SUBSET Event
  BY <1>1 DEF Store, Snapshot, Baked, Beyond
<1>4. /\ Then(s.snapshot.state, Baked(s)) \in Seq(SUBSET Event)
      /\ Faithful(Then(s.snapshot.state, Baked(s)), c)
  BY <1>1, <1>2, <1>3, FoldedThen, BeyondIsNew DEF Exact, Faithful, Baked
<1>5. Merge(s.clock, c) \in Clock
  BY <1>1, <1>2 DEF Store, Vector, Clock, Merge, Larger
<1>6. t \in Store
  <2> DEFINE new == [vector |-> c, state |-> Then(s.snapshot.state, Baked(s))]
             staying == {e \in s.events : Id(e) \notin SafeCut(s)}
  <2>1. new \in Snapshot
    BY <1>2, <1>4 DEF Snapshot
  <2>2. staying \in SUBSET Event
    BY <1>1 DEF Store
  <2>3. 0 \in 0..Interval
    OBVIOUS
  <2> HIDE DEF new, staying, c
  <2> QED
    BY <1>1, <1>5, <2>1, <2>2, <2>3 DEF Store, new, staying
<1>7. /\ t.snapshot.vector = c
      /\ t.snapshot.state = Then(s.snapshot.state, Baked(s))
      /\ t.events = {e \in s.events : Id(e) \notin SafeCut(s)}
  BY <1>1 DEF Store
<1>8. Sound(t)
  BY <1>4, <1>6, <1>7 DEF Sound, Exact
<1>9. Has(s) \subseteq Has(t)
  <2>1. ASSUME NEW e \in s.events
        PROVE  Id(e) \in Below(c) \cup Ids(t.events)
    BY <1>7 DEF SafeCut, Ids
  <2> QED
    BY <1>2, <1>7, <2>1 DEF Has, Ids
<1>10. Dominates(c, s.snapshot.vector)
  BY <1>1, ContiguousRun DEF Dominates, Contiguous
<1> QED
  BY <1>7, <1>8, <1>9, <1>10, KeepsItself DEF Compacted, Keeps

LEMMA InsertedType ==
  ASSUME NEW s \in Store, NEW e \in Event
  PROVE  LET t == Inserted(s, e)
         IN  t \in Store /\ t.snapshot = s.snapshot /\ t.events = s.events \cup {e}
<1> USE BoundsAssumption
<1> DEFINE clock == [s.clock EXCEPT ![e.author] = Larger(@, e.seq)]
           lamport == Larger(s.lamport, e.lamport) + 1
           count == Recorded(s.opsSince)
           t == [s EXCEPT !.events   = s.events \cup {e},
                          !.lamport  = lamport,
                          !.clock    = clock,
                          !.opsSince = count]
<1>1. e.author \in Replicas /\ e.seq \in 1..MaxOps /\ e.lamport \in Nat
  BY DEF Event
<1>2. clock \in Clock /\ lamport \in Nat /\ count \in 0..Interval
  BY <1>1 DEF Store, Clock, Larger, Recorded, Smaller
<1>3. Inserted(s, e) = t
  BY DEF Inserted
<1> HIDE DEF clock, lamport, count
<1>4. t \in Store /\ t.snapshot = s.snapshot /\ t.events = s.events \cup {e}
  BY <1>2 DEF Store
<1> QED
  BY <1>3, <1>4

LEMMA AppliedKeeps ==
  ASSUME NEW s, Sound(s), NEW e \in Event
  PROVE  Keeps(s, Applied(s, e))
<1> DEFINE t == Inserted(s, e)
<1>1. Keeps(s, t)
  BY InsertedType, KeepsMore DEF Sound
<1>2. Keeps(t, Compacted(t, FALSE))
  BY <1>1, CompactedKeeps DEF Keeps
<1> QED
  BY <1>1, <1>2, KeepsOn DEF Applied

LEMMA MutateKeeps ==
  ASSUME NEW r \in Replicas, NEW s, Sound(s), s.localSeq < MaxOps,
         NEW deps \in SUBSET OpId
  PROVE  LET e == NewEvent(s, r, deps)
             t == Appended(s, e)
         IN  /\ e \in Event
             /\ Keeps(s, t)
             /\ Keeps(t, Compacted(t, FALSE))
             /\ Keeps(s, Compacted(t, FALSE))
<1> USE BoundsAssumption
<1> DEFINE e == NewEvent(s, r, deps)
           n == s.localSeq + 1
           l == s.lamport + 1
           c == [s.clock EXCEPT ![r] = @ + 1]
           E == s.events \cup {e}
           o == Recorded(s.opsSince)
           t == [s EXCEPT !.localSeq = n, !.lamport = l, !.clock = c,
                          !.events = E, !.opsSince = o]
<1>1. s \in Store
  BY DEF Sound
<1>2. e \in Event /\ e.author = r
  BY <1>1 DEF Store, Event, NewEvent
<1>3. t = Appended(s, e)
  BY <1>2 DEF Appended
<1> HIDE DEF e
<1>4. n \in 0..MaxOps /\ l \in Nat /\ c \in Clock /\ E \in SUBSET Event
      /\ o \in 0..Interval
  BY <1>1, <1>2 DEF Store, Clock, Recorded, Smaller
<1> HIDE DEF n, l, c, o
<1>5. t \in Store /\ t.snapshot = s.snapshot /\ t.events = E
  BY <1>1, <1>4 DEF Store
<1>6. Keeps(s, t)
  BY <1>5, KeepsMore
<1> HIDE DEF t
<1>7. Keeps(t, Compacted(t, FALSE))
  BY <1>6, CompactedKeeps DEF Keeps
<1>8. Keeps(s, Compacted(t, FALSE))
  BY <1>6, <1>7, KeepsOn
<1> QED
  BY <1>2, <1>3, <1>6, <1>7, <1>8 DEF e

LEMMA IngestedKeeps ==
  ASSUME NEW s, Sound(s), NEW e \in Event
  PROVE  Keeps(s, Ingested(s, e))
<1> DEFINE t == [s EXCEPT !.pending = Append(@, e)]
<1>1. s \in Store /\ Exact(s)
  BY DEF Sound
<1>2. t \in Store
  <2>1. Append(s.pending, e) \in Seq(Event)
    BY <1>1 DEF Store
  <2> QED
    BY <1>1, <2>1 DEF Store
<1>3. t.snapshot = s.snapshot /\ t.events = s.events
  BY <1>1 DEF Store
<1>4. Keeps(s, t) /\ Keeps(s, s)
  BY <1>2, <1>3, KeepsMore, KeepsItself
<1>5. Keeps(s, Applied(s, e))
  BY AppliedKeeps
<1> QED
  BY <1>4, <1>5 DEF Ingested

LEMMA InstalledKeeps ==
  ASSUME NEW s, Sound(s), NEW r \in Replicas, NEW m,
         m.vector \in Vector, m.state \in Seq(SUBSET Event),
         Faithful(m.state, m.vector),
         ~Concurrent(s, m.vector)
  PROVE  Keeps(s, Installed(s, r, m))
<1> USE BoundsAssumption
<1> DEFINE t == Installed(s, r, m)
<1>1. s \in Store /\ Exact(s)
  BY DEF Sound
<1>2. Merge(s.clock, m.vector) \in Clock
  BY <1>1 DEF Store, Vector, Clock, Merge, Larger
<1>3. Larger(s.localSeq, m.vector[r]) \in 0..MaxOps
  BY <1>1 DEF Store, Vector, Larger
<1>4. t \in Store
  BY <1>1, <1>2, <1>3 DEF Store, Snapshot, Installed
<1>5. /\ t.snapshot = [vector |-> m.vector, state |-> m.state]
      /\ t.events = {e \in s.events : e.seq > m.vector[e.author]}
  BY <1>1 DEF Store, Installed
<1>6. Sound(t)
  BY <1>4, <1>5 DEF Sound, Exact
<1>9. Dominates(m.vector, s.snapshot.vector)
  BY <1>1 DEF Concurrent, Dominates, Store, Snapshot, Vector
<1>7. Below(s.snapshot.vector) \subseteq Below(m.vector)
  <2>1. \A a \in Replicas : s.snapshot.vector[a] <= m.vector[a]
    BY <1>9 DEF Dominates
  <2>2. s.snapshot.vector \in Vector
    BY <1>1 DEF Store, Snapshot
  <2> QED
    BY <2>1, <2>2 DEF Below, OpId, Vector
<1>8. ASSUME NEW e \in s.events, e \notin t.events
      PROVE  Id(e) \in Below(m.vector)
  <2>1. e \in Event
    BY <1>1 DEF Store
  <2> QED
    BY <1>5, <1>8, <2>1 DEF Event, Vector, Id, Below, OpId
<1> QED
  BY <1>5, <1>6, <1>7, <1>8, <1>9 DEF Keeps, Has, Ids

LEMMA WithoutType ==
  ASSUME NEW q \in Seq(Event), NEW k \in DOMAIN q
  PROVE  Without(q, k) \in Seq(Event)
<1>1. k \in 1..Len(q) /\ Len(q) \in Nat
  OBVIOUS
<1>2. SubSeq(q, 1, k - 1) \in Seq(Event)
  <2>1. \A i \in 1..(k - 1) : q[i] \in Event
    BY <1>1
  <2> QED
    BY <1>1, <2>1
<1>3. SubSeq(q, k + 1, Len(q)) \in Seq(Event)
  <2>1. \A i \in (k + 1)..Len(q) : q[i] \in Event
    BY <1>1
  <2> QED
    BY <1>1, <2>1
<1> QED
  BY <1>2, <1>3 DEF Without

\* The drain takes one parked operation.
LEMMA WithoutSubset ==
  ASSUME NEW q \in Seq(Event), NEW k \in DOMAIN q,
         NEW i \in DOMAIN Without(q, k)
  PROVE  \E j \in DOMAIN q : Without(q, k)[i] = q[j]
<1> DEFINE a == SubSeq(q, 1, k - 1)
           b == SubSeq(q, k + 1, Len(q))
<1>1. k \in 1..Len(q) /\ Len(q) \in Nat
  OBVIOUS
<1>2. a \in Seq(Event) /\ Len(a) = k - 1 /\ \A j \in 1..(k - 1) : a[j] = q[j]
  <2>1. \A j \in 1..(k - 1) : q[j] \in Event
    BY <1>1
  <2> QED
    BY <1>1, <2>1
<1>3. b \in Seq(Event) /\ Len(b) = Len(q) - k /\ \A j \in 1..(Len(q) - k) : b[j] = q[k + j]
  <2>1. \A j \in (k + 1)..Len(q) : q[j] \in Event
    BY <1>1
  <2> QED
    BY <1>1, <2>1
<1>4. Without(q, k) = a \o b
  BY DEF Without
<1> HIDE DEF a, b
<1>5. /\ DOMAIN (a \o b) = 1..(Len(a) + Len(b))
      /\ \A j \in 1..(Len(a) + Len(b)) :
            (a \o b)[j] = IF j <= Len(a) THEN a[j] ELSE b[j - Len(a)]
  <2>1. /\ a \o b \in Seq(Event) /\ Len(a \o b) = Len(a) + Len(b)
        /\ \A j \in 1..(Len(a) + Len(b)) :
              (a \o b)[j] = IF j <= Len(a) THEN a[j] ELSE b[j - Len(a)]
    BY <1>2, <1>3, ConcatProperties, Zenon
  <2> QED
    BY <2>1
<1>6. i \in 1..(Len(q) - 1)
  BY <1>1, <1>2, <1>3, <1>4, <1>5
<1>7. CASE i <= k - 1
  <2>1. Without(q, k)[i] = q[i] /\ i \in 1..Len(q)
    BY <1>1, <1>2, <1>3, <1>4, <1>5, <1>6, <1>7
  <2> QED
    BY <2>1
<1>8. CASE ~(i <= k - 1)
  <2>1. (a \o b)[i] = b[i - (k - 1)] /\ i - (k - 1) \in 1..(Len(q) - k)
    BY <1>1, <1>2, <1>3, <1>5, <1>6, <1>8
  <2>2. b[i - (k - 1)] = q[k + (i - (k - 1))] /\ k + (i - (k - 1)) \in 1..Len(q)
    BY <1>1, <1>3, <2>1
  <2> QED
    BY <1>4, <2>1, <2>2
<1> QED
  BY <1>7, <1>8

-----------------------------------------------------------------------------
(* Stores whose snapshot counts nothing *)

LEMMA ZeroIsLeast ==
  ASSUME NEW v \in Vector, Dominates(Zero, v)
  PROVE  v = Zero
<1>1. \A a \in Replicas : v[a] = 0
  BY BoundsAssumption DEF Dominates, Zero, Vector
<1> QED
  BY <1>1 DEF Vector, Zero

LEMMA PlainBefore ==
  ASSUME NEW s, Sound(s), NEW t, Keeps(s, t), t.snapshot.vector = Zero
  PROVE  s.snapshot.vector = Zero
BY ZeroIsLeast DEF Keeps, Sound, Store, Snapshot

\* Then a dependency is met by the journal alone.
LEMMA SatisfiedPlain ==
  ASSUME NEW s \in Store, s.snapshot.vector = Zero, NEW e \in Event
  PROVE  Satisfied(s, e) <=> \A d \in e.deps : HasOp(s, d)
<1>1. ASSUME NEW d \in e.deps
      PROVE  ~(d[2] <= s.snapshot.vector[d[1]])
  <2>1. d[1] \in Replicas /\ d[2] \in 1..MaxOps
    BY DEF Event, OpId
  <2> QED
    BY <2>1, BoundsAssumption DEF Zero
<1> QED
  BY <1>1 DEF Satisfied

\* A compaction that leaves the vector at zero was none.
LEMMA CompactedPlain ==
  ASSUME NEW s, Sound(s), NEW force, Compacted(s, force).snapshot.vector = Zero
  PROVE  LET t == Compacted(s, force)
         IN  /\ t.events = s.events /\ t.lamport = s.lamport
             /\ t.localSeq = s.localSeq /\ t.pending = s.pending
<1> DEFINE u == [s EXCEPT !.snapshot = [vector |-> Contiguous(s),
                                        state  |-> Then(s.snapshot.state, Baked(s))],
                          !.clock    = Merge(s.clock, Contiguous(s)),
                          !.events   = {e \in s.events : Id(e) \notin SafeCut(s)},
                          !.opsSince = 0]
<1>1. s \in Store
  BY DEF Sound
<1>2. CASE ~Due(s, force)
  BY <1>2 DEF Compacted
<1>3. CASE Due(s, force)
  <2>1. Compacted(s, force) = u
    BY <1>3 DEF Compacted
  <2>2. /\ u.snapshot.vector = Contiguous(s)
        /\ u.events = {e \in s.events : Id(e) \notin SafeCut(s)}
        /\ u.lamport = s.lamport
        /\ u.localSeq = s.localSeq /\ u.pending = s.pending
    BY <1>1 DEF Store
  <2> HIDE DEF u
  <2>3. Contiguous(s) = Zero
    BY <2>1, <2>2
  <2>4. SafeCut(s) = {}
    BY <2>3, BoundsAssumption DEF SafeCut, Below, Zero, OpId
  <2> QED
    BY <2>1, <2>2, <2>4
<1> QED
  BY <1>2, <1>3

LEMMA AppliedPlain ==
  ASSUME NEW s, Sound(s), Ordered(s), s.snapshot.vector = Zero,
         NEW e \in Event, Satisfied(s, e),
         Applied(s, e).snapshot.vector = Zero
  PROVE  /\ Takes(s, Applied(s, e), e)
         /\ Applied(s, e).pending = s.pending
<1> DEFINE t == Inserted(s, e)
           u == Applied(s, e)
<1>1. s \in Store /\ Keeps(s, t)
  <2>1. s \in Store
    BY DEF Sound
  <2>2. t \in Store /\ t.snapshot = s.snapshot /\ t.events = s.events \cup {e}
    BY <2>1, InsertedType
  <2> QED
    BY <2>1, <2>2, KeepsMore
<1>2. /\ t.events = s.events \cup {e}
      /\ t.lamport = Larger(s.lamport, e.lamport) + 1
      /\ t.localSeq = s.localSeq /\ t.pending = s.pending
  BY <1>1 DEF Store, Inserted
<1>3. u = Compacted(t, FALSE)
  BY DEF Applied
<1> HIDE DEF t, u
<1>4. /\ u.events = t.events /\ u.lamport = t.lamport
      /\ u.localSeq = t.localSeq /\ u.pending = t.pending
  BY <1>1, <1>3, CompactedPlain DEF u, Keeps
<1>5. ASSUME NEW f \in u.events
      PROVE  f.lamport <= u.lamport /\ \A d \in f.deps : HasOp(u, d)
  <2>1. /\ f \in Event /\ s.lamport \in Nat /\ e.lamport \in Nat
        /\ f.lamport \in Nat
    BY <1>1, <1>2, <1>4, <1>5 DEF Store, Event
  <2>2. \A d : HasOp(s, d) => HasOp(u, d)
    BY <1>2, <1>4 DEF HasOp, Live
  <2>3. CASE f = e
    BY <1>1, <1>2, <1>4, <2>1, <2>2, <2>3, SatisfiedPlain DEF Larger
  <2>4. CASE f \in s.events
    BY <1>2, <1>4, <2>1, <2>2, <2>4 DEF Larger, Ordered
  <2> QED
    BY <1>2, <1>4, <2>3, <2>4
<1> QED
  BY <1>2, <1>4, <1>5 DEF Takes, Ordered, Parked, u

LEMMA IngestedPlain ==
  ASSUME NEW s, Sound(s), Ordered(s), NEW e \in Event,
         Ingested(s, e).snapshot.vector = Zero
  PROVE  /\ Takes(s, Ingested(s, e), e)
         /\ Unblocked(s) = {} /\ ~Unblocks(s, e) => Unblocked(Ingested(s, e)) = {}
<1> DEFINE p == [s EXCEPT !.pending = Append(@, e)]
<1>1. s \in Store
  BY DEF Sound
<1>2. s.snapshot.vector = Zero
  BY IngestedKeeps, PlainBefore
<1>3. Takes(s, s, e)
  BY DEF Takes
<1>4. CASE IsDuplicate(s, e)
  BY <1>3, <1>4 DEF Ingested
<1>5. CASE ~IsDuplicate(s, e) /\ Accepts(s, e)
  <2>1. Ingested(s, e) = Applied(s, e)
    BY <1>5 DEF Ingested
  <2> QED
    BY <1>2, <1>5, <2>1, AppliedPlain DEF Accepts, Unblocks
<1>6. CASE ~IsDuplicate(s, e) /\ ~Accepts(s, e) /\ Len(s.pending) >= MaxPending
  BY <1>3, <1>6 DEF Ingested
<1>7. CASE ~IsDuplicate(s, e) /\ ~Accepts(s, e) /\ ~(Len(s.pending) >= MaxPending)
  <2>1. Ingested(s, e) = p
    BY <1>7 DEF Ingested
  <2>2. /\ p.events = s.events /\ p.localSeq = s.localSeq /\ p.lamport = s.lamport
        /\ p.snapshot = s.snapshot /\ p.pending = Append(s.pending, e)
    BY <1>1 DEF Store
  <2>3. s.pending \in Seq(Event)
    BY <1>1 DEF Store
  <2>4. /\ DOMAIN s.pending = 1..Len(s.pending)
        /\ DOMAIN p.pending = 1..(Len(s.pending) + 1)
        /\ \A k \in 1..Len(s.pending) : p.pending[k] = s.pending[k]
        /\ p.pending[Len(s.pending) + 1] = e
        /\ Len(s.pending) \in Nat
    BY <2>2, <2>3
  <2> HIDE DEF p
  <2>5. Parked(p) \subseteq Parked(s) \cup {e}
    <3>1. ASSUME NEW k \in 1..(Len(s.pending) + 1)
          PROVE  p.pending[k] \in Parked(s) \cup {e}
      <4>1. k \in 1..Len(s.pending) \/ k = Len(s.pending) + 1
        BY <2>4
      <4> QED
        BY <2>4, <4>1 DEF Parked
    <3> QED
      BY <2>4, <3>1 DEF Parked
  <2>6. Ordered(p)
    BY <2>2 DEF Ordered, HasOp, Live
  <2>7. \A f : Satisfied(p, f) <=> Satisfied(s, f)
    BY <2>2 DEF Satisfied, HasOp, Live
  <2>8. Unblocked(s) = {} => Unblocked(p) = {}
    <3>1. ASSUME NEW k \in Unblocked(p), Unblocked(s) = {}
          PROVE  FALSE
      <4>1. k \in 1..Len(s.pending) \/ k = Len(s.pending) + 1
        BY <2>4, <3>1 DEF Unblocked
      <4>2. CASE k \in 1..Len(s.pending)
        BY <2>4, <2>7, <3>1, <4>2 DEF Unblocked
      <4>3. CASE k = Len(s.pending) + 1
        BY <1>7, <2>4, <2>7, <3>1, <4>3 DEF Unblocked, Accepts
      <4> QED
        BY <4>1, <4>2, <4>3
    <3> QED
      BY <3>1
  <2> QED
    BY <2>1, <2>2, <2>5, <2>6, <2>8 DEF Takes
<1> QED
  BY <1>4, <1>5, <1>6, <1>7

\* Such a state has one batch, the journal.
LEMMA PlainState ==
  ASSUME NEW s, Sound(s), s.snapshot.vector = Zero,
         NEW k \in DOMAIN State(s), NEW e \in State(s)[k]
  PROVE  State(s)[k] = s.events
<1> DEFINE state == s.snapshot.state
<1>1. s \in Store /\ state \in Seq(SUBSET Event) /\ s.events \subseteq Event
  BY DEF Sound, Store, Snapshot
<1>2. Beyond(s) = s.events
  <2>1. \A f \in s.events : f.seq > s.snapshot.vector[f.author]
    BY <1>1, BoundsAssumption DEF Event, Zero
  <2> QED
    BY <2>1 DEF Beyond
<1>3. \A j \in DOMAIN state : state[j] = {}
  <2>1. Folded(state) = {}
    BY BoundsAssumption DEF Sound, Exact, Faithful, Below, Zero, OpId
  <2> QED
    BY <2>1 DEF Folded, Ids
<1>4. CASE s.events = {}
  BY <1>2, <1>3, <1>4 DEF State, Then
<1>5. CASE s.events # {}
  <2>1. State(s) = Append(state, s.events)
    BY <1>2, <1>5 DEF State, Then
  <2>2. k \in 1..Len(state) \/ k = Len(state) + 1
    BY <1>1, <2>1
  <2>3. CASE k \in 1..Len(state)
    BY <1>1, <1>3, <2>1, <2>3
  <2> QED
    BY <1>1, <2>1, <2>2, <2>3
<1> QED
  BY <1>4, <1>5

-----------------------------------------------------------------------------
(* Stores on a wire *)

Snapshots ==
    /\ \A r \in Replicas : Exact(stores[r])
    /\ \A m \in net : m.type = "snapshot" => Faithful(m.state, m.vector)

IInv == TypeOK /\ Snapshots

-----------------------------------------------------------------------------
(* What a packet header does to a store, and packets *)

LEMMA HeardKeeps ==
  ASSUME NEW s, Sound(s), NEW m, m.from \in Replicas, m.vector \in Clock
  PROVE  Keeps(s, Heard(s, m))
<1> DEFINE t == Heard(s, m)
<1>1. s \in Store /\ Exact(s)
  BY DEF Sound
<1>2. t \in Store /\ t.snapshot = s.snapshot /\ t.events = s.events
  BY <1>1 DEF Store, Heard
<1> QED
  BY <1>2, KeepsMore

LEMMA PacketFields ==
  ASSUME IInv, NEW m \in net
  PROVE  /\ m.from \in Replicas /\ m.to \in Replicas /\ m.vector \in Clock
         /\ m.type = "op" => m.op \in Event
         /\ m.type = "response" => m.events \in SUBSET Event
         /\ m.type = "snapshot" => /\ m.vector \in Vector
                                   /\ m.state \in Seq(SUBSET Event)
                                   /\ Faithful(m.state, m.vector)
<1>1. m \in Packet
  BY DEF IInv, TypeOK
<1>2. m.type = "snapshot" => Faithful(m.state, m.vector)
  BY DEF IInv, Snapshots
<1> QED
  BY <1>1, <1>2, BoundsAssumption DEF Packet, Vector, Clock

LEMMA AskedIsPacket ==
  ASSUME NEW r \in Replicas, NEW s \in Store, NEW e \in Event
  PROVE  /\ Asked(r, s, e) \subseteq Packet
         /\ \A m \in Asked(r, s, e) : m.type # "snapshot"
<1>1. e.author \in Replicas /\ s.clock \in Clock
  BY DEF Event, Store
<1> QED
  BY <1>1 DEF Asked, Packet

LEMMA Invariance ==
  ASSUME IInv
  PROVE  \A r \in Replicas : Sound(stores[r])
BY DEF IInv, TypeOK, Snapshots, Sound

\* A step that gives replica r the store t and leaves the others alone.
LEMMA StoreStep ==
  ASSUME IInv, NEW r \in Replicas, NEW t, Keeps(stores[r], t),
         stores' = [stores EXCEPT ![r] = t]
  PROVE  /\ stores' \in [Replicas -> Store]
         /\ \A p \in Replicas : Keeps(stores[p], stores'[p])
<1>1. \A p \in Replicas : Sound(stores[p])
  BY Invariance
<1>2. t \in Store
  BY DEF Keeps, Sound
<1>3. stores \in [Replicas -> Store]
  BY DEF IInv, TypeOK
<1>4. \A p \in Replicas : stores'[p] = IF p = r THEN t ELSE stores[p]
  BY <1>3
<1> QED
  BY <1>1, <1>2, <1>3, <1>4, KeepsItself

\* What has to be shown of a step.
Good == /\ stores' \in [Replicas -> Store]
        /\ todo' \in [Replicas -> SUBSET Event]
        /\ draining' \in [Replicas -> BOOLEAN]
        /\ net' \subseteq Packet
        /\ \A m \in net' : m.type = "snapshot" => Faithful(m.state, m.vector)
        /\ \A p \in Replicas : Keeps(stores[p], stores'[p])

LEMMA MutateGood ==
  ASSUME IInv, NEW r \in Replicas, NEW deps \in SUBSET OpId, Mutate(r, deps)
  PROVE  Good
<1> DEFINE s == stores[r]
           e == NewEvent(s, r, deps)
           t == Appended(s, e)
           sent == [type : {"op"}, from : {r}, to : Replicas \ {r},
                    op : {e}, vector : {Contiguous(t)}]
<1>1. s.localSeq < MaxOps /\ Sound(s)
  BY Invariance DEF Mutate
<1>2. /\ stores' = [stores EXCEPT ![r] = Compacted(t, FALSE)]
      /\ net' = net \cup sent
      /\ UNCHANGED <<todo, draining>>
  BY DEF Mutate
<1> HIDE DEF s
<1>3. e \in Event /\ Keeps(s, t) /\ Keeps(s, Compacted(t, FALSE))
  BY <1>1, MutateKeeps
<1> HIDE DEF e, t
<1>4. Contiguous(t) \in Vector
  BY <1>3, ContiguousType DEF Keeps, Sound
<1>5. sent \subseteq Packet /\ \A m \in sent : m.type # "snapshot"
  BY <1>3, <1>4 DEF Packet
<1>6. /\ stores' \in [Replicas -> Store]
      /\ \A p \in Replicas : Keeps(stores[p], stores'[p])
  BY <1>2, <1>3, StoreStep DEF s
<1> HIDE DEF sent
<1> QED
  BY <1>2, <1>5, <1>6 DEF Good, IInv, TypeOK, Snapshots

\* ingestOperation() for an event e, after the store became s.
LEMMA IngestGood ==
  ASSUME IInv, NEW r \in Replicas, NEW s, Keeps(stores[r], s),
         NEW e \in Event, Ingest(r, s, e)
  PROVE  /\ stores' \in [Replicas -> Store]
         /\ draining' \in [Replicas -> BOOLEAN]
         /\ \A p \in Replicas : Keeps(stores[p], stores'[p])
         /\ Asked(r, s, e) \subseteq Packet
         /\ \A m \in Asked(r, s, e) : m.type # "snapshot"
<1>1. Keeps(s, Ingested(s, e))
  BY IngestedKeeps DEF Keeps
<1>2. Keeps(stores[r], Ingested(s, e))
  BY <1>1, Invariance, KeepsOn
<1>3. stores' = [stores EXCEPT ![r] = Ingested(s, e)]
  BY DEF Ingest
<1>4. /\ stores' \in [Replicas -> Store]
      /\ \A p \in Replicas : Keeps(stores[p], stores'[p])
  BY <1>2, <1>3, StoreStep
<1>5. draining' \in [Replicas -> BOOLEAN]
  BY DEF Ingest, IInv, TypeOK, Unblocks
<1>6. s \in Store
  BY DEF Keeps, Sound
<1> QED
  BY <1>4, <1>5, <1>6, AskedIsPacket

LEMMA ReceiveOpGood ==
  ASSUME IInv, NEW r \in Replicas, NEW m \in net, ReceiveOp(r, m)
  PROVE  Good
<1> DEFINE s == Heard(stores[r], m)
<1>1. m.from \in Replicas /\ m.vector \in Clock /\ m.op \in Event
  BY PacketFields DEF ReceiveOp, Arrives
<1>2. Keeps(stores[r], s)
  BY <1>1, Invariance, HeardKeeps
<1>3. /\ Ingest(r, s, m.op)
      /\ net' = (net \ {m}) \cup Asked(r, s, m.op)
      /\ UNCHANGED todo
  BY DEF ReceiveOp
<1> HIDE DEF s
<1> QED
  BY <1>1, <1>2, <1>3, IngestGood DEF Good, IInv, TypeOK, Snapshots

LEMMA IngestNextGood ==
  ASSUME IInv, NEW r \in Replicas, IngestNext(r)
  PROVE  Good
<1>1. PICK e \in todo[r] : /\ Ingest(r, stores[r], e)
                           /\ todo' = [todo EXCEPT ![r] = @ \ {e}]
                           /\ net' = net \cup Asked(r, stores[r], e)
  BY DEF IngestNext
<1>2. e \in Event /\ todo' \in [Replicas -> SUBSET Event]
  BY <1>1 DEF IInv, TypeOK
<1>3. Keeps(stores[r], stores[r])
  BY Invariance, KeepsItself
<1> QED
  BY <1>1, <1>2, <1>3, IngestGood DEF Good, IInv, TypeOK, Snapshots

LEMMA DrainGood ==
  ASSUME IInv, NEW r \in Replicas, Drain(r)
  PROVE  Good
<1> DEFINE s == stores[r]
<1>1. PICK k \in Unblocked(s) :
         LET e == s.pending[k]
             rest == [s EXCEPT !.pending = Without(@, k)]
             left == IF HasOp(rest, Id(e)) THEN rest ELSE Applied(rest, e)
         IN  /\ stores' = [stores EXCEPT ![r] = left]
             /\ draining' = [draining EXCEPT ![r] = Unblocked(left) # {}]
  BY DEF Drain
<1> DEFINE e == s.pending[k]
           rest == [s EXCEPT !.pending = Without(@, k)]
           left == IF HasOp(rest, Id(e)) THEN rest ELSE Applied(rest, e)
<1>2. s \in Store /\ Exact(s)
  BY Invariance DEF Sound
<1>3. s.pending \in Seq(Event) /\ k \in DOMAIN s.pending
  BY <1>2 DEF Store, Unblocked
<1>4. e \in Event /\ Without(s.pending, k) \in Seq(Event)
  BY <1>3, WithoutType
<1>5. rest \in Store /\ rest.snapshot = s.snapshot /\ rest.events = s.events
  BY <1>2, <1>4 DEF Store
<1>6. Keeps(s, rest)
  BY <1>2, <1>5, KeepsMore DEF Sound
<1> HIDE DEF rest, e
<1>7. Keeps(rest, Applied(rest, e))
  BY <1>4, <1>6, AppliedKeeps DEF Keeps
<1>8. Keeps(s, left)
  BY <1>2, <1>6, <1>7, KeepsOn DEF Sound
<1>9. stores' = [stores EXCEPT ![r] = left] /\ draining' \in [Replicas -> BOOLEAN]
  BY <1>1 DEF rest, e, IInv, TypeOK
<1>10. UNCHANGED <<todo, net>>
  BY DEF Drain
<1> HIDE DEF left, s
<1>11. /\ stores' \in [Replicas -> Store]
       /\ \A p \in Replicas : Keeps(stores[p], stores'[p])
  BY <1>8, <1>9, StoreStep DEF s
<1> QED
  BY <1>9, <1>10, <1>11 DEF Good, IInv, TypeOK, Snapshots

LEMMA AnswerWithDeltasGood ==
  ASSUME IInv, NEW r \in Replicas, NEW m \in net, AnswerWithDeltas(r, m)
  PROVE  Good
<1> DEFINE s == Heard(stores[r], m)
           answer == [type |-> "response", from |-> r, to |-> m.from,
                      events |-> Deltas(s, m.vector), vector |-> s.clock]
<1>1. m.from \in Replicas /\ m.vector \in Clock
  BY PacketFields
<1>2. Keeps(stores[r], s)
  BY <1>1, Invariance, HeardKeeps
<1>3. /\ stores' = [stores EXCEPT ![r] = s]
      /\ net' = (net \ {m}) \cup {answer}
      /\ UNCHANGED <<todo, draining>>
  BY DEF AnswerWithDeltas
<1> HIDE DEF s
<1>4. Deltas(s, m.vector) \in SUBSET Event /\ s.clock \in Clock
  BY <1>2 DEF Keeps, Sound, Store, Deltas
<1>5. answer \in Packet /\ answer.type # "snapshot"
  BY <1>1, <1>4 DEF Packet
<1> HIDE DEF answer
<1>6. /\ stores' \in [Replicas -> Store]
      /\ \A p \in Replicas : Keeps(stores[p], stores'[p])
  BY <1>2, <1>3, StoreStep
<1> QED
  BY <1>3, <1>5, <1>6 DEF Good, IInv, TypeOK, Snapshots

LEMMA AnswerWithSnapshotGood ==
  ASSUME IInv, NEW r \in Replicas, NEW m \in net, AnswerWithSnapshot(r, m)
  PROVE  Good
<1> DEFINE s == Heard(stores[r], m)
           t == Compacted(s, TRUE)
           answer == [type |-> "snapshot", from |-> r, to |-> m.from,
                      vector |-> t.snapshot.vector, state |-> t.snapshot.state]
<1>1. m.from \in Replicas /\ m.vector \in Clock
  BY PacketFields
<1>2. Keeps(stores[r], s)
  BY <1>1, Invariance, HeardKeeps
<1>3. Keeps(s, t)
  BY <1>2, CompactedKeeps DEF Keeps
<1>4. /\ stores' = [stores EXCEPT ![r] = t]
      /\ net' = (net \ {m}) \cup {answer}
      /\ UNCHANGED <<todo, draining>>
  BY DEF AnswerWithSnapshot
<1> HIDE DEF s, t
<1>5. Keeps(stores[r], t)
  BY <1>2, <1>3, Invariance, KeepsOn
<1>6. /\ t.snapshot.vector \in Vector
      /\ t.snapshot.state \in Seq(SUBSET Event)
      /\ Faithful(t.snapshot.state, t.snapshot.vector)
  BY <1>5 DEF Keeps, Sound, Exact, Store, Snapshot
<1>7. answer \in Packet /\ Faithful(answer.state, answer.vector)
  BY <1>1, <1>6 DEF Packet
<1> HIDE DEF answer
<1>8. /\ stores' \in [Replicas -> Store]
      /\ \A p \in Replicas : Keeps(stores[p], stores'[p])
  BY <1>4, <1>5, StoreStep
<1> QED
  BY <1>4, <1>7, <1>8 DEF Good, IInv, TypeOK, Snapshots

LEMMA ReceiveResponseGood ==
  ASSUME IInv, NEW r \in Replicas, NEW m \in net, ReceiveResponse(r, m)
  PROVE  Good
<1>1. m.from \in Replicas /\ m.vector \in Clock /\ m.events \in SUBSET Event
  BY PacketFields DEF ReceiveResponse, Arrives
<1>2. Keeps(stores[r], Heard(stores[r], m))
  BY <1>1, Invariance, HeardKeeps
<1>3. /\ stores' = [stores EXCEPT ![r] = Heard(stores[r], m)]
      /\ todo' = [todo EXCEPT ![r] = m.events]
      /\ net' = net \ {m}
      /\ UNCHANGED draining
  BY DEF ReceiveResponse
<1>4. /\ stores' \in [Replicas -> Store]
      /\ \A p \in Replicas : Keeps(stores[p], stores'[p])
  BY <1>2, <1>3, StoreStep
<1> QED
  BY <1>1, <1>3, <1>4 DEF Good, IInv, TypeOK, Snapshots

LEMMA ReceiveSnapshotGood ==
  ASSUME IInv, NEW r \in Replicas, NEW m \in net, ReceiveSnapshot(r, m)
  PROVE  Good
<1>1. /\ m.vector \in Vector
      /\ m.state \in Seq(SUBSET Event)
      /\ Faithful(m.state, m.vector)
  BY PacketFields DEF ReceiveSnapshot, Arrives
<1>2. net' = net \ {m} /\ UNCHANGED <<todo, draining>>
  BY DEF ReceiveSnapshot
<1>3. /\ stores' \in [Replicas -> Store]
      /\ \A p \in Replicas : Keeps(stores[p], stores'[p])
  <2>1. CASE UNCHANGED stores
    BY <2>1, Invariance, KeepsItself DEF IInv, TypeOK
  <2>2. CASE /\ ~Concurrent(stores[r], m.vector)
             /\ stores' = [stores EXCEPT ![r] = Installed(stores[r], r, m)]
    <3>1. Keeps(stores[r], Installed(stores[r], r, m))
      BY <1>1, <2>2, Invariance, InstalledKeeps
    <3> QED
      BY <2>2, <3>1, StoreStep
  <2> QED
    BY <2>1, <2>2 DEF ReceiveSnapshot
<1> QED
  BY <1>2, <1>3 DEF Good, IInv, TypeOK, Snapshots

LEMMA SyncWithGood ==
  ASSUME IInv, NEW r \in Replicas, NEW p \in Replicas, SyncWith(r, p)
  PROVE  Good
<1> DEFINE request == [type |-> "request", from |-> r, to |-> p,
                       vector |-> Contiguous(stores[r])]
<1>1. net' = net \cup {request} /\ UNCHANGED <<stores, todo, draining>>
  BY DEF SyncWith
<1>2. stores[r] \in Store
  BY DEF IInv, TypeOK
<1>3. Contiguous(stores[r]) \in Clock
  BY <1>2, ContiguousType, BoundsAssumption DEF Vector, Clock
<1>4. request \in Packet /\ request.type # "snapshot"
  BY <1>3 DEF Packet
<1> HIDE DEF request
<1> QED
  BY <1>1, <1>4, Invariance, KeepsItself DEF Good, IInv, TypeOK, Snapshots

\* Every step is good.
LEMMA StepGood ==
  ASSUME IInv, [Next]_vars
  PROVE  Good
<1>1. CASE UNCHANGED vars
  BY <1>1, Invariance, KeepsItself DEF Good, vars, IInv, TypeOK, Snapshots
<1>2. ASSUME NEW m \in net, Lose(m)
      PROVE  Good
  BY <1>2, Invariance, KeepsItself DEF Lose, Good, IInv, TypeOK, Snapshots
<1>3. ASSUME NEW r \in Replicas,
             \/ \E deps \in SUBSET OpId : Mutate(r, deps)
             \/ Drain(r) \/ IngestNext(r)
             \/ \E p \in Replicas : SyncWith(r, p)
             \/ \E m \in net : \/ ReceiveOp(r, m) \/ Answer(r, m)
                               \/ ReceiveResponse(r, m) \/ ReceiveSnapshot(r, m)
      PROVE  Good
  BY <1>3, MutateGood, DrainGood, IngestNextGood, SyncWithGood, ReceiveOpGood,
     AnswerWithDeltasGood, AnswerWithSnapshotGood, ReceiveResponseGood,
     ReceiveSnapshotGood DEF Answer
<1> QED
  BY <1>1, <1>2, <1>3 DEF Next

-----------------------------------------------------------------------------
LEMMA Initially == Init => IInv
<1> SUFFICES ASSUME Init PROVE IInv
  OBVIOUS
<1> USE BoundsAssumption
<1>1. Zero \in Vector /\ Zero \in Clock
  BY DEF Zero, Vector, Clock
<1>2. <<>> \in Seq(SUBSET Event) /\ <<>> \in Seq(Event) /\ DOMAIN <<>> = {}
  OBVIOUS
<1>3. [p \in Replicas |-> Zero] \in [Replicas -> Clock]
  BY <1>1
<1>4. NewStore \in Store
  BY <1>1, <1>2, <1>3 DEF NewStore, Store, Snapshot
<1>5. Folded(<<>>) = {} /\ Once(<<>>)
  BY <1>2 DEF Folded, Once
<1>6. Below(Zero) = {}
  BY DEF Below, Zero, OpId
<1>7. Exact(NewStore)
  BY <1>5, <1>6 DEF Exact, Faithful, NewStore
<1> QED
  BY <1>4, <1>7 DEF Init, IInv, TypeOK, Snapshots

LEMMA Inductive == IInv /\ [Next]_vars => IInv'
<1> SUFFICES ASSUME IInv, [Next]_vars PROVE IInv'
  OBVIOUS
<1>1. Good
  BY StepGood
<1>2. TypeOK'
  BY <1>1 DEF Good, TypeOK
<1>3. \A p \in Replicas : Exact(stores'[p])
  BY <1>1 DEF Good, Keeps, Sound
<1> QED
  BY <1>1, <1>2, <1>3 DEF IInv, Good, Snapshots, Exact

LEMMA Invariant == Spec => []IInv
BY Initially, Inductive, PTL DEF Spec

\* The types of stores and packets.
THEOREM TypeCorrect == Spec => []TypeOK
<1>1. IInv => TypeOK
  BY DEF IInv
<1> QED
  BY <1>1, Invariant, PTL

\* A snapshot never claims more than its state contains, nor less: for any
\* replicas, thresholds, losses and orders of arrival (bounded-memory.ts and
\* snapshot-transfer.ts:172).
THEOREM SnapshotCorrect == Spec => []SnapshotIsExact
<1>1. IInv => SnapshotIsExact
  BY DEF IInv, Snapshots, SnapshotIsExact, Exact, Faithful
<1> QED
  BY <1>1, Invariant, PTL

\* No step of any replica takes an applied operation out of its state: neither
\* compaction with a gap in the journal nor the installation of a snapshot.
THEOREM NothingLostCorrect == Spec => NothingLost
<1>1. IInv /\ [Next]_vars =>
         [\A r \in Replicas : Folded(State(stores[r])) \subseteq Folded(State(stores'[r]))]_vars
  <2> SUFFICES ASSUME IInv, [Next]_vars, NEW r \in Replicas
               PROVE  Folded(State(stores[r])) \subseteq Folded(State(stores'[r]))
    OBVIOUS
  <2>1. Sound(stores[r]) /\ Keeps(stores[r], stores'[r])
    BY Invariance, StepGood DEF Good
  <2> QED
    BY <2>1, StateIsHas DEF Keeps
<1> QED
  BY <1>1, Invariant, PTL DEF Spec, NothingLost

-----------------------------------------------------------------------------
(* The order of operations *)

\* The operations a packet carries, those replica r holds, and all of them.
Carried(m) == IF m.type = "op" THEN {m.op}
              ELSE IF m.type = "response" THEN m.events
              ELSE {}
Held(r) == stores[r].events \cup Parked(stores[r]) \cup todo[r]
Known == UNION ({Held(r) : r \in Replicas} \cup {Carried(m) : m \in net})

\* The author has numbered an operation so.
Issued(d) == d[2] <= stores[d[1]].localSeq

Chronicle ==
    /\ \A e \in Known : Issued(Id(e)) /\ \A d \in e.deps : Issued(d)
    /\ \A e, f \in Known : Id(e) = Id(f) => e = f
    /\ \A e, f \in Known : Id(f) \in e.deps => f.lamport < e.lamport

\* No parked operation waits for nothing.
Settled(r) == ~draining[r] => Unblocked(stores[r]) = {}

\* Before the first compaction.
Young ==
    Uncompacted => /\ Chronicle
                   /\ \A r \in Replicas : Ordered(stores[r]) /\ Settled(r)

LEMMA KnownType ==
  ASSUME IInv
  PROVE  Known \subseteq Event
<1>1. ASSUME NEW r \in Replicas
      PROVE  Held(r) \subseteq Event
  <2>1. stores[r] \in Store /\ todo[r] \subseteq Event
    BY DEF IInv, TypeOK
  <2>2. Parked(stores[r]) \subseteq Event
    BY <2>1 DEF Parked, Store
  <2> QED
    BY <2>1, <2>2 DEF Held, Store
<1>2. ASSUME NEW m \in net
      PROVE  Carried(m) \subseteq Event
  BY PacketFields DEF Carried
<1> QED
  BY <1>1, <1>2 DEF Known

LEMMA HeldIsKnown ==
  /\ \A r \in Replicas : /\ stores[r].events \subseteq Known
                         /\ Parked(stores[r]) \subseteq Known
                         /\ todo[r] \subseteq Known
  /\ \A m \in net : Carried(m) \subseteq Known
BY DEF Known, Held

\* Replica r gets the store t, which knows nothing new.
LEMMA YoungStep ==
  ASSUME IInv, Young, Uncompacted, NEW r \in Replicas, NEW t \in Store,
         stores' = [stores EXCEPT ![r] = t],
         t.events \cup Parked(t) \cup todo'[r] \subseteq Known,
         \A p \in Replicas \ {r} : todo'[p] = todo[p] /\ draining'[p] = draining[p],
         \A m \in net' : m \in net \/ Carried(m) \subseteq Known,
         t.localSeq = stores[r].localSeq,
         Ordered(t),
         ~draining'[r] => Unblocked(t) = {}
  PROVE  Young'
<1>1. \A p \in Replicas : stores'[p] = IF p = r THEN t ELSE stores[p]
  BY DEF IInv, TypeOK
<1>2. Known' \subseteq Known
  <2>1. ASSUME NEW p \in Replicas
        PROVE  Held(p)' \subseteq Known
    <3>1. Held(p)' = stores'[p].events \cup Parked(stores'[p]) \cup todo'[p]
      BY DEF Held, Parked
    <3>2. CASE p = r
      BY <1>1, <3>1, <3>2
    <3>3. CASE p # r
      BY <1>1, <3>1, <3>3, HeldIsKnown
    <3> QED
      BY <3>2, <3>3
  <2>2. \A m \in net' : Carried(m) \subseteq Known
    BY HeldIsKnown
  <2> QED
    BY <2>1, <2>2 DEF Known, Carried
<1>3. \A d : d[1] \in Replicas /\ Issued(d) => Issued(d)'
  BY <1>1 DEF Issued
<1>4. Chronicle'
  <2>1. Chronicle
    BY DEF Young
  <2>2. ASSUME NEW e \in Known
        PROVE  Issued(Id(e))' /\ \A d \in e.deps : Issued(d)'
    <3>1. e \in Event
      BY KnownType
    <3>2. Id(e)[1] \in Replicas /\ \A d \in e.deps : d[1] \in Replicas
      BY <3>1 DEF Event, Id, OpId
    <3> QED
      BY <1>3, <2>1, <3>2 DEF Chronicle
  <2> QED
    BY <1>2, <2>1, <2>2 DEF Chronicle
<1>5. ASSUME NEW p \in Replicas
      PROVE  Ordered(stores'[p]) /\ (~draining'[p] => Unblocked(stores'[p]) = {})
  BY <1>1 DEF Young, Settled
<1> QED
  BY <1>4, <1>5 DEF Young, Settled

\* A step that leaves r's journal, queue and number alone, and what others have.
LEMMA YoungHears ==
  ASSUME IInv, Young, Uncompacted, NEW r \in Replicas, NEW t \in Store,
         stores' = [stores EXCEPT ![r] = t],
         t.events = stores[r].events, t.pending = stores[r].pending,
         t.localSeq = stores[r].localSeq, t.lamport = stores[r].lamport,
         t.snapshot = stores[r].snapshot,
         todo'[r] \subseteq Known,
         \A p \in Replicas \ {r} : todo'[p] = todo[p],
         draining' = draining,
         \A m \in net' : m \in net \/ Carried(m) \subseteq Known
  PROVE  Young'
<1>1. Ordered(t)
  BY DEF Young, Ordered, HasOp, Live
<1>2. Unblocked(t) = Unblocked(stores[r])
  BY DEF Unblocked, Satisfied, HasOp, Live
<1>3. t.events \cup Parked(t) \subseteq Known
  BY HeldIsKnown DEF Parked
<1>4. ~draining'[r] => Unblocked(t) = {}
  BY <1>2 DEF Young, Settled
<1> QED
  BY <1>1, <1>3, <1>4, YoungStep

\* ingestOperation() for a known event e, after the store became s.
LEMMA YoungIngest ==
  ASSUME IInv, Young, Uncompacted, NEW r \in Replicas, NEW s, Sound(s),
         s.events = stores[r].events, s.pending = stores[r].pending,
         s.localSeq = stores[r].localSeq, s.lamport = stores[r].lamport,
         s.snapshot = stores[r].snapshot,
         ~draining[r],
         NEW e \in Known, Ingest(r, s, e), Uncompacted',
         todo'[r] \subseteq Known,
         \A p \in Replicas \ {r} : todo'[p] = todo[p],
         \A m \in net' : m \in net \/ Carried(m) \subseteq Known
  PROVE  Young'
<1> DEFINE t == Ingested(s, e)
<1>1. stores' = [stores EXCEPT ![r] = t] /\ draining' = [draining EXCEPT ![r] = Unblocks(s, e)]
  BY DEF Ingest
<1>2. e \in Event
  BY KnownType
<1>3. t \in Store
  BY <1>2, IngestedKeeps DEF Keeps, Sound
<1>4. t.snapshot.vector = Zero
  BY <1>1 DEF IInv, TypeOK, Uncompacted
<1>5. Ordered(s)
  BY DEF Young, Ordered, HasOp, Live
<1>6. Unblocked(s) = {}
  BY DEF Young, Settled, Unblocked, Satisfied, HasOp, Live
<1>7. Takes(s, t, e) /\ (~Unblocks(s, e) => Unblocked(t) = {})
  BY <1>2, <1>4, <1>5, <1>6, IngestedPlain
<1> HIDE DEF t
<1>8. t.events \cup Parked(t) \subseteq Known
  <2>1. s.events \cup Parked(s) \subseteq Known
    BY HeldIsKnown DEF Parked
  <2> QED
    BY <1>7, <2>1 DEF Takes
<1>9. /\ draining'[r] = Unblocks(s, e)
      /\ \A p \in Replicas \ {r} : draining'[p] = draining[p]
  BY <1>1 DEF IInv, TypeOK
<1> QED
  BY <1>1, <1>3, <1>7, <1>8, <1>9, YoungStep DEF Takes

LEMMA AskedCarriesNothing ==
  ASSUME NEW r, NEW s, NEW e, NEW m \in Asked(r, s, e)
  PROVE  Carried(m) = {}
BY DEF Asked, Carried

\* mutate(): a new operation depends on what is in the journal, and no parked
\* operation depends on it.
LEMMA MutateYoung ==
  ASSUME IInv, Young, Uncompacted, NEW r \in Replicas, NEW deps \in SUBSET OpId,
         Mutate(r, deps), Uncompacted'
  PROVE  Young'
<1> DEFINE s == stores[r]
           e == NewEvent(s, r, deps)
           t == Appended(s, e)
           u == Compacted(t, FALSE)
<1>1. /\ s \in Store /\ Sound(s) /\ s.snapshot.vector = Zero
      /\ Ordered(s) /\ Unblocked(s) = {} /\ ~draining[r] /\ Chronicle
  BY Invariance DEF Sound, Uncompacted, Young, Settled, Mutate, Idle
<1>2. s.localSeq < MaxOps /\ deps \subseteq Folded(State(s))
  BY DEF Mutate
<1>3. /\ stores' = [stores EXCEPT ![r] = u]
      /\ UNCHANGED <<todo, draining>>
      /\ \A m \in net' : m \in net \/ Carried(m) = {e}
  <2>1. net' = net \cup [type : {"op"}, from : {r}, to : Replicas \ {r},
                         op : {e}, vector : {Contiguous(t)}]
    BY DEF Mutate
  <2>2. \A m \in [type : {"op"}, from : {r}, to : Replicas \ {r},
                  op : {e}, vector : {Contiguous(t)}] : Carried(m) = {e}
    BY DEF Carried
  <2> QED
    BY <2>1, <2>2 DEF Mutate
<1>4. /\ e.author = r /\ e.seq = s.localSeq + 1 /\ e.lamport = s.lamport + 1
      /\ e.deps = deps /\ e \in Event
  BY <1>1, <1>2, BoundsAssumption DEF NewEvent, Store, Event
<1>5. Keeps(s, u) /\ Keeps(s, t) /\ Keeps(t, u)
  BY <1>1, <1>2, MutateKeeps
<1>6. /\ t.events = s.events \cup {e} /\ t.lamport = s.lamport + 1
      /\ t.localSeq = s.localSeq + 1 /\ t.pending = s.pending
  BY <1>1 DEF Store, Appended
<1>7. u.snapshot.vector = Zero
  BY <1>3 DEF IInv, TypeOK, Uncompacted
<1> HIDE DEF s, e, t, u
<1>8. /\ u.events = s.events \cup {e} /\ u.lamport = s.lamport + 1
      /\ u.localSeq = s.localSeq + 1 /\ u.pending = s.pending
  BY <1>5, <1>6, <1>7, CompactedPlain DEF Keeps, u
<1>9. \A p \in Replicas : stores'[p] = IF p = r THEN u ELSE stores[p]
  BY <1>3 DEF IInv, TypeOK
\* Whatever is known was known, or is the new operation.
<1>10. Known' \subseteq Known \cup {e}
  <2>1. ASSUME NEW p \in Replicas
        PROVE  Held(p)' \subseteq Known \cup {e}
    <3>1. Held(p)' = stores'[p].events \cup Parked(stores'[p]) \cup todo'[p]
      BY DEF Held, Parked
    <3> QED
      BY <1>3, <1>8, <1>9, <3>1, HeldIsKnown DEF s, Parked
  <2>2. \A m \in net' : Carried(m) \subseteq Known \cup {e}
    BY <1>3, HeldIsKnown
  <2> QED
    BY <2>1, <2>2 DEF Known, Carried
<1>11. \A d \in deps : \E f \in s.events : Id(f) = d
  <2>1. Folded(State(s)) = Below(Zero) \cup Ids(s.events)
    BY <1>1, StateIsHas DEF Has
  <2>2. Below(Zero) = {}
    BY BoundsAssumption DEF Below, Zero, OpId
  <2> QED
    BY <1>2, <2>1, <2>2 DEF Ids
<1> DEFINE Counted(d) == d[2] <= stores'[d[1]].localSeq
<1>12. ASSUME NEW d \in OpId, Issued(d)
       PROVE  Counted(d) /\ d # Id(e)
  <2>1. d[1] \in Replicas /\ d[2] \in Nat /\ \A p \in Replicas : stores[p].localSeq \in Nat
    BY BoundsAssumption DEF OpId, IInv, TypeOK, Store
  <2>2. CASE d[1] = r
    BY <1>4, <1>8, <1>9, <1>12, <2>1, <2>2 DEF Issued, Id, s
  <2>3. CASE d[1] # r
    BY <1>4, <1>9, <1>12, <2>1, <2>3 DEF Issued, Id
  <2> QED
    BY <2>2, <2>3
<1>13. Counted(Id(e))
  BY <1>1, <1>4, <1>8, <1>9 DEF Id, Store
<1> HIDE DEF Counted
<1>14. ASSUME NEW f \in Known
       PROVE  /\ f \in Event /\ Counted(Id(f)) /\ Id(f) # Id(e)
              /\ \A d \in f.deps : Counted(d) /\ d # Id(e)
  <2>1. f \in Event /\ Issued(Id(f)) /\ \A d \in f.deps : Issued(d)
    BY <1>1, KnownType DEF Chronicle
  <2>2. Id(f) \in OpId /\ f.deps \subseteq OpId
    BY <2>1 DEF Event, Id, OpId
  <2> QED
    BY <1>12, <2>1, <2>2
<1>15. \A f \in s.events : f \in Known
  BY HeldIsKnown DEF s
<1>16. Chronicle'
  <2>1. ASSUME NEW f \in Known'
        PROVE  Counted(Id(f)) /\ \A d \in f.deps : Counted(d)
    <3>1. CASE f = e
      BY <1>4, <1>11, <1>13, <1>14, <1>15, <3>1
    <3> QED
      BY <1>10, <1>14, <3>1
  <2>2. ASSUME NEW f \in Known', NEW g \in Known', Id(f) = Id(g)
        PROVE  f = g
    BY <1>1, <1>10, <1>14, <2>2 DEF Chronicle
  <2>3. ASSUME NEW f \in Known', NEW g \in Known', Id(g) \in f.deps
        PROVE  g.lamport < f.lamport
    <3>1. CASE f \in Known /\ g \in Known
      BY <1>1, <2>3, <3>1 DEF Chronicle
    <3>2. CASE f \in Known /\ g = e
      BY <1>14, <2>3, <3>2
    <3>3. CASE f = e /\ g \in Known
      <4>1. PICK h \in s.events : Id(h) = Id(g)
        BY <1>4, <1>11, <2>3, <3>3
      <4>2. h = g
        BY <1>1, <1>15, <3>3, <4>1 DEF Chronicle
      <4>3. g.lamport \in Nat /\ s.lamport \in Nat /\ g.lamport <= s.lamport
        BY <1>1, <1>14, <3>3, <4>2 DEF Ordered, Store, Event
      <4> QED
        BY <1>4, <3>3, <4>3
    <3>4. CASE f = e /\ g = e
      <4>1. PICK h \in s.events : Id(h) = Id(e)
        BY <1>4, <1>11, <2>3, <3>4
      <4> QED
        BY <1>14, <1>15, <4>1
    <3> QED
      BY <1>10, <3>1, <3>2, <3>3, <3>4
  <2> QED
    BY <2>1, <2>2, <2>3 DEF Chronicle, Issued, Counted
<1>17. Ordered(u)
  <2>1. \A d : HasOp(s, d) => HasOp(u, d)
    BY <1>8 DEF HasOp, Live
  <2>2. \A d \in deps : HasOp(u, d)
    BY <1>8, <1>11 DEF HasOp, Live, Id
  <2>3. ASSUME NEW f \in s.events
        PROVE  f.lamport <= u.lamport /\ \A d \in f.deps : HasOp(u, d)
    <3>1. f.lamport \in Nat /\ s.lamport \in Nat /\ f.lamport <= s.lamport
      BY <1>1 DEF Ordered, Store, Event
    <3> QED
      BY <1>1, <1>8, <2>1, <3>1 DEF Ordered
  <2>4. e.lamport <= u.lamport
    BY <1>1, <1>4, <1>8 DEF Store
  <2> QED
    BY <1>4, <1>8, <2>2, <2>3, <2>4 DEF Ordered
\* No parked operation depends on the new one.
<1>18. Unblocked(u) = {}
  <2>1. ASSUME NEW k \in Unblocked(u)
        PROVE  FALSE
    <3> DEFINE f == s.pending[k]
    <3>1. k \in DOMAIN s.pending /\ Satisfied(u, f)
      BY <1>8, <2>1 DEF Unblocked
    <3>2. f \in Known /\ f \in Event
      BY <3>1, HeldIsKnown, KnownType DEF Parked, s
    <3>3. u \in Store
      BY <1>5 DEF Keeps, Sound
    <3> HIDE DEF f
    <3>4. \A d \in f.deps : HasOp(u, d)
      BY <1>7, <3>1, <3>2, <3>3, SatisfiedPlain
    <3>5. \A d \in f.deps : d \in OpId /\ d # Id(e)
      BY <1>14, <3>2 DEF Event
    <3>6. \A d \in f.deps : HasOp(s, d)
      BY <1>8, <3>4, <3>5 DEF HasOp, Live, Id, OpId
    <3>7. Satisfied(s, f)
      BY <1>1, <3>2, <3>6, SatisfiedPlain
    <3> QED
      BY <1>1, <3>1, <3>7 DEF Unblocked, f
  <2> QED
    BY <2>1
<1>19. ASSUME NEW p \in Replicas
       PROVE  Ordered(stores'[p]) /\ (~draining'[p] => Unblocked(stores'[p]) = {})
  BY <1>3, <1>9, <1>17, <1>18 DEF Young, Settled
<1> QED
  BY <1>16, <1>19 DEF Young, Settled

LEMMA ReceiveOpYoung ==
  ASSUME IInv, Young, Uncompacted, NEW r \in Replicas, NEW m \in net,
         ReceiveOp(r, m), Uncompacted'
  PROVE  Young'
<1> DEFINE s == Heard(stores[r], m)
<1>1. /\ m.type = "op" /\ ~draining[r] /\ Ingest(r, s, m.op)
      /\ net' = (net \ {m}) \cup Asked(r, s, m.op)
      /\ UNCHANGED todo
  BY DEF ReceiveOp, Arrives, Idle
<1>2. m.op \in Known
  BY <1>1, HeldIsKnown DEF Carried
<1>3. Sound(s)
  BY PacketFields, Invariance, HeardKeeps DEF Keeps
<1>4. /\ s.events = stores[r].events /\ s.pending = stores[r].pending
      /\ s.localSeq = stores[r].localSeq /\ s.lamport = stores[r].lamport
      /\ s.snapshot = stores[r].snapshot
  BY DEF Heard, IInv, TypeOK, Store
<1> HIDE DEF s
<1>5. \A n \in net' : n \in net \/ Carried(n) \subseteq Known
  BY <1>1, AskedCarriesNothing
<1>6. todo'[r] \subseteq Known
  BY <1>1, HeldIsKnown
<1> QED
  BY <1>1, <1>2, <1>3, <1>4, <1>5, <1>6, YoungIngest

LEMMA IngestNextYoung ==
  ASSUME IInv, Young, Uncompacted, NEW r \in Replicas, IngestNext(r), Uncompacted'
  PROVE  Young'
<1>1. PICK e \in todo[r] : /\ Ingest(r, stores[r], e)
                           /\ todo' = [todo EXCEPT ![r] = @ \ {e}]
                           /\ net' = net \cup Asked(r, stores[r], e)
  BY DEF IngestNext
<1>2. e \in Known /\ ~draining[r] /\ Sound(stores[r])
  BY HeldIsKnown, Invariance DEF IngestNext
<1>3. \A n \in net' : n \in net \/ Carried(n) \subseteq Known
  BY <1>1, AskedCarriesNothing
<1>4. todo'[r] \subseteq Known /\ \A p \in Replicas \ {r} : todo'[p] = todo[p]
  BY <1>1, HeldIsKnown DEF IInv, TypeOK
<1> QED
  BY <1>1, <1>2, <1>3, <1>4, YoungIngest

LEMMA DrainYoung ==
  ASSUME IInv, Young, Uncompacted, NEW r \in Replicas, Drain(r), Uncompacted'
  PROVE  Young'
<1> DEFINE s == stores[r]
<1>1. PICK k \in Unblocked(s) :
         LET e == s.pending[k]
             rest == [s EXCEPT !.pending = Without(@, k)]
             left == IF HasOp(rest, Id(e)) THEN rest ELSE Applied(rest, e)
         IN  /\ stores' = [stores EXCEPT ![r] = left]
             /\ draining' = [draining EXCEPT ![r] = Unblocked(left) # {}]
  BY DEF Drain
<1> DEFINE e == s.pending[k]
           rest == [s EXCEPT !.pending = Without(@, k)]
           left == IF HasOp(rest, Id(e)) THEN rest ELSE Applied(rest, e)
<1>2. s \in Store /\ Sound(s) /\ s.snapshot.vector = Zero /\ Ordered(s)
  BY Invariance DEF Sound, Uncompacted, Young
<1>3. s.pending \in Seq(Event) /\ k \in DOMAIN s.pending /\ Satisfied(s, e)
  BY <1>2 DEF Store, Unblocked
<1>4. e \in Event /\ e \in Known /\ Without(s.pending, k) \in Seq(Event)
  BY <1>3, WithoutType, HeldIsKnown DEF Parked
<1>5. /\ rest \in Store /\ rest.snapshot = s.snapshot /\ rest.events = s.events
      /\ rest.lamport = s.lamport /\ rest.localSeq = s.localSeq
      /\ rest.pending = Without(s.pending, k)
  BY <1>2, <1>4 DEF Store
<1>6. /\ stores' = [stores EXCEPT ![r] = left]
      /\ draining' = [draining EXCEPT ![r] = Unblocked(left) # {}]
  BY <1>1
<1> HIDE DEF rest, e
<1>7. Sound(rest) /\ Ordered(rest) /\ Satisfied(rest, e)
  <2>1. Sound(rest)
    BY <1>2, <1>5, KeepsMore DEF Keeps
  <2> QED
    BY <1>2, <1>3, <1>5, <2>1 DEF Ordered, Satisfied, HasOp, Live
<1>8. Parked(rest) \subseteq Parked(s)
  BY <1>3, <1>5, WithoutSubset DEF Parked
<1>9. left \in Store
  BY <1>4, <1>5, <1>7, AppliedKeeps DEF Keeps, Sound
<1>10. left.snapshot.vector = Zero
  BY <1>6 DEF IInv, TypeOK, Uncompacted
<1>11. Takes(rest, left, e)
  BY <1>2, <1>4, <1>5, <1>7, <1>10, AppliedPlain DEF Takes
<1> HIDE DEF left
<1>12. left.events \cup Parked(left) \subseteq Known
  BY <1>4, <1>5, <1>8, <1>11, HeldIsKnown DEF Takes, s
<1>13. ~draining'[r] => Unblocked(left) = {}
  BY <1>6 DEF IInv, TypeOK
<1>14. /\ \A p \in Replicas \ {r} : todo'[p] = todo[p] /\ draining'[p] = draining[p]
       /\ todo'[r] \subseteq Known /\ net' = net
  BY <1>6, HeldIsKnown DEF Drain, IInv, TypeOK
<1>15. left.localSeq = s.localSeq /\ Ordered(left)
  BY <1>5, <1>11 DEF Takes
<1> QED
  BY <1>6, <1>9, <1>12, <1>13, <1>14, <1>15, YoungStep DEF s

LEMMA AnswerYoung ==
  ASSUME IInv, Young, Uncompacted, NEW r \in Replicas, NEW m \in net,
         Answer(r, m), Uncompacted'
  PROVE  Young'
<1> DEFINE s == Heard(stores[r], m)
           answer == [type |-> "response", from |-> r, to |-> m.from,
                      events |-> Deltas(s, m.vector), vector |-> s.clock]
<1>1. stores[r] \in Store /\ s \in Store
  BY PacketFields, Invariance, HeardKeeps DEF Keeps, Sound
<1>2. /\ s.events = stores[r].events /\ s.pending = stores[r].pending
      /\ s.localSeq = stores[r].localSeq /\ s.lamport = stores[r].lamport
      /\ s.snapshot = stores[r].snapshot
  BY <1>1 DEF Heard, Store
\* No replay gap without a snapshot.
<1>3. AnswerWithDeltas(r, m)
  <2>1. \A a \in Replicas : m.vector[a] \in Nat /\ s.snapshot.vector[a] = 0
    BY <1>2, PacketFields DEF Clock, Uncompacted, Zero
  <2>2. ~NeedsSnapshot(s, m.vector)
    BY <2>1 DEF NeedsSnapshot
  <2> QED
    BY <2>2 DEF Answer, AnswerWithSnapshot
<1>4. /\ stores' = [stores EXCEPT ![r] = s]
      /\ net' = (net \ {m}) \cup {answer}
      /\ UNCHANGED <<todo, draining>>
  BY <1>3 DEF AnswerWithDeltas
<1>5. Carried(answer) \subseteq Known
  BY <1>2, HeldIsKnown DEF Carried, Deltas
<1> HIDE DEF s, answer
<1> QED
  BY <1>1, <1>2, <1>4, <1>5, HeldIsKnown, YoungHears

LEMMA ReceiveResponseYoung ==
  ASSUME IInv, Young, Uncompacted, NEW r \in Replicas, NEW m \in net,
         ReceiveResponse(r, m)
  PROVE  Young'
<1> DEFINE s == Heard(stores[r], m)
<1>1. stores[r] \in Store /\ s \in Store
  BY PacketFields, Invariance, HeardKeeps DEF Keeps, Sound
<1>2. /\ s.events = stores[r].events /\ s.pending = stores[r].pending
      /\ s.localSeq = stores[r].localSeq /\ s.lamport = stores[r].lamport
      /\ s.snapshot = stores[r].snapshot
  BY <1>1 DEF Heard, Store
<1>3. /\ m.type = "response"
      /\ stores' = [stores EXCEPT ![r] = s]
      /\ todo' = [todo EXCEPT ![r] = m.events]
      /\ net' = net \ {m}
      /\ UNCHANGED draining
  BY DEF ReceiveResponse, Arrives
<1>4. todo'[r] \subseteq Known /\ \A p \in Replicas \ {r} : todo'[p] = todo[p]
  BY <1>3, HeldIsKnown DEF Carried, IInv, TypeOK
<1> HIDE DEF s
<1> QED
  BY <1>1, <1>2, <1>3, <1>4, YoungHears

\* The steps that change no store.
LEMMA StandsYoung ==
  ASSUME IInv, Young, Uncompacted, UNCHANGED <<stores, todo, draining>>,
         \A m \in net' : m \in net \/ Carried(m) \subseteq Known
  PROVE  Young'
<1>1. ASSUME NEW r \in Replicas
      PROVE  Young'
  <2>1. stores' = [stores EXCEPT ![r] = stores[r]] /\ stores[r] \in Store
    BY DEF IInv, TypeOK
  <2> QED
    BY <2>1, HeldIsKnown, YoungHears
<1>2. CASE Replicas = {}
  <2>1. Known' = {}
    <3>1. ASSUME NEW m \in net'
          PROVE  Carried(m) = {}
      <4>1. \A n \in net : FALSE
        BY <1>2, PacketFields
      <4> QED
        BY <1>2, <4>1, KnownType DEF Event
    <3> QED
      BY <1>2, <3>1 DEF Known, Carried
  <2> QED
    BY <1>2, <2>1 DEF Young, Chronicle
<1> QED
  BY <1>1, <1>2

\* A first snapshot that counts nothing is stale, and any other one counts.
LEMMA ReceiveSnapshotYoung ==
  ASSUME IInv, Young, Uncompacted, NEW r \in Replicas, NEW m \in net,
         ReceiveSnapshot(r, m), Uncompacted'
  PROVE  Young'
<1> DEFINE s == stores[r]
<1>1. m.type = "snapshot" /\ net' = net \ {m} /\ UNCHANGED <<todo, draining>>
  BY DEF ReceiveSnapshot, Arrives
<1>2. CASE UNCHANGED stores
  BY <1>1, <1>2, StandsYoung
<1>3. CASE /\ ~Stale(s, m.vector)
           /\ stores' = [stores EXCEPT ![r] = Installed(s, r, m)]
  <2>1. s \in Store /\ m.vector \in Vector
    BY <1>1, PacketFields DEF IInv, TypeOK
  <2>2. Installed(s, r, m).snapshot.vector = m.vector
    BY <2>1 DEF Installed, Store
  <2>3. stores'[r] = Installed(s, r, m)
    BY <1>3 DEF IInv, TypeOK
  <2>4. m.vector = Zero
    BY <2>2, <2>3 DEF Uncompacted
  <2>5. Stale(s, m.vector)
    BY <2>1, <2>4, ContiguousType DEF Stale, Dominates, Zero, Vector
  <2> QED
    BY <1>3, <2>5
<1> QED
  BY <1>2, <1>3 DEF ReceiveSnapshot

LEMMA StepYoung ==
  ASSUME IInv, Young, [Next]_vars
  PROVE  Young'
<1> SUFFICES ASSUME Uncompacted'
             PROVE  Young'
  BY DEF Young
<1>1. Uncompacted
  BY StepGood, Invariance, PlainBefore DEF Good, Uncompacted
<1>2. CASE UNCHANGED vars
  BY <1>1, <1>2, StandsYoung DEF vars
<1>3. ASSUME NEW m \in net, Lose(m)
      PROVE  Young'
  BY <1>1, <1>3, StandsYoung DEF Lose
<1>4. ASSUME NEW r \in Replicas, NEW p \in Replicas, SyncWith(r, p)
      PROVE  Young'
  <2>1. \A m \in net' : m \in net \/ Carried(m) = {}
    BY <1>4 DEF SyncWith, Carried
  <2> QED
    BY <1>1, <1>4, <2>1, StandsYoung DEF SyncWith
<1>5. ASSUME NEW r \in Replicas,
             \/ \E deps \in SUBSET OpId : Mutate(r, deps)
             \/ Drain(r) \/ IngestNext(r)
             \/ \E p \in Replicas : SyncWith(r, p)
             \/ \E m \in net : \/ ReceiveOp(r, m) \/ Answer(r, m)
                               \/ ReceiveResponse(r, m) \/ ReceiveSnapshot(r, m)
      PROVE  Young'
  BY <1>1, <1>4, <1>5, MutateYoung, DrainYoung, IngestNextYoung, ReceiveOpYoung,
     AnswerYoung, ReceiveResponseYoung, ReceiveSnapshotYoung
<1> QED
  BY <1>2, <1>3, <1>5 DEF Next

-----------------------------------------------------------------------------
LEMMA YoungFirst == Init => Young
<1> SUFFICES ASSUME Init PROVE Young
  OBVIOUS
<1>1. Parked(NewStore) = {} /\ NewStore.events = {} /\ Unblocked(NewStore) = {}
  BY DEF Parked, Unblocked, NewStore
<1>2. \A r \in Replicas : Held(r) = {}
  BY <1>1 DEF Init, Held
<1>3. Known = {}
  BY <1>2 DEF Known, Init
<1> QED
  BY <1>1, <1>3 DEF Init, Young, Chronicle, Ordered, Settled

LEMMA YoungAlways == Spec => [](IInv /\ Young)
<1>1. Init => IInv /\ Young
  BY Initially, YoungFirst
<1>2. IInv /\ Young /\ [Next]_vars => (IInv /\ Young)'
  BY Inductive, StepYoung
<1> QED
  BY <1>1, <1>2, PTL DEF Spec

LEMMA YoungInOrder ==
  ASSUME IInv, Young
  PROVE  AppliedInOrder
<1>1. FoldedOnce
  BY Invariance, StateIsHas DEF FoldedOnce, Once
<1>2. ASSUME Uncompacted
      PROVE  CausalOrder
  <2> SUFFICES ASSUME NEW r \in Replicas,
                      NEW k \in DOMAIN State(stores[r]), NEW e \in State(stores[r])[k],
                      NEW d \in e.deps
               PROVE  \E f \in State(stores[r])[k] : Id(f) = d /\ Before(f, e)
    BY DEF CausalOrder, Earlier
  <2>1. Sound(stores[r]) /\ Ordered(stores[r]) /\ stores[r].snapshot.vector = Zero
    BY <1>2, Invariance DEF Young, Uncompacted
  <2>2. State(stores[r])[k] = stores[r].events
    BY <2>1, PlainState
  <2>3. e \in Event /\ d \in OpId
    BY <2>1, <2>2 DEF Sound, Store, Event
  <2>4. PICK f \in stores[r].events : f.author = d[1] /\ f.seq = d[2]
    BY <2>1, <2>2 DEF Ordered, HasOp, Live
  <2>5. Id(f) = d
    BY <2>3, <2>4 DEF Id, OpId
  <2>6. f.lamport < e.lamport
    BY <1>2, <2>2, <2>5, HeldIsKnown DEF Young, Chronicle
  <2> QED
    BY <2>2, <2>5, <2>6 DEF Before
<1>3. ASSUME Uncompacted
      PROVE  ParkedIsBlocked
  BY <1>3 DEF Young, Settled, ParkedIsBlocked, Idle
<1> QED
  BY <1>1, <1>2, <1>3 DEF AppliedInOrder, IInv

\* The reducer of no replica is given an operation twice; and until a snapshot
\* counts something, it is given each after all that it depends on, and no
\* operation stays parked once nothing is missing any more
\* (causal-sync-engine.ts, operation-journal.ts).
THEOREM AppliedInOrderCorrect == Spec => []AppliedInOrder
<1>1. IInv /\ Young => AppliedInOrder
  BY YoungInOrder
<1> QED
  BY <1>1, YoungAlways, PTL

(***************************************************************************)
(* The store on IndexedDB: for any operations, thresholds, failures and    *)
(* crashes, what was reported as kept is recovered, and what mutateAsync() *)
(* has broadcast is neither lost nor has its id given away.  Snapshots of  *)
(* peers are left out (StoreSpec): with them neither holds.                *)
(*                                                                         *)
(* The argument is a chain of snapshots, from the one the commit marker    *)
(* names over those in the compaction queue to the one in memory: their    *)
(* vectors grow, and each has in its state whatever it counts of the       *)
(* operations the process has in memory (Covers).  So the marker may move  *)
(* along the chain and the journal be truncated behind it.                 *)
(***************************************************************************)

\* The operations of a state, and all that a store has.
Ops(state) == UNION {state[k] : k \in DOMAIN state}
Holds(s) == s.events \cup Ops(s.snapshot.state)

\* What x counts of E is in its state.
Covers(x, E) == \A e \in E : e.seq <= x.vector[e.author] => e \in Ops(x.state)

\* The operations of others are what they are at their authors.
Genuine(E) == \A e \in E : e.author # Self => e = Remote(e.author, e.seq)

-----------------------------------------------------------------------------
(* Stores *)

\* A store whose snapshot covers it, and which gives no id away.
Wise(s) ==
    /\ Sound(s)
    /\ Genuine(Holds(s))
    /\ Covers(s.snapshot, Holds(s))
    /\ s.snapshot.vector[Self] <= s.localSeq
    /\ \A e \in Holds(s) :
          e.author = Self => e.seq <= s.localSeq \/ e.lamport <= s.lamport

\* t comes after s, and its new operations of Self are numbered beyond the
\* snapshot of s.
Grows(s, t) ==
    /\ Wise(t)
    /\ Holds(s) \subseteq Holds(t)
    /\ Dominates(t.snapshot.vector, s.snapshot.vector)
    /\ \A e \in Holds(t) \ Holds(s) : e.author = Self => e.seq > s.snapshot.vector[Self]

\* A snapshot that the store s has made.
StoreGood(s, x) ==
    /\ x.vector \in Vector
    /\ x.state \in Seq(SUBSET Event)
    /\ Faithful(x.state, x.vector)
    /\ Ops(x.state) \subseteq Holds(s)
    /\ Covers(x, Holds(s))
    /\ Dominates(s.snapshot.vector, x.vector)

LEMMA OpsThen ==
  ASSUME NEW state \in Seq(SUBSET Event), NEW batch \in SUBSET Event
  PROVE  Ops(Then(state, batch)) = Ops(state) \cup batch
<1>1. CASE batch = {}
  BY <1>1 DEF Then
<1>2. CASE batch # {}
  <2> DEFINE new == Append(state, batch)
  <2>1. /\ DOMAIN new = 1..(Len(state) + 1) /\ DOMAIN state = 1..Len(state)
        /\ Len(state) \in Nat
        /\ \A k \in 1..Len(state) : new[k] = state[k]
        /\ new[Len(state) + 1] = batch
    OBVIOUS
  <2> HIDE DEF new
  <2>2. ASSUME NEW e \in Ops(new)
        PROVE  e \in Ops(state) \cup batch
    <3>1. PICK k \in 1..(Len(state) + 1) : e \in new[k]
      BY <2>1, <2>2 DEF Ops
    <3>2. k \in 1..Len(state) \/ k = Len(state) + 1
      BY <2>1
    <3> QED
      BY <2>1, <3>1, <3>2 DEF Ops
  <2>3. ASSUME NEW e \in Ops(state)
        PROVE  e \in Ops(new)
    <3>1. PICK k \in 1..Len(state) : e \in state[k]
      BY <2>1, <2>3 DEF Ops
    <3>2. k \in DOMAIN new /\ e \in new[k]
      BY <2>1, <3>1
    <3> QED
      BY <3>2 DEF Ops
  <2>4. batch \subseteq Ops(new)
    <3>1. Len(state) + 1 \in DOMAIN new
      BY <2>1
    <3> QED
      BY <2>1, <3>1 DEF Ops
  <2>5. Then(state, batch) = new
    BY <1>2 DEF Then, new
  <2> QED
    BY <2>2, <2>3, <2>4, <2>5
<1> QED
  BY <1>1, <1>2

\* The identities of a state are those of its operations.
LEMMA OpsFolded ==
  ASSUME NEW state
  PROVE  /\ \A e \in Ops(state) : Id(e) \in Folded(state)
         /\ \A d \in Folded(state) : \E e \in Ops(state) : Id(e) = d
BY DEF Ops, Folded, Ids

LEMMA OpsType ==
  ASSUME NEW state \in Seq(SUBSET Event)
  PROVE  Ops(state) \subseteq Event
BY DEF Ops

LEMMA HoldsType ==
  ASSUME NEW s \in Store
  PROVE  Holds(s) \subseteq Event
BY OpsType DEF Holds, Store, Snapshot

\* A snapshot counts what is in its state.
LEMMA Counted ==
  ASSUME NEW x, x.vector \in Vector, x.state \in Seq(SUBSET Event),
         Faithful(x.state, x.vector), NEW e \in Ops(x.state)
  PROVE  e.seq <= x.vector[e.author]
<1>1. Id(e) \in Below(x.vector)
  BY OpsFolded DEF Faithful
<1> QED
  BY <1>1 DEF Id, Below

LEMMA GrowsOn ==
  ASSUME NEW s, Wise(s), NEW t, Grows(s, t), NEW u, Grows(t, u)
  PROVE  Grows(s, u)
<1>1. /\ s.snapshot.vector \in Vector /\ t.snapshot.vector \in Vector
      /\ u.snapshot.vector \in Vector
  BY DEF Grows, Wise, Sound, Store, Snapshot
<1>2. Dominates(u.snapshot.vector, s.snapshot.vector)
  BY <1>1 DEF Grows, Dominates, Vector
<1>3. ASSUME NEW e \in Holds(u) \ Holds(s), e.author = Self
      PROVE  e.seq > s.snapshot.vector[Self]
  <2>1. CASE e \in Holds(t)
    BY <1>3, <2>1 DEF Grows
  <2>2. CASE e \notin Holds(t)
    <3>1. e.seq > t.snapshot.vector[Self] /\ e \in Event
      BY <1>3, <2>2, HoldsType DEF Grows, Wise, Sound
    <3>2. t.snapshot.vector[Self] >= s.snapshot.vector[Self]
      BY SelfAssumption DEF Grows, Dominates
    <3> QED
      BY <1>1, <3>1, <3>2, SelfAssumption, BoundsAssumption DEF Event, Vector
  <2> QED
    BY <2>1, <2>2
<1> QED
  BY <1>2, <1>3 DEF Grows

LEMMA GrowsItself ==
  ASSUME NEW s, Wise(s)
  PROVE  Grows(s, s)
BY KeepsItself DEF Grows, Wise, Keeps

\* Snapshots stay good.
LEMMA GoodStays ==
  ASSUME NEW s, Wise(s), NEW t, Grows(s, t), NEW x, StoreGood(s, x)
  PROVE  StoreGood(t, x)
<1>1. /\ s.snapshot.vector \in Vector /\ t.snapshot.vector \in Vector
      /\ x.vector \in Vector /\ Holds(t) \subseteq Event
  BY HoldsType DEF Grows, Wise, Sound, Store, Snapshot, StoreGood
<1>2. Dominates(t.snapshot.vector, x.vector)
  BY <1>1 DEF Grows, StoreGood, Dominates, Vector
<1>3. ASSUME NEW e \in Holds(t), e.seq <= x.vector[e.author]
      PROVE  e \in Ops(x.state)
  <2>1. CASE e \in Holds(s)
    BY <1>3, <2>1 DEF StoreGood, Covers
  <2>2. CASE e \notin Holds(s) /\ e.author = Self
    <3>1. e.seq > s.snapshot.vector[Self] /\ s.snapshot.vector[Self] >= x.vector[Self]
      BY <2>2, SelfAssumption DEF Grows, StoreGood, Dominates
    <3> QED
      BY <1>1, <1>3, <2>2, <3>1, SelfAssumption, BoundsAssumption DEF Event, Vector
  <2>3. CASE e.author # Self
    <3>1. e \in Event /\ Id(e) \in Below(x.vector)
      BY <1>1, <1>3 DEF Event, Id, Below, OpId
    <3>2. PICK f \in Ops(x.state) : Id(f) = Id(e)
      BY <3>1, OpsFolded DEF StoreGood, Faithful
    <3>3. f.author = e.author /\ f.seq = e.seq
      BY <3>2 DEF Id
    <3>4. f = Remote(f.author, f.seq) /\ e = Remote(e.author, e.seq)
      BY <2>3, <3>3 DEF StoreGood, Grows, Wise, Genuine
    <3> QED
      BY <3>3, <3>4
  <2> QED
    BY <2>1, <2>2, <2>3
<1> QED
  BY <1>2, <1>3 DEF StoreGood, Grows, Covers

\* Compaction.
LEMMA CompactedFields ==
  ASSUME NEW s \in Store, NEW force
  PROVE  LET t == Compacted(s, force)
         IN  \/ t = s
             \/ /\ t.snapshot = [vector |-> Contiguous(s),
                                 state  |-> Then(s.snapshot.state, Baked(s))]
                /\ t.events = {e \in s.events : Id(e) \notin SafeCut(s)}
                /\ t.lamport = s.lamport /\ t.localSeq = s.localSeq
BY DEF Compacted, Store

LEMMA RaisedFields ==
  ASSUME NEW s \in Store
  PROVE  LET t == Raised(s)
         IN  /\ t \in Store /\ t.snapshot = s.snapshot /\ t.events = s.events
             /\ t.lamport = s.lamport
             /\ t.localSeq = Larger(s.localSeq, s.snapshot.vector[Self])
<1> DEFINE n == Larger(s.localSeq, s.snapshot.vector[Self])
<1>1. n \in 0..MaxOps
  BY SelfAssumption DEF Store, Snapshot, Vector, Larger
<1>2. Raised(s) = [s EXCEPT !.localSeq = n]
  BY DEF Raised
<1> HIDE DEF n
<1>3. [s EXCEPT !.localSeq = n] \in Store
  BY <1>1 DEF Store
<1> QED
  BY <1>2, <1>3 DEF Store, n

LEMMA CompactGrows ==
  ASSUME NEW s, Wise(s), NEW force
  PROVE  Grows(s, Raised(Compacted(s, force)))
<1> DEFINE t == Compacted(s, force)
           u == Raised(t)
           c == Contiguous(s)
<1>1. s \in Store /\ Sound(s) /\ Holds(s) \subseteq Event
  BY HoldsType DEF Wise, Sound
<1>2. Keeps(s, t) /\ t \in Store /\ Sound(t)
  BY <1>1, CompactedKeeps DEF Keeps, Sound
<1>3. /\ u \in Store /\ u.snapshot = t.snapshot /\ u.events = t.events
      /\ u.lamport = t.lamport
      /\ u.localSeq = Larger(t.localSeq, t.snapshot.vector[Self])
  BY <1>2, RaisedFields
<1>4. t.lamport = s.lamport /\ t.localSeq = s.localSeq
  BY <1>1, CompactedFields
<1>5. Holds(t) = Holds(s) /\ Covers(t.snapshot, Holds(t))
  <2>1. CASE t = s
    BY <2>1 DEF Wise
  <2>2. CASE /\ t.snapshot = [vector |-> c,
                              state  |-> Then(s.snapshot.state, Baked(s))]
             /\ t.events = {e \in s.events : Id(e) \notin SafeCut(s)}
    <3>1. s.snapshot.state \in Seq(SUBSET Event) /\ Baked(s) \subseteq s.events
          /\ Baked(s) \in SUBSET Event
      BY <1>1 DEF Store, Snapshot, Baked, Beyond
    <3>2. Ops(t.snapshot.state) = Ops(s.snapshot.state) \cup Baked(s)
      <4>1. t.snapshot.state = Then(s.snapshot.state, Baked(s))
        BY <2>2
      <4> HIDE DEF t
      <4> QED
        BY <3>1, <4>1, OpsThen
    <3>3. ASSUME NEW e \in Holds(s), e.seq <= c[e.author]
          PROVE  e \in Ops(t.snapshot.state)
      <4>1. CASE e \in s.events /\ e.seq > s.snapshot.vector[e.author]
        BY <3>2, <3>3, <4>1 DEF Baked, Beyond
      <4>2. CASE e \in s.events /\ ~(e.seq > s.snapshot.vector[e.author])
        <5>1. e.seq <= s.snapshot.vector[e.author]
          BY <1>1, <4>2, BoundsAssumption DEF Store, Snapshot, Vector, Event
        <5> QED
          BY <3>2, <5>1 DEF Wise, Covers
      <4>3. CASE e \in Ops(s.snapshot.state)
        BY <3>2, <4>3
      <4> QED
        BY <4>1, <4>2, <4>3 DEF Holds
    <3>4. ASSUME NEW e \in s.events, Id(e) \in SafeCut(s)
          PROVE  e \in Ops(t.snapshot.state)
      <4>1. e.seq <= c[e.author] /\ e \in Holds(s)
        BY <3>4 DEF SafeCut, Below, Id, Holds
      <4> QED
        BY <3>3, <4>1
    <3>5. Holds(t) = Holds(s)
      BY <2>2, <3>1, <3>2, <3>4 DEF Holds
    <3> QED
      BY <2>2, <3>3, <3>5 DEF Covers
  <2> QED
    BY <1>1, <2>1, <2>2, CompactedFields
<1>6. Holds(u) = Holds(s) /\ Covers(u.snapshot, Holds(u)) /\ Sound(u)
  BY <1>2, <1>3, <1>5 DEF Holds, Sound, Exact
<1>7. u.localSeq >= s.localSeq /\ u.snapshot.vector[Self] <= u.localSeq
  BY <1>1, <1>2, <1>3, <1>4, SelfAssumption, BoundsAssumption
     DEF Larger, Store, Snapshot, Vector
<1>8. ASSUME NEW e \in Holds(u), e.author = Self
      PROVE  e.seq <= u.localSeq \/ e.lamport <= u.lamport
  <2>1. e \in Event /\ (e.seq <= s.localSeq \/ e.lamport <= s.lamport)
    BY <1>1, <1>6, <1>8 DEF Wise
  <2> QED
    BY <1>1, <1>3, <1>4, <1>7, <2>1, BoundsAssumption DEF Event, Store
<1>9. Wise(u)
  BY <1>6, <1>7, <1>8 DEF Wise
<1>10. Dominates(u.snapshot.vector, s.snapshot.vector)
  BY <1>2, <1>3 DEF Keeps
<1> HIDE DEF u
<1> QED
  BY <1>6, <1>9, <1>10 DEF Grows, u

\* A new operation enters the store.
LEMMA EventGrows ==
  ASSUME NEW s, Wise(s), NEW e \in Event, NEW t \in Store,
         t.snapshot = s.snapshot, t.events = s.events \cup {e},
         t.localSeq >= s.localSeq, t.lamport >= s.lamport,
         e.author = Self => e.seq > s.localSeq /\ e.seq <= t.localSeq,
         e.author # Self => e = Remote(e.author, e.seq)
  PROVE  Grows(s, t)
<1>1. s \in Store /\ Holds(s) \subseteq Event /\ Sound(t)
  BY HoldsType DEF Wise, Sound, Exact
<1>2. Holds(t) = Holds(s) \cup {e}
  BY DEF Holds
<1>3. Genuine(Holds(t))
  BY <1>2 DEF Wise, Genuine
<1>4. t.snapshot.vector[Self] <= s.localSeq /\ t.snapshot.vector[Self] <= t.localSeq
  BY <1>1, SelfAssumption, BoundsAssumption DEF Wise, Store, Snapshot, Vector
<1>5. e.author = Self => e.seq > s.snapshot.vector[Self]
  BY <1>1, <1>4, SelfAssumption, BoundsAssumption DEF Store, Snapshot, Vector, Event
<1>6. ASSUME NEW f \in Holds(t), f.author = Self
      PROVE  f.seq <= t.localSeq \/ f.lamport <= t.lamport
  <2>1. CASE f \in Holds(s)
    <3>1. f \in Event /\ (f.seq <= s.localSeq \/ f.lamport <= s.lamport)
      BY <1>1, <1>6, <2>1 DEF Wise
    <3> QED
      BY <1>1, <3>1, BoundsAssumption DEF Event, Store
  <2>2. CASE f = e
    BY <1>6, <2>2
  <2> QED
    BY <1>2, <2>1, <2>2
\* The snapshot counts the new operation only if it has it.
<1>7. ASSUME e.seq <= t.snapshot.vector[e.author]
      PROVE  e \in Ops(t.snapshot.state)
  <2>1. e.author # Self
    BY <1>1, <1>5, <1>7, SelfAssumption, BoundsAssumption DEF Event, Store, Snapshot, Vector
  <2>2. Id(e) \in Below(t.snapshot.vector)
    BY <1>7 DEF Event, Id, Below, OpId
  <2>3. PICK f \in Ops(t.snapshot.state) : Id(f) = Id(e)
    BY <1>1, <2>2, OpsFolded DEF Sound, Exact, Faithful
  <2>4. f.author = e.author /\ f.seq = e.seq /\ f \in Holds(t)
    BY <2>3 DEF Id, Holds
  <2> QED
    BY <1>3, <2>1, <2>3, <2>4 DEF Genuine
<1>8. Covers(t.snapshot, Holds(t))
  BY <1>2, <1>7 DEF Wise, Covers
<1>9. Wise(t)
  BY <1>1, <1>3, <1>4, <1>6, <1>8 DEF Wise
<1>10. Dominates(t.snapshot.vector, s.snapshot.vector)
  BY KeepsItself DEF Keeps, Wise
<1> QED
  BY <1>2, <1>5, <1>9, <1>10 DEF Grows

LEMMA AppendedGrows ==
  ASSUME NEW s, Wise(s), s.localSeq < MaxOps
  PROVE  LET e == NewEvent(s, Self, {})
         IN  /\ e \in Event
             /\ Grows(s, Appended(s, e))
             /\ e \in Holds(Appended(s, e))
<1> DEFINE e == NewEvent(s, Self, {})
           t == Appended(s, e)
<1>1. s \in Store /\ Sound(s) /\ s.localSeq \in Nat /\ s.lamport \in Nat
  BY BoundsAssumption DEF Wise, Sound, Store
<1>2. e \in Event /\ Keeps(s, t)
  BY <1>1, SelfAssumption, MutateKeeps
<1>3. e.author = Self /\ e.seq = s.localSeq + 1
  BY DEF NewEvent
<1>4. /\ t.snapshot = s.snapshot /\ t.events = s.events \cup {e}
      /\ t.localSeq = s.localSeq + 1 /\ t.lamport = s.lamport + 1
  BY <1>1 DEF Store, Appended
<1>5. t \in Store
  BY <1>2 DEF Keeps, Sound
<1> HIDE DEF e, t
<1>6. e \in Holds(t)
  BY <1>4 DEF Holds
<1>7. Grows(s, t)
  BY <1>1, <1>2, <1>3, <1>4, <1>5, EventGrows
<1> QED
  BY <1>2, <1>6, <1>7 DEF e, t

LEMMA InsertedGrows ==
  ASSUME NEW s, Wise(s), NEW a \in Replicas \ {Self}, NEW n \in Arriving
  PROVE  LET e == Remote(a, n)
         IN  /\ e \in Event
             /\ Grows(s, Inserted(s, e))
             /\ e \in Holds(Inserted(s, e))
<1> DEFINE e == Remote(a, n)
           t == Inserted(s, e)
<1>1. s \in Store /\ s.lamport \in Nat /\ s.localSeq \in Nat
  BY BoundsAssumption DEF Wise, Sound, Store
<1>2. n \in 1..MaxOps /\ n \in Nat
  BY SelfAssumption
<1>3. e \in Event /\ e.author = a /\ e.seq = n /\ e.lamport = n
  BY <1>2 DEF Remote, Event
<1>4. t \in Store /\ t.snapshot = s.snapshot /\ t.events = s.events \cup {e}
  BY <1>1, <1>3, InsertedType
<1>5. t.localSeq = s.localSeq /\ t.lamport = Larger(s.lamport, e.lamport) + 1
  BY <1>1 DEF Store, Inserted
<1>6. t.lamport >= s.lamport
  BY <1>1, <1>2, <1>3, <1>5 DEF Larger
<1>7. e = Remote(e.author, e.seq)
  BY <1>3
<1> HIDE DEF e, t
<1>8. Grows(s, t)
  BY <1>1, <1>3, <1>4, <1>5, <1>6, <1>7, EventGrows
<1> QED
  BY <1>3, <1>4, <1>8 DEF e, t, Holds

-----------------------------------------------------------------------------
(* Recovery *)

LEMMA HighestOf ==
  ASSUME NEW S, S \subseteq Nat, S # {}, NEW b \in Nat, \A n \in S : n <= b
  PROVE  Highest(S) \in S /\ \A k \in S : k <= Highest(S)
<1> DEFINE Above == {u \in Nat : \A n \in S : n <= u}
<1>1. PICK u \in Above : \A w \in Above : u <= w
  <2>1. Above \subseteq Nat /\ Above # {}
    OBVIOUS
  <2> HIDE DEF Above
  <2> QED
    BY <2>1, LeastOfNats
<1>2. u \in S
  <2>1. SUFFICES ASSUME u \notin S
                 PROVE  FALSE
    OBVIOUS
  <2>2. PICK n \in S : TRUE
    OBVIOUS
  <2>3. u \in Nat /\ n \in Nat /\ n <= u /\ n # u
    BY <2>1, <2>2
  <2>4. u - 1 \in Above
    BY <2>1, <2>3
  <2> QED
    BY <1>1, <2>3, <2>4
<1>3. \E n \in S : \A k \in S : k <= n
  BY <1>2
<1> QED
  BY <1>3, Zenon DEF Highest

\* The disk as a process finds it.
OnDisk ==
    /\ IsFiniteSet(journal)
    /\ \E b \in Nat : \A e \in journal : e.lamport <= b
    /\ Genuine(journal \cup Ops(Baseline.state))
    /\ Faithful(Baseline.state, Baseline.vector)
    /\ Covers(Baseline, journal)
    /\ Committed \/ marker = 0
    /\ kept \subseteq Recovered
    /\ published \subseteq kept

LEMMA NewStoreWise ==
  Wise(NewStore)
<1> USE BoundsAssumption
<1>1. Zero \in Vector /\ Zero \in Clock
  BY DEF Zero, Vector, Clock
<1>2. <<>> \in Seq(SUBSET Event) /\ <<>> \in Seq(Event) /\ DOMAIN <<>> = {}
  OBVIOUS
<1>3. [p \in Replicas |-> Zero] \in [Replicas -> Clock]
  BY <1>1
<1>4. NewStore \in Store
  BY <1>1, <1>2, <1>3 DEF NewStore, Store, Snapshot
<1>5. Folded(<<>>) = {} /\ Ops(<<>>) = {} /\ Once(<<>>)
  BY <1>2 DEF Folded, Ops, Once
<1>6. Below(Zero) = {}
  BY DEF Below, Zero, OpId
<1>7. Sound(NewStore) /\ Holds(NewStore) = {}
  BY <1>4, <1>5, <1>6 DEF Sound, Exact, Faithful, Holds, NewStore
<1>8. NewStore.snapshot.vector[Self] <= NewStore.localSeq
  BY SelfAssumption DEF NewStore, Zero
<1> QED
  BY <1>7, <1>8 DEF Wise, Genuine, Covers

LEMMA BaselineType ==
  ASSUME StoreTypeOK
  PROVE  /\ Baseline \in Snapshot
         /\ Baseline.vector \in Vector /\ Baseline.state \in Seq(SUBSET Event)
         /\ Ops(Baseline.state) \subseteq Event
         /\ Replayed \subseteq journal /\ journal \subseteq Event
         /\ Recovered = Replayed \cup Ops(Baseline.state)
<1>1. NewStore.snapshot \in Snapshot
  BY NewStoreWise DEF Wise, Sound, Store
<1>2. Baseline \in Snapshot
  BY <1>1 DEF StoreTypeOK, Baseline, Committed
<1> QED
  BY <1>2, OpsType DEF Snapshot, Replayed, Recovered, Ops, StoreTypeOK

LEMMA HydratedLamport ==
  ASSUME StoreTypeOK, OnDisk
  PROVE  /\ ReplayedLamport \in Nat
         /\ \A e \in Replayed : e.lamport <= ReplayedLamport
<1> DEFINE L == {0} \cup {e.lamport + Cardinality(KeyFrom(e)) : e \in Replayed}
<1>1. PICK b \in Nat : \A e \in journal : e.lamport <= b
  BY DEF OnDisk
<1>2. Cardinality(journal) \in Nat
  BY FS_CardinalityType DEF OnDisk
<1>3. ASSUME NEW e \in Replayed
      PROVE  /\ e.lamport \in Nat /\ Cardinality(KeyFrom(e)) \in Nat
             /\ e.lamport + Cardinality(KeyFrom(e)) <= b + Cardinality(journal)
  <2>1. e \in journal /\ e \in Event
    BY BaselineType
  <2>2. KeyFrom(e) \in SUBSET journal
    BY BaselineType DEF KeyFrom
  <2>3. /\ IsFiniteSet(KeyFrom(e))
        /\ Cardinality(KeyFrom(e)) <= Cardinality(journal)
    BY <2>2, FS_Subset DEF OnDisk
  <2>4. Cardinality(KeyFrom(e)) \in Nat
    BY <2>3, FS_CardinalityType
  <2> QED
    BY <1>1, <1>2, <2>1, <2>3, <2>4 DEF Event
<1>4. L \subseteq Nat /\ L # {} /\ \A n \in L : n <= b + Cardinality(journal)
  BY <1>2, <1>3
<1>5. b + Cardinality(journal) \in Nat
  BY <1>2
<1> HIDE DEF L
<1>6. Highest(L) \in L /\ \A k \in L : k <= Highest(L)
  BY <1>4, <1>5, HighestOf
<1>7. ReplayedLamport = Highest(L)
  BY DEF ReplayedLamport, L
<1>8. ASSUME NEW e \in Replayed
      PROVE  e.lamport <= Highest(L)
  <2>1. e.lamport + Cardinality(KeyFrom(e)) <= Highest(L)
    BY <1>6 DEF L
  <2>2. e.lamport \in Nat /\ Cardinality(KeyFrom(e)) \in Nat
    BY <1>3
  <2>3. Highest(L) \in Nat
    BY <1>4, <1>6
  <2> HIDE DEF L
  <2> QED
    BY <2>1, <2>2, <2>3
<1> QED
  BY <1>4, <1>6, <1>7, <1>8

\* hydrate() makes a store of exactly what is on disk.
LEMMA HydratedWise ==
  ASSUME StoreTypeOK, OnDisk
  PROVE  /\ Wise(Hydrated)
         /\ Holds(Hydrated) = Recovered
         /\ Hydrated.snapshot = Baseline
<1> DEFINE clock == [a \in Replicas |->
                        Highest({Baseline.vector[a]} \cup
                                {e.seq : e \in {f \in Replayed : f.author = a}})]
           s == Hydrated
<1>1. /\ Baseline \in Snapshot /\ Replayed \in SUBSET Event
      /\ Baseline.vector[Self] \in 0..MaxOps
  BY BaselineType, SelfAssumption DEF Snapshot, Vector
<1>2. clock \in Clock
  <2>1. ASSUME NEW a \in Replicas
        PROVE  clock[a] \in Nat
    <3> DEFINE S == {Baseline.vector[a]} \cup {e.seq : e \in {f \in Replayed : f.author = a}}
    <3>1. S \subseteq Nat /\ S # {} /\ \A n \in S : n <= MaxOps
      BY BaselineType, BoundsAssumption DEF Vector, Event
    <3>2. clock[a] = Highest(S)
      OBVIOUS
    <3> HIDE DEF S, clock
    <3>3. Highest(S) \in S
      BY <3>1, HighestOf, BoundsAssumption
    <3> QED
      BY <3>1, <3>2, <3>3
  <2> HIDE DEF clock
  <2>2. DOMAIN clock = Replicas /\ clock = [a \in Replicas |-> clock[a]]
    BY DEF clock
  <2> QED
    BY <2>1, <2>2 DEF Clock
<1>3. ReplayedLamport \in Nat
  BY HydratedLamport
<1>4. NewStore \in Store
  BY NewStoreWise DEF Wise, Sound
<1>5. s = [NewStore EXCEPT !.snapshot = Baseline, !.events = Replayed, !.clock = clock,
                           !.localSeq = Baseline.vector[Self],
                           !.lamport = ReplayedLamport]
  BY DEF Hydrated
<1> HIDE DEF s, clock
<1>6. s \in Store
  BY <1>1, <1>2, <1>3, <1>4, <1>5 DEF Store
<1>7. /\ s.snapshot = Baseline /\ s.events = Replayed
      /\ s.localSeq = Baseline.vector[Self] /\ s.lamport = ReplayedLamport
  BY <1>4, <1>5 DEF Store
<1>8. Holds(s) = Recovered
  BY <1>7, BaselineType DEF Holds
<1>9. Sound(s)
  BY <1>6, <1>7 DEF Sound, Exact, OnDisk
<1>10. Genuine(Holds(s))
  BY <1>8, BaselineType DEF OnDisk, Genuine
<1>11. Covers(s.snapshot, Holds(s))
  BY <1>7, <1>8, BaselineType DEF OnDisk, Covers
<1>12. ASSUME NEW e \in Holds(s), e.author = Self
       PROVE  e.seq <= s.localSeq \/ e.lamport <= s.lamport
  <2>1. CASE e \in Replayed
    BY <1>7, <2>1, HydratedLamport
  <2>2. CASE e \in Ops(Baseline.state)
    BY <1>7, <1>12, <2>2, Counted, BaselineType DEF OnDisk
  <2> QED
    BY <1>8, <2>1, <2>2, BaselineType
<1>13. s.snapshot.vector[Self] <= s.localSeq
  BY <1>1, <1>7
<1> QED
  BY <1>7, <1>8, <1>9, <1>10, <1>11, <1>12, <1>13 DEF Wise, s

-----------------------------------------------------------------------------
(* The queues of the object stores.  At most one step of a compaction is in  *)
(* them, beside any number of appends in that of the journal.                *)

Appends == [do : {"append"}, op : Event, publish : BOOLEAN]
OfJournal == Appends
             \cup [do : {"read"}, snap : Made]
             \cup [do : {"delete"}, ops : SUBSET Event, snap : Made]

\* The queue has no step of a compaction, or only this one.
Plain(q) == \A k \in DOMAIN q : q[k].do = "append"
Lone(q, r) ==
    /\ r.do # "append"
    /\ \E k \in DOMAIN q : q[k] = r /\ \A j \in DOMAIN q \ {k} : q[j].do = "append"

LEMMA PlainAppend ==
  ASSUME NEW q \in Seq(OfJournal), Plain(q), NEW r \in OfJournal
  PROVE  /\ r.do = "append" => Plain(Append(q, r))
         /\ r.do # "append" => Lone(Append(q, r), r)
<1> DEFINE n == Len(q) + 1
           p == Append(q, r)
<1>1. /\ DOMAIN p = 1..n /\ DOMAIN q = 1..Len(q) /\ Len(q) \in Nat
      /\ p[n] = r /\ \A k \in 1..Len(q) : p[k] = q[k]
  OBVIOUS
<1> HIDE DEF p
<1>2. \A k \in 1..n : k # n => p[k].do = "append"
  BY <1>1 DEF Plain
<1>3. n \in 1..n
  BY <1>1
<1> HIDE DEF n
<1>4. ASSUME r.do = "append"
      PROVE  Plain(p)
  BY <1>1, <1>2, <1>4 DEF Plain
<1>5. ASSUME r.do # "append"
      PROVE  Lone(p, r)
  BY <1>1, <1>2, <1>3, <1>5 DEF Lone
<1> QED
  BY <1>4, <1>5 DEF p

LEMMA LoneAppend ==
  ASSUME NEW q \in Seq(OfJournal), NEW s, Lone(q, s), NEW r \in Appends
  PROVE  Lone(Append(q, r), s)
<1> DEFINE n == Len(q) + 1
           p == Append(q, r)
<1>1. /\ DOMAIN p = 1..n /\ DOMAIN q = 1..Len(q) /\ Len(q) \in Nat
      /\ p[n] = r /\ \A k \in 1..Len(q) : p[k] = q[k]
  OBVIOUS
<1> HIDE DEF p
<1>2. PICK k \in DOMAIN q : q[k] = s /\ \A j \in DOMAIN q \ {k} : q[j].do = "append"
  BY DEF Lone
<1>3. k \in 1..n /\ p[k] = s
  BY <1>1, <1>2
<1>4. ASSUME NEW j \in 1..n, j # k
      PROVE  p[j].do = "append"
  <2>1. j \in 1..Len(q) \/ j = n
    BY <1>1
  <2>2. r.do = "append"
    BY DEF Appends
  <2> QED
    BY <1>1, <1>2, <1>4, <2>1, <2>2
<1>5. s.do # "append"
  BY DEF Lone
<1> QED
  BY <1>1, <1>3, <1>4, <1>5 DEF Lone, p

LEMMA TailOf ==
  ASSUME NEW S, NEW q \in Seq(S), q # <<>>
  PROVE  /\ Head(q) \in S /\ Head(q) = q[1] /\ 1 \in DOMAIN q
         /\ Tail(q) \in Seq(S)
         /\ Len(q) \in Nat /\ DOMAIN q = 1..Len(q)
         /\ DOMAIN Tail(q) = 1..(Len(q) - 1)
         /\ \A k \in 1..(Len(q) - 1) : /\ k + 1 \in DOMAIN q /\ k + 1 # 1
                                       /\ Tail(q)[k] = q[k + 1]
<1>1. Len(q) \in Nat /\ Len(q) >= 1 /\ DOMAIN q = 1..Len(q)
  OBVIOUS
<1>2. /\ Tail(q) \in Seq(S) /\ Len(Tail(q)) = Len(q) - 1
      /\ \A k \in 1..(Len(q) - 1) : Tail(q)[k] = q[k + 1]
  OBVIOUS
<1>3. DOMAIN Tail(q) = 1..(Len(q) - 1)
  BY <1>1, <1>2
<1>4. Head(q) = q[1] /\ 1 \in DOMAIN q /\ Head(q) \in S
  BY <1>1
<1> QED
  BY <1>1, <1>2, <1>3, <1>4

LEMMA PlainTail ==
  ASSUME NEW q \in Seq(OfJournal), q # <<>>
  PROVE  /\ Plain(q) => Head(q).do = "append" /\ Plain(Tail(q))
         /\ \A s : Lone(q, s) => \/ Head(q).do = "append" /\ Lone(Tail(q), s)
                                 \/ Head(q) = s /\ Plain(Tail(q))
<1> USE TailOf
<1>1. Plain(q) => Head(q).do = "append" /\ Plain(Tail(q))
  BY DEF Plain
<1>2. ASSUME NEW s, Lone(q, s)
      PROVE  \/ Head(q).do = "append" /\ Lone(Tail(q), s)
             \/ Head(q) = s /\ Plain(Tail(q))
  <2>1. PICK k \in DOMAIN q : q[k] = s /\ \A j \in DOMAIN q \ {k} : q[j].do = "append"
    BY <1>2 DEF Lone
  <2>2. CASE k = 1
    <3>1. Plain(Tail(q))
      BY <2>1, <2>2 DEF Plain
    <3> QED
      BY <2>1, <2>2, <3>1
  <2>3. CASE k # 1
    <3>1. /\ k - 1 \in 1..(Len(q) - 1) /\ (k - 1) + 1 = k
      BY <2>3
    <3>2. Tail(q)[k - 1] = s
      BY <2>1, <3>1
    <3>3. \A j \in 1..(Len(q) - 1) : j # k - 1 => Tail(q)[j].do = "append"
      <4> TAKE j \in 1..(Len(q) - 1)
      <4>1. Tail(q)[j] = q[j + 1] /\ j + 1 \in DOMAIN q /\ (j # k - 1 => j + 1 # k)
        BY <2>3
      <4> QED
        BY <2>1, <4>1
    <3>4. Head(q).do = "append"
      BY <2>1, <2>3
    <3> QED
      BY <1>2, <3>1, <3>2, <3>3, <3>4 DEF Lone
  <2> QED
    BY <2>2, <2>3
<1> QED
  BY <1>1, <1>2

-----------------------------------------------------------------------------
(* The invariant *)

Queues(c) == DOMAIN c = DOMAIN Empty /\ c["journal"] \in Seq(OfJournal)

\* The record of x is on disk; and it is the one the marker names.
Saved(x) == /\ x.version \in DOMAIN snapshots
            /\ snapshots[x.version] = [vector |-> x.vector, state |-> x.state]
Marked(x) == available /\ Saved(x) /\ marker = x.version

Counts(x) == {e \in Event : e.seq <= x.vector[e.author]}

\* The step of the compaction x that is under way in the queues c.
Saving(c, x) ==
    /\ Plain(c["journal"]) /\ c["metadata"] = <<>>
    /\ c["snapshots"] = <<SaveRequest(x, FALSE)>>
Verifying(c, x) ==
    /\ Plain(c["journal"]) /\ c["metadata"] = <<>>
    /\ c["snapshots"] = <<[do |-> "verify", snap |-> x]>>
    /\ available => Saved(x)
Committing(c, x) ==
    /\ Plain(c["journal"]) /\ c["snapshots"] = <<>>
    /\ c["metadata"] = <<[do |-> "commit", snap |-> x, install |-> FALSE]>>
    /\ available /\ Saved(x)
Truncating(c, x) ==
    /\ c["snapshots"] = <<>> /\ c["metadata"] = <<>>
    /\ \/ Lone(c["journal"], [do |-> "read", snap |-> x])
       \/ \E old \in SUBSET Counts(x) :
             Lone(c["journal"], [do |-> "delete", ops |-> old, snap |-> x])
    /\ Marked(x)
Pruning(c, x) ==
    /\ Plain(c["journal"]) /\ c["metadata"] = <<>>
    /\ c["snapshots"] = <<[do |-> "prune", snap |-> x]>>
    /\ Marked(x)

Resting(c) == Plain(c["journal"]) /\ c["snapshots"] = <<>> /\ c["metadata"] = <<>>
Phase(c, x) ==
    \/ Saving(c, x) \/ Verifying(c, x) \/ Committing(c, x)
    \/ Truncating(c, x) \/ Pruning(c, x)
Phases(c, q) == IF q = <<>> THEN Resting(c) ELSE Phase(c, Head(q))

\* The appends that wait in the queues c are of operations that s has.
Requested(c, s) ==
    \A k \in DOMAIN c["journal"] :
        c["journal"][k].do = "append" => c["journal"][k].op \in Holds(s)

InMemory ==
    /\ Wise(store)
    /\ \A k \in DOMAIN queue : StoreGood(store, queue[k])
    /\ \A j, k \in DOMAIN queue : j < k => Dominates(queue[k].vector, queue[j].vector)
    /\ Requested(calls, store)

\* A process that has found a database knows what is in it.
Together ==
    available =>
        /\ journal \subseteq Holds(store)
        /\ StoreGood(store, Baseline)
        /\ \A k \in DOMAIN queue : Dominates(queue[k].vector, Baseline.vector)

StoreInv == StoreTypeOK /\ Queues(calls) /\ Phases(calls, queue) /\ InMemory /\ OnDisk /\ Together

-----------------------------------------------------------------------------
(* Requests *)

LEMMA EmptyDomain ==
  DOMAIN Empty = {"journal", "snapshots", "metadata"} /\ \A s \in DOMAIN Empty : Empty[s] = <<>>
BY DEF Empty

LEMMA RequestAt ==
  ASSUME NEW c, DOMAIN c = DOMAIN Empty, NEW s \in DOMAIN Empty, NEW r
  PROVE  /\ DOMAIN Request(c, s, r) = DOMAIN Empty
         /\ Request(c, s, r)[s] = Append(c[s], r)
         /\ \A u \in DOMAIN Empty \ {s} : Request(c, s, r)[u] = c[u]
BY DEF Request

LEMMA PerformedAt ==
  ASSUME DOMAIN calls = DOMAIN Empty, NEW s \in DOMAIN Empty
  PROVE  /\ DOMAIN Performed(s) = DOMAIN Empty
         /\ Performed(s)[s] = Tail(calls[s])
         /\ \A u \in DOMAIN Empty \ {s} : Performed(s)[u] = calls[u]
BY DEF Performed

LEMMA FirstRequest ==
  ASSUME NEW r
  PROVE  Append(<<>>, r) = <<r>> /\ <<r>> # <<>> /\ Head(<<r>>) = r /\ Tail(<<r>>) = <<>>
OBVIOUS

\* An append is requested.
LEMMA AppendRequested ==
  ASSUME NEW c, Queues(c), NEW q, Phases(c, q), NEW r \in Appends
  PROVE  LET d == Request(c, "journal", r)
         IN  Queues(d) /\ Phases(d, q)
<1> DEFINE d == Request(c, "journal", r)
<1>1. /\ DOMAIN d = DOMAIN Empty /\ d["journal"] = Append(c["journal"], r)
      /\ d["snapshots"] = c["snapshots"] /\ d["metadata"] = c["metadata"]
  BY RequestAt, EmptyDomain DEF Queues
<1>2. c["journal"] \in Seq(OfJournal) /\ r \in OfJournal /\ r.do = "append"
  BY DEF Queues, OfJournal, Appends
<1>3. d["journal"] \in Seq(OfJournal)
  BY <1>1, <1>2
<1>4. Plain(c["journal"]) => Plain(d["journal"])
  BY <1>1, <1>2, PlainAppend
<1>5. \A s : Lone(c["journal"], s) => Lone(d["journal"], s)
  BY <1>1, <1>2, LoneAppend
<1> HIDE DEF d
<1>6. Phases(d, q)
  <2>1. CASE q = <<>>
    BY <1>1, <1>4, <2>1 DEF Phases, Resting
  <2>2. CASE q # <<>>
    <3>1. Phase(c, Head(q))
      BY <2>2 DEF Phases
    <3>2. Phase(d, Head(q))
      BY <1>1, <1>4, <1>5, <3>1
         DEF Phase, Saving, Verifying, Committing, Truncating, Pruning
    <3> QED
      BY <2>2, <3>2 DEF Phases
  <2> QED
    BY <2>1, <2>2
<1> QED
  BY <1>1, <1>3, <1>6 DEF Queues, d

LEMMA AppendAt ==
  ASSUME NEW S, NEW q \in Seq(S), NEW x \in S
  PROVE  /\ Append(q, x) \in Seq(S) /\ Append(q, x) # <<>>
         /\ DOMAIN q = 1..Len(q) /\ Len(q) \in Nat
         /\ DOMAIN Append(q, x) = 1..(Len(q) + 1)
         /\ Append(q, x)[Len(q) + 1] = x
         /\ \A k \in 1..Len(q) : Append(q, x)[k] = q[k]
         /\ q # <<>> => Head(Append(q, x)) = Head(q)
<1>1. /\ Append(q, x) \in Seq(S) /\ Len(Append(q, x)) = Len(q) + 1 /\ Len(q) \in Nat
      /\ DOMAIN q = 1..Len(q)
      /\ Append(q, x)[Len(q) + 1] = x
      /\ \A k \in 1..Len(q) : Append(q, x)[k] = q[k]
  OBVIOUS
<1>2. DOMAIN Append(q, x) = 1..(Len(q) + 1)
  BY <1>1
<1>3. Append(q, x) # <<>>
  BY <1>1
<1>4. ASSUME q # <<>>
      PROVE  Head(Append(q, x)) = Head(q)
  <2>1. Len(q) >= 1
    BY <1>4
  <2>2. Head(q) = q[1] /\ Head(Append(q, x)) = Append(q, x)[1]
    BY <1>1, <2>1
  <2> QED
    BY <1>1, <2>1, <2>2
<1> QED
  BY <1>1, <1>2, <1>3, <1>4

\* A compaction is queued, and starts if it is the first.
LEMMA CompactionQueued ==
  ASSUME NEW c, Queues(c), NEW q \in Seq(Made), Phases(c, q), NEW x \in Made
  PROVE  Queues(Begin(c, x, q)) /\ Phases(Begin(c, x, q), Append(q, x))
<1> DEFINE r == SaveRequest(x, FALSE)
           d == Request(c, "snapshots", r)
<1> HIDE DEF r
<1>1. Append(q, x) # <<>>
  BY AppendAt
<1>2. CASE q = <<>>
  <2>1. /\ DOMAIN d = DOMAIN Empty /\ d["journal"] = c["journal"]
        /\ d["snapshots"] = Append(c["snapshots"], r) /\ d["metadata"] = c["metadata"]
    <3>1. "snapshots" \in DOMAIN Empty /\ "journal" \in DOMAIN Empty \ {"snapshots"}
          /\ "metadata" \in DOMAIN Empty \ {"snapshots"}
      BY EmptyDomain
    <3>2. DOMAIN c = DOMAIN Empty
      BY DEF Queues
    <3> QED
      BY <3>1, <3>2, RequestAt
  <2>2. Resting(c)
    BY <1>2 DEF Phases
  <2>3. Begin(c, x, q) = d
    BY <1>2 DEF Begin, r
  <2>4. Head(Append(q, x)) = x
    BY <1>2, FirstRequest
  <2> HIDE DEF d
  <2>5. d["snapshots"] = <<r>>
    BY <2>1, <2>2, FirstRequest DEF Resting
  <2>6. Saving(d, x)
    BY <2>1, <2>2, <2>5 DEF Resting, Saving, r
  <2> QED
    BY <1>1, <2>1, <2>3, <2>4, <2>6 DEF Phases, Phase, Queues
<1>3. CASE q # <<>>
  <2>1. Begin(c, x, q) = c /\ Head(Append(q, x)) = Head(q)
    BY <1>3, AppendAt DEF Begin
  <2> QED
    BY <1>1, <1>3, <2>1 DEF Phases
<1> QED
  BY <1>2, <1>3

\* A step that leaves the disk alone keeps the phase it leads to.
LEMMA PhasesStand ==
  ASSUME UNCHANGED <<snapshots, marker, available>>, Phases(calls', queue')
  PROVE  Phases(calls, queue)'
BY DEF Phases, Resting, Phase, Saving, Verifying, Committing, Truncating, Pruning,
       Marked, Saved

\* With one step of a compaction at <<s, k>> and no other, the compactions are
\* serialised.
LEMMA SerialisedCorrect ==
  ASSUME Queues(calls), Phases(calls, queue), queue \in Seq(Made)
  PROVE  Serialised
<1> DEFINE OfCompaction(r) ==
              ~(r.do = "append" \/ (r.do \in {"save", "commit"} /\ r.install))
           steps == UNION {{<<s, k>> : k \in {n \in DOMAIN calls[s] : OfCompaction(calls[s][n])}} :
                           s \in DOMAIN Empty}
<1>1. Serialised <=> IF queue = <<>> THEN steps = {}
                     ELSE \E x \in steps : steps = {x} /\ calls[x[1]][x[2]].snap = Head(queue)
  BY DEF Serialised
<1>2. \A s, k : <<s, k>> \in steps <=> /\ s \in DOMAIN Empty /\ k \in DOMAIN calls[s]
                                       /\ OfCompaction(calls[s][k])
  OBVIOUS
<1>3. \A x \in steps : x = <<x[1], x[2]>>
  OBVIOUS
<1> HIDE DEF steps
<1>4. ASSUME NEW s \in DOMAIN Empty, NEW k \in DOMAIN calls[s], OfCompaction(calls[s][k]),
             \A u \in DOMAIN Empty : \A j \in DOMAIN calls[u] :
                 u # s \/ j # k => ~OfCompaction(calls[u][j])
      PROVE  /\ <<s, k>> \in steps /\ steps = {<<s, k>>}
             /\ <<s, k>>[1] = s /\ <<s, k>>[2] = k
  <2>1. <<s, k>> \in steps
    BY <1>2, <1>4
  <2>2. ASSUME NEW x \in steps
        PROVE  x = <<s, k>>
    <3>1. x = <<x[1], x[2]>>
      BY <1>3
    <3>2. /\ x[1] \in DOMAIN Empty /\ x[2] \in DOMAIN calls[x[1]]
          /\ OfCompaction(calls[x[1]][x[2]])
      BY <1>2, <3>1
    <3> HIDE DEF OfCompaction
    <3> QED
      BY <1>4, <3>1, <3>2
  <2> QED
    BY <2>1, <2>2
<1>5. DOMAIN Empty = {"journal", "snapshots", "metadata"} /\ DOMAIN <<>> = {}
  BY EmptyDomain
<1>6. Plain(calls["journal"]) =>
        \A j \in DOMAIN calls["journal"] : ~OfCompaction(calls["journal"][j])
  BY DEF Plain
<1>7. CASE queue = <<>>
  <2>1. Resting(calls)
    BY <1>7 DEF Phases
  <2>2. \A u \in DOMAIN Empty : \A j \in DOMAIN calls[u] : ~OfCompaction(calls[u][j])
    <3> HIDE DEF OfCompaction
    <3> QED
      BY <1>5, <1>6, <2>1 DEF Resting
  <2>3. steps = {}
    <3> HIDE DEF OfCompaction
    <3> QED
      BY <1>2, <1>3, <2>2
  <2> QED
    BY <1>1, <1>7, <2>3
<1>8. CASE queue # <<>>
  <2> DEFINE x == Head(queue)
  <2>1. Phase(calls, x)
    BY <1>8 DEF Phases
  <2> HIDE DEF x
  <2>2. ASSUME NEW s \in {"snapshots", "metadata"}, NEW r,
               calls[s] = <<r>>, OfCompaction(r), r.snap = x,
               Plain(calls["journal"]),
               \A u \in {"snapshots", "metadata"} : u # s => calls[u] = <<>>
        PROVE  Serialised
    <3>1. s \in DOMAIN Empty /\ 1 \in DOMAIN calls[s] /\ calls[s][1] = r
          /\ DOMAIN calls[s] = {1}
      BY <1>5, <2>2
    <3>2. ASSUME NEW u \in DOMAIN Empty, NEW j \in DOMAIN calls[u], u # s \/ j # 1
          PROVE  ~OfCompaction(calls[u][j])
      <4> HIDE DEF OfCompaction
      <4>1. u = "journal"
        BY <1>5, <2>2, <3>1, <3>2
      <4> QED
        BY <1>6, <2>2, <3>2, <4>1
    <3> HIDE DEF OfCompaction
    <3>3. <<s, 1>> \in steps /\ steps = {<<s, 1>>} /\ <<s, 1>>[1] = s /\ <<s, 1>>[2] = 1
      BY <1>4, <2>2, <3>1, <3>2
    <3> QED
      BY <1>1, <1>8, <2>2, <3>1, <3>3 DEF x
  <2>3. ASSUME NEW r, Lone(calls["journal"], r), OfCompaction(r), r.snap = x,
               calls["snapshots"] = <<>>, calls["metadata"] = <<>>
        PROVE  Serialised
    <3>1. PICK k \in DOMAIN calls["journal"] :
             calls["journal"][k] = r /\ \A j \in DOMAIN calls["journal"] \ {k} :
                                           calls["journal"][j].do = "append"
      BY <2>3 DEF Lone
    <3>2. ASSUME NEW u \in DOMAIN Empty, NEW j \in DOMAIN calls[u], u # "journal" \/ j # k
          PROVE  ~OfCompaction(calls[u][j])
      <4>1. u = "journal"
        BY <1>5, <2>3, <3>2
      <4> QED
        BY <3>1, <3>2, <4>1
    <3> HIDE DEF OfCompaction
    <3>3. "journal" \in DOMAIN Empty
      BY <1>5
    <3>4. /\ <<"journal", k>> \in steps /\ steps = {<<"journal", k>>}
          /\ <<"journal", k>>[1] = "journal" /\ <<"journal", k>>[2] = k
      BY <1>4, <2>3, <3>1, <3>2, <3>3
    <3> QED
      BY <1>1, <1>8, <2>3, <3>1, <3>4 DEF x
  <2>4. CASE Saving(calls, x)
    BY <2>2, <2>4 DEF Saving, SaveRequest
  <2>5. CASE Verifying(calls, x)
    BY <2>2, <2>5 DEF Verifying
  <2>6. CASE Committing(calls, x)
    BY <2>2, <2>6 DEF Committing
  <2>7. CASE Truncating(calls, x)
    <3>1. calls["snapshots"] = <<>> /\ calls["metadata"] = <<>>
      BY <2>7 DEF Truncating
    <3>2. CASE Lone(calls["journal"], [do |-> "read", snap |-> x])
      <4> DEFINE r == [do |-> "read", snap |-> x]
      <4>1. OfCompaction(r) /\ r.snap = x
        OBVIOUS
      <4> HIDE DEF OfCompaction
      <4> QED
        BY <2>3, <3>1, <3>2, <4>1
    <3>3. ASSUME NEW old,
                 Lone(calls["journal"], [do |-> "delete", ops |-> old, snap |-> x])
          PROVE  Serialised
      <4> DEFINE r == [do |-> "delete", ops |-> old, snap |-> x]
      <4>1. OfCompaction(r) /\ r.snap = x
        OBVIOUS
      <4> HIDE DEF OfCompaction
      <4> QED
        BY <2>3, <3>1, <3>3, <4>1
    <3> QED
      BY <2>7, <3>2, <3>3 DEF Truncating
  <2>8. CASE Pruning(calls, x)
    BY <2>2, <2>8 DEF Pruning
  <2> QED
    BY <2>1, <2>4, <2>5, <2>6, <2>7, <2>8 DEF Phase
<1> QED
  BY <1>7, <1>8

-----------------------------------------------------------------------------
(* What the store in memory does *)

\* The store grows to t, and queues the snapshot it made, if it made one.
LEMMA MemoryGrows ==
  ASSUME StoreInv, NEW t, Grows(store, t), store' = t,
         UNCHANGED <<disk, available>>,
         Requested(calls', t),
         \/ queue' = queue
         \/ \E x \in Made : /\ queue' = Append(queue, x)
                            /\ x.vector = t.snapshot.vector
                            /\ x.state = t.snapshot.state
  PROVE  InMemory' /\ Together'
<1>1. /\ Wise(store) /\ Wise(t)
      /\ queue \in Seq(Made) /\ DOMAIN queue = 1..Len(queue) /\ Len(queue) \in Nat
  BY DEF StoreInv, InMemory, Grows, StoreTypeOK
<1>2. \A x : StoreGood(store, x) => StoreGood(t, x)
  BY <1>1, GoodStays
<1>3. ASSUME NEW x, x.vector = t.snapshot.vector, x.state = t.snapshot.state
      PROVE  StoreGood(t, x)
  <2>1. /\ t.snapshot.vector \in Vector /\ t.snapshot.state \in Seq(SUBSET Event)
        /\ Faithful(x.state, x.vector)
    BY <1>1, <1>3 DEF Wise, Sound, Store, Snapshot, Exact
  <2>2. Dominates(t.snapshot.vector, x.vector)
    BY <1>3, <2>1, BoundsAssumption DEF Dominates, Vector
  <2> QED
    BY <1>1, <1>3, <2>1, <2>2 DEF StoreGood, Wise, Holds, Covers
<1>4. Baseline' = Baseline
  BY DEF disk, Baseline, Committed
\* The snapshots in the queue are good, and each dominates those before it.
<1>5. /\ \A k \in DOMAIN queue' : StoreGood(t, queue'[k])
      /\ \A j, k \in DOMAIN queue' :
            j < k => Dominates(queue'[k].vector, queue'[j].vector)
      /\ available => \A k \in DOMAIN queue' : Dominates(queue'[k].vector, Baseline.vector)
  <2>1. CASE queue' = queue
    BY <1>2, <2>1 DEF StoreInv, InMemory, Together
  <2>2. CASE \E x \in Made : /\ queue' = Append(queue, x)
                             /\ x.vector = t.snapshot.vector
                             /\ x.state = t.snapshot.state
    <3>1. PICK x \in Made : /\ queue' = Append(queue, x)
                            /\ x.vector = t.snapshot.vector
                            /\ x.state = t.snapshot.state
      BY <2>2
    <3> DEFINE n == Len(queue) + 1
    <3>2. /\ DOMAIN queue' = 1..n /\ queue'[n] = x
          /\ \A k \in 1..Len(queue) : queue'[k] = queue[k]
      <4> DEFINE q == Append(queue, x)
      <4>1. /\ DOMAIN q = 1..n /\ q[n] = x
            /\ \A k \in 1..Len(queue) : q[k] = queue[k]
        BY <1>1, AppendAt
      <4>2. queue' = q
        BY <3>1
      <4> HIDE DEF q
      <4> QED
        BY <4>1, <4>2
    <3>3. \A k \in 1..n : k \in 1..Len(queue) \/ k = n
      BY <1>1
    <3>4. \A k \in 1..Len(queue) : StoreGood(store, queue'[k]) /\ StoreGood(t, queue'[k])
      BY <1>1, <1>2, <3>2 DEF StoreInv, InMemory
    <3>5. StoreGood(t, x)
      BY <1>3, <3>1
    <3>6. ASSUME NEW j \in 1..n, NEW k \in 1..n, j < k
          PROVE  Dominates(queue'[k].vector, queue'[j].vector)
      <4>1. j \in 1..Len(queue)
        BY <1>1, <3>6
      <4>2. CASE k = n
        BY <3>1, <3>2, <3>4, <4>1, <4>2 DEF StoreGood
      <4>3. CASE k \in 1..Len(queue)
        BY <1>1, <3>2, <3>6, <4>1, <4>3 DEF StoreInv, InMemory
      <4> QED
        BY <3>3, <4>2, <4>3
    <3>7. ASSUME available, NEW k \in 1..n
          PROVE  Dominates(queue'[k].vector, Baseline.vector)
      <4>1. StoreGood(t, Baseline)
        BY <1>2, <3>7 DEF StoreInv, Together
      <4> QED
        BY <1>1, <3>1, <3>2, <3>3, <3>7, <4>1 DEF StoreGood, StoreInv, Together
    <3> QED
      BY <3>2, <3>3, <3>4, <3>5, <3>6, <3>7
  <2> QED
    BY <2>1, <2>2
<1>6. InMemory'
  BY <1>1, <1>5 DEF InMemory
<1>7. Together'
  <2>1. ASSUME available
        PROVE  journal \subseteq Holds(t) /\ StoreGood(t, Baseline)
    BY <1>2, <2>1 DEF StoreInv, Together, Grows
  <2> QED
    BY <1>4, <1>5, <2>1 DEF Together, disk
<1> QED
  BY <1>6, <1>7

LEMMA DiskStands ==
  ASSUME OnDisk, UNCHANGED <<disk, kept, published>>
  PROVE  OnDisk'
BY DEF OnDisk, disk, Baseline, Committed, Recovered, Replayed

\* An operation that t has is requested to be appended.
LEMMA RequestedThen ==
  ASSUME NEW c, Queues(c), NEW s, Requested(c, s), NEW t, Holds(s) \subseteq Holds(t),
         NEW e \in Holds(t), e \in Event, NEW publish \in BOOLEAN
  PROVE  LET r == AppendRequest(e, publish)
         IN  r \in Appends /\ Requested(Request(c, "journal", r), t)
<1> DEFINE r == AppendRequest(e, publish)
           d == Request(c, "journal", r)
<1>1. r \in Appends /\ r.op = e /\ r \in OfJournal
  BY DEF Appends, AppendRequest, OfJournal
<1> HIDE DEF r
<1>2. c["journal"] \in Seq(OfJournal) /\ d["journal"] = Append(c["journal"], r)
  BY RequestAt, EmptyDomain DEF Queues
<1> HIDE DEF d
<1>3. /\ DOMAIN d["journal"] = 1..(Len(c["journal"]) + 1)
      /\ DOMAIN c["journal"] = 1..Len(c["journal"]) /\ Len(c["journal"]) \in Nat
      /\ d["journal"][Len(c["journal"]) + 1] = r
      /\ \A k \in 1..Len(c["journal"]) : d["journal"][k] = c["journal"][k]
  BY <1>1, <1>2, AppendAt
<1>4. ASSUME NEW k \in DOMAIN d["journal"], d["journal"][k].do = "append"
      PROVE  d["journal"][k].op \in Holds(t)
  <2>1. k \in 1..Len(c["journal"]) \/ k = Len(c["journal"]) + 1
    BY <1>3
  <2>2. CASE k \in 1..Len(c["journal"])
    BY <1>3, <1>4, <2>2 DEF Requested
  <2>3. CASE k = Len(c["journal"]) + 1
    BY <1>1, <1>3, <2>3
  <2> QED
    BY <2>1, <2>2, <2>3
<1> QED
  BY <1>1, <1>4 DEF Requested, r, d

\* compact() of a store s that came from the one in memory.
LEMMA CompactStep ==
  ASSUME StoreInv, NEW s, Grows(store, s), NEW force,
         NEW c, Queues(c), Phases(c, queue), Requested(c, s),
         Compact(s, force, c), UNCHANGED <<disk, kept, published, available>>
  PROVE  /\ (Queues(calls) /\ Phases(calls, queue) /\ InMemory /\ OnDisk /\ Together)'
         /\ store' \in Store /\ made' \in Version /\ adopted' \in Version
         /\ queue' \in Seq(Made)
<1>1. /\ Wise(store) /\ Wise(s) /\ queue \in Seq(Made) /\ made \in Version
      /\ adopted \in Version /\ MaxVersion \in Nat
  BY SelfAssumption DEF StoreInv, InMemory, Grows, StoreTypeOK
<1>2. UNCHANGED <<snapshots, marker, available>>
  BY DEF disk
<1>3. OnDisk'
  BY DiskStands DEF StoreInv
<1>4. CASE store' = s /\ calls' = c /\ UNCHANGED <<made, adopted, queue>>
  <2>1. InMemory' /\ Together'
    BY <1>4, MemoryGrows
  <2>2. Phases(calls, queue)'
    BY <1>2, <1>4, PhasesStand
  <2> QED
    BY <1>1, <1>3, <1>4, <2>1, <2>2 DEF Queues, Wise, Sound
<1> DEFINE t == Raised(Compacted(s, force))
           x == [version |-> made + 1, vector |-> t.snapshot.vector,
                 state |-> t.snapshot.state]
<1>5. CASE /\ made < MaxVersion /\ store' = t /\ made' = made + 1 /\ adopted' = made + 1
           /\ queue' = Append(queue, x) /\ calls' = Begin(c, x, queue)
  <2>1. Grows(s, t)
    BY <1>1, CompactGrows
  <2> HIDE DEF t
  <2>2. Grows(store, t)
    BY <1>1, <2>1, GrowsOn
  <2>3. made + 1 \in Version
    BY <1>1, <1>5 DEF Version
  <2>4. /\ x \in Made /\ x.vector = t.snapshot.vector /\ x.state = t.snapshot.state
        /\ t \in Store
    BY <2>1, <2>3 DEF Grows, Wise, Sound, Store, Snapshot, Made
  <2> HIDE DEF x
  <2>5. Queues(calls') /\ Phases(calls', queue') /\ queue' \in Seq(Made)
    BY <1>1, <1>5, <2>4, CompactionQueued, AppendAt
  <2>6. Phases(calls, queue)'
    BY <1>2, <2>5, PhasesStand
  <2>7. calls'["journal"] = c["journal"]
    <3>1. "journal" \in DOMAIN Empty \ {"snapshots"} /\ "snapshots" \in DOMAIN Empty
      BY EmptyDomain
    <3>2. DOMAIN c = DOMAIN Empty
      BY DEF Queues
    <3>3. \A r : Request(c, "snapshots", r)["journal"] = c["journal"]
      BY <3>1, <3>2, RequestAt
    <3> QED
      BY <1>5, <3>3 DEF Begin
  <2>8. Requested(calls', t)
    BY <2>1, <2>7 DEF Requested, Grows
  <2>9. InMemory' /\ Together'
    BY <1>5, <2>2, <2>4, <2>8, MemoryGrows
  <2> QED
    BY <1>3, <1>5, <2>3, <2>4, <2>5, <2>6, <2>9 DEF Queues
<1> QED
  BY <1>4, <1>5 DEF Compact

\* What an operation of the store leaves alone keeps its type.
LEMMA OperateType ==
  ASSUME StoreTypeOK, store' \in Store, made' \in Version, adopted' \in Version,
         queue' \in Seq(Made), awaiting' \in Nat, Queues(calls'),
         UNCHANGED <<disk, kept, published, available, crashes, failures>>
  PROVE  StoreTypeOK'
BY DEF StoreTypeOK, disk, Queues

LEMMA MutateStep ==
  ASSUME StoreInv, MutateSync
  PROVE  StoreInv'
<1> DEFINE e == NewEvent(store, Self, {})
           s == Appended(store, e)
           c == Request(calls, "journal", AppendRequest(e, FALSE))
<1>1. /\ Wise(store) /\ store.localSeq < MaxOps /\ Compact(s, FALSE, c)
      /\ UNCHANGED <<awaiting, disk, kept, published, available, crashes, failures>>
      /\ awaiting \in Nat /\ StoreTypeOK
  BY DEF StoreInv, InMemory, MutateSync, StoreTypeOK
<1>2. e \in Event /\ Grows(store, s) /\ e \in Holds(s)
  BY <1>1, AppendedGrows
<1> HIDE DEF s
<1>3. AppendRequest(e, FALSE) \in Appends /\ Requested(c, s)
  BY <1>2, RequestedThen DEF StoreInv, InMemory, Grows
<1>4. Queues(c) /\ Phases(c, queue)
  BY <1>3, AppendRequested DEF StoreInv
<1> HIDE DEF c, e
<1>5. /\ (Queues(calls) /\ Phases(calls, queue) /\ InMemory /\ OnDisk /\ Together)'
      /\ store' \in Store /\ made' \in Version /\ adopted' \in Version
      /\ queue' \in Seq(Made)
  BY <1>1, <1>2, <1>3, <1>4, CompactStep
<1>6. StoreTypeOK'
  BY <1>1, <1>5, OperateType DEF Queues
<1> QED
  BY <1>5, <1>6 DEF StoreInv

LEMMA MutateAsyncStep ==
  ASSUME StoreInv, MutateAsync
  PROVE  StoreInv'
<1> DEFINE e == NewEvent(store, Self, {})
           s == Appended(store, e)
           c == Request(calls, "journal", AppendRequest(e, TRUE))
<1>1. /\ Wise(store) /\ store.localSeq < MaxOps /\ store' = s /\ calls' = c
      /\ UNCHANGED <<made, adopted, awaiting, queue, disk, kept, published,
                     available, crashes, failures>>
      /\ StoreTypeOK
  BY DEF StoreInv, InMemory, MutateAsync
<1>2. e \in Event /\ Grows(store, s) /\ e \in Holds(s)
  BY <1>1, AppendedGrows
<1> HIDE DEF s
<1>3. AppendRequest(e, TRUE) \in Appends /\ Requested(c, s)
  BY <1>2, RequestedThen DEF StoreInv, InMemory, Grows
<1>4. Queues(c) /\ Phases(c, queue)
  BY <1>3, AppendRequested DEF StoreInv
<1> HIDE DEF c, e
<1>5. InMemory' /\ Together'
  BY <1>1, <1>2, <1>3, MemoryGrows
<1>6. OnDisk'
  BY <1>1, DiskStands DEF StoreInv
<1>7. Phases(calls, queue)'
  BY <1>1, <1>4, PhasesStand DEF disk
<1>8. StoreTypeOK'
  BY <1>1, <1>2, <1>4, OperateType DEF Grows, Wise, Sound, StoreTypeOK
<1> QED
  BY <1>1, <1>4, <1>5, <1>6, <1>7, <1>8 DEF StoreInv, Queues

LEMMA SettleStep ==
  ASSUME StoreInv, Settle
  PROVE  StoreInv'
<1>1. awaiting \in Nat /\ awaiting > 0 /\ awaiting' = awaiting - 1
  BY DEF StoreInv, StoreTypeOK, Settle
<1>2. awaiting' \in Nat
  BY <1>1
<1>3. /\ Wise(store) /\ Compact(store, FALSE, calls) /\ StoreTypeOK
      /\ UNCHANGED <<disk, kept, published, available, crashes, failures>>
  BY DEF StoreInv, InMemory, Settle
<1>4. Grows(store, store)
  BY <1>3, GrowsItself
<1>5. /\ (Queues(calls) /\ Phases(calls, queue) /\ InMemory /\ OnDisk /\ Together)'
      /\ store' \in Store /\ made' \in Version /\ adopted' \in Version
      /\ queue' \in Seq(Made)
  BY <1>3, <1>4, CompactStep DEF StoreInv, InMemory
<1>6. StoreTypeOK'
  BY <1>3, <1>5, <1>2, OperateType DEF Queues
<1> QED
  BY <1>5, <1>6 DEF StoreInv

LEMMA ForceCompactionStep ==
  ASSUME StoreInv, ForceCompaction
  PROVE  StoreInv'
<1>1. /\ Wise(store) /\ Compact(store, TRUE, calls) /\ awaiting' \in Nat /\ StoreTypeOK
      /\ UNCHANGED <<disk, kept, published, available, crashes, failures>>
  BY DEF StoreInv, InMemory, ForceCompaction, StoreTypeOK
<1>2. Grows(store, store)
  BY <1>1, GrowsItself
<1>3. /\ (Queues(calls) /\ Phases(calls, queue) /\ InMemory /\ OnDisk /\ Together)'
      /\ store' \in Store /\ made' \in Version /\ adopted' \in Version
      /\ queue' \in Seq(Made)
  BY <1>1, <1>2, CompactStep DEF StoreInv, InMemory
<1>4. StoreTypeOK'
  BY <1>1, <1>3, OperateType DEF Queues
<1> QED
  BY <1>3, <1>4 DEF StoreInv

LEMMA ReceiveOpStep ==
  ASSUME StoreInv, NEW a \in Replicas \ {Self}, NEW n \in Arriving, ReceiveRemote(Remote(a, n))
  PROVE  StoreInv'
<1> DEFINE e == Remote(a, n)
           s == Inserted(store, e)
           c == Request(calls, "journal", AppendRequest(e, FALSE))
<1>1. /\ Wise(store) /\ Compact(s, FALSE, c) /\ awaiting' \in Nat /\ StoreTypeOK
      /\ UNCHANGED <<disk, kept, published, available, crashes, failures>>
  BY DEF StoreInv, InMemory, ReceiveRemote, StoreTypeOK
<1>2. e \in Event /\ Grows(store, s) /\ e \in Holds(s)
  BY <1>1, InsertedGrows
<1> HIDE DEF s
<1>3. AppendRequest(e, FALSE) \in Appends /\ Requested(c, s)
  BY <1>2, RequestedThen DEF StoreInv, InMemory, Grows
<1>4. Queues(c) /\ Phases(c, queue)
  BY <1>3, AppendRequested DEF StoreInv
<1> HIDE DEF c, e
<1>5. /\ (Queues(calls) /\ Phases(calls, queue) /\ InMemory /\ OnDisk /\ Together)'
      /\ store' \in Store /\ made' \in Version /\ adopted' \in Version
      /\ queue' \in Seq(Made)
  BY <1>1, <1>2, <1>3, <1>4, CompactStep
<1>6. StoreTypeOK'
  BY <1>1, <1>5, OperateType DEF Queues
<1> QED
  BY <1>5, <1>6 DEF StoreInv

-----------------------------------------------------------------------------
(* What the requests do *)

\* The request at the head of s: an append, or the step of the compaction at
\* the head of the queue, which no other request accompanies.
LEMMA AppendEnds ==
  ASSUME StoreInv, NEW s \in DOMAIN Empty, calls[s] # <<>>, Head(calls[s]).do = "append"
  PROVE  /\ s = "journal" /\ Head(calls[s]) \in Appends /\ Head(calls[s]).op \in Holds(store)
         /\ Queues(Performed(s)) /\ Phases(Performed(s), queue)
         /\ Requested(Performed(s), store)
<1> DEFINE q == calls["journal"]
           c == Performed("journal")
<1>1. /\ Queues(calls) /\ q \in Seq(OfJournal) /\ Requested(calls, store)
      /\ Phases(calls, queue)
  BY DEF StoreInv, InMemory, Queues
<1>2. s = "journal"
  <2>1. CASE queue = <<>>
    BY <1>1, <2>1, EmptyDomain DEF Phases, Resting
  <2>2. CASE queue # <<>>
    <3> DEFINE x == Head(queue)
    <3>1. Phase(calls, x)
      BY <1>1, <2>2 DEF Phases
    <3> HIDE DEF x
    <3>2. \A r : Head(<<r>>) = r
      OBVIOUS
    <3> QED
      BY <3>1, <3>2, EmptyDomain
         DEF Phase, Saving, Verifying, Committing, Truncating, Pruning, SaveRequest
  <2> QED
    BY <2>1, <2>2
<1>3. /\ DOMAIN c = DOMAIN Empty /\ c["journal"] = Tail(q)
      /\ c["snapshots"] = calls["snapshots"] /\ c["metadata"] = calls["metadata"]
  <2>1. "journal" \in DOMAIN Empty /\ DOMAIN calls = DOMAIN Empty
    BY <1>1, EmptyDomain DEF Queues
  <2> QED
    BY <2>1, PerformedAt, EmptyDomain
<1>4. q # <<>> /\ Head(q).do = "append"
  BY <1>2
<1> HIDE DEF q, c
<1>5. Head(q) \in Appends /\ Head(q).op \in Holds(store)
  <2>1. Head(q) \in OfJournal /\ Head(q) = q[1] /\ 1 \in DOMAIN q
    BY <1>1, <1>4, TailOf
  <2>2. Head(q) \in Appends
    BY <1>4, <2>1 DEF OfJournal
  <2> QED
    BY <1>1, <1>4, <2>1, <2>2 DEF Requested, q
<1>6. Queues(c) /\ Requested(c, store)
  <2>1. /\ Tail(q) \in Seq(OfJournal)
        /\ DOMAIN Tail(q) = 1..(Len(q) - 1)
        /\ \A k \in 1..(Len(q) - 1) : k + 1 \in DOMAIN q /\ Tail(q)[k] = q[k + 1]
    BY <1>1, <1>4, TailOf
  <2> QED
    BY <1>1, <1>3, <2>1 DEF Queues, Requested, q
<1>7. Phases(c, queue)
  <2>1. /\ Plain(q) => Plain(Tail(q))
        /\ \A r : Lone(q, r) => Lone(Tail(q), r)
    BY <1>1, <1>4, PlainTail DEF Lone
  <2>2. CASE queue = <<>>
    BY <1>1, <1>3, <2>1, <2>2 DEF Phases, Resting, q
  <2>3. CASE queue # <<>>
    <3>1. Phase(calls, Head(queue))
      BY <1>1, <2>3 DEF Phases
    <3>2. Phase(c, Head(queue))
      BY <1>3, <2>1, <3>1
         DEF Phase, Saving, Verifying, Committing, Truncating, Pruning, q
    <3> QED
      BY <2>3, <3>2 DEF Phases
  <2> QED
    BY <2>2, <2>3
<1> QED
  BY <1>2, <1>5, <1>6, <1>7 DEF q, c

LEMMA CompactionStep ==
  ASSUME StoreInv, NEW s \in DOMAIN Empty, calls[s] # <<>>, Head(calls[s]).do # "append"
  PROVE  LET r == Head(calls[s])
             x == Head(queue)
         IN  /\ queue # <<>> /\ x \in Made
             /\ Queues(Performed(s)) /\ Resting(Performed(s))
             /\ Requested(Performed(s), store)
             /\ r.do \in {"save", "verify", "commit", "read", "delete", "prune"}
             /\ r.do = "save" => s = "snapshots" /\ r = SaveRequest(x, FALSE)
             /\ r.do = "verify" => /\ s = "snapshots" /\ r = [do |-> "verify", snap |-> x]
                                   /\ available => Saved(x)
             /\ r.do = "commit" =>
                   /\ s = "metadata" /\ r = [do |-> "commit", snap |-> x, install |-> FALSE]
                   /\ available /\ Saved(x)
             /\ r.do = "read" => /\ s = "journal" /\ r = [do |-> "read", snap |-> x]
                                 /\ Marked(x)
             /\ r.do = "delete" => /\ s = "journal" /\ r.ops \in SUBSET Counts(x)
                                   /\ r.snap = x /\ Marked(x)
             /\ r.do = "prune" => /\ s = "snapshots" /\ r = [do |-> "prune", snap |-> x]
                                  /\ Marked(x)
<1> DEFINE q == calls["journal"]
           r == Head(calls[s])
           x == Head(queue)
           c == Performed(s)
<1>1. /\ Queues(calls) /\ q \in Seq(OfJournal) /\ Requested(calls, store)
      /\ Phases(calls, queue) /\ queue \in Seq(Made)
  BY DEF StoreInv, InMemory, Queues, StoreTypeOK
<1>2. Plain(q) => s # "journal"
  BY <1>1, PlainTail
<1>3. queue # <<>> /\ Phase(calls, x)
  BY <1>1, <1>2, EmptyDomain DEF Phases, Resting
<1>4. x \in Made
  BY <1>1, <1>3
<1>5. /\ DOMAIN c = DOMAIN Empty /\ c[s] = Tail(calls[s])
      /\ \A u \in DOMAIN Empty \ {s} : c[u] = calls[u]
  BY <1>1, PerformedAt DEF Queues
<1> HIDE DEF c, r, x
<1>6. \A u : Head(<<u>>) = u /\ Tail(<<u>>) = <<>>
  OBVIOUS
<1>7. CASE s = "journal"
  <2>1. /\ c["journal"] = Tail(q) /\ c["snapshots"] = calls["snapshots"]
        /\ c["metadata"] = calls["metadata"] /\ q # <<>> /\ r = Head(q)
    BY <1>5, <1>7, EmptyDomain DEF r
  <2>2. Truncating(calls, x)
    BY <1>2, <1>3, <1>7 DEF Phase, Saving, Verifying, Committing, Pruning
  <2> HIDE DEF q
  <2>3. \A u : Lone(q, u) => r = u /\ Plain(Tail(q))
    BY <1>1, <2>1, PlainTail DEF r
  <2>4. /\ Tail(q) \in Seq(OfJournal)
        /\ DOMAIN Tail(q) = 1..(Len(q) - 1)
        /\ \A k \in 1..(Len(q) - 1) : k + 1 \in DOMAIN q /\ Tail(q)[k] = q[k + 1]
    BY <1>1, <2>1, TailOf
  <2>5. Queues(c) /\ Requested(c, store)
    BY <1>1, <1>5, <2>1, <2>4 DEF Queues, Requested, q
  <2>6. Plain(Tail(q)) /\ Marked(x) /\ calls["snapshots"] = <<>> /\ calls["metadata"] = <<>>
        /\ \/ r = [do |-> "read", snap |-> x]
           \/ \E old \in SUBSET Counts(x) : r = [do |-> "delete", ops |-> old, snap |-> x]
    <3>1. Marked(x) /\ calls["snapshots"] = <<>> /\ calls["metadata"] = <<>>
      BY <2>2 DEF Truncating
    <3>2. CASE Lone(q, [do |-> "read", snap |-> x])
      BY <2>3, <3>1, <3>2
    <3>3. ASSUME NEW old \in SUBSET Counts(x),
                 Lone(q, [do |-> "delete", ops |-> old, snap |-> x])
          PROVE  r = [do |-> "delete", ops |-> old, snap |-> x] /\ Plain(Tail(q))
      BY <2>3, <3>3
    <3> QED
      BY <2>2, <3>1, <3>2, <3>3 DEF Truncating, q
  <2>7. Resting(c)
    BY <2>1, <2>6 DEF Resting
  <2>8. /\ r.do \in {"read", "delete"} /\ Marked(x)
        /\ r.do = "read" => r = [do |-> "read", snap |-> x]
        /\ r.do = "delete" => r.ops \in SUBSET Counts(x) /\ r.snap = x
    BY <2>6
  <2> QED
    BY <1>3, <1>4, <1>7, <2>5, <2>7, <2>8 DEF c, r, x
<1>8. CASE s # "journal"
  <2>1. c["journal"] = q
    BY <1>5, <1>8, EmptyDomain
  <2>2. Queues(c) /\ Requested(c, store)
    BY <1>1, <1>5, <2>1 DEF Queues, Requested
  <2>3. ~Truncating(calls, x)
    BY <1>8, EmptyDomain DEF Truncating
  <2>4. /\ Plain(q) /\ c["snapshots"] = <<>> /\ c["metadata"] = <<>>
        /\ \/ s = "snapshots" /\ r = SaveRequest(x, FALSE)
           \/ /\ s = "snapshots" /\ r = [do |-> "verify", snap |-> x]
              /\ available => Saved(x)
           \/ /\ s = "metadata" /\ r = [do |-> "commit", snap |-> x, install |-> FALSE]
              /\ available /\ Saved(x)
           \/ s = "snapshots" /\ r = [do |-> "prune", snap |-> x] /\ Marked(x)
    <3>1. CASE Saving(calls, x)
      BY <1>5, <1>6, <1>8, <3>1, EmptyDomain DEF Saving, r
    <3>2. CASE Verifying(calls, x)
      BY <1>5, <1>6, <1>8, <3>2, EmptyDomain DEF Verifying, r
    <3>3. CASE Committing(calls, x)
      BY <1>5, <1>6, <1>8, <3>3, EmptyDomain DEF Committing, r
    <3>4. CASE Pruning(calls, x)
      BY <1>5, <1>6, <1>8, <3>4, EmptyDomain DEF Pruning, r
    <3> QED
      BY <1>3, <2>3, <3>1, <3>2, <3>3, <3>4 DEF Phase
  <2>5. Resting(c)
    BY <2>1, <2>4 DEF Resting
  <2>6. /\ r.do \in {"save", "verify", "commit", "prune"}
        /\ r.do = "save" => s = "snapshots" /\ r = SaveRequest(x, FALSE)
        /\ r.do = "verify" => /\ s = "snapshots" /\ r = [do |-> "verify", snap |-> x]
                              /\ available => Saved(x)
        /\ r.do = "commit" =>
              /\ s = "metadata" /\ r = [do |-> "commit", snap |-> x, install |-> FALSE]
              /\ available /\ Saved(x)
        /\ r.do = "prune" => /\ s = "snapshots" /\ r = [do |-> "prune", snap |-> x]
                             /\ Marked(x)
    BY <2>4 DEF SaveRequest
  <2> QED
    BY <1>3, <1>4, <2>2, <2>5, <2>6 DEF c, r, x
<1> QED
  BY <1>7, <1>8

\* The next step of the compaction is requested.
LEMMA StepRequested ==
  ASSUME NEW c, Queues(c), Resting(c), NEW s \in {"snapshots", "metadata"}, NEW r
  PROVE  LET d == Request(c, s, r)
         IN  /\ Queues(d) /\ d["journal"] = c["journal"] /\ Plain(d["journal"])
             /\ d[s] = <<r>>
             /\ \A u \in {"snapshots", "metadata"} \ {s} : d[u] = <<>>
<1> DEFINE d == Request(c, s, r)
<1>1. DOMAIN c = DOMAIN Empty /\ c["journal"] \in Seq(OfJournal)
  BY DEF Queues
<1>2. /\ DOMAIN d = DOMAIN Empty /\ d["journal"] = c["journal"]
      /\ d[s] = Append(c[s], r)
      /\ \A u \in {"snapshots", "metadata"} \ {s} : d[u] = c[u]
  BY <1>1, RequestAt, EmptyDomain
<1> HIDE DEF d
<1>3. /\ Plain(c["journal"]) /\ c["snapshots"] = <<>> /\ c["metadata"] = <<>>
  BY DEF Resting
<1>4. d[s] = <<r>>
  BY <1>2, <1>3, FirstRequest
<1> QED
  BY <1>1, <1>2, <1>3, <1>4 DEF Queues, d

\* A compaction ends, and the next one starts.
LEMMA FinishStep ==
  ASSUME StoreInv, queue # <<>>, NEW c, Queues(c), Resting(c), Finish(c)
  PROVE  /\ Queues(calls') /\ Phases(calls', queue')
         /\ queue' \in Seq(Made)
         /\ queue' # <<>> => Saving(calls', Head(queue'))
         /\ calls'["journal"] = c["journal"]
         /\ \A k \in DOMAIN queue' : k + 1 \in DOMAIN queue /\ queue'[k] = queue[k + 1]
<1>1. /\ queue \in Seq(Made) /\ queue' = Tail(queue)
      /\ calls' = IF Tail(queue) = <<>> THEN c ELSE Begin(c, queue[2], <<>>)
  BY DEF StoreInv, StoreTypeOK, Finish
<1>2. /\ Tail(queue) \in Seq(Made) /\ DOMAIN Tail(queue) = 1..(Len(queue) - 1)
      /\ Len(queue) \in Nat
      /\ \A k \in 1..(Len(queue) - 1) : k + 1 \in DOMAIN queue /\ Tail(queue)[k] = queue[k + 1]
  BY <1>1, TailOf
<1>3. CASE Tail(queue) = <<>>
  BY <1>1, <1>2, <1>3 DEF Phases
<1>4. CASE Tail(queue) # <<>>
  <2> DEFINE x == queue[2]
             d == Begin(c, x, <<>>)
  <2>1. Head(Tail(queue)) = x /\ x \in Made
    <3>1. Head(Tail(queue)) = Tail(queue)[1] /\ 1 \in DOMAIN Tail(queue)
          /\ Tail(queue)[1] \in Made
      BY <1>2, <1>4
    <3> QED
      BY <1>2, <3>1
  <2> HIDE DEF x
  <2>2. d = Request(c, "snapshots", SaveRequest(x, FALSE))
    BY DEF Begin
  <2>3. /\ Queues(d) /\ d["journal"] = c["journal"] /\ Plain(d["journal"])
        /\ d["snapshots"] = <<SaveRequest(x, FALSE)>> /\ d["metadata"] = <<>>
    <3> DEFINE r == SaveRequest(x, FALSE)
    <3> HIDE DEF r, d
    <3>1. d = Request(c, "snapshots", r)
      BY <2>2 DEF r
    <3>2. /\ Queues(d) /\ d["journal"] = c["journal"] /\ Plain(d["journal"])
          /\ d["snapshots"] = <<r>> /\ d["metadata"] = <<>>
      BY <3>1, StepRequested
    <3> QED
      BY <3>2 DEF r
  <2> HIDE DEF d
  <2>4. calls' = d
    BY <1>1, <1>4 DEF d, x
  <2>5. Saving(d, x)
    BY <2>3 DEF Saving
  <2> QED
    BY <1>1, <1>2, <1>4, <2>1, <2>3, <2>4, <2>5 DEF Phases, Phase
<1> QED
  BY <1>3, <1>4

\* The store stays as it is, and the queue loses its head at most.
LEMMA MemoryStands ==
  ASSUME StoreInv, UNCHANGED store, Requested(calls', store),
         \/ queue' = queue
         \/ \A k \in DOMAIN queue' : k + 1 \in DOMAIN queue /\ queue'[k] = queue[k + 1],
         queue' \in Seq(Made)
  PROVE  InMemory'
<1>1. CASE queue' = queue
  BY <1>1 DEF StoreInv, InMemory
<1>2. CASE \A k \in DOMAIN queue' : k + 1 \in DOMAIN queue /\ queue'[k] = queue[k + 1]
  <2>1. DOMAIN queue' \subseteq Nat
    OBVIOUS
  <2>2. ASSUME NEW j \in DOMAIN queue', NEW k \in DOMAIN queue', j < k
        PROVE  Dominates(queue'[k].vector, queue'[j].vector)
    <3>1. j + 1 < k + 1 /\ j + 1 \in DOMAIN queue /\ k + 1 \in DOMAIN queue
      BY <1>2, <2>1, <2>2
    <3> QED
      BY <1>2, <2>2, <3>1 DEF StoreInv, InMemory
  <2> QED
    BY <1>2, <2>2 DEF StoreInv, InMemory
<1> QED
  BY <1>1, <1>2

\* So does what the process knows of the disk.
LEMMA TogetherStands ==
  ASSUME StoreInv, UNCHANGED <<store, journal, available>>, Baseline' = Baseline,
         \/ queue' = queue
         \/ \A k \in DOMAIN queue' : k + 1 \in DOMAIN queue /\ queue'[k] = queue[k + 1]
  PROVE  Together'
<1>1. \A k \in DOMAIN queue' : \E j \in DOMAIN queue : queue'[k] = queue[j]
  OBVIOUS
<1> QED
  BY <1>1 DEF StoreInv, Together

\* The marker moves to b, which covers the store and counts no less.
LEMMA BaselineMoves ==
  ASSUME StoreInv, available, NEW b, StoreGood(store, b), Dominates(b.vector, Baseline.vector),
         \A k \in DOMAIN queue : Dominates(queue[k].vector, b.vector),
         Baseline' = [vector |-> b.vector, state |-> b.state],
         UNCHANGED <<store, queue, journal, available, kept, published>>,
         (Committed \/ marker = 0)'
  PROVE  OnDisk' /\ Together'
<1> DEFINE new == [vector |-> b.vector, state |-> b.state]
<1>1. /\ new.vector = b.vector /\ new.state = b.state /\ StoreGood(store, new)
  BY DEF StoreGood, Covers
<1> HIDE DEF new
<1>2. Baseline' = new
  BY DEF new
<1>3. /\ journal \subseteq Holds(store) /\ Ops(Baseline.state) \subseteq Holds(store)
      /\ Covers(new, Holds(store)) /\ Ops(new.state) \subseteq Holds(store)
      /\ Faithful(new.state, new.vector) /\ Wise(store)
  BY <1>1 DEF StoreInv, InMemory, Together, StoreGood
<1>4. Recovered = Replayed \cup Ops(Baseline.state) /\ Replayed \subseteq journal
  BY BaselineType DEF StoreInv
<1>5. /\ Recovered' = {e \in journal : e.seq > new.vector[e.author]} \cup Ops(new.state)
  BY <1>2 DEF Recovered, Replayed, Ops
<1>6. Recovered \subseteq Recovered'
  <2> SUFFICES ASSUME NEW e \in Recovered
               PROVE  e \in {f \in journal : f.seq > new.vector[f.author]} \cup Ops(new.state)
    BY <1>5
  <2>1. e \in Holds(store) /\ e \in Event
    BY <1>3, <1>4, HoldsType DEF Wise, Sound
  <2>2. new.vector[e.author] \in Nat /\ Baseline.vector[e.author] \in Nat /\ e.seq \in Nat
        /\ new.vector[e.author] >= Baseline.vector[e.author]
    BY <1>1, <2>1, BaselineType, BoundsAssumption
       DEF StoreGood, Vector, Event, Dominates, StoreInv
  <2>3. CASE e.seq <= new.vector[e.author]
    BY <1>3, <2>1, <2>3 DEF Covers
  <2>4. CASE e.seq > new.vector[e.author]
    <3>1. e \notin Ops(Baseline.state)
      <4>1. SUFFICES ASSUME e \in Ops(Baseline.state)
                     PROVE  FALSE
        OBVIOUS
      <4>2. e.seq <= Baseline.vector[e.author]
        BY <4>1, Counted, BaselineType DEF StoreInv, OnDisk
      <4> QED
        BY <2>2, <2>4, <4>2
    <3> QED
      BY <1>4, <2>4, <3>1
  <2> QED
    BY <2>2, <2>3, <2>4
<1>7. Genuine(journal \cup Ops(new.state)) /\ Covers(new, journal)
  BY <1>3 DEF Wise, Genuine, Covers
<1>8. OnDisk'
  BY <1>2, <1>3, <1>6, <1>7 DEF StoreInv, OnDisk
<1>9. Together'
  BY <1>1, <1>2, <1>3 DEF Together
<1> QED
  BY <1>8, <1>9

LEMMA PerformType ==
  ASSUME StoreTypeOK, Queues(calls'), queue' \in Seq(Made), awaiting' \in Nat,
         journal' \subseteq Event, kept' \subseteq Event, published' \subseteq Event,
         DOMAIN snapshots' \subseteq Version,
         \A n \in DOMAIN snapshots' : snapshots'[n] \in Snapshot,
         marker' \in Version, failures' \in 0..MaxFailures,
         UNCHANGED <<store, made, adopted, available, crashes>>
  PROVE  StoreTypeOK'
BY DEF StoreTypeOK, Queues

\* So is its next step on the journal, behind the appends that wait there.
LEMMA JournalRequested ==
  ASSUME NEW c, Queues(c), Resting(c), Requested(c, store),
         NEW r \in OfJournal, r.do # "append"
  PROVE  LET d == Request(c, "journal", r)
         IN  /\ Queues(d) /\ Lone(d["journal"], r) /\ d["snapshots"] = <<>>
             /\ d["metadata"] = <<>> /\ Requested(d, store)
<1> DEFINE d == Request(c, "journal", r)
           q == c["journal"]
<1>1. DOMAIN c = DOMAIN Empty /\ q \in Seq(OfJournal) /\ Plain(q)
      /\ c["snapshots"] = <<>> /\ c["metadata"] = <<>>
  BY DEF Queues, Resting
<1>2. /\ DOMAIN d = DOMAIN Empty /\ d["journal"] = Append(q, r)
      /\ d["snapshots"] = <<>> /\ d["metadata"] = <<>>
  BY <1>1, RequestAt, EmptyDomain
<1> HIDE DEF d
<1>3. Append(q, r) \in Seq(OfJournal) /\ Lone(Append(q, r), r)
  BY <1>1, PlainAppend, AppendAt
<1>4. /\ DOMAIN Append(q, r) = 1..(Len(q) + 1) /\ DOMAIN q = 1..Len(q) /\ Len(q) \in Nat
      /\ Append(q, r)[Len(q) + 1] = r
      /\ \A k \in 1..Len(q) : Append(q, r)[k] = q[k]
  BY <1>1, AppendAt
<1> DEFINE p == Append(q, r)
<1> HIDE DEF p
<1>5. ASSUME NEW k \in DOMAIN p, p[k].do = "append"
      PROVE  p[k].op \in Holds(store)
  <2>1. k \in 1..Len(q) \/ k = Len(q) + 1
    BY <1>4 DEF p
  <2> QED
    BY <1>4, <1>5, <2>1 DEF p, Requested
<1> QED
  BY <1>2, <1>3, <1>5 DEF Queues, Requested, d, p

LEMMA AppendDoneStep ==
  ASSUME StoreInv, AppendDone
  PROVE  StoreInv'
<1> DEFINE r == Head(calls["journal"])
           c == Performed("journal")
           e == r.op
<1>1. /\ calls["journal"] # <<>> /\ r.do = "append" /\ calls' = c
      /\ \/ available /\ journal' = journal \cup {e} /\ kept' = kept \cup {e}
         \/ ~available /\ UNCHANGED <<journal, kept>>
      /\ Report(r)
      /\ UNCHANGED <<store, made, adopted, queue, snapshots, marker, available,
                     crashes, failures>>
  BY DEF AppendDone, First
<1>2. /\ r \in Appends /\ e \in Holds(store) /\ Queues(c) /\ Phases(c, queue)
      /\ Requested(c, store)
  BY <1>1, AppendEnds, EmptyDomain
<1>3. /\ published' \subseteq published \cup {e} /\ awaiting' \in Nat
      /\ ~available => published' = published
  <2>1. awaiting \in Nat /\ available \in BOOLEAN
    BY DEF StoreInv, StoreTypeOK
  <2>2. awaiting' = awaiting + 1 \/ awaiting' = awaiting
    BY <1>1 DEF Report
  <2>3. awaiting' \in Nat
    BY <2>1, <2>2
  <2> QED
    BY <1>1, <2>3 DEF Report
<1> HIDE DEF r, c
<1>4. e \in Event
  BY <1>2, HoldsType DEF StoreInv, InMemory, Wise, Sound
<1>5. Phases(calls, queue)'
  BY <1>1, <1>2, PhasesStand
<1>6. InMemory'
  BY <1>1, <1>2, MemoryStands DEF StoreInv, StoreTypeOK
<1>7. Baseline' = Baseline
  BY <1>1 DEF Baseline, Committed
<1>8. Together'
  BY <1>1, <1>2, <1>7 DEF StoreInv, Together
<1>9. OnDisk'
  <2>1. CASE ~available
    <3>1. UNCHANGED <<disk, kept, published>>
      BY <1>1, <1>3, <2>1 DEF disk
    <3> QED
      BY <3>1, DiskStands DEF StoreInv
  <2>2. CASE available
    <3>1. journal' = journal \cup {e} /\ kept' = kept \cup {e}
      BY <1>1, <2>2
    <3>2. IsFiniteSet(journal')
      BY <3>1, FS_AddElement DEF StoreInv, OnDisk
    <3>3. \E b \in Nat : \A f \in journal' : f.lamport <= b
      <4>1. PICK b \in Nat : \A f \in journal : f.lamport <= b
        BY DEF StoreInv, OnDisk
      <4>2. e.lamport \in Nat /\ \A f \in journal : f.lamport \in Nat
        BY <1>4 DEF Event, StoreInv, StoreTypeOK
      <4> DEFINE n == Larger(b, e.lamport)
      <4>3. n \in Nat /\ n >= b /\ n >= e.lamport
        BY <4>1, <4>2 DEF Larger
      <4> HIDE DEF n, e
      <4>4. \A f \in journal' : f.lamport <= n
        BY <3>1, <4>1, <4>2, <4>3
      <4> QED
        BY <4>3, <4>4
    <3>4. Genuine({e}) /\ Covers(Baseline, {e})
      BY <1>2, <2>2 DEF StoreInv, InMemory, Wise, Genuine, Together, StoreGood, Covers
    <3>5. /\ Genuine(journal' \cup Ops(Baseline.state))
          /\ Covers(Baseline, journal')
      BY <3>1, <3>4 DEF StoreInv, OnDisk, Genuine, Covers
    <3>6. Recovered' = {f \in journal' : f.seq > Baseline.vector[f.author]}
                       \cup Ops(Baseline.state)
      BY <1>7 DEF Recovered, Replayed, Ops
    <3>7. e \in Recovered'
      <4>1. Baseline.vector[e.author] \in Nat /\ e.seq \in Nat
        BY <1>4, BaselineType, BoundsAssumption DEF StoreInv, Vector, Event
      <4>2. e.seq > Baseline.vector[e.author] \/ e.seq <= Baseline.vector[e.author]
        BY <4>1
      <4> QED
        BY <3>1, <3>4, <3>6, <4>2 DEF Covers
    <3>8. Recovered \subseteq Recovered'
      BY <3>1, <3>6, BaselineType DEF Replayed, StoreInv
    <3>9. published' \subseteq kept' /\ kept' \subseteq Recovered'
      BY <1>3, <3>1, <3>7, <3>8 DEF StoreInv, OnDisk
    <3> QED
      BY <1>1, <1>7, <3>2, <3>3, <3>5, <3>9 DEF StoreInv, OnDisk, Committed
  <2> QED
    BY <2>1, <2>2
<1>10. StoreTypeOK'
  <2>1. /\ journal' \subseteq Event /\ kept' \subseteq Event /\ published' \subseteq Event
        /\ queue' \in Seq(Made) /\ DOMAIN snapshots' \subseteq Version
        /\ \A n \in DOMAIN snapshots' : snapshots'[n] \in Snapshot
        /\ marker' \in Version /\ failures' \in 0..MaxFailures /\ StoreTypeOK
    BY <1>1, <1>3, <1>4 DEF StoreInv, StoreTypeOK
  <2> QED
    BY <1>1, <1>2, <1>3, <2>1, PerformType
<1> QED
  BY <1>1, <1>2, <1>5, <1>6, <1>8, <1>9, <1>10 DEF StoreInv

\* The snapshot that is being committed is below the others of the queue.
LEMMA HeadIsLeast ==
  ASSUME StoreInv, queue # <<>>
  PROVE  LET x == Head(queue)
         IN  /\ StoreGood(store, x)
             /\ \A k \in DOMAIN queue : Dominates(queue[k].vector, x.vector)
             /\ available => Dominates(x.vector, Baseline.vector)
<1> DEFINE x == Head(queue)
<1>1. x = queue[1] /\ 1 \in DOMAIN queue /\ DOMAIN queue = 1..Len(queue)
      /\ Len(queue) \in Nat
  BY TailOf DEF StoreInv, StoreTypeOK
<1> HIDE DEF x
<1>2. StoreGood(store, x)
  BY <1>1 DEF StoreInv, InMemory
<1>3. \A k \in DOMAIN queue : Dominates(queue[k].vector, x.vector)
  <2> TAKE k \in DOMAIN queue
  <2>1. CASE k = 1
    BY <1>1, <1>2, <2>1, BoundsAssumption DEF StoreGood, Dominates, Vector
  <2>2. CASE k # 1
    <3>1. 1 < k
      BY <1>1, <2>2
    <3> QED
      BY <1>1, <3>1 DEF StoreInv, InMemory
  <2> QED
    BY <2>1, <2>2
<1>4. available => Dominates(x.vector, Baseline.vector)
  BY <1>1 DEF StoreInv, Together
<1> QED
  BY <1>2, <1>3, <1>4 DEF x

LEMMA SaveDoneStep ==
  ASSUME StoreInv, SaveDone
  PROVE  StoreInv'
<1> DEFINE x == Head(queue)
           c == Performed("snapshots")
           v == [do |-> "verify", snap |-> x]
           new == [k \in DOMAIN snapshots \cup {x.version} |->
                      IF k = x.version THEN [vector |-> x.vector, state |-> x.state]
                      ELSE snapshots[k]]
<1>1. /\ calls["snapshots"] # <<>> /\ Head(calls["snapshots"]).do = "save"
      /\ UNCHANGED <<memory, journal, marker, kept, published, available, crashes, failures>>
  BY DEF SaveDone, First
<1>2. /\ queue # <<>> /\ x \in Made /\ Queues(c) /\ Resting(c) /\ Requested(c, store)
      /\ Head(calls["snapshots"]) = SaveRequest(x, FALSE)
  BY <1>1, CompactionStep, EmptyDomain
<1>3. /\ snapshots' = IF available THEN new ELSE snapshots
      /\ calls' = Request(c, "snapshots", v)
  <2>1. SaveRequest(x, FALSE).snap = x /\ SaveRequest(x, FALSE).install = FALSE
    BY DEF SaveRequest
  <2> QED
    BY <1>2, <2>1 DEF SaveDone
<1>4. /\ Queues(calls') /\ calls'["journal"] = c["journal"] /\ Plain(calls'["journal"])
      /\ calls'["snapshots"] = <<v>> /\ calls'["metadata"] = <<>>
  BY <1>2, <1>3, StepRequested
<1>5. UNCHANGED <<store, made, adopted, awaiting, queue>>
  BY <1>1 DEF memory
<1> HIDE DEF c, x
<1>6. /\ StoreGood(store, x)
      /\ \A k \in DOMAIN queue : Dominates(queue[k].vector, x.vector)
      /\ available => Dominates(x.vector, Baseline.vector)
  BY <1>2, HeadIsLeast DEF x
<1>7. /\ DOMAIN new = DOMAIN snapshots \cup {x.version}
      /\ new[x.version] = [vector |-> x.vector, state |-> x.state]
      /\ \A n \in DOMAIN snapshots : n # x.version => new[n] = snapshots[n]
  OBVIOUS
<1> HIDE DEF new
<1>8. Phases(calls, queue)'
  <2>1. (available => Saved(x))'
    <3>1. x' = x
      BY <1>5 DEF x
    <3>2. available => /\ x.version \in DOMAIN snapshots'
                       /\ snapshots'[x.version] = [vector |-> x.vector, state |-> x.state]
      BY <1>3, <1>7
    <3> QED
      BY <1>1, <3>1, <3>2 DEF Saved
  <2> QED
    BY <1>2, <1>4, <1>5, <2>1 DEF Phases, Phase, Verifying, x
<1>9. InMemory'
  <2>1. Requested(calls', store)
    BY <1>2, <1>4 DEF Requested
  <2> QED
    BY <1>5, <2>1, MemoryStands DEF StoreInv, StoreTypeOK
<1>10. OnDisk' /\ Together'
  <2>1. CASE ~available \/ marker # x.version
    <3>1. Baseline' = Baseline /\ Committed' = Committed
      BY <1>1, <1>3, <1>7, <2>1 DEF Baseline, Committed
    <3>2. Together'
      BY <1>1, <1>5, <3>1, TogetherStands
    <3>3. OnDisk'
      BY <1>1, <3>1 DEF StoreInv, OnDisk, Recovered, Replayed
    <3> QED
      BY <3>2, <3>3
  <2>2. CASE available /\ marker = x.version
    <3>1. /\ Baseline' = [vector |-> x.vector, state |-> x.state] /\ Committed'
      BY <1>1, <1>3, <1>7, <2>2 DEF Baseline, Committed
    <3> QED
      BY <1>1, <1>5, <1>6, <2>2, <3>1, BaselineMoves
  <2> QED
    BY <2>1, <2>2
<1>11. StoreTypeOK'
  <2>1. [vector |-> x.vector, state |-> x.state] \in Snapshot /\ x.version \in Version
    BY <1>2, <1>6 DEF StoreGood, Snapshot, Made
  <2>2. /\ DOMAIN new \subseteq Version
        /\ \A n \in DOMAIN new : new[n] \in Snapshot
    BY <1>7, <2>1 DEF StoreInv, StoreTypeOK
  <2>3. /\ journal' \subseteq Event /\ kept' \subseteq Event /\ published' \subseteq Event
        /\ queue' \in Seq(Made) /\ awaiting' \in Nat
        /\ DOMAIN snapshots' \subseteq Version
        /\ \A n \in DOMAIN snapshots' : snapshots'[n] \in Snapshot
        /\ marker' \in Version /\ failures' \in 0..MaxFailures /\ StoreTypeOK
    BY <1>1, <1>3, <1>5, <2>2 DEF StoreInv, StoreTypeOK
  <2> QED
    BY <1>1, <1>4, <1>5, <2>3, PerformType
<1> QED
  BY <1>4, <1>8, <1>9, <1>10, <1>11 DEF StoreInv

\* A step that changes neither the store nor the disk.
LEMMA QuietStep ==
  ASSUME StoreInv, Queues(calls'), Phases(calls', queue'), queue' \in Seq(Made),
         Requested(calls', store),
         \/ queue' = queue
         \/ \A k \in DOMAIN queue' : k + 1 \in DOMAIN queue /\ queue'[k] = queue[k + 1],
         UNCHANGED <<store, made, adopted, awaiting, disk, kept, published, available,
                     crashes>>,
         failures' \in 0..MaxFailures
  PROVE  StoreInv'
<1>1. UNCHANGED <<journal, snapshots, marker>> /\ Baseline' = Baseline
  BY DEF disk, Baseline, Committed
<1>2. Phases(calls, queue)'
  BY <1>1, PhasesStand
<1>3. OnDisk'
  BY DiskStands DEF StoreInv
<1>4. InMemory'
  BY MemoryStands
<1>5. Together'
  BY <1>1, TogetherStands
<1>6. StoreTypeOK'
  <2>1. /\ journal' \subseteq Event /\ kept' \subseteq Event /\ published' \subseteq Event
        /\ awaiting' \in Nat
        /\ DOMAIN snapshots' \subseteq Version
        /\ \A n \in DOMAIN snapshots' : snapshots'[n] \in Snapshot
        /\ marker' \in Version /\ StoreTypeOK
    BY <1>1 DEF StoreInv, StoreTypeOK
  <2> QED
    BY <2>1, PerformType
<1> QED
  BY <1>2, <1>3, <1>4, <1>5, <1>6 DEF StoreInv, Queues

LEMMA VerifyDoneStep ==
  ASSUME StoreInv, VerifyDone
  PROVE  StoreInv'
<1> DEFINE x == Head(queue)
           c == Performed("snapshots")
           r == [do |-> "commit", snap |-> x, install |-> FALSE]
<1>1. /\ calls["snapshots"] # <<>> /\ Head(calls["snapshots"]).do = "verify"
      /\ UNCHANGED <<store, made, adopted, awaiting, disk, kept, published, available,
                     crashes, failures>>
  BY DEF VerifyDone, First
<1>2. /\ queue # <<>> /\ x \in Made /\ Queues(c) /\ Resting(c) /\ Requested(c, store)
      /\ Head(calls["snapshots"]) = [do |-> "verify", snap |-> x]
      /\ available => Saved(x)
  BY <1>1, CompactionStep, EmptyDomain
<1>3. \/ /\ available /\ calls' = Request(c, "metadata", r) /\ UNCHANGED queue
      \/ Finish(c)
  <2>1. Head(calls["snapshots"]).snap = x
    BY <1>2
  <2> QED
    BY <2>1 DEF VerifyDone, CommitNext
<1> HIDE DEF c, x
<1>4. /\ Queues(calls') /\ Phases(calls', queue') /\ queue' \in Seq(Made)
      /\ Requested(calls', store)
      /\ \/ queue' = queue
         \/ \A k \in DOMAIN queue' : k + 1 \in DOMAIN queue /\ queue'[k] = queue[k + 1]
  <2>1. CASE available /\ calls' = Request(c, "metadata", r) /\ UNCHANGED queue
    <3>1. /\ Queues(calls') /\ calls'["journal"] = c["journal"] /\ Plain(calls'["journal"])
          /\ calls'["metadata"] = <<r>> /\ calls'["snapshots"] = <<>>
      BY <1>2, <2>1, StepRequested
    <3>2. Phases(calls', queue')
      BY <1>2, <2>1, <3>1 DEF Phases, Phase, Committing, x
    <3> QED
      BY <1>2, <2>1, <3>1, <3>2 DEF Requested, StoreInv, StoreTypeOK
  <2>2. CASE Finish(c)
    BY <1>2, <2>2, FinishStep DEF Requested
  <2> QED
    BY <1>3, <2>1, <2>2
<1> QED
  BY <1>1, <1>4, QuietStep DEF StoreInv, StoreTypeOK

LEMMA CommitDoneStep ==
  ASSUME StoreInv, CommitDone
  PROVE  StoreInv'
<1> DEFINE x == Head(queue)
           c == Performed("metadata")
           r == [do |-> "read", snap |-> x]
<1>1. /\ calls["metadata"] # <<>> /\ Head(calls["metadata"]).do = "commit"
      /\ UNCHANGED <<memory, journal, snapshots, kept, published, available,
                     crashes, failures>>
  BY DEF CommitDone, First
<1>2. /\ queue # <<>> /\ x \in Made /\ Queues(c) /\ Resting(c) /\ Requested(c, store)
      /\ Head(calls["metadata"]) = [do |-> "commit", snap |-> x, install |-> FALSE]
      /\ available /\ Saved(x)
  BY <1>1, CompactionStep, EmptyDomain
<1>3. marker' = x.version /\ calls' = Request(c, "journal", r)
  <2>1. /\ Head(calls["metadata"]).snap = x
        /\ Head(calls["metadata"]).install = FALSE
    BY <1>2
  <2> QED
    BY <1>2, <2>1 DEF CommitDone
<1>4. UNCHANGED <<store, made, adopted, awaiting, queue>>
  BY <1>1 DEF memory
<1>5. /\ StoreGood(store, x)
      /\ \A k \in DOMAIN queue : Dominates(queue[k].vector, x.vector)
      /\ Dominates(x.vector, Baseline.vector)
  BY <1>2, HeadIsLeast
<1>6. Queues(calls') /\ Lone(calls'["journal"], r) /\ calls'["snapshots"] = <<>>
      /\ calls'["metadata"] = <<>> /\ Requested(calls', store)
  BY <1>2, <1>3, JournalRequested DEF OfJournal
<1> HIDE DEF c, x
<1>7. Phases(calls, queue)'
  <2>1. x' = x /\ Marked(x)'
    BY <1>1, <1>2, <1>3, <1>4 DEF x, Marked, Saved
  <2> QED
    BY <1>2, <1>4, <1>6, <2>1 DEF Phases, Phase, Truncating, x
<1>8. InMemory'
  BY <1>4, <1>6, MemoryStands DEF StoreInv, StoreTypeOK
<1>9. /\ Baseline' = [vector |-> x.vector, state |-> x.state] /\ Committed'
  BY <1>1, <1>2, <1>3 DEF Baseline, Committed, Saved
<1>10. OnDisk' /\ Together'
  BY <1>1, <1>2, <1>4, <1>5, <1>9, BaselineMoves
<1>11. StoreTypeOK'
  <2>1. /\ journal' \subseteq Event /\ kept' \subseteq Event /\ published' \subseteq Event
        /\ queue' \in Seq(Made) /\ awaiting' \in Nat
        /\ DOMAIN snapshots' \subseteq Version
        /\ \A n \in DOMAIN snapshots' : snapshots'[n] \in Snapshot
        /\ marker' \in Version /\ failures' \in 0..MaxFailures /\ StoreTypeOK
    BY <1>1, <1>2, <1>3, <1>4 DEF StoreInv, StoreTypeOK, Made
  <2> QED
    BY <1>1, <1>4, <1>6, <2>1, PerformType
<1> QED
  BY <1>6, <1>7, <1>8, <1>10, <1>11 DEF StoreInv

LEMMA ReadDoneStep ==
  ASSUME StoreInv, ReadDone
  PROVE  StoreInv'
<1> DEFINE x == Head(queue)
           c == Performed("journal")
           old == {e \in journal : e.seq <= x.vector[e.author]}
           r == [do |-> "delete", ops |-> old, snap |-> x]
<1>1. /\ calls["journal"] # <<>> /\ Head(calls["journal"]).do = "read"
      /\ UNCHANGED <<memory, disk, kept, published, available, crashes, failures>>
  BY DEF ReadDone, First
<1>2. /\ queue # <<>> /\ x \in Made /\ Queues(c) /\ Resting(c) /\ Requested(c, store)
      /\ Head(calls["journal"]) = [do |-> "read", snap |-> x]
      /\ Marked(x)
  BY <1>1, CompactionStep, EmptyDomain
<1>3. calls' = Request(c, "journal", r)
  <2>1. Head(calls["journal"]).snap = x
    BY <1>2
  <2> QED
    BY <2>1 DEF ReadDone
<1>4. UNCHANGED <<store, made, adopted, awaiting, queue>>
  BY <1>1 DEF memory
<1>5. old \in SUBSET Counts(x) /\ old \in SUBSET Event
  BY DEF StoreInv, StoreTypeOK, Counts
<1>6. Queues(calls') /\ Lone(calls'["journal"], r) /\ calls'["snapshots"] = <<>>
      /\ calls'["metadata"] = <<>> /\ Requested(calls', store)
  BY <1>2, <1>3, <1>5, JournalRequested DEF OfJournal
<1> HIDE DEF c, x, old
<1>7. Phases(calls', queue')
  BY <1>2, <1>4, <1>5, <1>6 DEF Phases, Phase, Truncating, x
<1> QED
  BY <1>1, <1>4, <1>6, <1>7, QuietStep DEF StoreInv, StoreTypeOK

LEMMA DeleteDoneStep ==
  ASSUME StoreInv, DeleteDone
  PROVE  StoreInv'
<1> DEFINE x == Head(queue)
           c == Performed("journal")
           r == [do |-> "prune", snap |-> x]
           old == Head(calls["journal"]).ops
<1>1. /\ calls["journal"] # <<>> /\ Head(calls["journal"]).do = "delete"
      /\ journal' = journal \ old
      /\ UNCHANGED <<memory, snapshots, marker, kept, published, available,
                     crashes, failures>>
  BY DEF DeleteDone, First
<1>2. /\ queue # <<>> /\ x \in Made /\ Queues(c) /\ Resting(c) /\ Requested(c, store)
      /\ Marked(x)
      /\ old \in SUBSET Counts(x) /\ Head(calls["journal"]).snap = x
  BY <1>1, CompactionStep, EmptyDomain
<1>3. calls' = Request(c, "snapshots", r)
  BY <1>2 DEF DeleteDone
<1>4. UNCHANGED <<store, made, adopted, awaiting, queue>>
  BY <1>1 DEF memory
<1>5. /\ Queues(calls') /\ calls'["journal"] = c["journal"] /\ Plain(calls'["journal"])
      /\ calls'["snapshots"] = <<r>> /\ calls'["metadata"] = <<>>
  BY <1>2, <1>3, StepRequested
<1> HIDE DEF c, x, old
<1>6. Phases(calls, queue)'
  <2>1. x' = x /\ Marked(x)'
    BY <1>1, <1>2, <1>4 DEF x, Marked, Saved
  <2> QED
    BY <1>2, <1>4, <1>5, <2>1 DEF Phases, Phase, Pruning, x
<1>7. InMemory'
  <2>1. Requested(calls', store)
    BY <1>2, <1>5 DEF Requested
  <2> QED
    BY <1>4, <2>1, MemoryStands DEF StoreInv, StoreTypeOK
\* Nothing that hydrate() would replay is deleted.
<1>8. /\ Baseline' = Baseline /\ Committed' = Committed /\ Baseline.vector = x.vector
  BY <1>1, <1>2 DEF Baseline, Committed, Marked, Saved
<1>9. Replayed' = Replayed
  <2>1. Replayed' = {e \in journal \ old : e.seq > x.vector[e.author]}
        /\ Replayed = {e \in journal : e.seq > x.vector[e.author]}
    BY <1>1, <1>8 DEF Replayed
  <2>2. \A e \in old : ~(e.seq > x.vector[e.author])
    <3>1. x.vector \in Vector
      BY <1>2 DEF Made
    <3> QED
      BY <1>2, <3>1, BoundsAssumption DEF Counts, Vector, Event
  <2> QED
    BY <2>1, <2>2
<1>10. journal' \subseteq journal
  BY <1>1
<1>11. OnDisk'
  <2>1. Recovered' = Recovered
    BY <1>8, <1>9 DEF Recovered
  <2>2. IsFiniteSet(journal')
    BY <1>10, FS_Subset DEF StoreInv, OnDisk
  <2>3. \E b \in Nat : \A e \in journal' : e.lamport <= b
    BY <1>10 DEF StoreInv, OnDisk
  <2>4. Genuine(journal' \cup Ops(Baseline.state)) /\ Covers(Baseline, journal')
    BY <1>10 DEF StoreInv, OnDisk, Genuine, Covers
  <2> QED
    BY <1>1, <1>8, <2>1, <2>2, <2>3, <2>4 DEF StoreInv, OnDisk
<1>12. Together'
  BY <1>1, <1>4, <1>8, <1>10 DEF StoreInv, Together
<1>13. StoreTypeOK'
  <2>1. /\ journal' \subseteq Event /\ kept' \subseteq Event /\ published' \subseteq Event
        /\ queue' \in Seq(Made) /\ awaiting' \in Nat
        /\ DOMAIN snapshots' \subseteq Version
        /\ \A n \in DOMAIN snapshots' : snapshots'[n] \in Snapshot
        /\ marker' \in Version /\ failures' \in 0..MaxFailures /\ StoreTypeOK
    BY <1>1, <1>4, <1>10 DEF StoreInv, StoreTypeOK
  <2> QED
    BY <1>1, <1>4, <1>5, <2>1, PerformType
<1> QED
  BY <1>5, <1>6, <1>7, <1>11, <1>12, <1>13 DEF StoreInv

LEMMA PruneDoneStep ==
  ASSUME StoreInv, PruneDone
  PROVE  StoreInv'
<1> DEFINE x == Head(queue)
           c == Performed("snapshots")
<1>1. /\ calls["snapshots"] # <<>> /\ Head(calls["snapshots"]).do = "prune" /\ Finish(c)
      /\ UNCHANGED <<store, made, adopted, awaiting, journal, marker, kept, published,
                     available, crashes, failures>>
  BY DEF PruneDone, First
<1>2. /\ queue # <<>> /\ x \in Made /\ Queues(c) /\ Resting(c) /\ Requested(c, store)
      /\ Head(calls["snapshots"]) = [do |-> "prune", snap |-> x] /\ Marked(x)
  BY <1>1, CompactionStep, EmptyDomain
<1>3. snapshots' = [k \in DOMAIN snapshots \cap {x.version} |-> snapshots[k]]
  <2>1. Head(calls["snapshots"]).snap = x
    BY <1>2
  <2> QED
    BY <2>1 DEF PruneDone
<1>4. /\ Queues(calls') /\ Phases(calls', queue') /\ queue' \in Seq(Made)
      /\ calls'["journal"] = c["journal"]
      /\ \A k \in DOMAIN queue' : k + 1 \in DOMAIN queue /\ queue'[k] = queue[k + 1]
  BY <1>1, <1>2, FinishStep
<1>5. Phases(calls, queue)'
  <2>1. CASE queue' = <<>>
    BY <1>4, <2>1 DEF Phases, Resting
  <2>2. CASE queue' # <<>>
    <3>1. Saving(calls', Head(queue'))
      BY <1>1, <1>2, <2>2, FinishStep
    <3> QED
      BY <2>2, <3>1 DEF Phases, Phase, Saving
  <2> QED
    BY <2>1, <2>2
<1> HIDE DEF c, x
<1>6. Requested(calls', store)
  BY <1>2, <1>4 DEF Requested
<1>7. InMemory'
  BY <1>1, <1>4, <1>6, MemoryStands
<1>8. /\ Baseline' = Baseline /\ Committed' = Committed
  <2>1. marker = x.version /\ x.version \in DOMAIN snapshots
    BY <1>2 DEF Marked, Saved
  <2>2. marker \in DOMAIN snapshots' /\ snapshots'[marker] = snapshots[marker]
    BY <1>3, <2>1
  <2> QED
    BY <1>1, <2>1, <2>2 DEF Baseline, Committed
<1>9. Together'
  BY <1>1, <1>4, <1>8, TogetherStands
<1>10. OnDisk'
  BY <1>1, <1>8 DEF StoreInv, OnDisk, Recovered, Replayed
<1>11. StoreTypeOK'
  <2>1. /\ journal' \subseteq Event /\ kept' \subseteq Event /\ published' \subseteq Event
        /\ awaiting' \in Nat
        /\ DOMAIN snapshots' \subseteq Version
        /\ \A n \in DOMAIN snapshots' : snapshots'[n] \in Snapshot
        /\ marker' \in Version /\ failures' \in 0..MaxFailures /\ StoreTypeOK
    BY <1>1, <1>3 DEF StoreInv, StoreTypeOK
  <2> QED
    BY <1>1, <1>4, <2>1, PerformType
<1> QED
  BY <1>4, <1>5, <1>7, <1>9, <1>10, <1>11 DEF StoreInv

LEMMA FailStep ==
  ASSUME StoreInv, NEW s \in DOMAIN Empty, Fail(s)
  PROVE  StoreInv'
<1> DEFINE r == Head(calls[s])
           c == Performed(s)
           alone == r.do = "append" \/ (r.do \in {"save", "commit"} /\ r.install)
<1>1. /\ calls[s] # <<>>
      /\ \/ alone /\ calls' = c /\ UNCHANGED queue
         \/ ~alone /\ Finish(c)
      /\ UNCHANGED <<store, made, adopted, awaiting, disk, kept, published, available,
                     crashes>>
  BY DEF Fail
<1>2. failures' \in 0..MaxFailures
  BY SelfAssumption DEF Fail, StoreInv, StoreTypeOK
<1>3. CASE r.do = "append"
  <2>1. Queues(c) /\ Phases(c, queue) /\ Requested(c, store)
    BY <1>1, <1>3, AppendEnds
  <2>2. calls' = c /\ queue' = queue
    BY <1>1, <1>3
  <2> QED
    BY <1>1, <1>2, <2>1, <2>2, QuietStep DEF StoreInv, StoreTypeOK
<1>4. CASE r.do # "append"
  <2>1. /\ queue # <<>> /\ Queues(c) /\ Resting(c) /\ Requested(c, store)
        /\ r.do = "save" => r = SaveRequest(Head(queue), FALSE)
        /\ r.do = "commit" => r = [do |-> "commit", snap |-> Head(queue), install |-> FALSE]
    <3> HIDE DEF alone
    <3> QED
      BY <1>1, <1>4, CompactionStep
  <2>2. Finish(c)
    BY <1>1, <1>4, <2>1 DEF SaveRequest
  <2> HIDE DEF c, r, alone
  <2>3. /\ Queues(calls') /\ Phases(calls', queue') /\ queue' \in Seq(Made)
        /\ calls'["journal"] = c["journal"]
        /\ \A k \in DOMAIN queue' : k + 1 \in DOMAIN queue /\ queue'[k] = queue[k + 1]
    BY <2>1, <2>2, FinishStep
  <2>4. Requested(calls', store)
    BY <2>1, <2>3 DEF Requested
  <2> QED
    BY <1>1, <1>2, <2>3, <2>4, QuietStep
<1> QED
  BY <1>3, <1>4

-----------------------------------------------------------------------------
(* Crashes, and the first state *)

LEMMA NothingUnderWay ==
  Queues(Empty) /\ Resting(Empty) /\ \A s : Requested(Empty, s)
<1>1. /\ Empty["journal"] = <<>> /\ Empty["snapshots"] = <<>> /\ Empty["metadata"] = <<>>
      /\ DOMAIN <<>> = {} /\ <<>> \in Seq(OfJournal)
  BY DEF Empty
<1> QED
  BY <1>1 DEF Queues, Resting, Requested, Plain

LEMMA CrashStep ==
  ASSUME StoreInv, Crash
  PROVE  StoreInv'
<1>1. /\ \/ available' = TRUE /\ store' = Hydrated
            /\ adopted' = IF Committed THEN marker ELSE 0
         \/ available' = FALSE /\ store' = NewStore /\ adopted' = 0
      /\ made' = 0 /\ awaiting' = 0 /\ queue' = <<>> /\ calls' = Empty
      /\ UNCHANGED <<disk, kept, published, failures>>
      /\ StoreTypeOK /\ OnDisk
  BY DEF Crash, StoreInv
<1>2. Queues(calls') /\ Phases(calls', queue') /\ (Phases(calls, queue))'
  BY <1>1, NothingUnderWay DEF Phases, Resting
<1>3. OnDisk'
  BY <1>1, DiskStands
<1>4. Baseline' = Baseline /\ journal' = journal
  BY <1>1 DEF disk, Baseline, Committed
<1>5. DOMAIN queue' = {} /\ queue' \in Seq(Made)
  BY <1>1
<1>6. Wise(store')
  BY <1>1, HydratedWise, NewStoreWise
<1>7. InMemory'
  BY <1>1, <1>5, <1>6, NothingUnderWay DEF InMemory
<1>8. Together'
  <2> SUFFICES ASSUME available'
               PROVE  /\ journal \subseteq Holds(store') /\ StoreGood(store', Baseline)
                      /\ \A k \in DOMAIN queue' : Dominates(queue'[k].vector, Baseline.vector)
    BY <1>4 DEF Together
  <2>1. store' = Hydrated
    BY <1>1
  <2>2. Holds(store') = Recovered /\ store'.snapshot = Baseline
    BY <1>1, <2>1, HydratedWise
  <2>3. Recovered = Replayed \cup Ops(Baseline.state)
    BY <1>1, BaselineType
  <2>4. journal \subseteq Recovered
    <3> SUFFICES ASSUME NEW e \in journal, ~(e.seq > Baseline.vector[e.author])
                 PROVE  e \in Ops(Baseline.state)
      BY <2>3 DEF Replayed
    <3>1. Baseline.vector[e.author] \in Nat /\ e.seq \in Nat
      BY <1>1, BaselineType, BoundsAssumption DEF Vector, Event
    <3>2. e.seq <= Baseline.vector[e.author]
      BY <3>1
    <3> QED
      BY <1>1, <3>2 DEF OnDisk, Covers
  <2>5. StoreGood(store', Baseline)
    <3>1. Dominates(store'.snapshot.vector, Baseline.vector)
      BY <1>1, <2>2, BaselineType, BoundsAssumption DEF Dominates, Vector
    <3>2. Covers(Baseline, Holds(store'))
      BY <1>6, <2>2 DEF Wise
    <3> QED
      BY <1>1, <2>2, <2>3, <3>1, <3>2, BaselineType DEF StoreGood, OnDisk
  <2> QED
    BY <1>5, <2>2, <2>4, <2>5
<1>9. StoreTypeOK'
  <2>1. adopted' \in Version /\ made' \in Version /\ available' \in BOOLEAN
    <3>1. marker \in Version /\ 0 \in Version
      BY <1>1, SelfAssumption DEF StoreTypeOK, Version
    <3>2. adopted' \in {marker, 0} /\ made' \in {0}
      BY <1>1
    <3>3. available' = TRUE \/ available' = FALSE
      BY <1>1
    <3> QED
      BY <3>1, <3>2, <3>3
  <2>2. crashes' \in 0..MaxCrashes
    BY <1>1, SelfAssumption DEF Crash, StoreTypeOK
  <2>3. store' \in Store
    BY <1>6 DEF Wise, Sound
  <2>4. DOMAIN calls' = DOMAIN Empty
    BY <1>1
  <2> QED
    BY <1>1, <1>5, <2>1, <2>2, <2>3, <2>4 DEF StoreTypeOK, disk
<1> QED
  BY <1>2, <1>3, <1>7, <1>8, <1>9 DEF StoreInv

LEMMA InitStep ==
  StoreInit => StoreInv
<1> SUFFICES ASSUME StoreInit
             PROVE  StoreInv
  OBVIOUS
<1>1. /\ Wise(NewStore) /\ NewStore \in Store /\ <<>> \in Seq(Made) /\ DOMAIN <<>> = {}
      /\ NewStore.snapshot \in Snapshot
  BY NewStoreWise DEF Wise, Sound, Store
<1>2. StoreTypeOK
  BY <1>1, SelfAssumption DEF StoreInit, StoreTypeOK, Version, Empty
<1>3. Queues(calls) /\ Phases(calls, queue) /\ Requested(calls, store)
  BY NothingUnderWay DEF StoreInit, Phases
<1>4. InMemory
  BY <1>1, <1>3 DEF StoreInit, InMemory
<1>5. Baseline = NewStore.snapshot
  BY <1>1 DEF StoreInit, Baseline, Committed
<1>6. /\ Ops(Baseline.state) = {} /\ Faithful(Baseline.state, Baseline.vector)
      /\ Baseline.vector \in Vector /\ Baseline.state \in Seq(SUBSET Event)
  <2>1. Ops(Baseline.state) = {}
    BY <1>1, <1>5 DEF NewStore, Ops
  <2> QED
    BY <1>1, <1>5, <2>1 DEF Wise, Sound, Exact, Snapshot
<1>7. OnDisk
  BY <1>6, FS_EmptySet DEF StoreInit, OnDisk, Genuine, Covers
<1>8. Together
  <2>1. Dominates(NewStore.snapshot.vector, Baseline.vector)
    BY <1>5, <1>6, BoundsAssumption DEF Dominates, Vector
  <2>2. Covers(Baseline, Holds(store))
    BY <1>1, <1>5 DEF StoreInit, Wise
  <2> QED
    BY <1>1, <1>6, <2>1, <2>2 DEF StoreInit, Together, StoreGood
<1> QED
  BY <1>2, <1>3, <1>4, <1>7, <1>8 DEF StoreInv

-----------------------------------------------------------------------------
(* The theorems *)

LEMMA StoreInductive ==
  StoreSpec => []StoreInv
<1>1. StoreInv /\ [StoreNext]_storeVars => StoreInv'
  <2> SUFFICES ASSUME StoreInv, [StoreNext]_storeVars
               PROVE  StoreInv'
    OBVIOUS
  <2>1. CASE MutateSync
    BY <2>1, MutateStep
  <2>2. CASE MutateAsync
    BY <2>2, MutateAsyncStep
  <2>3. CASE Settle
    BY <2>3, SettleStep
  <2>4. CASE ForceCompaction
    BY <2>4, ForceCompactionStep
  <2>5. CASE \E a \in Replicas \ {Self}, n \in Arriving : ReceiveRemote(Remote(a, n))
    BY <2>5, ReceiveOpStep
  <2>6. CASE AppendDone
    BY <2>6, AppendDoneStep
  <2>7. CASE SaveDone
    BY <2>7, SaveDoneStep
  <2>8. CASE VerifyDone
    BY <2>8, VerifyDoneStep
  <2>9. CASE CommitDone
    BY <2>9, CommitDoneStep
  <2>10. CASE ReadDone
    BY <2>10, ReadDoneStep
  <2>11. CASE DeleteDone
    BY <2>11, DeleteDoneStep
  <2>12. CASE PruneDone
    BY <2>12, PruneDoneStep
  <2>13. CASE \E s \in DOMAIN Empty : Fail(s)
    BY <2>13, FailStep
  <2>14. CASE Crash
    BY <2>14, CrashStep
  <2>15. CASE UNCHANGED storeVars
    BY <2>15, PhasesStand
       DEF storeVars, memory, disk, StoreInv, StoreTypeOK, Queues, InMemory, OnDisk, Together,
           Baseline, Committed, Recovered, Replayed, Phases, Resting, Phase, Saving,
           Verifying, Committing, Truncating, Pruning, Marked, Saved
  <2> QED
    BY <2>1, <2>2, <2>3, <2>4, <2>5, <2>6, <2>7, <2>8, <2>9, <2>10, <2>11, <2>12,
       <2>13, <2>14, <2>15 DEF StoreNext, Operate, Perform
<1> QED
  BY <1>1, InitStep, PTL DEF StoreSpec

\* Every variable keeps its type.
THEOREM StoreTypeCorrect ==
  StoreSpec => []StoreTypeOK
<1>1. StoreInv => StoreTypeOK
  BY DEF StoreInv
<1> QED
  BY <1>1, StoreInductive, PTL

\* An operation whose append was reported complete is found by hydrate() at any
\* later time, whatever compactions, failed transactions and crashes are between
\* (commitCompactionTransaction(), hydrate()).
THEOREM RecoverableCorrect ==
  StoreSpec => []Recoverable
<1>1. StoreInv => Recoverable
  BY DEF StoreInv, OnDisk, Recoverable
<1> QED
  BY <1>1, StoreInductive, PTL

\* compactionQueue runs one transaction at a time; and what mutateAsync() has
\* broadcast is found by hydrate(), and its id is not given to another operation
\* by a process that finds IndexedDB (appendLocal(), mutateAsync()).
THEOREM SafeToPublishCorrect ==
  StoreSpec => []SafeToPublish
<1>1. ASSUME StoreInv
      PROVE  SafeToPublish
  <2>1. StoreTypeOK /\ Serialised
    BY <1>1, SerialisedCorrect DEF StoreInv, StoreTypeOK
  <2>2. PublishedIsRecoverable
    BY <1>1 DEF StoreInv, OnDisk, PublishedIsRecoverable
  <2>3. NextIdIsFree
    <3> DEFINE e == NewEvent(store, Self, {})
    <3>1. SUFFICES ASSUME available, e \in published
                   PROVE  FALSE
      BY DEF NextIdIsFree
    <3>2. e \in Holds(store)
      BY <1>1, <2>2, <3>1, BaselineType
         DEF StoreInv, PublishedIsRecoverable, Together, StoreGood, Holds
    <3>3. e.author = Self /\ e.seq = store.localSeq + 1 /\ e.lamport = store.lamport + 1
      BY DEF NewEvent
    <3>4. store.localSeq \in Nat /\ store.lamport \in Nat
      BY <2>1, BoundsAssumption DEF StoreTypeOK, Store
    <3> HIDE DEF e
    <3>5. e.seq <= store.localSeq \/ e.lamport <= store.lamport
      BY <1>1, <3>2, <3>3 DEF StoreInv, InMemory, Wise
    <3> QED
      BY <3>3, <3>4, <3>5
  <2> QED
    BY <2>1, <2>2, <2>3 DEF SafeToPublish
<1> QED
  BY <1>1, StoreInductive, PTL
=============================================================================
