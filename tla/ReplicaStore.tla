---------------------------- MODULE ReplicaStore ----------------------------
(***************************************************************************)
(* The store of one replica: OperationJournal, the pending queue of        *)
(* CausalSyncEngine, BoundedMemoryManager and the install step of          *)
(* SnapshotTransferManager, as functions from a store to the store a call  *)
(* leaves.  Replication lets several stores exchange packets,              *)
(* StoreDurability puts one on top of IndexedDB.                           *)
(*                                                                         *)
(* The application state is what the reducer was called with: a sequence   *)
(* of batches, a batch being the operations folded by one call of          *)
(* reduceState(), which takes them in the order Before.                    *)
(*                                                                         *)
(* A definition introduced by "Slip:" is no part of the model; see         *)
(* OrderingBuffer.                                                         *)
(***************************************************************************)
EXTENDS Integers, Sequences, FiniteSets

CONSTANTS
    Replicas,      \* peer ids; authors are compared as strings, here numbers
    MaxOps,        \* bound: operations of one author
    MaxPending,    \* MAX_PENDING_CAUSAL (128)
    MaxJournal,    \* maxJournalEvents (500)
    Interval,      \* checkpointIntervalOps (250)
    MinRetention   \* minRetentionEvents (50)

ASSUME ReplicasAssumption == /\ Replicas \subseteq Nat
                             /\ IsFiniteSet(Replicas)
ASSUME BoundsAssumption == /\ MaxOps \in Nat
                           /\ MaxPending \in Nat
                           /\ MaxJournal \in Nat
                           /\ Interval \in Nat
                           /\ MinRetention \in Nat

-----------------------------------------------------------------------------
(* Vector clocks: an absent key counts as 0 everywhere in vector-clock.ts *)

Larger(m, n) == IF m >= n THEN m ELSE n
Smaller(m, n) == IF m <= n THEN m ELSE n
Clock == [Replicas -> Nat]
Vector == [Replicas -> 0..MaxOps]
Zero == [a \in Replicas |-> 0]
Merge(v, w) == [a \in Replicas |-> Larger(v[a], w[a])]
Dominates(v, w) == \A a \in Replicas : v[a] >= w[a]

-----------------------------------------------------------------------------
(* Operations *)

OpId == Replicas \X (1..MaxOps)
Id(e) == <<e.author, e.seq>>
Ids(S) == {Id(e) : e \in S}

\* All that the vector v counts.
Below(v) == {d \in OpId : d[2] <= v[d[1]]}

\* The order of insertSorted().
Before(e, f) ==
    \/ e.lamport < f.lamport
    \/ e.lamport = f.lamport /\ e.author < f.author
    \/ e.lamport = f.lamport /\ e.author = f.author /\ e.seq < f.seq

IsFirst(e, S) == \A f \in S \ {e} : Before(e, f)

-----------------------------------------------------------------------------
(* The journal.  s is the store of one replica *)

Live(s, a, n) == \E e \in s.events : e.author = a /\ e.seq = n
HasOp(s, id) == Live(s, id[1], id[2])

\* A dependency is met by the live journal or by the snapshot's vector.
Satisfied(s, e) ==
    \A d \in e.deps : HasOp(s, d) \/ d[2] <= s.snapshot.vector[d[1]]

\* Slip: the highest number seen, gaps or not.
HighestSeq(s, a) == s.clock[a]

\* getContiguousVectorClock(): on from the snapshot while the next is live.
ContiguousSeq(s, a) ==
    LET from == s.snapshot.vector[a]
        next == CHOOSE n \in (from + 1)..(MaxOps + 1) :
                    /\ ~Live(s, a, n)
                    /\ \A k \in (from + 1)..(n - 1) : Live(s, a, k)
    IN  next - 1
Contiguous(s) == [a \in Replicas |-> ContiguousSeq(s, a)]

\* reduceState(): the snapshot's state, then the live events beyond its vector.
Beyond(s) == {e \in s.events : e.seq > s.snapshot.vector[e.author]}
Then(state, batch) == IF batch = {} THEN state ELSE Append(state, batch)
State(s) == Then(s.snapshot.state, Beyond(s))
Folded(state) == UNION {Ids(state[k]) : k \in DOMAIN state}

\* getDeltasSince() and getEarliestLiveSeqPerAuthor().
Deltas(s, v) == {e \in s.events : e.seq > v[e.author]}
HoleBefore(s, v, a) == \A e \in s.events : e.author = a => e.seq > v[a] + 1

-----------------------------------------------------------------------------
(* Bounded memory.  A cut vector is the set of the identities it cuts off *)

\* computeTailCut(): of each author, up to the last of the events that leave
\* MinRetention events of the sorted journal.
TailCut(s) ==
    LET older(e) == Cardinality({f \in s.events : Before(f, e)})
        cut == {e \in s.events : older(e) < Cardinality(s.events) - MinRetention}
    IN  {d \in OpId : \E e \in cut : e.author = d[1] /\ d[2] <= e.seq}

\* minVectorClocks(peerVectors, activePeers): only participants are looked up.
Frontier(s) ==
    {d \in OpId : d[1] \in s.heard /\ \A p \in s.heard : d[2] <= s.peers[p][d[1]]}

Cut(s) ==
    IF Cardinality(s.events) >= MaxJournal \/ Frontier(s) = {}
    THEN TailCut(s)
    ELSE Frontier(s)

\* Slip: the cut is not clamped to what the snapshot contains.
CutUnclamped(s) == Cut(s)

SafeCut(s) == Cut(s) \cap Below(Contiguous(s))

Due(s, force) ==
    /\ force \/ Cardinality(s.events) >= MaxJournal \/ s.opsSince >= Interval
    /\ Cardinality(s.events) > MinRetention
    /\ Cut(s) # {}

\* Slip: the snapshot folds the whole journal.
BakeAll(s) == Beyond(s)

\* The events a new snapshot folds: those up to the contiguous vector.
Baked(s) == {e \in Beyond(s) : e.seq <= Contiguous(s)[e.author]}

\* maybeCompact(), with setSnapshot() and truncateBefore().
Compacted(s, force) ==
    IF ~Due(s, force) THEN s
    ELSE [s EXCEPT !.snapshot = [vector |-> Contiguous(s),
                                 state  |-> Then(s.snapshot.state, Baked(s))],
                   !.clock    = Merge(s.clock, Contiguous(s)),
                   !.events   = {e \in s.events : Id(e) \notin SafeCut(s)},
                   !.opsSince = 0]

\* Counted as far as it is compared.
Recorded(n) == Smaller(n + 1, Interval)

-----------------------------------------------------------------------------
(* One operation enters the store *)

\* appendLocal(): the next operation of r itself.
NewEvent(s, r, deps) ==
    [author |-> r, seq |-> s.localSeq + 1, lamport |-> s.lamport + 1, deps |-> deps]
Appended(s, e) ==
    [s EXCEPT !.localSeq = @ + 1,
              !.lamport  = @ + 1,
              !.clock    = [s.clock EXCEPT ![e.author] = @ + 1],
              !.events   = @ \cup {e},
              !.opsSince = Recorded(@)]

\* applyRemote() and the onOperationApplied hook.
Inserted(s, e) ==
    [s EXCEPT !.events   = s.events \cup {e},
              !.lamport  = Larger(s.lamport, e.lamport) + 1,
              !.clock    = [s.clock EXCEPT ![e.author] = Larger(@, e.seq)],
              !.opsSince = Recorded(s.opsSince)]
Applied(s, e) == Compacted(Inserted(s, e), FALSE)

Parked(s) == {s.pending[k] : k \in DOMAIN s.pending}
Unblocked(s) == {k \in DOMAIN s.pending : Satisfied(s, s.pending[k])}

\* Slip: the operation is applied whatever it depends on.
Heedless(s, e) == TRUE

Accepts(s, e) == Satisfied(s, e)

IsDuplicate(s, e) == HasOp(s, Id(e)) \/ Id(e) \in Ids(Parked(s))

\* ingestOperation(), the store it leaves.
Ingested(s, e) ==
    IF IsDuplicate(s, e) THEN s
    ELSE IF Accepts(s, e) THEN Applied(s, e)
    ELSE IF Len(s.pending) >= MaxPending THEN s
    ELSE [s EXCEPT !.pending = Append(@, e)]

\* Is there something for drainUnblockedPending() to do after e?
Unblocks(s, e) ==
    ~IsDuplicate(s, e) /\ Accepts(s, e) /\ Unblocked(Ingested(s, e)) # {}

Without(q, k) == SubSeq(q, 1, k - 1) \o SubSeq(q, k + 1, Len(q))

\* installSnapshot() does not install a snapshot the store has all of, nor one
\* that lacks something the store's own snapshot folds.
Stale(s, v) == Dominates(Contiguous(s), v)
Concurrent(s, v) == ~Dominates(v, s.snapshot.vector)

Installed(s, r, m) ==
    [s EXCEPT !.snapshot = [vector |-> m.vector, state |-> m.state],
              !.clock    = Merge(@, m.vector),
              !.localSeq = Larger(@, m.vector[r]),
              !.events   = {e \in @ : e.seq > m.vector[e.author]}]

-----------------------------------------------------------------------------
(* A new store, and the type of a store *)

NewStore == [events   |-> {},
             snapshot |-> [vector |-> Zero, state |-> <<>>],
             clock    |-> Zero,
             localSeq |-> 0,
             lamport  |-> 0,
             pending  |-> <<>>,
             heard    |-> {},
             peers    |-> [p \in Replicas |-> Zero],
             opsSince |-> 0]

Event == [author : Replicas, seq : 1..MaxOps, lamport : Nat, deps : SUBSET OpId]
Snapshot == [vector : Vector, state : Seq(SUBSET Event)]

Store == [events   : SUBSET Event,
          snapshot : Snapshot,
          clock    : Clock,
          localSeq : 0..MaxOps,
          lamport  : Nat,
          pending  : Seq(Event),
          heard    : SUBSET Replicas,
          peers    : [Replicas -> Clock],
          opsSince : 0..Interval]
=============================================================================
