----------------------------- MODULE Replication -----------------------------
(***************************************************************************)
(* Replicated stores of one room: OperationJournal, CausalSyncEngine,      *)
(* BoundedMemoryManager and SnapshotTransferManager under ReplicatedStore, *)
(* exchanging state:op, state:sync_request, state:sync_response and        *)
(* state:snapshot_response packets over a wire that loses and reorders.    *)
(* Storage is left out here.                                               *)
(*                                                                         *)
(* A JavaScript handler runs to its end.  The handlers that ingest several *)
(* operations (a delta response; the parked operations one operation       *)
(* unblocks) take a step for each, and until the last one the replica does *)
(* nothing else: see Idle.                                                 *)
(*                                                                         *)
(* Nothing in the code sends state:snapshot_request, or a sync response    *)
(* with requiresSnapshot: the handler of a sync request answers with the   *)
(* snapshot itself.  So their handlers are not reached.  Validation admits *)
(* whatever these replicas send, and is left out.                          *)
(*                                                                         *)
(* A definition introduced by "Slip:" is no part of the model; see         *)
(* OrderingBuffer.                                                         *)
(***************************************************************************)
EXTENDS ReplicaStore

CONSTANTS
    Authors,       \* the replicas whose application mutates
    MaxDeps,       \* bound: explicit dependencies of one operation
    MaxInFlight    \* bound: requests under way when syncWith() is called

ASSUME AuthorsAssumption == /\ Authors \subseteq Replicas
                            /\ MaxDeps \in Nat
                            /\ MaxInFlight \in Nat

VARIABLES
    stores,     \* per replica, the journal and the engines around it
    todo,      \* per replica, events of a delta response still to be ingested
    draining,  \* per replica, is drainUnblockedPending() at work?
    net        \* packets under way

vars == <<stores, todo, draining, net>>

\* The sync request an operation causes when it is parked: the raw clock, to
\* its author.
Asked(r, s, e) ==
    IF IsDuplicate(s, e) \/ Accepts(s, e) \/ Len(s.pending) >= MaxPending THEN {}
    ELSE {[type |-> "request", from |-> r, to |-> e.author, vector |-> s.clock]}

Ingest(r, s, e) ==
    /\ stores' = [stores EXCEPT ![r] = Ingested(s, e)]
    /\ draining' = [draining EXCEPT ![r] = Unblocks(s, e)]

-----------------------------------------------------------------------------
(* The handlers of ReplicatedStore *)

Idle(r) == todo[r] = {} /\ ~draining[r]

\* The packet m reaches r, whose participants and peer vectors it updates.
Arrives(r, m, type) ==
    /\ Idle(r)
    /\ m \in net
    /\ m.type = type
    /\ m.to = r

Heard(s, m) == [s EXCEPT !.heard = @ \cup {m.from}, !.peers[m.from] = m.vector]

\* mutate(): the broadcast carries the contiguous vector from before compaction.
Mutate(r, deps) ==
    LET s == stores[r]
        e == NewEvent(s, r, deps)
        t == Appended(s, e)
    IN  /\ Idle(r)
        /\ r \in Authors
        /\ s.localSeq < MaxOps
        /\ deps \subseteq Folded(State(s))
        /\ Cardinality(deps) <= MaxDeps
        /\ stores' = [stores EXCEPT ![r] = Compacted(t, FALSE)]
        /\ net' = net \cup [type : {"op"}, from : {r}, to : Replicas \ {r},
                            op : {e}, vector : {Contiguous(t)}]
        /\ UNCHANGED <<todo, draining>>

\* state:op
ReceiveOp(r, m) ==
    /\ Arrives(r, m, "op")
    /\ LET s == Heard(stores[r], m)
       IN  /\ Ingest(r, s, m.op)
           /\ net' = (net \ {m}) \cup Asked(r, s, m.op)
    /\ UNCHANGED todo

\* The loop of drainUnblockedPending(): one parked operation, then look again.
Drain(r) ==
    /\ draining[r]
    /\ \E k \in Unblocked(stores[r]) :
          LET e == stores[r].pending[k]
              rest == [stores[r] EXCEPT !.pending = Without(@, k)]
              left == IF HasOp(rest, Id(e)) THEN rest ELSE Applied(rest, e)
          IN  /\ \A j \in Unblocked(stores[r]) : k <= j
              /\ stores' = [stores EXCEPT ![r] = left]
              /\ draining' = [draining EXCEPT ![r] = Unblocked(left) # {}]
    /\ UNCHANGED <<todo, net>>

\* syncWith()
SyncWith(r, p) ==
    /\ Idle(r)
    /\ r # p
    /\ Cardinality({m \in net : m.type # "op"}) < MaxInFlight
    /\ net' = net \cup {[type |-> "request", from |-> r, to |-> p,
                         vector |-> Contiguous(stores[r])]}
    /\ UNCHANGED <<stores, todo, draining>>

\* The replay-gap test of handleSyncRequest().
NeedsSnapshot(s, v) ==
    \E a \in Replicas : v[a] < s.snapshot.vector[a] /\ HoleBefore(s, v, a)

\* state:sync_request, answered with deltas.
AnswerWithDeltas(r, m) ==
    /\ Arrives(r, m, "request")
    /\ LET s == Heard(stores[r], m)
       IN  /\ ~NeedsSnapshot(s, m.vector)
           /\ stores' = [stores EXCEPT ![r] = s]
           /\ net' = (net \ {m}) \cup
                     {[type |-> "response", from |-> r, to |-> m.from,
                       events |-> Deltas(s, m.vector), vector |-> s.clock]}
    /\ UNCHANGED <<todo, draining>>

\* state:sync_request, answered with a snapshot, forced to be fresh if that
\* folds anything.
AnswerWithSnapshot(r, m) ==
    /\ Arrives(r, m, "request")
    /\ LET s == Heard(stores[r], m)
           t == Compacted(s, TRUE)
       IN  /\ NeedsSnapshot(s, m.vector)
           /\ stores' = [stores EXCEPT ![r] = t]
           /\ net' = (net \ {m}) \cup
                     {[type |-> "snapshot", from |-> r, to |-> m.from,
                       vector |-> t.snapshot.vector, state |-> t.snapshot.state]}
    /\ UNCHANGED <<todo, draining>>

\* state:sync_response: its events are ingested one after the other.
ReceiveResponse(r, m) ==
    /\ Arrives(r, m, "response")
    /\ stores' = [stores EXCEPT ![r] = Heard(@, m)]
    /\ todo' = [todo EXCEPT ![r] = m.events]
    /\ net' = net \ {m}
    /\ UNCHANGED draining

IngestNext(r) ==
    /\ ~draining[r]
    /\ \E e \in todo[r] :
          /\ IsFirst(e, todo[r])
          /\ Ingest(r, stores[r], e)
          /\ todo' = [todo EXCEPT ![r] = @ \ {e}]
          /\ net' = net \cup Asked(r, stores[r], e)

\* state:snapshot_response: installed unless we have it all, or our own
\* snapshot folds something it does not.
ReceiveSnapshot(r, m) ==
    /\ Arrives(r, m, "snapshot")
    /\ LET s == stores[r]
       IN  \/ /\ Stale(s, m.vector) \/ Concurrent(s, m.vector)
              /\ UNCHANGED stores
           \/ /\ ~Stale(s, m.vector)
              /\ ~Concurrent(s, m.vector)
              /\ stores' = [stores EXCEPT ![r] = Installed(s, r, m)]
    /\ net' = net \ {m}
    /\ UNCHANGED <<todo, draining>>

\* A packet of the synchronisation is lost: the retries of the reliable transport
\* gave up.  A lost broadcast is one that stays in net for ever.
Lose(m) ==
    /\ m \in net
    /\ m.type # "op"
    /\ net' = net \ {m}
    /\ UNCHANGED <<stores, todo, draining>>

-----------------------------------------------------------------------------
Init ==
    /\ stores = [r \in Replicas |-> NewStore]
    /\ todo = [r \in Replicas |-> {}]
    /\ draining = [r \in Replicas |-> FALSE]
    /\ net = {}

Answer(r, m) == AnswerWithDeltas(r, m) \/ AnswerWithSnapshot(r, m)

Next ==
    \/ \E r \in Replicas :
          \/ \E deps \in SUBSET OpId : Mutate(r, deps)
          \/ Drain(r) \/ IngestNext(r)
          \/ \E p \in Replicas : SyncWith(r, p)
          \/ \E m \in net : \/ ReceiveOp(r, m) \/ Answer(r, m)
                            \/ ReceiveResponse(r, m) \/ ReceiveSnapshot(r, m)
    \/ \E m \in net : Lose(m)

Spec == Init /\ [][Next]_vars

\* A handler runs to its end; the application calls syncWith() again and again
\* (as the simulator does), and a packet sent again and again gets through.
FairSpec ==
    /\ Spec
    /\ \A r \in Replicas : /\ WF_vars(Drain(r)) /\ WF_vars(IngestNext(r))
                           /\ SF_vars(\E m \in net : Answer(r, m))
                           /\ SF_vars(\E m \in net : ReceiveResponse(r, m))
                           /\ SF_vars(\E m \in net : ReceiveSnapshot(r, m))
    /\ \A r, p \in Replicas : SF_vars(SyncWith(r, p))

-----------------------------------------------------------------------------
Packet == [type : {"op"}, from : Replicas, to : Replicas, op : Event, vector : Vector]
          \cup [type : {"request"}, from : Replicas, to : Replicas, vector : Clock]
          \cup [type : {"response"}, from : Replicas, to : Replicas,
                events : SUBSET Event, vector : Clock]
          \cup [type : {"snapshot"}, from : Replicas, to : Replicas,
                vector : Vector, state : Seq(SUBSET Event)]

\* Is folded first, where both are folded.
Earlier(state, e, f) ==
    \E j, k \in DOMAIN state : e \in state[j] /\ f \in state[k] /\
                               (j < k \/ (j = k /\ Before(e, f)))

TypeOK ==
    /\ stores \in [Replicas -> Store]
    /\ todo \in [Replicas -> SUBSET Event]
    /\ draining \in [Replicas -> BOOLEAN]
    /\ net \subseteq Packet

\* A snapshot contains exactly the operations its vector counts, the one kept
\* and any under way: the vector "never over-claims coverage", so no later
\* round of anti-entropy concludes that it has what it lacks.
SnapshotIsExact ==
    /\ \A r \in Replicas :
          Folded(stores[r].snapshot.state) = Below(stores[r].snapshot.vector)
    /\ \A m \in net :
          m.type = "snapshot" => Folded(m.state) = Below(m.vector)

\* What a replica has applied stays applied: through compaction in the middle
\* of ingestion, truncation with gaps in the journal, the installation of a
\* snapshot over a live journal, and copies that come after truncation.
NothingLost ==
    [][\A r \in Replicas : Folded(State(stores[r])) \subseteq Folded(State(stores'[r]))]_vars

\* The reducer has not been given an operation twice.
FoldedOnce ==
    \A r \in Replicas :
        LET state == State(stores[r])
        IN  \A j, k \in DOMAIN state : j # k => Ids(state[j]) \cap Ids(state[k]) = {}

\* The reducer gets an operation after all those it depends on.
CausalOrder ==
    \A r \in Replicas :
        LET state == State(stores[r])
        IN  \A k \in DOMAIN state : \A e \in state[k] : \A d \in e.deps :
                \E j \in DOMAIN state : \E f \in state[j] :
                    Id(f) = d /\ Earlier(state, f, e)

\* causal-sync-engine.ts:114 "Scans and drains all pending operations whose
\* causal prerequisites are now met": when the replica is at rest, a parked
\* operation it has not applied waits for something.
ParkedIsBlocked ==
    \A r \in Replicas : Idle(r) =>
        \A k \in Unblocked(stores[r]) :
            Id(stores[r].pending[k]) \in Folded(State(stores[r]))

\* No snapshot counts anything yet: neither made nor installed.
Uncompacted == \A r \in Replicas : stores[r].snapshot.vector = Zero

\* The reducer is given an operation once; and as long as nothing was compacted
\* it gets it after all those it depends on, and an operation waits only while
\* one of them is missing.  (A snapshot keeps neither: it is folded in the order
\* its operations arrived, and its installation drains nothing.)
AppliedInOrder ==
    TypeOK /\ FoldedOnce /\ (Uncompacted => CausalOrder /\ ParkedIsBlocked)

\* snapshot-transfer.ts:151 "Rejecting here is lossless and honest: local state
\* is left fully intact and the peers reconcile through ordinary delta-based
\* anti-entropy instead": where our snapshot would be refused as concurrent,
\* deltas can be had.
DeltasReconcile ==
    \A r, p \in Replicas :
        Concurrent(stores[r], stores[p].snapshot.vector) =>
            ~NeedsSnapshot(stores[p], Contiguous(stores[r]))

\* Every replica gets every operation, when packets may be lost but syncWith()
\* is called again and again.
Converges == <>[](\A r, p \in Replicas : Folded(State(stores[r])) = Folded(State(stores[p])))
=============================================================================
