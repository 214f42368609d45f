--------------------------- MODULE StoreDurability ---------------------------
(***************************************************************************)
(* One ReplicatedStore on top of IndexedDBStorageAdapter, with crashes     *)
(* between any two database transactions, and transactions that fail.      *)
(*                                                                         *)
(* IndexedDB runs the transactions on one object store in the order they   *)
(* were created; those on different stores overlap.  A call of the adapter *)
(* is a request in the queue of its object store, and the code after the   *)
(* await is part of the step that performs the request.                    *)
(*                                                                         *)
(* Three kinds of call chains are under way at the same time: appends of   *)
(* single operations, compaction transactions, which compactionQueue runs  *)
(* one after the other, and the installation of a peer's snapshot, which   *)
(* does not go through that queue.                                         *)
(*                                                                         *)
(* The vectors of peers are not kept: of the two cuts a compaction may     *)
(* truncate by, only the tail cut occurs here.                             *)
(*                                                                         *)
(* A definition introduced by "Slip:" is no part of the model; see         *)
(* OrderingBuffer.                                                         *)
(***************************************************************************)
EXTENDS ReplicaStore

CONSTANTS
    Self,          \* the replica
    Arriving,      \* bound: numbers of the other authors' operations that arrive
    MaxCrashes,    \* bound: crashes
    MaxFailures,   \* bound: database transactions that fail
    MaxVersion     \* bound: snapshots made or installed in one life

ASSUME SelfAssumption ==
    /\ Self \in Replicas
    /\ Arriving \subseteq 1..MaxOps
    /\ MaxCrashes \in Nat /\ MaxFailures \in Nat /\ MaxVersion \in Nat

VARIABLES
    store,      \* the store in memory
    made,       \* BoundedMemoryManager.snapshotVersion
    adopted,    \* snapshotVersion of the journal's latest snapshot
    awaiting,   \* mutateAsync() calls that wait for the receipt of the broadcast
    queue,      \* compactionQueue, the running transaction first
    calls,      \* per object store, the database transactions under way
    journal,    \* on disk: the operations
    snapshots,  \* on disk: the snapshots, by version
    marker,     \* on disk: committedSnapshotVersion, 0 for none
    kept,       \* history: operations whose append was reported complete
    published,  \* history: operations broadcast by mutateAsync(), IndexedDB available
    available,  \* does indexedDB.open() succeed in this life of the process?
    crashes, failures    \* bookkeeping for the bounds

memory == <<store, made, adopted, awaiting, queue>>
disk == <<journal, snapshots, marker>>
storeVars == <<memory, calls, disk, kept, published, available, crashes, failures>>

-----------------------------------------------------------------------------
(* Requests *)

Empty == [s \in {"journal", "snapshots", "metadata"} |-> <<>>]

Request(c, s, request) == [c EXCEPT ![s] = Append(@, request)]

\* The transaction at the head of s, and the queues without it.
First(s, do) == calls[s] # <<>> /\ Head(calls[s]).do = do
Performed(s) == [calls EXCEPT ![s] = Tail(@)]

AppendRequest(e, publish) == [do |-> "append", op |-> e, publish |-> publish]

\* saveSnapshot(), the first step of a compaction and of an installation.
SaveRequest(x, install) == [do |-> "save", snap |-> x, install |-> install]

-----------------------------------------------------------------------------
(* Compaction *)

\* enqueueCompactionTransaction(): the transaction waits for those in q.
Begin(c, x, q) ==
    IF q = <<>> THEN Request(c, "snapshots", SaveRequest(x, FALSE)) ELSE c

\* setSnapshot() also raises localSeq, which hydrate() may have left behind.
Raised(s) == [s EXCEPT !.localSeq = Larger(@, s.snapshot.vector[Self])]

\* compact(force) of the store s, after the requests c were made.
Compact(s, force, c) ==
    LET t == Raised(Compacted(s, force))
        x == [version |-> made + 1, vector |-> t.snapshot.vector, state |-> t.snapshot.state]
    IN  \/ /\ ~Due(s, force)
           /\ store' = s
           /\ calls' = c
           /\ UNCHANGED <<made, adopted, queue>>
        \/ /\ Due(s, force)
           /\ made < MaxVersion
           /\ store' = t
           /\ made' = made + 1
           /\ adopted' = made + 1
           /\ queue' = Append(queue, x)
           /\ calls' = Begin(c, x, queue)

-----------------------------------------------------------------------------
(* The store's operations *)

\* mutate(): the append is not waited for.
MutateSync ==
    LET e == NewEvent(store, Self, {})
    IN  /\ store.localSeq < MaxOps
        /\ Compact(Appended(store, e), FALSE,
                   Request(calls, "journal", AppendRequest(e, FALSE)))
        /\ UNCHANGED <<awaiting, disk, kept, published, available, crashes, failures>>

\* Slip: the broadcast does not wait for the append.
MutateAsyncEager ==
    LET e == NewEvent(store, Self, {})
    IN  /\ store.localSeq < MaxOps
        /\ store' = Appended(store, e)
        /\ calls' = Request(calls, "journal", AppendRequest(e, FALSE))
        /\ published' = published \cup {e}
        /\ awaiting' = awaiting + 1
        /\ UNCHANGED <<made, adopted, queue, disk, kept, available, crashes, failures>>

\* mutateAsync(), as far as the await of the append.
MutateAsync ==
    LET e == NewEvent(store, Self, {})
    IN  /\ store.localSeq < MaxOps
        /\ store' = Appended(store, e)
        /\ calls' = Request(calls, "journal", AppendRequest(e, TRUE))
        /\ UNCHANGED <<made, adopted, awaiting, queue, disk, kept, published,
                       available, crashes, failures>>

\* mutateAsync() after the broadcast has its receipt: compactAsync(false).
Settle ==
    /\ awaiting > 0
    /\ awaiting' = awaiting - 1
    /\ Compact(store, FALSE, calls)
    /\ UNCHANGED <<disk, kept, published, available, crashes, failures>>

\* Operation n of the author a, as it comes from the network.
Remote(a, n) == [author |-> a, seq |-> n, lamport |-> n, deps |-> {}]

\* state:op or an event of a state:sync_response.
ReceiveRemote(e) ==
    /\ ~HasOp(store, Id(e))
    /\ Compact(Inserted(store, e), FALSE,
               Request(calls, "journal", AppendRequest(e, FALSE)))
    /\ UNCHANGED <<awaiting, disk, kept, published, available, crashes, failures>>

\* A sync request that is answered with a snapshot.
ForceCompaction ==
    /\ Due(store, TRUE)
    /\ Compact(store, TRUE, calls)
    /\ UNCHANGED <<awaiting, disk, kept, published, available, crashes, failures>>

\* A snapshot with the vector v and the version n from a peer.  The hook saves
\* it and then commits it.
Install(v, n) ==
    LET own == {e \in UNION {State(store)[k] : k \in DOMAIN State(store)} :
                    e.author = Self /\ e.seq <= v[Self]}
        others == {Remote(d[1], d[2]) : d \in {d \in Below(v) : d[1] # Self}}
        m == [vector |-> v, state |-> <<own \cup others>>]
        x == [version |-> Larger(adopted, n) + 1, vector |-> v, state |-> m.state]
    IN  /\ v[Self] <= Contiguous(store)[Self]
        /\ ~Stale(store, v)
        /\ ~Concurrent(store, v)
        /\ x.version <= MaxVersion
        /\ store' = Installed(store, Self, m)
        /\ adopted' = x.version
        /\ calls' = Request(calls, "snapshots", SaveRequest(x, TRUE))
        /\ UNCHANGED <<made, awaiting, queue, disk, kept, published, available, crashes, failures>>

-----------------------------------------------------------------------------
(* The database transactions.  Without IndexedDB each call returns at once and *)
(* has no effect.                                                              *)

\* The append of e is reported: to mutateAsync(), which goes on to broadcast.
Report(r) ==
    \/ /\ r.publish
       /\ published' = IF available THEN published \cup {r.op} ELSE published
       /\ awaiting' = awaiting + 1
    \/ /\ ~r.publish
       /\ UNCHANGED <<published, awaiting>>

AppendDone ==
    /\ First("journal", "append")
    /\ LET r == Head(calls["journal"])
       IN  /\ \/ /\ available
                /\ journal' = journal \cup {r.op}
                /\ kept' = kept \cup {r.op}
             \/ /\ ~available
                /\ UNCHANGED <<journal, kept>>
           /\ Report(r)
    /\ calls' = Performed("journal")
    /\ UNCHANGED <<store, made, adopted, queue, snapshots, marker, available,
                   crashes, failures>>

\* The steps of commitCompactionTransaction(): save, verify, commit, truncate
\* (read, then delete what was read), prune.
SaveDone ==
    /\ First("snapshots", "save")
    /\ LET r == Head(calls["snapshots"])
           x == r.snap
       IN  /\ snapshots' = IF available
                           THEN [k \in DOMAIN snapshots \cup {x.version} |->
                                   IF k = x.version THEN [vector |-> x.vector, state |-> x.state]
                                   ELSE snapshots[k]]
                           ELSE snapshots
           /\ calls' = IF r.install
                       THEN Request(Performed("snapshots"), "metadata",
                                    [do |-> "commit", snap |-> x, install |-> TRUE])
                       ELSE Request(Performed("snapshots"), "snapshots",
                                    [do |-> "verify", snap |-> x])
    /\ UNCHANGED <<memory, journal, marker, kept, published, available, crashes, failures>>

\* The transaction at the head of compactionQueue ends; the next one starts.
Finish(c) ==
    /\ queue' = Tail(queue)
    /\ calls' = IF Tail(queue) = <<>> THEN c ELSE Begin(c, queue[2], <<>>)

\* Slip: the journal is truncated before the commit marker is written.
TruncateFirst(c, x) == Request(c, "journal", [do |-> "read", snap |-> x])

CommitNext(c, x) ==
    Request(c, "metadata", [do |-> "commit", snap |-> x, install |-> FALSE])

VerifyDone ==
    /\ First("snapshots", "verify")
    /\ LET x == Head(calls["snapshots"]).snap
           found == available /\ x.version \in DOMAIN snapshots
       IN  \/ /\ found
              /\ calls' = CommitNext(Performed("snapshots"), x)
              /\ UNCHANGED queue
           \/ /\ ~found
              /\ Finish(Performed("snapshots"))
    /\ UNCHANGED <<store, made, adopted, awaiting, disk, kept, published, available,
                   crashes, failures>>

\* The marker is written whether the record is there or not.
CommitDone ==
    /\ First("metadata", "commit")
    /\ LET r == Head(calls["metadata"])
       IN  /\ marker' = IF available THEN r.snap.version ELSE marker
           /\ calls' = IF r.install THEN Performed("metadata")
                       ELSE Request(Performed("metadata"), "journal",
                                    [do |-> "read", snap |-> r.snap])
    /\ UNCHANGED <<memory, journal, snapshots, kept, published, available,
                   crashes, failures>>

ReadDone ==
    /\ First("journal", "read")
    /\ LET x == Head(calls["journal"]).snap
           old == {e \in journal : e.seq <= x.vector[e.author]}
       IN  calls' = Request(Performed("journal"), "journal",
                            [do |-> "delete", ops |-> old, snap |-> x])
    /\ UNCHANGED <<memory, disk, kept, published, available, crashes, failures>>

DeleteDone ==
    /\ First("journal", "delete")
    /\ LET r == Head(calls["journal"])
       IN  /\ journal' = journal \ r.ops
           /\ calls' = Request(Performed("journal"), "snapshots",
                               [do |-> "prune", snap |-> r.snap])
    /\ UNCHANGED <<memory, snapshots, marker, kept, published, available,
                   crashes, failures>>

PruneDone ==
    /\ First("snapshots", "prune")
    /\ LET n == Head(calls["snapshots"]).snap.version
       IN  snapshots' = [k \in DOMAIN snapshots \cap {n} |-> snapshots[k]]
    /\ Finish(Performed("snapshots"))
    /\ UNCHANGED <<store, made, adopted, awaiting, journal, marker, kept, published,
                   available, crashes, failures>>

\* A transaction fails and has no effect.  A failed append or installation is
\* ignored (mutateAsync() throws); a failed step of a compaction transaction
\* ends it.
Fail(s) ==
    /\ calls[s] # <<>>
    /\ available
    /\ failures < MaxFailures
    /\ failures' = failures + 1
    /\ LET r == Head(calls[s])
           alone == r.do = "append" \/ (r.do \in {"save", "commit"} /\ r.install)
       IN  \/ alone /\ calls' = Performed(s) /\ UNCHANGED queue
           \/ ~alone /\ Finish(Performed(s))
    /\ UNCHANGED <<store, made, adopted, awaiting, disk, kept, published, available,
                   crashes>>

-----------------------------------------------------------------------------
(* Crash and recovery *)

\* What loadSnapshot() finds, and the operations hydrate() replays on it.
Committed == marker \in DOMAIN snapshots
Baseline == IF Committed THEN snapshots[marker] ELSE NewStore.snapshot
Replayed == {e \in journal : e.seq > Baseline.vector[e.author]}
Recovered == Replayed \cup UNION {Baseline.state[k] : k \in DOMAIN Baseline.state}

\* getAll() returns the operations in the order of their keys.
KeyFrom(e) ==
    {f \in Replayed : \/ f.author > e.author
                      \/ f.author = e.author /\ f.seq > e.seq
                      \/ f.author = e.author /\ f.seq = e.seq /\ f.lamport >= e.lamport}

Highest(S) == CHOOSE n \in S : \A k \in S : k <= n

\* Each operation replayed leaves the lamport clock one above both.
ReplayedLamport == Highest({0} \cup {e.lamport + Cardinality(KeyFrom(e)) : e \in Replayed})

\* hydrate().  localSeq comes from the snapshot alone.
Hydrated ==
    [NewStore EXCEPT
        !.snapshot = Baseline,
        !.events   = Replayed,
        !.clock    = [a \in Replicas |->
                        Highest({Baseline.vector[a]} \cup
                                {e.seq : e \in {f \in Replayed : f.author = a}})],
        !.localSeq = Baseline.vector[Self],
        !.lamport  = ReplayedLamport]

\* The process dies, with what IndexedDB has not performed; a new one hydrates,
\* from nothing when it finds no IndexedDB.
Crash ==
    /\ crashes < MaxCrashes
    /\ crashes' = crashes + 1
    /\ \/ /\ available' = TRUE
          /\ store' = Hydrated
          /\ adopted' = IF Committed THEN marker ELSE 0
       \/ /\ available' = FALSE
          /\ store' = NewStore
          /\ adopted' = 0
    /\ made' = 0
    /\ awaiting' = 0
    /\ queue' = <<>>
    /\ calls' = Empty
    /\ UNCHANGED <<disk, kept, published, failures>>

-----------------------------------------------------------------------------
StoreInit ==
    /\ store = NewStore
    /\ made = 0
    /\ adopted = 0
    /\ awaiting = 0
    /\ queue = <<>>
    /\ calls = Empty
    /\ journal = {}
    /\ snapshots = <<>>
    /\ marker = 0
    /\ kept = {}
    /\ published = {}
    /\ available \in BOOLEAN
    /\ crashes = 0
    /\ failures = 0

Operate ==
    \/ MutateSync \/ MutateAsync \/ Settle \/ ForceCompaction
    \/ \E a \in Replicas \ {Self}, n \in Arriving : ReceiveRemote(Remote(a, n))

Perform ==
    \/ AppendDone \/ SaveDone \/ VerifyDone \/ CommitDone
    \/ ReadDone \/ DeleteDone \/ PruneDone
    \/ \E s \in DOMAIN Empty : Fail(s)

StoreNext == Operate \/ Perform \/ Crash

StoreSpec == StoreInit /\ [][StoreNext]_storeVars

\* The same store when peers also send it snapshots.
InstallSpec ==
    StoreInit /\ [][StoreNext \/ \E v \in Vector, n \in 1..MaxVersion : Install(v, n)]_storeVars
-----------------------------------------------------------------------------
Version == 0..MaxVersion
Made == [version : Version, vector : Vector, state : Seq(SUBSET Event)]

StoreTypeOK ==
    /\ store \in Store
    /\ made \in Version /\ adopted \in Version
    /\ awaiting \in Nat
    /\ queue \in Seq(Made)
    /\ DOMAIN calls = DOMAIN Empty
    /\ journal \subseteq Event
    /\ DOMAIN snapshots \subseteq Version
    /\ \A n \in DOMAIN snapshots : snapshots[n] \in Snapshot
    /\ marker \in Version
    /\ kept \subseteq Event /\ published \subseteq Event
    /\ available \in BOOLEAN
    /\ crashes \in 0..MaxCrashes /\ failures \in 0..MaxFailures

\* Compaction transactions do not overlap: one of their requests is under way
\* exactly when the queue is not empty, and it is for the head of the queue.
Serialised ==
    LET ofCompaction(r) == ~(r.do = "append" \/ (r.do \in {"save", "commit"} /\ r.install))
        steps == UNION {{<<s, k>> : k \in {n \in DOMAIN calls[s] : ofCompaction(calls[s][n])}} :
                        s \in DOMAIN Empty}
    IN  IF queue = <<>> THEN steps = {}
        ELSE \E x \in steps : steps = {x} /\ calls[x[1]][x[2]].snap = Head(queue)

\* An operation whose append was reported complete is found by hydrate() at any
\* later time: as a record, or in the state of the snapshot the marker names,
\* between any two steps of a compaction and after any failure of one.
Recoverable == kept \subseteq Recovered

\* What mutateAsync() has broadcast is found by hydrate().
PublishedIsRecoverable == published \subseteq Recovered

\* A process that finds IndexedDB gives its next operation an id no operation
\* has that was broadcast by mutateAsync(), in this life or an earlier one.
NextIdIsFree == available => NewEvent(store, Self, {}) \notin published

\* What was broadcast is never taken back and its id never used again, while
\* compactions follow one another.
SafeToPublish == StoreTypeOK /\ Serialised /\ PublishedIsRecoverable /\ NextIdIsFree
=============================================================================
