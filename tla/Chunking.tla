------------------------------ MODULE Chunking ------------------------------
(***************************************************************************)
(* Payloads too large for one message: cut into fragments that are sent    *)
(* reliably and acknowledged one by one, and put together again by the     *)
(* receiver (core/network/chunker.ts, sendPacket and handleIncoming of     *)
(* core/network/packet-pipeline.ts, core/network/reliable-transport.ts).   *)
(*                                                                         *)
(* One sender and one receiver.  A transfer has the fragments 1..Parts.    *)
(* A fragment that is under way may never arrive, an acknowledgement       *)
(* arrives at once or never, and retries make duplicates.  Checksums hold: *)
(* the channels keep what they carry intact.                               *)
(***************************************************************************)
EXTENDS Naturals, Sequences, FiniteSets

CONSTANTS
    Transfers, Parts,
    MaxPending,  \* MAX_PENDING of ReliableTransport
    MaxAttempts,
    MaxActive,   \* MAX_CONCURRENT_TRANSFERS
    MaxDone      \* MAX_COMPLETED_HISTORY

\* MCTransport assumes it of the instance.
ChunksAssumption ==
    /\ Parts \in Nat \ {0} /\ MaxAttempts \in Nat \ {0}
    /\ MaxPending \in Nat /\ MaxActive \in Nat /\ MaxDone \in Nat

VARIABLES
    receipt,     \* receipt[t][i]: "unsent", "out", or what became of it
    attempts,
    net,         \* fragments under way
    active,      \* activeTransfers: the fragments held, none if there is no entry
    seen, done,  \* seenChunkKeys, completedOrder
    rejoined,    \* the receiver has left the room and come back
    put,         \* history: how often a transfer came out of this reassembler
    dropped,     \* history: timed out, refused for want of room, or left behind
    arrived      \* history: transfers that ever came out

vars == <<receipt, attempts, net, active, seen, done, rejoined, put, dropped, arrived>>
receiver == <<active, seen, done, rejoined, put, dropped, arrived>>

Fragments == Transfers \X (1..Parts)

Init ==
    /\ receipt = [t \in Transfers |-> [i \in 1..Parts |-> "unsent"]]
    /\ attempts = [f \in Fragments |-> 0]
    /\ net = {}
    /\ active = [t \in Transfers |-> {}] /\ seen = {} /\ done = <<>> /\ rejoined = FALSE
    /\ put = [t \in Transfers |-> 0] /\ dropped = {} /\ arrived = {}

Outstanding == {f \in Fragments : receipt[f[1]][f[2]] = "out"}
Held == {t \in Transfers : active[t] # {}}

\* sendPacket: the fragments in turn, as many as the transport takes.
Send(t) ==
    LET Taken == {i \in 1..Parts : Cardinality(Outstanding) + i <= MaxPending}
    IN  /\ receipt[t][1] = "unsent"
        /\ receipt' = [receipt EXCEPT ![t] =
                [i \in 1..Parts |-> IF i \in Taken THEN "out" ELSE "rejected"]]
        /\ attempts' = [f \in Fragments |-> IF f[1] = t /\ f[2] \in Taken THEN 1 ELSE attempts[f]]
        /\ net' = net \cup ({t} \X Taken)
        /\ UNCHANGED receiver

\* The timer of a fragment.
Retried(t, i) ==
    /\ receipt[t][i] = "out"
    /\ IF attempts[<<t, i>>] >= MaxAttempts
       THEN receipt' = [receipt EXCEPT ![t][i] = "timeout"] /\ UNCHANGED <<attempts, net>>
       ELSE /\ attempts' = [attempts EXCEPT ![<<t, i>>] = @ + 1]
            /\ net' = net \cup {<<t, i>>}
            /\ UNCHANGED receipt

Retry(t, i) == Retried(t, i) /\ UNCHANGED receiver

Last(q, n) == IF Len(q) > n THEN Tail(q) ELSE q

SeenAfter(t, i) == seen \cup {<<t, i>>}

\* Slip: the fragment with the last index completes the transfer.
EndsTransfer(held, i) == i = Parts

Completes(held, i) == held = 1..Parts

Known(t, i) == (\E k \in DOMAIN done : done[k] = t) \/ <<t, i>> \in seen

\* ingestChunk, for a fragment that is new.
Ingest(t, i) ==
    LET held == active[t] \cup {i}
    IN  IF active[t] = {} /\ Cardinality(Held) >= MaxActive
        THEN /\ seen' = seen \cup {<<t, i>>} /\ dropped' = dropped \cup {t}
             /\ UNCHANGED <<active, done, put, arrived>>
        ELSE IF ~Completes(held, i)
        THEN /\ seen' = seen \cup {<<t, i>>} /\ active' = [active EXCEPT ![t] = held]
             /\ UNCHANGED <<done, put, dropped, arrived>>
        ELSE /\ active' = [active EXCEPT ![t] = {}]
             /\ IF held = 1..Parts
                THEN /\ seen' = SeenAfter(t, i)
                     /\ done' = Last(Append(done, t), MaxDone)
                     /\ put' = [put EXCEPT ![t] = @ + 1] /\ arrived' = arrived \cup {t}
                ELSE seen' = seen \cup {<<t, i>>} /\ UNCHANGED <<done, put, arrived>>
             /\ UNCHANGED dropped

\* handleIncoming acknowledges it, whatever becomes of it; handleAck.
Hear(t, i, lost) ==
    /\ <<t, i>> \in net /\ net' = net \ {<<t, i>>}
    /\ receipt' = IF receipt[t][i] = "out" /\ ~lost
                  THEN [receipt EXCEPT ![t][i] = "delivered"] ELSE receipt
    /\ IF Known(t, i) THEN UNCHANGED <<active, seen, done, put, dropped, arrived>> ELSE Ingest(t, i)
    /\ UNCHANGED <<attempts, rejoined>>

\* Slip: a transfer that timed out keeps its entry.
Marked(t) ==
    /\ active[t] # {} /\ dropped' = dropped \cup {t}
    /\ UNCHANGED <<receipt, attempts, net, active, seen, done, rejoined, put, arrived>>

\* The timer of a transfer.
Expire(t) ==
    /\ active[t] # {}
    /\ active' = [active EXCEPT ![t] = {}] /\ dropped' = dropped \cup {t}
    /\ UNCHANGED <<receipt, attempts, net, seen, done, rejoined, put, arrived>>

\* The receiver leaves the room and comes back; clear.
Rejoin ==
    /\ ~rejoined /\ rejoined' = TRUE
    /\ active' = [t \in Transfers |-> {}] /\ seen' = {} /\ done' = <<>>
    /\ put' = [t \in Transfers |-> 0]
    /\ dropped' = dropped \cup {t \in Transfers : \E i \in 1..Parts : <<t, i>> \in seen}
    /\ UNCHANGED <<receipt, attempts, net, arrived>>

Next ==
    \/ Rejoin
    \/ \E t \in Transfers : Send(t) \/ Expire(t)
    \/ \E t \in Transfers, i \in 1..Parts  :
        Retry(t, i) \/ \E lost \in BOOLEAN : Hear(t, i, lost)

Spec == Init /\ [][Next]_vars

\* Timers fire.
Fairness == \A t \in Transfers : WF_vars(Expire(t)) /\ \A i \in 1..Parts : WF_vars(Retry(t, i))
FairSpec == Spec /\ Fairness

-----------------------------------------------------------------------------
\* Every variable keeps its type (chunker.ts:111-135, reliable-transport.ts:35-65).
TypeOK ==
    /\ receipt \in [Transfers -> [1..Parts -> {"unsent", "out", "delivered", "timeout", "rejected"}]]
    /\ attempts \in [Fragments -> 0..MaxAttempts] /\ Cardinality(Outstanding) <= MaxPending
    /\ net \cup seen \subseteq Fragments
    /\ active \in [Transfers -> SUBSET (1..Parts)] /\ Cardinality(Held) <= MaxActive
    /\ Len(done) <= MaxDone /\ put \in [Transfers -> Nat]

\* However often fragments come again, even after the transfer has left the list
\* of completed ones, it comes out of the reassembler once (chunker.ts:156-166).
PutOnce == \A t \in Transfers : put[t] <= 1

\* What was acknowledged, and is thus never sent again, is held until its
\* transfer is whole: it is lost only to the timer, the cap or a leave
\* (chunker.ts:169-189, packet-pipeline.ts:162-184).
AckedIsNotLost ==
    \A t \in Transfers \ (dropped \cup arrived) : \A i \in 1..Parts :
        receipt[t][i] = "delivered" => i \in active[t]

\* Every send gets its receipt and no fragment is held for ever
\* (reliable-transport.ts:140-165, chunker.ts:180-182).
IsSettled == Outstanding = {} /\ Held = {}
Settled == <>[]IsSettled

Resolved(t) == \A i \in 1..Parts : receipt[t][i] \notin {"unsent", "out"}

\* A payload whose receipt, which is its last fragment's, says "delivered" has
\* come out of the receiver (packet-pipeline.ts:117-124; reliable-transport.ts:26-30).
ReceiptIsTrue == \A t \in Transfers : Resolved(t) /\ receipt[t][Parts] = "delivered" => t \in arrived

\* A payload the chunker accepts, sent while nothing else waits, is not refused
\* for its own size (chunker.ts:39-40).
AcceptedIsSent ==
    [][\A t \in Transfers :
        Outstanding = {} /\ receipt[t][1] = "unsent" => receipt'[t][Parts] # "rejected"]_vars
=============================================================================
