--------------------------- MODULE OrderingBuffer ---------------------------
(***************************************************************************)
(* The receive side of one ordered stream: one StreamState of              *)
(* core/network/ordering-buffer.ts, that is the state kept for one         *)
(* (streamId, senderPeerId) key.  Keys never share state, so one of them   *)
(* stands for all.                                                         *)
(*                                                                         *)
(* A packet is its sequence number and its identity.  Nothing is assumed   *)
(* of the order, the repetition or the completeness of the arrivals:       *)
(* ReliableDelivery composes this module with the pipeline that feeds it.  *)
(*                                                                         *)
(* A definition introduced by "Slip:" is no part of the model: it is the   *)
(* following operator with a plausible mistake in it, kept to show which   *)
(* property would notice.                                                  *)
(***************************************************************************)
EXTENDS Integers, Sequences, FiniteSets

CONSTANTS
    Ids,          \* packet identities (NetworkPacket.id)
    Free,         \* "no packet held under this number"
    MaxSeq,       \* bound: largest sequence number a sender assigns
    MaxHold,      \* MAX_HOLDING_QUEUE (64 in the code)
    MaxHanded     \* bound: length of the hand-up log that Bypass may reach

ASSUME FreeAssumption == Free \notin Ids
ASSUME BoundsAssumption == /\ MaxSeq \in Nat \ {0}
                           /\ MaxHold \in Nat \ {0}
                           /\ MaxHanded \in Nat

VARIABLES
    expected,     \* StreamState.expectedSeq
    holding,      \* StreamState.holdingQueue: sequence number -> packet or Free
    gapTimer,     \* StreamState.gapTimer # null
    gapDetected,  \* StreamState.gapDetectedAt > 0 (read by the stepped clock only)
    handed        \* history: the packets passed to onDeliver, oldest first

vars == <<expected, holding, gapTimer, gapDetected, handed>>

Seqs == 1..MaxSeq
NoSeq == 0                                  \* a packet without streamId or seq
Packet == [seq : Seqs, id : Ids]
Entry == [seq : Seqs \cup {NoSeq}, id : Ids]

-----------------------------------------------------------------------------
(* The holding queue *)

Empty == [s \in Seqs |-> Free]
Held(h) == {s \in Seqs : h[s] # Free}

\* The first number from e on under which nothing is held.
RunEnd(h, e) == CHOOSE n \in e..(MaxSeq + 1) :
                    /\ n \notin Held(h)
                    /\ \A m \in e..(n - 1) : m \in Held(h)

\* The packets the drain loop hands up when it starts at e, and what it leaves.
Run(h, e) == [i \in 1..(RunEnd(h, e) - e) |->
                  [seq |-> e + i - 1, id |-> h[e + i - 1]]]
Drained(h, e) == [s \in Seqs |-> IF s \in e..(RunEnd(h, e) - 1) THEN Free ELSE h[s]]

Lowest(h) == CHOOSE s \in Held(h) : \A t \in Held(h) : s <= t
Put(h, p) == [h EXCEPT ![p.seq] = p.id]

-----------------------------------------------------------------------------
(* inflow(): what one arrival does, given the queue h, the number e that is *)
(* expected and the log l that the earlier part of the same call left.      *)

\* Hand p up, then everything consecutive behind it.
HandUpAndDrain(p, h, e, l) ==
    /\ handed' = Append(l, p) \o Run(h, e + 1)
    /\ holding' = Drained(h, e + 1)
    /\ expected' = RunEnd(h, e + 1)

\* Park p; the first packet parked while no timer runs asks for a repair and
\* arms the timer.
Park(p, h, e, l) ==
    /\ holding' = Put(h, p)
    /\ expected' = e
    /\ handed' = l
    /\ gapTimer' = TRUE
    /\ gapDetected' = (gapDetected \/ ~gapTimer)

InOrder(p) ==
    /\ p.seq = expected
    /\ HandUpAndDrain(p, holding, expected, handed)
    /\ gapTimer' = FALSE
    /\ gapDetected' = FALSE

\* Slip: a stale packet is handed up again.
StaleRedelivered(p) ==
    /\ p.seq < expected
    /\ Len(handed) <= MaxSeq + MaxHanded
    /\ handed' = Append(handed, p)
    /\ UNCHANGED <<expected, holding, gapTimer, gapDetected>>

Stale(p) ==
    /\ p.seq < expected
    /\ UNCHANGED vars

ParkAhead(p) ==
    /\ p.seq > expected
    /\ Cardinality(Held(holding)) < MaxHold
    /\ Park(p, holding, expected, handed)

\* The queue is full: collapse to the lowest number held, then look at p again.
Overflow(p) ==
    LET low == Lowest(holding)
        e == RunEnd(holding, low)
        h == Drained(holding, low)
        l == handed \o Run(holding, low)
    IN  /\ p.seq > expected
        /\ Cardinality(Held(holding)) >= MaxHold
        /\ \/ /\ p.seq = e
              /\ HandUpAndDrain(p, h, e, l)
              /\ UNCHANGED <<gapTimer, gapDetected>>
           \/ /\ p.seq < e
              /\ expected' = e
              /\ holding' = h
              /\ handed' = l
              /\ UNCHANGED <<gapTimer, gapDetected>>
           \/ /\ p.seq > e
              /\ Park(p, h, e, l)

Inflow(p) == InOrder(p) \/ Stale(p) \/ ParkAhead(p) \/ Overflow(p)

\* A packet outside any stream is handed up at once.
Bypass(i) ==
    /\ Len(handed) < MaxHanded
    /\ handed' = Append(handed, [seq |-> NoSeq, id |-> i])
    /\ UNCHANGED <<expected, holding, gapTimer, gapDetected>>

-----------------------------------------------------------------------------
(* collapseGap(), by the gap timer and by the stepped clock *)


CollapseGap ==
    \/ /\ Held(holding) = {}
       /\ UNCHANGED <<expected, holding, handed>>
    \/ /\ Held(holding) # {}
       /\ LET low == Lowest(holding)
          IN  /\ handed' = handed \o Run(holding, low)
              /\ holding' = Drained(holding, low)
              /\ expected' = RunEnd(holding, low)

GapTimeout ==
    /\ gapTimer
    /\ gapTimer' = FALSE
    /\ CollapseGap
    /\ UNCHANGED gapDetected

\* step(): the simulation harness advances time itself.
Step ==
    /\ Held(holding) # {}
    /\ gapDetected
    /\ gapTimer' = FALSE
    /\ gapDetected' = FALSE
    /\ CollapseGap

\* clear(): the stream table is dropped on a room change; the next packet of
\* the stream starts it afresh.
Clear ==
    /\ expected' = 1
    /\ holding' = Empty
    /\ gapTimer' = FALSE
    /\ gapDetected' = FALSE
    /\ handed' = <<>>

-----------------------------------------------------------------------------
Init ==
    /\ expected = 1
    /\ holding = Empty
    /\ gapTimer = FALSE
    /\ gapDetected = FALSE
    /\ handed = <<>>

Next ==
    \/ \E p \in Packet : Inflow(p)
    \/ \E i \in Ids : Bypass(i)
    \/ GapTimeout
    \/ Step
    \/ Clear

Spec == Init /\ [][Next]_vars

\* setTimeout callbacks do run: an armed gap timer that nobody cancels fires.
\* Nothing is assumed of the arrivals, of the stepped clock or of room changes.
FairSpec == Spec /\ WF_vars(GapTimeout)

-----------------------------------------------------------------------------
TypeOK ==
    /\ expected \in 1..(MaxSeq + 1)
    /\ holding \in [Seqs -> Ids \cup {Free}]
    /\ gapTimer \in BOOLEAN
    /\ gapDetected \in BOOLEAN
    /\ handed \in Seq(Entry)

\* Whatever arrives and however gaps are given up, the application sees the
\* numbered packets of a stream in strictly increasing order, hence none twice
\* (drain loop, collapseGap and its re-evaluation of the packet that overflowed).
StrictOrder ==
    \A i, j \in 1..Len(handed) :
        (i < j /\ handed[j].seq # NoSeq) => handed[i].seq < handed[j].seq

\* Everything held lies beyond the number that is expected, so that a later
\* arrival or a collapse can still reach it; a packet at or below it would stay
\* in the queue until the room is left.
HeldIsAhead == \A s \in Held(holding) : s > expected

\* MAX_HOLDING_QUEUE really bounds the memory one sender can make us hold.
HoldBounded == Cardinality(Held(holding)) <= MaxHold

\* A packet once held leaves the queue only by being handed up (or with the
\* whole table, on a room change): no drain, collapse or overflow discards it.
\* The one exception is a second packet with the same number, which replaces it.
HeldIsNotLost ==
    [][ \/ Clear
        \/ \A s \in Held(holding) :
             \/ s \in Held(holding')
             \/ \E k \in 1..Len(handed') :
                   handed'[k] = [seq |-> s, id |-> holding[s]] ]_vars

\* The expected number never moves back and the log only grows, except when the
\* table is cleared.
NoRewind ==
    [][ \/ Clear
        \/ /\ expected' >= expected
           /\ Len(handed') >= Len(handed)
           /\ SubSeq(handed', 1, Len(handed)) = handed ]_vars

\* A timer that runs over held packets stops only with the gap behind: the
\* missing packet came, or the gap was given up, or the room was left.
ArmedGapIsPassed ==
    [][ Clear \/ ((gapTimer /\ ~gapTimer' /\ Held(holding) # {}) => expected' > expected) ]_vars

\* And it does stop, whatever arrives: no gap is waited for for ever.
ArmedGapEnds == []<>(~gapTimer)

\* A stream is handed up in order from a bounded queue that holds only what can
\* still be reached.
InSequence == StrictOrder /\ HeldIsAhead /\ HoldBounded

=============================================================================
