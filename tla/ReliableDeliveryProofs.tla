----------------------- MODULE ReliableDeliveryProofs -----------------------
(***************************************************************************)
(* Proofs about reliable delivery, for every set of messages, every limit  *)
(* and every behaviour of the wire.  The facts about the ordering buffer   *)
(* are those of OrderingBufferProofs, taken from its instance OBP.         *)
(***************************************************************************)
EXTENDS ReliableDelivery, SequenceTheorems, TLAPS

OBP == INSTANCE OrderingBufferProofs

Status == {"none", "delivered", "timeout", "rejected"}

\* The number a packet carries.
Number(i) == IF ordered THEN stamped[i] ELSE 0

(***************************************************************************)
(* The inductive invariant.                                                *)
(*   SenderInv:  types of the sender and PendingIsOpen; no promise is      *)
(*               settled before it is made.                                *)
(*   TakenInv:   an ack under way, and an id in the duplicate filter, is   *)
(*               of a packet the receiver took; this is what makes a       *)
(*               receipt that says "delivered" true.                       *)
(*   BufferInv:  the buffer is in order, and whatever it holds or has      *)
(*               handed up carries the number it was stamped with.         *)
(*   WindowInv:  outside a stream, the duplicate filter remembers exactly  *)
(*               the latest packets handed up, and no gap timer runs.      *)
(***************************************************************************)
SenderInv ==
    /\ ordered \in BOOLEAN
    /\ sending \in BOOLEAN
    /\ used \subseteq Ids
    /\ stamped \in [Ids -> 0..MaxSeq]
    /\ nextSeq \in 1..(MaxSeq + 1)
    /\ ordered => \A i \in used : stamped[i] # 0
    /\ pending \in [Ids -> 0..MaxAttempts]
    /\ receipt \in [Ids -> Status]
    /\ sent \subseteq used
    /\ sent \subseteq Reliable
    /\ \A i \in Ids \ sent : receipt[i] = "none"
    /\ restarts \in 0..MaxRestarts
    /\ PendingIsOpen

TakenInv ==
    /\ wire \subseteq used
    /\ accepted \subseteq used
    /\ acks \subseteq accepted
    /\ acks \subseteq Reliable
    /\ receiving \in BOOLEAN
    /\ seen \in Seq(Ids \cup {Mark}) /\ Len(seen) <= MaxSeen
    /\ history \in Seq(Ids) /\ Len(history) <= MaxHistory
    /\ \A k \in 1..Len(history) : history[k] \in accepted

BufferInv ==
    /\ OBP!Good(holding, expected, handed)
    /\ gapTimer \in BOOLEAN
    /\ gapDetected \in BOOLEAN
    /\ \A x \in OBP!Entries(holding, handed) : x.id \in used /\ x.seq = Number(x.id)

WindowInv ==
    ~ordered =>
        /\ gapTimer = FALSE
        /\ Len(history) = IF Len(handed) > MaxHistory THEN MaxHistory ELSE Len(handed)
        /\ \A k \in 1..Len(history) :
              history[k] = handed[Len(handed) - Len(history) + k].id
        /\ AtMostOnce

IInv == SenderInv /\ TakenInv /\ BufferInv /\ WindowInv

-----------------------------------------------------------------------------
(* The actions of the instances OB and OBP are the same *)

\* OrderingBuffer's assumptions follow from those of this module.
LEMMA BufferAssumptions == OBP!FreeAssumption /\ OBP!BoundsAssumption
  BY IdsAssumption, LimitsAssumption DEF OBP!FreeAssumption, OBP!BoundsAssumption

LEMMA SameOperators ==
  ASSUME NEW h, NEW e
  PROVE  /\ OB!Held(h) = OBP!Held(h)
         /\ OB!RunEnd(h, e) = OBP!RunEnd(h, e)
         /\ OB!Run(h, e) = OBP!Run(h, e)
         /\ OB!Drained(h, e) = OBP!Drained(h, e)
         /\ OB!Lowest(h) = OBP!Lowest(h)
<1>1. OB!Held(h) = OBP!Held(h)
  BY DEF OB!Held, OBP!Held, OB!Seqs, OBP!Seqs
<1>2. OB!RunEnd(h, e) = OBP!RunEnd(h, e)
  BY DEF OB!Held, OBP!Held, OB!Seqs, OBP!Seqs, OB!RunEnd, OBP!RunEnd
<1>3. OB!Run(h, e) = OBP!Run(h, e)
  BY <1>2 DEF OB!Run, OBP!Run
<1>4. OB!Drained(h, e) = OBP!Drained(h, e)
  BY <1>2 DEF OB!Drained, OBP!Drained, OB!Seqs, OBP!Seqs
<1>5. OB!Lowest(h) = OBP!Lowest(h)
  BY DEF OB!Held, OBP!Held, OB!Seqs, OBP!Seqs, OB!Lowest, OBP!Lowest
<1> QED
  BY <1>1, <1>2, <1>3, <1>4, <1>5

LEMMA SameCardinality ==
  ASSUME NEW S
  PROVE  OB!Cardinality(S) = OBP!Cardinality(S)
  BY DEF OB!Cardinality, OBP!Cardinality

LEMMA SameInflow ==
  ASSUME NEW p, OB!Inflow(p)
  PROVE  OBP!Inflow(p)
<1>1. CASE OB!InOrder(p)
  BY <1>1, SameOperators
     DEF OB!InOrder, OBP!InOrder, OB!HandUpAndDrain, OBP!HandUpAndDrain, OBP!Inflow
<1>2. CASE OB!Stale(p)
  BY <1>2 DEF OB!Stale, OBP!Stale, OBP!Inflow, OB!vars, OBP!vars
<1>3. CASE OB!ParkAhead(p)
  BY <1>3, SameOperators, SameCardinality
     DEF OB!ParkAhead, OBP!ParkAhead, OB!Park, OBP!Park, OB!Put, OBP!Put, OBP!Inflow
<1>4. CASE OB!Overflow(p)
  <2> DEFINE low == OBP!Lowest(holding)
             e == OBP!RunEnd(holding, low)
             h == OBP!Drained(holding, low)
             l == handed \o OBP!Run(holding, low)
  <2>1. /\ OB!Held(holding) = OBP!Held(holding)
        /\ OB!Lowest(holding) = low
        /\ OB!RunEnd(holding, low) = e
        /\ OB!Drained(holding, low) = h
        /\ OB!Run(holding, low) = OBP!Run(holding, low)
    BY SameOperators
  <2>2. OB!Cardinality(OB!Held(holding)) = OBP!Cardinality(OBP!Held(holding))
    BY <2>1, SameCardinality
  <2>3. OB!HandUpAndDrain(p, h, e, l) <=> OBP!HandUpAndDrain(p, h, e, l)
    BY SameOperators DEF OB!HandUpAndDrain, OBP!HandUpAndDrain
  <2>4. OB!Park(p, h, e, l) <=> OBP!Park(p, h, e, l)
    BY DEF OB!Park, OBP!Park, OB!Put, OBP!Put
  <2>5. /\ p.seq > expected
        /\ OBP!Cardinality(OBP!Held(holding)) >= MaxHold
        /\ \/ /\ p.seq = e
              /\ OB!HandUpAndDrain(p, h, e, l)
              /\ UNCHANGED <<gapTimer, gapDetected>>
           \/ /\ p.seq < e
              /\ expected' = e /\ holding' = h /\ handed' = l
              /\ UNCHANGED <<gapTimer, gapDetected>>
           \/ p.seq > e /\ OB!Park(p, h, e, l)
    BY <1>4, <2>1, <2>2 DEF OB!Overflow
  <2>6. OBP!Overflow(p)
    BY <2>3, <2>4, <2>5 DEF OBP!Overflow
  <2> QED
    BY <2>6 DEF OBP!Inflow
<1> QED
  BY <1>1, <1>2, <1>3, <1>4 DEF OB!Inflow

LEMMA SameCollapse == OB!CollapseGap => OBP!CollapseGap
  BY SameOperators DEF OB!CollapseGap, OBP!CollapseGap

-----------------------------------------------------------------------------
(* The windows *)

LEMMA SlideProperty ==
  ASSUME NEW S, NEW w \in Seq(S), NEW x \in Seq(S), NEW max \in Nat
  PROVE  /\ Slide(w, x, max) \in Seq(S)
         /\ Len(Slide(w, x, max)) = IF Len(w) + Len(x) > max THEN max ELSE Len(w) + Len(x)
         /\ \A k \in 1..Len(Slide(w, x, max)) :
               Slide(w, x, max)[k] = (w \o x)[Len(w) + Len(x) - Len(Slide(w, x, max)) + k]
<1> DEFINE v == w \o x
           n == Len(v)
<1>1. v \in Seq(S) /\ n = Len(w) + Len(x) /\ n \in Nat
  BY ConcatProperties, LenProperties
<1> HIDE DEF v
<1>2. CASE n > max
  <2>1. Slide(w, x, max) = SubSeq(v, n - max + 1, n)
    BY <1>2 DEF Slide, v
  <2>2. \A i \in (n - max + 1)..n : v[i] \in S
    BY <1>1, <1>2, ElementOfSeq
  <2>3. /\ SubSeq(v, n - max + 1, n) \in Seq(S)
        /\ Len(SubSeq(v, n - max + 1, n)) =
              IF n - max + 1 <= n THEN n - (n - max + 1) + 1 ELSE 0
        /\ \A i \in 1..(n - (n - max + 1) + 1) :
              SubSeq(v, n - max + 1, n)[i] = v[(n - max + 1) + i - 1]
    <3>1. n - max + 1 \in Int /\ n \in Int
      BY <1>1
    <3> HIDE DEF n
    <3> QED
      BY <3>1, <2>2, SubSeqProperties
  <2>4. Len(Slide(w, x, max)) = max
    BY <2>1, <2>3, <1>1
  <2>5. \A k \in 1..max : Slide(w, x, max)[k] = v[n - max + k]
    BY <2>1, <2>3, <1>1
  <2> QED
    BY <1>1, <1>2, <2>1, <2>3, <2>4, <2>5 DEF v
<1>3. CASE ~(n > max)
  <2>1. Slide(w, x, max) = v
    BY <1>3 DEF Slide, v
  <2>2. Len(Slide(w, x, max)) = n
    BY <2>1
  <2>3. \A k \in 1..n : Len(w) + Len(x) - n + k = k
    BY <1>1
  <2>4. Slide(w, x, max) = w \o x
    BY <2>1 DEF v
  <2>5. ASSUME NEW k \in 1..Len(Slide(w, x, max))
        PROVE  Slide(w, x, max)[k] = (w \o x)[Len(w) + Len(x) - Len(Slide(w, x, max)) + k]
    BY <2>2, <2>3, <2>4
  <2>6. Slide(w, x, max) \in Seq(S)
    BY <2>1, <1>1
  <2>7. Len(Slide(w, x, max)) = IF Len(w) + Len(x) > max THEN max ELSE Len(w) + Len(x)
    BY <2>2, <1>1, <1>3
  <2> QED
    BY <2>5, <2>6, <2>7
<1> QED
  BY <1>2, <1>3

\* The case of one new entry.
LEMMA SlideOne ==
  ASSUME NEW S, NEW w \in Seq(S), NEW i \in S, NEW max \in Nat \ {0}
  PROVE  LET z == Slide(w, <<i>>, max)
         IN  /\ Len(z) = IF Len(w) + 1 > max THEN max ELSE Len(w) + 1
             /\ \A k \in 1..Len(z) :
                   z[k] = IF k = Len(z) THEN i ELSE w[Len(w) + 1 - Len(z) + k]
<1> DEFINE v == Append(w, i)
           n == Len(w) + 1
           z == Slide(w, <<i>>, max)
<1>1. /\ v \in Seq(S) /\ Len(v) = n /\ n \in Nat /\ Len(w) \in Nat
      /\ \A k \in 1..Len(w) : v[k] = w[k]
      /\ v[n] = i
  BY AppendProperties, LenProperties
<1>2. z = IF n > max THEN SubSeq(v, n - max + 1, n) ELSE v
  <2>1. w \o <<i>> = v
    BY AppendIsConcat
  <2> QED
    BY <2>1, <1>1 DEF Slide
<1>0. n \in Nat
  BY <1>1
<1> HIDE DEF v, n, z
<1>3. ASSUME n > max
      PROVE  /\ Len(z) = IF Len(w) + 1 > max THEN max ELSE Len(w) + 1
             /\ \A k \in 1..Len(z) :
                   z[k] = IF k = Len(z) THEN i ELSE w[Len(w) + 1 - Len(z) + k]
  <2> DEFINE q == n - max + 1
  <2>1. \A k \in q..n : v[k] \in S
    BY <1>1, <1>3, ElementOfSeq
  <2>2. /\ q \in Int /\ n \in Int
        /\ n - q + 1 = max /\ q <= n
        /\ q = Len(w) + 2 - max
    BY <1>0, <1>1, <1>3 DEF n
  <2>3. z = SubSeq(v, q, n)
    BY <1>2, <1>3
  <2> HIDE DEF q
  <2>4. /\ Len(SubSeq(v, q, n)) = IF q <= n THEN n - q + 1 ELSE 0
        /\ \A k \in 1..(n - q + 1) : SubSeq(v, q, n)[k] = v[q + k - 1]
    BY <2>1, <2>2, SubSeqProperties
  <2>5. Len(z) = max
    BY <2>2, <2>3, <2>4
  <2>6. ASSUME NEW k \in 1..max
        PROVE  z[k] = IF k = max THEN i ELSE w[Len(w) + 1 - max + k]
    <3>1. z[k] = v[q + k - 1]
      BY <2>2, <2>3, <2>4
    <3>2. CASE k = max
      <4>1. q + k - 1 = n
        BY <2>2, <3>2
      <4> QED
        BY <4>1, <3>1, <3>2, <1>1
    <3>3. CASE k # max
      <4>1. q + k - 1 = Len(w) + 1 - max + k /\ q + k - 1 \in 1..Len(w)
        BY <1>1, <1>3, <2>2, <3>3 DEF n
      <4> QED
        BY <4>1, <3>1, <3>3, <1>1
    <3> QED
      BY <3>2, <3>3
  <2>7. Len(w) + 1 > max
    BY <1>3 DEF n
  <2> QED
    BY <2>5, <2>6, <2>7
<1>4. ASSUME ~(n > max)
      PROVE  /\ Len(z) = IF Len(w) + 1 > max THEN max ELSE Len(w) + 1
             /\ \A k \in 1..Len(z) :
                   z[k] = IF k = Len(z) THEN i ELSE w[Len(w) + 1 - Len(z) + k]
  <2>1. z = v
    BY <1>2, <1>4
  <2>2. Len(z) = n
    BY <1>1, <2>1
  <2>3. ASSUME NEW k \in 1..n
        PROVE  z[k] = IF k = n THEN i ELSE w[n - n + k]
    <3>1. k # n => k \in 1..Len(w) /\ n - n + k = k
      BY <1>1 DEF n
    <3> QED
      BY <3>1, <2>1, <1>1
  <2>4. ASSUME NEW k \in 1..n
        PROVE  z[k] = IF k = n THEN i ELSE w[Len(w) + 1 - n + k]
    BY <2>3 DEF n
  <2>5. ~(Len(w) + 1 > max) /\ n = Len(w) + 1
    BY <1>4 DEF n
  <2> QED
    BY <2>2, <2>4, <2>5
<1> QED
  BY <1>3, <1>4 DEF z

LEMMA SlideRange ==
  ASSUME NEW S, NEW w \in Seq(S), NEW x \in Seq(S), NEW max \in Nat,
         NEW k \in 1..Len(Slide(w, x, max))
  PROVE  \/ \E j \in 1..Len(w) : Slide(w, x, max)[k] = w[j]
         \/ \E j \in 1..Len(x) : Slide(w, x, max)[k] = x[j]
<1> DEFINE n == Len(Slide(w, x, max))
           m == Len(w) + Len(x) - n + k
<1>1. /\ Len(w) \in Nat /\ Len(x) \in Nat
      /\ n = IF Len(w) + Len(x) > max THEN max ELSE Len(w) + Len(x)
      /\ Slide(w, x, max)[k] = (w \o x)[m]
  BY SlideProperty, LenProperties
<1>2. m \in 1..(Len(w) + Len(x))
  BY <1>1
<1>3. (w \o x)[m] = IF m <= Len(w) THEN w[m] ELSE x[m - Len(w)]
  BY <1>2, ConcatProperties
<1>4. Len(w) \in Nat /\ Len(x) \in Nat
  BY <1>1
<1>5. /\ m <= Len(w) => m \in 1..Len(w)
      /\ ~(m <= Len(w)) => m - Len(w) \in 1..Len(x)
  <2> HIDE DEF m
  <2> QED
    BY <1>2, <1>4
<1> QED
  BY <1>1, <1>3, <1>4, <1>5

-----------------------------------------------------------------------------
(* The actions of the sender leave the receiver alone *)

LEMMA SenderStep ==
  ASSUME SenderInv, ordered' = ordered, NEW i \in Ids,
         \/ Send(i) \/ RetryTimer(i) \/ ReceiveAck(i)
         \/ \E reason \in {"BUFFER_OVERFLOW", "INVALID"} : ReceiveNack(i, reason)
  PROVE  SenderInv'
<1> USE LimitsAssumption, IdsAssumption
<1>0. PendingIsOpen
  BY DEF SenderInv
<1>1. CASE Send(i)
  <2>1. i \notin sent /\ pending[i] = 0 /\ i \notin used
    BY <1>1, <1>0 DEF Send, Refuse, PendingIsOpen, SenderInv
  <2>2. PendingIsOpen'
    <3>1. /\ sent' = IF i \in Reliable THEN sent \cup {i} ELSE sent
          /\ \/ i \notin Reliable /\ pending' = pending /\ receipt' = receipt
             \/ /\ i \in Reliable
                /\ pending' = pending
                /\ receipt' = [receipt EXCEPT ![i] = "rejected"]
             \/ /\ i \in Reliable
                /\ pending' = [pending EXCEPT ![i] = 1]
                /\ receipt' = receipt
      BY <1>1 DEF Send, Refuse
    <3>2. receipt[i] = "none"
      BY <2>1 DEF SenderInv
    <3> QED
      BY <3>1, <3>2, <2>1, <1>0 DEF PendingIsOpen, SenderInv
  <2>3. /\ stamped' \in [Ids -> 0..MaxSeq]
        /\ nextSeq' \in 1..(MaxSeq + 1)
        /\ ordered => \A j \in used' : stamped'[j] # 0
    BY <2>1, <1>1 DEF Send, Refuse, SenderInv
  <2>4. /\ used' \subseteq Ids /\ sent' \subseteq used' /\ sent' \subseteq Reliable
        /\ pending' \in [Ids -> 0..MaxAttempts]
        /\ receipt' \in [Ids -> Status]
        /\ \A j \in Ids \ sent' : receipt'[j] = "none"
    BY <1>1 DEF Send, Refuse, SenderInv, Status
  <2> QED
    BY <2>2, <2>3, <2>4, <1>1 DEF Send, Refuse, SenderInv
<1>2. CASE RetryTimer(i)
  <2>1. PendingIsOpen'
    BY <1>0, <1>2 DEF RetryTimer, Resolve, PendingIsOpen, SenderInv, Status
  <2>2. /\ pending' \in [Ids -> 0..MaxAttempts]
        /\ receipt' \in [Ids -> Status]
        /\ \A j \in Ids \ sent' : receipt'[j] = "none"
    BY <1>0, <1>2 DEF RetryTimer, Resolve, PendingIsOpen, SenderInv, Status
  <2> QED
    BY <2>1, <2>2, <1>2 DEF RetryTimer, SenderInv
<1>3. CASE ReceiveAck(i)
  <2>1. PendingIsOpen'
    BY <1>0, <1>3 DEF ReceiveAck, Resolve, PendingIsOpen, SenderInv, Status
  <2>2. /\ pending' \in [Ids -> 0..MaxAttempts]
        /\ receipt' \in [Ids -> Status]
        /\ \A j \in Ids \ sent' : receipt'[j] = "none"
    BY <1>0, <1>3 DEF ReceiveAck, Resolve, PendingIsOpen, SenderInv, Status
  <2> QED
    BY <2>1, <2>2, <1>3 DEF ReceiveAck, SenderInv
<1>4. ASSUME NEW reason \in {"BUFFER_OVERFLOW", "INVALID"}, ReceiveNack(i, reason)
      PROVE  SenderInv'
  <2>1. PendingIsOpen'
    BY <1>0, <1>4 DEF ReceiveNack, Resolve, PendingIsOpen, SenderInv, Status
  <2>2. /\ pending' \in [Ids -> 0..MaxAttempts]
        /\ receipt' \in [Ids -> Status]
        /\ \A j \in Ids \ sent' : receipt'[j] = "none"
    BY <1>0, <1>4 DEF ReceiveNack, Resolve, PendingIsOpen, SenderInv, Status
  <2> QED
    BY <2>1, <2>2, <1>4 DEF ReceiveNack, SenderInv
<1> QED
  BY <1>1, <1>2, <1>3, <1>4

LEMMA SenderRoomStep ==
  ASSUME SenderInv, ordered' = ordered, SenderLeave \/ SenderInit \/ ForgetPeer
  PROVE  SenderInv'
<1> USE LimitsAssumption
<1>0. PendingIsOpen
  BY DEF SenderInv
<1>1. CASE SenderLeave
  <2>1. PendingIsOpen'
    BY <1>0, <1>1 DEF SenderLeave, PendingIsOpen, SenderInv, Status
  <2>2. pending' \in [Ids -> 0..MaxAttempts] /\ receipt' \in [Ids -> Status]
    BY <1>1 DEF SenderLeave, SenderInv, Status
  <2>3. \A j \in Ids \ sent' : receipt'[j] = "none"
    BY <1>0, <1>1 DEF SenderLeave, PendingIsOpen, SenderInv
  <2>4. /\ sending' = FALSE /\ used' = used /\ stamped' = stamped /\ sent' = sent
        /\ nextSeq' \in 1..(MaxSeq + 1)
        /\ restarts' \in 0..MaxRestarts
    BY <1>1 DEF SenderLeave, SenderInv
  <2> QED
    BY <2>1, <2>2, <2>3, <2>4 DEF SenderInv
<1>2. CASE SenderInit
  BY <1>2 DEF SenderInit, SenderInv, PendingIsOpen
<1>3. CASE ForgetPeer
  BY <1>3 DEF ForgetPeer, SenderInv, PendingIsOpen
<1> QED
  BY <1>1, <1>2, <1>3

\* What the sender's side may do to what the receiver's invariants speak of:
\* new packets on the wire, acks lost, new identities stamped.
SenderSide ==
    /\ UNCHANGED <<receiverVars, bufferVars>>
    /\ used \subseteq used'
    /\ wire' \subseteq used'
    /\ acks' \subseteq acks
    /\ \A i \in used : stamped'[i] = stamped[i]

LEMMA SenderActions ==
  ASSUME IInv,
         \/ \E i \in Ids : Send(i) \/ RetryTimer(i) \/ ReceiveAck(i) \/ Lose(i)
         \/ \E i \in Ids : \E reason \in {"BUFFER_OVERFLOW", "INVALID"} :
                ReceiveNack(i, reason)
         \/ SenderLeave \/ SenderInit \/ ForgetPeer
  PROVE  SenderSide
<1>0. SenderInv /\ TakenInv
  BY DEF IInv
<1>1. ASSUME NEW i \in Ids, Send(i) PROVE SenderSide
  BY <1>0, <1>1 DEF Send, Refuse, SenderSide, SenderInv, TakenInv
<1>2. ASSUME NEW i \in Ids, RetryTimer(i) PROVE SenderSide
  <2>1. i \in used
    BY <1>0, <1>2, LimitsAssumption DEF RetryTimer, SenderInv, PendingIsOpen
  <2> QED
    BY <2>1, <1>0, <1>2 DEF RetryTimer, SenderSide, TakenInv
<1>3. ASSUME NEW i \in Ids, ReceiveAck(i) PROVE SenderSide
  BY <1>0, <1>3 DEF ReceiveAck, SenderSide, TakenInv
<1>4. ASSUME NEW i \in Ids, Lose(i) PROVE SenderSide
  BY <1>0, <1>4 DEF Lose, SenderSide, TakenInv, senderVars
<1>5. ASSUME NEW i \in Ids, NEW reason \in {"BUFFER_OVERFLOW", "INVALID"}, ReceiveNack(i, reason)
      PROVE  SenderSide
  BY <1>0, <1>5 DEF ReceiveNack, SenderSide, TakenInv
<1>6. CASE SenderLeave \/ SenderInit \/ ForgetPeer
  BY <1>0, <1>6 DEF SenderLeave, SenderInit, ForgetPeer, SenderSide, TakenInv
<1> QED
  BY <1>1, <1>2, <1>3, <1>4, <1>5, <1>6

LEMMA SenderSideKeeps ==
  ASSUME IInv, ordered' = ordered, SenderSide
  PROVE  TakenInv' /\ BufferInv' /\ WindowInv'
<1>1. TakenInv'
  BY DEF IInv, TakenInv, SenderSide, receiverVars
<1>2. BufferInv'
  <2>1. /\ expected' = expected /\ holding' = holding /\ handed' = handed
        /\ gapTimer' = gapTimer /\ gapDetected' = gapDetected
    BY DEF SenderSide, bufferVars
  <2>2. \A i \in used : Number(i)' = Number(i)
    BY DEF SenderSide, Number
  <2> QED
    BY <2>1, <2>2 DEF IInv, BufferInv, SenderSide
<1>3. WindowInv'
  BY DEF IInv, WindowInv, AtMostOnce, SenderSide, receiverVars, bufferVars
<1> QED
  BY <1>1, <1>2, <1>3

-----------------------------------------------------------------------------
(* The actions of the receiver *)

Receiving == \/ \E i \in Ids : Receive(i)
             \/ GapTimeout \/ ReceiverLeave \/ ReceiverInit

LEMMA ReceivingKeepsSender ==
  ASSUME SenderInv, ordered' = ordered, Receiving
  PROVE  SenderInv'
<1> USE LimitsAssumption
<1>1. /\ sending' = sending /\ used' = used /\ stamped' = stamped /\ nextSeq' = nextSeq
      /\ pending' = pending /\ sent' = sent /\ receipt' = receipt
  BY DEF Receiving, Receive, RouterDrop, OutOfRoom, Duplicate, Fresh, GapTimeout,
         ReceiverLeave, ReceiverInit, senderVars
<1>2. restarts' = restarts \/ (restarts < MaxRestarts /\ restarts' = restarts + 1)
  BY DEF Receiving, Receive, RouterDrop, OutOfRoom, Duplicate, Fresh, GapTimeout,
         ReceiverLeave, ReceiverInit
<1>3. restarts' \in 0..MaxRestarts
  BY <1>2 DEF SenderInv
<1> QED
  BY <1>1, <1>3 DEF SenderInv, PendingIsOpen

\* What a window slides in is remembered, and it stays a window.
LEMMA SlideWindow ==
  ASSUME NEW S, NEW w \in Seq(S), NEW x \in Seq(S), NEW max \in Nat
  PROVE  Slide(w, x, max) \in Seq(S) /\ Len(Slide(w, x, max)) <= max
<1>1. Len(w) \in Nat /\ Len(x) \in Nat
  BY LenProperties
<1>2. Len(Slide(w, x, max)) = IF Len(w) + Len(x) > max THEN max ELSE Len(w) + Len(x)
  BY SlideProperty
<1>3. Len(Slide(w, x, max)) <= max
  BY <1>1, <1>2
<1> QED
  BY <1>3, SlideProperty

LEMMA SeenWindow ==
  ASSUME TakenInv, NEW i \in Ids
  PROVE  /\ \A x \in Seq(Ids \cup {Mark}) :
               /\ Slide(seen, x, MaxSeen) \in Seq(Ids \cup {Mark})
               /\ Len(Slide(seen, x, MaxSeen)) <= MaxSeen
         /\ <<i>> \in Seq(Ids \cup {Mark})
         /\ AckMark(i) \in Seq(Ids \cup {Mark})
         /\ <<i>> \o AckMark(i) \in Seq(Ids \cup {Mark})
         /\ <<i>> \o AckMark(i) \o <<Mark>> \in Seq(Ids \cup {Mark})
         /\ <<i>> \o AckMark(i) \o <<>> \in Seq(Ids \cup {Mark})
<1>1. <<i>> \in Seq(Ids \cup {Mark}) /\ <<Mark>> \in Seq(Ids \cup {Mark})
      /\ <<>> \in Seq(Ids \cup {Mark})
  OBVIOUS
<1>2. AckMark(i) \in Seq(Ids \cup {Mark})
  BY <1>1 DEF AckMark
<1>3. <<i>> \o AckMark(i) \in Seq(Ids \cup {Mark})
  BY <1>1, <1>2, ConcatProperties
<1>4. /\ <<i>> \o AckMark(i) \o <<Mark>> \in Seq(Ids \cup {Mark})
      /\ <<i>> \o AckMark(i) \o <<>> \in Seq(Ids \cup {Mark})
  BY <1>1, <1>3, ConcatProperties
<1>5. \A x \in Seq(Ids \cup {Mark}) :
         /\ Slide(seen, x, MaxSeen) \in Seq(Ids \cup {Mark})
         /\ Len(Slide(seen, x, MaxSeen)) <= MaxSeen
  BY SlideWindow, LimitsAssumption DEF TakenInv
<1> QED
  BY <1>1, <1>2, <1>3, <1>4, <1>5

LEMMA ReceiveKeepsTaken ==
  ASSUME IInv, NEW i \in Ids, Receive(i)
  PROVE  TakenInv'
<1> USE LimitsAssumption
<1>0. TakenInv
  BY DEF IInv
<1>1. /\ i \in used /\ used' = used /\ wire' \subseteq wire
  BY <1>0 DEF Receive, RouterDrop, OutOfRoom, Duplicate, Fresh, Arrives, senderVars, TakenInv
<1>2. CASE RouterDrop(i)
  BY <1>0, <1>1, <1>2 DEF RouterDrop, TakenInv, receiverVars
<1>3. CASE OutOfRoom(i)
  <2>1. seen' \in Seq(Ids \cup {Mark}) /\ Len(seen') <= MaxSeen
    BY <1>0, <1>3, SeenWindow DEF OutOfRoom
  <2> QED
    BY <2>1, <1>0, <1>1, <1>3 DEF OutOfRoom, TakenInv
<1>4. CASE Duplicate(i)
  <2>1. seen' \in Seq(Ids \cup {Mark}) /\ Len(seen') <= MaxSeen
    BY <1>0, <1>4, SeenWindow DEF Duplicate
  <2>2. i \in accepted
    BY <1>0, <1>4 DEF Duplicate, InRange, TakenInv
  <2>3. acks' \subseteq accepted /\ acks' \subseteq Reliable
    BY <2>2, <1>0, <1>4 DEF Duplicate, SendAck, TakenInv
  <2> QED
    BY <2>1, <2>3, <1>0, <1>1, <1>4 DEF Duplicate, TakenInv
<1>5. CASE Fresh(i)
  <2>1. seen' \in Seq(Ids \cup {Mark}) /\ Len(seen') <= MaxSeen
    <3>1. \/ seen' = Slide(seen, <<i>> \o AckMark(i) \o <<Mark>>, MaxSeen)
          \/ seen' = Slide(seen, <<i>> \o AckMark(i) \o <<>>, MaxSeen)
      BY <1>5 DEF Fresh
    <3> QED
      BY <3>1, <1>0, SeenWindow
  <2>2. /\ accepted' = accepted \cup {i}
        /\ receiving' = receiving
        /\ history' = Slide(history, <<i>>, MaxHistory)
        /\ SendAck(i)
    BY <1>5 DEF Fresh
  <2>3. acks' \subseteq accepted' /\ acks' \subseteq Reliable
    BY <2>2, <1>0 DEF SendAck, TakenInv
  <2>4. history \in Seq(Ids) /\ <<i>> \in Seq(Ids) /\ MaxHistory \in Nat
    BY <1>0 DEF TakenInv
  <2>5. history' \in Seq(Ids) /\ Len(history') <= MaxHistory
    BY <2>2, <2>4, SlideWindow
  <2>6. ASSUME NEW k \in 1..Len(history')
        PROVE  history'[k] \in accepted'
    <3> DEFINE x == <<i>>
    <3>1. x \in Seq(Ids) /\ Len(x) = 1 /\ x[1] = i
      BY <2>4
    <3> HIDE DEF x
    <3>2. history' = Slide(history, x, MaxHistory)
      BY <2>2 DEF x
    <3>3. \/ \E j \in 1..Len(history) : history'[k] = history[j]
          \/ \E j \in 1..Len(x) : history'[k] = x[j]
      BY <3>1, <3>2, <2>4, <2>6, SlideRange
    <3> QED
      BY <3>1, <3>3, <2>2, <1>0 DEF TakenInv
  <2>7. wire' \subseteq used' /\ accepted' \subseteq used'
    BY <2>2, <1>0, <1>1 DEF TakenInv
  <2> QED
    BY <2>1, <2>2, <2>3, <2>5, <2>6, <2>7, <1>0 DEF TakenInv
<1> QED
  BY <1>2, <1>3, <1>4, <1>5 DEF Receive

LEMMA RoomKeepsTaken ==
  ASSUME TakenInv, GapTimeout \/ ReceiverLeave \/ ReceiverInit
  PROVE  TakenInv'
<1> USE LimitsAssumption
<1>1. <<>> \in Seq(Ids \cup {Mark}) /\ <<>> \in Seq(Ids) /\ Len(<<>>) = 0
  BY EmptySeq
<1>2. CASE GapTimeout
  BY <1>2 DEF GapTimeout, TakenInv, senderVars, receiverVars
<1>3. CASE ReceiverLeave
  <2>1. /\ used' = used /\ wire' = wire /\ acks' = acks /\ accepted' = accepted
        /\ receiving' = FALSE /\ seen' = <<>> /\ history' = <<>>
    BY <1>3 DEF ReceiverLeave, senderVars
  <2>2. /\ seen' \in Seq(Ids \cup {Mark}) /\ Len(seen') <= MaxSeen
        /\ history' \in Seq(Ids) /\ Len(history') <= MaxHistory
    BY <2>1, <1>1
  <2>3. \A k \in 1..Len(history') : history'[k] \in accepted'
    BY <2>1, <1>1
  <2> QED
    BY <2>1, <2>2, <2>3 DEF TakenInv
<1>4. CASE ReceiverInit
  BY <1>1, <1>4 DEF ReceiverInit, TakenInv, senderVars
<1> QED
  BY <1>2, <1>3, <1>4

\* A buffer that was just cleared is good, and has no entries.
LEMMA EmptyBuffer ==
  OBP!Good(OBP!Empty, 1, <<>>) /\ OBP!Entries(OBP!Empty, <<>>) = {}
<1> USE BufferAssumptions DEF OBP!FreeAssumption, OBP!BoundsAssumption
<1>1. OBP!Held(OBP!Empty) = {}
  BY DEF OBP!Held, OBP!Empty
<1>2. OBP!Empty \in OBP!Queue
  BY DEF OBP!Empty, OBP!Queue
<1>3. <<>> \in Seq(OBP!Entry) /\ Len(<<>>) = 0
  BY EmptySeq
<1>4. OBP!Increasing(<<>>) /\ OBP!Below(<<>>, 1)
  BY <1>3 DEF OBP!Increasing, OBP!Below
<1>5. 1 \in 1..(MaxSeq + 1)
  OBVIOUS
<1>6. OBP!Good(OBP!Empty, 1, <<>>)
  BY <1>1, <1>2, <1>3, <1>4, <1>5 DEF OBP!Good
<1>7. OBP!Entries(OBP!Empty, <<>>) = {}
  BY <1>1, <1>3 DEF OBP!Entries, OBP!HeldEntries, OBP!LogEntries
<1> QED
  BY <1>6, <1>7

\* The buffer stays in order, and holds only what was stamped.
LEMMA FreshKeepsBuffer ==
  ASSUME IInv, ordered' = ordered, NEW i \in Ids, Fresh(i)
  PROVE  BufferInv'
<1> USE LimitsAssumption
<1> DEFINE p == [seq |-> stamped[i], id |-> i]
<1>0. SenderInv /\ TakenInv /\ BufferInv
  BY DEF IInv
<1>1. /\ i \in used /\ used' = used
      /\ \A j \in Ids : Number(j)' = Number(j)
  BY <1>0 DEF Fresh, Arrives, senderVars, TakenInv, Number
<1>2. CASE ordered
  <2>1. p \in OBP!Packet /\ p.id = i /\ p.seq = Number(i)
    BY <1>0, <1>1, <1>2 DEF SenderInv, OBP!Packet, OBP!Seqs, Number
  <2>2. OB!Inflow(p)
    BY <1>2 DEF Fresh
  <2> HIDE DEF p
  <2>3. OBP!Inflow(p)
    BY <2>2, SameInflow
  <2>4. /\ OBP!Good(holding', expected', handed')
        /\ OBP!Entries(holding', handed') \subseteq OBP!Entries(holding, handed) \cup {p}
    BY <2>1, <2>3, <1>0, BufferAssumptions, OBP!InflowGood, OBP!InflowEntries DEF BufferInv
  <2>5. gapTimer' \in BOOLEAN /\ gapDetected' \in BOOLEAN
    BY <2>3, <1>0
       DEF BufferInv, OBP!Inflow, OBP!InOrder, OBP!Stale, OBP!ParkAhead, OBP!Overflow,
           OBP!Park, OBP!vars
  <2>6. \A x \in OBP!Entries(holding', handed') : x.id \in used' /\ x.seq = Number(x.id)'
    BY <2>1, <2>4, <1>0, <1>1 DEF BufferInv, SenderInv
  <2> QED
    BY <2>4, <2>5, <2>6 DEF BufferInv
<1>3. CASE ~ordered
  <2> DEFINE y == [seq |-> 0, id |-> i]
  <2>1. OB!Bypass(i)
    BY <1>3 DEF Fresh
  <2>2. OBP!Bypass(i)
    BY <2>1 DEF OB!Bypass, OBP!Bypass, OB!NoSeq, OBP!NoSeq
  <2>3. y \in OBP!Entry /\ y.id = i /\ y.seq = Number(i)
    BY <1>3 DEF OBP!Entry, OBP!NoSeq, Number
  <2>4. /\ holding' = holding /\ expected' = expected
        /\ gapTimer' = gapTimer /\ gapDetected' = gapDetected
        /\ handed' = Append(handed, y)
    BY <2>2 DEF OBP!Bypass, OBP!NoSeq
  <2> HIDE DEF y
  <2>5. OBP!Good(holding', expected', handed')
    BY <2>2, <1>0, BufferAssumptions, OBP!BypassGood DEF BufferInv
  <2>6. OBP!LogEntries(handed') \subseteq OBP!LogEntries(handed) \cup {y}
    <3>1. handed \in Seq(OBP!Entry)
      BY <1>0 DEF BufferInv, OBP!Good
    <3> QED
      BY <2>3, <2>4, <3>1, BufferAssumptions, OBP!AppendEntries
  <2>7. \A x \in OBP!Entries(holding', handed') : x.id \in used' /\ x.seq = Number(x.id)'
    <3>1. OBP!Entries(holding', handed') \subseteq OBP!Entries(holding, handed) \cup {y}
      BY <2>4, <2>6 DEF OBP!Entries
    <3> QED
      BY <3>1, <2>3, <1>0, <1>1 DEF BufferInv, SenderInv
  <2> QED
    BY <2>4, <2>5, <2>7, <1>0 DEF BufferInv
<1> QED
  BY <1>2, <1>3

LEMMA ReceivingKeepsBuffer ==
  ASSUME IInv, ordered' = ordered, Receiving
  PROVE  BufferInv'
<1> USE LimitsAssumption
<1>0. SenderInv /\ TakenInv /\ BufferInv
  BY DEF IInv
<1>1. ASSUME NEW i \in Ids, Fresh(i) PROVE BufferInv'
  BY <1>1, FreshKeepsBuffer
<1>2. used' = used /\ stamped' = stamped
  BY DEF Receiving, Receive, RouterDrop, OutOfRoom, Duplicate, Fresh, GapTimeout,
         ReceiverLeave, ReceiverInit, senderVars
<1>3. \A i \in Ids : Number(i)' = Number(i)
  BY <1>2 DEF Number
<1>4. ASSUME UNCHANGED bufferVars PROVE BufferInv'
  BY <1>0, <1>2, <1>3, <1>4 DEF BufferInv, SenderInv, bufferVars
<1>5. ASSUME NEW i \in Ids, RouterDrop(i) \/ OutOfRoom(i) \/ Duplicate(i) PROVE BufferInv'
  BY <1>4, <1>5 DEF RouterDrop, OutOfRoom, Duplicate
<1>6. CASE GapTimeout
  <2>1. OBP!CollapseGap /\ gapTimer' = FALSE /\ gapDetected' = gapDetected
    BY <1>6, SameCollapse DEF GapTimeout, OB!GapTimeout
  <2>2. /\ OBP!Good(holding', expected', handed')
        /\ OBP!Entries(holding', handed') \subseteq OBP!Entries(holding, handed)
    BY <2>1, <1>0, BufferAssumptions, OBP!CollapseGapGood, OBP!CollapseGapEntries DEF BufferInv
  <2> QED
    BY <2>1, <2>2, <1>0, <1>2, <1>3 DEF BufferInv, SenderInv
<1>7. CASE ReceiverLeave
  BY <1>7, EmptyBuffer DEF ReceiverLeave, OB!Clear, OB!Empty, OBP!Empty, OB!Seqs, OBP!Seqs, BufferInv
<1>8. CASE ReceiverInit
  BY <1>4, <1>8 DEF ReceiverInit
<1> QED
  BY <1>1, <1>5, <1>6, <1>7, <1>8 DEF Receiving, Receive

\* The filter forgets the oldest packet handed up when it takes a new one, and
\* the new one is none of those it remembers.
LEMMA FreshKeepsWindow ==
  ASSUME IInv, ordered' = ordered, NEW i \in Ids, Fresh(i), ~ordered
  PROVE  WindowInv'
<1> USE LimitsAssumption
<1> DEFINE n == Len(handed)
           h == Len(history)
           y == [seq |-> 0, id |-> i]
<1>1. /\ gapTimer = FALSE
      /\ n \in Nat /\ h \in Nat
      /\ h = IF n > MaxHistory THEN MaxHistory ELSE n
      /\ \A k \in 1..h : history[k] = handed[n - h + k].id
      /\ AtMostOnce
      /\ history \in Seq(Ids)
      /\ handed \in Seq(OBP!Entry)
  <2>1. history \in Seq(Ids) /\ handed \in Seq(OBP!Entry)
    BY DEF IInv, TakenInv, BufferInv, OBP!Good
  <2>2. h \in Nat /\ n \in Nat
    BY <2>1, LenProperties
  <2> QED
    BY <2>1, <2>2 DEF IInv, WindowInv
<1>2. /\ \A k \in 1..h : history[k] # i
      /\ history' = Slide(history, <<i>>, MaxHistory)
      /\ gapTimer' = gapTimer
      /\ handed' = Append(handed, y)
  BY DEF Fresh, InRange, OB!Bypass, OB!NoSeq
<1>4. y.id = i /\ y \in OBP!Entry
  BY DEF OBP!Entry, OBP!NoSeq
<1> HIDE DEF y
<1>5. /\ Len(handed') = n + 1
      /\ \A k \in 1..n : handed'[k] = handed[k]
      /\ handed'[n + 1] = y
  BY <1>1, <1>2, <1>4, AppendProperties
<1>6. /\ Len(history') = IF h + 1 > MaxHistory THEN MaxHistory ELSE h + 1
      /\ \A k \in 1..Len(history') :
            history'[k] = IF k = Len(history') THEN i ELSE history[h + 1 - Len(history') + k]
  <2>1. history \in Seq(Ids) /\ MaxHistory \in Nat \ {0}
    BY <1>1
  <2> DEFINE z == Slide(history, <<i>>, MaxHistory)
  <2>2. /\ Len(z) = IF Len(history) + 1 > MaxHistory THEN MaxHistory ELSE Len(history) + 1
        /\ \A k \in 1..Len(z) :
              z[k] = IF k = Len(z) THEN i ELSE history[Len(history) + 1 - Len(z) + k]
    BY <2>1, SlideOne
  <2> QED
    BY <2>2, <1>2
<1> HIDE DEF n, h
<1>8. Len(history') = IF n + 1 > MaxHistory THEN MaxHistory ELSE n + 1
  BY <1>1, <1>6
<1>9. ASSUME NEW k \in 1..Len(history')
      PROVE  history'[k] = handed'[n + 1 - Len(history') + k].id
  <2> DEFINE m == h + 1 - Len(history') + k
  <2>1. Len(history') \in Nat
    BY <1>1, <1>8
  <2>3. CASE k # Len(history')
    <3>1. n - h + m \in 1..n /\ n - h + m = n + 1 - Len(history') + k /\ m \in 1..h
      BY <2>1, <2>3, <1>1, <1>8
    <3>2. history[m] = handed[n - h + m].id
      BY <3>1, <1>1
    <3> QED
      BY <3>1, <3>2, <2>3, <1>5, <1>6
  <2>4. CASE k = Len(history')
    <3>1. n + 1 - Len(history') + k = n + 1
      BY <2>1, <2>4, <1>1
    <3> QED
      BY <3>1, <2>4, <1>4, <1>5, <1>6
  <2> QED
    BY <2>3, <2>4
<1>10. ASSUME NEW j \in 1..Len(handed'), NEW k \in 1..Len(handed'),
              j < k, handed'[j].id = handed'[k].id
       PROVE  k - j > MaxHistory
  <2>1. CASE k <= n
    <3>1. j \in 1..n /\ k \in 1..n
      BY <2>1, <1>1, <1>5, <1>10
    <3> QED
      BY <3>1, <1>1, <1>5, <1>10 DEF AtMostOnce, n
  <2>2. CASE ~(k <= n)
    <3>1. k = n + 1 /\ j \in 1..n
      BY <2>2, <1>1, <1>5, <1>10
    <3>2. handed[j].id = i
      BY <3>1, <1>4, <1>5, <1>10
    <3>3. SUFFICES ASSUME ~(k - j > MaxHistory) PROVE FALSE
      OBVIOUS
    <3>4. j - (n - h) \in 1..h
      BY <3>1, <3>3, <1>1
    <3>5. history[j - (n - h)] = i
      <4>1. n - h + (j - (n - h)) = j
        BY <3>1, <1>1
      <4> QED
        BY <4>1, <3>2, <3>4, <1>1
    <3> QED
      BY <3>4, <3>5, <1>2 DEF h
  <2> QED
    BY <2>1, <2>2
<1>11. AtMostOnce'
  BY <1>10 DEF AtMostOnce
<1>12. \A k \in 1..Len(history') :
          history'[k] = handed'[Len(handed') - Len(history') + k].id
  <2>1. Len(handed') = n + 1
    BY <1>5
  <2>2. \A k \in 1..Len(history') :
           history'[k] = handed'[n + 1 - Len(history') + k].id
    BY <1>9
  <2>3. n \in Nat /\ Len(history') \in Nat
    BY <1>1, <1>8
  <2> QED
    BY <2>1, <2>2, <2>3
<1>13. Len(history') = IF Len(handed') > MaxHistory THEN MaxHistory ELSE Len(handed')
  BY <1>5, <1>8
<1>14. gapTimer' = FALSE
  BY <1>1, <1>2
<1> QED
  BY <1>11, <1>12, <1>13, <1>14 DEF WindowInv

LEMMA ReceivingKeepsWindow ==
  ASSUME IInv, ordered' = ordered, Receiving
  PROVE  WindowInv'
<1> SUFFICES ASSUME ~ordered PROVE WindowInv'
  BY DEF WindowInv
<1>0. WindowInv
  BY DEF IInv
<1>1. ASSUME NEW i \in Ids, Fresh(i) PROVE WindowInv'
  BY <1>1, FreshKeepsWindow
<1>2. ASSUME UNCHANGED <<history, bufferVars>> PROVE WindowInv'
  BY <1>0, <1>2 DEF WindowInv, AtMostOnce, bufferVars
<1>3. ASSUME NEW i \in Ids, RouterDrop(i) \/ OutOfRoom(i) \/ Duplicate(i) PROVE WindowInv'
  BY <1>2, <1>3 DEF RouterDrop, OutOfRoom, Duplicate, receiverVars
<1>4. CASE GapTimeout
  BY <1>0, <1>4 DEF WindowInv, GapTimeout, OB!GapTimeout
<1>5. CASE ReceiverLeave
  <2>1. history' = <<>> /\ handed' = <<>> /\ gapTimer' = FALSE
    BY <1>5 DEF ReceiverLeave, OB!Clear
  <2>2. Len(<<>>) = 0
    BY EmptySeq
  <2> QED
    BY <2>1, <2>2, LimitsAssumption DEF WindowInv, AtMostOnce
<1>6. CASE ReceiverInit
  BY <1>2, <1>6 DEF ReceiverInit
<1> QED
  BY <1>1, <1>3, <1>4, <1>5, <1>6 DEF Receiving, Receive

-----------------------------------------------------------------------------
(* The invariant *)

LEMMA InitIInv == Init => IInv
<1> SUFFICES ASSUME Init PROVE IInv
  OBVIOUS
<1> USE LimitsAssumption
<1>1. SenderInv
  BY DEF Init, SenderInv, PendingIsOpen, Status
<1>2. <<>> \in Seq(Ids \cup {Mark}) /\ <<>> \in Seq(Ids) /\ Len(<<>>) = 0
  BY EmptySeq
<1>3. TakenInv
  BY <1>2 DEF Init, TakenInv
<1>4. BufferInv
  BY EmptyBuffer DEF Init, OB!Init, OB!Empty, OBP!Empty, OB!Seqs, OBP!Seqs, BufferInv
<1>5. WindowInv
  BY <1>2 DEF Init, OB!Init, WindowInv, AtMostOnce
<1> QED
  BY <1>1, <1>3, <1>4, <1>5 DEF IInv

LEMMA StepIInv == IInv /\ [Next]_vars => IInv'
<1> SUFFICES ASSUME IInv, [Next]_vars PROVE IInv'
  OBVIOUS
<1>0. ordered' = ordered
  BY DEF Next, vars
<1>1. CASE Receiving
  <2>1. SenderInv'
    BY <1>0, <1>1, ReceivingKeepsSender DEF IInv
  <2>2. TakenInv'
    BY <1>1, ReceiveKeepsTaken, RoomKeepsTaken DEF IInv, Receiving
  <2> QED
    BY <1>0, <1>1, <2>1, <2>2, ReceivingKeepsBuffer, ReceivingKeepsWindow DEF IInv
<1>2. ASSUME SenderSide, SenderInv' PROVE IInv'
  BY <1>0, <1>2, SenderSideKeeps DEF IInv
<1>3. ASSUME NEW i \in Ids,
             \/ Send(i) \/ RetryTimer(i) \/ ReceiveAck(i)
             \/ \E reason \in {"BUFFER_OVERFLOW", "INVALID"} : ReceiveNack(i, reason)
      PROVE  IInv'
  BY <1>0, <1>2, <1>3, SenderStep, SenderActions DEF IInv
<1>4. ASSUME NEW i \in Ids, Lose(i) PROVE IInv'
  <2>1. SenderInv'
    BY <1>0, <1>4 DEF IInv, Lose, senderVars, SenderInv, PendingIsOpen
  <2> QED
    BY <2>1, <1>2, <1>4, SenderActions
<1>5. CASE SenderLeave \/ SenderInit \/ ForgetPeer
  BY <1>0, <1>2, <1>5, SenderRoomStep, SenderActions DEF IInv
<1>6. CASE UNCHANGED vars
  <2>1. SenderSide
    BY <1>6 DEF vars, senderVars, receiverVars, SenderSide, IInv, SenderInv, TakenInv
  <2>2. SenderInv'
    BY <1>6 DEF vars, senderVars, IInv, SenderInv, PendingIsOpen
  <2> QED
    BY <1>2, <2>1, <2>2
<1> QED
  BY <1>1, <1>3, <1>4, <1>5, <1>6 DEF Next, Step, Receiving

\* The invariant holds in every reachable state.
THEOREM Invariance == Spec => []IInv
  BY InitIInv, StepIInv, PTL DEF Spec

-----------------------------------------------------------------------------
(* What follows from it *)

\* TypeOK: in particular a message is transmitted MaxAttempts times at most, and
\* both windows keep their limits.
THEOREM TypeCorrect == Spec => []TypeOK
<1>1. IInv => TypeOK
  <2> SUFFICES ASSUME IInv PROVE TypeOK
    OBVIOUS
  <2>1. OB!TypeOK
    BY DEF IInv, BufferInv, OBP!Good, OBP!Queue, OBP!Entry, OBP!Seqs, OBP!NoSeq,
           OB!TypeOK, OB!Entry, OB!Seqs, OB!NoSeq
  <2> QED
    BY <2>1, LimitsAssumption DEF IInv, SenderInv, TakenInv, TypeOK, Status
<1> QED
  BY <1>1, Invariance, PTL

\* PendingIsOpen, for every set of messages: a reliable message has a retry
\* timer exactly as long as its promise is open.
THEOREM PendingCorrect == Spec => []PendingIsOpen
<1>1. IInv => PendingIsOpen
  BY DEF IInv, SenderInv
<1> QED
  BY <1>1, Invariance, PTL

\* AtMostOnce, for every window size: no packet of a stream is handed up twice
\* in a stay, and outside a stream only after MaxHistory others.
THEOREM AtMostOnceCorrect == Spec => []AtMostOnce
<1>1. IInv => AtMostOnce
  <2> SUFFICES ASSUME IInv PROVE AtMostOnce
    OBVIOUS
  <2>1. CASE ~ordered
    BY <2>1 DEF IInv, WindowInv
  <2>2. CASE ordered
    <3> SUFFICES ASSUME NEW j \in 1..Len(handed), NEW k \in 1..Len(handed),
                        j < k, handed[j].id = handed[k].id
                 PROVE  FALSE
      BY DEF AtMostOnce
    <3>1. /\ handed[j] \in OBP!Entries(holding, handed)
          /\ handed[k] \in OBP!Entries(holding, handed)
      BY DEF OBP!Entries, OBP!LogEntries
    <3>2. /\ handed[j].seq = Number(handed[j].id)
          /\ handed[k].seq = Number(handed[j].id)
          /\ handed[k].id \in used
      BY <3>1 DEF IInv, BufferInv
    <3>3. handed[k].seq # 0
      BY <2>2, <3>2 DEF IInv, SenderInv, Number
    <3>4. handed[j].seq < handed[k].seq
      BY <3>3 DEF IInv, BufferInv, OBP!Good, OBP!Increasing, OBP!NoSeq
    <3>5. handed[k].seq \in Int
      BY <2>2, <3>2 DEF IInv, SenderInv, Number
    <3> QED
      BY <3>2, <3>4, <3>5
  <2> QED
    BY <2>1, <2>2
<1> QED
  BY <1>1, Invariance, PTL

-----------------------------------------------------------------------------
(* The delivery implements the channel *)

\* One promise is settled, as "delivered" only if the message was taken.
LEMMA SettleOne ==
  ASSUME IInv, NEW i \in Ids, pending[i] > 0,
         NEW r \in RC!Outcome, r = "delivered" => i \in accepted,
         receipt' = [receipt EXCEPT ![i] = r], UNCHANGED <<sent, accepted>>
  PROVE  RC!Next
<1>1. i \in sent /\ receipt[i] = "none" /\ receipt \in [Ids -> Status]
  BY DEF IInv, SenderInv, PendingIsOpen
<1>2. receipt' = [j \in Ids |-> IF j \in {i} THEN r ELSE receipt[j]]
  BY <1>1
<1>3. RC!Settle({i})
  BY <1>1, <1>2 DEF RC!Settle
<1> QED
  BY <1>3 DEF RC!Next

LEMMA StepImplements == IInv /\ [Next]_vars => [RC!Next]_(RC!vars)
<1> SUFFICES ASSUME IInv, [Next]_vars PROVE RC!Next \/ UNCHANGED RC!vars
  OBVIOUS
<1> USE LimitsAssumption
<1>0. SenderInv /\ TakenInv /\ PendingIsOpen
  BY DEF IInv, SenderInv
<1>1. ASSUME NEW i \in Ids, Send(i) PROVE RC!Next \/ UNCHANGED RC!vars
  <2>1. i \notin sent
    BY <1>0, <1>1 DEF Send, Refuse, SenderInv
  <2>2. accepted' = accepted
    BY <1>1 DEF Send, Refuse, receiverVars
  <2>3. \/ UNCHANGED <<sent, receipt>>
        \/ /\ sent' = sent \cup {i}
           /\ receipt' \in {receipt, [receipt EXCEPT ![i] = "rejected"]}
    BY <1>1 DEF Send, Refuse
  <2>4. CASE UNCHANGED <<sent, receipt>>
    BY <2>2, <2>4 DEF RC!vars
  <2>5. CASE /\ sent' = sent \cup {i}
             /\ receipt' \in {receipt, [receipt EXCEPT ![i] = "rejected"]}
    BY <2>1, <2>2, <2>5 DEF RC!Next, RC!Submit
  <2> QED
    BY <2>3, <2>4, <2>5
<1>2. ASSUME NEW i \in Ids, RetryTimer(i) PROVE RC!Next \/ UNCHANGED RC!vars
  <2>1. sent' = sent /\ accepted' = accepted /\ pending[i] > 0
    BY <1>2 DEF RetryTimer, receiverVars
  <2>2. receipt' = receipt \/ receipt' = [receipt EXCEPT ![i] = "timeout"]
    BY <1>2 DEF RetryTimer, Resolve
  <2>3. "timeout" \in RC!Outcome
    BY DEF RC!Outcome
  <2> QED
    BY <2>1, <2>2, <2>3, SettleOne DEF RC!vars
<1>3. ASSUME NEW i \in Ids, ReceiveAck(i) PROVE RC!Next \/ UNCHANGED RC!vars
  <2>1. sent' = sent /\ accepted' = accepted /\ i \in accepted
    BY <1>0, <1>3 DEF ReceiveAck, receiverVars, TakenInv
  <2>2. receipt' = receipt \/ (pending[i] > 0 /\ receipt' = [receipt EXCEPT ![i] = "delivered"])
    BY <1>3 DEF ReceiveAck, Resolve
  <2>3. "delivered" \in RC!Outcome
    BY DEF RC!Outcome
  <2> QED
    BY <2>1, <2>2, <2>3, SettleOne DEF RC!vars
<1>4. ASSUME NEW i \in Ids, NEW reason \in {"BUFFER_OVERFLOW", "INVALID"},
             ReceiveNack(i, reason)
      PROVE  RC!Next \/ UNCHANGED RC!vars
  <2>1. sent' = sent /\ accepted' = accepted /\ pending[i] > 0
    BY <1>4 DEF ReceiveNack, receiverVars
  <2>2. receipt' = receipt \/ receipt' = [receipt EXCEPT ![i] = "rejected"]
    BY <1>4 DEF ReceiveNack, Resolve
  <2>3. "rejected" \in RC!Outcome
    BY DEF RC!Outcome
  <2> QED
    BY <2>1, <2>2, <2>3, SettleOne DEF RC!vars
<1>5. CASE SenderLeave
  <2> DEFINE S == {i \in Ids : pending[i] > 0}
  <2>1. sent' = sent /\ accepted' = accepted
    BY <1>5 DEF SenderLeave, receiverVars
  <2>2. receipt' = [i \in Ids |-> IF i \in S THEN "rejected" ELSE receipt[i]]
    BY <1>5 DEF SenderLeave
  <2>3. S \in SUBSET Ids /\ S \subseteq {i \in sent : receipt[i] = "none"}
    BY <1>0 DEF PendingIsOpen
  <2> HIDE DEF S
  <2>4. RC!Settle(S)
    BY <2>1, <2>2, <2>3 DEF RC!Settle, RC!Outcome
  <2> QED
    BY <2>3, <2>4 DEF RC!Next
<1>6. ASSUME NEW i \in Ids, Fresh(i) PROVE RC!Next \/ UNCHANGED RC!vars
  BY <1>6 DEF Fresh, RC!Next, RC!Take, senderVars
<1>7. ASSUME UNCHANGED <<sent, accepted, receipt>> PROVE UNCHANGED RC!vars
  BY <1>7 DEF RC!vars
<1>8. ASSUME NEW i \in Ids, Lose(i) \/ RouterDrop(i) \/ OutOfRoom(i) \/ Duplicate(i)
      PROVE  UNCHANGED RC!vars
  BY <1>7, <1>8 DEF Lose, RouterDrop, OutOfRoom, Duplicate, senderVars, receiverVars
<1>9. ASSUME SenderInit \/ ForgetPeer \/ GapTimeout \/ ReceiverLeave \/ ReceiverInit
      PROVE  UNCHANGED RC!vars
  BY <1>7, <1>9 DEF SenderInit, ForgetPeer, GapTimeout, ReceiverLeave, ReceiverInit,
                    senderVars, receiverVars
<1>10. CASE UNCHANGED vars
  BY <1>7, <1>10 DEF vars, senderVars, receiverVars
<1> QED
  BY <1>1, <1>2, <1>3, <1>4, <1>5, <1>6, <1>8, <1>9, <1>10 DEF Next, Step, Receive

\* ImplementsChannel, for every wire, window and number of retries: a promise
\* of sendReliable is settled at most once, and truthfully.
THEOREM ChannelCorrect == Spec => ImplementsChannel
<1>1. Init => RC!Init
  BY DEF Init, RC!Init
<1> QED
  BY <1>1, StepImplements, Invariance, PTL DEF Spec, RC!Spec, ImplementsChannel
=============================================================================
