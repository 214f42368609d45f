------------------------ MODULE OrderingBufferProofs ------------------------
(***************************************************************************)
(* Proofs about the ordering buffer, for every window size, every set of   *)
(* packets and every order of arrival.  The invariant speaks of a triple   *)
(* (queue, expected number, log) rather than of the variables, because     *)
(* Overflow passes through an intermediate triple within one step.         *)
(***************************************************************************)
EXTENDS OrderingBuffer, FiniteSetTheorems, SequenceTheorems,
        WellFoundedInduction, TLAPS

Queue == [Seqs -> Ids \cup {Free}]

\* The log l is in stream order, and lies entirely below e.
Increasing(l) ==
    \A i, j \in 1..Len(l) : (i < j /\ l[j].seq # NoSeq) => l[i].seq < l[j].seq
Below(l, e) == \A i \in 1..Len(l) : l[i].seq < e

Good(h, e, l) ==
    /\ h \in Queue
    /\ e \in 1..(MaxSeq + 1)
    /\ l \in Seq(Entry)
    /\ \A s \in Held(h) : s > e
    /\ Increasing(l)
    /\ Below(l, e)

\* The inductive invariant: the type, and Good of the current triple.  Below
\* is what the checked invariants lack: without it nothing says that the
\* packet handed up next exceeds those already handed up.
IInv ==
    /\ Good(holding, expected, handed)
    /\ gapTimer \in BOOLEAN
    /\ gapDetected \in BOOLEAN

-----------------------------------------------------------------------------
(* The CHOOSEs denote something *)

\* Every nonempty set of naturals has a least element.
LEMMA LeastOfNats ==
  ASSUME NEW T, T \subseteq Nat, T # {}
  PROVE  \E x \in T : \A y \in T : x <= y
<1>1. \E x \in T : \A y \in T : ~(<<y, x>> \in OpToRel(<, Nat))
  <2>1. IsWellFoundedOn(OpToRel(<, Nat), Nat)
    BY NatLessThanWellFounded
  <2> QED
    BY <2>1, WFMin, Zenon
<1>2. PICK x \in T : \A y \in T : ~(<<y, x>> \in OpToRel(<, Nat))
  BY <1>1
<1>3. \A y \in T : ~(y < x)
  BY <1>2 DEF OpToRel
<1> QED
  BY <1>3

\* The drain loop stops, at the first number not held.
LEMMA RunEndProperty ==
  ASSUME NEW h, NEW e \in 1..(MaxSeq + 1)
  PROVE  /\ RunEnd(h, e) \in e..(MaxSeq + 1)
         /\ RunEnd(h, e) \notin Held(h)
         /\ \A m \in e..(RunEnd(h, e) - 1) : m \in Held(h)
<1> USE BoundsAssumption
<1> DEFINE T == {n \in e..(MaxSeq + 1) : n \notin Held(h)}
<1>1. T \subseteq Nat /\ MaxSeq + 1 \in T
  BY DEF Held, Seqs
<1>2. PICK n \in T : \A m \in T : n <= m
  BY <1>1, LeastOfNats
<1>3. \A m \in e..(n - 1) : m \in Held(h)
  BY <1>2
<1>4. \E k \in e..(MaxSeq + 1) : k \notin Held(h) /\ \A m \in e..(k - 1) : m \in Held(h)
  BY <1>2, <1>3
<1> QED
  BY <1>4 DEF RunEnd

\* A collapse jumps to the lowest number held.
LEMMA LowestProperty ==
  ASSUME NEW h, Held(h) # {}
  PROVE  /\ Lowest(h) \in Held(h)
         /\ \A t \in Held(h) : Lowest(h) <= t
<1>1. Held(h) \subseteq Nat
  BY DEF Held, Seqs
<1>2. \E s \in Held(h) : \A t \in Held(h) : s <= t
  BY <1>1, LeastOfNats
<1> QED
  BY <1>2 DEF Lowest

-----------------------------------------------------------------------------
(* What the pieces of inflow() and collapseGap() do to a triple *)

LEMMA EntrySeq ==
  ASSUME NEW l \in Seq(Entry), NEW i \in 1..Len(l)
  PROVE  l[i].seq \in Nat
<1>1. l[i] \in Entry
  BY ElementOfSeq
<1> QED
  BY <1>1, BoundsAssumption DEF Entry, Seqs, NoSeq

\* The run drained from e is a sequence of packets numbered e, e + 1, ...
LEMMA RunProperty ==
  ASSUME NEW h \in Queue, NEW e \in 1..(MaxSeq + 1)
  PROVE  /\ Run(h, e) \in Seq(Entry)
         /\ Len(Run(h, e)) = RunEnd(h, e) - e
         /\ \A i \in 1..Len(Run(h, e)) : Run(h, e)[i].seq = e + i - 1
<1> USE BoundsAssumption
<1> DEFINE n == RunEnd(h, e) - e
<1>1. n \in Nat /\ e + n = RunEnd(h, e)
  BY RunEndProperty
<1>2. ASSUME NEW i \in 1..n
      PROVE  [seq |-> e + i - 1, id |-> h[e + i - 1]] \in Entry
  <2>1. e + i - 1 \in Held(h)
    BY <1>1, RunEndProperty
  <2> QED
    BY <2>1 DEF Held, Queue, Entry, Seqs
<1>3. Run(h, e) = [i \in 1..n |-> [seq |-> e + i - 1, id |-> h[e + i - 1]]]
  BY DEF Run
<1> HIDE DEF n
<1>4. Run(h, e) \in [1..n -> Entry]
  BY <1>2, <1>3
<1>5. Run(h, e) \in Seq(Entry) /\ Len(Run(h, e)) = n
  BY <1>1, <1>4
<1>6. \A i \in 1..n : Run(h, e)[i].seq = e + i - 1
  BY <1>3
<1> QED
  BY <1>1, <1>5, <1>6 DEF n

\* Draining from e leaves exactly what was held beyond the run.
LEMMA DrainedProperty ==
  ASSUME NEW h \in Queue, NEW e \in 1..(MaxSeq + 1)
  PROVE  /\ Drained(h, e) \in Queue
         /\ Held(Drained(h, e)) = Held(h) \ (e..(RunEnd(h, e) - 1))
  BY FreeAssumption DEF Drained, Held, Queue

\* Appending a run that starts at e to a log below e keeps the log in order.
LEMMA RunKeepsOrder ==
  ASSUME NEW h \in Queue, NEW e \in 1..(MaxSeq + 1),
         NEW l \in Seq(Entry), Increasing(l), Below(l, e)
  PROVE  /\ l \o Run(h, e) \in Seq(Entry)
         /\ Increasing(l \o Run(h, e))
         /\ Below(l \o Run(h, e), RunEnd(h, e))
<1> DEFINE r == Run(h, e)
           L == l \o r
<1>1. /\ r \in Seq(Entry)
      /\ Len(r) = RunEnd(h, e) - e
      /\ \A i \in 1..Len(r) : r[i].seq = e + i - 1
  BY RunProperty
<1>2. RunEnd(h, e) \in e..(MaxSeq + 1)
  BY RunEndProperty
<1>3. /\ L \in Seq(Entry)
      /\ Len(L) = Len(l) + Len(r)
      /\ \A i \in 1..Len(L) : L[i] = IF i <= Len(l) THEN l[i] ELSE r[i - Len(l)]
  BY <1>1, ConcatProperties
<1>4. Len(l) \in Nat /\ Len(r) \in Nat
  BY <1>1, LenProperties
<1> HIDE DEF r, L
<1>5. \A i \in 1..Len(L) : i > Len(l) => L[i].seq = e + (i - Len(l)) - 1
  <2> SUFFICES ASSUME NEW i \in 1..Len(L), i > Len(l)
               PROVE  L[i].seq = e + (i - Len(l)) - 1
    OBVIOUS
  <2>1. i - Len(l) \in 1..Len(r)
    BY <1>3, <1>4
  <2>2. L[i] = r[i - Len(l)]
    BY <1>3, <1>4
  <2> QED
    BY <2>1, <2>2, <1>1
<1>6. \A i \in 1..Len(L) : i <= Len(l) => L[i] = l[i] /\ L[i].seq < e
  BY <1>3, <1>4 DEF Below
<1>6a. \A i \in 1..Len(l) : l[i].seq \in Nat
  BY EntrySeq
<1>7. Below(L, RunEnd(h, e))
  <2> SUFFICES ASSUME NEW i \in 1..Len(L) PROVE L[i].seq < RunEnd(h, e)
    BY DEF Below
  <2>1. CASE i <= Len(l)
    BY <2>1, <1>2, <1>3, <1>4, <1>6, <1>6a, BoundsAssumption
  <2>2. CASE i > Len(l)
    BY <2>2, <1>1, <1>2, <1>3, <1>4, <1>5, BoundsAssumption
  <2> QED
    BY <2>1, <2>2, <1>4
<1>8. Increasing(L)
  <2> SUFFICES ASSUME NEW i \in 1..Len(L), NEW j \in 1..Len(L), i < j,
                      L[j].seq # NoSeq
               PROVE  L[i].seq < L[j].seq
    BY DEF Increasing
  <2>1. CASE j <= Len(l)
    BY <2>1, <1>3, <1>4, <1>6 DEF Increasing
  <2>2. CASE i <= Len(l) /\ j > Len(l)
    BY <2>2, <1>3, <1>4, <1>5, <1>6, <1>6a, BoundsAssumption
  <2>3. CASE i > Len(l)
    <3>1. /\ L[i].seq = e + (i - Len(l)) - 1
          /\ L[j].seq = e + (j - Len(l)) - 1
      BY <2>3, <1>3, <1>4, <1>5
    <3> QED
      BY <3>1, <1>3, <1>4, BoundsAssumption
  <2> QED
    BY <2>1, <2>2, <2>3, <1>4
<1> QED
  BY <1>3, <1>7, <1>8 DEF r, L

\* Handing up the expected packet and draining behind it.
LEMMA HandUpGood ==
  ASSUME NEW h, NEW e, NEW l, Good(h, e, l),
         NEW p \in Packet, p.seq = e
  PROVE  /\ Good(Drained(h, e + 1), RunEnd(h, e + 1), Append(l, p) \o Run(h, e + 1))
         /\ Held(Drained(h, e + 1)) \subseteq Held(h)
<1> USE BoundsAssumption
<1> DEFINE a == Append(l, p)
<1>1. e \in Seqs /\ e + 1 \in 1..(MaxSeq + 1) /\ p \in Entry /\ e # NoSeq
  BY DEF Good, Packet, Entry, Seqs, NoSeq
<1>2. /\ a \in Seq(Entry)
      /\ Len(a) = Len(l) + 1
      /\ \A i \in 1..Len(l) : a[i] = l[i]
      /\ a[Len(l) + 1] = p
      /\ Len(l) \in Nat
  BY <1>1, AppendProperties, LenProperties DEF Good
<1> HIDE DEF a
<1>2a. \A i \in 1..Len(l) : l[i].seq \in Nat /\ l[i].seq < e
  BY EntrySeq DEF Good, Below
<1>3. Below(a, e + 1)
  BY <1>1, <1>2, <1>2a DEF Below, Seqs
<1>4. Increasing(a)
  <2> SUFFICES ASSUME NEW i \in 1..Len(a), NEW j \in 1..Len(a), i < j, a[j].seq # NoSeq
               PROVE  a[i].seq < a[j].seq
    BY DEF Increasing
  <2>1. CASE j = Len(l) + 1
    BY <2>1, <1>2, <1>2a
  <2>2. CASE j # Len(l) + 1
    BY <2>2, <1>2 DEF Good, Increasing
  <2> QED
    BY <2>1, <2>2
<1>5. h \in Queue
  BY DEF Good
<1>6. /\ a \o Run(h, e + 1) \in Seq(Entry)
      /\ Increasing(a \o Run(h, e + 1))
      /\ Below(a \o Run(h, e + 1), RunEnd(h, e + 1))
  BY <1>1, <1>2, <1>3, <1>4, <1>5, RunKeepsOrder
<1>7. /\ RunEnd(h, e + 1) \in (e + 1)..(MaxSeq + 1)
      /\ RunEnd(h, e + 1) \notin Held(h)
  BY <1>1, RunEndProperty
<1>8. /\ Drained(h, e + 1) \in Queue
      /\ Held(Drained(h, e + 1)) = Held(h) \ ((e + 1)..(RunEnd(h, e + 1) - 1))
  BY <1>1, <1>5, DrainedProperty
<1>9. \A s \in Held(Drained(h, e + 1)) : s > RunEnd(h, e + 1)
  <2> SUFFICES ASSUME NEW s \in Held(h), s \notin (e + 1)..(RunEnd(h, e + 1) - 1)
               PROVE  s > RunEnd(h, e + 1)
    BY <1>8
  <2>1. s \in Nat /\ s > e /\ s # RunEnd(h, e + 1)
    BY <1>7 DEF Good, Held, Seqs
  <2> QED
    BY <2>1, <1>1, <1>7 DEF Seqs
<1>10. RunEnd(h, e + 1) \in 1..(MaxSeq + 1)
  BY <1>1, <1>7 DEF Seqs
<1> QED
  BY <1>6, <1>8, <1>9, <1>10 DEF Good, a

\* Giving up a gap.
LEMMA CollapseGood ==
  ASSUME NEW h, NEW e, NEW l, Good(h, e, l), Held(h) # {}
  PROVE  LET low == Lowest(h)
         IN  /\ Good(Drained(h, low), RunEnd(h, low), l \o Run(h, low))
             /\ Held(Drained(h, low)) \subseteq Held(h) \ {low}
             /\ low \in Held(h)
             /\ RunEnd(h, low) > e
<1> USE BoundsAssumption
<1> DEFINE low == Lowest(h)
<1>1. low \in Held(h) /\ \A t \in Held(h) : low <= t
  BY LowestProperty
<1> HIDE DEF low
<1>2. /\ low \in Seqs /\ low \in 1..(MaxSeq + 1) /\ low > e /\ e \in Nat
      /\ h \in Queue /\ l \in Seq(Entry) /\ Increasing(l)
  BY <1>1 DEF Good, Held, Seqs
<1>3. Below(l, low)
  <2>1. \A i \in 1..Len(l) : l[i].seq \in Nat /\ l[i].seq < e
    BY EntrySeq DEF Good, Below
  <2> QED
    BY <2>1, <1>2 DEF Below, Seqs
<1>4. /\ l \o Run(h, low) \in Seq(Entry)
      /\ Increasing(l \o Run(h, low))
      /\ Below(l \o Run(h, low), RunEnd(h, low))
  BY <1>2, <1>3, RunKeepsOrder
<1>5. /\ RunEnd(h, low) \in low..(MaxSeq + 1)
      /\ RunEnd(h, low) \notin Held(h)
  BY <1>2, RunEndProperty
<1>6. RunEnd(h, low) # low /\ RunEnd(h, low) > low
  BY <1>1, <1>2, <1>5 DEF Seqs
<1>7. /\ Drained(h, low) \in Queue
      /\ Held(Drained(h, low)) = Held(h) \ (low..(RunEnd(h, low) - 1))
  BY <1>2, DrainedProperty
<1>8. \A s \in Held(Drained(h, low)) : s > RunEnd(h, low)
  <2> SUFFICES ASSUME NEW s \in Held(h), s \notin low..(RunEnd(h, low) - 1)
               PROVE  s > RunEnd(h, low)
    BY <1>7
  <2>1. s \in Nat /\ low <= s /\ s # RunEnd(h, low)
    BY <1>1, <1>5 DEF Held, Seqs
  <2> QED
    BY <2>1, <1>2, <1>5 DEF Seqs
<1>9. low \in low..(RunEnd(h, low) - 1) /\ RunEnd(h, low) \in 1..(MaxSeq + 1) /\ RunEnd(h, low) > e
  BY <1>2, <1>5, <1>6 DEF Seqs
<1> QED
  BY <1>1, <1>4, <1>7, <1>8, <1>9 DEF Good, low

\* Parking a packet ahead of the expected number.
LEMMA ParkGood ==
  ASSUME NEW h, NEW e, NEW l, Good(h, e, l),
         NEW p \in Packet, p.seq > e
  PROVE  /\ Good(Put(h, p), e, l)
         /\ Held(Put(h, p)) = Held(h) \cup {p.seq}
<1>1. p.seq \in Seqs /\ p.id \in Ids /\ h \in Queue
  BY DEF Packet, Good
<1>2. Put(h, p) \in Queue
  BY <1>1 DEF Put, Queue
<1>3. Held(Put(h, p)) = Held(h) \cup {p.seq}
  BY <1>1, FreeAssumption DEF Put, Held, Queue
<1> QED
  BY <1>2, <1>3 DEF Good

\* At most one packet more is held, and one fewer after a collapse.
LEMMA HeldIsFinite ==
  ASSUME NEW h
  PROVE  IsFiniteSet(Held(h)) /\ Cardinality(Held(h)) \in Nat
<1>1. IsFiniteSet(Seqs)
  BY FS_Interval, BoundsAssumption DEF Seqs
<1> QED
  BY <1>1, FS_Subset, FS_CardinalityType DEF Held

-----------------------------------------------------------------------------
(* Every step keeps the invariant *)

LEMMA InitIInv == Init => IInv
<1> SUFFICES ASSUME Init PROVE IInv
  OBVIOUS
<1>1. Held(Empty) = {}
  BY DEF Held, Empty
<1>2. Empty \in Queue
  BY DEF Empty, Queue
<1>3. Increasing(<<>>) /\ Below(<<>>, 1)
  BY DEF Increasing, Below
<1>4. 1 \in 1..(MaxSeq + 1) /\ <<>> \in Seq(Entry)
  BY BoundsAssumption
<1>5. Good(Empty, 1, <<>>)
  BY <1>1, <1>2, <1>3, <1>4 DEF Good
<1> QED
  BY <1>5 DEF Init, IInv

LEMMA CollapseGapGood ==
  ASSUME Good(holding, expected, handed), CollapseGap
  PROVE  /\ Good(holding', expected', handed')
         /\ Held(holding') \subseteq Held(holding)
<1>1. CASE Held(holding) = {}
  BY <1>1 DEF CollapseGap
<1>2. CASE Held(holding) # {}
  <2> DEFINE low == Lowest(holding)
  <2>1. /\ Good(Drained(holding, low), RunEnd(holding, low), handed \o Run(holding, low))
        /\ Held(Drained(holding, low)) \subseteq Held(holding)
    BY <1>2, CollapseGood
  <2>2. /\ handed' = handed \o Run(holding, low)
        /\ holding' = Drained(holding, low)
        /\ expected' = RunEnd(holding, low)
    BY <1>2 DEF CollapseGap
  <2> QED
    BY <2>1, <2>2
<1> QED
  BY <1>1, <1>2

\* Overflow goes through the collapsed triple.
LEMMA OverflowGood ==
  ASSUME Good(holding, expected, handed), NEW p \in Packet, Overflow(p)
  PROVE  /\ Good(holding', expected', handed')
         /\ \E s \in Held(holding) : Held(holding') \subseteq (Held(holding) \ {s}) \cup {p.seq}
<1> DEFINE low == Lowest(holding)
           e == RunEnd(holding, low)
           h == Drained(holding, low)
           l == handed \o Run(holding, low)
<1>1. Held(holding) # {}
  BY HeldIsFinite, FS_EmptySet, BoundsAssumption DEF Overflow
<1>2. /\ Good(h, e, l)
      /\ Held(h) \subseteq Held(holding) \ {low}
      /\ low \in Held(holding)
  BY <1>1, CollapseGood
<1>3. \/ p.seq = e /\ HandUpAndDrain(p, h, e, l)
      \/ expected' = e /\ holding' = h /\ handed' = l
      \/ p.seq > e /\ Park(p, h, e, l)
  BY DEF Overflow
<1> HIDE DEF low, e, h, l
<1>4. CASE p.seq = e /\ HandUpAndDrain(p, h, e, l)
  <2>1. /\ Good(holding', expected', handed')
        /\ Held(holding') \subseteq Held(h)
    BY <1>2, <1>4, HandUpGood DEF HandUpAndDrain
  <2> QED
    BY <1>2, <2>1
<1>5. CASE expected' = e /\ holding' = h /\ handed' = l
  BY <1>2, <1>5
<1>6. CASE p.seq > e /\ Park(p, h, e, l)
  <2>1. /\ Good(holding', expected', handed')
        /\ Held(holding') = Held(h) \cup {p.seq}
    BY <1>2, <1>6, ParkGood DEF Park
  <2> QED
    BY <1>2, <2>1
<1> QED
  BY <1>3, <1>4, <1>5, <1>6

LEMMA InflowGood ==
  ASSUME Good(holding, expected, handed), NEW p \in Packet, Inflow(p)
  PROVE  Good(holding', expected', handed')
<1>1. CASE InOrder(p)
  BY <1>1, HandUpGood DEF InOrder, HandUpAndDrain
<1>2. CASE Stale(p)
  BY <1>2 DEF Stale, vars
<1>3. CASE ParkAhead(p)
  BY <1>3, ParkGood DEF ParkAhead, Park
<1>4. CASE Overflow(p)
  BY <1>4, OverflowGood
<1> QED
  BY <1>1, <1>2, <1>3, <1>4 DEF Inflow

LEMMA BypassGood ==
  ASSUME Good(holding, expected, handed), NEW i \in Ids, Bypass(i)
  PROVE  Good(holding', expected', handed')
<1> DEFINE x == [seq |-> NoSeq, id |-> i]
<1>1. x \in Entry /\ x.seq = 0
  BY DEF Entry, NoSeq
<1>2. /\ holding' = holding /\ expected' = expected
      /\ handed' = Append(handed, x)
  BY DEF Bypass
<1> HIDE DEF x
<1>3. /\ handed' \in Seq(Entry)
      /\ Len(handed') = Len(handed) + 1
      /\ \A k \in 1..Len(handed) : handed'[k] = handed[k]
      /\ handed'[Len(handed) + 1] = x
      /\ Len(handed) \in Nat
  BY <1>1, <1>2, AppendProperties, LenProperties DEF Good
<1>4. Below(handed', expected)
  BY <1>1, <1>3, BoundsAssumption DEF Good, Below
<1>5. Increasing(handed')
  BY <1>1, <1>3 DEF Good, Increasing, NoSeq
<1> QED
  BY <1>2, <1>3, <1>4, <1>5 DEF Good

LEMMA StepIInv == IInv /\ [Next]_vars => IInv'
<1> SUFFICES ASSUME IInv, [Next]_vars PROVE IInv'
  OBVIOUS
<1>0. Good(holding, expected, handed) /\ gapTimer \in BOOLEAN /\ gapDetected \in BOOLEAN
  BY DEF IInv
<1>1. ASSUME NEW p \in Packet, Inflow(p) PROVE IInv'
  <2>1. Good(holding', expected', handed')
    BY <1>0, <1>1, InflowGood
  <2>2. gapTimer' \in BOOLEAN /\ gapDetected' \in BOOLEAN
    BY <1>0, <1>1 DEF Inflow, InOrder, Stale, ParkAhead, Overflow, Park, vars
  <2> QED
    BY <2>1, <2>2 DEF IInv
<1>2. ASSUME NEW i \in Ids, Bypass(i) PROVE IInv'
  BY <1>0, <1>2, BypassGood DEF IInv, Bypass
<1>3. CASE GapTimeout
  BY <1>0, <1>3, CollapseGapGood DEF IInv, GapTimeout
<1>4. CASE Step
  BY <1>0, <1>4, CollapseGapGood DEF IInv, Step
<1>5. CASE Clear
  <2>1. Init'
    BY <1>5 DEF Clear, Init
  <2> QED
    BY <2>1, InitIInv, PTL
<1>6. CASE UNCHANGED vars
  BY <1>0, <1>6 DEF IInv, vars
<1> QED
  BY <1>1, <1>2, <1>3, <1>4, <1>5, <1>6 DEF Next

THEOREM Invariance == Spec => []IInv
  BY InitIInv, StepIInv, PTL DEF Spec

-----------------------------------------------------------------------------
(* The buffer invents nothing: what it holds or has handed up arrived *)

HeldEntries(h) == {[seq |-> s, id |-> h[s]] : s \in Held(h)}
LogEntries(l) == {l[k] : k \in 1..Len(l)}
Entries(h, l) == HeldEntries(h) \cup LogEntries(l)

LEMMA RunEntries ==
  ASSUME NEW h \in Queue, NEW e \in 1..(MaxSeq + 1), NEW l \in Seq(Entry)
  PROVE  Entries(Drained(h, e), l \o Run(h, e)) \subseteq Entries(h, l)
<1> USE BoundsAssumption
<1>1. HeldEntries(Drained(h, e)) \subseteq HeldEntries(h)
  <2>1. \A s \in Held(Drained(h, e)) : s \in Held(h) /\ Drained(h, e)[s] = h[s]
    BY FreeAssumption DEF Drained, Held, Queue
  <2> QED
    BY <2>1 DEF HeldEntries
<1>2. LogEntries(Run(h, e)) \subseteq HeldEntries(h)
  <2> SUFFICES ASSUME NEW k \in 1..Len(Run(h, e))
               PROVE  Run(h, e)[k] \in HeldEntries(h)
    BY DEF LogEntries
  <2>1. k \in 1..(RunEnd(h, e) - e) /\ RunEnd(h, e) \in e..(MaxSeq + 1)
    BY RunProperty, RunEndProperty
  <2>2. e + k - 1 \in Held(h)
    BY <2>1, RunEndProperty
  <2>3. Run(h, e)[k] = [seq |-> e + k - 1, id |-> h[e + k - 1]]
    BY <2>1 DEF Run
  <2> QED
    BY <2>2, <2>3 DEF HeldEntries
<1>3. LogEntries(l \o Run(h, e)) \subseteq LogEntries(l) \cup LogEntries(Run(h, e))
  <2> DEFINE r == Run(h, e)
  <2>1. r \in Seq(Entry)
    BY RunProperty
  <2> HIDE DEF r
  <2>2. /\ Len(l \o r) = Len(l) + Len(r)
        /\ \A i \in 1..Len(l) + Len(r) :
              (l \o r)[i] = IF i <= Len(l) THEN l[i] ELSE r[i - Len(l)]
        /\ Len(l) \in Nat /\ Len(r) \in Nat
    BY <2>1, ConcatProperties, LenProperties
  <2> SUFFICES ASSUME NEW i \in 1..Len(l \o r)
               PROVE  (l \o r)[i] \in LogEntries(l) \cup LogEntries(r)
    BY DEF LogEntries, r
  <2>3. CASE i <= Len(l)
    BY <2>2, <2>3 DEF LogEntries
  <2>4. CASE i > Len(l)
    <3>1. i - Len(l) \in 1..Len(r) /\ (l \o r)[i] = r[i - Len(l)]
      BY <2>2, <2>4
    <3> QED
      BY <3>1 DEF LogEntries
  <2> QED
    BY <2>2, <2>3, <2>4
<1> QED
  BY <1>1, <1>2, <1>3 DEF Entries

LEMMA AppendEntries ==
  ASSUME NEW l \in Seq(Entry), NEW x \in Entry
  PROVE  /\ Append(l, x) \in Seq(Entry)
         /\ LogEntries(Append(l, x)) \subseteq LogEntries(l) \cup {x}
<1>1. /\ Append(l, x) \in Seq(Entry)
      /\ Len(Append(l, x)) = Len(l) + 1
      /\ \A i \in 1..Len(l) : Append(l, x)[i] = l[i]
      /\ Append(l, x)[Len(l) + 1] = x
      /\ Len(l) \in Nat
  BY AppendProperties, LenProperties
<1> QED
  BY <1>1 DEF LogEntries

LEMMA PutEntries ==
  ASSUME NEW h \in Queue, NEW p \in Packet
  PROVE  HeldEntries(Put(h, p)) \subseteq HeldEntries(h) \cup {p}
<1>1. p = [seq |-> p.seq, id |-> p.id] /\ p.seq \in Seqs /\ p.id \in Ids
  BY DEF Packet
<1>2. \A s \in Held(Put(h, p)) :
        \/ s = p.seq /\ Put(h, p)[s] = p.id
        \/ s \in Held(h) /\ Put(h, p)[s] = h[s]
  BY <1>1 DEF Put, Held, Queue
<1> QED
  BY <1>1, <1>2 DEF HeldEntries

LEMMA HandUpEntries ==
  ASSUME NEW h, NEW e, NEW l, Good(h, e, l), NEW p \in Packet, p.seq = e
  PROVE  Entries(Drained(h, e + 1), Append(l, p) \o Run(h, e + 1))
            \subseteq Entries(h, l) \cup {p}
<1>1. h \in Queue /\ e + 1 \in 1..(MaxSeq + 1) /\ l \in Seq(Entry) /\ p \in Entry
  BY BoundsAssumption DEF Good, Packet, Entry, Seqs
<1>2. /\ Append(l, p) \in Seq(Entry)
      /\ LogEntries(Append(l, p)) \subseteq LogEntries(l) \cup {p}
  BY <1>1, AppendEntries
<1>3. Entries(Drained(h, e + 1), Append(l, p) \o Run(h, e + 1)) \subseteq Entries(h, Append(l, p))
  BY <1>1, <1>2, RunEntries
<1> QED
  BY <1>2, <1>3 DEF Entries

LEMMA CollapseGapEntries ==
  ASSUME Good(holding, expected, handed), CollapseGap
  PROVE  Entries(holding', handed') \subseteq Entries(holding, handed)
<1>1. CASE Held(holding) = {}
  BY <1>1 DEF CollapseGap
<1>2. CASE Held(holding) # {}
  <2> DEFINE low == Lowest(holding)
  <2>1. low \in 1..(MaxSeq + 1) /\ holding \in Queue /\ handed \in Seq(Entry)
    BY <1>2, LowestProperty, BoundsAssumption DEF Held, Seqs, Good
  <2>2. holding' = Drained(holding, low) /\ handed' = handed \o Run(holding, low)
    BY <1>2 DEF CollapseGap
  <2> HIDE DEF low
  <2> QED
    BY <2>1, <2>2, RunEntries
<1> QED
  BY <1>1, <1>2

LEMMA InflowEntries ==
  ASSUME Good(holding, expected, handed), NEW p \in Packet, Inflow(p)
  PROVE  Entries(holding', handed') \subseteq Entries(holding, handed) \cup {p}
<1>1. CASE InOrder(p)
  BY <1>1, HandUpEntries DEF InOrder, HandUpAndDrain
<1>2. CASE Stale(p)
  BY <1>2 DEF Stale, vars
<1>3. CASE ParkAhead(p)
  <2>1. holding' = Put(holding, p) /\ handed' = handed /\ holding \in Queue
    BY <1>3 DEF ParkAhead, Park, Good
  <2> QED
    BY <2>1, PutEntries DEF Entries
<1>4. CASE Overflow(p)
  <2> DEFINE low == Lowest(holding)
             e == RunEnd(holding, low)
             h == Drained(holding, low)
             l == handed \o Run(holding, low)
  <2>1. Held(holding) # {}
    BY <1>4, HeldIsFinite, FS_EmptySet, BoundsAssumption DEF Overflow
  <2>2. Good(h, e, l)
    BY <2>1, CollapseGood
  <2>3. Entries(h, l) \subseteq Entries(holding, handed)
    <3>1. low \in 1..(MaxSeq + 1) /\ holding \in Queue /\ handed \in Seq(Entry)
      BY <2>1, LowestProperty, BoundsAssumption DEF Held, Seqs, Good
    <3> HIDE DEF low
    <3> QED
      BY <3>1, RunEntries
  <2>4. \/ p.seq = e /\ HandUpAndDrain(p, h, e, l)
        \/ expected' = e /\ holding' = h /\ handed' = l
        \/ p.seq > e /\ Park(p, h, e, l)
    BY <1>4 DEF Overflow
  <2> HIDE DEF low, e, h, l
  <2>5. CASE p.seq = e /\ HandUpAndDrain(p, h, e, l)
    BY <2>2, <2>3, <2>5, HandUpEntries DEF HandUpAndDrain
  <2>6. CASE expected' = e /\ holding' = h /\ handed' = l
    BY <2>3, <2>6
  <2>7. CASE p.seq > e /\ Park(p, h, e, l)
    <3>1. holding' = Put(h, p) /\ handed' = l /\ h \in Queue
      BY <2>2, <2>7 DEF Park, Good
    <3> QED
      BY <2>3, <3>1, PutEntries DEF Entries
  <2> QED
    BY <2>4, <2>5, <2>6, <2>7
<1> QED
  BY <1>1, <1>2, <1>3, <1>4 DEF Inflow

-----------------------------------------------------------------------------
(* The bound on the queue *)

LEMMA CardinalityOneMore ==
  ASSUME NEW A, NEW B, NEW x, IsFiniteSet(B), A \subseteq B \cup {x}
  PROVE  Cardinality(A) <= Cardinality(B) + 1
<1>0. Cardinality(B) \in Nat
  BY FS_CardinalityType
<1>1. /\ IsFiniteSet(B \cup {x})
      /\ Cardinality(B \cup {x}) <= Cardinality(B) + 1
  <2>1. /\ IsFiniteSet(B \cup {x})
        /\ Cardinality(B \cup {x}) = IF x \in B THEN Cardinality(B) ELSE Cardinality(B) + 1
    BY FS_AddElement
  <2> QED
    BY <2>1, <1>0
<1>2. Cardinality(A) <= Cardinality(B \cup {x}) /\ IsFiniteSet(A)
  BY <1>1, FS_Subset
<1> QED
  BY <1>1, <1>2, FS_CardinalityType

LEMMA InflowBounded ==
  ASSUME Good(holding, expected, handed), HoldBounded, NEW p \in Packet, Inflow(p)
  PROVE  HoldBounded'
<1>0. /\ IsFiniteSet(Held(holding)) /\ Cardinality(Held(holding)) \in Nat
      /\ IsFiniteSet(Held(holding')) /\ Cardinality(Held(holding')) \in Nat
  BY HeldIsFinite
<1>1. CASE InOrder(p)
  <2>1. Held(holding') \subseteq Held(holding)
    BY <1>1, HandUpGood DEF InOrder, HandUpAndDrain
  <2>2. Cardinality(Held(holding')) <= Cardinality(Held(holding))
    BY <2>1, <1>0, FS_Subset
  <2> QED
    BY <2>2, <1>0, BoundsAssumption DEF HoldBounded
<1>2. CASE Stale(p)
  BY <1>2 DEF Stale, vars, HoldBounded
<1>3. CASE ParkAhead(p)
  <2>1. Held(holding') = Held(holding) \cup {p.seq} /\ Cardinality(Held(holding)) < MaxHold
    BY <1>3, ParkGood DEF ParkAhead, Park
  <2>2. Cardinality(Held(holding')) <= Cardinality(Held(holding)) + 1
    BY <2>1, <1>0, CardinalityOneMore
  <2> QED
    BY <2>1, <2>2, <1>0, BoundsAssumption DEF HoldBounded
<1>4. CASE Overflow(p)
  <2>1. PICK s \in Held(holding) : Held(holding') \subseteq (Held(holding) \ {s}) \cup {p.seq}
    BY <1>4, OverflowGood
  <2>2. /\ IsFiniteSet(Held(holding) \ {s})
        /\ Cardinality(Held(holding) \ {s}) = Cardinality(Held(holding)) - 1
    BY <1>0, FS_RemoveElement
  <2>3. Cardinality(Held(holding')) <= Cardinality(Held(holding) \ {s}) + 1
    BY <2>1, <2>2, CardinalityOneMore
  <2> QED
    BY <2>2, <2>3, <1>0, BoundsAssumption DEF HoldBounded
<1> QED
  BY <1>1, <1>2, <1>3, <1>4 DEF Inflow

LEMMA StepBounded == IInv /\ HoldBounded /\ [Next]_vars => HoldBounded'
<1> SUFFICES ASSUME IInv, HoldBounded, [Next]_vars PROVE HoldBounded'
  OBVIOUS
<1>0. /\ Good(holding, expected, handed)
      /\ IsFiniteSet(Held(holding)) /\ Cardinality(Held(holding)) \in Nat
      /\ Cardinality(Held(holding')) \in Nat
  BY HeldIsFinite DEF IInv
<1>1. ASSUME NEW p \in Packet, Inflow(p) PROVE HoldBounded'
  BY <1>0, <1>1, InflowBounded
<1>2. ASSUME CollapseGap PROVE HoldBounded'
  <2>1. Held(holding') \subseteq Held(holding)
    BY <1>0, <1>2, CollapseGapGood
  <2>2. Cardinality(Held(holding')) <= Cardinality(Held(holding))
    BY <2>1, <1>0, FS_Subset
  <2> QED
    BY <2>2, <1>0, BoundsAssumption DEF HoldBounded
<1>3. CASE Clear
  <2>1. Held(holding') = {}
    BY <1>3 DEF Clear, Empty, Held
  <2> QED
    BY <2>1, FS_EmptySet, BoundsAssumption DEF HoldBounded
<1>4. CASE UNCHANGED holding
  BY <1>4 DEF HoldBounded
<1> QED
  <2>1. \/ \E p \in Packet : Inflow(p)
        \/ CollapseGap
        \/ Clear
        \/ UNCHANGED holding
    BY DEF Next, Bypass, GapTimeout, Step, vars
  <2> QED
    BY <2>1, <1>1, <1>2, <1>3, <1>4

-----------------------------------------------------------------------------
(* The properties of the runs *)

\* The buffer's variables keep their types, for every instance.
THEOREM TypeCorrect == Spec => []TypeOK
<1>1. IInv => TypeOK
  BY DEF IInv, Good, TypeOK, Queue
<1> QED
  BY <1>1, Invariance, PTL

\* Numbered packets reach the application in strictly increasing order.
THEOREM OrderCorrect == Spec => []StrictOrder
<1>1. IInv => StrictOrder
  BY DEF IInv, Good, StrictOrder, Increasing
<1> QED
  BY <1>1, Invariance, PTL

\* Nothing is held at or below the number that is expected.
THEOREM HeldAheadCorrect == Spec => []HeldIsAhead
<1>1. IInv => HeldIsAhead
  BY DEF IInv, Good, HeldIsAhead
<1> QED
  BY <1>1, Invariance, PTL

\* However a sender withholds and floods, one stream holds at most MaxHold
\* packets.
THEOREM BoundCorrect == Spec => []HoldBounded
<1>1. Init => HoldBounded
  <2> SUFFICES ASSUME Init PROVE HoldBounded
    OBVIOUS
  <2>1. Held(holding) = {}
    BY DEF Init, Empty, Held
  <2> QED
    BY <2>1, FS_EmptySet, BoundsAssumption DEF HoldBounded
<1> QED
  BY <1>1, StepBounded, Invariance, PTL DEF Spec

\* A stream is handed up in order from a bounded queue that holds only what can
\* still be reached: the three together, as the run checks them.
THEOREM InSequenceCorrect == Spec => []InSequence
<1>1. StrictOrder /\ HeldIsAhead /\ HoldBounded => InSequence
  BY DEF InSequence
<1> QED
  BY <1>1, OrderCorrect, HeldAheadCorrect, BoundCorrect, PTL
=============================================================================
