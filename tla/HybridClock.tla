----------------------------- MODULE HybridClock -----------------------------
(***************************************************************************)
(* The stamps packets are sorted by: core/network/hybrid-clock.ts, ticked  *)
(* by createPacket and merged by NetworkService.dispatchPacket before any  *)
(* handler runs.                                                           *)
(*                                                                         *)
(* A peer reads its own clock of the operating system, which may be set    *)
(* forward or back.  A packet too large for one message comes out of the   *)
(* reassembler without its stamp (core/network/chunker.ts).                *)
(*                                                                         *)
(* known[p] is history: the packets p had received, or sent, whose order   *)
(* the clock could keep.  A packet that came without a stamp, or with one  *)
(* that was refused, is in blind[p].                                       *)
(***************************************************************************)
EXTENDS Naturals, FiniteSets

CONSTANTS
    Peers,       \* numbers: stamps that tie are sorted by identity
    MaxTime,     \* what a clock may show
    MaxDrift,    \* MAX_CLOCK_DRIFT_MS
    MaxCounter,  \* MAX_COUNTER
    MaxPackets

\* MCTransport assumes it of the instance.
ClockAssumption ==
    /\ MaxTime \in Nat /\ MaxDrift \in Nat /\ MaxCounter \in Nat /\ MaxPackets \in Nat

VARIABLES
    now,     \* now[p]: Date.now()
    clock,   \* clock[p]: wall and counter
    stamped, \* what was sent
    known, blind,
    top      \* history: the latest time p's own clock showed

vars == <<now, clock, stamped, known, blind, top>>

Larger(a, b) == IF a >= b THEN a ELSE b
Counted(c) == IF c < MaxCounter THEN c + 1 ELSE MaxCounter

Stamp(w, c) == [w |-> w, c |-> c]

\* tick: time that stands still or goes back is counted on.
Tick(k, t) == IF t > k.w THEN Stamp(t, 0) ELSE Stamp(k.w, Counted(k.c))

Refused(w, t) == w > t + MaxDrift

\* Slip: the sender's counter is not merged.
MergeWall(k, t, r) ==
    LET rw == IF Refused(r.w, t) THEN 0 ELSE r.w
    IN  Tick(k, Larger(rw, t))

\* update: the later of the two walls and the physical time, its counter passed.
Merge(k, t, r) ==
    LET rw == IF Refused(r.w, t) THEN 0 ELSE r.w
        w == Larger(k.w, Larger(rw, t))
    IN  IF w = k.w /\ w = rw THEN Stamp(w, Counted(Larger(k.c, r.c)))
        ELSE IF w = k.w THEN Stamp(w, Counted(k.c))
        ELSE IF w = rw THEN Stamp(w, Counted(r.c))
        ELSE Stamp(w, 0)

Init ==
    /\ now \in [Peers -> {0}] /\ top = now
    /\ clock = [p \in Peers |-> Stamp(0, 0)]
    /\ stamped = {}
    /\ known = [p \in Peers |-> {}] /\ blind = known

\* The operating system sets p's clock, forward or back.
SetClock(p, t) ==
    /\ t # now[p]
    /\ now' = [now EXCEPT ![p] = t]
    /\ top' = [top EXCEPT ![p] = Larger(@, t)]
    /\ UNCHANGED <<clock, stamped, known, blind>>

Id == Cardinality(stamped) + 1

\* createPacket
Send(p, large) ==
    LET stamp == Tick(clock[p], now[p])
    IN  /\ Id <= MaxPackets
        /\ clock' = [clock EXCEPT ![p] = stamp]
        /\ stamped' = stamped \cup {[id |-> Id, from |-> p, stamp |-> stamp, large |-> large,
                                     after |-> known[p]]}
        /\ known' = [known EXCEPT ![p] = @ \cup {Id}]
        /\ UNCHANGED <<now, blind, top>>

\* dispatchPacket
Receive(p, m) ==
    LET told == ~m.large /\ ~Refused(m.stamp.w, now[p])
    IN  /\ m.from # p /\ m.id \notin known[p] \cup blind[p]
        /\ clock' = [clock EXCEPT ![p] = IF m.large THEN Tick(@, now[p])
                                         ELSE Merge(@, now[p], m.stamp)]
        /\ known' = [known EXCEPT ![p] = IF told THEN @ \cup {m.id} \cup m.after ELSE @]
        /\ blind' = [blind EXCEPT ![p] = IF told THEN @ ELSE @ \cup {m.id}]
        /\ UNCHANGED <<now, stamped, top>>

Next ==
    \/ \E p \in Peers, t \in 0..MaxTime : SetClock(p, t)
    \/ \E p \in Peers, large \in BOOLEAN : Send(p, large)
    \/ \E p \in Peers, m \in stamped : Receive(p, m)

Spec == Init /\ [][Next]_vars

-----------------------------------------------------------------------------
Stamps == [w : 0..MaxTime, c : 0..MaxCounter]

\* Every variable keeps its type (hybrid-clock.ts:36-42, 64-67).
TypeOK ==
    /\ now \in [Peers -> 0..MaxTime] /\ top \in [Peers -> 0..MaxTime]
    /\ clock \in [Peers -> Stamps]
    /\ stamped \subseteq [id : 1..MaxPackets, from : Peers, stamp : Stamps, large : BOOLEAN,
                          after : SUBSET (1..MaxPackets)]
    /\ known \in [Peers -> SUBSET (1..MaxPackets)] /\ blind \in [Peers -> SUBSET (1..MaxPackets)]

Earlier(a, b) == a.w < b.w \/ (a.w = b.w /\ a.c < b.c)

\* A packet sorts after all its sender had received or sent before, whatever the
\* clocks show, as long as no counter is exhausted (hybrid-clock.ts:22-27).
Causal ==
    \A m, n \in stamped :
        m.id \in n.after => Earlier(m.stamp, n.stamp) \/ n.stamp.c = MaxCounter

\* No stamp goes back at a peer, even if its clock does (hybrid-clock.ts:26).
Forward == \A p \in Peers : ~Earlier(clock'[p], clock[p])
NeverBack == [][Forward]_vars

\* No clock of another peer pulls a peer further ahead than the drift allowed
\* beyond the latest time its own clock showed (hybrid-clock.ts:44-59).
NotPoisoned == \A p \in Peers : clock[p].w <= top[p] + MaxDrift

Past(p) == {m \in stamped : m.id \in known[p] \cup blind[p]}

\* What a peer sends sorts after everything it had received
\* (hybrid-clock.ts:22-27, 57-59).
AlwaysAfter ==
    [][\A m \in stamped' \ stamped : \A x \in Past(m.from) : Earlier(x.stamp, m.stamp)]_vars
=============================================================================
