------------------------------ MODULE MeshPlan ------------------------------
(***************************************************************************)
(* Which links a peer of a single-tier room holds.  planMesh               *)
(* (core/topology/mesh-plan.ts) draws a ring with chords through the       *)
(* sorted roster; TopologyService dials what is missing, sheds what the    *)
(* plan does not want and repairs what it lost                             *)
(* (core/network/topology.service.ts).                                     *)
(*                                                                         *)
(* Peers are numbers, sorted as their identities are.  A link is the set   *)
(* of its ends; a dialled link opens or fails as a whole (PeerSignaling    *)
(* has the handshake).  The grace a transient disconnect is given and the  *)
(* backoff are one pending repair.                                         *)
(*                                                                         *)
(* External: the network opens any link but those in Blocked.              *)
(***************************************************************************)
EXTENDS Naturals, FiniteSets, Folds, Sequences

CONSTANTS
    Peers, First,               \* who may join, and who is there first
    FullMeshUpTo, TargetDegree, \* MeshPlanConfig
    Blocked,                    \* links no negotiation can open
    Kept,                       \* links affinity.shouldKeep holds
    MaxChurn                    \* joins, departures and lost links

VARIABLES
    room,    \* who is in the room, as the server knows
    roster,  \* roster[p]: allPeers
    links,   \* the open links
    dialing, \* links under negotiation (isConnecting)
    repair,  \* <<p, q>>: p has a timer to repair its link to q
    heard,   \* heard[p]: router.getReachable()
    churn

vars == <<room, roster, links, dialing, repair, heard, churn>>

-----------------------------------------------------------------------------
(* The plan *)

\* Math.round(n ^ (j / c)): the half is never met, its power being odd.
Root(n, j, c) ==
    CHOOSE r \in 1..n : (2*r - 1)^c <= 2^c * n^j /\ 2^c * n^j < (2*r + 1)^c

Clamp(n, raw) ==
    LET top == (n \div 2) - 1
        low == IF raw <= top THEN raw ELSE top
    IN  IF low >= 2 THEN low ELSE 2

\* The first offset from off on that is not taken, up to half the ring.
Untaken(n, taken, off) ==
    CHOOSE o \in off..(IF n \div 2 > off THEN n \div 2 ELSE off) :
        /\ o \notin taken \/ o >= n \div 2
        /\ \A x \in off..(o - 1) : x \in taken /\ x < n \div 2

ChordOffsets(n, count) ==
    LET Add(j, offs) ==
            LET taken == {offs[i] : i \in DOMAIN offs}
                off == Untaken(n, taken, Clamp(n, Root(n, j, count + 1)))
            IN  IF off \in taken THEN offs ELSE Append(offs, off)
    IN  IF count = 0 \/ n < 4 THEN <<>>
        ELSE MapThenFoldSet(LAMBDA j, offs : Add(j, offs), <<>>, LAMBDA j : j,
                            LAMBDA S : CHOOSE j \in S : \A k \in S : k <= j, 1..count)

\* The peers of S in the order of their identities: who is k places after p.
Place(S, p) == Cardinality({q \in S : q < p})
Around(S, p, k) ==
    CHOOSE q \in S : Place(S, q) = (Place(S, p) + k) % Cardinality(S)

Ring(S, p) == {Around(S, p, 1), Around(S, p, Cardinality(S) - 1)}

\* Both ends of a chord, as long as the degree allows.
WithChord(S, p, desired, off) ==
    LET fwd == desired \cup ({Around(S, p, off)} \ {p})
        back == {Around(S, p, 2 * Cardinality(S) - off)} \ {p}
    IN  IF Cardinality(desired) >= TargetDegree THEN desired
        ELSE IF Cardinality(fwd) < TargetDegree THEN fwd \cup back ELSE fwd

FullMesh(S) == Cardinality(S) <= FullMeshUpTo

\* planMesh
Desired(S, p) ==
    LET n == Cardinality(S)
        offs == ChordOffsets(n, (TargetDegree - 1) \div 2)
        planned[i \in 0..Len(offs)] ==
            IF i = 0 THEN Ring(S, p) ELSE WithChord(S, p, planned[i - 1], offs[i])
    IN  IF n <= 1 \/ p \notin S THEN {}
        ELSE IF FullMesh(S) THEN S \ {p}
        ELSE planned[Len(offs)]

-----------------------------------------------------------------------------
(* The mesh *)

To(p, net) == {q \in Peers \ {p} : {p, q} \in net}

\* Whom p reaches in a net, p left out.
Reach(p, net) ==
    LET within[k \in 0..Cardinality(Peers)] ==
            IF k = 0 THEN {p}
            ELSE LET near == within[k - 1] IN near \cup UNION {To(q, net) : q \in near}
    IN  within[Cardinality(Peers)] \ {p}

Least(S, k) == {p \in S : Cardinality({q \in S : q < p}) < k}

\* planFallbackTargets
Fallback(p) ==
    LET others == roster[p] \ {p}
        unreachable == others \ (heard[p] \cup To(p, links))
        budget == IF (TargetDegree + 1) \div 2 > 2 THEN (TargetDegree + 1) \div 2 ELSE 2
    IN  IF To(p, links) = {} THEN others
        ELSE Least(unreachable \ Desired(roster[p], p), budget)

Pairs(p, S) == {{p, q} : q \in S}

Init ==
    /\ room = First
    /\ roster = [p \in Peers |-> IF p \in room THEN room ELSE {}]
    /\ links = UNION {Pairs(p, Desired(room, p)) : p \in room} \ Blocked
    /\ dialing = {} /\ repair = {}
    /\ heard = [p \in Peers |-> Reach(p, links)]
    /\ churn = 0

Churn == churn < MaxChurn /\ churn' = churn + 1

\* Slip: only the links a peer would dial itself are kept.
ShedNotDialled(p) ==
    IF FullMesh(roster[p]) \/ Fallback(p) # {} THEN {}
    ELSE To(p, links) \ {q \in Desired(roster[p], p) : p < q}

Shed(p) ==
    IF FullMesh(roster[p]) \/ Fallback(p) # {} THEN {}
    ELSE To(p, links) \ (Desired(roster[p], p) \cup To(p, Kept))

\* The other end of a link that is gone repairs it, if the peer is in its roster.
RepairsOf(lost) == {<<p, q>> \in Peers \X Peers : p # q /\ {p, q} \in lost /\ q \in roster[p]}

\* reconcileConnections: the lower identity dials, a fallback anyone dials.
Reconcile(p) ==
    LET dials == {q \in Desired(roster[p], p) : p < q}
                     \cup (IF FullMesh(roster[p]) THEN {} ELSE Fallback(p))
        shed == Shed(p)
    IN  /\ p \in room
        /\ dialing' = dialing \cup (Pairs(p, dials) \ links)
        /\ links' = links \ Pairs(p, shed)
        /\ repair' = repair \cup {r \in RepairsOf(Pairs(p, shed)) : r[2] = p}
        /\ UNCHANGED <<room, roster, heard, churn>>

\* The repair timer: nothing to do, or another offer and the timer again.
Repair(p, q) ==
    /\ <<p, q>> \in repair
    /\ IF q \in roster[p] /\ {p, q} \notin links
       THEN dialing' = dialing \cup {{p, q}} /\ UNCHANGED repair
       ELSE repair' = repair \ {<<p, q>>} /\ UNCHANGED dialing
    /\ UNCHANGED <<room, roster, links, heard, churn>>

Opens(l) ==
    /\ l \in dialing /\ l \notin Blocked /\ l \subseteq room
    /\ links' = links \cup {l} /\ dialing' = dialing \ {l}
    /\ repair' = {r \in repair : {r[1], r[2]} # l}
    /\ UNCHANGED <<room, roster, heard, churn>>

\* sweepStuckConnections, handleConnectionFailure
Fails(l) ==
    /\ l \in dialing /\ (l \in Blocked \/ ~(l \subseteq room))
    /\ dialing' = dialing \ {l}
    /\ repair' = repair \cup {r \in RepairsOf({l}) : r[1] \in room}
    /\ UNCHANGED <<room, roster, links, heard, churn>>

Drops(l) ==
    /\ l \in links /\ Churn
    /\ links' = links \ {l} /\ repair' = repair \cup RepairsOf({l})
    /\ UNCHANGED <<room, roster, dialing, heard>>

\* Link-state advertisements reach p (module LinkState).
Learn(p) ==
    /\ heard[p] # Reach(p, links)
    /\ heard' = [heard EXCEPT ![p] = Reach(p, links)]
    /\ UNCHANGED <<room, roster, links, dialing, repair, churn>>

\* 'roster' from the server, and pruneDepartedPeers.
Roster(p) ==
    /\ p \in room /\ roster[p] # room
    /\ roster' = [roster EXCEPT ![p] = room]
    /\ repair' = {r \in repair : r[1] = p => r[2] \in room}
    /\ UNCHANGED <<room, links, dialing, heard, churn>>

Joins(p) ==
    /\ p \notin room /\ Churn
    /\ room' = room \cup {p}
    /\ UNCHANGED <<roster, links, dialing, repair, heard>>

Leaves(p) ==
    /\ p \in room /\ Cardinality(room) > 1 /\ Churn
    /\ LET gone == Pairs(p, To(p, links))
       IN  /\ links' = links \ gone
           /\ repair' = {r \in repair \cup RepairsOf(gone) : r[1] # p}
    /\ room' = room \ {p}
    /\ roster' = [roster EXCEPT ![p] = {}]
    /\ heard' = [heard EXCEPT ![p] = {}]
    /\ UNCHANGED dialing

Next ==
    \/ \E p \in Peers : Reconcile(p) \/ Learn(p) \/ Roster(p) \/ Joins(p) \/ Leaves(p)
    \/ \E p, q \in Peers : Repair(p, q)
    \/ \E l \in dialing \cup links : Opens(l) \/ Fails(l) \/ Drops(l)

Spec == Init /\ [][Next]_vars

Settle(l) == Opens(l) \/ Fails(l)
AllPairs == {{p, q} : p, q \in Peers}

\* Timers fire, rosters and advertisements arrive, a negotiation ends.
Fairness ==
    /\ \A p \in Peers : WF_vars(Reconcile(p)) /\ WF_vars(Learn(p)) /\ WF_vars(Roster(p))
    /\ \A p, q \in Peers : WF_vars(Repair(p, q))
    /\ \A l \in AllPairs : WF_vars(Settle(l))

FairSpec == Spec /\ Fairness

-----------------------------------------------------------------------------
\* Every variable keeps its type, and links join different peers of the room
\* (topology.service.ts:86, 93-96).
TypeOK ==
    /\ room \subseteq Peers /\ roster \in [Peers -> SUBSET Peers]
    /\ \A l \in links \cup dialing : l \subseteq Peers /\ Cardinality(l) = 2
    /\ \A l \in links : l \subseteq room
    /\ repair \subseteq Peers \X Peers
    /\ heard \in [Peers -> SUBSET Peers] /\ churn \in 0..MaxChurn

Planned(S) == UNION {Pairs(p, Desired(S, p)) : p \in S}

\* The ends of a planned link both plan it, nobody holds more than the degree,
\* the loss of any one peer leaves the others connected, and every peer is
\* within Hops links of every other (mesh-plan.ts:15-30, 95-98).
PlanIsSound(S, Hops) ==
    LET plan == [p \in S |-> Desired(S, p)]
        net == UNION {Pairs(p, plan[p]) : p \in S}
        near[k \in 0..Hops] ==
            IF k = 0 THEN [p \in S |-> {p}]
            ELSE LET last == near[k - 1]
                 IN  [p \in S |-> last[p] \cup UNION {last[q] : q \in plan[p]}]
    IN  /\ \A p \in S : \A q \in plan[p] : p \in plan[q]
        /\ ~FullMesh(S) => \A p \in S : Cardinality(plan[p]) <= TargetDegree
        /\ \A p \in S : near[Hops][p] = S
        /\ \A x \in S : \E p \in S : Reach(p, {l \in net : x \notin l}) = S \ {p, x}

Held == Planned(room) \ Blocked \subseteq links

\* Once the room is quiet every planned link that can open stays open: neither
\* late rosters, shedding nor repair takes one away (topology.service.ts:441-523).
PlanIsHeld == <>[]Held

Whole(net) == \A p \in room : Reach(p, net) \cup {p} = room
Openable == {{p, q} : p, q \in room} \ Blocked
NotSplit == Whole(Openable) => Whole(links)

\* A room that can be whole becomes whole, again and again, by links outside the
\* plan where planned ones cannot open (mesh-plan.ts:160-190).
NeverStranded == []<>NotSplit

\* In a quiet room the mesh stays whole: links outside the plan that make it so
\* are not shed (topology.service.ts:524-528).
StaysWhole == <>[]NotSplit

\* In a quiet room links come to rest: what one end sheds the other does not
\* dial again (mesh-plan.ts:224-228).
ComesToRest == <>[][links' = links]_vars
=============================================================================
