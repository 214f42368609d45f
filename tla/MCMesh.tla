------------------------------- MODULE MCMesh -------------------------------
(***************************************************************************)
(* The single-tier mesh for TLC: which links are held (MeshPlan) and how a *)
(* lost one is negotiated again (PeerSignaling).  A behaviour is of one    *)
(* part, chosen once:                                                      *)
(*   "triangle"  three peers, all linked; a link is lost, retries hasten   *)
(*   "line"      three peers in a row; a page is reloaded                  *)
(*   "churn"     a ring of three; a peer joins or leaves or a link is lost *)
(*   "walls"     a ring of four of which two links can never open          *)
(*   "plans"     the plan for n peers, with the configuration of the app   *)
(* The parts share the variables room, roster and repair, and leave those  *)
(* of the other module as they are.                                        *)
(***************************************************************************)
EXTENDS Naturals, FiniteSets

VARIABLES
    room, roster, repair,
    chan, conn, map, lag, signals, server, faults, \* of PeerSignaling
    links, dialing, heard, churn,                  \* of MeshPlan
    which                                          \* the part this behaviour is of

signalVars == <<chan, conn, map, lag, signals, server, faults>>
meshVars == <<links, dialing, heard, churn>>
MCVars == <<room, roster, repair, chan, conn, map, lag, signals, server, faults,
            links, dialing, heard, churn, which>>

Three == 1..3
Four == 1..4

Triangle == INSTANCE PeerSignaling WITH
    Peers <- Three, Required <- {{1, 2}, {1, 3}, {2, 3}},
    MaxDrops <- 1, MaxReloads <- 0, MaxLag <- 1, MaxHasty <- 1, MaxRounds <- 2

Line == INSTANCE PeerSignaling WITH
    Peers <- Three, Required <- {{1, 2}, {2, 3}},
    MaxDrops <- 0, MaxReloads <- 1, MaxLag <- 1, MaxHasty <- 0, MaxRounds <- 2

RingOfThree == INSTANCE MeshPlan WITH
    Peers <- Four, First <- Three, FullMeshUpTo <- 3, TargetDegree <- 2,
    Blocked <- {}, Kept <- {}, MaxChurn <- 1

Walls == INSTANCE MeshPlan WITH
    Peers <- Four, First <- Four, FullMeshUpTo <- 3, TargetDegree <- 2,
    Blocked <- {{1, 2}, {3, 4}}, Kept <- {}, MaxChurn <- 0

\* DEFAULT_MESH_PLAN_CONFIG
Defaults == INSTANCE MeshPlan WITH
    Peers <- 1..20, First <- {1}, FullMeshUpTo <- 8, TargetDegree <- 6,
    Blocked <- {}, Kept <- {}, MaxChurn <- 0

NoSignals == chan = {} /\ conn = {} /\ map = {} /\ lag = {} /\ signals = {} /\ server = TRUE /\ faults = {}
NoMesh == links = {} /\ dialing = {} /\ heard = {} /\ churn = 0

MCInit ==
    \/ which = "triangle" /\ Triangle!Init /\ NoMesh
    \/ which = "line" /\ Line!Init /\ NoMesh
    \/ which = "churn" /\ RingOfThree!Init /\ NoSignals
    \/ which = "walls" /\ Walls!Init /\ NoSignals
    \/ /\ which = "plans"
       /\ \E n \in 1..20 : room = 1..n /\ roster = [p \in room |-> room]
       /\ repair = {} /\ NoMesh /\ NoSignals

OfSignaling(inTriangle, inLine) ==
    /\ (which = "triangle" /\ inTriangle) \/ (which = "line" /\ inLine)
    /\ UNCHANGED <<links, dialing, heard, churn, which>>
OfMesh(inRing, inWalls) ==
    /\ (which = "churn" /\ inRing) \/ (which = "walls" /\ inWalls)
    /\ UNCHANGED <<chan, conn, map, lag, signals, server, faults, which>>

MCNext ==
    \/ OfSignaling(Triangle!Next, Line!Next)
    \/ OfMesh(RingOfThree!Next, Walls!Next)

\* The fairness of PeerSignaling and of MeshPlan, for the part that runs.
MCFairness ==
    /\ \A p \in Three :
        /\ WF_MCVars(OfSignaling(Triangle!Converge(p), Line!Converge(p)))
        /\ WF_MCVars(OfSignaling(Triangle!Roster(p), Line!Roster(p)))
        /\ WF_MCVars(OfSignaling(Triangle!Register(p), Line!Register(p)))
    /\ \A p, q \in Three :
        /\ WF_MCVars(OfSignaling(Triangle!Dial(p, q), Line!Dial(p, q)))
        /\ WF_MCVars(OfSignaling(Triangle!Retry(p, q), Line!Retry(p, q)))
        /\ WF_MCVars(OfSignaling(Triangle!Sweep(p, q), Line!Sweep(p, q)))
        /\ WF_MCVars(OfSignaling(Triangle!Between(p, q), Line!Between(p, q)))
        /\ WF_MCVars(OfSignaling(Triangle!Notice(p, q), Line!Notice(p, q)))
    /\ \A p \in Four :
        /\ WF_MCVars(OfMesh(RingOfThree!Reconcile(p), Walls!Reconcile(p)))
        /\ WF_MCVars(OfMesh(RingOfThree!Learn(p), Walls!Learn(p)))
        /\ WF_MCVars(OfMesh(RingOfThree!Roster(p), Walls!Roster(p)))
    /\ \A p, q \in Four : WF_MCVars(OfMesh(RingOfThree!Repair(p, q), Walls!Repair(p, q)))
    /\ \A l \in RingOfThree!AllPairs : WF_MCVars(OfMesh(RingOfThree!Settle(l), Walls!Settle(l)))

MCSpec == MCInit /\ [][MCNext]_MCVars /\ MCFairness

-----------------------------------------------------------------------------

\* MeshPlan: the plan the app draws for up to twenty peers is symmetric, within
\* the degree and within four links, and survives the loss of any one peer; in a
\* quiet room every planned link that can open stays open, and a room that can be
\* whole becomes whole, again and again.
PlanIsHeld ==
    /\ [](/\ which = "churn" => RingOfThree!TypeOK
          /\ which = "walls" => Walls!TypeOK
          /\ which = "plans" => Defaults!PlanIsSound(room, 4))
    /\ <>[](/\ which = "churn" => RingOfThree!Held
            /\ which = "walls" => Walls!Held)
    /\ []<>(/\ which = "churn" => RingOfThree!NotSplit
            /\ which = "walls" => Walls!NotSplit)
=============================================================================
