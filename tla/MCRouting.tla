------------------------------ MODULE MCRouting ------------------------------
(***************************************************************************)
(* The routing of a room for TLC, as two parts side by side: the databases *)
(* the routes are derived from, in a room of three (LinkState, the         *)
(* constants of the configuration), and one broadcast over the routes of   *)
(* every mesh of four peers (Broadcast).  A behaviour is of one part,      *)
(* chosen once; the state of the other stays what it was.                  *)
(***************************************************************************)
EXTENDS LinkState

CONSTANTS
    Members, Costs, MaxDown,    \* of Broadcast
    a, b, c                     \* the peers of LinkState

VARIABLES
    claims, warm, route, children, origin, down, started, copiesOnWire, seen, copies,
    flooding    \* which part this behaviour is of

broadcastVars ==
    <<claims, warm, route, children, origin, down, started, copiesOnWire, seen, copies>>
MCVars == <<vars, broadcastVars, flooding>>

Tree == INSTANCE Broadcast WITH Peers <- Members, wire <- copiesOnWire

\* What LinkState's theorem and Broadcast assume.
ASSUME RowAssumption == RoomAssumption
ASSUME MembersAssumption == Tree!BroadcastAssumption

\* The part that is not there: no broadcast, or a room without a link.
NoBroadcast ==
    /\ claims = <<>> /\ warm = FALSE /\ route = <<>> /\ children = <<>> /\ origin = 1
    /\ down = {} /\ started = FALSE /\ copiesOnWire = {} /\ seen = {} /\ copies = <<>>

MCInit ==
    \/ flooding = TRUE /\ Init /\ NoBroadcast
    \/ flooding = FALSE /\ Init /\ link = {} /\ Tree!Init

OfDatabases(A) == flooding /\ A /\ UNCHANGED <<broadcastVars, flooding>>
OfBroadcast(A) == ~flooding /\ A /\ UNCHANGED <<vars, flooding>>

MCNext == OfBroadcast(Tree!Next) \/ OfDatabases(Next)

\* The pairs of peers that can have a link: of the others nothing is ever enabled.
Directed == {<<a, b>>, <<b, a>>, <<b, c>>, <<c, b>>}

\* A behaviour is of one part: a disjunction over parts asks the same as one
\* condition for each.
MCSpec ==
    /\ MCInit /\ [][MCNext]_MCVars
    /\ WF_MCVars(OfBroadcast(Tree!Originate) \/ OfDatabases(Tick(a)))
    /\ WF_MCVars(\/ OfBroadcast(\E m \in copiesOnWire : Tree!Drop(m) \/ Tree!Deliver(m))
                 \/ OfDatabases(Tick(b)))
    /\ WF_MCVars(OfDatabases(Tick(c)))
    /\ \A l \in Directed :
        /\ WF_MCVars(OfDatabases(Connected(l[1], l[2])))
        /\ WF_MCVars(OfDatabases(Disconnected(l[1], l[2])))
        /\ WF_MCVars(OfDatabases(
               \E m \in wire : m.from = l[1] /\ m.to = l[2] /\ Receive(m)))

-----------------------------------------------------------------------------
\* LinkState: partitions heal, newcomers learn the room, and a reloaded peer takes
\* its place again: once links rest the databases agree.  Excused are lost and
\* aged advertisements, which are not repeated, and the reload of a peer whose
\* last advertisement had not reached everyone.
DatabasesConverge ==
    [](excuses = {} /\ (flooding => BelowBound)) => <>[](flooding => Agreed)

\* Broadcast: all peers draw the origin's tree alike and along shortest ways, so
\* that a packet reaches a peer once, is not swallowed where a neighbour can be
\* reached, and comes to whoever is joined to the origin: in a converged room by
\* the trees and in a young one by flooding, if no link fails.
EveryoneOnce ==
    /\ [](~flooding => /\ Tree!TypeOK
                       /\ Tree!RoutesAreShortest /\ Tree!TreesAgree /\ Tree!OneCopy)
    /\ Tree!NotSwallowed
    /\ <>(flooding \/ down # {} \/ Tree!Reached(seen))
=============================================================================
