-------------------------- MODULE TierCoordinator --------------------------
(***************************************************************************)
(* In which tier a room runs (core/topology/tier-coordinator.ts, driven by *)
(* the rosters of core/network/topology.service.ts): a threshold that is   *)
(* crossed starts a timer, and the tier changes when the count has stayed  *)
(* beyond it until the timer fires.                                        *)
(*                                                                         *)
(* Tiers are numbers: 1 the direct mesh, 2 the leaders, 3 the relay.  A    *)
(* timer is the tier it leads to.                                          *)
(***************************************************************************)
EXTENDS Naturals, FiniteSets

CONSTANTS
    Counts,    \* sizes a roster may have
    MaxUpdates \* rosters of one room, and rooms

\* MCTransport assumes it of the instance.
TierAssumption == Counts \subseteq Nat /\ MaxUpdates \in Nat

VARIABLES
    direct,    \* the policy of the room: DIRECT_ONLY
    count, tier,
    heading,   \* lifecycleState: the tier it is evaluated for, or tier if stable
    timers,    \* transitionTimer, as a set
    since,     \* history: the counts of the rosters since the timer was set
    judged,    \* history: a roster came after the last change of tiers
    updates

vars == <<direct, count, tier, heading, timers, since, judged, updates>>

\* TOPOLOGY_THRESHOLDS: n peers call for going from tier t to tier u.
Calls(t, u, n) ==
    \/ t = 1 /\ u = 2 /\ n >= 25
    \/ t = 2 /\ u = 1 /\ n <= 18
    \/ t = 2 /\ u = 3 /\ n >= 51
    \/ t = 3 /\ u = 2 /\ n <= 38

Start ==
    /\ count = 1 /\ tier = 1 /\ heading = 1 /\ timers = {} /\ since = {} /\ judged = TRUE

Init == direct \in BOOLEAN /\ Start /\ updates = 0

\* isTierAllowed
Allowed(u) == direct => u = 1

InProgress(u) == heading = u

\* scheduleTransition
Schedule(u, n) ==
    IF InProgress(u) THEN since' = since \cup {n} /\ UNCHANGED <<heading, timers>>
    ELSE heading' = u /\ timers' = {u} /\ since' = {n}

Stop == heading' = tier /\ timers' = {}

\* Slip: a dip is left to the timer, which looks at the count by itself.
Tolerate(n) == since' = since \cup {n} /\ UNCHANGED <<heading, timers>>

\* cancelScheduledTransition
Cancel(n) == Stop /\ since' = since \cup {n}

\* updatePeerCount, evaluateTransitions
Update(n) ==
    /\ updates < MaxUpdates /\ updates' = updates + 1
    /\ count' = n /\ judged' = TRUE
    /\ LET Targets == {u \in 1..3 : Allowed(u) /\ Calls(tier, u, n)}
       IN  \/ Targets = {} /\ Cancel(n)
           \/ \E u \in Targets : Schedule(u, n)
    /\ UNCHANGED <<direct, tier>>

\* The timer: commit, or roll back.
Fire(u) ==
    /\ u \in timers
    /\ IF Calls(tier, u, count)
       THEN tier' = u /\ heading' = u /\ timers' = timers \ {u} /\ judged' = FALSE
       ELSE Stop /\ UNCHANGED <<tier, judged>>
    /\ UNCHANGED <<direct, count, since, updates>>

\* leave and init: reset, and a coordinator of the next room's policy.
NextRoom ==
    /\ updates < MaxUpdates /\ updates' = updates + 1
    /\ direct' \in BOOLEAN
    /\ count' = 1 /\ tier' = 1 /\ heading' = 1 /\ timers' = {} /\ since' = {} /\ judged' = TRUE

Next == NextRoom \/ (\E n \in Counts : Update(n)) \/ (\E u \in 1..3 : Fire(u))

Spec == Init /\ [][Next]_vars

-----------------------------------------------------------------------------
\* Every variable keeps its type (tier-coordinator.ts:31-40).
TypeOK ==
    /\ direct \in BOOLEAN /\ count \in Counts \cup {1} /\ {tier, heading} \subseteq 1..3
    /\ timers \subseteq 1..3 /\ Cardinality(timers) <= 1
    /\ since \subseteq Counts /\ judged \in BOOLEAN /\ updates \in 0..MaxUpdates

\* The tier changes only when every roster since the timer was set was beyond
\* the threshold, not just the last one (tier-coordinator.ts:83-152).
Sustained == tier' # tier /\ updates' = updates => \A n \in since : Calls(tier, tier', n)
OnlyIfSustained == [][Sustained]_vars

\* A direct room stays the direct mesh and never so much as prepares to leave
\* it, whatever its size (topology.types.ts:136-142, tier-coordinator.ts:91-98).
DirectStays == direct => tier = 1 /\ heading = 1 /\ timers = {}

\* When a roster has been judged, either the tier suits it or a timer runs for
\* the tier that does; only a tier entered since is not judged yet
\* (tier-coordinator.ts:83-150, 206-214).
SuitsOrChanges ==
    judged => \A u \in 1..3 : Allowed(u) /\ Calls(tier, u, count) => timers = {u} /\ heading = u
=============================================================================
