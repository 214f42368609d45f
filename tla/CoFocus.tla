------------------------------- MODULE CoFocus -------------------------------
(***************************************************************************)
(* A focus session from the queue of the matchmaking server to its end, in *)
(* one document: CoFocusService (features/cofocus/cofocus.service.ts), the *)
(* lobby socket (core/network/lobby.service.ts) and the room it joins      *)
(* (RoomService.joinCoFocusRoom).  The user, the server, the partner and   *)
(* the other ways of changing the room act at any time in between.         *)
(*                                                                         *)
(* operationGeneration is only ever compared with the one something was    *)
(* begun in, so everything outstanding carries "fresh": no later operation *)
(* has advanced the generation.                                            *)
(***************************************************************************)
EXTENDS Naturals

CONSTANTS
    Matches,    \* room ids the server hands out, each once
    Invited,    \* the room of an invite code
    Elsewhere,  \* any room that is not a session's
    None,
    Length,     \* the session's length, in ticks of the countdown
    Wanders,    \* the user may change rooms while a match is being joined
    Relaunches  \* the launcher is used inside a session

SessionRooms == Matches \cup {Invited}

\* MCFeatures assumes it of the instance.
FocusAssumption ==
    /\ Length \in Nat \ {0}
    /\ Elsewhere # None /\ {Elsewhere, None} \cap SessionRooms = {}
MaybeRoom == SessionRooms \cup {None}

VARIABLES
    phase,      \* "idle", "queued", "matched", "active", "completed"
    session,    \* state.roomId
    present,    \* state.partnerPresent
    remaining,  \* state.remainingSec
    begun,      \* enqueue() waiting for the identity: the fresh flags
    socket,     \* LobbyService.ws: "none", "open", "failing"
    given,      \* the matches handed out
    current,    \* RoomService.currentRoom
    joins,      \* joinCoFocusRoom() waiting for the identity
    watch, arrival, countdown,  \* the subscription and the two timers
    ends        \* rooms whose 'cofocus:session_end' of the partner is under way

stateVars == <<phase, session, present, remaining>>
timerVars == <<watch, arrival, countdown>>
vars == <<stateVars, begun, socket, given, current, joins, timerVars, ends>>

Of(r) == [room |-> r, fresh |-> TRUE]

Init ==
    /\ phase = "idle" /\ session = None /\ present = FALSE /\ remaining = 0
    /\ begun = {} /\ socket = "none" /\ given = {}
    /\ current = Elsewhere /\ joins = {}
    /\ watch = None /\ arrival = None /\ countdown = None
    /\ ends = {}

-----------------------------------------------------------------------------
(* The parts of an operation *)

\* INITIAL_COFOCUS_STATE
BackToIdle == phase' = "idle" /\ session' = None /\ present' = FALSE /\ remaining' = 0

\* ++operationGeneration, for what is waiting.
Superseded(js) == {[j EXCEPT !.fresh = FALSE] : j \in js}

\* clearTimers and detachTopologyWatch.
Cleared == watch' = None /\ arrival' = None /\ countdown' = None

\* leaveCurrentRoom, if the room is r.
LeaveRoom(r) == current' = IF current = r THEN None ELSE current

\* An operation ends: nothing of it goes on.
Over ==
    /\ joins' = Superseded(joins) /\ begun' = {FALSE : b \in begun}
    /\ Cleared

\* isOperationCurrent
Current(t) == t.fresh /\ t.room = session

\* joinCoFocusRoom up to its await; "already" is its early return.
Join(r, js) ==
    /\ current' = r
    /\ joins' = js \cup {[room |-> r, fresh |-> TRUE, already |-> current = r]}

\* Where the launcher offers to start.
CanStart == phase = "idle" \/ (Relaunches /\ phase \in {"active", "completed"})

-----------------------------------------------------------------------------
(* The user *)

\* startWatcher, startTogetherRandom: beginOperation and enqueue up to its await.
StartQueue ==
    /\ CanStart
    /\ begun' = {FALSE : b \in begun} \cup {TRUE}
    /\ socket' = "none" /\ Cleared /\ joins' = Superseded(joins)
    /\ UNCHANGED <<stateVars, given, current, ends>>

StartInvite ==
    /\ CanStart
    /\ begun' = {FALSE : b \in begun} /\ socket' = "none" /\ Cleared
    /\ phase' = "matched" /\ session' = Invited /\ present' = FALSE /\ remaining' = 0
    /\ Join(Invited, Superseded(joins))
    /\ UNCHANGED <<given, ends>>

\* Slip: the queue is left, the room that was entered is not.
StayInRoom(r) == UNCHANGED current

\* Undoing "everything it started": cancelQueue and endSession.
LeaveOwn(r) == LeaveRoom(r)

LeaveQueue == socket' = "none"

CancelQueue ==
    /\ phase \in {"queued", "matched"}
    /\ Over /\ BackToIdle /\ LeaveOwn(session)
    /\ LeaveQueue
    /\ UNCHANGED <<given, ends>>

EndSession ==
    /\ phase \in {"matched", "active", "completed"}
    /\ Over /\ BackToIdle /\ LeaveOwn(session)
    /\ LeaveQueue
    /\ UNCHANGED <<given, ends>>

ExtendSession ==
    /\ phase \in {"active", "completed"} /\ remaining < Length
    /\ phase' = "active" /\ remaining' = remaining + 1
    /\ countdown' = Of(session)
    /\ UNCHANGED <<session, present, begun, socket, given, current, joins, watch, arrival, ends>>

\* bindRoomReconciliation: only an established session can be displaced.
Displaced(room) == phase \in {"active", "completed"} /\ room # session

\* Any other way into a room, or out of one.
ChangeRoom ==
    /\ phase = "matched" => Wanders
    /\ current' \in {Elsewhere, None} \ {current}
    /\ IF Displaced(current') THEN Over /\ BackToIdle
       ELSE UNCHANGED <<stateVars, begun, joins, timerVars>>
    /\ UNCHANGED <<socket, given, ends>>

-----------------------------------------------------------------------------
(* The queue *)

\* The identity is there: enqueue() goes on unless it was superseded.
Enqueue(fresh) ==
    /\ fresh \in begun
    /\ begun' = begun \ {fresh}
    /\ IF fresh
       THEN /\ phase' = "queued" /\ session' = None /\ present' = FALSE /\ remaining' = 0
            /\ socket' = "open"
       ELSE UNCHANGED <<stateVars, socket>>
    /\ UNCHANGED <<given, current, joins, timerVars, ends>>

EnqueueFails(fresh) ==
    /\ fresh \in begun
    /\ IF fresh
       THEN /\ BackToIdle /\ Cleared
            /\ begun' = {FALSE : b \in begun \ {fresh}} /\ joins' = Superseded(joins)
       ELSE begun' = begun \ {fresh} /\ UNCHANGED <<stateVars, joins, timerVars>>
    /\ UNCHANGED <<socket, given, current, ends>>

\* 'lobby:matched': handleMatched up to its await; the socket is closed.
Matched(r) ==
    /\ socket = "open" /\ r \in Matches \ given
    /\ given' = given \cup {r} /\ socket' = "none"
    /\ phase' = "matched" /\ session' = r /\ present' = FALSE
    /\ Join(r, joins)
    /\ UNCHANGED <<remaining, begun, timerVars, ends>>

\* 'lobby:timeout', 'lobby:error', the close or the error of the socket; an
\* error leaves the socket to its close.
QueueEnds ==
    /\ socket = "open"
    /\ socket' \in {"none", "failing"}
    /\ BackToIdle /\ joins' = Superseded(joins) /\ begun' = {FALSE : b \in begun}
    /\ UNCHANGED <<given, current, timerVars, ends>>

SocketCloses ==
    /\ socket = "failing" /\ socket' = "none"
    /\ UNCHANGED <<stateVars, begun, given, current, joins, timerVars, ends>>

-----------------------------------------------------------------------------
(* The room *)

\* The topology callback sees the partner, or any peer in an invite's room.
PartnerSeen(room) ==
    /\ present' = TRUE
    /\ IF phase = "matched"
       THEN phase' = "active" /\ remaining' = Length /\ countdown' = Of(room)
       ELSE UNCHANGED <<phase, remaining, countdown>>

Arrives(room) == PartnerSeen(room)

\* The identity is there, and the network in the room unless it was left: the
\* watch begins with a call of the callback, before the arrival timer is armed.
JoinSettles ==
    \E j \in joins :
        /\ joins' = joins \ {j}
        /\ IF Current(j) /\ phase = "matched"
           THEN /\ watch' = Of(j.room) /\ arrival' = Of(j.room)
                /\ \/ UNCHANGED <<phase, present, remaining, countdown>>
                   \/ (j.already \/ current # j.room) /\ current # None /\ Arrives(j.room)
           ELSE UNCHANGED <<phase, present, remaining, timerVars>>
        /\ UNCHANGED <<session, begun, socket, given, current, ends>>

JoinFails ==
    \E j \in joins :
        /\ IF Current(j)
           THEN /\ Cleared /\ BackToIdle /\ LeaveRoom(j.room)
                /\ joins' = Superseded(joins \ {j}) /\ begun' = {FALSE : b \in begun}
           ELSE joins' = joins \ {j} /\ UNCHANGED <<stateVars, begun, current, timerVars>>
        /\ UNCHANGED <<socket, given, ends>>

Topology ==
    /\ watch # None /\ Current(watch)
    /\ \/ /\ ~present /\ current # None
          /\ Arrives(watch.room) /\ arrival' = None
       \/ /\ present /\ present' = FALSE
          /\ UNCHANGED <<phase, remaining, countdown, arrival>>
    /\ UNCHANGED <<session, begun, socket, given, current, joins, watch, ends>>

\* Slip: the queue is left as it is.
NotAgain == begun' = {FALSE : b \in begun} /\ UNCHANGED stateVars

\* The partner did not come: a matched user is queued again, an invited one told.
Requeue ==
    IF session # Invited
    THEN /\ begun' = {FALSE : b \in begun} \cup {TRUE}
         /\ IF phase \in {"active", "completed"} THEN BackToIdle ELSE UNCHANGED stateVars
    ELSE begun' = {FALSE : b \in begun} /\ BackToIdle

ArrivalTimer ==
    /\ arrival # None
    /\ IF Current(arrival) /\ ~present
       THEN /\ Cleared /\ LeaveRoom(session) /\ joins' = Superseded(joins)
            /\ Requeue
       ELSE /\ arrival' = None
            /\ UNCHANGED <<stateVars, begun, current, joins, watch, countdown>>
    /\ UNCHANGED <<socket, given, ends>>

Tick ==
    /\ countdown # None
    /\ IF ~Current(countdown) THEN countdown' = None /\ UNCHANGED <<phase, remaining>>
       ELSE /\ remaining' = remaining - 1
            /\ phase' = IF remaining = 1 THEN "completed" ELSE phase
            /\ countdown' = IF remaining = 1 THEN None ELSE countdown
    /\ UNCHANGED <<session, present, begun, socket, given, current, joins, watch, arrival, ends>>

-----------------------------------------------------------------------------
(* The partner *)

PartnerEnds(r) ==
    /\ r \in (given \cup {Invited}) \ ends
    /\ ends' = ends \cup {r}
    /\ UNCHANGED <<stateVars, begun, socket, given, current, joins, timerVars>>

\* A packet for another room than the session's is ignored.
EndArrives(r) ==
    /\ r \in ends /\ ends' = ends \ {r}
    /\ IF r = session /\ phase \in {"matched", "active", "completed"}
       THEN Over /\ BackToIdle /\ LeaveRoom(session)
       ELSE UNCHANGED <<stateVars, begun, current, joins, timerVars>>
    /\ UNCHANGED <<socket, given>>

Next ==
    \/ StartQueue \/ StartInvite \/ CancelQueue \/ EndSession \/ ExtendSession \/ ChangeRoom
    \/ \E fresh \in BOOLEAN : Enqueue(fresh) \/ EnqueueFails(fresh)
    \/ \E r \in Matches : Matched(r)
    \/ QueueEnds \/ SocketCloses
    \/ JoinSettles \/ JoinFails \/ Topology \/ ArrivalTimer \/ Tick
    \/ \E r \in SessionRooms : PartnerEnds(r) \/ EndArrives(r)

Spec == Init /\ [][Next]_vars

\* The identity is loaded in the end, and a timer that is not cleared fires.
Fairness ==
    /\ \A fresh \in BOOLEAN : WF_vars(Enqueue(fresh))
    /\ WF_vars(JoinSettles) /\ WF_vars(ArrivalTimer)

FairSpec == Spec /\ Fairness

-----------------------------------------------------------------------------
Timers == {None} \cup [room : SessionRooms, fresh : BOOLEAN]

\* Every variable keeps its type (cofocus.types.ts:17-44).
TypeOK ==
    /\ phase \in {"idle", "queued", "matched", "active", "completed"}
    /\ session \in MaybeRoom /\ current \in MaybeRoom \cup {Elsewhere}
    /\ present \in BOOLEAN /\ remaining \in 0..Length
    /\ begun \subseteq BOOLEAN /\ socket \in {"none", "open", "failing"}
    /\ given \subseteq Matches /\ ends \subseteq SessionRooms
    /\ joins \subseteq [room : SessionRooms, fresh : BOOLEAN, already : BOOLEAN]
    /\ watch \in Timers /\ arrival \in Timers /\ countdown \in Timers

\* A session that runs, or has reached its checkpoint, is in its own room: the
\* clock, the camera and "partner present" are about the peers one sees.
ActiveInOwnRoom == phase \in {"active", "completed"} => current = session

\* Who is shown as queued is in the queue, and nobody else is: no search goes
\* on that the user does not see, none is shown that the server does not know.
QueuedIsInQueue == phase = "queued" <=> socket = "open"

\* No session, no session room: whatever ends it takes the user out of it.
NoRoomLeft ==
    current \in SessionRooms => phase \in {"matched", "active", "completed"} /\ session = current

\* A running clock is the clock of the session one is in, and once the partner
\* has come nothing waits to end the session for his absence.
TimersBelongToPhase ==
    /\ countdown # None => Current(countdown) /\ phase = "active"
    /\ arrival # None => Current(arrival) /\ phase = "matched"
    /\ watch # None => Current(watch)

\* A partner who reloads does not start the session over: only the first
\* arrival and the user set the clock forward.
ClockOnlyRunsDown ==
    [][remaining' > remaining => phase = "matched" \/ ExtendSession]_vars

\* Nobody sits alone in a matched room: every match starts, is queued again or ends.
MatchIsResolved == phase = "matched" ~> phase # "matched"
=============================================================================
