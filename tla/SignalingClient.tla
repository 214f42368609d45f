--------------------------- MODULE SignalingClient ---------------------------
(***************************************************************************)
(* The connection to the signaling server                                  *)
(* (core/network/signaling.service.ts): one socket at a time for the room  *)
(* wanted, a queue while there is none, a heartbeat, retries with backoff. *)
(*                                                                         *)
(* A socket is a number, free again when its callbacks are done.  fence is *)
(* the socket whose callbacks still count: connectionGeneration and        *)
(* activeAttemptId together.  A callback that was detached may have been   *)
(* queued before (signaling.service.ts:641-644).                           *)
(*                                                                         *)
(* External: the sockets and the server.  A socket may go dead without     *)
(* either end being told.                                                  *)
(***************************************************************************)
EXTENDS Naturals, Sequences

CONSTANTS
    Owners,     \* a room and an identity: currentRoomId and peerId
    NoOwner, Sockets, NoSocket,
    MaxQueue, MaxFrames,
    MaxCalls,   \* calls of connect, reconnect and disconnect
    MaxFaults   \* sockets lost or refused, heartbeats that come too late

\* MCTransport assumes it of the instance.
SignalingAssumption ==
    /\ NoSocket \notin Sockets
    /\ MaxQueue \in Nat /\ MaxCalls \in Nat /\ MaxFaults \in Nat

VARIABLES
    owner,      \* currentRoomId, peerId
    cur,        \* this.ws
    fence,
    connected, registered, queue,
    retrying,   \* reconnectTimer
    sockets,        \* sockets[s]: readyState of s and what its server end knows
    calls, faults

vars == <<owner, cur, fence, connected, registered, queue, retrying, sockets, calls, faults>>

Unused == [state |-> "none", owner |-> NoOwner, frames |-> <<>>, answer |-> FALSE]

Init ==
    /\ owner = NoOwner /\ cur = NoSocket /\ fence = NoSocket
    /\ connected = FALSE /\ registered = FALSE /\ queue = <<>> /\ retrying = FALSE
    /\ sockets = [s \in Sockets |-> Unused]
    /\ calls = 0 /\ faults = 0

Fault == faults < MaxFaults /\ faults' = faults + 1

IsOpen(s) == s # NoSocket /\ sockets[s].state \in {"open", "dead"}
Active(s) == s # NoSocket /\ sockets[s].state \in {"connecting", "open", "dead"}

Frame(kind, o) == [kind |-> kind, owner |-> o, stale |-> FALSE]

\* What the other end of s gets; a dead socket swallows it.
Sent(n, s, frames) ==
    IF n[s].state = "dead" THEN n ELSE [n EXCEPT ![s].frames = @ \o frames]

\* ws.close(): the close event comes later.
Closed(n, s) == IF Active(s) THEN [n EXCEPT ![s].state = "closing"] ELSE n

\* The messages of q that did not wait too long, of the first i for each i.
FreshAmong(q) ==
    LET kept[i \in 0..Len(q)] ==
            IF i = 0 THEN <<>>
            ELSE IF q[i].stale THEN kept[i - 1] ELSE Append(kept[i - 1], q[i])
    IN  kept

\* cleanupState
FreshOnly(q) == FreshAmong(q)[Len(q)]

QueueAfter(preserve) == IF preserve THEN FreshOnly(queue) ELSE <<>>

\* establishConnection, the socket being made of the ones in n.
Establish(o, n) ==
    \E s \in Sockets :
        /\ n[s].state = "none"
        /\ sockets' = [n EXCEPT ![s] = [Unused EXCEPT !.state = "connecting", !.owner = o]]
        /\ cur' = s /\ fence' = s

\* disconnect(), up to the callbacks: room:leave, and nothing is left.
Left ==
    Closed(IF connected /\ IsOpen(cur) THEN Sent(sockets, cur, <<Frame("leave", owner)>>) ELSE sockets, cur)

Down == connected' = FALSE /\ registered' = FALSE

-----------------------------------------------------------------------------
Call == calls < MaxCalls /\ calls' = calls + 1

\* connect(); nothing happens if the socket of this room lives.
Connect(o) ==
    /\ Call
    /\ ~(owner = o /\ Active(cur))
    /\ Establish(o, Left)
    /\ owner' = o /\ Down /\ retrying' = FALSE /\ queue' = QueueAfter(FALSE)
    /\ UNCHANGED faults

\* reconnect(), which a socket that is connecting for the same owner ignores.
Reconnect(o) ==
    /\ Call
    /\ ~(owner = o /\ cur # NoSocket /\ sockets[cur].state = "connecting")
    /\ Establish(o, Closed(sockets, cur))
    /\ owner' = o /\ Down /\ retrying' = FALSE /\ queue' = QueueAfter(o = owner)
    /\ UNCHANGED faults

Disconnect ==
    /\ Call
    /\ sockets' = Left /\ cur' = NoSocket /\ fence' = NoSocket /\ owner' = NoOwner
    /\ Down /\ retrying' = FALSE /\ queue' = QueueAfter(FALSE)
    /\ UNCHANGED faults

\* sendRaw
Send ==
    /\ \/ IsOpen(cur) /\ Len(sockets[cur].frames) < MaxFrames
          /\ sockets' = Sent(sockets, cur, <<Frame("signal", owner)>>) /\ UNCHANGED queue
       \/ ~IsOpen(cur) /\ Len(queue) < MaxQueue
          /\ queue' = Append(queue, Frame("signal", owner)) /\ UNCHANGED sockets
    /\ UNCHANGED <<owner, cur, fence, connected, registered, retrying, calls, faults>>

\* Thirty seconds pass for what is queued.
Age ==
    /\ queue # <<>>
    /\ queue' = [i \in DOMAIN queue |-> [queue[i] EXCEPT !.stale = TRUE]]
    /\ UNCHANGED <<owner, cur, fence, connected, registered, retrying, sockets, calls, faults>>

\* Slip: what was queued goes out before the room is joined.
FlushedFirst(q, o) == FreshOnly(q) \o <<Frame("join", o)>>

Flushed(q, o) == <<Frame("join", o)>> \o FreshOnly(q)

IsCurrent(s) == fence = s

\* onopen of s: join, then the queue; of a retired socket, close it.  What is
\* said goes over this.ws.
OnOpen(s, n) ==
    IF IsCurrent(s)
    THEN /\ connected' = TRUE
         /\ IF n[cur].state \in {"open", "dead"}
            THEN sockets' = Sent(n, cur, Flushed(queue, owner)) /\ queue' = <<>>
            ELSE sockets' = n /\ queue' = Append(queue, Frame("join", owner))
    ELSE sockets' = Closed(n, s) /\ UNCHANGED <<connected, queue>>

Opens(s) ==
    /\ sockets[s].state = "connecting"
    /\ OnOpen(s, [sockets EXCEPT ![s].state = "open"])
    /\ UNCHANGED <<owner, cur, fence, registered, retrying, calls, faults>>

\* A socket that was retired while it connected has its open event queued.
OpensLate(s) ==
    /\ sockets[s].state = "closing" /\ sockets[s].frames = <<>> /\ s # cur /\ cur # NoSocket
    /\ Len(queue) < MaxQueue
    /\ OnOpen(s, sockets)
    /\ UNCHANGED <<owner, cur, fence, registered, retrying, calls, faults>>

\* The server takes the join and says so in a roster.
Joins(s) ==
    /\ sockets[s].state = "open" /\ ~sockets[s].answer
    /\ \E i \in DOMAIN sockets[s].frames : sockets[s].frames[i].kind = "join"
    /\ sockets' = [sockets EXCEPT ![s].answer = TRUE]
    /\ UNCHANGED <<owner, cur, fence, connected, registered, queue, retrying, calls, faults>>

\* onmessage, handleIncomingMessage: a roster of this room, of this socket.
Hears(s) ==
    /\ sockets[s].answer /\ sockets[s].state \in {"open", "closing"} /\ ~registered
    /\ IsCurrent(s) /\ sockets[s].owner = owner
    /\ registered' = TRUE
    /\ UNCHANGED <<owner, cur, fence, connected, queue, retrying, sockets, calls, faults>>

\* Slip: only a socket that had been open is replaced.
OnCloseOfOpen(s) ==
    IF IsCurrent(s)
    THEN /\ cur' = NoSocket /\ Down /\ queue' = QueueAfter(TRUE)
         /\ retrying' = (retrying \/ (owner # NoOwner /\ connected))
    ELSE UNCHANGED <<cur, connected, registered, queue, retrying>>

\* onclose: clean up and try again.
OnClose(s) ==
    IF IsCurrent(s)
    THEN /\ cur' = NoSocket /\ Down /\ queue' = QueueAfter(TRUE)
         /\ retrying' = (retrying \/ owner # NoOwner)
    ELSE UNCHANGED <<cur, connected, registered, queue, retrying>>

Refused(s) ==
    /\ sockets[s].state = "connecting" /\ Fault
    /\ sockets' = [sockets EXCEPT ![s] = Unused] /\ OnClose(s)
    /\ UNCHANGED <<owner, fence, calls>>

Lost(s) ==
    /\ sockets[s].state = "open" /\ Fault
    /\ sockets' = [sockets EXCEPT ![s] = Unused] /\ OnClose(s)
    /\ UNCHANGED <<owner, fence, calls>>

CloseEnds(s) ==
    /\ sockets[s].state = "closing"
    /\ sockets' = [sockets EXCEPT ![s] = Unused]
    /\ IF s = cur THEN OnClose(s) ELSE UNCHANGED <<cur, connected, registered, queue, retrying>>
    /\ UNCHANGED <<owner, fence, calls, faults>>

Dies(s) ==
    /\ sockets[s].state = "open" /\ Fault
    /\ sockets' = [sockets EXCEPT ![s].state = "dead"]
    /\ UNCHANGED <<owner, cur, fence, connected, registered, queue, retrying, calls>>

\* The watchdog of the heartbeat; a pong that is only late is a fault too.
PongTimeout ==
    /\ connected /\ IsOpen(cur)
    /\ IF sockets[cur].state = "dead" THEN UNCHANGED faults ELSE Fault
    /\ sockets' = Closed(sockets, cur)
    /\ UNCHANGED <<owner, cur, fence, connected, registered, queue, retrying, calls>>

\* The backoff timer.
Retry ==
    /\ retrying /\ retrying' = FALSE
    /\ IF Active(cur) THEN UNCHANGED <<sockets, cur, fence>> ELSE Establish(owner, sockets)
    /\ UNCHANGED <<owner, connected, registered, queue, calls, faults>>

Socket(s) ==
    Opens(s) \/ OpensLate(s) \/ Joins(s) \/ Hears(s) \/ Refused(s) \/ Lost(s) \/ CloseEnds(s) \/ Dies(s)

Next ==
    \/ \E o \in Owners : Connect(o) \/ Reconnect(o)
    \/ Disconnect \/ Send \/ Age \/ PongTimeout \/ Retry
    \/ \E s \in Sockets : Socket(s)

Spec == Init /\ [][Next]_vars

\* Timers fire, sockets settle, a server that is there answers.
Settles(s) == Opens(s) \/ Joins(s) \/ Hears(s) \/ CloseEnds(s)
Fairness == WF_vars(PongTimeout) /\ WF_vars(Retry) /\ \A s \in Sockets : WF_vars(Settles(s))
FairSpec == Spec /\ Fairness

-----------------------------------------------------------------------------
\* Every variable keeps its type (signaling.service.ts:88-112).
TypeOK ==
    /\ owner \in Owners \cup {NoOwner} /\ {cur, fence} \subseteq Sockets \cup {NoSocket}
    /\ {connected, registered, retrying} \subseteq BOOLEAN
    /\ Len(queue) <= MaxQueue /\ calls \in 0..MaxCalls /\ faults \in 0..MaxFaults
    /\ \A s \in Sockets :
        /\ sockets[s].state \in {"none", "connecting", "open", "dead", "closing"}
        /\ sockets[s].owner \in Owners \cup {NoOwner} /\ sockets[s].answer \in BOOLEAN

\* What a socket carries begins with the join of its room and is all of that
\* room and identity: nothing queued for another goes with it
\* (signaling.service.ts:311-332, 233-238).
FramesOfTheRoom ==
    \A s \in Sockets : \A i \in DOMAIN sockets[s].frames :
        /\ sockets[s].frames[i].owner = sockets[s].owner
        /\ (i = 1) <=> (sockets[s].frames[i].kind = "join")

\* A description that waited too long is not sent any more
\* (signaling.service.ts:325-332).
NothingStale == \A s \in Sockets : \A i \in DOMAIN sockets[s].frames : ~sockets[s].frames[i].stale

\* The room counts as joined only while the socket in use is one that joined it,
\* and no callback of a retired socket says otherwise
\* (signaling.service.ts:299-303, 337-341, 370-373).
StateIsOfTheSocket ==
    /\ registered => cur # NoSocket /\ sockets[cur].answer /\ sockets[cur].owner = owner
    /\ connected => cur # NoSocket /\ sockets[cur].state \in {"open", "dead", "closing"}

\* A room that stays wanted is joined, whatever sockets were refused, lost or
\* went dead before (signaling.service.ts:358-373, 555-614).
IsRejoined == owner # NoOwner => registered
Rejoined == <>[]IsRejoined
=============================================================================
