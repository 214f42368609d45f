--------------------------- MODULE BoardSurfaces ----------------------------
(***************************************************************************)
(* The whiteboards of one user: the side panel and the standalone window   *)
(* each run a WhiteboardService (features/whiteboard/whiteboard.service.ts)*)
(* and web pages a floating widget (content/floating-widget.ts).  They     *)
(* share storage, whose changes are told to everyone, a broadcast channel  *)
(* between the services, and runtime messages.  Each of the three keeps    *)
(* order, none waits for another.  A notebook is one page: its strokes and *)
(* what undo took off it.                                                  *)
(***************************************************************************)
EXTENDS Naturals, Sequences, SequencesExt

CONSTANTS
    Services, Widgets,
    Drawers,              \* the surfaces the user works on
    Rooms, Home,          \* Home: the room at first, and that of the pages
    FirstMode,            \* the mode at first
    MaxStrokes,           \* bound on strokes, remote ones included
    MaxActs,              \* bound on undo, redo, clear and change of mode
    MaxMoves              \* bound on room changes

Surfaces == Services \cup Widgets
Modes == {"personal", "collaborative"}
Personal == "personal"
Blank == [strokes |-> {}, redo |-> <<>>]

\* A room's notebook is stored under the room, beside the personal one and the mode.
\* MCFeatures assumes it of the instances.
SurfacesAssumption ==
    /\ Home \in Rooms /\ FirstMode \in Modes
    /\ Services \cap Widgets = {} /\ {Personal, "mode"} \cap Rooms = {}
    /\ MaxStrokes \in Nat

VARIABLES
    room,        \* room[s]: currentRoomId of a service
    generation,  \* roomGeneration
    hydrated,    \* collabRoomHydrated
    dirty,       \* collabDirtyBeforeHydration
    loads,       \* loads[s]: reads of a room's notebook not answered yet
    mode,        \* mode[x]: privacyMode
    board,       \* board[x][m]: the notebook of surface x for mode m
    stored,      \* stored[k]: notebook kept for a room, or the personal one
    ownWrites,   \* ownWrites[s]: writes whose change event is not to count
    bus, runtime, changes,   \* messages on their way to a surface
    drawn,       \* drawn[n]: room and mode stroke n was made in
    published,   \* strokes broadcast to the room
    removed,     \* strokes some surface took off
    acts, moves

vars == <<room, generation, hydrated, dirty, loads, mode, board, stored, ownWrites, bus,
          runtime, changes, drawn, published, removed, acts, moves>>

Strokes == 1 .. MaxStrokes
Keys == Rooms \cup {Personal}
Empty(S) == [x \in S |-> <<>>]

Init ==
    /\ room = [s \in Services |-> Home]
    /\ generation = [s \in Services |-> 1]
    /\ hydrated = [s \in Services |-> TRUE] /\ dirty = [s \in Services |-> FALSE]
    /\ loads = [s \in Services |-> {}]
    /\ mode = [x \in Surfaces |-> FirstMode]
    /\ board = [x \in Surfaces |-> [m \in Modes |-> Blank]]
    /\ stored = [k \in Keys |-> Blank]
    /\ ownWrites = Empty(Services)
    /\ bus = Empty(Services) /\ runtime = Empty(Surfaces) /\ changes = Empty(Surfaces)
    /\ drawn = <<>> /\ published = {} /\ removed = {}
    /\ acts = 0 /\ moves = 0

RoomOf(x) == IF x \in Services THEN room[x] ELSE Home

-----------------------------------------------------------------------------
(* What every change of a notebook ends with.                              *)

Tell(queues, targets, message) ==
    [x \in DOMAIN queues |-> IF x \in targets THEN Append(queues[x], message) ELSE queues[x]]

ModeOf(key) == IF key = Personal THEN Personal ELSE "collaborative"
KeyOf(x, m) == IF m = Personal THEN Personal ELSE RoomOf(x)
Waiting(x, m) == x \in Services /\ m # Personal /\ ~hydrated[x]

\* Storage tells of a value that is new to it; a service notes its own writes.
write(x, key, notebook) ==
    /\ stored' = [stored EXCEPT ![key] = notebook]
    /\ changes' = IF stored[key] = notebook THEN changes
                  ELSE Tell(changes, Surfaces, [key |-> key, value |-> notebook])
    /\ ownWrites' = IF x \notin Services THEN ownWrites
                    ELSE [ownWrites EXCEPT ![x] = Append(@, [key |-> key, value |-> notebook])]

\* x holds the notebook and saves it; before its room is read it only notes so.
save(x, m, notebook) ==
    /\ board' = [board EXCEPT ![x][m] = notebook]
    /\ IF Waiting(x, m)
         THEN dirty' = [dirty EXCEPT ![x] = TRUE] /\ UNCHANGED <<stored, ownWrites, changes>>
         ELSE write(x, KeyOf(x, m), notebook) /\ UNCHANGED dirty

\* The message to the other service, and the one to every other surface.
broadcastLocal(x, m, change) ==
    bus' = IF x \in Services
             THEN Tell(bus, Services \ {x}, [scope |-> m, room |-> RoomOf(x), change |-> change])
             ELSE bus
broadcastRuntime(x, change) ==
    runtime' = Tell(runtime, Surfaces \ {x}, [room |-> RoomOf(x), change |-> change])

Put(n) == [kind |-> "stroke", stroke |-> n]
Take(n) == [kind |-> "undo", stroke |-> n]
Wipe == [kind |-> "clear", stroke |-> 0]

\* A notebook after another surface's change.
Changed(notebook, change) ==
    CASE change.kind = "stroke" -> [notebook EXCEPT !.strokes = @ \cup {change.stroke}]
      [] change.kind = "undo" -> [notebook EXCEPT !.strokes = @ \ {change.stroke}]
      [] change.kind = "clear" -> Blank

Publish(m, S) == published' = IF m = "collaborative" THEN published \cup S ELSE published

\* Slip: whatever the mode.
TellsAlways(x, m) == TRUE

\* A service tells in either mode; a widget tells of the shared board only.
Tells(x, m) == x \in Services \/ m = "collaborative"
edit(x, notebook, change) ==
    /\ save(x, mode[x], notebook)
    /\ broadcastLocal(x, mode[x], change)
    /\ IF Tells(x, mode[x]) THEN broadcastRuntime(x, change) ELSE UNCHANGED runtime
    /\ Publish(IF x \in Services THEN mode[x] ELSE Personal,
               IF change.kind = "stroke" THEN {change.stroke} ELSE {})
    /\ UNCHANGED <<room, generation, hydrated, loads, mode, moves>>

-----------------------------------------------------------------------------
(* What the user does.                                                     *)

Act == acts < MaxActs /\ acts' = acts + 1 /\ UNCHANGED drawn

addStroke(x) ==
    /\ x \in Drawers /\ Len(drawn) < MaxStrokes
    /\ drawn' = Append(drawn, [room |-> RoomOf(x), mode |-> mode[x]])
    /\ edit(x, [strokes |-> board[x][mode[x]].strokes \cup {Len(drawn')}, redo |-> <<>>],
            Put(Len(drawn')))
    /\ UNCHANGED <<removed, acts>>

\* undo, deleteStroke and the eraser
deleteStroke(x, n) ==
    /\ x \in Drawers /\ n \in board[x][mode[x]].strokes /\ Act
    /\ removed' = removed \cup {n}
    /\ edit(x, [strokes |-> board[x][mode[x]].strokes \ {n},
                redo |-> Append(board[x][mode[x]].redo, n)], Take(n))

\* The stack of removed strokes belongs to the board they were taken from.
RedoStack(x) == board[x][mode[x]].redo

redo(x) ==
    /\ x \in Drawers /\ RedoStack(x) # <<>> /\ Act
    /\ edit(x, [strokes |-> board[x][mode[x]].strokes \cup {Last(RedoStack(x))},
                redo |-> Front(RedoStack(x))], Put(Last(RedoStack(x))))
    /\ UNCHANGED removed

clearAll(x) ==
    LET strokes == board[x][mode[x]].strokes IN
    /\ x \in Drawers /\ strokes # {} /\ Act
    /\ removed' = removed \cup strokes
    /\ edit(x, [strokes |-> {}, redo |-> SetToSeq(strokes)], Wipe)

\* The stored mode is told to everyone; a widget saves both its boards first.
Saved(x) ==
    IF x \in Services THEN stored
    ELSE [k \in Keys |-> IF k \in {Personal, Home} THEN board[x][ModeOf(k)] ELSE stored[k]]

setPrivacyMode(x, m) ==
    /\ x \in Drawers /\ mode[x] # m /\ Act
    /\ mode' = [mode EXCEPT ![x] = m]
    /\ stored' = Saved(x)
    /\ changes' = [y \in Surfaces |->
           changes[y] \o
           SetToSeq({[key |-> k, value |-> Saved(x)[k]] : k \in {k \in Keys : Saved(x)[k] # stored[k]}})
           \o (IF y = x THEN <<>> ELSE <<[key |-> "mode", value |-> m]>>)]
    /\ UNCHANGED <<room, generation, hydrated, dirty, loads, board, ownWrites, bus, runtime,
                   published, removed, moves>>

-----------------------------------------------------------------------------
(* What arrives.                                                           *)

First(queues, x) == Head(queues[x])
Taken(queues, x) == [queues EXCEPT ![x] = Tail(@)]

\* The other service's change, for a service in the same mode and room.
OnBus(s) ==
    LET msg == First(bus, s)
        counts == msg.scope = mode[s] /\ (msg.scope = Personal \/ msg.room = room[s]) IN
    /\ bus[s] # <<>> /\ bus' = Taken(bus, s)
    /\ board' = [board EXCEPT ![s][mode[s]] = IF counts THEN Changed(@, msg.change) ELSE @]
    /\ UNCHANGED <<room, generation, hydrated, dirty, loads, mode, stored, ownWrites, runtime,
                   changes, drawn, published, removed, acts, moves>>

\* A service takes any surface's stroke into the shared board, and broadcasts it.
StrokeToPublish(s, n) == {n}

OnRuntimeService(s) ==
    LET msg == First(runtime, s) IN
    /\ runtime[s] # <<>> /\ runtime' = Taken(runtime, s)
    /\ IF msg.room = room[s]
         THEN /\ save(s, "collaborative", Changed(board[s]["collaborative"], msg.change))
              /\ broadcastLocal(s, "collaborative", msg.change)
              /\ Publish("collaborative",
                         IF msg.change.kind = "stroke" THEN StrokeToPublish(s, msg.change.stroke)
                                                       ELSE {})
         ELSE UNCHANGED <<board, dirty, stored, ownWrites, changes, bus, published>>
    /\ UNCHANGED <<room, generation, hydrated, loads, mode, drawn, removed, acts, moves>>

OnRuntimeWidget(w) ==
    LET msg == First(runtime, w) IN
    /\ runtime[w] # <<>> /\ runtime' = Taken(runtime, w)
    /\ board' = [board EXCEPT ![w]["collaborative"] =
                    IF msg.room = Home THEN Changed(@, msg.change) ELSE @]
    /\ UNCHANGED <<room, generation, hydrated, dirty, loads, mode, stored, ownWrites, bus,
                   changes, drawn, published, removed, acts, moves>>

Concerns(x, key) == key = KeyOf(x, ModeOf(key))

\* A service skips the first event that equals one of its own writes.
OwnWrite(s, event) == SelectInSeq(ownWrites[s], LAMBDA entry : entry = event)

OnChange(x) ==
    LET event == First(changes, x)
        own == x \in Services /\ OwnWrite(x, event) > 0 IN
    /\ changes[x] # <<>> /\ changes' = Taken(changes, x)
    /\ mode' = [mode EXCEPT ![x] = IF event.key = "mode" THEN event.value ELSE @]
    /\ IF event.key = "mode" \/ ~Concerns(x, event.key)
         THEN UNCHANGED <<board, ownWrites>>
         ELSE /\ board' = IF own THEN board
                          ELSE [board EXCEPT ![x][ModeOf(event.key)] = event.value]
              /\ ownWrites' = IF ~own THEN ownWrites
                              ELSE [ownWrites EXCEPT ![x] = RemoveAt(@, OwnWrite(x, event))]
    /\ UNCHANGED <<room, generation, hydrated, dirty, loads, stored, bus, runtime, drawn,
                   published, removed, acts, moves>>

\* A stroke of another member of the room.
RemoteStroke(s) ==
    /\ Len(drawn) < MaxStrokes
    /\ drawn' = Append(drawn, [room |-> room[s], mode |-> "collaborative"])
    /\ save(s, "collaborative", Changed(board[s]["collaborative"], Put(Len(drawn'))))
    /\ broadcastLocal(s, "collaborative", Put(Len(drawn')))
    /\ broadcastRuntime(s, Put(Len(drawn')))
    /\ published' = published \cup {Len(drawn')}
    /\ UNCHANGED <<room, generation, hydrated, loads, mode, removed, acts, moves>>

-----------------------------------------------------------------------------
(* Rooms.                                                                  *)

\* The board of the room that is left is saved, unless it was never read.
setRoom(s, r) ==
    /\ room[s] # r /\ moves < MaxMoves /\ moves' = moves + 1
    /\ IF hydrated[s] THEN write(s, room[s], board[s]["collaborative"])
                      ELSE UNCHANGED <<stored, ownWrites, changes>>
    /\ room' = [room EXCEPT ![s] = r]
    /\ generation' = [generation EXCEPT ![s] = @ + 1]
    /\ hydrated' = [hydrated EXCEPT ![s] = FALSE] /\ dirty' = [dirty EXCEPT ![s] = FALSE]
    /\ board' = [board EXCEPT ![s]["collaborative"] = Blank]
    /\ loads' = [loads EXCEPT ![s] = @ \cup {[room |-> r, generation |-> generation'[s]]}]
    /\ UNCHANGED <<mode, bus, runtime, drawn, published, removed, acts>>

IsCurrentRoom(s, load) == load.room = room[s] /\ load.generation = generation[s]

\* What was drawn while the notebook was being read is added to it.
mergeNotebooks(old, local) ==
    [strokes |-> old.strokes \cup local.strokes, redo |-> old.redo]

Hydrate(s, load) ==
    /\ load \in loads[s] /\ loads' = [loads EXCEPT ![s] = @ \ {load}]
    /\ IF IsCurrentRoom(s, load)
         THEN LET notebook == IF dirty[s]
                                THEN mergeNotebooks(stored[load.room], board[s]["collaborative"])
                                ELSE stored[load.room] IN
              /\ hydrated' = [hydrated EXCEPT ![s] = TRUE]
              /\ dirty' = [dirty EXCEPT ![s] = FALSE]
              /\ board' = [board EXCEPT ![s]["collaborative"] = notebook]
              /\ IF dirty[s] THEN write(s, load.room, notebook)
                             ELSE UNCHANGED <<stored, ownWrites, changes>>
         ELSE UNCHANGED <<hydrated, dirty, board, stored, ownWrites, changes>>
    /\ UNCHANGED <<room, generation, mode, bus, runtime, drawn, published, removed, acts, moves>>

Next ==
    \/ \E x \in Surfaces :
          \/ addStroke(x) \/ redo(x) \/ clearAll(x) \/ OnChange(x)
          \/ \E n \in Strokes : deleteStroke(x, n)
          \/ \E m \in Modes : setPrivacyMode(x, m)
    \/ \E s \in Services :
          \/ OnBus(s) \/ OnRuntimeService(s) \/ RemoteStroke(s)
          \/ \E r \in Rooms : setRoom(s, r)
          \/ \E load \in loads[s] : Hydrate(s, load)
    \/ \E w \in Widgets : OnRuntimeWidget(w)

Spec == Init /\ [][Next]_vars

-----------------------------------------------------------------------------
Notebook == [strokes : SUBSET Strokes, redo : Seq(Strokes)]

TypeOK ==
    /\ room \in [Services -> Rooms] /\ hydrated \in [Services -> BOOLEAN]
    /\ dirty \in [Services -> BOOLEAN] /\ mode \in [Surfaces -> Modes]
    /\ board \in [Surfaces -> [Modes -> Notebook]] /\ stored \in [Keys -> Notebook]
    /\ published \subseteq Strokes /\ removed \subseteq Strokes

\* "the board belongs to this room": no stroke is on the board of another room,
\* in memory or in storage, whatever was being read or written during a change.
OfItsRoom ==
    /\ \A s \in Services : \A n \in board[s]["collaborative"].strokes : drawn[n].room = room[s]
    /\ \A r \in Rooms : \A n \in stored[r].strokes : drawn[n].room = r

\* A stored board loses no stroke that nobody took off: the empty board shown
\* before a room has been read is never written over the real one.
StoredKept == \A r \in Rooms : stored[r].strokes \subseteq stored'[r].strokes \cup removed'
KeepsStored == [][StoredKept]_vars

\* A stroke drawn on the shared board of any surface is broadcast to the room,
\* in whatever order its three messages reach the panel.
Quiet ==
    /\ \A s \in Services : bus[s] = <<>> /\ hydrated[s]
    /\ \A x \in Surfaces : runtime[x] = <<>> /\ changes[x] = <<>>
DrawnIsPublished ==
    Quiet => \A n \in DOMAIN drawn : drawn[n].mode = "collaborative" => n \in published

\* "personal pages ... must never be sent over the peer network".
PersonalStaysPrivate == \A n \in published : drawn[n].mode # Personal
=============================================================================
