----------------------------- MODULE TimerSync ------------------------------
(***************************************************************************)
(* The focus timer (features/timer, content/floating-widget.ts): the side  *)
(* panel and the widget of every tab each hold a copy of one state kept in *)
(* extension storage.  A surface changes its copy and writes it; storage   *)
(* tells every surface, the writer too, in the order of the writes.  The   *)
(* panel completes a countdown while it is open, otherwise the widgets do. *)
(* A read of the storage is answered in order with the change events.      *)
(***************************************************************************)
EXTENDS Naturals, FiniteSets, Sequences

CONSTANTS
    Widgets,    \* the tabs with a widget
    AutoStart,  \* autoStartBreaks
    MaxNow,     \* bound on the clock
    MaxRuns,    \* bound on the countdowns begun
    MaxActs     \* bound on what the user does

Panel == "panel"
Surfaces == Widgets \cup {Panel}
Modes == {"pomodoro", "short_break", "stopwatch"}
EditedTo == 2   \* the value an edit sets
Duration == [pomodoro |-> 1, short_break |-> 1, stopwatch |-> 0]

VARIABLES
    now,
    storage,     \* the stored timer state
    copies,      \* copies[s]: the state s holds
    events,      \* events[s]: storage changes and read answers on their way to s
    open,        \* the panel is there
    initialized, \* the panel has read the storage
    pending,     \* an action of the user waits for that
    panelOpen,   \* panelOpen[w]: sidePanelOpen of the widget
    begun,       \* countdowns begun so far
    finished,    \* focus countdowns some surface has completed
    acts         \* what the user has done so far

vars == <<now, storage, copies, events, open, initialized, pending, panelOpen, begun,
          finished, acts>>

\* left is the value shown while stopped; while a countdown runs it is derived
\* from the deadline, and left is 0.  run names the countdown, 0 when stopped.
States == [mode : Modes, isRunning : BOOLEAN, deadline : 0 .. MaxNow + 2, left : 0 .. 2,
           sessions : Nat, run : 0 .. MaxRuns]

Fresh(mode, sessions) ==
    [mode |-> mode, isRunning |-> FALSE, deadline |-> 0, left |-> Duration[mode],
     sessions |-> sessions, run |-> 0]

Init ==
    /\ now = 0
    /\ storage = Fresh("pomodoro", 0)
    /\ copies = [s \in Surfaces |-> Fresh("pomodoro", 0)]
    /\ events = [s \in Surfaces |-> <<>>]
    /\ open = FALSE /\ initialized = FALSE /\ pending = FALSE
    /\ panelOpen = [w \in Widgets |-> FALSE]
    /\ begun = 0 /\ finished = {}
    /\ acts = 0

Alive(s) == s # Panel \/ open
Ready(s) == s # Panel \/ (open /\ initialized)

-----------------------------------------------------------------------------
(* The transitions of a state (timer-state.ts).                            *)

IsCountdown(state) == state.mode # "stopwatch"
computeTimerTime(state) ==
    IF ~state.isRunning \/ ~IsCountdown(state) THEN state.left
    ELSE IF state.deadline > now THEN state.deadline - now ELSE 0

\* A state read from storage: a stopped one keeps its value and no deadline, a
\* running one its deadline, also when that is past.
normalizeTimerState(state) ==
    IF state.isRunning THEN state
    ELSE [state EXCEPT !.deadline = 0, !.left = computeTimerTime(state)]

startTimerState(state, run) ==
    IF IsCountdown(state) /\ computeTimerTime(state) = 0
      THEN [state EXCEPT !.isRunning = FALSE, !.deadline = 0, !.left = 0, !.run = 0]
      ELSE [state EXCEPT !.isRunning = TRUE, !.run = run, !.left = 0,
                         !.deadline = IF IsCountdown(state) THEN now + computeTimerTime(state)
                                                            ELSE 0]

pauseTimerState(state) ==
    [state EXCEPT !.isRunning = FALSE, !.deadline = 0, !.left = computeTimerTime(state),
                  !.run = 0]

Expired(state) ==
    state.isRunning /\ IsCountdown(state) /\ computeTimerTime(state) = 0

\* What comes after a completed countdown.
Completed(state) ==
    IF state.mode = "pomodoro" THEN Fresh("short_break", state.sessions + 1)
                               ELSE Fresh("pomodoro", state.sessions)
Continues(state) == state.mode = "pomodoro" /\ AutoStart /\ begun < MaxRuns

-----------------------------------------------------------------------------
(* Storage.                                                                *)

Tell(queues, event) ==
    [s \in Surfaces |-> IF Alive(s) THEN Append(queues[s], event) ELSE queues[s]]
Act == acts < MaxActs /\ acts' = acts + 1

\* s adopts a state and saves it.
saveState(s, queues, state) ==
    /\ copies' = [copies EXCEPT ![s] = state]
    /\ storage' = state
    /\ events' = Tell(queues, [key |-> "state", value |-> state])

\* Pause when running, start when not.
toggle(s, queues, state) ==
    IF state.isRunning
      THEN saveState(s, queues, pauseTimerState(state)) /\ UNCHANGED begun
      ELSE /\ begun < MaxRuns /\ begun' = begun + 1
           /\ saveState(s, queues, startTimerState(state, begun + 1))

Toggle(s) ==
    /\ Alive(s) /\ Act
    /\ IF Ready(s)
         THEN toggle(s, events, copies[s]) /\ UNCHANGED pending
         ELSE pending' = TRUE /\ UNCHANGED <<copies, storage, events, begun>>
    /\ UNCHANGED <<now, open, initialized, panelOpen, finished>>

\* reset and setMode
setMode(s, mode) ==
    /\ Ready(s) /\ Act
    /\ saveState(s, events, Fresh(mode, copies[s].sessions))
    /\ UNCHANGED <<now, open, initialized, pending, panelOpen, begun, finished>>

\* An edit keeps a running timer running.
setTime(s, seconds) ==
    /\ Ready(s) /\ Act /\ IsCountdown(copies[s])
    /\ saveState(s, events,
                 IF copies[s].isRunning THEN [copies[s] EXCEPT !.deadline = now + seconds]
                                        ELSE [copies[s] EXCEPT !.left = seconds])
    /\ UNCHANGED <<now, open, initialized, pending, panelOpen, begun, finished>>

\* The tick of a surface that owns completion.
Owns(s) == IF s = Panel THEN open /\ initialized ELSE ~panelOpen[s]

handleSessionComplete(s) ==
    /\ Owns(s) /\ Expired(copies[s])
    /\ LET next == Completed(copies[s]) IN
       IF Continues(copies[s])
         THEN saveState(s, events, startTimerState(next, begun + 1)) /\ begun' = begun + 1
         ELSE saveState(s, events, next) /\ UNCHANGED begun
    /\ finished' = IF copies[s].mode = "pomodoro" THEN finished \cup {copies[s].run}
                                                  ELSE finished
    /\ UNCHANGED <<now, open, initialized, pending, panelOpen, acts>>

-----------------------------------------------------------------------------
(* Events at a surface.                                                    *)

First(s) == Head(events[s])
Rest(s) == [events EXCEPT ![s] = Tail(@)]


Heard(s, value) == normalizeTimerState(value)

handleStorageChange(s) ==
    /\ events[s] # <<>> /\ First(s).key = "state"
    /\ copies' = [copies EXCEPT ![s] = Heard(s, First(s).value)]
    /\ events' = Rest(s)
    /\ UNCHANGED <<now, storage, open, initialized, pending, panelOpen, begun, finished, acts>>

\* A widget that sees the panel close reads the state again.
panelFlag(w) ==
    /\ events[w] # <<>> /\ First(w).key = "panel"
    /\ panelOpen' = [panelOpen EXCEPT ![w] = First(w).value]
    /\ events' = IF panelOpen[w] /\ ~First(w).value
                   THEN [events EXCEPT ![w] = Append(Tail(@), [key |-> "read", value |-> storage])]
                   ELSE Rest(w)
    /\ UNCHANGED <<now, storage, copies, open, initialized, pending, begun, finished, acts>>

\* The answer to a read; the panel's first one ends its initialisation and runs
\* the action that waited.
loadState(s) ==
    /\ events[s] # <<>> /\ First(s).key = "read"
    /\ LET state == normalizeTimerState(First(s).value) IN
       IF pending /\ s = Panel /\ (state.isRunning \/ begun < MaxRuns)
         THEN toggle(s, Rest(s), state) /\ pending' = FALSE
         ELSE /\ copies' = [copies EXCEPT ![s] = state] /\ events' = Rest(s)
              /\ pending' = (pending /\ s # Panel)
              /\ UNCHANGED <<storage, begun>>
    /\ initialized' = (initialized \/ s = Panel)
    /\ UNCHANGED <<now, open, panelOpen, finished, acts>>

OpenPanel ==
    /\ ~open /\ open' = TRUE /\ Act
    /\ events' = [s \in Surfaces |->
           IF s = Panel THEN <<[key |-> "read", value |-> storage]>>
                        ELSE Append(events[s], [key |-> "panel", value |-> TRUE])]
    /\ copies' = [copies EXCEPT ![Panel] = Fresh("pomodoro", 0)]
    /\ UNCHANGED <<now, storage, initialized, pending, panelOpen, begun, finished>>

ClosePanel ==
    /\ open /\ open' = FALSE /\ Act
    /\ initialized' = FALSE /\ pending' = FALSE
    /\ events' = [s \in Surfaces |->
           IF s = Panel THEN <<>> ELSE Append(events[s], [key |-> "panel", value |-> FALSE])]
    /\ UNCHANGED <<now, storage, copies, panelOpen, begun, finished>>

Clock ==
    /\ now < MaxNow /\ now' = now + 1
    /\ UNCHANGED <<storage, copies, events, open, initialized, pending, panelOpen, begun,
                   finished, acts>>

Next ==
    \/ \E s \in Surfaces :
          \/ Toggle(s) \/ handleSessionComplete(s) \/ handleStorageChange(s) \/ loadState(s)
          \/ \E mode \in Modes : setMode(s, mode)
          \/ setTime(s, EditedTo)
    \/ \E w \in Widgets : panelFlag(w)
    \/ OpenPanel \/ ClosePanel \/ Clock

Event(s) == handleStorageChange(s) \/ loadState(s) \/ (s \in Widgets /\ panelFlag(s))

FairSpec ==
    /\ Init /\ [][Next]_vars
    /\ \A s \in Surfaces : WF_vars(handleSessionComplete(s)) /\ WF_vars(Event(s))

-----------------------------------------------------------------------------
TypeOK ==
    /\ now \in 0 .. MaxNow /\ storage \in States /\ copies \in [Surfaces -> States]
    /\ open \in BOOLEAN /\ initialized \in BOOLEAN /\ pending \in BOOLEAN
    /\ panelOpen \in [Widgets -> BOOLEAN]
    /\ begun \in 0 .. MaxRuns /\ finished \subseteq 1 .. MaxRuns

Quiet == \A s \in Surfaces : events[s] = <<>>

\* With no event on its way every surface shows what is stored, whoever wrote
\* while whose change was still under way.
Agree == Quiet => \A s \in Surfaces : Ready(s) => copies[s] = storage

\* A focus session is counted once, also when two widgets complete it, or the
\* panel and a widget that has not heard of the panel yet.
CountedOnce == storage.sessions <= Cardinality(finished)

\* A countdown past its end is completed by somebody.
NotOverdue == ~Expired(storage)
=============================================================================
