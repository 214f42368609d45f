--------------------------- MODULE ContextRegistry ---------------------------
(***************************************************************************)
(* The background service worker's map from tabs to rooms                  *)
(* (context-registry.ts, service-worker.ts).  The browser stops the worker *)
(* when it is idle and starts it again, with an empty heap, for the next   *)
(* event; chrome.storage.session keeps a snapshot in between, and the      *)
(* events that woke the worker are handled while the snapshot is still     *)
(* being read.                                                             *)
(*                                                                         *)
(* Of an entry only the room matters here.  Entries of a snapshot are      *)
(* older (lastActiveAt) than any made since the worker started.            *)
(*                                                                         *)
(* A definition introduced by "Slip:" is no part of the model; see         *)
(* OrderingBuffer.                                                         *)
(***************************************************************************)
EXTENDS Integers, FiniteSets

CONSTANTS
    Tabs,
    Rooms,        \* rooms of problem pages and rooms chosen for a tab
    NoEntry,      \* not in the map; also: a page that is no problem page
    Unread,       \* not read yet
    MaxEvents     \* bound: navigations and closings of one tab

VARIABLES
    \* the browser
    page,         \* per tab, the room its page implies
    open,         \* is the tab open?
    events,       \* per tab, the event that is still to be delivered
    moves,        \* bookkeeping for the bound MaxEvents
    \* chrome.storage.session
    stored,       \* the snapshot
    \* the worker
    phase,        \* of registryReady
    foundEntries, \* the snapshot that was read, or "unread"
    foundTabs,    \* the tabs that were listed, or "unread"
    contexts,     \* ContextRegistry.contexts
    removed,      \* removedDuringHydration
    queued,       \* does a persistContextRegistry() wait for registryReady?
    \* history
    told          \* per tab, the room it was last said to be in

browserVars == <<page, open, events, moves>>
workerVars == <<phase, foundEntries, foundTabs, contexts, removed, queued>>
registryVars == <<browserVars, stored, workerVars, told>>

Entry == Rooms \cup {NoEntry}

\* The marks are no values of the code's maps.
RegistryAssumption ==
    /\ NoEntry \notin Rooms
    /\ \A entries \in [Tabs -> Entry] : Unread # entries
    /\ \A tabs \in SUBSET Tabs : Unread # tabs

Awake == phase # "asleep"

-----------------------------------------------------------------------------
(* The browser *)

Navigate(t, r) ==
    /\ open[t]
    /\ events[t] = "none"
    /\ moves[t] < MaxEvents
    /\ page' = [page EXCEPT ![t] = r]
    /\ events' = [events EXCEPT ![t] = "updated"]
    /\ moves' = [moves EXCEPT ![t] = @ + 1]
    /\ UNCHANGED <<open, stored, workerVars, told>>

CloseTab(t) ==
    /\ open[t]
    /\ events[t] = "none"
    /\ open' = [open EXCEPT ![t] = FALSE]
    /\ events' = [events EXCEPT ![t] = "removed"]
    /\ UNCHANGED <<page, moves, stored, workerVars, told>>

\* An event or a message is due: the worker's script runs and starts to read.
Wake ==
    /\ phase = "asleep"
    /\ phase' = "reading"
    /\ foundEntries' = Unread
    /\ foundTabs' = Unread
    /\ contexts' = [t \in Tabs |-> NoEntry]
    /\ removed' = {}
    /\ queued' = FALSE
    /\ UNCHANGED <<browserVars, stored, told>>

\* The browser stops the worker once it has been idle for long.
Suspend ==
    /\ phase = "ready"
    /\ phase' = "asleep"
    /\ UNCHANGED <<browserVars, stored, foundEntries, foundTabs, contexts, removed, queued, told>>

-----------------------------------------------------------------------------
(* registryReady *)

ReadEntries ==
    /\ phase = "reading"
    /\ foundEntries = Unread
    /\ foundEntries' = stored
    /\ UNCHANGED <<browserVars, stored, phase, foundTabs, contexts, removed, queued, told>>

ListTabs ==
    /\ phase = "reading"
    /\ foundTabs = Unread
    /\ foundTabs' = {t \in Tabs : open[t]}
    /\ UNCHANGED <<browserVars, stored, phase, foundEntries, contexts, removed, queued, told>>

\* Slip: the tabs closed in the meantime are not taken out.
EveryTabListed == foundTabs

LiveTabs == foundTabs \ removed

Restored(t) == foundEntries[t] # NoEntry /\ contexts[t] = NoEntry

\* hydrate and pruneStale: what the live tabs were known for comes back, except
\* entries past 24 hours; then the snapshot is written.
Hydrate ==
    /\ phase = "reading"
    /\ foundEntries # Unread
    /\ foundTabs # Unread
    /\ \E old \in SUBSET {t \in Tabs : contexts[t] = NoEntry} :
          contexts' = [t \in Tabs |-> IF t \in LiveTabs \ old /\ Restored(t)
                                      THEN foundEntries[t] ELSE contexts[t]]
    /\ stored' = contexts'
    /\ phase' = "writing"
    /\ UNCHANGED <<browserVars, foundEntries, foundTabs, removed, queued, told>>

\* registryReady is resolved; the writes that waited for it are made.
Ready ==
    /\ phase = "writing"
    /\ phase' = "ready"
    /\ stored' = IF queued THEN contexts ELSE stored
    /\ queued' = FALSE
    /\ UNCHANGED <<browserVars, contexts, removed, told>>
    /\ foundEntries' = Unread
    /\ foundTabs' = Unread

\* Reading fails: the worker goes on with what it has been told.
HydrationFails ==
    /\ phase = "reading"
    /\ phase' = "ready"
    /\ stored' = IF queued THEN contexts ELSE stored
    /\ queued' = FALSE
    /\ UNCHANGED <<browserVars, contexts, removed, told>>
    /\ foundEntries' = Unread
    /\ foundTabs' = Unread

-----------------------------------------------------------------------------
(* The listeners *)

\* contexts is about to change: persistContextRegistry.
Persist ==
    /\ stored' = IF phase = "ready" THEN contexts' ELSE stored
    /\ queued' = (phase # "ready")
    /\ UNCHANGED <<phase, foundEntries, foundTabs>>

\* onUpdated, onActivated and PROBLEM_DETECTED: updateTabContext.
TabUpdated(t) ==
    /\ Awake
    /\ events[t] = "updated"
    /\ events' = [events EXCEPT ![t] = "none"]
    /\ contexts' = [contexts EXCEPT ![t] = page[t]]
    /\ told' = [told EXCEPT ![t] = page[t]]
    /\ Persist
    /\ UNCHANGED <<page, open, moves, removed>>

TabRemoved(t) ==
    /\ Awake
    /\ events[t] = "removed"
    /\ events' = [events EXCEPT ![t] = "none"]
    /\ removed' = removed \cup {t}
    /\ contexts' = [contexts EXCEPT ![t] = NoEntry]
    /\ told' = [told EXCEPT ![t] = NoEntry]
    /\ Persist
    /\ UNCHANGED <<page, open, moves>>

\* SET_TAB_ROOM_CONTEXT: updateRoom.
SetRoom(t, r) ==
    /\ Awake
    /\ open[t] /\ events[t] = "none"
    /\ contexts' = [contexts EXCEPT ![t] = r]
    /\ told' = [told EXCEPT ![t] = r]
    /\ Persist
    /\ UNCHANGED <<browserVars, removed>>

-----------------------------------------------------------------------------
Init ==
    /\ page = [t \in Tabs |-> NoEntry]
    /\ open = [t \in Tabs |-> TRUE]
    /\ events = [t \in Tabs |-> "none"]
    /\ moves = [t \in Tabs |-> 0]
    /\ stored = [t \in Tabs |-> NoEntry]
    /\ phase = "asleep"
    /\ foundEntries = Unread
    /\ foundTabs = Unread
    /\ contexts = [t \in Tabs |-> NoEntry]
    /\ removed = {}
    /\ queued = FALSE
    /\ told = [t \in Tabs |-> NoEntry]

Next ==
    \/ \E t \in Tabs : \/ \E r \in Entry : Navigate(t, r)
                       \/ \E r \in Rooms : SetRoom(t, r)
                       \/ CloseTab(t) \/ TabUpdated(t) \/ TabRemoved(t)
    \/ Wake \/ Suspend \/ ReadEntries \/ ListTabs \/ Hydrate \/ Ready \/ HydrationFails

Spec == Init /\ [][Next]_registryVars

-----------------------------------------------------------------------------
TypeOK ==
    /\ page \in [Tabs -> Entry] /\ open \in [Tabs -> BOOLEAN]
    /\ events \in [Tabs -> {"none", "updated", "removed"}]
    /\ contexts \in [Tabs -> Entry] /\ stored \in [Tabs -> Entry] /\ told \in [Tabs -> Entry]
    /\ phase \in {"asleep", "reading", "writing", "ready"}
    /\ foundEntries = Unread \/ foundEntries \in [Tabs -> Entry]
    /\ foundTabs = Unread \/ foundTabs \subseteq Tabs
    /\ removed \subseteq Tabs
    /\ queued \in BOOLEAN

\* No closed tab comes back from the snapshot, whenever between the reading of
\* the snapshot, the listing of the tabs and their merging it was closed.
NoClosedTab ==
    phase \in {"writing", "ready"} =>
        \A t \in Tabs : (~open[t] /\ events[t] = "none") => contexts[t] = NoEntry

\* context-registry.ts:130 "without overwriting a context reported more recently":
\* the registry never puts a tab in a room it left for another one.
NewestRoomWins ==
    phase \in {"writing", "ready"} =>
        \A t \in Tabs : told[t] # NoEntry => contexts[t] \in {told[t], NoEntry}

\* The worker can be stopped at any time it is idle: the snapshot holds all it knew.
NothingOnlyInMemory == phase = "ready" => \A t \in Tabs : contexts[t] # NoEntry => stored[t] = contexts[t]

\* What the worker believes of the tabs is neither older than what it was told,
\* nor lost when it is stopped (context-registry.ts:120-173, service-worker.ts:199-236).
NoGhostTab == TypeOK /\ NoClosedTab /\ NewestRoomWins /\ NothingOnlyInMemory

\* service-worker.ts:364 "Route only to relevant tabs matching this room/session":
\* a tab that was last seen on no problem page is in no room.
OnlyRelevantTabs ==
    phase = "ready" => \A t \in Tabs : told[t] = NoEntry => contexts[t] = NoEntry
=============================================================================
