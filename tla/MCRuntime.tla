----------------------------- MODULE MCRuntime -----------------------------
(***************************************************************************)
(* The extension's documents and what they show, for TLC:                  *)
(*   "handoff"    the hand-off of the network session between two mounts   *)
(*                of panels                               (NetworkHandoff) *)
(*   "restarted"  the same with one mount while the active tab changes and *)
(*                the offscreen document is started again                  *)
(*   "registry"   the service worker's map of tabs       (ContextRegistry) *)
(*   "popup"      its whiteboard window                  (WhiteboardPopup) *)
(*   "editor"     the shared code in the pages' editors       (PageEditor) *)
(*   "board"      the whiteboards of the members               (BoardMesh) *)
(* They share no state, so a behaviour is of one of them, chosen once, and *)
(* the state spaces lie side by side.                                      *)
(***************************************************************************)
EXTENDS NetworkHandoff

CONSTANTS
    Tabs, Rooms, NoEntry, Unread, MaxEvents,                   \* of ContextRegistry
    MaxWindows,                                                \* of WhiteboardPopup
    Pages, PageRoom, NoPanelRoom, Template, MaxChanges,        \* of PageEditor
    Members, MaxStrokes, MaxPages, MaxActs, MaxModes,          \* of BoardMesh
    t1, t2, t3, a, b                                           \* tabs and rooms

VARIABLES
    page, open, events, moves, stored, phase, foundEntries, foundTabs, contexts,
    removed, queued, told,                        \* of ContextRegistry
    live, made, cached, remembered, busy, answers,  \* of WhiteboardPopup
    panelRoom, panelCode, text, debounce, changes, lastSentCode, toPanel, toScript,
    toPage, written, panelMoves,                  \* of PageEditor
    mode, pages, active, network, author, takenOff, added, acts, turns,  \* of BoardMesh
    which                                         \* the part this behaviour is of

Restarted == INSTANCE NetworkHandoff WITH
    MaxClaims <- 1, MaxJoins <- 2, MaxStarts <- 2, MaxTabs <- 1

Registry == INSTANCE ContextRegistry
Popup == INSTANCE WhiteboardPopup

Editor == INSTANCE PageEditor WITH
    Tabs <- Pages, TabRoom <- PageRoom, NoRoom <- NoPanelRoom,
    page <- text, moves <- panelMoves, MaxActs <- MaxChanges

Board == INSTANCE BoardMesh WITH Peers <- Members, removed <- takenOff

\* The rooms of three pages, two of which show the same room.
RoomOfPage == [t \in {t1, t2, t3} |-> IF t = t3 THEN b ELSE a]

\* What the theorems about them assume.
ASSUME RegistryAssumption == Registry!RegistryAssumption
ASSUME PopupAssumption == Popup!PopupAssumption
ASSUME EditorAssumption == Editor!EditorAssumption
ASSUME BoardAssumption == Board!BoardAssumption

registryVars == <<page, open, events, moves, stored, phase, foundEntries, foundTabs,
                  contexts, removed, queued, told>>
popupVars == <<live, made, cached, remembered, busy, answers>>
editorVars == <<panelRoom, panelCode, text, debounce, changes, lastSentCode, toPanel,
                toScript, toPage, written, panelMoves>>
boardVars == <<mode, pages, active, network, author, takenOff, added, acts, turns>>
MCVars == <<vars, registryVars, popupVars, editorVars, boardVars, which>>

Parts == {"handoff", "restarted", "registry", "popup", "editor", "board"}

MCInit ==
    /\ which \in Parts
    /\ IF which = "restarted" THEN Restarted!Init ELSE Init
    /\ which \notin {"handoff", "restarted"} => keys.selected = "none"
    /\ Registry!Init /\ Popup!Init /\ Editor!Init /\ Board!Init
    /\ which # "popup" => live = {}

Of(part, A) == which = part /\ A /\ UNCHANGED which
OfHandoff(part, A) ==
    Of(part, A) /\ UNCHANGED <<registryVars, popupVars, editorVars, boardVars>>

MCNext ==
    \/ OfHandoff("handoff", Next) \/ OfHandoff("restarted", Restarted!Next)
    \/ Of("registry", Registry!Next) /\ UNCHANGED <<vars, popupVars, editorVars, boardVars>>
    \/ Of("popup", Popup!Next) /\ UNCHANGED <<vars, registryVars, editorVars, boardVars>>
    \/ Of("editor", Editor!Next) /\ UNCHANGED <<vars, registryVars, popupVars, boardVars>>
    \/ Of("board", Board!Next) /\ UNCHANGED <<vars, registryVars, popupVars, editorVars>>

\* Of the fairness of NetworkHandoff its property needs only that the browser
\* answers reads and delivers reports.
MCSpec ==
    /\ MCInit /\ [][MCNext]_MCVars
    /\ WF_vars((which = "handoff" /\ Read) \/ (which = "restarted" /\ Restarted!Read))
    /\ WF_vars((which = "handoff" /\ Hear) \/ (which = "restarted" /\ Restarted!Hear))

-----------------------------------------------------------------------------
LastStays ==
    \/ which = "handoff" /\ Newest(MaxClaims) /\ Mounted(MaxClaims)
    \/ which = "restarted" /\ Restarted!Newest(1) /\ Restarted!Mounted(1)


\* ContextRegistry: no closed tab comes back from the snapshot, a tab is never
\* put back in a room it left for another one, and an idle worker can be stopped
\* because its snapshot holds all.
NoGhostTab == Registry!NoGhostTab

\* WhiteboardPopup: there is never a second popup, and at rest storage remembers
\* the one made or focused last.
AtMostOnePopup == Popup!AtMostOnePopup

\* PageEditor: at rest the pages of the room hold the panel's text, and a text is
\* seen in the room it was written in only.
PagesFollowPanel == Editor!TypeOK /\ Editor!PageFollowsPanel /\ Editor!InItsRoom

\* BoardMesh: a shared stroke nobody took off is before everyone, and a stroke of
\* the personal notebook before its author alone.
EveryoneHasIt == Board!TypeOK /\ Board!EveryoneHasIt /\ Board!PersonalIsOwn
=============================================================================
