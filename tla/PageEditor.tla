----------------------------- MODULE PageEditor -----------------------------
(***************************************************************************)
(* The editor of a web page joined to the panel's shared code: the bridge  *)
(* in the page's own world (content/in-page-bridge.ts), the content script *)
(* (content/in-page-editor-sync.ts) and the code service of the panel.     *)
(* Between each two of them run messages that keep their order.            *)
(***************************************************************************)
EXTENDS Naturals, Sequences

CONSTANTS
    Tabs,          \* pages with an editor
    Rooms,
    TabRoom,       \* TabRoom[t]: the room of the page's address
    NoRoom,        \* the panel before it has one
    Template,      \* the text a session starts with
    MaxActs        \* bound on texts, typed or received, and room changes

\* MCRuntime assumes it of the instance.
EditorAssumption == /\ MaxActs \in Nat
                    /\ TabRoom \in [Tabs -> Rooms]
                    /\ NoRoom \notin Rooms
                    /\ Template \notin 1..MaxActs

VARIABLES
    panelRoom, panelCode,  \* currentRoomId and state.code
    page,          \* page[t]: the text in the editor
    debounce,      \* debounce[t]: the 40 ms timer is armed
    changes,       \* changes[t]: from the page to its content script
    lastSentCode,
    toPanel,       \* toPanel[t]: from the content script to the panel
    toScript,      \* toScript[t]: from the panel to the content script
    toPage,        \* toPage[t]: from the content script to the page
    written,       \* written[x]: the room text x was written in
    moves          \* room changes so far

vars == <<panelRoom, panelCode, page, debounce, changes, lastSentCode, toPanel, toScript,
          toPage, written, moves>>

Texts == 1 .. MaxActs
Empty == [t \in Tabs |-> <<>>]

Init ==
    /\ panelRoom = NoRoom /\ panelCode = Template
    /\ page = [t \in Tabs |-> Template]
    /\ debounce = [t \in Tabs |-> FALSE]
    /\ changes = Empty /\ toPanel = Empty /\ toScript = Empty /\ toPage = Empty
    /\ lastSentCode = [t \in Tabs |-> Template]
    /\ written = <<>> /\ moves = 0

Free == Len(written) + moves < MaxActs
Write(r) == Free /\ written' = Append(written, r)
Put(queue, t, m) == [queue EXCEPT ![t] = Append(@, m)]
Drop(queue, t) == [queue EXCEPT ![t] = Tail(@)]
broadcastToContentTabs(r, code) ==
    toScript' = [t \in Tabs |-> Append(toScript[t], [room |-> r, code |-> code])]

-----------------------------------------------------------------------------
(* The page.                                                               *)

Type(t) ==
    /\ Write(TabRoom[t])
    /\ page' = [page EXCEPT ![t] = Len(written')]
    /\ debounce' = [debounce EXCEPT ![t] = TRUE]
    /\ UNCHANGED <<panelRoom, panelCode, changes, lastSentCode, toPanel, toScript, toPage, moves>>

\* The timer sends what the editor holds by then.
DebounceFires(t) ==
    /\ debounce[t] /\ debounce' = [debounce EXCEPT ![t] = FALSE]
    /\ changes' = Put(changes, t, page[t])
    /\ UNCHANGED <<panelRoom, panelCode, page, lastSentCode, toPanel, toScript, toPage,
                   written, moves>>

\* While a remote text is put in, the page's own change event is ignored.
ApplyRemoteCode(t) ==
    /\ toPage[t] # <<>> /\ toPage' = Drop(toPage, t)
    /\ page' = [page EXCEPT ![t] = Head(toPage[t])]
    /\ UNCHANGED <<panelRoom, panelCode, debounce, changes, lastSentCode, toPanel, toScript,
                   written, moves>>

-----------------------------------------------------------------------------
(* The content script.                                                     *)

\* A text equal to the last one sent or received goes no further.
IsNews(t, code) == code # lastSentCode[t]

localCodeChanged(t) ==
    LET code == Head(changes[t]) IN
    /\ changes[t] # <<>> /\ changes' = Drop(changes, t)
    /\ IF IsNews(t, code)
         THEN /\ lastSentCode' = [lastSentCode EXCEPT ![t] = code]
              /\ toPanel' = Put(toPanel, t, code)
         ELSE UNCHANGED <<lastSentCode, toPanel>>
    /\ UNCHANGED <<panelRoom, panelCode, page, debounce, toScript, toPage, written, moves>>

Belongs(messageRoom, r) == r # NoRoom /\ messageRoom = r

applyRemoteCodeToPage(t) ==
    LET message == Head(toScript[t]) IN
    /\ toScript[t] # <<>> /\ toScript' = Drop(toScript, t)
    /\ IF Belongs(message.room, TabRoom[t])
         THEN /\ lastSentCode' = [lastSentCode EXCEPT ![t] = message.code]
              /\ toPage' = Put(toPage, t, message.code)
         ELSE UNCHANGED <<lastSentCode, toPage>>
    /\ UNCHANGED <<panelRoom, panelCode, page, debounce, changes, toPanel, written, moves>>

-----------------------------------------------------------------------------
(* The panel.                                                              *)

\* updateCode for a text that may come from a page: the pages are told as well.
\* Slip: the page that typed it is thought to have it.
AdoptedSilently(code) == panelCode' = code /\ UNCHANGED toScript

Adopted(code) ==
    /\ panelCode' = code
    /\ IF code = panelCode THEN UNCHANGED toScript ELSE broadcastToContentTabs(panelRoom, code)

CodeDeltaLocal(t) ==
    /\ toPanel[t] # <<>> /\ toPanel' = Drop(toPanel, t)
    /\ IF Belongs(TabRoom[t], panelRoom) THEN Adopted(Head(toPanel[t]))
                                         ELSE UNCHANGED <<panelCode, toScript>>
    /\ UNCHANGED <<panelRoom, page, debounce, changes, lastSentCode, toPage, written, moves>>

\* Typed in the panel, or received from another peer of the room.
PanelChange ==
    /\ panelRoom # NoRoom /\ Write(panelRoom)
    /\ Adopted(Len(written'))
    /\ UNCHANGED <<panelRoom, page, debounce, changes, lastSentCode, toPanel, toPage, moves>>

setRoom(r) ==
    /\ r # panelRoom /\ Free /\ moves' = moves + 1
    /\ panelRoom' = r /\ panelCode' = Template
    /\ IF r = NoRoom THEN UNCHANGED toScript ELSE broadcastToContentTabs(r, Template)
    /\ UNCHANGED <<page, debounce, changes, lastSentCode, toPanel, toPage, written>>

Next ==
    \/ \E t \in Tabs :
          \/ Type(t) \/ DebounceFires(t) \/ ApplyRemoteCode(t)
          \/ localCodeChanged(t) \/ applyRemoteCodeToPage(t) \/ CodeDeltaLocal(t)
    \/ PanelChange
    \/ \E r \in Rooms \cup {NoRoom} : setRoom(r)

Spec == Init /\ [][Next]_vars

-----------------------------------------------------------------------------
TypeOK ==
    /\ panelRoom \in Rooms \cup {NoRoom}
    /\ panelCode \in Texts \cup {Template}
    /\ page \in [Tabs -> Texts \cup {Template}]
    /\ lastSentCode \in [Tabs -> Texts \cup {Template}]
    /\ debounce \in [Tabs -> BOOLEAN]
    /\ \A x \in DOMAIN written : written[x] \in Rooms

AtRest(t) ==
    /\ changes[t] = <<>> /\ toPanel[t] = <<>> /\ toScript[t] = <<>> /\ toPage[t] = <<>>
    /\ ~debounce[t]

\* "the panel can never diverge from the page": when nothing is on its way the
\* pages of the room hold the panel's text, whoever typed while what was under way.
PageFollowsPanel ==
    (\A t \in Tabs : AtRest(t)) => \A t \in Tabs : TabRoom[t] = panelRoom => page[t] = panelCode

\* No text is seen in another room than the one it was written in.
InItsRoom ==
    /\ panelCode \in Texts => written[panelCode] = panelRoom
    /\ \A t \in Tabs : page[t] \in Texts => written[page[t]] = TabRoom[t]
=============================================================================
