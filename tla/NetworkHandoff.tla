--------------------------- MODULE NetworkHandoff ---------------------------
(***************************************************************************)
(* Who runs the one network session of a user: the offscreen document or   *)
(* a side panel.  Both are documents of their own (realms) with a          *)
(* RoomService and a NetworkService each; they coordinate through keys of  *)
(* chrome.storage.local only (network-handoff.ts, offscreen.ts, the mount  *)
(* effect of App.tsx).                                                     *)
(*                                                                         *)
(* A write takes effect when it is called.  The offscreen document is told *)
(* of it later, where a value changed; its own reads are carried out some  *)
(* time after they were called, and the browser delivers reports and       *)
(* answers to it in the order in which they arose.  A timer may fire       *)
(* whenever it is armed, but the 350 ms timer not before the answer to a   *)
(* read that is under way: a read takes milliseconds.                      *)
(*                                                                         *)
(* A definition introduced by "Slip:" is no part of the model; see         *)
(* OrderingBuffer.                                                         *)
(***************************************************************************)
EXTENDS Integers, Sequences, FiniteSets

CONSTANTS
    MaxClaims,    \* bound: mounts of a side panel, each with its token
    Panels,       \* the realms of side panels
    MaxJoins,     \* bound: rooms joined by the offscreen document
    MaxPanelJoins,  \* and by a panel
    MaxReads,     \* bound: storage reads of the offscreen document under way
    MaxStarts,    \* bound: how often the offscreen document is created
    MaxTabs       \* bound: how often the detected problem changes

Claims == 1..MaxClaims    \* tokens, in the order of their making
None == 0
Off == "offscreen"
Realms == Panels \cup {Off}

VARIABLES
    \* chrome.storage.local
    keys,         \* open, request, selected, cofocus, problem
    acked,        \* acknowledged tokens whose claim still listens
    inbox,        \* reports and answers on their way to the offscreen document
    tabs,         \* bookkeeping for the bound MaxTabs
    \* the side panels
    mount,        \* per claim, how far its mount effect has come
    realm,        \* per claim, the realm it was made in
    gaveUp,       \* claims that became ready by their timer
    latest,       \* per panel realm, latestLocalClaimToken
    releasing,    \* per claim, how far releaseSidePanelNetworkOwnership has come
    \* the RoomService and NetworkService of each realm
    room,         \* currentRoom: its join's number and kind; number 0 for null
    joins,        \* joins so far
    asked,        \* joins whose identity lookup is under way
    online,       \* has network.init() been called, and no leave() since?
    \* the offscreen document
    alive, starts,
    panelOpen,    \* isSidepanelOpen
    cofocus,      \* cofocusActiveElsewhere
    timer,        \* backgroundResumeTimer
    reads         \* storage reads still to be carried out

storageVars == <<keys, acked, inbox, tabs>>
panelVars == <<mount, realm, gaveUp, latest, releasing>>
roomVars == <<room, joins, asked, online>>
offVars == <<alive, starts, panelOpen, cofocus, timer, reads>>
vars == <<storageVars, panelVars, roomVars, offVars>>

Kinds == {"room", "cofocus"}
NoRoom == [n |-> 0, kind |-> "room"]

-----------------------------------------------------------------------------
(* Storage *)

Keys == [open : BOOLEAN, request : Claims \cup {None},
         selected : Kinds \cup {"none"}, cofocus : BOOLEAN, problem : BOOLEAN]

\* chooseResumableRoom finds a room.
Resumable(k) == k.selected = "room" \/ k.problem

\* What a write changes, as chrome.storage.onChanged reports it.
Changes(old, new) == {k \in DOMAIN old : old[k] # new[k]}

\* What the offscreen document is told of the keys c of k.
Report(what, c, k) ==
    [what |-> what, of |-> c, open |-> "open" \in c /\ k.open,
     request |-> IF "request" \in c THEN k.request ELSE None,
     cofocus |-> "cofocus" \in c /\ k.cofocus,
     room |-> IF what = "change" THEN "problem" \in c /\ k.problem ELSE Resumable(k)]

\* The keys become new; the offscreen document will hear of what it listens to.
Write(new) ==
    LET c == Changes(keys, new) \cap {"open", "request", "cofocus", "problem"}
    IN  /\ keys' = new
        /\ inbox' = IF alive /\ c # {} THEN Append(inbox, Report("change", c, new)) ELSE inbox

\* The content scripts and the service worker follow the active tab.
TabChanges ==
    /\ tabs < MaxTabs
    /\ Write([keys EXCEPT !.problem = ~@])
    /\ tabs' = tabs + 1
    /\ UNCHANGED <<acked, panelVars, roomVars, offVars>>

-----------------------------------------------------------------------------
(* RoomService, in the realm x *)

InRoom(x, kind) == room[x].n > 0 /\ room[x].kind = kind

\* leaveCurrentRoom(true), on the keys k
Cleared(x, k) == IF InRoom(x, "cofocus") THEN [k EXCEPT !.cofocus = FALSE] ELSE k

\* join*Room and resumeRoom, up to the identity lookup.
JoinRoom(x, kind) ==
    /\ joins[x] < IF x = Off THEN MaxJoins ELSE MaxPanelJoins
    /\ joins' = [joins EXCEPT ![x] = @ + 1]
    /\ asked' = [asked EXCEPT ![x] = @ \cup {joins'[x]}]
    /\ room' = [room EXCEPT ![x] = [n |-> joins'[x], kind |-> kind]]
    /\ online' = [online EXCEPT ![x] = FALSE]

\* leaveCurrentRoom
LeaveRoom(x) ==
    /\ room' = [room EXCEPT ![x] = NoRoom]
    /\ online' = [online EXCEPT ![x] = FALSE]
    /\ UNCHANGED <<joins, asked>>

IsCurrent(x, n) == room[x].n = n

\* The identity lookup of join n is answered: the network session starts if the
\* room is still the current one.
IdentityArrives(x) ==
    \E n \in asked[x] :
        /\ asked' = [asked EXCEPT ![x] = @ \ {n}]
        /\ IF IsCurrent(x, n)
           THEN /\ online' = [online EXCEPT ![x] = TRUE]
                /\ Write([keys EXCEPT !.selected = room[x].kind,
                                      !.cofocus = @ \/ room[x].kind = "cofocus"])
           ELSE UNCHANGED <<online, keys, inbox>>
        /\ UNCHANGED <<room, joins, acked, tabs, panelVars, offVars>>

-----------------------------------------------------------------------------
(* The side panel: claim, resume, release *)

Mounted(c) == mount[c] \in {"waiting", "ready", "mounted"}

\* claimSidePanelNetworkOwnership, by the mount effect of App.
Claim(c, x) ==
    /\ mount[c] = "none"
    /\ \A d \in Claims : d < c => mount[d] # "none"
    /\ \A d \in Claims : realm[d] = x => ~Mounted(d)
    /\ mount' = [mount EXCEPT ![c] = "waiting"]
    /\ realm' = [realm EXCEPT ![c] = x]
    /\ latest' = [latest EXCEPT ![x] = c]
    /\ Write([keys EXCEPT !.open = TRUE, !.request = c])
    /\ UNCHANGED <<acked, gaveUp, releasing, tabs, roomVars, offVars>>

Ready(c) ==
    /\ mount[c] = "waiting"
    /\ mount' = [mount EXCEPT ![c] = "ready"]
    /\ acked' = acked \ {c}
    /\ UNCHANGED <<realm, latest, releasing, keys, inbox, tabs, roomVars, offVars>>

\* The acknowledgement of this very token arrives.
Granted(c) == c \in acked /\ Ready(c) /\ UNCHANGED gaveUp

\* The 600 ms are over, or the claim could not be stored.
GiveUp(c) == Ready(c) /\ gaveUp' = gaveUp \cup {c}

\* The panel has read the selected room and the detected problem.
ResumeInPanel(c) ==
    LET x == realm[c]
    IN  /\ mount[c] = "ready"
        /\ mount' = [mount EXCEPT ![c] = "mounted"]
        /\ IF Resumable(keys) /\ ~InRoom(x, "room")
           THEN JoinRoom(x, "room") /\ Write(Cleared(x, keys))
           ELSE UNCHANGED <<roomVars, keys, inbox>>
        /\ UNCHANGED <<acked, tabs, realm, gaveUp, latest, releasing, offVars>>

\* A problem page is detected and the panel has no room yet.
AdoptInPanel(c) ==
    /\ mount[c] = "mounted"
    /\ keys.problem
    /\ room[realm[c]] = NoRoom
    /\ JoinRoom(realm[c], "room")
    /\ UNCHANGED <<panelVars, offVars, storageVars>>

\* The user enters another room or a CoFocus session in the panel, or leaves.
PanelJoins(c, kind) ==
    LET x == realm[c]
    IN  /\ Mounted(c)
        /\ ~InRoom(x, kind)
        /\ JoinRoom(x, kind)
        /\ Write(Cleared(x, keys))
        /\ UNCHANGED <<panelVars, offVars, acked, tabs>>

PanelLeaves(c) ==
    LET x == realm[c]
    IN  /\ Mounted(c)
        /\ room[x] # NoRoom
        /\ LeaveRoom(x)
        /\ Write([Cleared(x, keys) EXCEPT !.selected = "none"])
        /\ UNCHANGED <<panelVars, offVars, acked, tabs>>

\* The cleanup of the mount effect: leave the network, then release the claim
\* if it is the realm's latest.
Unmount(c) ==
    LET x == realm[c]
        k == IF InRoom(x, "cofocus") THEN [keys EXCEPT !.selected = "none"]
             ELSE keys
        own == latest[x] = c
    IN  /\ Mounted(c)
        /\ mount' = [mount EXCEPT ![c] = "unmounted"]
        /\ LeaveRoom(x)
        /\ Write([k EXCEPT !.open = @ /\ ~own, !.cofocus = FALSE])
        /\ releasing' = [releasing EXCEPT ![c] = IF own THEN "closed" ELSE "none"]
        /\ acked' = acked \ {c}
        /\ gaveUp' = gaveUp \ {c}
        /\ UNCHANGED <<realm, latest, tabs, offVars>>

\* The write is confirmed: look whose token is stored.
CheckToken(c) ==
    /\ releasing[c] = "closed"
    /\ releasing' = [releasing EXCEPT ![c] =
                        IF latest[realm[c]] # c THEN "none"
                        ELSE IF keys.request = c THEN "mine" ELSE "other"]
    /\ UNCHANGED <<mount, realm, gaveUp, latest, roomVars, storageVars, offVars>>

\* The answer: remove the token if it was ours.
RemoveToken(c) ==
    LET own == latest[realm[c]] = c
    IN  /\ releasing[c] \in {"mine", "other"}
        /\ releasing' = [releasing EXCEPT ![c] = "none"]
        /\ latest' = IF own THEN [latest EXCEPT ![realm[c]] = None] ELSE latest
        /\ IF own /\ releasing[c] = "mine"
           THEN Write([keys EXCEPT !.request = None])
           ELSE UNCHANGED <<keys, inbox>>
        /\ UNCHANGED <<mount, realm, gaveUp, roomVars, acked, tabs, offVars>>

\* The document of a panel goes away without any of this.
PanelDies(x) ==
    LET gone == {c \in Claims : realm[c] = x}
    IN  /\ \E c \in gone : Mounted(c)
        /\ mount' = [c \in Claims |-> IF c \in gone THEN "unmounted" ELSE mount[c]]
        /\ releasing' = [c \in Claims |-> IF c \in gone THEN "none" ELSE releasing[c]]
        /\ latest' = [latest EXCEPT ![x] = None]
        /\ room' = [room EXCEPT ![x] = NoRoom]
        /\ online' = [online EXCEPT ![x] = FALSE]
        /\ asked' = [asked EXCEPT ![x] = {}]
        /\ gaveUp' = gaveUp \ gone
        /\ acked' = acked \ gone
        /\ UNCHANGED <<joins, realm, keys, inbox, tabs, offVars>>

-----------------------------------------------------------------------------
(* The offscreen document *)

\* The service worker creates it; it reads the keys and listens for changes.
StartOffscreen ==
    /\ ~alive
    /\ starts < MaxStarts
    /\ alive' = TRUE
    /\ starts' = starts + 1
    /\ reads' = <<"boot">>
    /\ UNCHANGED <<panelOpen, cofocus, timer, storageVars, panelVars, roomVars>>

OffscreenDies ==
    /\ alive
    /\ alive' = FALSE
    /\ panelOpen' = FALSE
    /\ cofocus' = FALSE
    /\ timer' = FALSE
    /\ reads' = <<>>
    /\ inbox' = <<>>
    /\ room' = [room EXCEPT ![Off] = NoRoom]
    /\ online' = [online EXCEPT ![Off] = FALSE]
    /\ asked' = [asked EXCEPT ![Off] = {}]
    /\ UNCHANGED <<starts, keys, acked, tabs, joins, panelVars>>

\* The browser carries out a read: the answer joins the reports.
Read ==
    /\ reads # <<>>
    /\ inbox' = Append(inbox, Report(Head(reads), {"open", "request", "cofocus"}, keys))
    /\ reads' = Tail(reads)
    /\ UNCHANGED <<keys, acked, tabs, alive, starts, panelOpen, cofocus, timer, panelVars, roomVars>>

\* suspendBackgroundMesh
Suspend == LeaveRoom(Off) /\ UNCHANGED asked


\* suspendBackgroundMesh, then acknowledgePanelHandoff.
Yield(token) ==
    /\ acked' = acked \cup {c \in Claims : c = token /\ mount[c] = "waiting"}
    /\ timer' = FALSE
    /\ Suspend

\* What an answer says of the panel: open if a token is stored.
TokenOrOpen(m) == m.request # None \/ (m.what = "boot" /\ m.open)

\* The answer to the read at start, or to the one made when the panel closed.
Answered(m) ==
    LET wasOpen == IF m.what = "boot" THEN FALSE ELSE panelOpen
        resumes == m.room /\ ~wasOpen /\ ~cofocus'
    IN  /\ cofocus' = IF m.what = "boot" THEN m.cofocus ELSE cofocus
        /\ IF TokenOrOpen(m)
           THEN panelOpen' = TRUE /\ Yield(m.request)
           ELSE /\ panelOpen' = wasOpen
                /\ timer' = IF m.room THEN resumes ELSE timer
                /\ UNCHANGED <<acked, roomVars>>
        /\ UNCHANGED reads

\* A report of changes, the parts in the order of the listener.
Reported(m) ==
    LET claimed == "request" \in m.of /\ m.request # None
        opened  == "open" \in m.of /\ m.open
        closed  == "open" \in m.of /\ ~m.open
        adopts  == "problem" \in m.of /\ m.room /\ ~panelOpen' /\ room'[Off] = NoRoom
    IN  /\ cofocus' = IF "cofocus" \in m.of THEN m.cofocus ELSE cofocus
        /\ panelOpen' = ((panelOpen \/ opened \/ claimed) /\ ~(closed /\ ~claimed))
        /\ closed => Len(reads) < MaxReads
        /\ reads' = IF closed THEN Append(reads, "close") ELSE reads
        /\ IF claimed THEN Yield(m.request)
           ELSE IF opened THEN Yield(None)
           ELSE /\ UNCHANGED <<acked, roomVars>>
                /\ timer' = IF adopts THEN ~cofocus'
                            ELSE timer /\ ~("cofocus" \in m.of /\ m.cofocus)

Hear ==
    /\ inbox # <<>>
    /\ inbox' = Tail(inbox)
    /\ IF Head(inbox).what = "change" THEN Reported(Head(inbox)) ELSE Answered(Head(inbox))
    /\ UNCHANGED <<keys, tabs, alive, starts, panelVars>>

\* The 350 ms timer: resumeBackgroundMesh.
ResumeTimer ==
    /\ timer
    /\ reads = <<>> /\ \A k \in DOMAIN inbox : inbox[k].what = "change"
    /\ timer' = FALSE
    /\ IF ~panelOpen /\ ~cofocus /\ ~InRoom(Off, "room")
       THEN JoinRoom(Off, "room")
       ELSE UNCHANGED roomVars
    /\ UNCHANGED <<alive, starts, panelOpen, cofocus, reads, storageVars, panelVars>>

-----------------------------------------------------------------------------
Init ==
    /\ keys \in {k \in Keys : /\ ~k.open /\ k.request = None /\ ~k.cofocus
                            /\ k.selected # "cofocus" /\ ~k.problem}
    /\ acked = {}
    /\ inbox = <<>>
    /\ tabs = 0
    /\ mount = [c \in Claims |-> "none"]
    /\ realm = [c \in Claims |-> Off]
    /\ gaveUp = {}
    /\ latest = [x \in Panels |-> None]
    /\ releasing = [c \in Claims |-> "none"]
    /\ room = [x \in Realms |-> NoRoom]
    /\ joins = [x \in Realms |-> 0]
    /\ asked = [x \in Realms |-> {}]
    /\ online = [x \in Realms |-> FALSE]
    /\ alive = FALSE
    /\ starts = 0
    /\ panelOpen = FALSE
    /\ cofocus = FALSE
    /\ timer = FALSE
    /\ reads = <<>>

Next ==
    \/ TabChanges
    \/ \E x \in Realms : IdentityArrives(x)
    \/ \E x \in Panels : PanelDies(x) \/ \E c \in Claims : Claim(c, x)
    \/ \E c \in Claims :
          \/ Granted(c) \/ GiveUp(c) \/ ResumeInPanel(c) \/ AdoptInPanel(c)
          \/ \E kind \in Kinds : PanelJoins(c, kind)
          \/ PanelLeaves(c) \/ Unmount(c) \/ CheckToken(c) \/ RemoveToken(c)
    \/ StartOffscreen \/ OffscreenDies \/ Read \/ Hear \/ ResumeTimer

Spec == Init /\ [][Next]_vars

\* The browser answers and reports, timers fire, the identity is found, and a
\* cleanup that has begun goes on.  Nothing makes a user open or close a panel.
Fairness ==
    /\ WF_vars(Read) /\ WF_vars(Hear) /\ WF_vars(ResumeTimer) /\ WF_vars(StartOffscreen)
    /\ \A x \in Realms : WF_vars(IdentityArrives(x))
    /\ \A c \in Claims : /\ WF_vars(Granted(c) \/ GiveUp(c)) /\ WF_vars(ResumeInPanel(c))
                         /\ WF_vars(CheckToken(c)) /\ WF_vars(RemoveToken(c))

FairSpec == Spec /\ Fairness

-----------------------------------------------------------------------------
TypeOK ==
    /\ keys \in Keys
    /\ acked \subseteq Claims
    /\ \A k \in DOMAIN inbox :
          inbox[k] \in [what : {"change", "boot", "close"}, of : SUBSET DOMAIN keys, open : BOOLEAN,
                       request : Claims \cup {None}, cofocus : BOOLEAN, room : BOOLEAN]
    /\ mount \in [Claims -> {"none", "waiting", "ready", "mounted", "unmounted"}]
    /\ realm \in [Claims -> Realms]
    /\ gaveUp \subseteq Claims
    /\ latest \in [Panels -> Claims \cup {None}]
    /\ releasing \in [Claims -> {"none", "closed", "mine", "other"}]
    /\ room \in [Realms -> [n : Nat, kind : Kinds]]
    /\ asked \in [Realms -> SUBSET Nat]
    /\ online \in [Realms -> BOOLEAN]
    /\ timer \in BOOLEAN /\ panelOpen \in BOOLEAN /\ cofocus \in BOOLEAN
    /\ reads \in Seq({"boot", "close"}) /\ Len(reads) <= MaxReads

Newest(c) == mount[c] # "none" /\ \A d \in Claims : d > c => mount[d] = "none"

\* network-handoff.ts:3 "Coordinates ownership of the one signaling/WebRTC
\* session": the panel whose claim is the newest, once it was acknowledged, and
\* the offscreen document are never both on the network.
OneOwner ==
    \A c \in Claims :
        (Newest(c) /\ Mounted(c) /\ mount[c] # "waiting" /\ c \notin gaveUp /\ online[realm[c]])
            => ~online[Off]

\* A realm is on the network only for the room it is in: the identity lookup of
\* a join that was abandoned in the meantime starts nothing.
OnlineInRoom == \A x \in Realms : online[x] => room[x].n \in 1..joins[x] \ asked[x]

\* While the newest claim stays mounted the offscreen document leaves the network
\* for good, also when an older panel publishes its close late or takes the
\* newer token away, or when the document was created after the claim.
YieldsToClaim ==
    \A c \in Claims : <>[](Newest(c) /\ Mounted(c)) => <>[]~online[Off]

\* Every claim was released in an orderly way and a room is selected.
Released ==
    /\ alive
    /\ \A c \in Claims : ~Mounted(c) /\ releasing[c] = "none"
    /\ keys.selected = "room" /\ ~keys.open /\ keys.request = None /\ ~keys.cofocus

\* offscreen.ts:86 "Sidepanel closed -> resume background WebRTC mesh".
BackgroundResumes == Released ~> (online[Off] \/ ~Released)
=============================================================================
