----------------------------- MODULE MCFeatures -----------------------------
(***************************************************************************)
(* What the user does in a room, for TLC.  The features share no state     *)
(* here, so a behaviour is of one of them, chosen once:                    *)
(*   "focus"   a focus session with a matched partner       (CoFocus)      *)
(*   "media"   microphone and stage                         (MediaSessions)*)
(*   "chat"    the chat while peers change rooms, "lossy"                  *)
(*             while packets are lost                       (ChatRoom)     *)
(*   "timer"   the focus timer of panel and widget          (TimerSync)    *)
(*   "edits"   the shared code while it is only edited, "code" with        *)
(*             languages, runs and rooms                    (CodeSync)     *)
(*   "widget", "rooms", "popup"  the whiteboards of one user, on a page,   *)
(*             from room to room, and in two windows        (BoardSurfaces)*)
(* The pages' editors and the boards of the members are in MCRuntime.      *)
(***************************************************************************)
EXTENDS Naturals, Sequences, FiniteSets

CONSTANTS
    Matches, Invited, Elsewhere, Length,   \* of CoFocus
    Streams, MaxQueue,                     \* of MediaSessions
    None,
    Peers, Rooms, Lobby, Movers,           \* of ChatRoom
    MaxMessages, MaxAttempts, MaxDrops, MaxMoves,
    Coders, Languages, Initial,            \* of CodeSync: its peers are numbers
    MaxEdits, MaxLanguages, MaxRuns, MaxCodeMoves,
    w1, panel, popup                       \* surfaces of one user

VARIABLES
    \* CoFocus
    phase, session, present, remaining, waiting, socket, given, current, joins,
    watch, arrival, countdown, ends,
    \* MediaSessions
    inRoom, voice, join, voiceStream, stage, start, speaker, speech, stageStream,
    owner, sender, capturing, registered, held, request, checks, toServer, reply, slot,
    \* ChatRoom
    room, generation, messages, mySeq, peerSeqs, unacked, loads, saveDue, askAgain,
    stored, seen, network, sent, audience, reached, clock, drops, moves,
    \* TimerSync
    now, storage, copies, events, open, initialized, pending, panelOpen, begun,
    finished, acts,
    \* CodeSync
    codeRoom, doc, isRunning, result, expected, runGeneration, returning, codeNetwork,
    edits, runs, languages, codeMoves,
    \* BoardSurfaces
    boardRoom, boardGeneration, hydrated, dirty, boardLoads, mode, board, boards,
    ownWrites, bus, runtime, boardChanges, drawn, published, removed, boardActs, boardMoves,
    which

focusVars == <<phase, session, present, remaining, waiting, socket, given, current, joins,
               watch, arrival, countdown, ends>>
mediaVars == <<inRoom, voice, join, voiceStream, stage, start, speaker, speech, stageStream,
               owner, sender, capturing, registered, held, request, checks, toServer, reply,
               slot>>
chatVars == <<room, generation, messages, mySeq, peerSeqs, unacked, loads, saveDue, askAgain,
              stored, seen, network, sent, audience, reached, clock, drops, moves>>
timerVars == <<now, storage, copies, events, open, initialized, pending, panelOpen, begun,
               finished, acts>>
codeVars == <<codeRoom, doc, isRunning, result, expected, runGeneration, returning,
              codeNetwork, edits, runs, languages, codeMoves>>
boardVars == <<boardRoom, boardGeneration, hydrated, dirty, boardLoads, mode, board, boards,
               ownWrites, bus, runtime, boardChanges, drawn, published, removed, boardActs,
               boardMoves>>
MCVars == <<focusVars, mediaVars, chatVars, timerVars, codeVars, boardVars, which>>

-----------------------------------------------------------------------------
(* The instances. *)

Focus == INSTANCE CoFocus WITH
    Wanders <- FALSE, Relaunches <- FALSE, begun <- waiting

Media == INSTANCE MediaSessions WITH CoPresenters <- FALSE

Chat == INSTANCE ChatRoom

Lossy == INSTANCE ChatRoom WITH
    MaxMessages <- 2, MaxAttempts <- 2, MaxDrops <- 1, MaxMoves <- 0

Timer == INSTANCE TimerSync WITH
    Widgets <- {w1}, AutoStart <- TRUE, MaxNow <- 2, MaxRuns <- 2, MaxActs <- 3

Edits == INSTANCE CodeSync WITH
    Peers <- Coders, Start <- Lobby,
    MaxEdits <- 4, MaxLanguages <- 0, MaxRuns <- 0, MaxMoves <- 0,
    room <- codeRoom, pending <- returning, network <- codeNetwork, moves <- codeMoves

Code == INSTANCE CodeSync WITH
    Peers <- Coders, Start <- Lobby, MaxMoves <- MaxCodeMoves,
    room <- codeRoom, pending <- returning, network <- codeNetwork, moves <- codeMoves

OnPage == INSTANCE BoardSurfaces WITH
    Services <- {panel}, Widgets <- {w1}, Drawers <- {w1}, FirstMode <- "personal",
    Home <- Lobby, MaxStrokes <- 2, MaxActs <- 2, MaxMoves <- 0,
    room <- boardRoom, generation <- boardGeneration, loads <- boardLoads, stored <- boards,
    changes <- boardChanges, acts <- boardActs, moves <- boardMoves

InRooms == INSTANCE BoardSurfaces WITH
    Services <- {panel}, Widgets <- {}, Drawers <- {panel}, FirstMode <- "collaborative",
    Home <- Lobby, MaxStrokes <- 2, MaxActs <- 1, MaxMoves <- 2,
    room <- boardRoom, generation <- boardGeneration, loads <- boardLoads, stored <- boards,
    changes <- boardChanges, acts <- boardActs, moves <- boardMoves

TwoWindows == INSTANCE BoardSurfaces WITH
    Services <- {panel, popup}, Widgets <- {}, Drawers <- {panel, popup},
    FirstMode <- "collaborative",
    Home <- Lobby, MaxStrokes <- 2, MaxActs <- 0, MaxMoves <- 0,
    room <- boardRoom, generation <- boardGeneration, loads <- boardLoads, stored <- boards,
    changes <- boardChanges, acts <- boardActs, moves <- boardMoves

\* What the theorems about them assume.
ASSUME FocusAssumption == Focus!FocusAssumption
ASSUME MediaAssumption == Media!MediaAssumption
ASSUME ChatAssumption == Chat!ChatAssumption
ASSUME CodeAssumption == Code!CodeAssumption
ASSUME SurfacesAssumption ==
    OnPage!SurfacesAssumption /\ InRooms!SurfacesAssumption /\ TwoWindows!SurfacesAssumption

-----------------------------------------------------------------------------
MCInit ==
    /\ which \in {"focus", "media", "chat", "lossy", "timer", "edits", "code", "widget",
                  "rooms", "popup"}
    /\ Focus!Init /\ Media!Init /\ Chat!Init /\ Timer!Init
    /\ IF which = "edits" THEN Edits!Init ELSE Code!Init
    /\ CASE which = "widget" -> OnPage!Init
         [] which = "popup" -> TwoWindows!Init
         [] OTHER -> InRooms!Init

Of(part, A) == which = part /\ A /\ UNCHANGED which

OfFocus(A) ==
    /\ Of("focus", A)
    /\ UNCHANGED <<mediaVars, chatVars, timerVars, codeVars, boardVars>>
OfMedia(A) ==
    /\ Of("media", A)
    /\ UNCHANGED <<focusVars, chatVars, timerVars, codeVars, boardVars>>
OfChat(part, A) ==
    /\ Of(part, A)
    /\ UNCHANGED <<focusVars, mediaVars, timerVars, codeVars, boardVars>>
OfTimer(A) ==
    /\ Of("timer", A)
    /\ UNCHANGED <<focusVars, mediaVars, chatVars, codeVars, boardVars>>
OfCode(part, A) ==
    /\ Of(part, A)
    /\ UNCHANGED <<focusVars, mediaVars, chatVars, timerVars, boardVars>>
OfSurfaces(part, A) ==
    /\ Of(part, A)
    /\ UNCHANGED <<focusVars, mediaVars, chatVars, timerVars, codeVars>>
MCNext ==
    \/ OfFocus(Focus!Next) \/ OfMedia(Media!Next)
    \/ OfChat("chat", Chat!Next) \/ OfChat("lossy", Lossy!Next)
    \/ OfTimer(Timer!Next)
    \/ OfCode("edits", Edits!Next) \/ OfCode("code", Code!Next)
    \/ OfSurfaces("widget", OnPage!Next) \/ OfSurfaces("rooms", InRooms!Next)
    \/ OfSurfaces("popup", TwoWindows!Next)

\* The fairness of the parts that promise to get somewhere.  A behaviour is of
\* one part, so a disjunction over parts asks the same as one condition for each.
MCFairness ==
    /\ WF_MCVars(\/ OfFocus(Focus!Enqueue(TRUE))
                 \/ OfChat("lossy", Lossy!RetryDue)
                 \/ OfTimer(Timer!handleSessionComplete(w1))
                 \/ OfCode("edits", Edits!DeliverDue))
    /\ WF_MCVars(\/ OfFocus(Focus!Enqueue(FALSE))
                 \/ OfChat("lossy", Lossy!DeliverDue)
                 \/ OfTimer(Timer!handleSessionComplete(Timer!Panel)))
    /\ WF_MCVars(OfFocus(Focus!JoinSettles) \/ OfTimer(Timer!Event(w1)))
    /\ WF_MCVars(OfFocus(Focus!ArrivalTimer) \/ OfTimer(Timer!Event(Timer!Panel)))

MCSpec == MCInit /\ [][MCNext]_MCVars /\ MCFairness

-----------------------------------------------------------------------------
\* CoFocus: an active session is one in its own room, who is shown as queued is
\* in the server's queue, the room of a session that is over is left, no timer
\* outlives its phase, and the clock only runs down.
SessionsStayInTheirRoom ==
    /\ [](which = "focus" => /\ Focus!TypeOK
                             /\ Focus!ActiveInOwnRoom /\ Focus!QueuedIsInQueue
                             /\ Focus!NoRoomLeft /\ Focus!TimersBelongToPhase)
    /\ Focus!ClockOnlyRunsDown

\* CoFocus: nobody sits alone in a matched room; a match becomes a session, is
\* queued again or ends.
MatchesAreResolved == Focus!MatchIsResolved

\* MediaSessions: every microphone or camera that is on belongs to someone who
\* will stop it, the outgoing audio is that of the one service that is on, and no
\* late answer keeps a slot of the stage or turns anything on.
MediaIsAccountedFor ==
    /\ [](which = "media" => /\ Media!TypeOK
                             /\ Media!NothingLeftCapturing /\ Media!SenderFollowsOwner
                             /\ Media!NoSlotLeft)
    /\ Media!OnlyAskedFor

\* ChatRoom: a message stands once in a list, in its own room, and is shown as
\* delivered only if somebody has it, whatever rooms are changed and whatever is
\* restarted meanwhile.
ChatKeepsItsRoom ==
    which = "chat" => Chat!TypeOK /\ Chat!NoTwice /\ Chat!OfItsRoom /\ Chat!DeliveredReached

\* ChatRoom: so it is where packets are lost, and somebody who stays in the room
\* gets the message in the end.
ChatReaches ==
    /\ [](which = "lossy" =>
              Lossy!TypeOK /\ Lossy!NoTwice /\ Lossy!OfItsRoom /\ Lossy!DeliveredReached)
    /\ <>[](which = "lossy" => Lossy!GotThrough)


\* CodeSync: a text and a result are seen only in the room they were made in.
CodeKeepsItsRoom == which = "code" => Code!TypeOK /\ Code!NoOtherRoom


\* BoardSurfaces: no stroke is on the board of another room, what is drawn on the
\* shared board reaches the room, a stored board loses no stroke that nobody took
\* off, and with a page's widget and a panel what is personal stays so.
BoardsKeepStrokes ==
    /\ [](/\ which = "widget" => /\ OnPage!TypeOK /\ OnPage!OfItsRoom /\ OnPage!DrawnIsPublished
                                 /\ OnPage!PersonalStaysPrivate
          /\ which = "rooms" => InRooms!TypeOK /\ InRooms!OfItsRoom
          /\ which = "popup" => TwoWindows!TypeOK /\ TwoWindows!DrawnIsPublished)
    /\ [][which = "rooms" => InRooms!StoredKept]_boardVars
=============================================================================
