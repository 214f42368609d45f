---------------------------- MODULE MediaSessions ----------------------------
(***************************************************************************)
(* Voice chat and the live stage of one document: two services that ask    *)
(* the browser for a microphone or camera, may be left or moved to another *)
(* room while the prompt is open, and share one outgoing audio sender      *)
(* (features/voice/voice.service.ts, features/tutor/tutor.service.ts,      *)
(* core/media/media-session-coordinator.ts).  The stage also needs a slot  *)
(* from the signaling server, asked for over a connection that may drop.   *)
(*                                                                         *)
(* operationGeneration is only ever compared with the one an attempt was   *)
(* started in, so an attempt carries "fresh": no later operation has       *)
(* advanced the generation.  Capture is video or audio alike: a stream is  *)
(* an element of Streams, and capturing is the set of those not stopped.   *)
(***************************************************************************)
EXTENDS Naturals, Sequences, FiniteSets

CONSTANTS
    Streams,      \* enough for every attempt and both services at once
    None,
    CoPresenters, \* the "Also Stream" button is used by a guest speaker
    MaxQueue      \* messages under way to the server

\* MCFeatures assumes it of the instance.
MediaAssumption == None \notin Streams

VARIABLES
    inRoom,       \* currentRoomId # ''
    voice,        \* lifecycleState: "out", "joining", "joined"
    join,         \* joinPromise
    voiceStream,  \* VoiceService.localStream
    stage,        \* broadcasterState: "idle", "permission", "admission", "live"
    start,        \* startPromise, with the stream it has acquired
    speaker,      \* myRole = 'speaker'
    speech,       \* speakerMediaPromise
    stageStream,  \* TutorService.localStream
    owner,        \* MediaSessionCoordinator.owner
    sender,       \* WebRTCService.localAudioTrack, by its stream
    capturing,
    registered,   \* isRoomRegistered
    held,         \* admissionHeld
    request,      \* admissionRequestPromise
    checks,       \* revalidateBroadcastAdmission waiting on it: their fresh flags
    toServer, reply, slot

voiceVars == <<voice, join, voiceStream>>
stageVars == <<stage, start, speaker, speech, stageStream>>
mediaVars == <<owner, sender, capturing>>
serverVars == <<registered, held, request, checks, toServer, reply, slot>>
vars == <<inRoom, voiceVars, stageVars, mediaVars, serverVars>>

Idle == [at |-> "none", fresh |-> FALSE]
IdleStart == [at |-> "none", fresh |-> FALSE, stream |-> None]

Stale(attempt) == [attempt EXCEPT !.fresh = FALSE]

\* A stream no one refers to and that is not capturing.
Unused(s) == s \notin capturing \cup {voiceStream, stageStream, start.stream}

Init ==
    /\ inRoom = TRUE
    /\ voice = "out" /\ join = Idle /\ voiceStream = None
    /\ stage = "idle" /\ start = IdleStart /\ speaker = FALSE /\ speech = Idle
    /\ stageStream = None
    /\ owner = "none" /\ sender = None /\ capturing = {}
    /\ registered = TRUE /\ held = FALSE /\ request = Idle /\ checks = {}
    /\ toServer = <<>> /\ reply = "none" /\ slot = FALSE

-----------------------------------------------------------------------------
(* Leaving *)

\* ++operationGeneration of the stage: nothing outstanding is fresh any more.
StageSuperseded ==
    /\ start' = Stale(start) /\ speech' = Stale(speech)
    /\ request' = Stale(request)
    /\ checks' = {FALSE : c \in checks}

\* releaseStreamAdmission reaches the server in order behind what was sent.
Released(queue) == IF registered THEN Append(queue, "release") ELSE queue

ReleaseAdmission ==
    /\ toServer' = IF held THEN Released(toServer) ELSE toServer
    /\ held' = FALSE

\* stopTutorStage, but for the sender and the owner, which depend on the caller.
StageStopped ==
    /\ StageSuperseded /\ ReleaseAdmission
    /\ stage' = "idle" /\ speaker' = FALSE /\ stageStream' = None

\* handleLiveMediaReplaced: the stage's side of a microphone taken over by
\* voice; who is not a broadcaster and has a stream is a guest speaker.
LiveReplaced ==
    IF stage # "idle" THEN StageStopped
    ELSE /\ stageStream' = None
         /\ StageSuperseded
         /\ UNCHANGED <<stage, speaker, held, toServer>>

LiveUndisturbed == UNCHANGED <<stageVars, held, request, checks, toServer>>

\* leaveVoice, but for the sender and the owner.
VoiceLeft ==
    IF voice = "out" THEN UNCHANGED voiceVars
    ELSE voice' = "out" /\ voiceStream' = None /\ join' = Stale(join)

\* The part of leaveVoice that claim('live') runs, through the handler voice registered.
VoiceReplaced == IF owner = "voice" THEN VoiceLeft ELSE UNCHANGED voiceVars

OfVoice == IF owner = "voice" THEN {voiceStream} ELSE {}

LeaveVoice ==
    /\ voice = "joined"
    /\ VoiceLeft
    /\ capturing' = capturing \ {voiceStream} /\ sender' = None
    /\ owner' = IF owner = "voice" THEN "none" ELSE owner
    /\ UNCHANGED <<inRoom, stageVars, serverVars>>

StopStage ==
    /\ stage # "idle" \/ start.at # "none"
    /\ StageStopped
    /\ capturing' = capturing \ {stageStream}
    /\ sender' = IF stageStream # None THEN None ELSE sender
    /\ owner' = IF owner = "live" THEN "none" ELSE owner
    /\ UNCHANGED <<inRoom, voiceVars, registered, reply, slot>>

\* The room changes: VoiceService.setRoom, then TutorService.setRoom.
SetRoom ==
    /\ Len(toServer) < MaxQueue
    /\ inRoom' \in BOOLEAN /\ (inRoom \/ inRoom')
    /\ VoiceLeft /\ StageStopped
    /\ capturing' = capturing \ {voiceStream, stageStream}
    /\ sender' = None /\ owner' = "none"
    /\ UNCHANGED <<registered, reply, slot>>

-----------------------------------------------------------------------------
(* Voice *)

JoinVoice ==
    /\ inRoom /\ voice # "joined" /\ join.at = "none"
    /\ voice' = "joining" /\ join' = [at |-> "prompt", fresh |-> TRUE]
    /\ UNCHANGED <<inRoom, voiceStream, stageVars, mediaVars, serverVars>>

Joins == join.fresh /\ voice = "joining"

VoiceGranted ==
    /\ join.at = "prompt"
    /\ IF Joins
       THEN \E s \in {x \in Streams : Unused(x)} :
                /\ voice' = "joined" /\ voiceStream' = s
                /\ join' = [join EXCEPT !.at = "analyser"]
                /\ IF owner = "live" THEN LiveReplaced ELSE LiveUndisturbed
                /\ owner' = "voice" /\ sender' = s
                /\ capturing' = (capturing \ (IF owner = "live" THEN {stageStream} ELSE {}))
                                \cup {s}
       ELSE join' = Idle /\ UNCHANGED <<voice, voiceStream, mediaVars>> /\ LiveUndisturbed
    /\ UNCHANGED <<inRoom, registered, reply, slot>>

VoiceDenied ==
    /\ join.at = "prompt"
    /\ join' = Idle
    /\ voice' = IF join.fresh THEN "out" ELSE voice
    /\ UNCHANGED <<inRoom, voiceStream, stageVars, mediaVars, serverVars>>

\* startAudioAnalyser returns, and joinPromise is settled.
AnalyserRuns ==
    /\ join.at = "analyser"
    /\ join' = Idle
    /\ UNCHANGED <<inRoom, voice, voiceStream, stageVars, mediaVars, serverVars>>

-----------------------------------------------------------------------------
(* The stage *)

StartStage ==
    /\ inRoom /\ start.at = "none" /\ ~(stage = "live" /\ stageStream # None)
    /\ Len(toServer) < MaxQueue
    /\ speaker => CoPresenters
    /\ stage' = "permission"
    /\ start' = [at |-> "prompt", fresh |-> TRUE, stream |-> None]
    /\ speech' = Stale(speech) /\ request' = Stale(request)
    /\ checks' = {FALSE : c \in checks}
    /\ UNCHANGED <<inRoom, voiceVars, speaker, stageStream, mediaVars, registered, held,
                   toServer, reply, slot>>

\* requestBroadcastAdmission: one request serves everybody who asks meanwhile.
RequestAdmission ==
    IF request.at # "none" THEN UNCHANGED <<request, toServer>>
    ELSE /\ request' = [at |-> IF registered THEN "asked" ELSE "waiting", fresh |-> TRUE]
         /\ toServer' = IF registered THEN Append(toServer, "ask") ELSE toServer

StageGranted ==
    /\ start.at = "prompt"
    /\ UNCHANGED <<inRoom, voiceVars, speaker, speech, stageStream, owner, sender, registered,
                   held, checks, reply, slot>>
    /\ \/ /\ start.fresh /\ stage = "permission"
          /\ \E s \in {x \in Streams : Unused(x)} :
                /\ start' = [start EXCEPT !.at = "admission", !.stream = s]
                /\ capturing' = capturing \cup {s}
          /\ stage' = "admission"
          /\ RequestAdmission
       \/ \* superseded, or the stage already has MAX_ACTIVE_BROADCASTERS
          /\ stage' = IF start.fresh THEN "idle" ELSE stage
          /\ start' = IdleStart
          /\ UNCHANGED <<capturing, request, toServer>>

StageDenied ==
    /\ start.at = "prompt"
    /\ start' = IdleStart
    /\ ReleaseAdmission
    /\ IF start.fresh THEN stage' = "idle" /\ speaker' = FALSE ELSE UNCHANGED <<stage, speaker>>
    /\ UNCHANGED <<inRoom, voiceVars, speech, stageStream, mediaVars, registered, request,
                   checks, reply, slot>>

\* claim('live') and what follows it: the stream goes to localStream and the sender.
OnStage(s) ==
    /\ VoiceReplaced
    /\ stageStream' = s /\ owner' = "live" /\ sender' = s

-----------------------------------------------------------------------------
(* The admission request is settled *)

Waiting == start.at = "admission"

\* Some of finish(), performStartTutorStage and revalidateBroadcastAdmission
\* gives the slot back.
GivesBack(granted) ==
    \/ ~granted \/ ~request.fresh
    \/ FALSE \in checks \/ (Waiting /\ ~start.fresh)

\* Slip: the stream acquired for a refused or abandoned start is dropped, not stopped.
Forgotten == {}

\* releaseAcquiredMedia
Abandoned == {start.stream}

AfterAnswer(granted, queue) == IF GivesBack(granted) THEN Released(queue) ELSE queue

\* The stage's attempt was waiting: it goes live, or what it acquired is stopped.
StartSettles(granted) ==
    /\ Waiting
    /\ start' = IdleStart
    /\ IF start.fresh /\ granted
       THEN /\ stage' = "live" /\ speaker' = FALSE /\ held' = TRUE
            /\ OnStage(start.stream)
            /\ capturing' = capturing \ OfVoice
       ELSE /\ stage' = IF start.fresh THEN "idle" ELSE stage
            /\ capturing' = capturing \ Abandoned
            /\ UNCHANGED <<speaker, held, stageStream, voiceVars, owner, sender>>
    /\ UNCHANGED speech

\* Only revalidations were waiting: the slot is held again, or the stage stops.
ChecksSettle(granted) ==
    /\ ~Waiting
    /\ UNCHANGED voiceVars
    /\ IF TRUE \in checks /\ stage = "live"
       THEN IF granted
            THEN held' = TRUE /\ UNCHANGED <<stageVars, mediaVars>>
            ELSE /\ stage' = "idle" /\ speaker' = FALSE /\ stageStream' = None
                 /\ start' = Stale(start) /\ speech' = Stale(speech) /\ held' = FALSE
                 /\ capturing' = capturing \ {stageStream}
                 /\ sender' = IF stageStream # None THEN None ELSE sender
                 /\ owner' = IF owner = "live" THEN "none" ELSE owner
       ELSE UNCHANGED <<stageVars, mediaVars, held>>

Settles(granted) ==
    /\ request' = Idle /\ checks' = {}
    /\ StartSettles(granted) \/ ChecksSettle(granted)

Answered ==
    /\ request.at = "asked" /\ reply # "none"
    /\ Settles(reply = "granted")
    /\ toServer' = AfterAnswer(reply = "granted", toServer)
    /\ reply' = "none"
    /\ UNCHANGED <<inRoom, registered, slot>>

\* The 5 s for the answer, or the 10 s for the registration, are over.
AdmissionTimeout ==
    /\ request.at # "none"
    /\ Settles(FALSE)
    /\ toServer' = IF request.at = "asked"
                   THEN Released([i \in DOMAIN toServer |->
                                    IF toServer[i] = "ask" THEN "late ask" ELSE toServer[i]])
                   ELSE toServer
    /\ reply' = "none"
    /\ UNCHANGED <<inRoom, registered, slot>>

-----------------------------------------------------------------------------
(* The connection and the server *)

\* 'connection:change' with connected = false; the server frees what it had.
Disconnect ==
    /\ registered
    /\ registered' = FALSE /\ held' = FALSE
    /\ toServer' = <<>> /\ reply' = "none" /\ slot' = FALSE
    /\ UNCHANGED <<inRoom, voiceVars, stageVars, mediaVars, request, checks>>

\* 'room:registered'; later rosters find nothing left to do.
Register ==
    /\ ~registered /\ inRoom
    /\ registered' = TRUE
    /\ UNCHANGED <<inRoom, reply, slot>>
    /\ \/ /\ stage = "live" /\ ~held
          /\ checks' = checks \cup {TRUE}
          /\ IF request.at = "none"
             THEN request' = [at |-> "asked", fresh |-> TRUE] /\ toServer' = <<"ask">>
             ELSE UNCHANGED <<request, toServer>>
          /\ UNCHANGED <<voiceVars, stageVars, mediaVars, held>>
       \/ /\ ~(stage = "live" /\ ~held) /\ request.at = "waiting" /\ request.fresh
          /\ request' = [request EXCEPT !.at = "asked"] /\ toServer' = <<"ask">>
          /\ UNCHANGED <<voiceVars, stageVars, mediaVars, held, checks>>
       \/ /\ ~(stage = "live" /\ ~held) /\ request.at = "waiting" /\ ~request.fresh
          /\ Settles(FALSE) /\ UNCHANGED toServer
       \/ /\ ~(stage = "live" /\ ~held) /\ request.at # "waiting"
          /\ UNCHANGED <<voiceVars, stageVars, mediaVars, held, request, checks, toServer>>

Server ==
    /\ toServer # <<>>
    /\ toServer' = Tail(toServer)
    /\ IF Head(toServer) = "release" THEN slot' = FALSE /\ UNCHANGED reply
       ELSE \E granted \in BOOLEAN :
                /\ slot' = (slot \/ granted)
                /\ reply' = IF Head(toServer) = "late ask" THEN reply
                            ELSE IF slot' THEN "granted" ELSE "refused"
    /\ UNCHANGED <<inRoom, voiceVars, stageVars, mediaVars, registered, held, request, checks>>

-----------------------------------------------------------------------------
(* Guest speakers *)

\* handleIncomingStageState: the tutor's state says whether this peer speaks.
StageState ==
    /\ inRoom
    /\ speaker' \in BOOLEAN
    /\ speaker' /\ stage # "idle" => CoPresenters
    /\ speech' = IF speaker' /\ stageStream = None /\ speech.at = "none"
                 THEN [at |-> "prompt", fresh |-> TRUE] ELSE speech
    /\ IF speaker /\ ~speaker'
       THEN /\ stageStream' = None
            /\ capturing' = capturing \ {stageStream}
            /\ sender' = IF stageStream # None THEN None ELSE sender
            /\ owner' = IF owner = "live" THEN "none" ELSE owner
       ELSE UNCHANGED <<stageStream, mediaVars>>
    /\ UNCHANGED <<inRoom, voiceVars, stage, start, serverVars>>

SpeechGranted ==
    /\ speech.at = "prompt"
    /\ speech' = Idle
    /\ IF speech.fresh /\ speaker /\ inRoom
       THEN \E s \in {x \in Streams : Unused(x)} :
                OnStage(s) /\ capturing' = (capturing \ OfVoice) \cup {s}
       ELSE UNCHANGED <<stageStream, voiceVars, mediaVars>>
    /\ UNCHANGED <<inRoom, stage, start, speaker, serverVars>>

SpeechDenied ==
    /\ speech.at = "prompt"
    /\ speech' = Idle
    /\ UNCHANGED <<inRoom, voiceVars, stage, start, speaker, stageStream, mediaVars, serverVars>>

Next ==
    \/ LeaveVoice \/ StopStage \/ SetRoom
    \/ JoinVoice \/ VoiceGranted \/ VoiceDenied \/ AnalyserRuns
    \/ StartStage \/ StageGranted \/ StageDenied
    \/ Answered \/ AdmissionTimeout \/ Disconnect \/ Register \/ Server
    \/ StageState \/ SpeechGranted \/ SpeechDenied

Spec == Init /\ [][Next]_vars

-----------------------------------------------------------------------------
MaybeStream == Streams \cup {None}

\* Every variable keeps its type (voice.service.ts:43-50, tutor.service.ts:73-86).
TypeOK ==
    /\ inRoom \in BOOLEAN /\ speaker \in BOOLEAN
    /\ voice \in {"out", "joining", "joined"}
    /\ stage \in {"idle", "permission", "admission", "live"}
    /\ join \in [at : {"none", "prompt", "analyser"}, fresh : BOOLEAN]
    /\ start \in [at : {"none", "prompt", "admission"}, fresh : BOOLEAN, stream : MaybeStream]
    /\ speech \in [at : {"none", "prompt"}, fresh : BOOLEAN]
    /\ voiceStream \in MaybeStream /\ stageStream \in MaybeStream /\ sender \in MaybeStream
    /\ owner \in {"none", "voice", "live"} /\ capturing \subseteq Streams
    /\ registered \in BOOLEAN /\ held \in BOOLEAN /\ slot \in BOOLEAN
    /\ request \in [at : {"none", "waiting", "asked"}, fresh : BOOLEAN]
    /\ checks \subseteq BOOLEAN
    /\ toServer \in Seq({"ask", "late ask", "release"})
    /\ reply \in {"none", "granted", "refused"}

\* Nothing captures that nobody would stop: every microphone or camera that is
\* on belongs to voice, to the stage or to an attempt waiting for admission,
\* whatever was left, moved or replaced while the browser asked.
NothingLeftCapturing ==
    capturing = {voiceStream, stageStream, start.stream} \ {None}

\* The one outgoing audio sender carries the stream of the service that is on,
\* and both are never on together.
SenderFollowsOwner ==
    /\ voiceStream # None => stageStream = None /\ sender = voiceStream /\ voice = "joined"
    /\ stageStream # None => sender = stageStream
    /\ sender # None => sender \in capturing

\* What goes on was asked for since the last leave, stop or room change: an
\* answer of the browser or the server to an earlier attempt turns nothing on.
OnlyAskedFor ==
    [][/\ voiceStream' \notin {voiceStream, None} => join.fresh
       /\ stageStream' \notin {stageStream, None} => start.fresh \/ speech.fresh]_vars

\* Once the connection is quiet, a slot of the stage is held at the server only
\* by a peer that is live: no abandoned or late answer keeps others off it.
NoSlotLeft ==
    registered /\ toServer = <<>> /\ reply = "none" /\ request.at = "none" /\ slot
        => stage = "live"

\* Once the connection is quiet, a peer that is live holds a slot: "at most two
\* broadcasters" is the server's to enforce.
LiveHasSlot ==
    registered /\ toServer = <<>> /\ reply = "none" /\ request.at = "none" /\ stage = "live"
        => slot
=============================================================================
