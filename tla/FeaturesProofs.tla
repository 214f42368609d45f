--------------------------- MODULE FeaturesProofs ---------------------------
(***************************************************************************)
(* Theorems about the features of a room, for every value of their         *)
(* constants: focus sessions, microphone and stage, chat, shared code and  *)
(* whiteboards.  Each part has its invariant; at the end the properties    *)
(* are stated of MCFeatures.                                               *)
(***************************************************************************)
EXTENDS MCFeatures, TLAPS

(***************************************************************************)
(* Microphone and stage.  A stream that is on belongs to voice, to the     *)
(* stage or to the start that waits for its slot; an answer still under    *)
(* way is that of the last attempt only if nothing came between; and the   *)
(* last message to the server gives the slot back unless the peer is live. *)
(***************************************************************************)

Mail == {"ask", "late ask", "release"}

Typed ==
    /\ voice \in {"out", "joining", "joined"} /\ stage \in {"idle", "permission", "admission", "live"}
    /\ voiceStream \in Media!MaybeStream /\ stageStream \in Media!MaybeStream
    /\ owner \in {"none", "voice", "live"}
    /\ toServer \in Seq(Mail) /\ reply \in {"none", "granted", "refused"}

Flags ==
    /\ inRoom \in BOOLEAN /\ speaker \in BOOLEAN
    /\ registered \in BOOLEAN /\ held \in BOOLEAN /\ slot \in BOOLEAN /\ checks \subseteq BOOLEAN

Joinings == [at : {"none", "prompt", "analyser"}, fresh : BOOLEAN]
Speeches == [at : {"none", "prompt"}, fresh : BOOLEAN]
Requests == [at : {"none", "waiting", "asked"}, fresh : BOOLEAN]
Starts == [at : {"none", "prompt", "admission"}, fresh : BOOLEAN, stream : Media!MaybeStream]

Attempts == join \in Joinings /\ speech \in Speeches /\ request \in Requests /\ start \in Starts

\* Who is on owns the audio that goes out.
Owned ==
    /\ owner = "voice" <=> voiceStream # None
    /\ owner = "live" <=> stageStream # None
    /\ voice = "joined" <=> voiceStream # None
    /\ join.at = "prompt" /\ join.fresh => voice = "joining"
    /\ sender = IF owner = "voice" THEN voiceStream ELSE stageStream

Started ==
    /\ start.at = "admission" <=> start.stream # None
    /\ stage = "permission" <=> start.at = "prompt" /\ start.fresh
    /\ stage = "admission" <=> start.at = "admission" /\ start.fresh
    /\ stage = "live" => start.at = "none"

Speaking ==
    /\ speaker => stage = "idle"
    /\ speech.at = "prompt" /\ speech.fresh => stage = "idle" /\ stageStream = None
    /\ stage = "live" => stageStream # None
    /\ stageStream # None => speaker \/ stage = "live"

Captured ==
    /\ capturing = {voiceStream, stageStream, start.stream} \ {None}
    /\ start.stream # None => start.stream \notin {voiceStream, stageStream}

WillBeFree == IF toServer = <<>> THEN ~slot ELSE toServer[Len(toServer)] = "release"

Admitted ==
    /\ held => stage = "live"
    /\ TRUE \in checks => stage = "live"
    /\ start.at = "admission" \/ checks # {} => request.at # "none"
    /\ request.at # "none" /\ request.fresh =>
          (start.at = "admission" /\ start.fresh) \/ TRUE \in checks
    /\ ~registered => toServer = <<>> /\ ~slot /\ ~held /\ reply = "none"
    /\ request.at = "waiting" => ~registered /\ start.at = "admission"
    /\ registered /\ request.at # "asked" /\ ~WillBeFree => held

MediaInv == Typed /\ Flags /\ Attempts /\ Owned /\ Started /\ Speaking /\ Captured /\ Admitted

Asked ==
    /\ voiceStream' \notin {voiceStream, None} => join.fresh
    /\ stageStream' \notin {stageStream, None} => start.fresh \/ speech.fresh

LEMMA MediaSafe ==
    ASSUME Media!MediaAssumption, MediaInv
    PROVE  /\ Media!TypeOK /\ Media!NothingLeftCapturing /\ Media!SenderFollowsOwner
           /\ Media!NoSlotLeft
<1>1. Media!TypeOK
  BY DEF MediaInv, Typed, Flags, Attempts, Owned, Captured, Joinings, Speeches, Requests, Starts,
         Media!TypeOK, Media!MaybeStream, Mail
<1>2. Media!NothingLeftCapturing  BY DEF MediaInv, Captured, Media!NothingLeftCapturing
<1>3. Media!SenderFollowsOwner
  BY DEF MediaInv, Owned, Captured, Media!SenderFollowsOwner
<1>4. Media!NoSlotLeft  BY DEF MediaInv, Admitted, WillBeFree, Media!NoSlotLeft
<1> QED  BY <1>1, <1>2, <1>3, <1>4

LEMMA MediaInit == ASSUME Media!MediaAssumption, Media!Init PROVE MediaInv
<1>1. Typed  BY DEF Media!Init, Typed, Media!MaybeStream
<1>2. Flags  BY DEF Media!Init, Flags
<1>3. Attempts
  BY DEF Media!Init, Attempts, Joinings, Speeches, Requests, Starts, Media!Idle, Media!IdleStart,
         Media!MaybeStream
<1>4. Owned /\ Started /\ Speaking /\ Captured
  BY DEF Media!Init, Owned, Started, Speaking, Captured, Media!Idle, Media!IdleStart
<1>5. Admitted  BY DEF Media!Init, Admitted, WillBeFree, Media!Idle, Media!IdleStart
<1> QED  BY <1>1, <1>2, <1>3, <1>4, <1>5 DEF MediaInv

\* An attempt that something came after is the same but not fresh.
LEMMA StaleIs ==
    ASSUME Attempts
    PROVE  /\ \A x \in {join, speech, request, start} : Media!Stale(x).at = x.at
           /\ \A x \in {join, speech, request, start} : Media!Stale(x).fresh = FALSE
           /\ Media!Stale(start).stream = start.stream
           /\ Media!Stale(join) \in Joinings /\ Media!Stale(speech) \in Speeches
           /\ Media!Stale(request) \in Requests /\ Media!Stale(start) \in Starts
BY DEF Attempts, Media!Stale, Joinings, Speeches, Requests, Starts

LEMMA GoesLast ==
    ASSUME NEW S, NEW queue \in Seq(S), NEW m \in S, NEW queue2, queue2 = Append(queue, m)
    PROVE  queue2 \in Seq(S) /\ queue2 # <<>> /\ queue2[Len(queue2)] = m
<1>1. Len(queue) \in Nat /\ queue2 \in Seq(S)  OBVIOUS
<1>2. Len(queue2) = Len(queue) + 1 /\ queue2[Len(queue) + 1] = m  BY <1>1
<1> QED  BY <1>1, <1>2

\* A message goes out last.
LEMMA Sent ==
    ASSUME Typed, NEW m \in Mail, NEW q2, q2 = Append(toServer, m)
    PROVE  /\ q2 \in Seq(Mail) /\ q2 # <<>>
           /\ q2[Len(q2)] = m
BY GoesLast DEF Typed

LEMMA LeaveVoiceStep ==
    ASSUME Media!MediaAssumption, MediaInv, Media!LeaveVoice
    PROVE  MediaInv' /\ Asked
<1>1. /\ voice' = "out" /\ voiceStream' = None /\ join' = Media!Stale(join)
      /\ capturing' = capturing \ {voiceStream} /\ sender' = None
      /\ owner' = IF owner = "voice" THEN "none" ELSE owner
      /\ UNCHANGED <<inRoom, speaker, stage, start, speech, stageStream, registered, held, request,
                     checks, toServer, reply, slot>>
  BY DEF Media!LeaveVoice, Media!VoiceLeft, Media!stageVars, Media!serverVars
<1>2. Typed'  BY <1>1 DEF MediaInv, Typed, Media!MaybeStream
<1>3. Flags'  BY <1>1 DEF MediaInv, Flags
<1>4. Attempts'  BY <1>1, StaleIs DEF MediaInv, Attempts
<1>j. join'.fresh = FALSE  BY <1>1, StaleIs DEF MediaInv
<1>5. Owned'  BY <1>1, <1>j DEF Media!LeaveVoice, MediaInv, Owned
<1>6. Started' /\ Speaking'  BY <1>1 DEF MediaInv, Started, Speaking
<1>7. Captured'  BY <1>1 DEF Media!LeaveVoice, MediaInv, Owned, Captured
<1>8. Admitted'  BY <1>1 DEF MediaInv, Admitted, WillBeFree
<1>9. Asked  BY <1>1 DEF Asked
<1> QED  BY <1>2, <1>3, <1>4, <1>5, <1>6, <1>7, <1>8, <1>9 DEF MediaInv

\* The stage is stopped: nothing it waited for counts, and what it held is given back.
LEMMA StageHalts ==
    ASSUME MediaInv, Media!StageSuperseded, UNCHANGED <<registered, reply, slot>>,
           stage' = "idle", stageStream' = None, held' = FALSE, speaker' \in BOOLEAN,
           toServer' = IF held THEN Media!Released(toServer) ELSE toServer
    PROVE  /\ Started' /\ Speaking' /\ Admitted' /\ checks' \subseteq BOOLEAN
           /\ start' \in Starts /\ speech' \in Speeches /\ request' \in Requests
           /\ toServer' \in Seq(Mail) /\ start'.stream = start.stream
<1>0. Attempts /\ Typed /\ checks \subseteq BOOLEAN /\ toServer \in Seq(Mail)
  BY DEF MediaInv, Flags, Typed
<1>1. /\ start' = Media!Stale(start) /\ speech' = Media!Stale(speech)
      /\ request' = Media!Stale(request) /\ checks' = {FALSE : c \in checks}
  BY DEF Media!StageSuperseded
<1>2. /\ start'.at = start.at /\ start'.fresh = FALSE /\ start'.stream = start.stream
      /\ speech'.at = speech.at /\ speech'.fresh = FALSE
      /\ request'.at = request.at /\ request'.fresh = FALSE
      /\ start' \in Starts /\ speech' \in Speeches /\ request' \in Requests
  BY <1>0, <1>1, StaleIs
<1>3. checks' \subseteq BOOLEAN /\ TRUE \notin checks' /\ (checks' # {} => checks # {})  BY <1>1
<1>4. Started'  BY <1>2 DEF MediaInv, Started
<1>5. Speaking'  BY <1>2 DEF Speaking
<1>6. /\ toServer' \in Seq(Mail)
      /\ IF held /\ registered THEN toServer' # <<>> /\ toServer'[Len(toServer')] = "release"
         ELSE toServer' = toServer
  <2>q. PICK q2 : q2 = Append(toServer, "release")  OBVIOUS
  <2>1. q2 \in Seq(Mail) /\ q2 # <<>> /\ q2[Len(q2)] = "release"
    BY <1>0, <2>q, Sent DEF Mail
  <2> QED  BY <1>0, <2>1, <2>q DEF Media!Released
<1>7. Admitted'
  <2>1. CASE held /\ registered
    BY <1>2, <1>3, <1>6, <2>1 DEF MediaInv, Admitted, WillBeFree
  <2>2. CASE ~(held /\ registered)
    BY <1>2, <1>3, <1>6, <2>2 DEF MediaInv, Admitted, WillBeFree
  <2> QED  BY <2>1, <2>2
<1> QED  BY <1>2, <1>3, <1>4, <1>5, <1>6, <1>7

LEMMA StopStageStep ==
    ASSUME Media!MediaAssumption, MediaInv, Media!StopStage
    PROVE  MediaInv' /\ Asked
<1>1. /\ Media!StageSuperseded /\ stage' = "idle" /\ stageStream' = None /\ held' = FALSE
      /\ speaker' = FALSE /\ toServer' = IF held THEN Media!Released(toServer) ELSE toServer
      /\ capturing' = capturing \ {stageStream}
      /\ sender' = IF stageStream # None THEN None ELSE sender
      /\ owner' = IF owner = "live" THEN "none" ELSE owner
      /\ UNCHANGED <<inRoom, voice, join, voiceStream, registered, reply, slot>>
  BY DEF Media!StopStage, Media!StageStopped, Media!ReleaseAdmission, Media!voiceVars
<1>2. /\ Started' /\ Speaking' /\ Admitted' /\ checks' \subseteq BOOLEAN
      /\ start' \in Starts /\ speech' \in Speeches /\ request' \in Requests
      /\ toServer' \in Seq(Mail) /\ start'.stream = start.stream
  BY <1>1, StageHalts
<1>3. Typed'  BY <1>1, <1>2 DEF MediaInv, Typed, Media!MaybeStream
<1>4. Flags'  BY <1>1, <1>2 DEF MediaInv, Flags
<1>5. Attempts'  BY <1>1, <1>2 DEF MediaInv, Attempts
<1>6. Owned'  BY <1>1 DEF MediaInv, Owned
<1>7. Captured'  BY <1>1, <1>2 DEF MediaInv, Owned, Captured
<1>8. Asked  BY <1>1 DEF Asked
<1> QED  BY <1>2, <1>3, <1>4, <1>5, <1>6, <1>7, <1>8 DEF MediaInv

LEMMA SetRoomStep ==
    ASSUME Media!MediaAssumption, MediaInv, Media!SetRoom
    PROVE  MediaInv' /\ Asked
<1>1. /\ Media!StageSuperseded /\ stage' = "idle" /\ stageStream' = None /\ held' = FALSE
      /\ speaker' = FALSE /\ toServer' = IF held THEN Media!Released(toServer) ELSE toServer
      /\ capturing' = capturing \ {voiceStream, stageStream} /\ sender' = None /\ owner' = "none"
      /\ inRoom' \in BOOLEAN /\ UNCHANGED <<registered, reply, slot>>
  BY DEF Media!SetRoom, Media!StageStopped, Media!ReleaseAdmission
<1>2. /\ Started' /\ Speaking' /\ Admitted' /\ checks' \subseteq BOOLEAN
      /\ start' \in Starts /\ speech' \in Speeches /\ request' \in Requests
      /\ toServer' \in Seq(Mail) /\ start'.stream = start.stream
  BY <1>1, StageHalts
<1>3. /\ voice' = "out" /\ voiceStream' = None /\ join' \in Joinings
      /\ ~(join'.at = "prompt" /\ join'.fresh)
  <2>0. Media!VoiceLeft /\ Attempts  BY DEF Media!SetRoom, MediaInv
  <2>1. CASE voice = "out"
    BY <2>0, <2>1 DEF Media!VoiceLeft, Media!voiceVars, MediaInv, Owned, Attempts
  <2>2. CASE voice # "out"
    BY <2>0, <2>2, StaleIs DEF Media!VoiceLeft
  <2> QED  BY <2>1, <2>2
<1>4. Typed'  BY <1>1, <1>2, <1>3 DEF MediaInv, Typed, Media!MaybeStream
<1>5. Flags'  BY <1>1, <1>2 DEF MediaInv, Flags
<1>6. Attempts'  BY <1>2, <1>3 DEF Attempts
<1>7. Owned'  BY <1>1, <1>3 DEF Owned
<1>8. Captured'  BY <1>1, <1>2, <1>3 DEF MediaInv, Captured
<1>9. Asked  BY <1>1, <1>3 DEF Asked
<1> QED  BY <1>2, <1>4, <1>5, <1>6, <1>7, <1>8, <1>9 DEF MediaInv

\* Nothing of the stage and of the server changes.
Rest == <<inRoom, speaker, stage, start, speech, stageStream, registered, held, request, checks,
          toServer, reply, slot>>

LEMMA JoinStep ==
    ASSUME Media!MediaAssumption, MediaInv,
           Media!JoinVoice \/ Media!VoiceDenied \/ Media!AnalyserRuns
    PROVE  MediaInv' /\ Asked
<1>1. /\ UNCHANGED Rest /\ UNCHANGED <<voiceStream, owner, sender, capturing>>
      /\ join' \in Joinings /\ voice' \in {"out", "joining", "joined"}
      /\ voice' = "joined" <=> voice = "joined"
      /\ join'.at = "prompt" /\ join'.fresh => voice' = "joining"
  <2>1. CASE Media!JoinVoice
    BY <2>1 DEF Media!JoinVoice, Rest, Media!stageVars, Media!serverVars, Media!mediaVars, Joinings,
                MediaInv, Typed
  <2>2. CASE Media!VoiceDenied
    <3>1. /\ join' = Media!Idle /\ voice' = IF join.fresh THEN "out" ELSE voice
          /\ join.at = "prompt" /\ UNCHANGED Rest
          /\ UNCHANGED <<voiceStream, owner, sender, capturing>>
      BY <2>2 DEF Media!VoiceDenied, Rest, Media!stageVars, Media!serverVars, Media!mediaVars
    <3>2. join' \in Joinings /\ join'.at = "none"  BY <3>1 DEF Media!Idle, Joinings
    <3>3. voice \in {"out", "joining", "joined"}  BY DEF MediaInv, Typed
    <3>4. CASE join.fresh
      <4>1. voice = "joining" /\ voice' = "out"  BY <3>1, <3>4 DEF MediaInv, Owned
      <4> QED  BY <3>1, <3>2, <4>1
    <3>5. CASE ~join.fresh
      <4>1. voice' = voice  BY <3>1, <3>5
      <4> QED  BY <3>1, <3>2, <3>3, <4>1
    <3> QED  BY <3>4, <3>5
  <2>3. CASE Media!AnalyserRuns
    BY <2>3 DEF Media!AnalyserRuns, Rest, Media!stageVars, Media!serverVars, Media!mediaVars,
                Joinings, Media!Idle, MediaInv, Typed
  <2> QED  BY <2>1, <2>2, <2>3
<1>2. Typed'  BY <1>1 DEF MediaInv, Typed, Rest
<1>3. Flags'  BY <1>1 DEF MediaInv, Flags, Rest
<1>4. Attempts'  BY <1>1 DEF MediaInv, Attempts, Rest
<1>5. Owned' /\ Started' /\ Speaking' /\ Captured'
  BY <1>1 DEF MediaInv, Owned, Started, Speaking, Captured, Rest
<1>6. Admitted'  BY <1>1 DEF MediaInv, Admitted, WillBeFree, Rest
<1>7. Asked  BY <1>1 DEF Asked, Rest
<1> QED  BY <1>2, <1>3, <1>4, <1>5, <1>6, <1>7 DEF MediaInv

\* Someone goes on: the stream is new, and the stage or voice that was on is not any more.
LEMMA VoiceGrantedStep ==
    ASSUME Media!MediaAssumption, MediaInv, Media!VoiceGranted
    PROVE  MediaInv' /\ Asked
<1>0. join.at = "prompt" /\ UNCHANGED <<inRoom, registered, reply, slot>> /\ join \in Joinings
  BY DEF Media!VoiceGranted, MediaInv, Attempts
<1>1. CASE ~Media!Joins
  <2>1. /\ join' = Media!Idle /\ UNCHANGED Rest
        /\ UNCHANGED <<voice, voiceStream, owner, sender, capturing>>
    BY <1>0, <1>1 DEF Media!VoiceGranted, Media!LiveUndisturbed, Media!stageVars, Media!mediaVars, Rest
  <2>2. join' \in Joinings /\ join'.at = "none"  BY <2>1 DEF Media!Idle, Joinings
  <2>3. Typed'  BY <2>1 DEF MediaInv, Typed, Rest
  <2>4. Flags'  BY <2>1 DEF MediaInv, Flags, Rest
  <2>5. Attempts'  BY <2>1, <2>2 DEF MediaInv, Attempts, Rest
  <2>6. Owned' /\ Started' /\ Speaking' /\ Captured'
    BY <2>1, <2>2 DEF MediaInv, Owned, Started, Speaking, Captured, Rest
  <2>7. Admitted'  BY <2>1 DEF MediaInv, Admitted, WillBeFree, Rest
  <2>8. Asked  BY <2>1 DEF Asked, Rest
  <2> QED  BY <2>3, <2>4, <2>5, <2>6, <2>7, <2>8 DEF MediaInv
<1>2. CASE Media!Joins
  <2>1. PICK s \in Streams :
          /\ Media!Unused(s) /\ voice' = "joined" /\ voiceStream' = s
          /\ join' = [join EXCEPT !.at = "analyser"]
          /\ IF owner = "live" THEN Media!LiveReplaced ELSE Media!LiveUndisturbed
          /\ owner' = "voice" /\ sender' = s
          /\ capturing' = (capturing \ (IF owner = "live" THEN {stageStream} ELSE {})) \cup {s}
    BY <1>2 DEF Media!VoiceGranted
  <2>2. join' \in Joinings /\ join'.at = "analyser"  BY <1>0, <2>1 DEF Joinings
  <2>3. s # None /\ s \notin {voiceStream, stageStream, start.stream}
    BY <2>1 DEF Media!MediaAssumption, Media!Unused
  <2>4. voiceStream = None /\ join.fresh /\ owner # "voice"
    BY <1>2 DEF Media!Joins, MediaInv, Owned
  <2>5. /\ Started' /\ Speaking' /\ Admitted' /\ checks' \subseteq BOOLEAN /\ stageStream' = None
        /\ start' \in Starts /\ speech' \in Speeches /\ request' \in Requests
        /\ toServer' \in Seq(Mail) /\ start'.stream = start.stream
        /\ stage' \in {"idle", "permission", "admission", "live"} /\ speaker' \in BOOLEAN
        /\ held' \in BOOLEAN
    <3>1. CASE owner # "live"
      <4>1. /\ UNCHANGED <<stage, start, speaker, speech, stageStream, held, request, checks,
                           toServer, registered, reply, slot>>
        BY <1>0, <2>1, <3>1 DEF Media!LiveUndisturbed, Media!stageVars
      <4>2. stageStream = None  BY <3>1 DEF MediaInv, Owned
      <4>3. Started' /\ Speaking'  BY <4>1 DEF MediaInv, Started, Speaking
      <4>4. Admitted'  BY <4>1 DEF MediaInv, Admitted, WillBeFree
      <4> QED  BY <4>1, <4>2, <4>3, <4>4 DEF MediaInv, Typed, Flags, Attempts
    <3>2. CASE owner = "live" /\ stage # "idle"
      <4>1. Media!StageStopped  BY <2>1, <3>2 DEF Media!LiveReplaced
      <4>2. /\ Media!StageSuperseded /\ stage' = "idle" /\ stageStream' = None /\ held' = FALSE
            /\ speaker' = FALSE /\ toServer' = IF held THEN Media!Released(toServer) ELSE toServer
        BY <4>1 DEF Media!StageStopped, Media!ReleaseAdmission
      <4> QED  BY <1>0, <4>2, StageHalts
    <3>3. CASE owner = "live" /\ stage = "idle"
      <4>1. /\ Media!StageSuperseded /\ stageStream' = None
            /\ UNCHANGED <<stage, speaker, held, toServer>>
        BY <2>1, <3>3 DEF Media!LiveReplaced
      <4>2. held = FALSE /\ speaker \in BOOLEAN  BY <3>3 DEF MediaInv, Flags, Admitted
      <4> QED  BY <1>0, <3>3, <4>1, <4>2, StageHalts
    <3> QED  BY <3>1, <3>2, <3>3
  <2>6. Typed'  BY <1>0, <2>1, <2>5 DEF MediaInv, Typed, Media!MaybeStream
  <2>7. Flags'  BY <1>0, <2>5 DEF MediaInv, Flags
  <2>8. Attempts'  BY <2>2, <2>5 DEF Attempts
  <2>9. Owned'  BY <2>1, <2>2, <2>3, <2>5 DEF Owned
  <2>10. Captured'
    BY <2>1, <2>3, <2>4, <2>5 DEF MediaInv, Owned, Captured
  <2>11. Asked  BY <2>4, <2>5 DEF Asked
  <2> QED  BY <2>5, <2>6, <2>7, <2>8, <2>9, <2>10, <2>11 DEF MediaInv
<1> QED  BY <1>1, <1>2

LEMMA StartStageStep ==
    ASSUME Media!MediaAssumption, MediaInv, Media!StartStage
    PROVE  MediaInv' /\ Asked
<1>1. /\ start.at = "none" /\ ~speaker /\ ~(stage = "live" /\ stageStream # None)
      /\ stage' = "permission"
      /\ start' = [at |-> "prompt", fresh |-> TRUE, stream |-> None]
      /\ speech' = Media!Stale(speech) /\ request' = Media!Stale(request)
      /\ checks' = {FALSE : c \in checks}
      /\ UNCHANGED <<inRoom, voice, join, voiceStream, speaker, stageStream, owner, sender,
                     capturing, registered, held, toServer, reply, slot>>
  BY DEF Media!StartStage, Media!voiceVars, Media!mediaVars
<1>2. start' \in Starts /\ start'.at = "prompt" /\ start'.fresh = TRUE /\ start'.stream = None
  BY <1>1 DEF Starts, Media!MaybeStream
<1>3. /\ speech' \in Speeches /\ speech'.fresh = FALSE
      /\ request' \in Requests /\ request'.fresh = FALSE /\ request'.at = request.at
  BY <1>1, StaleIs DEF MediaInv
<1>4. checks' \subseteq BOOLEAN /\ TRUE \notin checks' /\ (checks' # {} => checks # {})  BY <1>1
<1>5. stage # "live" /\ stageStream = None /\ ~held /\ start.stream = None
  BY <1>1 DEF MediaInv, Speaking, Admitted, Started
<1>6. Typed'  BY <1>1 DEF MediaInv, Typed
<1>7. Flags'  BY <1>1, <1>4 DEF MediaInv, Flags
<1>8. Attempts'  BY <1>1, <1>2, <1>3 DEF MediaInv, Attempts
<1>9. Owned'  BY <1>1 DEF MediaInv, Owned
<1>10. Started' /\ Speaking'  BY <1>1, <1>2, <1>3, <1>5 DEF Started, Speaking
<1>11. Captured'  BY <1>1, <1>2, <1>5 DEF MediaInv, Captured
<1>12. Admitted'  BY <1>1, <1>2, <1>3, <1>4, <1>5 DEF MediaInv, Admitted, WillBeFree
<1>13. Asked  BY <1>1 DEF Asked
<1> QED  BY <1>6, <1>7, <1>8, <1>9, <1>10, <1>11, <1>12, <1>13 DEF MediaInv

\* What happened to voice and stage when nothing about the slot changed.
LEMMA StageGrantedStep ==
    ASSUME Media!MediaAssumption, MediaInv, Media!StageGranted
    PROVE  MediaInv' /\ Asked
<1>0. /\ start.at = "prompt" /\ start \in Starts /\ request \in Requests
      /\ UNCHANGED <<inRoom, voice, join, voiceStream, speaker, speech, stageStream, owner, sender,
                     registered, held, checks, reply, slot>>
  BY DEF Media!StageGranted, MediaInv, Attempts, Media!voiceVars
<1>1. start.stream = None /\ stage # "live" /\ ~held /\ TRUE \notin checks
  BY <1>0 DEF MediaInv, Started, Admitted
<1>2. Owned'  BY <1>0 DEF MediaInv, Owned
<1>3. Flags'  BY <1>0 DEF MediaInv, Flags
<1>4. Asked  BY <1>0 DEF Asked
<1>5. CASE \E s \in {x \in Streams : Media!Unused(x)} :
             /\ start' = [start EXCEPT !.at = "admission", !.stream = s]
             /\ capturing' = capturing \cup {s}
             /\ start.fresh /\ stage = "permission" /\ stage' = "admission"
             /\ Media!RequestAdmission
  <2>1. PICK s \in Streams :
             /\ Media!Unused(s)
             /\ start' = [start EXCEPT !.at = "admission", !.stream = s]
             /\ capturing' = capturing \cup {s}
             /\ start.fresh /\ stage = "permission" /\ stage' = "admission"
             /\ Media!RequestAdmission
    BY <1>5
  <2>2. s # None /\ s \notin {voiceStream, stageStream}
    BY <2>1 DEF Media!MediaAssumption, Media!Unused
  <2>3. /\ start' \in Starts /\ start'.at = "admission" /\ start'.fresh = TRUE
        /\ start'.stream = s
    BY <1>0, <2>1 DEF Starts, Media!MaybeStream
  <2>4. request' \in Requests /\ toServer' \in Seq(Mail) /\ Admitted'
    <3>0. toServer \in Seq(Mail)  BY DEF MediaInv, Typed
    <3>1. CASE request.at # "none"
      <4>1. UNCHANGED <<request, toServer>>  BY <2>1, <3>1 DEF Media!RequestAdmission
      <4> QED  BY <1>0, <1>1, <2>1, <2>3, <3>0, <3>1, <4>1 DEF MediaInv, Admitted, WillBeFree
    <3>2. CASE request.at = "none" /\ registered
      <4>1. /\ request' = [at |-> "asked", fresh |-> TRUE]
            /\ toServer' = Append(toServer, "ask")
        BY <2>1, <3>2 DEF Media!RequestAdmission
      <4>2. request' \in Requests /\ request'.at = "asked"  BY <4>1 DEF Requests
      <4>a. "ask" \in Mail  BY DEF Mail
      <4>3. toServer' \in Seq(Mail)  BY <3>0, <4>1, <4>a
      <4> QED  BY <1>0, <1>1, <2>1, <2>3, <3>2, <4>2, <4>3 DEF MediaInv, Admitted
    <3>3. CASE request.at = "none" /\ ~registered
      <4>1. request' = [at |-> "waiting", fresh |-> TRUE] /\ toServer' = toServer
        BY <2>1, <3>3 DEF Media!RequestAdmission
      <4>2. request' \in Requests /\ request'.at = "waiting"  BY <4>1 DEF Requests
      <4> QED  BY <1>0, <1>1, <2>1, <2>3, <3>0, <3>3, <4>1, <4>2 DEF MediaInv, Admitted
    <3> QED  BY <3>1, <3>2, <3>3
  <2>5. Typed'  BY <1>0, <2>1, <2>4 DEF MediaInv, Typed
  <2>6. Attempts'  BY <1>0, <2>3, <2>4 DEF MediaInv, Attempts
  <2>7. Started' /\ Speaking'  BY <1>0, <1>1, <2>1, <2>2, <2>3 DEF MediaInv, Started, Speaking
  <2>8. Captured'  BY <1>0, <1>1, <2>1, <2>2, <2>3 DEF MediaInv, Captured
  <2> QED  BY <1>2, <1>3, <1>4, <2>4, <2>5, <2>6, <2>7, <2>8 DEF MediaInv
<1>6. CASE /\ stage' = IF start.fresh THEN "idle" ELSE stage
           /\ start' = Media!IdleStart
           /\ UNCHANGED <<capturing, request, toServer>>
  <2>1. /\ start' \in Starts /\ start'.at = "none" /\ start'.fresh = FALSE
        /\ start'.stream = None
    BY <1>6 DEF Media!IdleStart, Starts, Media!MaybeStream
  <2>2. Typed'  BY <1>0, <1>6 DEF MediaInv, Typed
  <2>3. Attempts'  BY <1>0, <1>6, <2>1 DEF MediaInv, Attempts
  <2>4. stage' # "live" /\ stage' # "permission" /\ stage' # "admission"
    BY <1>0, <1>1, <1>6 DEF MediaInv, Started, Typed
  <2>5. stage = "idle" => stage' = "idle"  BY <1>6
  <2>6. Started' /\ Speaking'  BY <1>0, <1>1, <2>1, <2>4, <2>5 DEF MediaInv, Started, Speaking
  <2>7. Captured'  BY <1>0, <1>1, <1>6, <2>1 DEF MediaInv, Captured
  <2>8. Admitted'  BY <1>0, <1>1, <1>6, <2>1, <2>4 DEF MediaInv, Admitted, WillBeFree
  <2> QED  BY <1>2, <1>3, <1>4, <2>2, <2>3, <2>6, <2>7, <2>8 DEF MediaInv
<1> QED  BY <1>5, <1>6 DEF Media!StageGranted

LEMMA StageDeniedStep ==
    ASSUME Media!MediaAssumption, MediaInv, Media!StageDenied
    PROVE  MediaInv' /\ Asked
<1>1. /\ start.at = "prompt" /\ start' = Media!IdleStart
      /\ held' = FALSE /\ toServer' = IF held THEN Media!Released(toServer) ELSE toServer
      /\ IF start.fresh THEN stage' = "idle" /\ speaker' = FALSE ELSE UNCHANGED <<stage, speaker>>
      /\ UNCHANGED <<inRoom, voice, join, voiceStream, speech, stageStream, owner, sender,
                     capturing, registered, request, checks, reply, slot>>
  BY DEF Media!StageDenied, Media!ReleaseAdmission, Media!voiceVars, Media!mediaVars
<1>2. ~held /\ stage # "live" /\ start.stream = None
  BY <1>1 DEF MediaInv, Admitted, Started
<1>3. /\ start' \in Starts /\ start'.at = "none" /\ start'.fresh = FALSE /\ start'.stream = None
  BY <1>1 DEF Media!IdleStart, Starts, Media!MaybeStream
<1>4. UNCHANGED <<held, toServer>>  BY <1>1, <1>2 DEF MediaInv, Flags
<1>5. /\ stage' = "idle" /\ speaker' \in BOOLEAN /\ (speaker' => speaker)
      /\ (speaker # speaker' => stage = "permission")
  BY <1>1, <1>2 DEF MediaInv, Started, Flags, Typed
<1>6. Typed'  BY <1>1, <1>4, <1>5 DEF MediaInv, Typed
<1>7. Flags'  BY <1>1, <1>4, <1>5 DEF MediaInv, Flags
<1>8. Attempts'  BY <1>1, <1>3 DEF MediaInv, Attempts
<1>9. Owned' /\ Captured'  BY <1>1, <1>2, <1>3 DEF MediaInv, Owned, Captured
<1>10. Started'  BY <1>3, <1>5 DEF Started
<1>11. Speaking'
  <2>1. speaker => stage = "idle"  BY DEF MediaInv, Speaking
  <2> QED  BY <1>1, <1>2, <1>5, <2>1 DEF MediaInv, Speaking
<1>12. Admitted'  BY <1>1, <1>2, <1>3, <1>4, <1>5 DEF MediaInv, Admitted, WillBeFree
<1>13. Asked  BY <1>1 DEF Asked
<1> QED  BY <1>6, <1>7, <1>8, <1>9, <1>10, <1>11, <1>12, <1>13 DEF MediaInv

\* A new stream takes the place of voice.
LEMMA GivesWay ==
    ASSUME MediaInv, Media!VoiceReplaced
    PROVE  /\ voice' \in {"out", "joining"} /\ voiceStream' = None /\ join' \in Joinings
           /\ join'.at = "prompt" /\ join'.fresh => voice' = "joining"
           /\ Media!OfVoice \ {None} = {voiceStream} \ {None}
<1>0. join \in Joinings /\ voice \in {"out", "joining", "joined"}  BY DEF MediaInv, Attempts, Typed
<1>1. CASE owner = "voice"
  <2>1. voiceStream # None /\ voice = "joined"  BY <1>1 DEF MediaInv, Owned
  <2>2. voice' = "out" /\ voiceStream' = None /\ join' = Media!Stale(join)
    BY <1>1, <2>1 DEF Media!VoiceReplaced, Media!VoiceLeft
  <2>3. join' \in Joinings /\ ~join'.fresh  BY <2>2, StaleIs DEF MediaInv
  <2> QED  BY <1>1, <2>2, <2>3 DEF Media!OfVoice
<1>2. CASE owner # "voice"
  <2>1. UNCHANGED <<voice, join, voiceStream>>
    BY <1>2 DEF Media!VoiceReplaced, Media!voiceVars
  <2> QED  BY <1>0, <1>2, <2>1 DEF Media!OfVoice, MediaInv, Owned
<1> QED  BY <1>1, <1>2

\* The request is settled: who waited is on or is not, and the slot is held or given back.
LEMMA SettlesStep ==
    ASSUME Media!MediaAssumption, MediaInv, request.at # "none", NEW g \in BOOLEAN,
           Media!Settles(g), UNCHANGED inRoom
    PROVE  /\ voice' \in {"out", "joining", "joined"}
           /\ stage' \in {"idle", "permission", "admission", "live"}
           /\ voiceStream' \in Media!MaybeStream /\ stageStream' \in Media!MaybeStream
           /\ owner' \in {"none", "voice", "live"}
           /\ speaker' \in BOOLEAN /\ held' \in BOOLEAN /\ checks' = {}
           /\ Attempts' /\ Owned' /\ Started' /\ Speaking' /\ Captured' /\ Asked
           /\ request'.at = "none" /\ start'.at # "admission"
           /\ held' => stage' = "live"
           /\ ~Media!GivesBack(g) => held'
           /\ ~g /\ ~held => ~held'
<1>0. /\ start \in Starts /\ speech \in Speeches /\ join \in Joinings
      /\ stage \in {"idle", "permission", "admission", "live"}
      /\ speaker \in BOOLEAN /\ held \in BOOLEAN
      /\ checks' = {} /\ request' = Media!Idle
      /\ voiceStream \in Media!MaybeStream /\ stageStream \in Media!MaybeStream
      /\ voice \in {"out", "joining", "joined"} /\ owner \in {"none", "voice", "live"}
  BY DEF MediaInv, Attempts, Typed, Flags, Media!Settles
<1>1. request'.at = "none" /\ request' \in Requests  BY <1>0 DEF Media!Idle, Requests
<1>i. PICK is : is = Media!IdleStart  OBVIOUS
<1>j. is \in Starts /\ is.at = "none" /\ is.fresh = FALSE /\ is.stream = None
  BY <1>i DEF Media!IdleStart, Starts, Media!MaybeStream
<1>2. CASE Media!Waiting /\ start.fresh /\ g
  <2>1. /\ stage' = "live" /\ speaker' = FALSE /\ held' = TRUE /\ start' = is
        /\ Media!VoiceReplaced /\ stageStream' = start.stream /\ owner' = "live"
        /\ sender' = start.stream /\ capturing' = capturing \ Media!OfVoice /\ speech' = speech
    BY <1>2, <1>i DEF Media!Settles, Media!StartSettles, Media!ChecksSettle, Media!OnStage
  <2>2. stage = "admission" /\ start.stream # None /\ start.stream \in Media!MaybeStream
    BY <1>0, <1>2 DEF Media!Waiting, MediaInv, Started, Starts
  <2>3. stageStream = None /\ start.stream # voiceStream
    BY <2>2 DEF MediaInv, Speaking, Captured
  <2>4. /\ voice' \in {"out", "joining"} /\ voiceStream' = None /\ join' \in Joinings
        /\ join'.at = "prompt" /\ join'.fresh => voice' = "joining"
        /\ Media!OfVoice \ {None} = {voiceStream} \ {None}
    BY <2>1, GivesWay
  <2>5. Attempts'  BY <1>0, <1>1, <1>j, <2>1, <2>4 DEF Attempts
  <2>6. Owned'  BY <2>1, <2>2, <2>4 DEF Owned
  <2>7. Started'  BY <1>j, <2>1 DEF Started
  <2>8. Speaking'
    <3>1. ~(speech.at = "prompt" /\ speech.fresh)  BY <2>2 DEF MediaInv, Speaking
    <3> QED  BY <2>1, <2>2, <3>1 DEF Speaking
  <2>9. Captured'
    <3>1. capturing = {voiceStream, start.stream} \ {None}  BY <2>3 DEF MediaInv, Captured
    <3>2. capturing' = {start.stream}  BY <2>1, <2>2, <2>3, <2>4, <3>1
    <3> QED  BY <1>j, <2>1, <2>2, <2>4, <3>2 DEF Captured
  <2>10. Asked  BY <1>2, <2>4 DEF Asked
  <2> QED  BY <1>0, <1>1, <1>2, <1>j, <2>1, <2>2, <2>4, <2>5, <2>6, <2>7, <2>8, <2>9, <2>10
           DEF Media!MaybeStream
<1>3. CASE Media!Waiting /\ ~(start.fresh /\ g)
  <2>1. /\ start' = is /\ stage' = IF start.fresh THEN "idle" ELSE stage
        /\ capturing' = capturing \ {start.stream} /\ speech' = speech
        /\ UNCHANGED <<speaker, held, stageStream, voice, join, voiceStream, owner, sender>>
    BY <1>3, <1>i DEF Media!Settles, Media!StartSettles, Media!ChecksSettle, Media!Abandoned,
                      Media!voiceVars
  <2>2. /\ stage # "live" /\ start.stream # None /\ ~held
        /\ stage' # "live" /\ stage' # "permission" /\ stage' # "admission"
        /\ stage = "idle" => stage' = "idle"
    BY <1>0, <1>3, <2>1 DEF Media!Waiting, MediaInv, Started, Admitted
  <2>3. Attempts'  BY <1>0, <1>1, <1>j, <2>1 DEF Attempts
  <2>4. Owned'  BY <2>1 DEF MediaInv, Owned
  <2>5. Started' /\ Speaking'  BY <1>j, <2>1, <2>2 DEF MediaInv, Started, Speaking
  <2>6. Captured'  BY <1>j, <2>1, <2>2 DEF MediaInv, Captured
  <2>7. Asked  BY <2>1 DEF Asked
  <2>8. Media!GivesBack(g)  BY <1>3 DEF Media!GivesBack
  <2> QED  BY <1>0, <1>1, <1>j, <2>1, <2>2, <2>3, <2>4, <2>5, <2>6, <2>7, <2>8
<1>4. CASE ~Media!Waiting /\ ~(TRUE \in checks /\ stage = "live")
  <2>1. UNCHANGED <<voice, join, voiceStream, stage, start, speaker, speech, stageStream, owner,
                    sender, capturing, held>>
    BY <1>4 DEF Media!Settles, Media!StartSettles, Media!ChecksSettle, Media!voiceVars,
                Media!stageVars, Media!mediaVars
  <2>2. Media!GivesBack(g)
    BY <1>4 DEF Media!Waiting, Media!GivesBack, MediaInv, Admitted
  <2>3. Attempts' /\ Owned' /\ Started' /\ Speaking' /\ Captured'
    BY <1>0, <1>1, <2>1 DEF MediaInv, Attempts, Owned, Started, Speaking, Captured
  <2>4. held' => stage' = "live"  BY <2>1 DEF MediaInv, Admitted
  <2>5. Asked  BY <2>1 DEF Asked
  <2> QED  BY <1>0, <1>1, <1>4, <2>1, <2>2, <2>3, <2>4, <2>5 DEF Media!Waiting
<1>5. CASE ~Media!Waiting /\ TRUE \in checks /\ stage = "live" /\ g
  <2>1. /\ held' = TRUE
        /\ UNCHANGED <<voice, join, voiceStream, stage, start, speaker, speech, stageStream, owner,
                       sender, capturing>>
    BY <1>5 DEF Media!Settles, Media!StartSettles, Media!ChecksSettle, Media!voiceVars,
                Media!stageVars, Media!mediaVars
  <2>3. Attempts' /\ Owned' /\ Started' /\ Speaking' /\ Captured'
    BY <1>0, <1>1, <2>1 DEF MediaInv, Attempts, Owned, Started, Speaking, Captured
  <2>5. Asked  BY <2>1 DEF Asked
  <2> QED  BY <1>0, <1>1, <1>5, <2>1, <2>3, <2>5 DEF Media!Waiting
<1>6. CASE ~Media!Waiting /\ TRUE \in checks /\ stage = "live" /\ ~g
  <2>1. /\ stage' = "idle" /\ speaker' = FALSE /\ stageStream' = None
        /\ start' = Media!Stale(start) /\ speech' = Media!Stale(speech) /\ held' = FALSE
        /\ capturing' = capturing \ {stageStream}
        /\ sender' = IF stageStream # None THEN None ELSE sender
        /\ owner' = IF owner = "live" THEN "none" ELSE owner
        /\ UNCHANGED <<voice, join, voiceStream>>
    BY <1>6 DEF Media!Settles, Media!StartSettles, Media!ChecksSettle, Media!voiceVars
  <2>2. /\ start' \in Starts /\ start'.at = start.at /\ start'.stream = start.stream
        /\ start'.fresh = FALSE /\ speech' \in Speeches /\ speech'.fresh = FALSE
    BY <2>1, StaleIs DEF MediaInv
  <2>3. Attempts'  BY <1>0, <1>1, <2>1, <2>2 DEF Attempts
  <2>4. Owned'  BY <2>1 DEF MediaInv, Owned
  <2>5. Started'  BY <2>1, <2>2 DEF MediaInv, Started
  <2>6. Speaking'  BY <2>1, <2>2 DEF Speaking
  <2>7. Captured'  BY <2>1, <2>2 DEF MediaInv, Owned, Captured
  <2>8. Asked  BY <2>1 DEF Asked
  <2>9. Media!GivesBack(g)  BY <1>6 DEF Media!GivesBack
  <2> QED  BY <1>0, <1>1, <1>6, <2>1, <2>2, <2>3, <2>4, <2>5, <2>6, <2>7, <2>8, <2>9
           DEF Media!Waiting, Media!MaybeStream
<1> QED  BY <1>2, <1>3, <1>4, <1>5, <1>6

\* What is not an answer leaves voice and stage alone.
LEMMA AnsweredStep ==
    ASSUME Media!MediaAssumption, MediaInv, Media!Answered
    PROVE  MediaInv' /\ Asked
<1>0. /\ request.at = "asked" /\ reply # "none" /\ reply' = "none"
      /\ UNCHANGED <<inRoom, registered, slot>> /\ registered
      /\ toServer' = Media!AfterAnswer(reply = "granted", toServer)
  BY DEF Media!Answered, MediaInv, Admitted
<1>g. PICK g \in BOOLEAN : g = (reply = "granted")  OBVIOUS
<1>1. Media!Settles(g)  BY <1>g DEF Media!Answered
<1>2. /\ voice' \in {"out", "joining", "joined"}
      /\ stage' \in {"idle", "permission", "admission", "live"}
      /\ voiceStream' \in Media!MaybeStream /\ stageStream' \in Media!MaybeStream
      /\ owner' \in {"none", "voice", "live"}
      /\ speaker' \in BOOLEAN /\ held' \in BOOLEAN /\ checks' = {}
      /\ Attempts' /\ Owned' /\ Started' /\ Speaking' /\ Captured' /\ Asked
      /\ request'.at = "none" /\ start'.at # "admission" /\ (held' => stage' = "live")
      /\ (~Media!GivesBack(g) => held')
  BY <1>0, <1>1, SettlesStep
<1>3. /\ toServer' \in Seq(Mail)
      /\ Media!GivesBack(g) => toServer' # <<>> /\ toServer'[Len(toServer')] = "release"
  <2>1. CASE Media!GivesBack(g)
    <3>1. toServer' = Append(toServer, "release")
      BY <1>0, <1>g, <2>1 DEF Media!AfterAnswer, Media!Released
    <3>m. "release" \in Mail  BY DEF Mail
    <3>q. PICK q2 : q2 = Append(toServer, "release")  OBVIOUS
    <3>2. q2 \in Seq(Mail) /\ q2 # <<>> /\ q2[Len(q2)] = "release"
      BY <3>m, <3>q, Sent DEF MediaInv
    <3> QED  BY <2>1, <3>1, <3>2, <3>q
  <2>2. CASE ~Media!GivesBack(g)
    BY <1>0, <1>g, <2>2 DEF Media!AfterAnswer, MediaInv, Typed
  <2> QED  BY <2>1, <2>2
<1>4. Typed'  BY <1>0, <1>2, <1>3 DEF Typed
<1>5. Flags'  BY <1>0, <1>2 DEF MediaInv, Flags
<1>6. Admitted'  BY <1>0, <1>2, <1>3 DEF Admitted, WillBeFree
<1> QED  BY <1>2, <1>4, <1>5, <1>6 DEF MediaInv

LEMMA TimeoutStep ==
    ASSUME Media!MediaAssumption, MediaInv, Media!AdmissionTimeout
    PROVE  MediaInv' /\ Asked
<1>0. /\ request.at # "none" /\ reply' = "none" /\ UNCHANGED <<inRoom, registered, slot>>
      /\ Media!Settles(FALSE)
  BY DEF Media!AdmissionTimeout
<1>2. /\ voice' \in {"out", "joining", "joined"}
      /\ stage' \in {"idle", "permission", "admission", "live"}
      /\ voiceStream' \in Media!MaybeStream /\ stageStream' \in Media!MaybeStream
      /\ owner' \in {"none", "voice", "live"}
      /\ speaker' \in BOOLEAN /\ held' \in BOOLEAN /\ checks' = {}
      /\ Attempts' /\ Owned' /\ Started' /\ Speaking' /\ Captured' /\ Asked
      /\ request'.at = "none" /\ start'.at # "admission" /\ (held' => stage' = "live")
      /\ (~held => ~held')
  BY <1>0, SettlesStep
<1>t. toServer \in Seq(Mail) /\ Len(toServer) \in Nat  BY DEF MediaInv, Typed
<1>3. /\ toServer' \in Seq(Mail)
      /\ IF registered THEN toServer' # <<>> /\ toServer'[Len(toServer')] = "release"
         ELSE toServer' = <<>>
  <2>q. PICK late : late = [i \in DOMAIN toServer |->
                        IF toServer[i] = "ask" THEN "late ask" ELSE toServer[i]]
    OBVIOUS
  <2>m. "release" \in Mail /\ "late ask" \in Mail  BY DEF Mail
  <2>1. late \in Seq(Mail)
    <3>1. \A i \in 1..Len(toServer) : toServer[i] \in Mail  BY <1>t
    <3>2. late = [i \in 1..Len(toServer) |->
                    IF toServer[i] = "ask" THEN "late ask" ELSE toServer[i]]
      <4>1. DOMAIN toServer = 1..Len(toServer)  BY <1>t
      <4> QED  BY <2>q, <4>1
    <3>3. \A i \in 1..Len(toServer) : late[i] \in Mail  BY <2>m, <3>1, <3>2
    <3>4. late \in [1..Len(toServer) -> Mail]  BY <3>2, <3>3
    <3> QED  BY <1>t, <3>4
  <2>2. CASE registered
    <3>1. request.at = "asked"
      BY <1>0, <2>2 DEF MediaInv, Admitted, Attempts, Requests
    <3>2. PICK asked : asked = Append(late, "release")  OBVIOUS
    <3>3. toServer' = asked
      BY <2>2, <2>q, <3>1, <3>2 DEF Media!AdmissionTimeout, Media!Released
    <3>4. asked \in Seq(Mail) /\ asked # <<>> /\ asked[Len(asked)] = "release"
      BY <2>m, <2>1, <3>2, GoesLast
    <3> QED  BY <2>2, <3>3, <3>4
  <2>3. CASE ~registered
    <3>1. toServer = <<>>  BY <2>3 DEF MediaInv, Admitted
    <3>2. late = <<>>
      <4>1. DOMAIN late = 1..0  BY <2>q, <3>1
      <4> QED  BY <2>1, <4>1
    <3> QED  BY <1>t, <2>3, <2>q, <3>1, <3>2 DEF Media!AdmissionTimeout, Media!Released
  <2> QED  BY <2>2, <2>3
<1>4. Typed'  BY <1>0, <1>2, <1>3 DEF Typed
<1>5. Flags'  BY <1>0, <1>2 DEF MediaInv, Flags
<1>6. Admitted'
  <2>1. CASE registered  BY <1>0, <1>2, <1>3, <2>1 DEF Admitted, WillBeFree
  <2>2. CASE ~registered
    BY <1>0, <1>2, <1>3, <2>2 DEF MediaInv, Admitted, WillBeFree
  <2> QED  BY <2>1, <2>2
<1> QED  BY <1>2, <1>4, <1>5, <1>6 DEF MediaInv

\* What voice and stage hold is the same.
Devices == <<inRoom, voice, join, voiceStream, stage, start, speaker, speech, stageStream, owner,
             sender, capturing>>

LEMMA Undisturbed ==
    ASSUME MediaInv, UNCHANGED Devices,
           request' \in Requests, checks' \subseteq BOOLEAN, registered' \in BOOLEAN,
           held' \in BOOLEAN, slot' \in BOOLEAN, toServer' \in Seq(Mail),
           reply' \in {"none", "granted", "refused"}, Admitted'
    PROVE  MediaInv' /\ Asked
<1>1. Typed' /\ Flags' /\ Attempts'  BY DEF MediaInv, Typed, Flags, Attempts, Devices
<1>2. Owned' /\ Started' /\ Speaking' /\ Captured'
  BY DEF MediaInv, Owned, Started, Speaking, Captured, Devices
<1>3. Asked  BY DEF Asked, Devices
<1> QED  BY <1>1, <1>2, <1>3 DEF MediaInv

LEMMA DisconnectStep ==
    ASSUME Media!MediaAssumption, MediaInv, Media!Disconnect
    PROVE  MediaInv' /\ Asked
<1>1. /\ registered' = FALSE /\ held' = FALSE /\ toServer' = <<>> /\ reply' = "none"
      /\ slot' = FALSE /\ UNCHANGED Devices /\ UNCHANGED <<request, checks>> /\ registered
  BY DEF Media!Disconnect, Devices, Media!voiceVars, Media!stageVars, Media!mediaVars
<1>2. request \in Requests /\ checks \subseteq BOOLEAN /\ toServer' \in Seq(Mail)
  BY <1>1 DEF MediaInv, Attempts, Flags
<1>3. Admitted'  BY <1>1 DEF MediaInv, Admitted, WillBeFree, Devices
<1> QED  BY <1>1, <1>2, <1>3, Undisturbed

LEMMA RegisterStep ==
    ASSUME Media!MediaAssumption, MediaInv, Media!Register
    PROVE  MediaInv' /\ Asked
<1>0. /\ ~registered /\ registered' = TRUE /\ UNCHANGED <<inRoom, reply, slot>>
      /\ toServer = <<>> /\ slot = FALSE /\ held = FALSE /\ reply = "none"
      /\ request \in Requests /\ checks \subseteq BOOLEAN
  BY DEF Media!Register, MediaInv, Admitted, Attempts, Flags
<1>a. <<"ask">> \in Seq(Mail) /\ <<>> \in Seq(Mail)
  <2>1. "ask" \in Mail  BY DEF Mail
  <2> QED  BY <2>1
<1>1. CASE /\ stage = "live" /\ ~held
           /\ checks' = checks \cup {TRUE}
           /\ IF request.at = "none"
              THEN request' = [at |-> "asked", fresh |-> TRUE] /\ toServer' = <<"ask">>
              ELSE UNCHANGED <<request, toServer>>
           /\ UNCHANGED <<Media!voiceVars, Media!stageVars, Media!mediaVars, held>>
  <2>1. UNCHANGED Devices
    BY <1>0, <1>1 DEF Devices, Media!voiceVars, Media!stageVars, Media!mediaVars
  <2>2. CASE request.at = "none"
    <3>0. request' = [at |-> "asked", fresh |-> TRUE] /\ toServer' = <<"ask">>
      BY <1>1, <2>2
    <3>1. request' \in Requests /\ request'.at = "asked" /\ toServer' \in Seq(Mail)
      BY <1>a, <3>0 DEF Requests
    <3>2. Admitted'  BY <1>0, <1>1, <2>1, <2>2, <3>1 DEF MediaInv, Admitted, Devices
    <3> QED  BY <1>0, <1>1, <2>1, <3>1, <3>2, Undisturbed
  <2>3. CASE request.at # "none"
    <3>1. UNCHANGED <<request, toServer>>  BY <1>1, <2>3
    <3>2. Admitted'
      BY <1>0, <1>1, <2>1, <2>3, <3>1 DEF MediaInv, Admitted, Devices, WillBeFree, Started
    <3> QED  BY <1>0, <1>1, <1>a, <2>1, <3>1, <3>2, Undisturbed
  <2> QED  BY <2>2, <2>3
<1>2. CASE /\ request.at = "waiting" /\ request.fresh
           /\ request' = [request EXCEPT !.at = "asked"] /\ toServer' = <<"ask">>
           /\ UNCHANGED <<Media!voiceVars, Media!stageVars, Media!mediaVars, held, checks>>
  <2>1. UNCHANGED Devices
    BY <1>0, <1>2 DEF Devices, Media!voiceVars, Media!stageVars, Media!mediaVars
  <2>2. request' \in Requests /\ request'.at = "asked" /\ request'.fresh = request.fresh
    BY <1>0, <1>2 DEF Requests
  <2>3. Admitted'  BY <1>0, <1>2, <2>1, <2>2 DEF MediaInv, Admitted, Devices
  <2> QED  BY <1>0, <1>2, <1>a, <2>1, <2>2, <2>3, Undisturbed
<1>3. CASE request.at = "waiting" /\ Media!Settles(FALSE) /\ UNCHANGED toServer
  <2>1. /\ voice' \in {"out", "joining", "joined"}
        /\ stage' \in {"idle", "permission", "admission", "live"}
        /\ voiceStream' \in Media!MaybeStream /\ stageStream' \in Media!MaybeStream
        /\ owner' \in {"none", "voice", "live"}
        /\ speaker' \in BOOLEAN /\ held' \in BOOLEAN /\ checks' = {}
        /\ Attempts' /\ Owned' /\ Started' /\ Speaking' /\ Captured' /\ Asked
        /\ request'.at = "none" /\ start'.at # "admission" /\ (held' => stage' = "live")
    BY <1>0, <1>3, SettlesStep
  <2>2. Typed'  BY <1>0, <1>3, <1>a, <2>1 DEF Typed
  <2>3. Flags'  BY <1>0, <2>1 DEF MediaInv, Flags
  <2>4. Admitted'  BY <1>0, <1>3, <2>1 DEF Admitted, WillBeFree
  <2> QED  BY <2>1, <2>2, <2>3, <2>4 DEF MediaInv
<1>4. CASE /\ request.at # "waiting"
           /\ UNCHANGED <<Media!voiceVars, Media!stageVars, Media!mediaVars, held, request, checks,
                          toServer>>
  <2>1. UNCHANGED Devices
    BY <1>0, <1>4 DEF Devices, Media!voiceVars, Media!stageVars, Media!mediaVars
  <2>2. Admitted'  BY <1>0, <1>4, <2>1 DEF MediaInv, Admitted, Devices, WillBeFree
  <2> QED  BY <1>0, <1>4, <1>a, <2>1, <2>2, Undisturbed
<1> QED  BY <1>1, <1>2, <1>3, <1>4 DEF Media!Register

LEMMA ServerStep ==
    ASSUME Media!MediaAssumption, MediaInv, Media!Server
    PROVE  MediaInv' /\ Asked
<1>0. /\ toServer # <<>> /\ toServer' = Tail(toServer) /\ toServer \in Seq(Mail)
      /\ UNCHANGED Devices /\ UNCHANGED <<registered, held, request, checks>> /\ registered
      /\ request \in Requests /\ checks \subseteq BOOLEAN /\ held \in BOOLEAN
  BY DEF Media!Server, Devices, Media!voiceVars, Media!stageVars, Media!mediaVars, MediaInv, Typed,
         Attempts, Flags, Admitted
<1>1. /\ slot' \in BOOLEAN /\ reply' \in {"none", "granted", "refused"}
      /\ Head(toServer) = "release" => slot' = FALSE
  <2>0. reply \in {"none", "granted", "refused"} /\ slot \in BOOLEAN
    BY DEF MediaInv, Typed, Flags
  <2>1. CASE Head(toServer) = "release"
    BY <2>0, <2>1 DEF Media!Server
  <2>2. CASE Head(toServer) # "release"
    <3>1. PICK granted \in BOOLEAN :
             /\ slot' = (slot \/ granted)
             /\ reply' = IF Head(toServer) = "late ask" THEN reply
                         ELSE IF slot' THEN "granted" ELSE "refused"
      BY <2>2 DEF Media!Server
    <3> QED  BY <2>0, <2>2, <3>1
  <2> QED  BY <2>1, <2>2
<1>2. WillBeFree => WillBeFree'
  <2>1. Len(toServer) \in Nat /\ Len(toServer) # 0 /\ Head(toServer) = toServer[1]
    BY <1>0
  <2>2. /\ toServer' \in Seq(Mail) /\ Len(toServer') = Len(toServer) - 1
        /\ \A i \in 1..(Len(toServer) - 1) : toServer'[i] = toServer[i + 1]
    BY <1>0, <2>1
  <2>3. CASE Len(toServer) = 1
    <3>1. toServer' = <<>>  BY <2>2, <2>3
    <3> QED  BY <1>0, <1>1, <2>1, <2>3, <3>1 DEF WillBeFree
  <2>4. CASE Len(toServer) # 1
    <3>1. toServer' # <<>> /\ toServer'[Len(toServer')] = toServer[Len(toServer)]
      BY <2>1, <2>2, <2>4
    <3> QED  BY <1>0, <3>1 DEF WillBeFree
  <2> QED  BY <2>3, <2>4
<1>3. toServer' \in Seq(Mail)  BY <1>0
<1>4. Admitted'  BY <1>0, <1>2 DEF MediaInv, Admitted, Devices
<1> QED  BY <1>0, <1>1, <1>3, <1>4, Undisturbed DEF MediaInv, Flags

LEMMA StageStateStep ==
    ASSUME Media!MediaAssumption, MediaInv, Media!StageState
    PROVE  MediaInv' /\ Asked
<1>0. /\ speaker' \in BOOLEAN /\ (speaker' => stage = "idle") /\ speech \in Speeches
      /\ speech' = IF speaker' /\ stageStream = None /\ speech.at = "none"
                   THEN [at |-> "prompt", fresh |-> TRUE] ELSE speech
      /\ UNCHANGED <<inRoom, voice, join, voiceStream, stage, start, registered, held, request,
                     checks, toServer, reply, slot>>
  BY DEF Media!StageState, MediaInv, Attempts, Media!voiceVars, Media!serverVars
<1>1. \/ /\ speaker /\ ~speaker' /\ stageStream' = None
         /\ capturing' = capturing \ {stageStream}
         /\ sender' = IF stageStream # None THEN None ELSE sender
         /\ owner' = IF owner = "live" THEN "none" ELSE owner
      \/ /\ ~(speaker /\ ~speaker')
         /\ UNCHANGED <<stageStream, owner, sender, capturing>>
  BY DEF Media!StageState, Media!mediaVars
<1>2. speech' \in Speeches
  <2>1. [at |-> "prompt", fresh |-> TRUE] \in Speeches  BY DEF Speeches
  <2> QED  BY <1>0, <2>1
<1>3. Typed'  BY <1>0, <1>1 DEF MediaInv, Typed, Media!MaybeStream
<1>4. Flags'  BY <1>0 DEF MediaInv, Flags
<1>5. Attempts'  BY <1>0, <1>2 DEF MediaInv, Attempts
<1>6. Owned' /\ Captured'  BY <1>0, <1>1 DEF MediaInv, Owned, Captured
<1>7. Started'  BY <1>0 DEF MediaInv, Started
<1>8. Speaking'
  <2>1. CASE speaker' /\ stageStream = None /\ speech.at = "none"
    BY <1>0, <1>1, <2>1 DEF MediaInv, Speaking
  <2>2. CASE ~(speaker' /\ stageStream = None /\ speech.at = "none")
    <3>1. speech' = speech  BY <1>0, <2>2
    <3> QED  BY <1>0, <1>1, <3>1 DEF MediaInv, Speaking
  <2> QED  BY <2>1, <2>2
<1>9. Admitted'  BY <1>0 DEF MediaInv, Admitted, WillBeFree
<1>10. Asked  BY <1>0, <1>1 DEF Asked
<1> QED  BY <1>3, <1>4, <1>5, <1>6, <1>7, <1>8, <1>9, <1>10 DEF MediaInv

LEMMA SpeechStep ==
    ASSUME Media!MediaAssumption, MediaInv, Media!SpeechGranted \/ Media!SpeechDenied
    PROVE  MediaInv' /\ Asked
<1>0. /\ speech.at = "prompt" /\ speech' = Media!Idle
      /\ UNCHANGED <<inRoom, stage, start, speaker, registered, held, request, checks, toServer,
                     reply, slot>>
  BY DEF Media!SpeechGranted, Media!SpeechDenied, Media!serverVars
<1>1. speech' \in Speeches /\ speech'.at = "none"  BY <1>0 DEF Media!Idle, Speeches
<1>2. Flags'  BY <1>0 DEF MediaInv, Flags
<1>3. Started'  BY <1>0 DEF MediaInv, Started
<1>4. Admitted'  BY <1>0 DEF MediaInv, Admitted, WillBeFree
<1>5. CASE UNCHANGED <<stageStream, Media!voiceVars, Media!mediaVars>>
  <2>1. UNCHANGED <<stageStream, voice, join, voiceStream, owner, sender, capturing>>
    BY <1>5 DEF Media!voiceVars, Media!mediaVars
  <2>2. Typed'  BY <1>0, <2>1 DEF MediaInv, Typed
  <2>3. Attempts'  BY <1>0, <1>1, <2>1 DEF MediaInv, Attempts
  <2>4. Owned' /\ Speaking' /\ Captured'
    BY <1>0, <1>1, <2>1 DEF MediaInv, Owned, Speaking, Captured
  <2>5. Asked  BY <2>1 DEF Asked
  <2> QED  BY <1>2, <1>3, <1>4, <2>2, <2>3, <2>4, <2>5 DEF MediaInv
<1>6. CASE /\ speech.fresh /\ speaker
           /\ \E s \in {x \in Streams : Media!Unused(x)} :
                 Media!OnStage(s) /\ capturing' = (capturing \ Media!OfVoice) \cup {s}
  <2>1. PICK s \in Streams :
           /\ Media!Unused(s) /\ Media!VoiceReplaced
           /\ stageStream' = s /\ owner' = "live" /\ sender' = s
           /\ capturing' = (capturing \ Media!OfVoice) \cup {s}
    BY <1>6 DEF Media!OnStage
  <2>2. s # None /\ s \notin {voiceStream, stageStream, start.stream}
    BY <2>1 DEF Media!MediaAssumption, Media!Unused
  <2>3. stage = "idle" /\ stageStream = None  BY <1>0, <1>6 DEF MediaInv, Speaking
  <2>4. /\ voice' \in {"out", "joining"} /\ voiceStream' = None /\ join' \in Joinings
        /\ join'.at = "prompt" /\ join'.fresh => voice' = "joining"
        /\ Media!OfVoice \ {None} = {voiceStream} \ {None}
    BY <2>1, GivesWay
  <2>5. Typed'  BY <1>0, <2>1, <2>4 DEF MediaInv, Typed, Media!MaybeStream
  <2>6. Attempts'  BY <1>0, <1>1, <2>4 DEF MediaInv, Attempts
  <2>7. Owned'  BY <2>1, <2>2, <2>4 DEF Owned
  <2>8. Speaking'  BY <1>0, <1>1, <1>6, <2>3 DEF Speaking
  <2>9. Captured'
    <3>1. capturing = {voiceStream, start.stream} \ {None}  BY <2>3 DEF MediaInv, Captured
    <3>2. start.stream # None => start.stream # voiceStream  BY DEF MediaInv, Captured
    <3>3. capturing' = ({start.stream} \ {None}) \cup {s}  BY <2>1, <2>4, <3>1, <3>2
    <3> QED  BY <1>0, <2>1, <2>2, <2>4, <3>3 DEF Captured
  <2>10. Asked  BY <1>6, <2>4 DEF Asked
  <2> QED  BY <1>2, <1>3, <1>4, <2>5, <2>6, <2>7, <2>8, <2>9, <2>10 DEF MediaInv
<1>7. CASE Media!SpeechDenied
  BY <1>5, <1>7 DEF Media!SpeechDenied
<1>8. CASE Media!SpeechGranted
  BY <1>5, <1>6, <1>8 DEF Media!SpeechGranted
<1> QED  BY <1>7, <1>8

LEMMA MediaStep ==
    ASSUME Media!MediaAssumption, MediaInv, [Media!Next]_Media!vars
    PROVE  MediaInv' /\ Asked
<1>1. CASE UNCHANGED Media!vars
  <2>1. UNCHANGED Devices /\ UNCHANGED <<registered, held, request, checks, toServer, reply, slot>>
    BY <1>1 DEF Media!vars, Media!voiceVars, Media!stageVars, Media!mediaVars, Media!serverVars,
                Devices
  <2>2. Admitted'  BY <2>1 DEF MediaInv, Admitted, WillBeFree, Devices
  <2> QED  BY <2>1, <2>2, Undisturbed DEF MediaInv, Attempts, Flags, Typed
<1>2. CASE Media!Next
  BY <1>2, LeaveVoiceStep, StopStageStep, SetRoomStep, JoinStep, VoiceGrantedStep, StartStageStep,
     StageGrantedStep, StageDeniedStep, AnsweredStep, TimeoutStep, DisconnectStep, RegisterStep,
     ServerStep, StageStateStep, SpeechStep
     DEF Media!Next
<1> QED  BY <1>1, <1>2

LEMMA MediaCorrect ==
    ASSUME Media!MediaAssumption
    PROVE  Media!Spec => /\ [](/\ Media!TypeOK /\ Media!NothingLeftCapturing
                              /\ Media!SenderFollowsOwner /\ Media!NoSlotLeft)
                         /\ Media!OnlyAskedFor
<1>1. Media!Init => MediaInv  BY MediaInit
<1>2. MediaInv /\ [Media!Next]_Media!vars =>
         /\ MediaInv'
         /\ [/\ voiceStream' \notin {voiceStream, None} => join.fresh
             /\ stageStream' \notin {stageStream, None} => start.fresh \/ speech.fresh]_Media!vars
  BY MediaStep DEF Asked
<1>3. MediaInv => /\ Media!TypeOK /\ Media!NothingLeftCapturing
                  /\ Media!SenderFollowsOwner /\ Media!NoSlotLeft
  BY MediaSafe
<1> QED  BY <1>1, <1>2, <1>3, PTL DEF Media!Spec, Media!OnlyAskedFor

(***************************************************************************)
(* A focus session.  One operation is under way at a time: what waits for  *)
(* an identity or a timer is either stale or belongs to the phase shown.   *)
(***************************************************************************)

TimersOff == watch = None /\ arrival = None /\ countdown = None

Established == {"matched", "active", "completed"}

\* Outside a session nothing of one is left.
Placed ==
    /\ phase \in Established => session \in Focus!SessionRooms
    /\ phase \notin Established => session = None /\ TimersOff
    /\ phase = "matched" => current = session \/ TRUE \in waiting
    /\ phase = "active" => remaining > 0

\* A search that has begun has left the room of the match before.
Searching ==
    TRUE \in waiting => /\ phase \in {"idle", "matched"} /\ TimersOff
                        /\ current \notin Focus!SessionRooms
                        /\ \A j \in joins : ~j.fresh

\* Of the joins under way one can be the match's, and nothing runs before it ends.
Joining ==
    /\ \A j \in joins : j.fresh => /\ phase = "matched" /\ j.room = session /\ ~j.already
                                   /\ TimersOff
    /\ \A j, k \in joins : j.fresh /\ k.fresh => j = k

FocusSafe ==
    /\ Focus!TypeOK /\ Focus!ActiveInOwnRoom /\ Focus!QueuedIsInQueue
    /\ Focus!NoRoomLeft /\ Focus!TimersBelongToPhase

FocusInv == FocusSafe /\ Placed /\ Searching /\ Joining

ClockStep == remaining' > remaining => phase = "matched" \/ Focus!ExtendSession

FocusDone == FocusInv' /\ ClockStep

LEMMA Lengths ==
    ASSUME Focus!FocusAssumption
    PROVE  Length \in Nat /\ Length > 0 /\ 0 \in 0..Length /\ Length \in 0..Length
BY DEF Focus!FocusAssumption

LEMMA FocusInit == ASSUME Focus!FocusAssumption, Focus!Init PROVE FocusInv
<1>1. Focus!TypeOK
  BY Lengths DEF Focus!Init, Focus!TypeOK, Focus!MaybeRoom, Focus!Timers
<1>2. /\ Focus!ActiveInOwnRoom /\ Focus!QueuedIsInQueue /\ Focus!NoRoomLeft
      /\ Focus!TimersBelongToPhase
  BY DEF Focus!Init, Focus!FocusAssumption, Focus!ActiveInOwnRoom, Focus!QueuedIsInQueue,
         Focus!NoRoomLeft, Focus!TimersBelongToPhase
<1>3. Placed /\ Searching /\ Joining
  BY DEF Focus!Init, Placed, Searching, Joining, Established, TimersOff
<1> QED  BY <1>1, <1>2, <1>3 DEF FocusInv, FocusSafe

\* What supersedes a join leaves it as it is but for its freshness.
LEMMA SupersededAreStale ==
    ASSUME NEW list, list \subseteq [room : Focus!SessionRooms, fresh : BOOLEAN, already : BOOLEAN]
    PROVE  /\ Focus!Superseded(list) \subseteq
                 [room : Focus!SessionRooms, fresh : BOOLEAN, already : BOOLEAN]
           /\ \A j \in Focus!Superseded(list) : ~j.fresh
<1>1. ASSUME NEW j \in [room : Focus!SessionRooms, fresh : BOOLEAN, already : BOOLEAN]
      PROVE  /\ [j EXCEPT !.fresh = FALSE] \in
                   [room : Focus!SessionRooms, fresh : BOOLEAN, already : BOOLEAN]
             /\ [j EXCEPT !.fresh = FALSE].fresh = FALSE
  BY <1>1
<1> QED  BY <1>1 DEF Focus!Superseded

\* The session is over, or there was none, and nothing of it goes on.
LEMMA GoesIdle ==
    ASSUME Focus!FocusAssumption, FocusInv, Focus!BackToIdle, Focus!Cleared,
           \A j \in joins' : ~j.fresh, waiting' \subseteq {FALSE},
           joins' \subseteq [room : Focus!SessionRooms, fresh : BOOLEAN, already : BOOLEAN],
           current' \in {Elsewhere, None}, socket' \in {"none", "failing"},
           given' \subseteq Matches, ends' \subseteq Focus!SessionRooms
    PROVE  FocusDone
<1>0. /\ phase' = "idle" /\ session' = None /\ present' = FALSE /\ remaining' = 0
      /\ watch' = None /\ arrival' = None /\ countdown' = None
  BY DEF Focus!BackToIdle, Focus!Cleared
<1>1. current' \notin Focus!SessionRooms  BY DEF Focus!FocusAssumption
<1>2. Focus!TypeOK'
  <2>1. remaining' \in 0..Length /\ waiting' \subseteq BOOLEAN  BY <1>0, Lengths
  <2> QED  BY <1>0, <2>1 DEF Focus!TypeOK, Focus!MaybeRoom, Focus!Timers
<1>3. (/\ Focus!ActiveInOwnRoom /\ Focus!QueuedIsInQueue /\ Focus!NoRoomLeft
       /\ Focus!TimersBelongToPhase)'
  BY <1>0, <1>1 DEF Focus!ActiveInOwnRoom, Focus!QueuedIsInQueue, Focus!NoRoomLeft,
                    Focus!TimersBelongToPhase
<1>4. Placed' /\ Searching' /\ Joining'
  BY <1>0 DEF Placed, Searching, Joining, Established, TimersOff
<1>5. ClockStep
  BY <1>0 DEF FocusInv, FocusSafe, Focus!TypeOK, Focus!FocusAssumption, ClockStep
<1> QED  BY <1>2, <1>3, <1>4, <1>5 DEF FocusDone, FocusInv, FocusSafe

\* The room a session leaves is its own.
LEMMA RoomIsLeft ==
    ASSUME Focus!FocusAssumption, FocusInv, Focus!LeaveRoom(session)
    PROVE  current' \in {Elsewhere, None}
<1>1. current \in Focus!MaybeRoom \cup {Elsewhere} /\ (current \in Focus!SessionRooms => session = current)
  BY DEF FocusInv, FocusSafe, Focus!TypeOK, Focus!NoRoomLeft
<1> QED  BY <1>1 DEF Focus!LeaveRoom, Focus!MaybeRoom

\* Undone by the user, by the partner or by another room.
LEMMA OverStep ==
    ASSUME Focus!FocusAssumption, FocusInv, Focus!Over, Focus!BackToIdle,
           current' \in {Elsewhere, None}, socket' \in {"none", "failing"},
           given' \subseteq Matches, ends' \subseteq Focus!SessionRooms
    PROVE  FocusDone
<1>1. joins' = Focus!Superseded(joins) /\ waiting' = {FALSE : b \in waiting} /\ Focus!Cleared
  BY DEF Focus!Over
<1>2. joins \subseteq [room : Focus!SessionRooms, fresh : BOOLEAN, already : BOOLEAN]
  BY DEF FocusInv, FocusSafe, Focus!TypeOK
<1>3. waiting' \subseteq {FALSE}  BY <1>1
<1> QED  BY <1>1, <1>2, <1>3, SupersededAreStale, GoesIdle

LEMMA LeavingStep ==
    ASSUME Focus!FocusAssumption, FocusInv, Focus!CancelQueue \/ Focus!EndSession
    PROVE  FocusDone
<1>1. /\ Focus!Over /\ Focus!BackToIdle /\ Focus!LeaveRoom(session) /\ socket' = "none"
      /\ UNCHANGED <<given, ends>>
  BY DEF Focus!CancelQueue, Focus!EndSession, Focus!LeaveOwn, Focus!LeaveQueue
<1>2. given \subseteq Matches /\ ends \subseteq Focus!SessionRooms
  BY DEF FocusInv, FocusSafe, Focus!TypeOK
<1> QED  BY <1>1, <1>2, RoomIsLeft, OverStep

\* Nothing but the room, the queue's answers or stale work changes.
LEMMA SameSession ==
    ASSUME Focus!FocusAssumption, FocusInv, UNCHANGED Focus!stateVars, UNCHANGED Focus!timerVars,
           TRUE \in waiting' <=> TRUE \in waiting, waiting' \subseteq BOOLEAN,
           joins' \subseteq joins, \A j \in joins : j.fresh => j \in joins',
           current' = current \/ (/\ current' \in {Elsewhere, None}
                                  /\ phase \in {"idle", "queued"}),
           socket' \in {"none", "open", "failing"}, socket' = "open" <=> socket = "open",
           given' \subseteq Matches, ends' \subseteq Focus!SessionRooms
    PROVE  FocusDone
<1>0. UNCHANGED <<phase, session, present, remaining, watch, arrival, countdown>>
  BY DEF Focus!stateVars, Focus!timerVars
<1>1. Focus!TypeOK'
  BY <1>0 DEF Focus!FocusAssumption, FocusInv, FocusSafe, Focus!TypeOK, Focus!MaybeRoom, Focus!Timers
<1>2. (/\ Focus!ActiveInOwnRoom /\ Focus!QueuedIsInQueue /\ Focus!NoRoomLeft
       /\ Focus!TimersBelongToPhase)'
  BY <1>0 DEF FocusInv, FocusSafe, Focus!FocusAssumption, Focus!ActiveInOwnRoom,
              Focus!QueuedIsInQueue, Focus!NoRoomLeft, Focus!TimersBelongToPhase, Focus!Current
<1>3. Placed' /\ Searching' /\ Joining'
  BY <1>0 DEF FocusInv, Focus!FocusAssumption, Placed, Searching, Joining, Established, TimersOff
<1>4. ClockStep
  BY <1>0 DEF FocusInv, FocusSafe, Focus!TypeOK, Focus!FocusAssumption, ClockStep
<1> QED  BY <1>1, <1>2, <1>3, <1>4 DEF FocusDone, FocusInv, FocusSafe

LEMMA ChangeRoomStep ==
    ASSUME Focus!FocusAssumption, FocusInv, Focus!ChangeRoom
    PROVE  FocusDone
<1>0. /\ phase # "matched" /\ current' \in {Elsewhere, None} /\ UNCHANGED <<socket, given, ends>>
      /\ given \subseteq Matches /\ ends \subseteq Focus!SessionRooms
      /\ socket \in {"none", "open", "failing"} /\ waiting \subseteq BOOLEAN
  BY DEF Focus!ChangeRoom, FocusInv, FocusSafe, Focus!TypeOK
<1>1. CASE Focus!Displaced(current')
  <2>1. Focus!Over /\ Focus!BackToIdle  BY <1>1 DEF Focus!ChangeRoom
  <2>2. socket # "open"
    BY <1>1 DEF Focus!Displaced, FocusInv, FocusSafe, Focus!QueuedIsInQueue
  <2> QED  BY <1>0, <2>1, <2>2, OverStep
<1>2. CASE ~Focus!Displaced(current')
  <2>1. UNCHANGED <<Focus!stateVars, waiting, joins, Focus!timerVars>>
    BY <1>2 DEF Focus!ChangeRoom
  <2>2. phase \in {"idle", "queued"}
    <3>1. phase \in Established => session # current'
      BY <1>0 DEF FocusInv, Placed, Focus!FocusAssumption
    <3> QED
      BY <1>0, <1>2, <3>1 DEF Focus!Displaced, FocusInv, FocusSafe, Focus!TypeOK, Established
  <2> QED  BY <1>0, <2>1, <2>2, SameSession
<1> QED  BY <1>1, <1>2

LEMMA StartQueueStep ==
    ASSUME Focus!FocusAssumption, FocusInv, Focus!StartQueue
    PROVE  FocusDone
<1>0. /\ phase = "idle" /\ waiting' = {FALSE : b \in waiting} \cup {TRUE}
      /\ socket' = "none" /\ watch' = None /\ arrival' = None /\ countdown' = None
      /\ joins' = Focus!Superseded(joins)
      /\ UNCHANGED <<phase, session, present, remaining, given, current, ends>>
  BY DEF Focus!StartQueue, Focus!CanStart, Focus!Cleared, Focus!stateVars
<1>1. joins' \subseteq [room : Focus!SessionRooms, fresh : BOOLEAN, already : BOOLEAN]
      /\ \A j \in joins' : ~j.fresh
  BY <1>0, SupersededAreStale DEF FocusInv, FocusSafe, Focus!TypeOK
<1>2. current \notin Focus!SessionRooms
  BY <1>0 DEF FocusInv, FocusSafe, Focus!NoRoomLeft
<1>3. Focus!TypeOK'
  BY <1>0, <1>1 DEF FocusInv, FocusSafe, Focus!TypeOK, Focus!Timers
<1>4. (/\ Focus!ActiveInOwnRoom /\ Focus!QueuedIsInQueue /\ Focus!NoRoomLeft
       /\ Focus!TimersBelongToPhase)'
  BY <1>0, <1>2 DEF Focus!ActiveInOwnRoom, Focus!QueuedIsInQueue, Focus!NoRoomLeft,
                    Focus!TimersBelongToPhase
<1>5. Placed' /\ Searching' /\ Joining'
  BY <1>0, <1>1, <1>2 DEF FocusInv, Placed, Searching, Joining, Established, TimersOff
<1>6. ClockStep
  BY <1>0 DEF FocusInv, FocusSafe, Focus!TypeOK, Focus!FocusAssumption, ClockStep
<1> QED  BY <1>3, <1>4, <1>5, <1>6 DEF FocusDone, FocusInv, FocusSafe

\* A match or an invite: the room is entered, and its join waits.
LEMMA EntersRoom ==
    ASSUME Focus!FocusAssumption, FocusInv, NEW r \in Focus!SessionRooms, NEW list,
           list \subseteq [room : Focus!SessionRooms, fresh : BOOLEAN, already : BOOLEAN],
           \A j \in list : ~j.fresh, Focus!Join(r, list), phase \in {"idle", "queued"},
           phase' = "matched", session' = r, present' = FALSE, remaining' \in {remaining, 0},
           watch' = None, arrival' = None, countdown' = None, waiting' \subseteq {FALSE},
           socket' \in {"none", "failing"}, given' \subseteq Matches, UNCHANGED ends
    PROVE  FocusDone
<1>0. /\ current' = r /\ joins' = list \cup {[room |-> r, fresh |-> TRUE, already |-> current = r]}
      /\ current # r
  BY DEF Focus!Join, FocusInv, FocusSafe, Focus!NoRoomLeft
<1>1. Focus!TypeOK'
  <2>1. /\ remaining' \in 0..Length /\ waiting' \subseteq BOOLEAN
        /\ ends' \subseteq Focus!SessionRooms
    BY Lengths DEF FocusInv, FocusSafe, Focus!TypeOK
  <2>2. joins' \subseteq [room : Focus!SessionRooms, fresh : BOOLEAN, already : BOOLEAN]
    <3>1. (current = r) = FALSE  BY <1>0
    <3>2. joins' = list \cup {[room |-> r, fresh |-> TRUE, already |-> FALSE]}  BY <1>0, <3>1
    <3>3. [room |-> r, fresh |-> TRUE, already |-> FALSE]
            \in [room : Focus!SessionRooms, fresh : BOOLEAN, already : BOOLEAN]
      OBVIOUS
    <3> HIDE DEF FocusInv, Focus!Join
    <3> QED  BY <3>2, <3>3, Zenon
  <2> QED  BY <1>0, <2>1, <2>2 DEF Focus!TypeOK, Focus!MaybeRoom, Focus!Timers
<1>2. (/\ Focus!ActiveInOwnRoom /\ Focus!QueuedIsInQueue /\ Focus!NoRoomLeft
       /\ Focus!TimersBelongToPhase)'
  BY <1>0 DEF Focus!ActiveInOwnRoom, Focus!QueuedIsInQueue, Focus!NoRoomLeft,
              Focus!TimersBelongToPhase
<1>3. Placed' /\ Searching'
  BY <1>0 DEF Placed, Searching, Established
<1>j. Joining'
  <2>1. PICK k : k = [room |-> r, fresh |-> TRUE, already |-> current = r]  OBVIOUS
  <2>2. k.room = r /\ k.already = FALSE  BY <1>0, <2>1
  <2>3. joins' = list \cup {k}  BY <1>0, <2>1
  <2> QED  BY <2>2, <2>3 DEF Joining, TimersOff
<1>4. ClockStep
  BY DEF FocusInv, FocusSafe, Focus!TypeOK, Focus!FocusAssumption, ClockStep
<1> QED  BY <1>1, <1>2, <1>3, <1>4, <1>j DEF FocusDone, FocusInv, FocusSafe

LEMMA StartInviteStep ==
    ASSUME Focus!FocusAssumption, FocusInv, Focus!StartInvite
    PROVE  FocusDone
<1>1. /\ phase = "idle" /\ waiting' = {FALSE : b \in waiting} /\ socket' = "none"
      /\ watch' = None /\ arrival' = None /\ countdown' = None
      /\ phase' = "matched" /\ session' = Invited /\ present' = FALSE /\ remaining' = 0
      /\ Focus!Join(Invited, Focus!Superseded(joins)) /\ UNCHANGED <<given, ends>>
  BY DEF Focus!StartInvite, Focus!CanStart, Focus!Cleared
<1>2. /\ joins \subseteq [room : Focus!SessionRooms, fresh : BOOLEAN, already : BOOLEAN]
      /\ given \subseteq Matches
  BY DEF FocusInv, FocusSafe, Focus!TypeOK
<1>3. Invited \in Focus!SessionRooms  BY DEF Focus!SessionRooms
<1>4. waiting' \subseteq {FALSE}  BY <1>1
<1> QED  BY <1>1, <1>2, <1>3, <1>4, SupersededAreStale, EntersRoom

LEMMA MatchedStep ==
    ASSUME Focus!FocusAssumption, FocusInv, NEW r \in Matches, Focus!Matched(r)
    PROVE  FocusDone
<1>1. /\ socket = "open" /\ given' = given \cup {r} /\ socket' = "none"
      /\ phase' = "matched" /\ session' = r /\ present' = FALSE /\ Focus!Join(r, joins)
      /\ UNCHANGED <<remaining, waiting, watch, arrival, countdown, ends>>
  BY DEF Focus!Matched, Focus!timerVars
<1>2. phase = "queued"  BY <1>1 DEF FocusInv, FocusSafe, Focus!QueuedIsInQueue
<1>3. /\ joins \subseteq [room : Focus!SessionRooms, fresh : BOOLEAN, already : BOOLEAN]
      /\ given \subseteq Matches /\ waiting \subseteq BOOLEAN
  BY DEF FocusInv, FocusSafe, Focus!TypeOK
<1>4. TimersOff /\ \A j \in joins : ~j.fresh
  BY <1>2 DEF FocusInv, Placed, Joining, Established
<1>5. waiting \subseteq {FALSE}
  BY <1>2, <1>3 DEF FocusInv, Searching
<1>6. r \in Focus!SessionRooms  BY DEF Focus!SessionRooms
<1>7. given' \subseteq Matches  BY <1>1, <1>3
<1> QED  BY <1>1, <1>2, <1>3, <1>4, <1>5, <1>6, <1>7, EntersRoom DEF TimersOff

LEMMA ExtendStep ==
    ASSUME Focus!FocusAssumption, FocusInv, Focus!ExtendSession
    PROVE  FocusDone
<1>0. /\ phase \in {"active", "completed"} /\ remaining < Length
      /\ phase' = "active" /\ remaining' = remaining + 1
      /\ countdown' = [room |-> session, fresh |-> TRUE]
      /\ UNCHANGED <<session, present, waiting, socket, given, current, joins, watch, arrival, ends>>
  BY DEF Focus!ExtendSession, Focus!Of
<1>1. session \in Focus!SessionRooms /\ TRUE \notin waiting /\ \A j \in joins : ~j.fresh
  BY <1>0 DEF FocusInv, Placed, Searching, Joining, Established
<1>2. Focus!TypeOK'
  BY <1>0, <1>1 DEF FocusInv, FocusSafe, Focus!FocusAssumption, Focus!TypeOK, Focus!Timers
<1>3. (/\ Focus!ActiveInOwnRoom /\ Focus!QueuedIsInQueue /\ Focus!NoRoomLeft
       /\ Focus!TimersBelongToPhase)'
  BY <1>0, <1>1 DEF FocusInv, FocusSafe, Focus!ActiveInOwnRoom, Focus!QueuedIsInQueue,
                    Focus!NoRoomLeft, Focus!TimersBelongToPhase, Focus!Current
<1>4. Placed' /\ Searching' /\ Joining'
  <2>1. remaining' > 0  BY <1>0 DEF FocusInv, FocusSafe, Focus!TypeOK
  <2> QED  BY <1>0, <1>1, <2>1 DEF Placed, Searching, Joining, Established
<1>5. ClockStep  BY DEF ClockStep
<1> QED  BY <1>2, <1>3, <1>4, <1>5 DEF FocusDone, FocusInv, FocusSafe

LEMMA EnqueueStep ==
    ASSUME Focus!FocusAssumption, FocusInv, NEW fresh \in BOOLEAN, Focus!Enqueue(fresh)
    PROVE  FocusDone
<1>0. /\ fresh \in waiting /\ waiting' = waiting \ {fresh}
      /\ UNCHANGED <<given, current, joins, watch, arrival, countdown, ends>>
  BY DEF Focus!Enqueue, Focus!timerVars
<1>1. CASE fresh
  <2>0. /\ phase' = "queued" /\ session' = None /\ present' = FALSE /\ remaining' = 0
        /\ socket' = "open"
    BY <1>1 DEF Focus!Enqueue
  <2>1. TimersOff /\ current \notin Focus!SessionRooms /\ \A j \in joins : ~j.fresh
    BY <1>0, <1>1 DEF FocusInv, Searching
  <2>2. Focus!TypeOK'
    BY <1>0, <2>0, Lengths DEF FocusInv, FocusSafe, Focus!TypeOK, Focus!MaybeRoom
  <2>3. (/\ Focus!ActiveInOwnRoom /\ Focus!QueuedIsInQueue /\ Focus!NoRoomLeft
         /\ Focus!TimersBelongToPhase)'
    BY <1>0, <2>0, <2>1 DEF TimersOff, Focus!ActiveInOwnRoom, Focus!QueuedIsInQueue,
                            Focus!NoRoomLeft, Focus!TimersBelongToPhase
  <2>4. Placed' /\ Searching' /\ Joining'
    BY <1>0, <1>1, <2>0, <2>1 DEF Placed, Searching, Joining, Established, TimersOff
  <2>5. ClockStep
    BY <2>0 DEF FocusInv, FocusSafe, Focus!TypeOK, Focus!FocusAssumption, ClockStep
  <2> QED  BY <2>2, <2>3, <2>4, <2>5 DEF FocusDone, FocusInv, FocusSafe
<1>2. CASE ~fresh
  <2>1. UNCHANGED <<Focus!stateVars, Focus!timerVars, socket>>
    BY <1>2 DEF Focus!Enqueue
  <2> QED
    BY <1>0, <1>2, <2>1, SameSession DEF FocusInv, FocusSafe, Focus!TypeOK, Focus!timerVars
<1> QED  BY <1>1, <1>2

LEMMA EnqueueFailsStep ==
    ASSUME Focus!FocusAssumption, FocusInv, NEW fresh \in BOOLEAN, Focus!EnqueueFails(fresh)
    PROVE  FocusDone
<1>0. /\ fresh \in waiting /\ UNCHANGED <<socket, given, current, ends>>
      /\ joins \subseteq [room : Focus!SessionRooms, fresh : BOOLEAN, already : BOOLEAN]
      /\ current \in Focus!MaybeRoom \cup {Elsewhere} /\ socket \in {"none", "open", "failing"}
      /\ given \subseteq Matches /\ ends \subseteq Focus!SessionRooms /\ waiting \subseteq BOOLEAN
  BY DEF Focus!EnqueueFails, FocusInv, FocusSafe, Focus!TypeOK
<1>1. CASE fresh
  <2>0. /\ Focus!BackToIdle /\ Focus!Cleared
        /\ waiting' = {FALSE : b \in waiting \ {fresh}} /\ joins' = Focus!Superseded(joins)
    BY <1>1 DEF Focus!EnqueueFails
  <2>1. /\ current \in {Elsewhere, None} /\ phase # "queued"
    BY <1>0, <1>1 DEF FocusInv, Searching, Focus!MaybeRoom
  <2>2. socket # "open"  BY <2>1 DEF FocusInv, FocusSafe, Focus!QueuedIsInQueue
  <2>3. waiting' \subseteq {FALSE}  BY <2>0
  <2> QED  BY <1>0, <2>0, <2>1, <2>2, <2>3, SupersededAreStale, GoesIdle
<1>2. CASE ~fresh
  <2>1. UNCHANGED <<Focus!stateVars, Focus!timerVars, joins>> /\ waiting' = waiting \ {fresh}
    BY <1>2 DEF Focus!EnqueueFails
  <2> QED  BY <1>0, <1>2, <2>1, SameSession
<1> QED  BY <1>1, <1>2

LEMMA QueueStep ==
    ASSUME Focus!FocusAssumption, FocusInv,
           \/ Focus!QueueEnds \/ Focus!SocketCloses
           \/ \E r \in Focus!SessionRooms : Focus!PartnerEnds(r)
    PROVE  FocusDone
<1>0. /\ joins \subseteq [room : Focus!SessionRooms, fresh : BOOLEAN, already : BOOLEAN]
      /\ current \in Focus!MaybeRoom \cup {Elsewhere} /\ socket \in {"none", "open", "failing"}
      /\ given \subseteq Matches /\ ends \subseteq Focus!SessionRooms /\ waiting \subseteq BOOLEAN
  BY DEF FocusInv, FocusSafe, Focus!TypeOK
<1>1. CASE Focus!QueueEnds
  <2>1. /\ socket = "open" /\ socket' \in {"none", "failing"} /\ Focus!BackToIdle
        /\ joins' = Focus!Superseded(joins) /\ waiting' = {FALSE : b \in waiting}
        /\ UNCHANGED <<given, current, watch, arrival, countdown, ends>>
    BY <1>1 DEF Focus!QueueEnds, Focus!timerVars
  <2>2. phase = "queued"  BY <2>1 DEF FocusInv, FocusSafe, Focus!QueuedIsInQueue
  <2>3. /\ Focus!Cleared /\ current \in {Elsewhere, None}
    BY <1>0, <2>1, <2>2 DEF FocusInv, FocusSafe, Placed, Established, TimersOff, Focus!Cleared,
                            Focus!NoRoomLeft, Focus!MaybeRoom
  <2>4. waiting' \subseteq {FALSE}  BY <2>1
  <2> QED  BY <1>0, <2>1, <2>3, <2>4, SupersededAreStale, GoesIdle
<1>2. CASE Focus!SocketCloses
  BY <1>0, <1>2, SameSession DEF Focus!SocketCloses
<1>3. ASSUME NEW r \in Focus!SessionRooms, Focus!PartnerEnds(r)
      PROVE  FocusDone
  BY <1>0, <1>3, SameSession DEF Focus!PartnerEnds
<1> QED  BY <1>1, <1>2, <1>3

\* The partner is there: the session starts, or goes on.
LEMMA ArrivesStep ==
    ASSUME Focus!FocusAssumption, FocusInv, watch # None, Focus!Current(watch),
           Focus!Arrives(watch.room), arrival' = None,
           UNCHANGED <<session, waiting, socket, given, current, joins, watch, ends>>
    PROVE  FocusDone
<1>0. /\ watch.room = session /\ watch.fresh /\ present' = TRUE
      /\ phase \in Established /\ session \in Focus!SessionRooms
      /\ TRUE \notin waiting /\ \A j \in joins : ~j.fresh
  BY DEF Focus!Current, Focus!Arrives, Focus!PartnerSeen, FocusInv, Placed, Searching, Joining,
         TimersOff
<1>1. CASE phase = "matched"
  <2>0. phase' = "active" /\ remaining' = Length /\ countdown' = [room |-> session, fresh |-> TRUE]
    BY <1>0, <1>1 DEF Focus!Arrives, Focus!PartnerSeen, Focus!Of
  <2>1. current = session  BY <1>0, <1>1 DEF FocusInv, Placed
  <2>2. Focus!TypeOK'
    BY <1>0, <2>0 DEF FocusInv, FocusSafe, Focus!FocusAssumption, Focus!TypeOK, Focus!Timers
  <2>3. (/\ Focus!ActiveInOwnRoom /\ Focus!QueuedIsInQueue /\ Focus!NoRoomLeft
         /\ Focus!TimersBelongToPhase)'
    BY <1>0, <1>1, <2>0, <2>1
       DEF FocusInv, FocusSafe, Focus!ActiveInOwnRoom, Focus!QueuedIsInQueue, Focus!NoRoomLeft,
           Focus!TimersBelongToPhase, Focus!Current
  <2>4. Placed' /\ Searching' /\ Joining'
    BY <1>0, <2>0, Lengths DEF Placed, Searching, Joining, Established
  <2>5. ClockStep  BY <1>1 DEF ClockStep
  <2> QED  BY <2>2, <2>3, <2>4, <2>5 DEF FocusDone, FocusInv, FocusSafe
<1>2. CASE phase # "matched"
  <2>0. UNCHANGED <<phase, remaining, countdown>>
    BY <1>2 DEF Focus!Arrives, Focus!PartnerSeen
  <2>2. Focus!TypeOK'
    BY <1>0, <2>0 DEF FocusInv, FocusSafe, Focus!TypeOK, Focus!Timers
  <2>3. (/\ Focus!ActiveInOwnRoom /\ Focus!QueuedIsInQueue /\ Focus!NoRoomLeft
         /\ Focus!TimersBelongToPhase)'
    BY <1>0, <1>2, <2>0
       DEF FocusInv, FocusSafe, Focus!ActiveInOwnRoom, Focus!QueuedIsInQueue, Focus!NoRoomLeft,
           Focus!TimersBelongToPhase, Focus!Current
  <2>4. Placed' /\ Searching' /\ Joining'
    BY <1>0, <2>0 DEF FocusInv, Placed, Searching, Joining
  <2>5. ClockStep
    BY <2>0 DEF FocusInv, FocusSafe, Focus!TypeOK, Focus!FocusAssumption, ClockStep
  <2> QED  BY <2>2, <2>3, <2>4, <2>5 DEF FocusDone, FocusInv, FocusSafe
<1> QED  BY <1>1, <1>2

LEMMA TopologyStep ==
    ASSUME Focus!FocusAssumption, FocusInv, Focus!Topology
    PROVE  FocusDone
<1>0. /\ watch # None /\ Focus!Current(watch)
      /\ UNCHANGED <<session, waiting, socket, given, current, joins, watch, ends>>
  BY DEF Focus!Topology
<1>1. CASE Focus!Arrives(watch.room) /\ arrival' = None
  BY <1>0, <1>1, ArrivesStep
<1>2. CASE present' = FALSE /\ UNCHANGED <<phase, remaining, countdown, arrival>>
  <2>2. Focus!TypeOK'  BY <1>0, <1>2 DEF FocusInv, FocusSafe, Focus!TypeOK, Focus!Timers
  <2>3. (/\ Focus!ActiveInOwnRoom /\ Focus!QueuedIsInQueue /\ Focus!NoRoomLeft
         /\ Focus!TimersBelongToPhase)'
    BY <1>0, <1>2 DEF FocusInv, FocusSafe, Focus!ActiveInOwnRoom, Focus!QueuedIsInQueue,
                      Focus!NoRoomLeft, Focus!TimersBelongToPhase, Focus!Current
  <2>4. Placed' /\ Searching' /\ Joining'
    BY <1>0, <1>2 DEF FocusInv, Placed, Searching, Joining, TimersOff
  <2>5. ClockStep
    BY <1>2 DEF FocusInv, FocusSafe, Focus!TypeOK, Focus!FocusAssumption, ClockStep
  <2> QED  BY <2>2, <2>3, <2>4, <2>5 DEF FocusDone, FocusInv, FocusSafe
<1> QED  BY <1>1, <1>2 DEF Focus!Topology

LEMMA JoinSettlesStep ==
    ASSUME Focus!FocusAssumption, FocusInv, Focus!JoinSettles
    PROVE  FocusDone
<1>1. PICK j \in joins :
        /\ joins' = joins \ {j}
        /\ IF Focus!Current(j) /\ phase = "matched"
           THEN /\ watch' = Focus!Of(j.room) /\ arrival' = Focus!Of(j.room)
                /\ \/ UNCHANGED <<phase, present, remaining, countdown>>
                   \/ /\ j.already \/ current # j.room
                      /\ current # None /\ Focus!Arrives(j.room)
           ELSE UNCHANGED <<phase, present, remaining, Focus!timerVars>>
        /\ UNCHANGED <<session, waiting, socket, given, current, ends>>
  BY DEF Focus!JoinSettles
<1>0. /\ joins \subseteq [room : Focus!SessionRooms, fresh : BOOLEAN, already : BOOLEAN]
      /\ given \subseteq Matches /\ ends \subseteq Focus!SessionRooms /\ waiting \subseteq BOOLEAN
      /\ socket \in {"none", "open", "failing"}
  BY DEF FocusInv, FocusSafe, Focus!TypeOK
<1>2. CASE Focus!Current(j) /\ phase = "matched"
  <2>0. /\ j.fresh /\ j.room = session /\ ~j.already /\ TimersOff /\ TRUE \notin waiting
        /\ current = session /\ session \in Focus!SessionRooms
        /\ \A k \in joins : k.fresh => k = j
    BY <1>2 DEF Focus!Current, FocusInv, Joining, Searching, Placed, Established
  <2>1. /\ watch' = [room |-> session, fresh |-> TRUE] /\ arrival' = [room |-> session, fresh |-> TRUE]
        /\ UNCHANGED <<phase, present, remaining, countdown>>
    BY <1>1, <1>2, <2>0 DEF Focus!Of
  <2>2. Focus!TypeOK'
    BY <1>0, <1>1, <2>0, <2>1 DEF FocusInv, FocusSafe, Focus!TypeOK, Focus!Timers
  <2>3. (/\ Focus!ActiveInOwnRoom /\ Focus!QueuedIsInQueue /\ Focus!NoRoomLeft
         /\ Focus!TimersBelongToPhase)'
    BY <1>1, <1>2, <2>0, <2>1
       DEF FocusInv, FocusSafe, TimersOff, Focus!ActiveInOwnRoom, Focus!QueuedIsInQueue,
           Focus!NoRoomLeft, Focus!TimersBelongToPhase, Focus!Current
  <2>4. Placed' /\ Searching' /\ Joining'
    BY <1>1, <1>2, <2>0, <2>1 DEF FocusInv, Placed, Searching, Joining, Established
  <2>5. ClockStep
    BY <2>1 DEF FocusInv, FocusSafe, Focus!TypeOK, Focus!FocusAssumption, ClockStep
  <2> QED  BY <2>2, <2>3, <2>4, <2>5 DEF FocusDone, FocusInv, FocusSafe
<1>3. CASE ~(Focus!Current(j) /\ phase = "matched")
  <2>1. ~j.fresh  BY <1>3 DEF FocusInv, Joining, Focus!Current
  <2>2. UNCHANGED <<phase, present, remaining, Focus!timerVars>>  BY <1>1, <1>3
  <2>3. UNCHANGED Focus!stateVars  BY <1>1, <2>2 DEF Focus!stateVars
  <2> QED  BY <1>0, <1>1, <2>1, <2>2, <2>3, SameSession DEF Focus!timerVars
<1> QED  BY <1>2, <1>3

LEMMA JoinFailsStep ==
    ASSUME Focus!FocusAssumption, FocusInv, Focus!JoinFails
    PROVE  FocusDone
<1>1. PICK j \in joins :
        /\ IF Focus!Current(j)
           THEN /\ Focus!Cleared /\ Focus!BackToIdle /\ Focus!LeaveRoom(j.room)
                /\ joins' = Focus!Superseded(joins \ {j}) /\ waiting' = {FALSE : b \in waiting}
           ELSE /\ joins' = joins \ {j}
                /\ UNCHANGED <<Focus!stateVars, waiting, current, Focus!timerVars>>
        /\ UNCHANGED <<socket, given, ends>>
  BY DEF Focus!JoinFails
<1>0. /\ joins \subseteq [room : Focus!SessionRooms, fresh : BOOLEAN, already : BOOLEAN]
      /\ given \subseteq Matches /\ ends \subseteq Focus!SessionRooms /\ waiting \subseteq BOOLEAN
      /\ socket \in {"none", "open", "failing"}
  BY DEF FocusInv, FocusSafe, Focus!TypeOK
<1>2. CASE Focus!Current(j)
  <2>1. /\ Focus!Cleared /\ Focus!BackToIdle /\ Focus!LeaveRoom(session)
        /\ joins' = Focus!Superseded(joins \ {j}) /\ waiting' = {FALSE : b \in waiting}
    BY <1>1, <1>2 DEF Focus!Current
  <2>2. phase = "matched"  BY <1>2 DEF Focus!Current, FocusInv, Joining
  <2>3. socket # "open"  BY <2>2 DEF FocusInv, FocusSafe, Focus!QueuedIsInQueue
  <2>4. waiting' \subseteq {FALSE}  BY <2>1
  <2>5. joins \ {j} \subseteq [room : Focus!SessionRooms, fresh : BOOLEAN, already : BOOLEAN]
    BY <1>0
  <2> QED  BY <1>0, <1>1, <2>1, <2>3, <2>4, <2>5, SupersededAreStale, RoomIsLeft, GoesIdle
<1>3. CASE ~Focus!Current(j)
  <2>1. ~j.fresh  BY <1>3 DEF FocusInv, Joining, Focus!Current
  <2>2. joins' = joins \ {j} /\ UNCHANGED <<Focus!stateVars, waiting, current, Focus!timerVars>>
    BY <1>1, <1>3
  <2> QED  BY <1>0, <1>1, <2>1, <2>2, SameSession
<1> QED  BY <1>2, <1>3

LEMMA ArrivalTimerStep ==
    ASSUME Focus!FocusAssumption, FocusInv, Focus!ArrivalTimer
    PROVE  FocusDone
<1>0. /\ arrival # None /\ UNCHANGED <<socket, given, ends>>
      /\ joins \subseteq [room : Focus!SessionRooms, fresh : BOOLEAN, already : BOOLEAN]
      /\ given \subseteq Matches /\ ends \subseteq Focus!SessionRooms /\ waiting \subseteq BOOLEAN
      /\ socket \in {"none", "open", "failing"}
  BY DEF Focus!ArrivalTimer, FocusInv, FocusSafe, Focus!TypeOK
<1>1. /\ Focus!Current(arrival) /\ phase = "matched" /\ socket # "open"
      /\ session \in Focus!SessionRooms /\ TRUE \notin waiting /\ \A j \in joins : ~j.fresh
  BY <1>0 DEF FocusInv, FocusSafe, Focus!TimersBelongToPhase, Focus!QueuedIsInQueue, Placed,
              Established, Searching, Joining, TimersOff
<1>2. CASE ~present
  <2>0. /\ Focus!Cleared /\ Focus!LeaveRoom(session) /\ joins' = Focus!Superseded(joins)
        /\ Focus!Requeue
    BY <1>1, <1>2 DEF Focus!ArrivalTimer
  <2>1. current' \in {Elsewhere, None}  BY <2>0, RoomIsLeft
  <2>2. CASE session = Invited
    <3>1. waiting' = {FALSE : b \in waiting} /\ Focus!BackToIdle
      BY <2>0, <2>2 DEF Focus!Requeue
    <3>2. waiting' \subseteq {FALSE}  BY <3>1
    <3> QED  BY <1>0, <1>1, <2>0, <2>1, <3>1, <3>2, SupersededAreStale, GoesIdle
  <2>3. CASE session # Invited
    <3>0. /\ waiting' = {FALSE : b \in waiting} \cup {TRUE}
          /\ UNCHANGED <<phase, session, present, remaining>>
          /\ watch' = None /\ arrival' = None /\ countdown' = None
      BY <1>1, <2>0, <2>3 DEF Focus!Requeue, Focus!stateVars, Focus!Cleared
    <3>1. joins' \subseteq [room : Focus!SessionRooms, fresh : BOOLEAN, already : BOOLEAN]
          /\ \A j \in joins' : ~j.fresh
      BY <1>0, <2>0, SupersededAreStale
    <3>2. current' \notin Focus!SessionRooms  BY <2>1 DEF Focus!FocusAssumption
    <3>3. Focus!TypeOK'
      BY <1>0, <2>1, <3>0, <3>1
         DEF FocusInv, FocusSafe, Focus!TypeOK, Focus!MaybeRoom, Focus!Timers
    <3>4. (/\ Focus!ActiveInOwnRoom /\ Focus!QueuedIsInQueue /\ Focus!NoRoomLeft
           /\ Focus!TimersBelongToPhase)'
      BY <1>0, <1>1, <3>0, <3>2
         DEF Focus!ActiveInOwnRoom, Focus!QueuedIsInQueue, Focus!NoRoomLeft,
             Focus!TimersBelongToPhase
    <3>5. Placed' /\ Searching' /\ Joining'
      BY <1>1, <3>0, <3>1, <3>2 DEF Placed, Searching, Joining, Established, TimersOff
    <3>6. ClockStep  BY <1>1 DEF ClockStep
    <3> QED  BY <3>3, <3>4, <3>5, <3>6 DEF FocusDone, FocusInv, FocusSafe
  <2> QED  BY <2>2, <2>3
<1>3. CASE present
  <2>0. /\ arrival' = None
        /\ UNCHANGED <<phase, session, present, remaining, waiting, current, joins, watch, countdown>>
    BY <1>1, <1>3 DEF Focus!ArrivalTimer, Focus!stateVars
  <2>2. Focus!TypeOK'
    BY <1>0, <2>0 DEF FocusInv, FocusSafe, Focus!TypeOK, Focus!Timers
  <2>3. (/\ Focus!ActiveInOwnRoom /\ Focus!QueuedIsInQueue /\ Focus!NoRoomLeft
         /\ Focus!TimersBelongToPhase)'
    BY <1>0, <2>0 DEF FocusInv, FocusSafe, Focus!ActiveInOwnRoom, Focus!QueuedIsInQueue,
                      Focus!NoRoomLeft, Focus!TimersBelongToPhase, Focus!Current
  <2>4. Placed' /\ Searching' /\ Joining'
    BY <1>1, <2>0 DEF FocusInv, Placed, Searching, Joining, Established
  <2>5. ClockStep  BY <1>1 DEF ClockStep
  <2> QED  BY <2>2, <2>3, <2>4, <2>5 DEF FocusDone, FocusInv, FocusSafe
<1> QED  BY <1>2, <1>3

LEMMA TickStep ==
    ASSUME Focus!FocusAssumption, FocusInv, Focus!Tick
    PROVE  FocusDone
<1>0. /\ Focus!Current(countdown) /\ phase = "active" /\ remaining > 0 /\ remaining \in 0..Length
      /\ current = session /\ session \in Focus!SessionRooms /\ TRUE \notin waiting
      /\ \A j \in joins : ~j.fresh
  BY DEF Focus!Tick, FocusInv, FocusSafe, Focus!TypeOK, Focus!TimersBelongToPhase, Placed,
         Focus!ActiveInOwnRoom, Searching, Joining, Established
<1>1. /\ remaining' = remaining - 1
      /\ phase' = IF remaining = 1 THEN "completed" ELSE phase
      /\ countdown' = IF remaining = 1 THEN None ELSE countdown
      /\ UNCHANGED <<session, present, waiting, socket, given, current, joins, watch, arrival, ends>>
  BY <1>0 DEF Focus!Tick
<1>2. Focus!TypeOK'
  BY <1>0, <1>1 DEF FocusInv, FocusSafe, Focus!FocusAssumption, Focus!TypeOK, Focus!Timers
<1>3. (/\ Focus!ActiveInOwnRoom /\ Focus!QueuedIsInQueue /\ Focus!NoRoomLeft
       /\ Focus!TimersBelongToPhase)'
  BY <1>0, <1>1 DEF FocusInv, FocusSafe, Focus!ActiveInOwnRoom, Focus!QueuedIsInQueue,
                    Focus!NoRoomLeft, Focus!TimersBelongToPhase, Focus!Current
<1>4. Placed' /\ Searching' /\ Joining'
  <2>1. phase' = "active" => remaining' > 0  BY <1>0, <1>1, Lengths
  <2>2. phase' \in {"active", "completed"}  BY <1>0, <1>1
  <2> QED  BY <1>0, <1>1, <2>1, <2>2 DEF Placed, Searching, Joining, Established
<1>5. ClockStep
  BY <1>0, <1>1 DEF Focus!FocusAssumption, ClockStep
<1> QED  BY <1>2, <1>3, <1>4, <1>5 DEF FocusDone, FocusInv, FocusSafe

LEMMA EndArrivesStep ==
    ASSUME Focus!FocusAssumption, FocusInv, NEW r \in Focus!SessionRooms, Focus!EndArrives(r)
    PROVE  FocusDone
<1>0. /\ ends' = ends \ {r} /\ UNCHANGED <<socket, given>>
      /\ given \subseteq Matches /\ ends' \subseteq Focus!SessionRooms /\ waiting \subseteq BOOLEAN
      /\ socket \in {"none", "open", "failing"}
  BY DEF Focus!EndArrives, FocusInv, FocusSafe, Focus!TypeOK
<1>1. CASE r = session /\ phase \in {"matched", "active", "completed"}
  <2>1. Focus!Over /\ Focus!BackToIdle /\ Focus!LeaveRoom(session)
    BY <1>1 DEF Focus!EndArrives
  <2>2. socket # "open"  BY <1>1 DEF FocusInv, FocusSafe, Focus!QueuedIsInQueue
  <2> QED  BY <1>0, <2>1, <2>2, RoomIsLeft, OverStep
<1>2. CASE ~(r = session /\ phase \in {"matched", "active", "completed"})
  <2>1. UNCHANGED <<Focus!stateVars, waiting, current, joins, Focus!timerVars>>
    BY <1>2 DEF Focus!EndArrives
  <2> QED  BY <1>0, <2>1, SameSession
<1> QED  BY <1>1, <1>2

LEMMA FocusStep ==
    ASSUME Focus!FocusAssumption, FocusInv, [Focus!Next]_Focus!vars
    PROVE  FocusDone
<1>1. CASE UNCHANGED Focus!vars
  BY <1>1, SameSession DEF Focus!vars, FocusInv, FocusSafe, Focus!TypeOK
<1>2. CASE Focus!Next
  BY <1>2, StartQueueStep, StartInviteStep, LeavingStep, ExtendStep, ChangeRoomStep, EnqueueStep,
     EnqueueFailsStep, MatchedStep, QueueStep, JoinSettlesStep, JoinFailsStep, TopologyStep,
     ArrivalTimerStep, TickStep, EndArrivesStep
     DEF Focus!Next
<1> QED  BY <1>1, <1>2

LEMMA FocusCorrect ==
    ASSUME Focus!FocusAssumption
    PROVE  Focus!Spec => []FocusSafe /\ Focus!ClockOnlyRunsDown
<1>1. Focus!Init => FocusInv  BY FocusInit
<1>2. FocusInv /\ [Focus!Next]_Focus!vars =>
         FocusInv' /\ [remaining' > remaining =>
                          phase = "matched" \/ Focus!ExtendSession]_Focus!vars
  BY FocusStep DEF FocusDone, ClockStep
<1>3. FocusInv => FocusSafe  BY DEF FocusInv
<1> QED  BY <1>1, <1>2, <1>3, PTL DEF Focus!Spec, Focus!ClockOnlyRunsDown

-----------------------------------------------------------------------------
(***************************************************************************)
(* The chat of a room.  A list, a cache and an answer under way hold each  *)
(* message once, of one room, and one that is shown as delivered, or of    *)
(* another's making, has been taken in by somebody.                        *)
(***************************************************************************)

Listed(a, r, list, snt, rch) ==
    /\ \A m \in list : /\ m.id \in DOMAIN snt /\ snt[m.id].room = r
                       /\ m.from # a \/ m.status = "delivered" => m.id \in rch
    /\ \A m, n \in list : m.id = n.id => m = n

Told == [kind : {"message"}, room : Rooms, id : Chat!Ids, seq : Nat, stamp : Nat]
Receipts == [kind : {"ack"}, room : Rooms, id : Chat!Ids]
Answers == [kind : {"items"}, room : Rooms, items : SUBSET Chat!Message]
Latests == {Chat!Latest(list) : list \in SUBSET Chat!Message}
Questions == [kind : {"catchup"}, room : Rooms, since : Latests, seqs : [Peers -> Nat]]

ChatPackets == Told \cup Receipts \cup Answers \cup Questions

Vouched(a, pkt, snt, rch) ==
    /\ pkt.kind = "message" => pkt.id \in DOMAIN snt /\ snt[pkt.id].room = pkt.room
    /\ pkt.kind = "ack" => pkt.id \in rch
    /\ pkt.kind = "items" => Listed(a, pkt.room, pkt.items, snt, rch)

Links == [Peers -> [Peers -> Seq(ChatPackets)]]

Linked(net, snt, rch) ==
    /\ net \in Links
    /\ \A a \in Peers : net[a][a] = <<>>
    /\ \A a, b \in Peers : \A i \in 1..Len(net[a][b]) : Vouched(a, net[a][b][i], snt, rch)

Queues == UNION {[S -> 1..MaxAttempts] : S \in SUBSET Chat!Ids}

ChatShape ==
    /\ room \in [Peers -> Rooms] /\ generation \in [Peers -> Nat]
    /\ messages \in [Peers -> SUBSET Chat!Message]
    /\ stored \in [Peers -> [Rooms -> SUBSET Chat!Message]]
    /\ loads \in [Peers -> SUBSET [room : Rooms, generation : Nat]]
    /\ unacked \in [Peers -> Queues]
    /\ saveDue \in [Peers -> BOOLEAN] /\ askAgain \in [Peers -> BOOLEAN]
    /\ mySeq \in [Peers -> Nat] /\ peerSeqs \in [Peers -> [Peers -> Nat]]
    /\ reached \subseteq Chat!Ids /\ clock \in Nat

Numbered ==
    /\ \E n \in 0..MaxMessages : DOMAIN sent = 1..n
    /\ \A id \in DOMAIN sent :
           sent[id] \in [author : Peers, room : Rooms] /\ audience[id] \subseteq Peers

Kept ==
    \A a \in Peers : /\ Listed(a, room[a], messages[a], sent, reached)
                     /\ \A r \in Rooms : Listed(a, r, stored[a][r], sent, reached)

ChatInv == ChatShape /\ Numbered /\ Kept /\ Linked(network, sent, reached)

ChatSafe == Chat!TypeOK /\ Chat!NoTwice /\ Chat!OfItsRoom /\ Chat!DeliveredReached

LEMMA ChatIsSafe == ASSUME Chat!ChatAssumption, ChatInv PROVE ChatSafe
<1>1. \A a \in Peers : /\ DOMAIN unacked[a] \subseteq Chat!Ids
                       /\ \A id \in DOMAIN unacked[a] : unacked[a][id] \in 1..MaxAttempts
  <2>1. ASSUME NEW a \in Peers
        PROVE  /\ DOMAIN unacked[a] \subseteq Chat!Ids
               /\ \A id \in DOMAIN unacked[a] : unacked[a][id] \in 1..MaxAttempts
    <3>1. unacked[a] \in Queues  BY DEF ChatInv, ChatShape
    <3>2. PICK S \in SUBSET Chat!Ids : unacked[a] \in [S -> 1..MaxAttempts]  BY <3>1 DEF Queues
    <3> QED  BY <3>2
  <2> QED  BY <2>1
<1>2. Chat!TypeOK  BY <1>1 DEF ChatInv, ChatShape, Numbered, Chat!TypeOK, Chat!Sent
<1>3. Chat!NoTwice  BY DEF ChatInv, Kept, Listed, Chat!NoTwice
<1>4. Chat!OfItsRoom  BY DEF ChatInv, Kept, Listed, Chat!OfItsRoom
<1>5. Chat!DeliveredReached  BY DEF ChatInv, Kept, Listed, Chat!DeliveredReached
<1> QED  BY <1>2, <1>3, <1>4, <1>5 DEF ChatSafe

LEMMA ChatInit == ASSUME Chat!ChatAssumption, Chat!Init PROVE ChatInv
<1>1. ChatShape
  <2>1. unacked \in [Peers -> Queues]
    <3>1. <<>> \in [{} -> 1..MaxAttempts] /\ {} \in SUBSET Chat!Ids  OBVIOUS
    <3>2. <<>> \in Queues  BY <3>1 DEF Queues
    <3> QED  BY <3>2 DEF Chat!Init
  <2> QED  BY <2>1 DEF Chat!Init, Chat!ChatAssumption, ChatShape
<1>2. Numbered
  <2>1. DOMAIN sent = 1..0 /\ 0 \in 0..MaxMessages  BY DEF Chat!Init, Chat!ChatAssumption
  <2> QED  BY <2>1 DEF Numbered
<1>3. Kept  BY DEF Chat!Init, Chat!ChatAssumption, Kept, Listed
<1>4. Linked(network, sent, reached)
  <2>1. <<>> \in Seq(ChatPackets) /\ Len(<<>>) = 0  OBVIOUS
  <2>2. \A a, b \in Peers : network[a][b] = <<>>  BY DEF Chat!Init
  <2>3. network \in Links  BY <2>1 DEF Chat!Init, Links
  <2> QED  BY <2>1, <2>2, <2>3 DEF Linked
<1> QED  BY <1>1, <1>2, <1>3, <1>4 DEF ChatInv

-----------------------------------------------------------------------------
\* What was vouched for stays so while more is sent and taken in.
Grows(snt, snt2, rch, rch2) ==
    /\ DOMAIN snt \subseteq DOMAIN snt2 /\ \A id \in DOMAIN snt : snt2[id] = snt[id]
    /\ rch \subseteq rch2

LEMMA StaysListed ==
    ASSUME NEW a, NEW r, NEW list, NEW snt, NEW rch, NEW snt2, NEW rch2,
           Listed(a, r, list, snt, rch), Grows(snt, snt2, rch, rch2)
    PROVE  Listed(a, r, list, snt2, rch2)
BY DEF Listed, Grows

LEMMA StaysLinked ==
    ASSUME NEW net, NEW snt, NEW rch, NEW snt2, NEW rch2,
           Linked(net, snt, rch), Grows(snt, snt2, rch, rch2)
    PROVE  Linked(net, snt2, rch2)
<1>1. ASSUME NEW a, NEW pkt, Vouched(a, pkt, snt, rch)
      PROVE  Vouched(a, pkt, snt2, rch2)
  <2>1. pkt.kind = "items" => Listed(a, pkt.room, pkt.items, snt2, rch2)
    BY <1>1, StaysListed DEF Vouched
  <2> QED  BY <1>1, <2>1 DEF Vouched, Grows
<1> QED  BY <1>1 DEF Linked

\* A packet that goes to some of the others.
LEMMA GoesOut ==
    ASSUME NEW snt, NEW rch, Linked(network, snt, rch), NEW a \in Peers,
           NEW pkt \in ChatPackets,
           Vouched(a, pkt, snt, rch), NEW targets, a \notin targets
    PROVE  Linked(Chat!Broadcast(a, targets, pkt), snt, rch)
<1>1. PICK net : net = Chat!Broadcast(a, targets, pkt)  OBVIOUS
<1>2. network \in Links  BY DEF Linked
<1>3. net = [network EXCEPT ![a] =
               [b \in Peers |->
                   IF b \in targets THEN Append(network[a][b], pkt) ELSE network[a][b]]]
  BY <1>1 DEF Chat!Broadcast
<1>4. \A b \in Peers :
          net[a][b] = IF b \in targets THEN Append(network[a][b], pkt) ELSE network[a][b]
  BY <1>2, <1>3 DEF Links
<1>5. \A c \in Peers \ {a} : net[c] = network[c]  BY <1>2, <1>3 DEF Links
<1>6. \A c, b \in Peers : network[c][b] \in Seq(ChatPackets)  BY <1>2 DEF Links
<1>7. ASSUME NEW b \in Peers
      PROVE  /\ net[a][b] \in Seq(ChatPackets)
             /\ \A i \in 1..Len(net[a][b]) : Vouched(a, net[a][b][i], snt, rch)
  <2>0. network[a][b] \in Seq(ChatPackets)
        /\ \A i \in 1..Len(network[a][b]) : Vouched(a, network[a][b][i], snt, rch)
    BY <1>6 DEF Linked
  <2>1. CASE b \in targets
    <3>1. net[a][b] = Append(network[a][b], pkt)  BY <1>4, <2>1
    <3>2. /\ net[a][b] \in Seq(ChatPackets) /\ Len(net[a][b]) = Len(network[a][b]) + 1
          /\ Len(network[a][b]) \in Nat
          /\ \A i \in 1..Len(network[a][b]) : net[a][b][i] = network[a][b][i]
          /\ net[a][b][Len(network[a][b]) + 1] = pkt
      BY <2>0, <3>1
    <3> QED  BY <2>0, <3>2
  <2>2. CASE b \notin targets  BY <1>4, <2>0, <2>2
  <2> QED  BY <2>1, <2>2
<1>8. net \in Links
  <2>1. DOMAIN net = Peers /\ net = [c \in Peers |-> net[c]]  BY <1>2, <1>3 DEF Links
  <2>2. \A c \in Peers : net[c] \in [Peers -> Seq(ChatPackets)]
    <3>1. net[a] \in [Peers -> Seq(ChatPackets)]
      <4>1. net[a] = [b \in Peers |->
                       IF b \in targets THEN Append(network[a][b], pkt) ELSE network[a][b]]
        BY <1>2, <1>3 DEF Links
      <4> QED  BY <1>7, <4>1
    <3> QED  BY <1>2, <1>5, <3>1 DEF Links
  <2> QED  BY <2>1, <2>2 DEF Links
<1>9. \A c \in Peers : net[c][c] = <<>>  BY <1>4, <1>5 DEF Linked
<1>10. \A c, b \in Peers : \A i \in 1..Len(net[c][b]) : Vouched(c, net[c][b][i], snt, rch)
  <2>1. ASSUME NEW c \in Peers, NEW b \in Peers, NEW i \in 1..Len(net[c][b])
        PROVE  Vouched(c, net[c][b][i], snt, rch)
    <3>1. CASE c = a  BY <1>7, <2>1, <3>1
    <3>2. CASE c # a
      <4>1. net[c][b] = network[c][b]  BY <1>5, <3>2
      <4> QED  BY <2>1, <4>1 DEF Linked
    <3> QED  BY <3>1, <3>2
  <2> QED  BY <2>1
<1>11. Linked(net, snt, rch)  BY <1>8, <1>9, <1>10 DEF Linked
<1> QED  BY <1>1, <1>11

\* The next packet is taken, and answered.
LEMMA IsTaken ==
    ASSUME NEW snt, NEW rch, Linked(network, snt, rch), NEW a \in Peers, NEW b \in Peers,
           network[b][a] # <<>>, NEW replies \in Seq(ChatPackets),
           \A i \in 1..Len(replies) : Vouched(a, replies[i], snt, rch),
           Chat!Take(a, b, replies)
    PROVE  Linked(network', snt, rch) /\ a # b
<1>0. network \in Links /\ a # b  BY DEF Linked
<1>1. PICK net : net = network'  OBVIOUS
<1>2. net = [network EXCEPT ![b][a] = Tail(network[b][a]), ![a][b] = network[a][b] \o replies]
  BY <1>0, <1>1 DEF Chat!Take, Links
<1>3. /\ net[b][a] = Tail(network[b][a]) /\ net[a][b] = network[a][b] \o replies
      /\ \A c, d \in Peers : <<c, d>> # <<b, a>> /\ <<c, d>> # <<a, b>> =>
             net[c][d] = network[c][d]
      /\ DOMAIN net = Peers /\ \A c \in Peers : DOMAIN net[c] = Peers
  BY <1>0, <1>2 DEF Links
<1>4. \A c, d \in Peers : network[c][d] \in Seq(ChatPackets)  BY <1>0 DEF Links
<1>5. /\ net[b][a] \in Seq(ChatPackets)
      /\ \A i \in 1..Len(net[b][a]) : Vouched(b, net[b][a][i], snt, rch)
  <2>1. PICK old : old = network[b][a]  OBVIOUS
  <2>2. old \in Seq(ChatPackets) /\ old # <<>>
        /\ \A i \in 1..Len(old) : Vouched(b, old[i], snt, rch)
    BY <1>4, <2>1 DEF Linked
  <2>3. /\ Tail(old) \in Seq(ChatPackets) /\ Len(Tail(old)) = Len(old) - 1
        /\ \A i \in 1..Len(old)-1 : Tail(old)[i] = old[i+1] /\ i + 1 \in 1..Len(old)
    BY <2>2
  <2> QED  BY <1>3, <2>1, <2>2, <2>3
<1>6. /\ net[a][b] \in Seq(ChatPackets)
      /\ \A i \in 1..Len(net[a][b]) : Vouched(a, net[a][b][i], snt, rch)
  <2>1. PICK old : old = network[a][b]  OBVIOUS
  <2>2. old \in Seq(ChatPackets) /\ \A i \in 1..Len(old) : Vouched(a, old[i], snt, rch)
    BY <1>4, <2>1 DEF Linked
  <2>3. PICK both : both = old \o replies  OBVIOUS
  <2>4. /\ both \in Seq(ChatPackets) /\ Len(both) = Len(old) + Len(replies)
        /\ Len(old) \in Nat /\ Len(replies) \in Nat
        /\ \A i \in 1..Len(both) :
               both[i] = IF i <= Len(old) THEN old[i] ELSE replies[i - Len(old)]
    BY <2>2, <2>3
  <2>5. ASSUME NEW i \in 1..Len(both) PROVE Vouched(a, both[i], snt, rch)
    <3>1. CASE i <= Len(old)
      <4>1. both[i] = old[i] /\ i \in 1..Len(old)  BY <2>4, <3>1
      <4> QED  BY <2>2, <4>1
    <3>2. CASE ~(i <= Len(old))
      <4>1. both[i] = replies[i - Len(old)] /\ i - Len(old) \in 1..Len(replies)  BY <2>4, <3>2
      <4> QED  BY <4>1
    <3> QED  BY <3>1, <3>2
  <2> QED  BY <1>3, <2>1, <2>3, <2>4, <2>5
<1>7. \A c, d \in Peers : net[c][d] \in Seq(ChatPackets)  BY <1>3, <1>4, <1>5, <1>6
<1>8. net \in Links
  <2>1. net = [c \in Peers |-> net[c]] /\ \A c \in Peers : net[c] = [d \in Peers |-> net[c][d]]
    <3>1. \A c \in Peers : network[c] \in [Peers -> Seq(ChatPackets)]  BY <1>0 DEF Links
    <3>2. net = [c \in Peers |-> net[c]]  BY <1>0, <1>2 DEF Links
    <3>3. \A c \in Peers \ {a, b} : net[c] = network[c]  BY <1>0, <1>2 DEF Links
    <3>4. net[b] = [network[b] EXCEPT ![a] = Tail(network[b][a])]  BY <1>0, <1>2 DEF Links
    <3>5. net[a] = [network[a] EXCEPT ![b] = network[a][b] \o replies]  BY <1>0, <1>2 DEF Links
    <3>6. \A c \in Peers : net[c] = [d \in Peers |-> net[c][d]]  BY <3>1, <3>3, <3>4, <3>5
    <3> QED  BY <3>2, <3>6
  <2>2. \A c \in Peers : net[c] \in [Peers -> Seq(ChatPackets)]  BY <1>7, <2>1
  <2> QED  BY <2>1, <2>2 DEF Links
<1>9. \A c \in Peers : net[c][c] = <<>>  BY <1>0, <1>3 DEF Linked
<1>10. \A c, d \in Peers : \A i \in 1..Len(net[c][d]) : Vouched(c, net[c][d][i], snt, rch)
  <2>1. ASSUME NEW c \in Peers, NEW d \in Peers, NEW i \in 1..Len(net[c][d])
        PROVE  Vouched(c, net[c][d][i], snt, rch)
    <3>1. CASE <<c, d>> # <<b, a>> /\ <<c, d>> # <<a, b>>
      <4>1. net[c][d] = network[c][d]  BY <1>3, <3>1
      <4> QED  BY <2>1, <4>1 DEF Linked
    <3> QED  BY <1>5, <1>6, <2>1, <3>1
  <2> QED  BY <2>1
<1>11. Linked(net, snt, rch)  BY <1>8, <1>9, <1>10 DEF Linked
<1> QED  BY <1>0, <1>1, <1>11

\* The next packet is one somebody vouched for.
LEMMA IsNext ==
    ASSUME ChatInv, NEW a \in Peers, NEW b \in Peers, network[b][a] # <<>>
    PROVE  /\ Head(network[b][a]) \in ChatPackets
           /\ Vouched(b, Head(network[b][a]), sent, reached)
           /\ a # b
<1>1. network[b][a] \in Seq(ChatPackets) /\ a # b
  BY DEF ChatInv, Linked, Links
<1>2. PICK old : old = network[b][a]  OBVIOUS
<1>3. 1 \in 1..Len(old) /\ Head(old) = old[1] /\ old[1] \in ChatPackets  BY <1>1, <1>2
<1> QED  BY <1>1, <1>2, <1>3 DEF ChatInv, Linked

LEMMA NoReplies == <<>> \in Seq(ChatPackets) /\ 1..Len(<<>>) = {}
OBVIOUS


-----------------------------------------------------------------------------
LEMMA QueueKept ==
    ASSUME ChatShape, NEW a \in Peers
    PROVE  /\ <<>> \in Queues
           /\ \A id \in Chat!Ids : Chat!Acked(a, id) \in Queues
           /\ \A id \in Chat!Ids : \A k \in 1..MaxAttempts : Chat!Unacked(a, id, k) \in Queues
           /\ DOMAIN unacked[a] \subseteq Chat!Ids
           /\ \A id \in DOMAIN unacked[a] : unacked[a][id] \in 1..MaxAttempts
<1>1. PICK S \in SUBSET Chat!Ids : unacked[a] \in [S -> 1..MaxAttempts]
  BY DEF ChatShape, Queues
<1>2. <<>> \in [{} -> 1..MaxAttempts] /\ {} \in SUBSET Chat!Ids  OBVIOUS
<1>3. ASSUME NEW id \in Chat!Ids
      PROVE  Chat!Acked(a, id) \in Queues
  <2>1. Chat!Acked(a, id) \in [S \ {id} -> 1..MaxAttempts]  BY <1>1 DEF Chat!Acked
  <2> QED  BY <2>1 DEF Queues
<1>4. ASSUME NEW id \in Chat!Ids, NEW k \in 1..MaxAttempts
      PROVE  Chat!Unacked(a, id, k) \in Queues
  <2>1. Chat!Unacked(a, id, k) \in [S \cup {id} -> 1..MaxAttempts]  BY <1>1 DEF Chat!Unacked
  <2> QED  BY <2>1 DEF Queues
<1>5. <<>> \in Queues  BY <1>2 DEF Queues
<1> QED  BY <1>1, <1>3, <1>4, <1>5

\* The lists stay good when only that of a changes.
LEMMA KeepsLists ==
    ASSUME ChatInv, NEW a \in Peers, UNCHANGED <<room, stored>>,
           Grows(sent, sent', reached, reached'),
           Listed(a, room[a], messages'[a], sent', reached'),
           \A c \in Peers \ {a} : messages'[c] = messages[c]
    PROVE  Kept'
<1>1. ASSUME NEW c \in Peers
      PROVE  /\ Listed(c, room[c], messages'[c], sent', reached')
             /\ \A r \in Rooms : Listed(c, r, stored[c][r], sent', reached')
  BY <1>1, StaysListed DEF ChatInv, Kept
<1> QED  BY <1>1 DEF Kept

LEMMA SameHistory ==
    ASSUME UNCHANGED sent, reached \subseteq reached'
    PROVE  Grows(sent, sent', reached, reached')
BY DEF Grows

LEMMA StaysNumbered == ASSUME ChatInv, UNCHANGED <<sent, audience>> PROVE Numbered'
BY DEF ChatInv, Numbered

LEMMA AsDelivered ==
    ASSUME NEW m \in Chat!Message
    PROVE  /\ [m EXCEPT !.status = "delivered"] \in Chat!Message
           /\ [m EXCEPT !.status = "delivered"].id = m.id
           /\ [m EXCEPT !.status = "delivered"].from = m.from
BY DEF Chat!Message, Chat!Statuses

\* What b answers is added to the list of a, as delivered.
LEMMA IsMerged ==
    ASSUME ChatInv, NEW a \in Peers, NEW b \in Peers, a # b, NEW items \in SUBSET Chat!Message,
           Listed(b, room[a], items, sent, reached), Chat!Merge(a, items)
    PROVE  /\ messages' \in [Peers -> SUBSET Chat!Message] /\ saveDue' \in [Peers -> BOOLEAN]
           /\ reached \subseteq reached' /\ reached' \subseteq Chat!Ids
           /\ Listed(a, room[a], messages'[a], sent, reached')
           /\ \A c \in Peers \ {a} : messages'[c] = messages[c]
           /\ \A m \in items : m.id \notin Chat!IdsOf(messages[a]) /\ m.from # a =>
                  m.id \in reached'
<1>1. PICK added : added = {[m EXCEPT !.status = "delivered"] :
          m \in Chat!WithoutKnown(a, items)}
  OBVIOUS
<1>2. /\ messages' = [messages EXCEPT ![a] = messages[a] \cup added]
      /\ saveDue' = [saveDue EXCEPT ![a] = saveDue[a] \/ added # {}]
      /\ reached' = reached \cup {m.id : m \in {n \in added : n.from # a}}
  BY <1>1 DEF Chat!Merge
<1>3. added \subseteq Chat!Message
  BY <1>1, AsDelivered DEF Chat!WithoutKnown
<1>4. ASSUME NEW d \in added
      PROVE  \E m \in items : /\ m.id \notin Chat!IdsOf(messages[a])
                              /\ d = [m EXCEPT !.status = "delivered"]
                              /\ d.id = m.id /\ d.from = m.from
  <2>1. PICK m \in Chat!WithoutKnown(a, items) : d = [m EXCEPT !.status = "delivered"]
    BY <1>1, <1>4
  <2>2. m \in items /\ m.id \notin Chat!IdsOf(messages[a])  BY <2>1 DEF Chat!WithoutKnown
  <2>3. d.id = m.id /\ d.from = m.from  BY <2>1, <2>2, AsDelivered
  <2> QED  BY <2>1, <2>2, <2>3
<1>5. messages \in [Peers -> SUBSET Chat!Message] /\ saveDue \in [Peers -> BOOLEAN]
      /\ reached \subseteq Chat!Ids
  BY DEF ChatInv, ChatShape
<1>6. /\ messages' \in [Peers -> SUBSET Chat!Message]
      /\ messages'[a] = messages[a] \cup added
      /\ \A c \in Peers \ {a} : messages'[c] = messages[c]
  BY <1>2, <1>3, <1>5
<1>7. saveDue' \in [Peers -> BOOLEAN]  BY <1>2, <1>5
<1>8. reached \subseteq reached' /\ reached' \subseteq Chat!Ids
  BY <1>2, <1>3, <1>5 DEF Chat!Message
<1>9. Listed(a, room[a], messages'[a], sent, reached')
  <2>0. Listed(a, room[a], messages[a], sent, reached)  BY DEF ChatInv, Kept
  <2>1. \A d \in added : /\ d.id \in DOMAIN sent /\ sent[d.id].room = room[a]
                         /\ d.id \in reached'
    <3>1. ASSUME NEW d \in added
          PROVE  d.id \in DOMAIN sent /\ sent[d.id].room = room[a] /\ d.id \in reached'
      <4>1. PICK m \in items : d.id = m.id /\ d.from = m.from  BY <1>4
      <4>2. m.id \in DOMAIN sent /\ sent[m.id].room = room[a]
                /\ (m.from # b => m.id \in reached)
        BY DEF Listed
      <4>3. d.from # a => d.id \in reached'  BY <1>2
      <4> QED  BY <1>8, <4>1, <4>2, <4>3
    <3> QED  BY <3>1
  <2>2. \A d, e \in added : d.id = e.id => d = e  BY <1>4 DEF Listed
  <2>3. \A d \in added, m \in messages[a] : d.id # m.id  BY <1>4 DEF Chat!IdsOf
  <2>4. \A m, n \in messages[a] \cup added : m.id = n.id => m = n
    BY <2>0, <2>2, <2>3 DEF Listed
  <2> QED  BY <1>6, <1>8, <2>0, <2>1, <2>4 DEF Listed
<1>10. ASSUME NEW m \in items, m.id \notin Chat!IdsOf(messages[a]), m.from # a
       PROVE  m.id \in reached'
  <2>1. PICK d \in added : d.id = m.id /\ d.from = m.from
    BY <1>1, <1>10, AsDelivered DEF Chat!WithoutKnown
  <2> QED  BY <1>2, <1>10, <2>1
<1> QED  BY <1>6, <1>7, <1>8, <1>9, <1>10

-----------------------------------------------------------------------------
(* The operations *)

LEMMA SendStep ==
    ASSUME Chat!ChatAssumption, ChatInv, NEW a \in Peers, NEW id \in Chat!Ids,
           Chat!sendMessage(a, id)
    PROVE  ChatInv'
<1>m. MaxMessages \in Nat /\ MaxAttempts \in Nat \ {0}  BY DEF Chat!ChatAssumption
<1>0. DOMAIN sent = 1..(id - 1) /\ id \in 1..MaxMessages
  BY DEF Chat!sendMessage, Chat!Sent, Chat!Ids
<1>1. PICK new : new =
          [id |-> id, from |-> a, stamp |-> clock, seq |-> mySeq[a] + 1, status |-> "sent"]
  OBVIOUS
<1>2. /\ mySeq' = [mySeq EXCEPT ![a] = mySeq[a] + 1]
      /\ messages' = [messages EXCEPT ![a] = messages[a] \cup {new}]
      /\ network' = Chat!Broadcast(a, Chat!Others(a), Chat!MessagePacket(a, id, mySeq[a] + 1))
      /\ unacked' = [unacked EXCEPT ![a] = Chat!Unacked(a, id, 1)]
      /\ saveDue' = [saveDue EXCEPT ![a] = TRUE]
      /\ sent' = [x \in DOMAIN sent \cup {id} |->
                     IF x = id THEN [author |-> a, room |-> room[a]] ELSE sent[x]]
      /\ audience' = [x \in DOMAIN sent \cup {id} |->
                         IF x = id THEN Chat!Others(a) ELSE audience[x]]
      /\ clock' = clock + 1
      /\ UNCHANGED <<room, generation, peerSeqs, loads, askAgain, stored, reached>>
  BY <1>1 DEF Chat!sendMessage, Chat!Sent
<1>3. ChatShape /\ clock \in Nat /\ mySeq[a] \in Nat /\ room[a] \in Rooms
  BY DEF ChatInv, ChatShape
<1>4. new \in Chat!Message /\ new.id = id /\ new.from = a /\ new.status = "sent"
  BY <1>1, <1>2, <1>3 DEF Chat!Message, Chat!Statuses
<1>5. id \notin DOMAIN sent  BY <1>m, <1>0
<1>6. ChatShape'
  <2>1. Chat!Unacked(a, id, 1) \in Queues  BY <1>2, <1>3, <1>m, QueueKept
  <2> QED  BY <1>2, <1>3, <1>4, <2>1 DEF ChatShape
<1>7. Numbered'
  <2>1. DOMAIN sent' = 1..id /\ id \in 0..MaxMessages  BY <1>m, <1>0, <1>2
  <2>2. Chat!Others(a) \subseteq Peers  BY DEF Chat!Others
  <2>3. \A x \in DOMAIN sent' :
            sent'[x] \in [author : Peers, room : Rooms] /\ audience'[x] \subseteq Peers
    BY <1>2, <1>3, <2>2 DEF ChatInv, Numbered
  <2> QED  BY <2>1, <2>3 DEF Numbered
<1>8. Grows(sent, sent', reached, reached') /\ sent'[id].room = room[a] /\ id \in DOMAIN sent'
  BY <1>2, <1>5 DEF Grows
<1>9. Kept'
  <2>1. /\ messages'[a] = messages[a] \cup {new}
        /\ \A c \in Peers \ {a} : messages'[c] = messages[c]
    BY <1>2, <1>3 DEF ChatShape
  <2>2. Listed(a, room[a], messages[a], sent, reached)  BY DEF ChatInv, Kept
  <2>3. Listed(a, room[a], messages[a], sent', reached')  BY <1>8, <2>2, StaysListed
  <2>4. \A m \in messages[a] : m.id # id  BY <1>5, <2>2 DEF Listed
  <2>5. Listed(a, room[a], messages[a] \cup {new}, sent', reached')
    BY <1>4, <1>8, <2>3, <2>4 DEF Listed
  <2> QED  BY <1>2, <1>8, <2>1, <2>5, KeepsLists
<1>10. Linked(network, sent, reached)'
  <2>1. Linked(network, sent', reached')  BY <1>8, StaysLinked DEF ChatInv
  <2>2. PICK pkt : pkt = Chat!MessagePacket(a, id, mySeq[a] + 1)  OBVIOUS
  <2>3. pkt \in Told /\ pkt.kind = "message" /\ pkt.id = id /\ pkt.room = room[a]
    BY <1>2, <1>3, <2>2 DEF Chat!MessagePacket, Told
  <2>4. pkt \in ChatPackets /\ Vouched(a, pkt, sent', reached')
    BY <1>8, <2>3 DEF ChatPackets, Vouched
  <2>5. a \notin Chat!Others(a)  BY DEF Chat!Others
  <2> QED  BY <1>2, <2>1, <2>2, <2>4, <2>5, GoesOut
<1> QED  BY <1>6, <1>7, <1>9, <1>10 DEF ChatInv

LEMMA RetryStep ==
    ASSUME Chat!ChatAssumption, ChatInv, NEW a \in Peers, NEW id, Chat!Retry(a, id)
    PROVE  ChatInv'
<1>0. /\ id \in DOMAIN unacked[a]
      /\ UNCHANGED <<room, generation, messages, mySeq, peerSeqs, loads, saveDue, askAgain,
                     stored, sent, audience, reached>>
  BY DEF Chat!Retry
<1>1. /\ ChatShape /\ clock \in Nat /\ room[a] \in Rooms
      /\ MaxAttempts \in Nat \ {0} /\ id \in Chat!Ids /\ unacked[a][id] \in 1..MaxAttempts
  BY <1>0, QueueKept DEF ChatInv, ChatShape, Chat!ChatAssumption
<1>2. Numbered' /\ Kept'
  BY <1>0, StaysNumbered DEF ChatInv, Kept
<1>3. CASE \E m \in messages[a] : m.id = id /\ m.status = "sent"
  <2>1. /\ network' = Chat!Broadcast(a, Chat!Others(a), Chat!MessagePacket(a, id, 0))
        /\ clock' = clock + 1
        /\ unacked' = [unacked EXCEPT ![a] =
                          IF unacked[a][id] >= MaxAttempts
                          THEN Chat!Acked(a, id) ELSE Chat!Unacked(a, id, unacked[a][id] + 1)]
    BY <1>3 DEF Chat!Retry, Chat!RetryPacket
  <2>2. ChatShape'
    <3>1. unacked[a][id] < MaxAttempts => unacked[a][id] + 1 \in 1..MaxAttempts  BY <1>1
    <3>2. (IF unacked[a][id] >= MaxAttempts
           THEN Chat!Acked(a, id) ELSE Chat!Unacked(a, id, unacked[a][id] + 1)) \in Queues
      <4>1. CASE unacked[a][id] >= MaxAttempts  BY <1>1, <4>1, QueueKept
      <4>2. CASE ~(unacked[a][id] >= MaxAttempts)
        <5>1. unacked[a][id] < MaxAttempts  BY <1>1, <4>2
        <5> QED  BY <1>1, <3>1, <4>2, <5>1, QueueKept
      <4> QED  BY <4>1, <4>2
    <3>3. unacked' \in [Peers -> Queues]  BY <1>1, <2>1, <3>2 DEF ChatShape
    <3> QED  BY <1>0, <1>1, <2>1, <3>3 DEF ChatShape
  <2>3. id \in DOMAIN sent /\ sent[id].room = room[a]
    BY <1>3 DEF ChatInv, Kept, Listed
  <2>4. PICK pkt : pkt = Chat!MessagePacket(a, id, 0)  OBVIOUS
  <2>5. pkt \in Told /\ pkt.kind = "message" /\ pkt.id = id /\ pkt.room = room[a]
    BY <1>1, <2>4 DEF Chat!MessagePacket, Told
  <2>6. pkt \in ChatPackets /\ Vouched(a, pkt, sent, reached)
    BY <2>3, <2>5 DEF ChatPackets, Vouched
  <2>7. a \notin Chat!Others(a)  BY DEF Chat!Others
  <2>8. Linked(network, sent, reached)  BY DEF ChatInv
  <2>9. Linked(network', sent, reached)  BY <2>1, <2>4, <2>6, <2>7, <2>8, GoesOut
  <2> QED  BY <1>0, <1>2, <2>2, <2>9 DEF ChatInv
<1>4. CASE ~\E m \in messages[a] : m.id = id /\ m.status = "sent"
  <2>1. unacked' = [unacked EXCEPT ![a] = Chat!Acked(a, id)] /\ UNCHANGED <<network, clock>>
    BY <1>4 DEF Chat!Retry
  <2>2. Chat!Acked(a, id) \in Queues  BY <1>1, QueueKept
  <2>3. ChatShape'  BY <1>0, <1>1, <2>1, <2>2 DEF ChatShape
  <2> QED  BY <1>0, <1>2, <2>1, <2>3 DEF ChatInv
<1> QED  BY <1>3, <1>4

LEMMA OnMessageStep ==
    ASSUME Chat!ChatAssumption, ChatInv, NEW a \in Peers, NEW b \in Peers, Chat!OnMessage(a, b)
    PROVE  ChatInv'
<1>p. PICK pkt : pkt = Head(network[b][a])  OBVIOUS
<1>0. /\ network[b][a] # <<>> /\ pkt.kind = "message" /\ pkt.room = room[a]
      /\ UNCHANGED <<room, generation, mySeq, loads, askAgain, stored, sent, audience, clock,
             unacked>>
  BY <1>p DEF Chat!OnMessage, Chat!Receive
<1>1. pkt \in ChatPackets /\ Vouched(b, pkt, sent, reached) /\ a # b
  BY <1>0, <1>p, IsNext
<1>2. pkt \in Told /\ pkt.id \in Chat!Ids /\ pkt.seq \in Nat /\ pkt.stamp \in Nat
  BY <1>0, <1>1 DEF ChatPackets, Told, Receipts, Answers, Questions
<1>3. pkt.id \in DOMAIN sent /\ sent[pkt.id].room = room[a]  BY <1>0, <1>1 DEF Vouched
<1>4. Numbered'  BY <1>0, StaysNumbered
<1>5. ChatShape /\ Linked(network, sent, reached)  BY DEF ChatInv
<1>6. CASE Chat!IsRepeat(a, b, pkt)
  <2>1. Chat!Take(a, b, <<>>) /\ UNCHANGED <<messages, saveDue, reached, peerSeqs>>
    BY <1>p, <1>6 DEF Chat!OnMessage
  <2>2. Linked(network', sent, reached)
    BY <1>0, <1>5, <2>1, NoReplies, IsTaken
  <2> QED  BY <1>0, <1>4, <1>5, <2>1, <2>2 DEF ChatInv, ChatShape, Kept
<1>7. CASE ~Chat!IsRepeat(a, b, pkt)
  <2>1. peerSeqs' = [peerSeqs EXCEPT ![a][b] = IF pkt.seq > peerSeqs[a][b] THEN pkt.seq ELSE @]
    BY <1>p, <1>7 DEF Chat!OnMessage
  <2>2. peerSeqs' \in [Peers -> [Peers -> Nat]]  BY <1>2, <1>5, <2>1 DEF ChatShape
  <2>3. CASE pkt.id \in Chat!IdsOf(messages[a])
    <3>1. Chat!Take(a, b, <<>>) /\ UNCHANGED <<messages, saveDue, reached>>
      BY <1>p, <1>7, <2>3 DEF Chat!OnMessage
    <3>2. Linked(network', sent, reached)
      BY <1>0, <1>5, <3>1, NoReplies, IsTaken
    <3>3. ChatShape'  BY <1>0, <1>5, <2>2, <3>1 DEF ChatShape
    <3> QED  BY <1>0, <1>4, <3>1, <3>2, <3>3 DEF ChatInv, Kept
  <2>4. CASE pkt.id \notin Chat!IdsOf(messages[a])
    <3>0. PICK new : new = [id |-> pkt.id, from |-> b, stamp |-> pkt.stamp, seq |-> pkt.seq,
                            status |-> "sent"]
      OBVIOUS
    <3>1. PICK ack : ack = [kind |-> "ack", room |-> room[a], id |-> pkt.id]  OBVIOUS
    <3>2. Chat!Merge(a, {new}) /\ Chat!Take(a, b, <<ack>>)
      BY <1>p, <1>7, <2>4, <3>0, <3>1 DEF Chat!OnMessage
    <3>3. new \in Chat!Message /\ new.id = pkt.id /\ new.from = b /\ new.status = "sent"
      BY <1>2, <3>0 DEF Chat!Message, Chat!Statuses
    <3>4. Listed(b, room[a], {new}, sent, reached)  BY <1>3, <3>3 DEF Listed
    <3>5. {new} \in SUBSET Chat!Message  BY <3>3
    <3>6. /\ messages' \in [Peers -> SUBSET Chat!Message] /\ saveDue' \in [Peers -> BOOLEAN]
          /\ reached \subseteq reached' /\ reached' \subseteq Chat!Ids
          /\ Listed(a, room[a], messages'[a], sent, reached')
          /\ \A c \in Peers \ {a} : messages'[c] = messages[c]
          /\ pkt.id \in reached'
      BY <1>1, <2>4, <3>2, <3>3, <3>4, <3>5, IsMerged
    <3>7. Grows(sent, sent', reached, reached')  BY <1>0, <3>6, SameHistory
    <3>8. Kept'  BY <1>0, <3>6, <3>7, KeepsLists
    <3>9. ack \in ChatPackets /\ Vouched(a, ack, sent, reached')
      <4>1. ack \in Receipts /\ ack.kind = "ack" /\ ack.id = pkt.id
        BY <1>2, <1>5, <3>1 DEF Receipts, ChatShape
      <4> QED  BY <3>6, <4>1 DEF ChatPackets, Vouched
    <3>10. <<ack>> \in Seq(ChatPackets) /\ \A i \in 1..Len(<<ack>>) :
               Vouched(a, <<ack>>[i], sent, reached')
      BY <3>9
    <3>11. Linked(network, sent, reached')  BY <1>0, <1>5, <3>7, StaysLinked
    <3>12. Linked(network', sent, reached')  BY <1>0, <3>2, <3>10, <3>11, IsTaken
    <3>13. ChatShape'  BY <1>0, <1>5, <2>2, <3>6 DEF ChatShape
    <3> QED  BY <1>0, <1>4, <3>8, <3>12, <3>13 DEF ChatInv
  <2> QED  BY <2>3, <2>4
<1> QED  BY <1>6, <1>7

LEMMA OnAckStep ==
    ASSUME Chat!ChatAssumption, ChatInv, NEW a \in Peers, NEW b \in Peers, Chat!OnAck(a, b)
    PROVE  ChatInv'
<1>p. PICK pkt : pkt = Head(network[b][a])  OBVIOUS
<1>q. PICK acked : acked = {m \in messages[a] : m.id = pkt.id /\ m.from = a}  OBVIOUS
<1>0. /\ network[b][a] # <<>> /\ pkt.kind = "ack" /\ Chat!Take(a, b, <<>>)
      /\ messages' = [messages EXCEPT ![a] =
             (messages[a] \ acked) \cup {[m EXCEPT !.status = "delivered"] : m \in acked}]
      /\ unacked' = [unacked EXCEPT ![a] =
                         IF acked # {} THEN Chat!Acked(a, pkt.id) ELSE unacked[a]]
      /\ saveDue' = [saveDue EXCEPT ![a] = saveDue[a] \/ acked # {}]
      /\ UNCHANGED <<room, generation, mySeq, loads, askAgain, stored, sent, audience, clock,
                     peerSeqs, reached>>
  BY <1>p, <1>q DEF Chat!OnAck, Chat!Receive
<1>1. pkt \in ChatPackets /\ Vouched(b, pkt, sent, reached) /\ a # b
  BY <1>0, <1>p, IsNext
<1>2. pkt.id \in Chat!Ids /\ pkt.id \in reached
  BY <1>0, <1>1 DEF ChatPackets, Told, Receipts, Answers, Questions, Vouched
<1>3. Numbered'  BY <1>0, StaysNumbered
<1>4. ChatShape /\ Linked(network, sent, reached)  BY DEF ChatInv
<1>5. PICK done : done = {[m EXCEPT !.status = "delivered"] : m \in acked}  OBVIOUS
<1>6. /\ acked \subseteq messages[a] /\ messages[a] \subseteq Chat!Message
      /\ done \subseteq Chat!Message
      /\ \A d \in done : \E m \in acked : /\ d.id = m.id /\ d.from = m.from
                                          /\ d = [m EXCEPT !.status = "delivered"]
  <2>1. acked \subseteq messages[a] /\ messages[a] \subseteq Chat!Message
    BY <1>q, <1>4 DEF ChatShape
  <2> QED  BY <1>5, <2>1, AsDelivered
<1>7. ChatShape'
  <2>1. (IF acked # {} THEN Chat!Acked(a, pkt.id) ELSE unacked[a]) \in Queues
    BY <1>2, <1>4, QueueKept DEF ChatShape
  <2>2. unacked' \in [Peers -> Queues]  BY <1>0, <1>4, <2>1 DEF ChatShape
  <2>3. messages' \in [Peers -> SUBSET Chat!Message]  BY <1>0, <1>4, <1>5, <1>6 DEF ChatShape
  <2>4. saveDue' \in [Peers -> BOOLEAN]  BY <1>0, <1>4 DEF ChatShape
  <2> QED  BY <1>0, <1>4, <2>2, <2>3, <2>4 DEF ChatShape
<1>8. Kept'
  <2>1. /\ messages'[a] = (messages[a] \ acked) \cup done
        /\ \A c \in Peers \ {a} : messages'[c] = messages[c]
    BY <1>0, <1>4, <1>5 DEF ChatShape
  <2>2. Listed(a, room[a], messages[a], sent, reached)  BY DEF ChatInv, Kept
  <2>3. \A d \in done : d.id = pkt.id  BY <1>q, <1>6
  <2>4. \A d \in done : d.id \in DOMAIN sent /\ sent[d.id].room = room[a] /\ d.id \in reached
    BY <1>2, <1>6, <2>2, <2>3 DEF Listed
  <2>5. \A d, e \in done : d = e
    <3>1. \A m, n \in acked : m = n  BY <1>q, <2>2 DEF Listed
    <3> QED  BY <1>6, <3>1
  <2>6. \A d \in done, m \in messages[a] \ acked : d.id # m.id
    BY <1>6, <2>2 DEF Listed
  <2>7. Listed(a, room[a], (messages[a] \ acked) \cup done, sent, reached)
    BY <2>2, <2>4, <2>5, <2>6 DEF Listed
  <2>8. Grows(sent, sent', reached, reached')  BY <1>0, SameHistory
  <2> QED  BY <1>0, <2>1, <2>7, <2>8, KeepsLists
<1>9. Linked(network', sent, reached)
  BY <1>0, <1>4, NoReplies, IsTaken
<1> QED  BY <1>0, <1>3, <1>7, <1>8, <1>9 DEF ChatInv

LEMMA OnItemsStep ==
    ASSUME Chat!ChatAssumption, ChatInv, NEW a \in Peers, NEW b \in Peers, Chat!OnItems(a, b)
    PROVE  ChatInv'
<1>p. PICK pkt : pkt = Head(network[b][a])  OBVIOUS
<1>0. /\ network[b][a] # <<>> /\ pkt.kind = "items" /\ pkt.room = room[a]
      /\ Chat!Take(a, b, <<>>) /\ Chat!Merge(a, pkt.items)
      /\ UNCHANGED <<room, generation, mySeq, loads, askAgain, stored, sent, audience, clock,
                     peerSeqs, unacked>>
  BY <1>p DEF Chat!OnItems, Chat!Receive
<1>1. pkt \in ChatPackets /\ Vouched(b, pkt, sent, reached) /\ a # b
  BY <1>0, <1>p, IsNext
<1>2. pkt.items \in SUBSET Chat!Message
  BY <1>0, <1>1 DEF ChatPackets, Told, Receipts, Answers, Questions
<1>3. Listed(b, room[a], pkt.items, sent, reached)  BY <1>0, <1>1 DEF Vouched
<1>4. ChatShape /\ Linked(network, sent, reached)  BY DEF ChatInv
<1>5. /\ messages' \in [Peers -> SUBSET Chat!Message] /\ saveDue' \in [Peers -> BOOLEAN]
      /\ reached \subseteq reached' /\ reached' \subseteq Chat!Ids
      /\ Listed(a, room[a], messages'[a], sent, reached')
      /\ \A c \in Peers \ {a} : messages'[c] = messages[c]
  BY <1>0, <1>1, <1>2, <1>3, IsMerged
<1>6. Grows(sent, sent', reached, reached')  BY <1>0, <1>5, SameHistory
<1>7. Kept'  BY <1>0, <1>5, <1>6, KeepsLists
<1>8. Linked(network, sent, reached')  BY <1>0, <1>4, <1>6, StaysLinked
<1>9. Linked(network', sent, reached')  BY <1>0, <1>8, NoReplies, IsTaken
<1>10. ChatShape'  BY <1>0, <1>4, <1>5 DEF ChatShape
<1>11. Numbered'  BY <1>0, StaysNumbered
<1> QED  BY <1>0, <1>7, <1>9, <1>10, <1>11 DEF ChatInv

LEMMA DiscardStep ==
    ASSUME ChatInv, NEW a \in Peers, NEW b \in Peers, Chat!Discard(a, b)
    PROVE  ChatInv'
<1>0. /\ network[b][a] # <<>> /\ Chat!Take(a, b, <<>>)
      /\ UNCHANGED <<room, generation, messages, mySeq, peerSeqs, unacked, loads, saveDue,
                     askAgain, stored, sent, audience, reached, clock>>
  BY DEF Chat!Discard
<1>1. Linked(network, sent, reached)  BY DEF ChatInv
<1>2. Linked(network', sent, reached)  BY <1>0, <1>1, NoReplies, IsTaken
<1>3. Numbered'  BY <1>0, StaysNumbered
<1> QED  BY <1>0, <1>2, <1>3 DEF ChatInv, ChatShape, Kept

\* What a answers are messages of its own list.
LEMMA AnswersAreListed ==
    ASSUME ChatInv, NEW a \in Peers, NEW items, items \subseteq messages[a]
    PROVE  /\ Chat!Answer(a, items) \in Seq(ChatPackets)
           /\ \A i \in 1..Len(Chat!Answer(a, items)) :
                  Vouched(a, Chat!Answer(a, items)[i], sent, reached)
<1>1. CASE items = {}
  <2>1. Chat!Answer(a, items) = <<>>  BY <1>1 DEF Chat!Answer
  <2> QED  BY <2>1, NoReplies
<1>2. CASE items # {}
  <2>1. PICK pkt : pkt = [kind |-> "items", room |-> room[a], items |-> items]  OBVIOUS
  <2>2. Chat!Answer(a, items) = <<pkt>>  BY <1>2, <2>1 DEF Chat!Answer
  <2>3. room[a] \in Rooms /\ items \in SUBSET Chat!Message  BY DEF ChatInv, ChatShape
  <2>4. Listed(a, room[a], items, sent, reached)  BY DEF ChatInv, Kept, Listed
  <2>5. pkt \in Answers /\ pkt.kind = "items" /\ pkt.room = room[a] /\ pkt.items = items
    BY <2>1, <2>3 DEF Answers
  <2>6. pkt \in ChatPackets /\ Vouched(a, pkt, sent, reached)
    BY <2>4, <2>5 DEF ChatPackets, Vouched
  <2> QED  BY <2>2, <2>6
<1> QED  BY <1>1, <1>2

LEMMA BothVouched ==
    ASSUME NEW a, NEW snt, NEW rch, NEW s1 \in Seq(ChatPackets), NEW s2 \in Seq(ChatPackets),
           \A i \in 1..Len(s1) : Vouched(a, s1[i], snt, rch),
           \A i \in 1..Len(s2) : Vouched(a, s2[i], snt, rch)
    PROVE  /\ s1 \o s2 \in Seq(ChatPackets)
           /\ \A i \in 1..Len(s1 \o s2) : Vouched(a, (s1 \o s2)[i], snt, rch)
<1>1. PICK both : both = s1 \o s2  OBVIOUS
<1>2. /\ both \in Seq(ChatPackets) /\ Len(both) = Len(s1) + Len(s2)
      /\ Len(s1) \in Nat /\ Len(s2) \in Nat
      /\ \A i \in 1..Len(both) : both[i] = IF i <= Len(s1) THEN s1[i] ELSE s2[i - Len(s1)]
  BY <1>1
<1>3. ASSUME NEW i \in 1..Len(both) PROVE Vouched(a, both[i], snt, rch)
  <2>1. CASE i <= Len(s1)
    <3>1. both[i] = s1[i] /\ i \in 1..Len(s1)  BY <1>2, <2>1
    <3> QED  BY <3>1
  <2>2. CASE ~(i <= Len(s1))
    <3>1. both[i] = s2[i - Len(s1)] /\ i - Len(s1) \in 1..Len(s2)  BY <1>2, <2>2
    <3> QED  BY <3>1
  <2> QED  BY <2>1, <2>2
<1> QED  BY <1>1, <1>2, <1>3

LEMMA OnCatchUpStep ==
    ASSUME ChatInv, NEW a \in Peers, NEW b \in Peers, Chat!OnCatchUp(a, b)
    PROVE  ChatInv'
<1>1. PICK recent : recent = {m \in messages[a] : m.stamp > Head(network[b][a]).since}  OBVIOUS
<1>2. PICK missing : missing = {m \in messages[a] :
          m.from = a /\ m.seq > Head(network[b][a]).seqs[a]}
  OBVIOUS
<1>3. PICK replies : replies = Chat!Answer(a, recent) \o Chat!Answer(a, missing)  OBVIOUS
<1>4. /\ network[b][a] # <<>> /\ Chat!Take(a, b, replies)
      /\ UNCHANGED <<room, generation, mySeq, loads, askAgain, stored, sent, audience, clock,
                     messages, saveDue, reached, peerSeqs, unacked>>
  BY <1>1, <1>2, <1>3 DEF Chat!OnCatchUp, Chat!Receive
<1>5. recent \subseteq messages[a] /\ missing \subseteq messages[a]  BY <1>1, <1>2
<1>6. /\ replies \in Seq(ChatPackets)
      /\ \A i \in 1..Len(replies) : Vouched(a, replies[i], sent, reached)
  BY <1>3, <1>5, AnswersAreListed, BothVouched
<1>7. Linked(network, sent, reached)  BY DEF ChatInv
<1>8. Linked(network', sent, reached)  BY <1>4, <1>6, <1>7, IsTaken
<1>9. Numbered'  BY <1>4, StaysNumbered
<1> QED  BY <1>4, <1>8, <1>9 DEF ChatInv, ChatShape, Kept

LEMMA DeliverStep ==
    ASSUME Chat!ChatAssumption, ChatInv, NEW a \in Peers, NEW b \in Peers,
           Chat!Deliver(a, b) \/ Chat!Lose(a, b)
    PROVE  ChatInv'
BY OnMessageStep, OnAckStep, OnCatchUpStep, OnItemsStep, DiscardStep
   DEF Chat!Deliver, Chat!Lose, Chat!Ignored

-----------------------------------------------------------------------------
\* The question of a for what it missed.
LEMMA AsksOthers ==
    ASSUME NEW snt, NEW rch, Linked(network, snt, rch), NEW a \in Peers, NEW r \in Rooms,
           NEW list \in SUBSET Chat!Message, NEW n \in Nat, NEW seqs \in [Peers -> Nat]
    PROVE  Linked(Chat!CatchUp(a, r, list, n, seqs), snt, rch)
<1>1. PICK targets : targets = {q \in Peers \ {a} : room[q] = r}  OBVIOUS
<1>2. PICK pkt : pkt = [kind |-> "catchup", room |-> r, since |-> Chat!Latest(list),
                        seqs |-> [seqs EXCEPT ![a] = n]]
  OBVIOUS
<1>3. Chat!CatchUp(a, r, list, n, seqs) = Chat!Broadcast(a, targets, pkt)
  BY <1>1, <1>2 DEF Chat!CatchUp
<1>4. Chat!Latest(list) \in Latests  BY DEF Latests
<1>5. pkt \in Questions /\ pkt.kind = "catchup"  BY <1>2, <1>4 DEF Questions
<1>6. pkt \in ChatPackets /\ Vouched(a, pkt, snt, rch) /\ a \notin targets
  BY <1>1, <1>5 DEF ChatPackets, Vouched
<1> QED  BY <1>3, <1>6, GoesOut

\* Leaving a room, or the panel, empties the list; the cache keeps what is saved.
LEMMA SavedIsListed ==
    ASSUME ChatInv, NEW a \in Peers
    PROVE  /\ Chat!SavedNow(a) \in [Peers -> [Rooms -> SUBSET Chat!Message]]
           /\ \A c \in Peers, r \in Rooms : Listed(c, r, Chat!SavedNow(a)[c][r], sent, reached)
<1>1. PICK saved : saved = Chat!SavedNow(a)  OBVIOUS
<1>2. ChatShape /\ room[a] \in Rooms /\ messages[a] \in SUBSET Chat!Message
      /\ stored \in [Peers -> [Rooms -> SUBSET Chat!Message]]
  BY DEF ChatInv, ChatShape
<1>3. saved = [stored EXCEPT ![a][room[a]] = IF messages[a] # {} THEN messages[a] ELSE stored[a][room[a]]]
  BY <1>1, <1>2 DEF Chat!SavedNow
<1>4. saved \in [Peers -> [Rooms -> SUBSET Chat!Message]]  BY <1>2, <1>3
<1>5. ASSUME NEW c \in Peers, NEW r \in Rooms
      PROVE  Listed(c, r, saved[c][r], sent, reached)
  <2>1. /\ Listed(c, r, stored[c][r], sent, reached)
        /\ Listed(c, room[c], messages[c], sent, reached)
    BY <1>5 DEF ChatInv, Kept
  <2>2. CASE c = a /\ r = room[a] /\ messages[a] # {}
    <3>1. saved[c][r] = messages[a]  BY <1>2, <1>3, <2>2
    <3> QED  BY <2>1, <2>2, <3>1
  <2>3. CASE ~(c = a /\ r = room[a] /\ messages[a] # {})
    <3>1. saved[c][r] = stored[c][r]  BY <1>2, <1>3, <2>3
    <3> QED  BY <2>1, <3>1
  <2> QED  BY <2>2, <2>3
<1> QED  BY <1>1, <1>4, <1>5

LEMMA NothingListed ==
    ASSUME NEW a, NEW r, NEW snt, NEW rch
    PROVE  Listed(a, r, {}, snt, rch)
BY DEF Listed

LEMMA StaysAudience ==
    ASSUME ChatInv, NEW a \in Peers, UNCHANGED sent, audience' = Chat!Leaves(a)
    PROVE  Numbered'
<1>1. \A id \in DOMAIN sent : audience'[id] \subseteq audience[id]
  BY DEF Chat!Leaves, Chat!Sent
<1> QED  BY <1>1 DEF ChatInv, Numbered

LEMMA InitStep ==
    ASSUME Chat!ChatAssumption, ChatInv, NEW a \in Peers, NEW r \in Rooms, Chat!init(a, r)
    PROVE  ChatInv'
<1>1. /\ stored' = Chat!SavedNow(a)
      /\ room' = [room EXCEPT ![a] = r]
      /\ generation' = [generation EXCEPT ![a] = generation[a] + 1]
      /\ messages' = [messages EXCEPT ![a] = {}]
      /\ unacked' = [unacked EXCEPT ![a] = <<>>]
      /\ saveDue' = [saveDue EXCEPT ![a] = FALSE]
      /\ loads' = [loads EXCEPT ![a] =
                       loads[a] \cup {[room |-> r, generation |-> generation'[a]]}]
      /\ askAgain' = [askAgain EXCEPT ![a] = TRUE]
      /\ network' = Chat!CatchUp(a, r, {}, mySeq[a], peerSeqs[a])
      /\ audience' = Chat!Leaves(a)
      /\ UNCHANGED <<mySeq, peerSeqs, sent, reached, clock>>
  BY DEF Chat!init
<1>2. ChatShape /\ Linked(network, sent, reached)  BY DEF ChatInv
<1>3. generation' \in [Peers -> Nat] /\ generation'[a] \in Nat  BY <1>1, <1>2 DEF ChatShape
<1>4. ChatShape'
  <2>1. loads' \in [Peers -> SUBSET [room : Rooms, generation : Nat]]
    BY <1>1, <1>2, <1>3 DEF ChatShape
  <2>2. <<>> \in Queues  BY <1>2, QueueKept
  <2> QED  BY <1>1, <1>2, <1>3, <2>1, <2>2, SavedIsListed DEF ChatShape
<1>5. Kept'
  <2>1. ASSUME NEW c \in Peers
        PROVE  /\ Listed(c, room'[c], messages'[c], sent, reached)
               /\ \A s \in Rooms : Listed(c, s, stored'[c][s], sent, reached)
    <3>1. CASE c = a
      <4>1. messages'[c] = {}  BY <1>1, <1>2, <3>1 DEF ChatShape
      <4>2. \A s \in Rooms : Listed(c, s, stored'[c][s], sent, reached)  BY <1>1, SavedIsListed
      <4> QED  BY <4>1, <4>2, NothingListed
    <3>2. CASE c # a
      <4>1. messages'[c] = messages[c] /\ room'[c] = room[c]  BY <1>1, <1>2, <3>2 DEF ChatShape
      <4> QED  BY <1>1, <4>1, SavedIsListed DEF ChatInv, Kept
    <3> QED  BY <3>1, <3>2
  <2> QED  BY <1>1, <2>1 DEF Kept
<1>6. Numbered'  BY <1>1, StaysAudience
<1>7. Linked(network', sent, reached)
  <2>1. {} \in SUBSET Chat!Message /\ mySeq[a] \in Nat /\ peerSeqs[a] \in [Peers -> Nat]
    BY <1>2 DEF ChatShape
  <2> QED  BY <1>1, <1>2, <2>1, AsksOthers
<1> QED  BY <1>1, <1>4, <1>5, <1>6, <1>7 DEF ChatInv

LEMMA RestartStep ==
    ASSUME Chat!ChatAssumption, ChatInv, NEW a \in Peers, NEW saves \in BOOLEAN,
           Chat!Restart(a, saves)
    PROVE  ChatInv'
<1>1. /\ stored' = IF saves THEN Chat!SavedNow(a) ELSE stored
      /\ messages' = [messages EXCEPT ![a] = {}]
      /\ mySeq' = [mySeq EXCEPT ![a] = 0]
      /\ peerSeqs' = [peerSeqs EXCEPT ![a] = [q \in Peers |-> 0]]
      /\ unacked' = [unacked EXCEPT ![a] = <<>>]
      /\ saveDue' = [saveDue EXCEPT ![a] = FALSE]
      /\ loads' = [loads EXCEPT ![a] = {[room |-> room[a], generation |-> generation[a]]}]
      /\ askAgain' = [askAgain EXCEPT ![a] = TRUE]
      /\ network' = Chat!CatchUp(a, room[a], {}, 0, peerSeqs'[a])
      /\ audience' = Chat!Leaves(a)
      /\ UNCHANGED <<room, generation, sent, reached, clock>>
  BY DEF Chat!Restart
<1>2. /\ ChatShape /\ Linked(network, sent, reached)
      /\ room[a] \in Rooms  BY DEF ChatInv, ChatShape
<1>3. /\ stored' \in [Peers -> [Rooms -> SUBSET Chat!Message]]
      /\ \A c \in Peers, r \in Rooms : Listed(c, r, stored'[c][r], sent, reached)
  <2>1. CASE saves  BY <1>1, <2>1, SavedIsListed
  <2>2. CASE ~saves  BY <1>1, <1>2, <2>2 DEF ChatInv, ChatShape, Kept
  <2> QED  BY <2>1, <2>2
<1>4. peerSeqs' \in [Peers -> [Peers -> Nat]]  BY <1>1, <1>2 DEF ChatShape
<1>5. ChatShape'
  <2>1. loads' \in [Peers -> SUBSET [room : Rooms, generation : Nat]]
    BY <1>1, <1>2 DEF ChatShape
  <2>2. <<>> \in Queues  BY <1>2, QueueKept
  <2> QED  BY <1>1, <1>2, <1>3, <1>4, <2>1, <2>2 DEF ChatShape
<1>6. Kept'
  <2>1. ASSUME NEW c \in Peers
        PROVE  Listed(c, room[c], messages'[c], sent, reached)
    <3>1. CASE c = a
      <4>1. messages'[c] = {}  BY <1>1, <1>2, <3>1 DEF ChatShape
      <4> QED  BY <4>1, NothingListed
    <3>2. CASE c # a
      <4>1. messages'[c] = messages[c]  BY <1>1, <1>2, <3>2 DEF ChatShape
      <4> QED  BY <4>1 DEF ChatInv, Kept
    <3> QED  BY <3>1, <3>2
  <2> QED  BY <1>1, <1>3, <2>1 DEF Kept
<1>7. Numbered'  BY <1>1, StaysAudience
<1>8. Linked(network', sent, reached)
  <2>1. {} \in SUBSET Chat!Message /\ 0 \in Nat /\ peerSeqs'[a] \in [Peers -> Nat]
    BY <1>4
  <2> QED  BY <1>1, <1>2, <2>1, AsksOthers
<1> QED  BY <1>1, <1>5, <1>6, <1>7, <1>8 DEF ChatInv

LEMMA RetryHistoryStep ==
    ASSUME ChatInv, NEW a \in Peers, Chat!RetryHistory(a)
    PROVE  ChatInv'
<1>1. /\ askAgain' = [askAgain EXCEPT ![a] = FALSE]
      /\ network' = Chat!CatchUp(a, room[a], messages[a], mySeq[a], peerSeqs[a])
      /\ UNCHANGED <<room, generation, messages, mySeq, peerSeqs, unacked, loads, saveDue,
                     stored, sent, audience, reached, clock>>
  BY DEF Chat!RetryHistory
<1>2. ChatShape /\ Linked(network, sent, reached)  BY DEF ChatInv
<1>3. Linked(network', sent, reached)
  <2>1. /\ room[a] \in Rooms /\ messages[a] \in SUBSET Chat!Message
        /\ mySeq[a] \in Nat /\ peerSeqs[a] \in [Peers -> Nat]
    BY <1>2 DEF ChatShape
  <2> QED  BY <1>1, <1>2, <2>1, AsksOthers
<1>4. ChatShape'  BY <1>1, <1>2 DEF ChatShape
<1>5. Numbered'  BY <1>1, StaysNumbered
<1> QED  BY <1>1, <1>3, <1>4, <1>5 DEF ChatInv, Kept

LEMMA LoadStep ==
    ASSUME ChatInv, NEW a \in Peers, NEW load, Chat!loadCachedMessages(a, load)
    PROVE  ChatInv'
<1>1. /\ load \in loads[a]
      /\ loads' = [loads EXCEPT ![a] = loads[a] \ {load}]
      /\ messages' = [messages EXCEPT ![a] =
             IF Chat!IsCurrent(a, load) /\ messages[a] = {}
             THEN stored[a][load.room] ELSE messages[a]]
      /\ UNCHANGED <<room, generation, mySeq, peerSeqs, unacked, saveDue, askAgain, stored,
                     network, sent, audience, reached, clock>>
  BY DEF Chat!loadCachedMessages, Chat!Cached
<1>2. ChatShape /\ load.room \in Rooms  BY <1>1 DEF ChatInv, ChatShape
<1>3. PICK list : list = messages'[a]  OBVIOUS
<1>4. list \in SUBSET Chat!Message /\ Listed(a, room[a], list, sent, reached)
  <2>1. CASE Chat!IsCurrent(a, load) /\ messages[a] = {}
    <3>1. list = stored[a][room[a]]  BY <1>1, <1>2, <1>3, <2>1 DEF Chat!IsCurrent, ChatShape
    <3> QED  BY <1>2, <3>1 DEF ChatInv, ChatShape, Kept
  <2>2. CASE ~(Chat!IsCurrent(a, load) /\ messages[a] = {})
    <3>1. list = messages[a]  BY <1>1, <1>2, <1>3, <2>2 DEF ChatShape
    <3> QED  BY <1>2, <3>1 DEF ChatInv, ChatShape, Kept
  <2> QED  BY <2>1, <2>2
<1>5. messages' = [messages EXCEPT ![a] = list]  BY <1>1, <1>2, <1>3 DEF ChatShape
<1>6. ChatShape'
  <2>1. loads' \in [Peers -> SUBSET [room : Rooms, generation : Nat]]
    BY <1>1, <1>2 DEF ChatShape
  <2> QED  BY <1>1, <1>2, <1>4, <1>5, <2>1 DEF ChatShape
<1>7. Kept'
  <2>1. \A c \in Peers \ {a} : messages'[c] = messages[c]  BY <1>2, <1>5 DEF ChatShape
  <2>2. Grows(sent, sent', reached, reached')  BY <1>1, SameHistory
  <2> QED  BY <1>1, <1>3, <1>4, <2>1, <2>2, KeepsLists
<1>8. Numbered'  BY <1>1, StaysNumbered
<1> QED  BY <1>1, <1>6, <1>7, <1>8 DEF ChatInv

LEMMA SaveStep ==
    ASSUME ChatInv, NEW a \in Peers, Chat!saveMessages(a)
    PROVE  ChatInv'
<1>1. /\ saveDue' = [saveDue EXCEPT ![a] = FALSE] /\ stored' = Chat!SavedNow(a)
      /\ UNCHANGED <<room, generation, messages, mySeq, peerSeqs, unacked, loads, askAgain,
                     network, sent, audience, reached, clock>>
  BY DEF Chat!saveMessages
<1>2. ChatShape'  BY <1>1, SavedIsListed DEF ChatInv, ChatShape
<1>3. Kept'  BY <1>1, SavedIsListed DEF ChatInv, Kept
<1>4. Numbered'  BY <1>1, StaysNumbered
<1> QED  BY <1>1, <1>2, <1>3, <1>4 DEF ChatInv

LEMMA ChatStep ==
    ASSUME Chat!ChatAssumption, ChatInv, [Chat!Next]_(Chat!vars)
    PROVE  ChatInv'
<1>1. CASE UNCHANGED Chat!vars
  <2>1. UNCHANGED <<room, generation, messages, mySeq, peerSeqs, unacked, loads, saveDue,
                    askAgain, stored, network, sent, audience, reached, clock>>
    BY <1>1 DEF Chat!vars
  <2> QED  BY <2>1 DEF ChatInv, ChatShape, Numbered, Kept
<1>2. CASE Chat!Next
  BY <1>2, SendStep, RetryStep, DeliverStep, InitStep, RestartStep, RetryHistoryStep, LoadStep,
     SaveStep DEF Chat!Next
<1> QED  BY <1>1, <1>2

-----------------------------------------------------------------------------
(***************************************************************************)
(* The shared code of a room.  A text, and a packet that carries it, is of *)
(* the room it was written in; a result that is still awaited is of the    *)
(* room of its run, since leaving the room overtakes it.                   *)
(***************************************************************************)

CodePackets == [kind : {"delta", "sync", "run", "run_result"}, room : Rooms,
                doc : Code!Documents, run : 0..MaxRuns]
CodeLinks == [Coders -> [Coders -> Seq(CodePackets)]]

Written(text, r, eds) == text \in Code!Texts => text \in DOMAIN eds /\ eds[text] = r
RunIn(id, r, rns) == id \in DOMAIN rns /\ rns[id].room = r

Made(pkt, eds, rns) ==
    /\ Written(pkt.doc.text, pkt.room, eds)
    /\ pkt.kind \in {"run", "run_result"} => RunIn(pkt.run, pkt.room, rns)

CodeLinked(net, eds, rns) ==
    /\ net \in CodeLinks
    /\ \A a, b \in Coders : \A i \in 1..Len(net[a][b]) : Made(net[a][b][i], eds, rns)

CodeShape ==
    /\ codeRoom \in [Coders -> Rooms] /\ doc \in [Coders -> Code!Documents]
    /\ isRunning \in [Coders -> BOOLEAN] /\ result \in [Coders -> 0..MaxRuns]
    /\ expected \in [Coders -> [Coders -> 0..MaxRuns]]
    /\ runGeneration \in [Coders -> Nat]
    /\ returning \in [Coders -> SUBSET [id : Code!RunIds, generation : Nat]]
    /\ edits \in Seq(Rooms) /\ Len(edits) <= MaxEdits
    /\ runs \in Seq([by : Coders, room : Rooms]) /\ Len(runs) <= MaxRuns

Belongs ==
    \A a \in Coders :
        /\ Written(doc[a].text, codeRoom[a], edits)
        /\ result[a] # 0 => RunIn(result[a], codeRoom[a], runs)

Awaiting ==
    \A a \in Coders : \A run \in returning[a] :
        /\ run.id \in DOMAIN runs /\ run.generation <= runGeneration[a]
        /\ run.generation = runGeneration[a] => runs[run.id].room = codeRoom[a]

CodeInv == CodeShape /\ Belongs /\ Awaiting /\ CodeLinked(codeNetwork, edits, runs)

LEMMA CodeIsSafe == ASSUME CodeInv PROVE Code!TypeOK /\ Code!NoOtherRoom
<1>1. \A t \in DOMAIN edits : edits[t] \in Rooms  BY DEF CodeInv, CodeShape
<1>2. Code!TypeOK  BY <1>1 DEF CodeInv, CodeShape, Code!TypeOK
<1>3. Code!NoOtherRoom  BY DEF CodeInv, Belongs, Written, RunIn, Code!NoOtherRoom
<1> QED  BY <1>2, <1>3

\* A template is no text of anybody's, hence of every room.
LEMMA Templates ==
    ASSUME Code!CodeAssumption
    PROVE  /\ \A r, eds : \A lang \in Languages : Written(lang, r, eds)
           /\ Code!InitialCodeState \in Code!Documents
           /\ Code!InitialCodeState.text = Initial /\ Initial \in Languages
<1>1. \A lang \in Languages : lang \notin Code!Texts
  BY DEF Code!CodeAssumption, Code!Texts
<1>2. Code!InitialCodeState \in Code!Documents
  BY DEF Code!CodeAssumption, Code!InitialCodeState, Code!Documents
<1> QED  BY <1>1, <1>2 DEF Written, Code!CodeAssumption, Code!InitialCodeState

LEMMA CodeInit == ASSUME Code!CodeAssumption, Code!Init PROVE CodeInv
<1>1. MaxEdits \in Nat /\ MaxRuns \in Nat  BY DEF Code!CodeAssumption
<1>2. edits = <<>> /\ runs = <<>> /\ Len(<<>>) = 0  BY DEF Code!Init
<1>3. CodeShape  BY <1>1, <1>2, Templates DEF Code!Init, Code!CodeAssumption, CodeShape
<1>4. Belongs  BY Templates DEF Code!Init, Belongs
<1>5. Awaiting  BY DEF Code!Init, Awaiting
<1>6. CodeLinked(codeNetwork, edits, runs)
  <2>1. \A a, b \in Coders : codeNetwork[a][b] = <<>>  BY DEF Code!Init
  <2>2. <<>> \in Seq(CodePackets)  OBVIOUS
  <2>3. codeNetwork \in CodeLinks  BY <2>2 DEF Code!Init, CodeLinks
  <2> QED  BY <1>2, <2>1, <2>3 DEF CodeLinked
<1> QED  BY <1>3, <1>4, <1>5, <1>6 DEF CodeInv

-----------------------------------------------------------------------------
\* More is written and run, and what was stays.
Continues(eds, eds2, rns, rns2) ==
    /\ DOMAIN eds \subseteq DOMAIN eds2 /\ \A t \in DOMAIN eds : eds2[t] = eds[t]
    /\ DOMAIN rns \subseteq DOMAIN rns2 /\ \A id \in DOMAIN rns : rns2[id] = rns[id]

LEMMA StaysMade ==
    ASSUME NEW net, NEW eds, NEW rns, NEW eds2, NEW rns2,
           CodeLinked(net, eds, rns), Continues(eds, eds2, rns, rns2)
    PROVE  CodeLinked(net, eds2, rns2)
<1>1. ASSUME NEW pkt, Made(pkt, eds, rns) PROVE Made(pkt, eds2, rns2)
  BY <1>1 DEF Made, Written, RunIn, Continues
<1> QED  BY <1>1 DEF CodeLinked

LEMMA StillBelongs ==
    ASSUME Belongs, Continues(edits, edits', runs, runs'), UNCHANGED <<codeRoom, doc, result>>
    PROVE  Belongs'
BY DEF Belongs, Continues, Written, RunIn

LEMMA StaysAwaiting ==
    ASSUME Awaiting, Continues(edits, edits', runs, runs'),
           UNCHANGED <<codeRoom, runGeneration, returning>>
    PROVE  Awaiting'
BY DEF Awaiting, Continues

LEMMA Unwritten ==
    ASSUME UNCHANGED <<edits, runs>> PROVE Continues(edits, edits', runs, runs')
BY DEF Continues

\* A packet that goes to the others of the room.
LEMMA IsTold ==
    ASSUME NEW net, NEW eds, NEW rns, CodeLinked(net, eds, rns), NEW a \in Coders,
           NEW pkt \in CodePackets, Made(pkt, eds, rns)
    PROVE  CodeLinked(Code!Broadcast(net, a, pkt), eds, rns)
<1>1. PICK to : to = Code!Broadcast(net, a, pkt)  OBVIOUS
<1>2. net \in CodeLinks  BY DEF CodeLinked
<1>3. to = [net EXCEPT ![a] = [b \in Coders |->
               IF b # a /\ codeRoom[b] = codeRoom[a]
               THEN Append(net[a][b], pkt) ELSE net[a][b]]]
  BY <1>1 DEF Code!Broadcast
<1>4. \A c, b \in Coders : net[c][b] \in Seq(CodePackets)  BY <1>2 DEF CodeLinks
<1>5. ASSUME NEW b \in Coders
      PROVE  /\ to[a][b] \in Seq(CodePackets)
             /\ \A i \in 1..Len(to[a][b]) : Made(to[a][b][i], eds, rns)
  <2>1. PICK old : old = net[a][b]  OBVIOUS
  <2>2. old \in Seq(CodePackets) /\ \A i \in 1..Len(old) : Made(old[i], eds, rns)
    BY <1>4, <2>1 DEF CodeLinked
  <2>3. CASE b # a /\ codeRoom[b] = codeRoom[a]
    <3>1. to[a][b] = Append(old, pkt)  BY <1>2, <1>3, <2>1, <2>3 DEF CodeLinks
    <3>2. /\ Append(old, pkt) \in Seq(CodePackets) /\ Len(Append(old, pkt)) = Len(old) + 1
          /\ Len(old) \in Nat
          /\ \A i \in 1..Len(old) : Append(old, pkt)[i] = old[i]
          /\ Append(old, pkt)[Len(old) + 1] = pkt
      BY <2>2
    <3> QED  BY <2>2, <3>1, <3>2
  <2>4. CASE ~(b # a /\ codeRoom[b] = codeRoom[a])
    <3>1. to[a][b] = old  BY <1>2, <1>3, <2>1, <2>4 DEF CodeLinks
    <3> QED  BY <2>2, <3>1
  <2> QED  BY <2>3, <2>4
<1>6. \A c \in Coders \ {a} : to[c] = net[c]  BY <1>2, <1>3 DEF CodeLinks
<1>7. to \in CodeLinks
  <2>1. to[a] \in [Coders -> Seq(CodePackets)]
    <3>1. to[a] = [b \in Coders |->
               IF b # a /\ codeRoom[b] = codeRoom[a]
               THEN Append(net[a][b], pkt) ELSE net[a][b]]
      BY <1>2, <1>3 DEF CodeLinks
    <3> QED  BY <1>5, <3>1
  <2>2. to = [c \in Coders |-> to[c]]  BY <1>2, <1>3 DEF CodeLinks
  <2>3. \A c \in Coders : to[c] \in [Coders -> Seq(CodePackets)]
    BY <1>2, <1>6, <2>1 DEF CodeLinks
  <2> QED  BY <2>2, <2>3 DEF CodeLinks
<1>8. ASSUME NEW c \in Coders, NEW b \in Coders, NEW i \in 1..Len(to[c][b])
      PROVE  Made(to[c][b][i], eds, rns)
  <2>1. CASE c = a  BY <1>5, <1>8, <2>1
  <2>2. CASE c # a
    <3>1. to[c][b] = net[c][b]  BY <1>6, <2>2
    <3> QED  BY <1>8, <3>1 DEF CodeLinked
  <2> QED  BY <2>1, <2>2
<1>9. CodeLinked(to, eds, rns)  BY <1>7, <1>8 DEF CodeLinked
<1> QED  BY <1>1, <1>9

LEMMA IsRead ==
    ASSUME NEW eds, NEW rns, CodeLinked(codeNetwork, eds, rns), NEW a \in Coders,
           NEW b \in Coders, codeNetwork[b][a] # <<>>
    PROVE  /\ CodeLinked(Code!Taken(a, b), eds, rns)
           /\ Code!First(a, b) \in CodePackets /\ Made(Code!First(a, b), eds, rns)
<1>1. PICK net : net = Code!Taken(a, b)  OBVIOUS
<1>2. codeNetwork \in CodeLinks  BY DEF CodeLinked
<1>3. net = [codeNetwork EXCEPT ![b][a] = Tail(codeNetwork[b][a])]
  BY <1>1, <1>2 DEF Code!Taken, CodeLinks
<1>4. PICK old : old = codeNetwork[b][a]  OBVIOUS
<1>5. old \in Seq(CodePackets) /\ old # <<>> /\ \A i \in 1..Len(old) : Made(old[i], eds, rns)
  BY <1>2, <1>4 DEF CodeLinked, CodeLinks
<1>6. /\ Tail(old) \in Seq(CodePackets) /\ Len(Tail(old)) = Len(old) - 1 /\ Len(old) \in Nat
      /\ \A i \in 1..Len(old)-1 : Tail(old)[i] = old[i+1] /\ i + 1 \in 1..Len(old)
      /\ 1 \in 1..Len(old) /\ Head(old) = old[1] /\ old[1] \in CodePackets
  BY <1>5
<1>7. net \in CodeLinks
  <2>1. Tail(codeNetwork[b][a]) \in Seq(CodePackets)  BY <1>4, <1>6
  <2> QED  BY <1>2, <1>3, <2>1 DEF CodeLinks
<1>8. ASSUME NEW c \in Coders, NEW d \in Coders, NEW i \in 1..Len(net[c][d])
      PROVE  Made(net[c][d][i], eds, rns)
  <2>1. CASE c = b /\ d = a
    <3>1. net[c][d] = Tail(old)  BY <1>2, <1>3, <1>4, <2>1 DEF CodeLinks
    <3> QED  BY <1>5, <1>6, <1>8, <3>1
  <2>2. CASE ~(c = b /\ d = a)
    <3>1. net[c][d] = codeNetwork[c][d]  BY <1>2, <1>3, <2>2 DEF CodeLinks
    <3> QED  BY <1>8, <3>1 DEF CodeLinked
  <2> QED  BY <2>1, <2>2
<1>9. CodeLinked(net, eds, rns)  BY <1>7, <1>8 DEF CodeLinked
<1>10. Code!First(a, b) = old[1]  BY <1>4, <1>6 DEF Code!First
<1> QED  BY <1>1, <1>5, <1>6, <1>9, <1>10

\* The text of a, told to the others.
LEMMA TextIsTold ==
    ASSUME Code!CodeAssumption, NEW net, CodeLinked(net, edits', runs'), NEW a \in Coders,
           codeRoom[a] \in Rooms, NEW body \in Code!Documents,
           Written(body.text, codeRoom[a], edits'), NEW kind \in {"delta", "sync"}
    PROVE  CodeLinked(Code!Broadcast(net, a, Code!Packet(kind, a, body)), edits', runs')
<1>1. PICK pkt : pkt = Code!Packet(kind, a, body)  OBVIOUS
<1>2. /\ pkt \in CodePackets /\ pkt.kind = kind /\ pkt.room = codeRoom[a] /\ pkt.doc = body
  BY <1>1 DEF Code!Packet, CodePackets, Code!CodeAssumption
<1>3. Made(pkt, edits', runs')  BY <1>2 DEF Made
<1> QED  BY <1>1, <1>2, <1>3, IsTold

LEMMA RunIsTold ==
    ASSUME Code!CodeAssumption, CodeLinked(codeNetwork, edits', runs'), NEW a \in Coders,
           codeRoom[a] \in Rooms, NEW id \in 0..MaxRuns,
           RunIn(id, codeRoom[a], runs'), NEW kind \in {"run", "run_result"}
    PROVE  CodeLinked(Code!Broadcast(codeNetwork, a, Code!RunPacket(kind, a, id)), edits',
               runs')
<1>1. PICK pkt : pkt = Code!RunPacket(kind, a, id)  OBVIOUS
<1>2. /\ pkt \in CodePackets /\ pkt.kind = kind /\ pkt.room = codeRoom[a] /\ pkt.run = id
      /\ pkt.doc = Code!InitialCodeState
  BY <1>1, Templates DEF Code!RunPacket, CodePackets, Code!CodeAssumption
<1>3. Made(pkt, edits', runs')  BY <1>2, Templates DEF Made
<1> QED  BY <1>1, <1>2, <1>3, IsTold

-----------------------------------------------------------------------------
(* The operations *)

\* A text of a that is newer than what it had.
LEMMA NewText ==
    ASSUME CodeInv, NEW a \in Coders, NEW body \in Code!Documents,
           Written(body.text, codeRoom[a], edits'), doc' = [doc EXCEPT ![a] = body],
           Continues(edits, edits', runs, runs'), UNCHANGED <<codeRoom, result>>
    PROVE  doc' \in [Coders -> Code!Documents] /\ Belongs'
<1>1. doc \in [Coders -> Code!Documents] /\ Belongs  BY DEF CodeInv, CodeShape
<1>2. ASSUME NEW c \in Coders
      PROVE  /\ Written(doc'[c].text, codeRoom[c], edits')
             /\ result[c] # 0 => RunIn(result[c], codeRoom[c], runs')
  <2>1. result[c] # 0 => RunIn(result[c], codeRoom[c], runs')
    BY <1>1 DEF Belongs, RunIn, Continues
  <2>2. Written(doc'[c].text, codeRoom[c], edits')
    <3>1. CASE c = a  BY <1>1, <3>1
    <3>2. CASE c # a  BY <1>1, <3>2 DEF Belongs, Written, Continues
    <3> QED  BY <3>1, <3>2
  <2> QED  BY <2>1, <2>2
<1> QED  BY <1>1, <1>2 DEF Belongs

LEMMA UpdateStep ==
    ASSUME Code!CodeAssumption, CodeInv, NEW a \in Coders, Code!updateCode(a)
    PROVE  CodeInv'
<1>1. PICK body : body = Code!Newer(a, Len(edits'), doc[a].language)  OBVIOUS
<1>2. /\ Len(edits) < MaxEdits /\ edits' = Append(edits, codeRoom[a])
      /\ doc' = [doc EXCEPT ![a] = body]
      /\ codeNetwork' = Code!Broadcast(codeNetwork, a, Code!Packet("delta", a, doc'[a]))
      /\ UNCHANGED <<codeRoom, isRunning, result, expected, runGeneration, returning, runs>>
  BY <1>1 DEF Code!updateCode
<1>3. /\ CodeShape /\ CodeLinked(codeNetwork, edits, runs) /\ Awaiting
      /\ codeRoom[a] \in Rooms /\ edits \in Seq(Rooms) /\ doc[a] \in Code!Documents
      /\ MaxEdits \in Nat
  BY DEF CodeInv, CodeShape, Code!CodeAssumption
<1>4. /\ edits' \in Seq(Rooms) /\ Len(edits') = Len(edits) + 1 /\ Len(edits) \in Nat
      /\ DOMAIN edits = 1..Len(edits) /\ DOMAIN edits' = 1..Len(edits')
      /\ \A t \in 1..Len(edits) : edits'[t] = edits[t]
      /\ edits'[Len(edits')] = codeRoom[a]
  BY <1>2, <1>3
<1>5. Len(edits') <= MaxEdits /\ Len(edits') \in Code!Texts  BY <1>2, <1>3, <1>4 DEF Code!Texts
<1>6. Continues(edits, edits', runs, runs')  BY <1>2, <1>4 DEF Continues
<1>7. body \in Code!Documents /\ body.text = Len(edits')
  BY <1>1, <1>3, <1>5 DEF Code!Newer, Code!Documents
<1>8. Written(body.text, codeRoom[a], edits')  BY <1>4, <1>5, <1>7 DEF Written
<1>9. doc' \in [Coders -> Code!Documents] /\ Belongs'  BY <1>2, <1>6, <1>7, <1>8, NewText
<1>10. CodeShape'  BY <1>2, <1>3, <1>4, <1>5, <1>9 DEF CodeShape
<1>11. Awaiting'  BY <1>2, <1>3, <1>6, StaysAwaiting
<1>12. CodeLinked(codeNetwork, edits', runs')  BY <1>3, <1>6, StaysMade
<1>13. doc'[a] = body  BY <1>2, <1>3 DEF CodeShape
<1>14. CodeLinked(codeNetwork', edits', runs')
  BY <1>2, <1>3, <1>7, <1>8, <1>12, <1>13, TextIsTold
<1> QED  BY <1>9, <1>10, <1>11, <1>14 DEF CodeInv

LEMMA SetLanguageStep ==
    ASSUME Code!CodeAssumption, CodeInv, NEW a \in Coders, NEW lang \in Languages,
           NEW force \in BOOLEAN, Code!setLanguage(a, lang, force)
    PROVE  CodeInv'
<1>0. PICK text : text = IF doc[a].text = doc[a].language \/ force THEN lang ELSE doc[a].text
  OBVIOUS
<1>1. PICK body : body = Code!Newer(a, text, lang)  OBVIOUS
<1>2. /\ doc' = [doc EXCEPT ![a] = body]
      /\ codeNetwork' = Code!Broadcast(codeNetwork, a, Code!Packet("sync", a, doc'[a]))
      /\ UNCHANGED <<codeRoom, isRunning, result, expected, runGeneration, returning, edits,
             runs>>
  BY <1>0, <1>1 DEF Code!setLanguage
<1>3. /\ CodeShape /\ CodeLinked(codeNetwork, edits, runs) /\ Awaiting /\ Belongs
      /\ codeRoom[a] \in Rooms /\ doc[a] \in Code!Documents
  BY DEF CodeInv, CodeShape
<1>4. Continues(edits, edits', runs, runs')  BY <1>2, Unwritten
<1>5. text \in Code!Texts \cup Languages /\ Written(text, codeRoom[a], edits)
  <2>1. CASE text = lang  BY <2>1, Templates
  <2>2. CASE text = doc[a].text  BY <1>3, <2>2 DEF Belongs, Code!Documents
  <2> QED  BY <1>0, <2>1, <2>2
<1>6. body \in Code!Documents /\ body.text = text
  BY <1>1, <1>3, <1>5 DEF Code!Newer, Code!Documents
<1>7. doc' \in [Coders -> Code!Documents] /\ Belongs'  BY <1>2, <1>4, <1>5, <1>6, NewText
<1>8. CodeShape'  BY <1>2, <1>3, <1>7 DEF CodeShape
<1>9. Awaiting'  BY <1>2, <1>3, <1>4, StaysAwaiting
<1>10. CodeLinked(codeNetwork, edits', runs')  BY <1>2, <1>3
<1>11. doc'[a] = body  BY <1>2, <1>3 DEF CodeShape
<1>12. CodeLinked(codeNetwork', edits', runs')
  BY <1>2, <1>3, <1>5, <1>6, <1>10, <1>11, TextIsTold
<1> QED  BY <1>7, <1>8, <1>9, <1>12 DEF CodeInv

LEMMA EntersStep ==
    ASSUME Code!CodeAssumption, CodeInv, NEW a \in Coders, NEW r \in Rooms, Code!setRoom(a, r)
    PROVE  CodeInv'
<1>1. /\ codeRoom' = [codeRoom EXCEPT ![a] = r]
      /\ doc' = [doc EXCEPT ![a] = Code!InitialCodeState]
      /\ isRunning' = [isRunning EXCEPT ![a] = FALSE]
      /\ result' = [result EXCEPT ![a] = 0]
      /\ expected' = [expected EXCEPT ![a] = [b \in Coders |-> 0]]
      /\ runGeneration' = [runGeneration EXCEPT ![a] = runGeneration[a] + 1]
      /\ UNCHANGED <<returning, codeNetwork, edits, runs>>
  BY DEF Code!setRoom, Code!Entered
<1>2. CodeShape /\ CodeLinked(codeNetwork, edits, runs) /\ Awaiting /\ Belongs
  BY DEF CodeInv
<1>3. CodeShape'
  <2>1. MaxRuns \in Nat  BY DEF Code!CodeAssumption
  <2>2. expected' \in [Coders -> [Coders -> 0..MaxRuns]]  BY <1>1, <1>2, <2>1 DEF CodeShape
  <2> QED  BY <1>1, <1>2, <2>1, <2>2, Templates DEF CodeShape
<1>4. Belongs'
  <2>1. ASSUME NEW c \in Coders
        PROVE  /\ Written(doc'[c].text, codeRoom'[c], edits)
               /\ result'[c] # 0 => RunIn(result'[c], codeRoom'[c], runs)
    <3>1. CASE c = a
      <4>1. /\ doc'[c] = Code!InitialCodeState
            /\ result'[c] = 0  BY <1>1, <1>2, <3>1 DEF CodeShape
      <4> QED  BY <4>1, Templates
    <3>2. CASE c # a
      <4>1. doc'[c] = doc[c] /\ result'[c] = result[c] /\ codeRoom'[c] = codeRoom[c]
        BY <1>1, <1>2, <3>2 DEF CodeShape
      <4> QED  BY <1>2, <4>1 DEF Belongs
    <3> QED  BY <3>1, <3>2
  <2> QED  BY <1>1, <2>1 DEF Belongs
<1>5. Awaiting'
  <2>1. ASSUME NEW c \in Coders, NEW run \in returning[c]
        PROVE  /\ run.id \in DOMAIN runs /\ run.generation <= runGeneration'[c]
               /\ run.generation = runGeneration'[c] => runs[run.id].room = codeRoom'[c]
    <3>0. /\ run.id \in DOMAIN runs /\ run.generation <= runGeneration[c]
          /\ run.generation = runGeneration[c] => runs[run.id].room = codeRoom[c]
          /\ run.generation \in Nat /\ runGeneration[c] \in Nat
      BY <1>2, <2>1 DEF Awaiting, CodeShape
    <3>1. CASE c = a
      <4>1. runGeneration'[c] = runGeneration[c] + 1  BY <1>1, <1>2, <3>1 DEF CodeShape
      <4> QED  BY <3>0, <4>1
    <3>2. CASE c # a
      <4>1. runGeneration'[c] = runGeneration[c] /\ codeRoom'[c] = codeRoom[c]
        BY <1>1, <1>2, <3>2 DEF CodeShape
      <4> QED  BY <3>0, <4>1
    <3> QED  BY <3>1, <3>2
  <2> QED  BY <1>1, <2>1 DEF Awaiting
<1> QED  BY <1>1, <1>2, <1>3, <1>4, <1>5 DEF CodeInv

\* What receiving a packet may count on, and what it leaves alone.
LEMMA Received ==
    ASSUME CodeInv, NEW a \in Coders, NEW b \in Coders, NEW kind, Code!Receive(a, b, kind)
    PROVE  /\ Code!First(a, b) \in CodePackets /\ Code!First(a, b).kind = kind
           /\ Code!First(a, b).room = codeRoom[a] /\ Made(Code!First(a, b), edits, runs)
           /\ CodeLinked(Code!Taken(a, b), edits, runs)
           /\ UNCHANGED <<codeRoom, runGeneration, returning, edits, runs>>
           /\ CodeShape /\ Belongs /\ Awaiting' /\ Continues(edits, edits', runs, runs')
<1>1. codeNetwork[b][a] # <<>> /\ CodeLinked(codeNetwork, edits, runs)
  BY DEF Code!Receive, CodeInv
<1>2. UNCHANGED <<codeRoom, runGeneration, returning, edits, runs>>
  BY DEF Code!Receive
<1>3. Continues(edits, edits', runs, runs') /\ CodeShape /\ Belongs
  BY <1>2, Unwritten DEF CodeInv
<1>4. Awaiting'  BY <1>2, <1>3, StaysAwaiting DEF CodeInv
<1> QED  BY <1>1, <1>2, <1>3, <1>4, IsRead DEF Code!Receive

\* A text that came is of the room it came in; one that is behind is answered.
LEMMA TakesText ==
    ASSUME Code!CodeAssumption, CodeInv, NEW a \in Coders, NEW b \in Coders, NEW kind,
           Code!Receive(a, b, kind), NEW body \in Code!Documents,
           body.text \in {doc[a].text, Code!First(a, b).doc.text},
           doc' = [doc EXCEPT ![a] = body], UNCHANGED <<isRunning, result, expected>>,
           codeNetwork' \in {Code!Heal(a, b), Code!Taken(a, b)}
    PROVE  CodeInv'
<1>1. /\ Code!First(a, b).room = codeRoom[a] /\ Made(Code!First(a, b), edits, runs)
      /\ CodeLinked(Code!Taken(a, b), edits, runs)
      /\ UNCHANGED <<codeRoom, runGeneration, returning, edits, runs>>
      /\ CodeShape /\ Belongs /\ Awaiting' /\ Continues(edits, edits', runs, runs')
  BY Received
<1>2. Written(body.text, codeRoom[a], edits)  BY <1>1 DEF Made, Belongs
<1>3. doc' \in [Coders -> Code!Documents] /\ Belongs'  BY <1>1, <1>2, NewText
<1>4. CodeShape'  BY <1>1, <1>3 DEF CodeShape
<1>5. CodeLinked(codeNetwork', edits', runs')
  <2>1. CodeLinked(Code!Taken(a, b), edits', runs')  BY <1>1
  <2>2. /\ codeRoom[a] \in Rooms /\ doc[a] \in Code!Documents
        /\ Written(doc[a].text, codeRoom[a], edits')
    BY <1>1 DEF CodeShape, Belongs
  <2>3. CodeLinked(Code!Heal(a, b), edits', runs')
    BY <2>1, <2>2, TextIsTold DEF Code!Heal
  <2> QED  BY <2>1, <2>3
<1> QED  BY <1>1, <1>3, <1>4, <1>5 DEF CodeInv

LEMMA OnSyncStep ==
    ASSUME Code!CodeAssumption, CodeInv, NEW a \in Coders, NEW b \in Coders, Code!OnSync(a, b)
    PROVE  CodeInv'
<1>1. PICK theirs : theirs = Code!First(a, b).doc  OBVIOUS
<1>2. PICK body : body = IF theirs.version > doc[a].version THEN theirs ELSE doc[a]  OBVIOUS
<1>3. /\ Code!Receive(a, b, "sync") /\ doc' = [doc EXCEPT ![a] = body]
      /\ codeNetwork' \in {Code!Heal(a, b), Code!Taken(a, b)}
      /\ UNCHANGED <<isRunning, result, expected>>
  BY <1>1, <1>2 DEF Code!OnSync
<1>4. Code!First(a, b) \in CodePackets /\ doc[a] \in Code!Documents
  BY <1>3, Received DEF CodeShape
<1>5. theirs \in Code!Documents  BY <1>1, <1>4 DEF CodePackets
<1>6. body \in Code!Documents /\ body.text \in {doc[a].text, Code!First(a, b).doc.text}
  BY <1>1, <1>2, <1>4, <1>5
<1> QED  BY <1>3, <1>6, TakesText

LEMMA OnDeltaStep ==
    ASSUME Code!CodeAssumption, CodeInv, NEW a \in Coders, NEW b \in Coders, Code!OnDelta(a, b)
    PROVE  CodeInv'
<1>1. PICK theirs : theirs = Code!First(a, b).doc  OBVIOUS
<1>2. PICK body : body = doc'[a]  OBVIOUS
<1>3. /\ Code!Receive(a, b, "delta")
      /\ codeNetwork' \in {Code!Heal(a, b), Code!Taken(a, b)}
      /\ UNCHANGED <<isRunning, result, expected>>
  BY DEF Code!OnDelta
<1>4. Code!First(a, b) \in CodePackets /\ doc \in [Coders -> Code!Documents]
  BY <1>3, Received DEF CodeShape
<1>5. theirs \in Code!Documents  BY <1>1, <1>4 DEF CodePackets
<1>6. /\ body \in {theirs, [theirs EXCEPT !.version = theirs.version + 1], doc[a]}
      /\ doc' = [doc EXCEPT ![a] = body]
  BY <1>1, <1>2, <1>4 DEF Code!OnDelta
<1>7. body \in Code!Documents /\ body.text \in {doc[a].text, Code!First(a, b).doc.text}
  BY <1>1, <1>4, <1>5, <1>6 DEF Code!Documents
<1> QED  BY <1>3, <1>6, <1>7, TakesText

LEMMA PassedByStep ==
    ASSUME CodeInv, NEW a \in Coders, NEW b \in Coders, Code!Ignored(a, b)
    PROVE  CodeInv'
<1>1. /\ codeNetwork[b][a] # <<>> /\ codeNetwork' = Code!Taken(a, b)
      /\ UNCHANGED <<codeRoom, doc, isRunning, result, expected, runGeneration, returning,
                     edits, runs>>
  BY DEF Code!Ignored
<1>2. CodeLinked(codeNetwork', edits, runs)  BY <1>1, IsRead DEF CodeInv
<1> QED  BY <1>1, <1>2 DEF CodeInv, CodeShape, Belongs, Awaiting

LEMMA RunCodeStep ==
    ASSUME Code!CodeAssumption, CodeInv, NEW a \in Coders, Code!runCode(a)
    PROVE  CodeInv'
<1>1. PICK id : id = Len(runs')  OBVIOUS
<1>2. PICK new : new = [id |-> id, generation |-> runGeneration'[a]]  OBVIOUS
<1>3. /\ Len(runs) < MaxRuns /\ runs' = Append(runs, [by |-> a, room |-> codeRoom[a]])
      /\ runGeneration' = [runGeneration EXCEPT ![a] = runGeneration[a] + 1]
      /\ returning' = [returning EXCEPT ![a] = returning[a] \cup {new}]
      /\ isRunning' = [isRunning EXCEPT ![a] = TRUE]
      /\ codeNetwork' = Code!Broadcast(codeNetwork, a, Code!RunPacket("run", a, id))
      /\ UNCHANGED <<codeRoom, doc, result, expected, edits>>
  BY <1>1, <1>2 DEF Code!runCode
<1>4. /\ CodeShape /\ CodeLinked(codeNetwork, edits, runs) /\ Awaiting /\ Belongs
      /\ codeRoom[a] \in Rooms /\ MaxRuns \in Nat
      /\ runs \in Seq([by : Coders, room : Rooms])
  BY DEF CodeInv, CodeShape, Code!CodeAssumption
<1>5. /\ runs' \in Seq([by : Coders, room : Rooms]) /\ id = Len(runs) + 1 /\ Len(runs) \in Nat
      /\ DOMAIN runs = 1..Len(runs) /\ DOMAIN runs' = 1..id
      /\ \A i \in 1..Len(runs) : runs'[i] = runs[i]
      /\ runs'[id].room = codeRoom[a]
  BY <1>1, <1>3, <1>4
<1>6. id <= MaxRuns /\ id \in Code!RunIds /\ id \in 0..MaxRuns
  BY <1>3, <1>4, <1>5 DEF Code!RunIds
<1>7. Continues(edits, edits', runs, runs')  BY <1>3, <1>5 DEF Continues
<1>8. /\ runGeneration' \in [Coders -> Nat] /\ runGeneration'[a] = runGeneration[a] + 1
      /\ \A c \in Coders \ {a} : runGeneration'[c] = runGeneration[c]
  BY <1>3, <1>4 DEF CodeShape
<1>9. /\ returning' \in [Coders -> SUBSET [id : Code!RunIds, generation : Nat]]
      /\ returning'[a] = returning[a] \cup {new}
      /\ \A c \in Coders \ {a} : returning'[c] = returning[c]
      /\ new.id = id /\ new.generation = runGeneration[a] + 1
  BY <1>2, <1>3, <1>4, <1>6, <1>8 DEF CodeShape
<1>10. CodeShape'  BY <1>1, <1>3, <1>4, <1>5, <1>6, <1>8, <1>9 DEF CodeShape
<1>11. Belongs'  BY <1>3, <1>4, <1>7, StillBelongs
<1>12. Awaiting'
  <2>1. ASSUME NEW c \in Coders, NEW run \in returning'[c]
        PROVE  /\ run.id \in DOMAIN runs' /\ run.generation <= runGeneration'[c]
               /\ run.generation = runGeneration'[c] => runs'[run.id].room = codeRoom[c]
    <3>1. CASE c = a /\ run = new
      <4>1. runGeneration[a] \in Nat /\ id \in 1..id  BY <1>4, <1>5 DEF CodeShape
      <4> QED  BY <1>5, <1>8, <1>9, <3>1, <4>1
    <3>2. CASE run \in returning[c]
      <4>1. /\ run.id \in DOMAIN runs /\ run.generation <= runGeneration[c]
            /\ run.generation = runGeneration[c] => runs[run.id].room = codeRoom[c]
            /\ run.generation \in Nat /\ runGeneration[c] \in Nat
        BY <1>4, <3>2 DEF Awaiting, CodeShape
      <4>2. run.id \in DOMAIN runs' /\ runs'[run.id] = runs[run.id]
        BY <1>7, <4>1 DEF Continues
      <4>3. runGeneration'[c] = runGeneration[c] \/ runGeneration'[c] = runGeneration[c] + 1
        BY <1>8
      <4>4. CASE c = a  BY <1>8, <4>1, <4>2, <4>4
      <4>5. CASE c # a  BY <1>8, <4>1, <4>2, <4>5
      <4> QED  BY <4>4, <4>5
    <3> QED  BY <1>9, <2>1, <3>1, <3>2
  <2> QED  BY <1>3, <2>1 DEF Awaiting
<1>13. CodeLinked(codeNetwork, edits', runs')  BY <1>4, <1>7, StaysMade
<1>14. RunIn(id, codeRoom[a], runs')
  <2>1. id \in 1..id  BY <1>5
  <2> QED  BY <1>5, <2>1 DEF RunIn
<1>15. CodeLinked(codeNetwork', edits', runs')
  BY <1>3, <1>4, <1>6, <1>13, <1>14, RunIsTold
<1> QED  BY <1>10, <1>11, <1>12, <1>15 DEF CodeInv

LEMMA ReturnsStep ==
    ASSUME Code!CodeAssumption, CodeInv, NEW a \in Coders, NEW run, Code!RunReturns(a, run)
    PROVE  CodeInv'
<1>1. /\ run \in returning[a] /\ returning' = [returning EXCEPT ![a] = returning[a] \ {run}]
      /\ UNCHANGED <<codeRoom, doc, expected, runGeneration, edits, runs>>
  BY DEF Code!RunReturns
<1>2. /\ CodeShape /\ CodeLinked(codeNetwork, edits, runs) /\ Awaiting /\ Belongs
      /\ codeRoom[a] \in Rooms
  BY DEF CodeInv, CodeShape
<1>3. /\ returning' \in [Coders -> SUBSET [id : Code!RunIds, generation : Nat]]
      /\ \A c \in Coders : returning'[c] \subseteq returning[c]
  BY <1>1, <1>2 DEF CodeShape
<1>4. Awaiting'  BY <1>1, <1>2, <1>3 DEF Awaiting
<1>5. CASE Code!Overtaken(a, run)
  <2>1. UNCHANGED <<isRunning, result, codeNetwork>>  BY <1>5 DEF Code!RunReturns
  <2> QED  BY <1>1, <1>2, <1>3, <1>4, <2>1 DEF CodeInv, CodeShape, Belongs
<1>6. CASE ~Code!Overtaken(a, run)
  <2>1. /\ isRunning' = [isRunning EXCEPT ![a] = FALSE]
        /\ result' = [result EXCEPT ![a] = run.id]
        /\ codeNetwork' =
               Code!Broadcast(codeNetwork, a, Code!RunPacket("run_result", a, run.id))
    BY <1>6 DEF Code!RunReturns
  <2>2. RunIn(run.id, codeRoom[a], runs)
    BY <1>1, <1>2, <1>6 DEF Awaiting, RunIn, Code!Overtaken
  <2>3. run.id \in 0..MaxRuns
    <3>1. run.id \in 1..MaxRuns /\ MaxRuns \in Nat
      BY <1>1, <1>2 DEF CodeShape, Code!RunIds, Code!CodeAssumption
    <3> QED  BY <3>1
  <2>4. CodeShape'  BY <1>1, <1>2, <1>3, <2>1, <2>3 DEF CodeShape
  <2>5. Belongs'
    <3>1. /\ result'[a] = run.id
          /\ \A c \in Coders \ {a} : result'[c] = result[c]
      BY <1>2, <2>1 DEF CodeShape
    <3> QED  BY <1>1, <1>2, <2>2, <3>1 DEF Belongs
  <2>6. CodeLinked(codeNetwork', edits', runs')  BY <1>1, <1>2, <2>1, <2>2, <2>3, RunIsTold
  <2> QED  BY <1>4, <2>4, <2>5, <2>6 DEF CodeInv
<1> QED  BY <1>5, <1>6

LEMMA OnRunStep ==
    ASSUME CodeInv, NEW a \in Coders, NEW b \in Coders, Code!OnRun(a, b)
    PROVE  CodeInv'
<1>1. PICK id : id = Code!First(a, b).run  OBVIOUS
<1>2. /\ Code!Receive(a, b, "run") /\ codeNetwork' = Code!Taken(a, b)
      /\ expected' = [expected EXCEPT ![a][b] = id]
      /\ isRunning' = [isRunning EXCEPT ![a] = TRUE]
      /\ UNCHANGED <<doc, result>>
  BY <1>1 DEF Code!OnRun, Code!Awaited
<1>3. /\ Code!First(a, b) \in CodePackets
      /\ CodeLinked(Code!Taken(a, b), edits, runs)
      /\ UNCHANGED <<codeRoom, runGeneration, returning, edits, runs>>
      /\ CodeShape /\ Belongs /\ Awaiting' /\ Continues(edits, edits', runs, runs')
  BY <1>2, Received
<1>4. id \in 0..MaxRuns  BY <1>1, <1>3 DEF CodePackets
<1>5. expected' \in [Coders -> [Coders -> 0..MaxRuns]]  BY <1>2, <1>3, <1>4 DEF CodeShape
<1>6. CodeShape'  BY <1>2, <1>3, <1>5 DEF CodeShape
<1> QED  BY <1>2, <1>3, <1>6, StillBelongs DEF CodeInv

LEMMA OnRunResultStep ==
    ASSUME Code!CodeAssumption, CodeInv, NEW a \in Coders, NEW b \in Coders,
           Code!OnRunResult(a, b)
    PROVE  CodeInv'
<1>1. PICK id : id = Code!First(a, b).run  OBVIOUS
<1>2. Code!Receive(a, b, "run_result") /\ codeNetwork' = Code!Taken(a, b) /\ UNCHANGED doc
  BY DEF Code!OnRunResult
<1>3. /\ Code!First(a, b) \in CodePackets /\ Code!First(a, b).kind = "run_result"
      /\ Code!First(a, b).room = codeRoom[a] /\ Made(Code!First(a, b), edits, runs)
      /\ CodeLinked(Code!Taken(a, b), edits, runs)
      /\ UNCHANGED <<codeRoom, runGeneration, returning, edits, runs>>
      /\ CodeShape /\ Belongs /\ Awaiting' /\ Continues(edits, edits', runs, runs')
  BY <1>2, Received
<1>4. id \in 0..MaxRuns /\ RunIn(id, codeRoom[a], runs)
  BY <1>1, <1>3 DEF CodePackets, Made
<1>5. CASE Code!Unexpected(a, b, id)
  <2>1. UNCHANGED <<isRunning, result, expected>>  BY <1>1, <1>5 DEF Code!OnRunResult
  <2>2. CodeShape'  BY <1>2, <1>3, <2>1 DEF CodeShape
  <2> QED  BY <1>2, <1>3, <2>1, <2>2, StillBelongs DEF CodeInv
<1>6. CASE ~Code!Unexpected(a, b, id)
  <2>1. /\ expected' = [expected EXCEPT ![a][b] = 0]
        /\ isRunning' = [isRunning EXCEPT ![a] = FALSE]
        /\ result' = [result EXCEPT ![a] = id]
    BY <1>1, <1>6 DEF Code!OnRunResult
  <2>2. 0 \in 0..MaxRuns  BY DEF Code!CodeAssumption
  <2>3. expected' \in [Coders -> [Coders -> 0..MaxRuns]]  BY <1>3, <2>1, <2>2 DEF CodeShape
  <2>4. CodeShape'  BY <1>2, <1>3, <1>4, <2>1, <2>3 DEF CodeShape
  <2>5. Belongs'
    <3>1. /\ result'[a] = id
          /\ \A c \in Coders \ {a} : result'[c] = result[c]
      BY <1>3, <2>1 DEF CodeShape
    <3> QED  BY <1>2, <1>3, <1>4, <3>1 DEF Belongs
  <2> QED  BY <1>2, <1>3, <2>4, <2>5 DEF CodeInv
<1> QED  BY <1>5, <1>6

LEMMA CodeStep ==
    ASSUME Code!CodeAssumption, CodeInv, [Code!Next]_(Code!vars)
    PROVE  CodeInv'
<1>1. CASE UNCHANGED Code!vars
  <2>1. UNCHANGED <<codeRoom, doc, isRunning, result, expected, runGeneration, returning,
                    codeNetwork, edits, runs>>
    BY <1>1 DEF Code!vars
  <2> QED  BY <2>1 DEF CodeInv, CodeShape, Belongs, Awaiting
<1>2. CASE Code!Next
  <2>1. ASSUME NEW a \in Coders, NEW b \in Coders, Code!Deliver(a, b) PROVE CodeInv'
    BY <2>1, OnSyncStep, OnDeltaStep, OnRunStep, OnRunResultStep, PassedByStep DEF Code!Deliver
  <2> QED  BY <1>2, <2>1, UpdateStep, RunCodeStep, SetLanguageStep, EntersStep, ReturnsStep
           DEF Code!Next
<1> QED  BY <1>1, <1>2

-----------------------------------------------------------------------------
(***************************************************************************)
(* The whiteboards of one user: what BoardSurfacesProofs shows of any      *)
(* surfaces, here for a page and a panel, a panel that changes rooms, and  *)
(* two windows.  The instances of the model and of the proofs say the same.*)
(***************************************************************************)

OnPageP == INSTANCE BoardSurfacesProofs WITH
    Services <- {panel}, Widgets <- {w1}, Drawers <- {w1}, FirstMode <- "personal",
    Home <- Lobby, MaxStrokes <- 2, MaxActs <- 2, MaxMoves <- 0,
    room <- boardRoom, generation <- boardGeneration, loads <- boardLoads, stored <- boards,
    changes <- boardChanges, acts <- boardActs, moves <- boardMoves

InRoomsP == INSTANCE BoardSurfacesProofs WITH
    Services <- {panel}, Widgets <- {}, Drawers <- {panel}, FirstMode <- "collaborative",
    Home <- Lobby, MaxStrokes <- 2, MaxActs <- 1, MaxMoves <- 2,
    room <- boardRoom, generation <- boardGeneration, loads <- boardLoads, stored <- boards,
    changes <- boardChanges, acts <- boardActs, moves <- boardMoves

TwoWindowsP == INSTANCE BoardSurfacesProofs WITH
    Services <- {panel, popup}, Widgets <- {}, Drawers <- {panel, popup},
    FirstMode <- "collaborative",
    Home <- Lobby, MaxStrokes <- 2, MaxActs <- 0, MaxMoves <- 0,
    room <- boardRoom, generation <- boardGeneration, loads <- boardLoads, stored <- boards,
    changes <- boardChanges, acts <- boardActs, moves <- boardMoves

LEMMA SameOnPage ==
    /\ OnPage!Init <=> OnPageP!Init
    /\ OnPage!Next <=> OnPageP!Next
    /\ OnPageP!vars = boardVars /\ OnPage!vars = boardVars
    /\ OnPage!SurfacesAssumption => OnPageP!SurfacesAssumption
    /\ OnPageP!TypeOK => OnPage!TypeOK
    /\ OnPageP!OfItsRoom => OnPage!OfItsRoom
    /\ OnPageP!DrawnIsPublished => OnPage!DrawnIsPublished
    /\ OnPageP!PersonalStaysPrivate => OnPage!PersonalStaysPrivate
<1>1. OnPage!Next <=> OnPageP!Next
  BY DEF OnPage!Surfaces, OnPageP!Surfaces, OnPage!Modes, OnPageP!Modes,
         OnPage!Personal, OnPageP!Personal, OnPage!Blank, OnPageP!Blank, OnPage!Strokes,
         OnPageP!Strokes, OnPage!Keys, OnPageP!Keys, OnPage!RoomOf, OnPageP!RoomOf,
         OnPage!Tell, OnPageP!Tell, OnPage!ModeOf, OnPageP!ModeOf, OnPage!KeyOf,
         OnPageP!KeyOf, OnPage!Waiting, OnPageP!Waiting, OnPage!write, OnPageP!write,
         OnPage!save, OnPageP!save, OnPage!broadcastLocal, OnPageP!broadcastLocal,
         OnPage!broadcastRuntime, OnPageP!broadcastRuntime, OnPage!Put, OnPageP!Put,
         OnPage!Take, OnPageP!Take, OnPage!Wipe, OnPageP!Wipe, OnPage!Changed,
         OnPageP!Changed, OnPage!Publish, OnPageP!Publish, OnPage!Tells, OnPageP!Tells,
         OnPage!edit, OnPageP!edit, OnPage!Act, OnPageP!Act, OnPage!addStroke,
         OnPageP!addStroke, OnPage!deleteStroke, OnPageP!deleteStroke, OnPage!RedoStack,
         OnPageP!RedoStack, OnPage!redo, OnPageP!redo, OnPage!clearAll,
         OnPageP!clearAll, OnPage!Saved, OnPageP!Saved, OnPage!setPrivacyMode,
         OnPageP!setPrivacyMode, OnPage!First, OnPageP!First, OnPage!Taken,
         OnPageP!Taken, OnPage!OnBus, OnPageP!OnBus, OnPage!StrokeToPublish,
         OnPageP!StrokeToPublish, OnPage!OnRuntimeService, OnPageP!OnRuntimeService,
         OnPage!OnRuntimeWidget, OnPageP!OnRuntimeWidget, OnPage!Concerns,
         OnPageP!Concerns, OnPage!OwnWrite, OnPageP!OwnWrite, OnPage!OnChange,
         OnPageP!OnChange, OnPage!RemoteStroke, OnPageP!RemoteStroke, OnPage!setRoom,
         OnPageP!setRoom, OnPage!IsCurrentRoom, OnPageP!IsCurrentRoom,
         OnPage!mergeNotebooks, OnPageP!mergeNotebooks, OnPage!Hydrate, OnPageP!Hydrate,
         OnPage!Next, OnPageP!Next, OnPage!vars, OnPageP!vars, OnPage!SetToSeq,
         OnPageP!SetToSeq, OnPage!Last, OnPageP!Last, OnPage!Front, OnPageP!Front,
         OnPage!RemoveAt, OnPageP!RemoveAt, OnPage!SelectInSeq, OnPageP!SelectInSeq,
         OnPage!Cardinality, OnPageP!Cardinality, OnPage!IsInjective,
         OnPageP!IsInjective, OnPage!Min, OnPageP!Min
<1>2. OnPage!Init <=> OnPageP!Init
  BY DEF OnPage!Init, OnPageP!Init, OnPage!Empty, OnPageP!Empty, OnPage!Surfaces,
         OnPageP!Surfaces, OnPage!Modes, OnPageP!Modes, OnPage!Keys, OnPageP!Keys,
         OnPage!Personal, OnPageP!Personal, OnPage!Blank, OnPageP!Blank
<1>3. OnPageP!vars = boardVars /\ OnPage!vars = boardVars
  BY DEF OnPage!vars, OnPageP!vars, boardVars
<1>4. OnPage!SurfacesAssumption => OnPageP!SurfacesAssumption
  BY DEF OnPage!SurfacesAssumption, OnPageP!SurfacesAssumption, OnPage!Modes, OnPageP!Modes,
         OnPage!Personal, OnPageP!Personal
<1>5. OnPageP!TypeOK => OnPage!TypeOK
  BY DEF OnPage!TypeOK, OnPageP!TypeOK, OnPage!Notebook, OnPageP!Notebook, OnPage!Surfaces,
         OnPageP!Surfaces, OnPage!Modes, OnPageP!Modes, OnPage!Keys, OnPageP!Keys,
         OnPage!Personal, OnPageP!Personal, OnPage!Strokes, OnPageP!Strokes
<1>6. OnPageP!OfItsRoom => OnPage!OfItsRoom
  BY DEF OnPage!OfItsRoom, OnPageP!OfItsRoom
<1>7. OnPageP!DrawnIsPublished => OnPage!DrawnIsPublished
  BY DEF OnPage!DrawnIsPublished, OnPageP!DrawnIsPublished, OnPage!Quiet, OnPageP!Quiet,
         OnPage!Surfaces, OnPageP!Surfaces
<1>8. OnPageP!PersonalStaysPrivate => OnPage!PersonalStaysPrivate
  BY DEF OnPage!PersonalStaysPrivate, OnPageP!PersonalStaysPrivate, OnPage!Personal,
         OnPageP!Personal
<1> QED BY <1>1, <1>2, <1>3, <1>4, <1>5, <1>6, <1>7, <1>8

LEMMA SameInRooms ==
    /\ InRooms!Init <=> InRoomsP!Init
    /\ InRooms!Next <=> InRoomsP!Next
    /\ InRoomsP!vars = boardVars /\ InRooms!vars = boardVars
    /\ InRooms!SurfacesAssumption => InRoomsP!SurfacesAssumption
    /\ InRoomsP!TypeOK => InRooms!TypeOK
    /\ InRoomsP!OfItsRoom => InRooms!OfItsRoom
    /\ InRoomsP!StoredKept => InRooms!StoredKept
<1>1. InRooms!Next <=> InRoomsP!Next
  BY DEF InRooms!Surfaces, InRoomsP!Surfaces, InRooms!Modes, InRoomsP!Modes,
         InRooms!Personal, InRoomsP!Personal, InRooms!Blank, InRoomsP!Blank,
         InRooms!Strokes, InRoomsP!Strokes, InRooms!Keys, InRoomsP!Keys, InRooms!RoomOf,
         InRoomsP!RoomOf, InRooms!Tell, InRoomsP!Tell, InRooms!ModeOf, InRoomsP!ModeOf,
         InRooms!KeyOf, InRoomsP!KeyOf, InRooms!Waiting, InRoomsP!Waiting,
         InRooms!write, InRoomsP!write, InRooms!save, InRoomsP!save,
         InRooms!broadcastLocal, InRoomsP!broadcastLocal, InRooms!broadcastRuntime,
         InRoomsP!broadcastRuntime, InRooms!Put, InRoomsP!Put, InRooms!Take,
         InRoomsP!Take, InRooms!Wipe, InRoomsP!Wipe, InRooms!Changed, InRoomsP!Changed,
         InRooms!Publish, InRoomsP!Publish, InRooms!Tells, InRoomsP!Tells, InRooms!edit,
         InRoomsP!edit, InRooms!Act, InRoomsP!Act, InRooms!addStroke,
         InRoomsP!addStroke, InRooms!deleteStroke, InRoomsP!deleteStroke,
         InRooms!RedoStack, InRoomsP!RedoStack, InRooms!redo, InRoomsP!redo,
         InRooms!clearAll, InRoomsP!clearAll, InRooms!Saved, InRoomsP!Saved,
         InRooms!setPrivacyMode, InRoomsP!setPrivacyMode, InRooms!First, InRoomsP!First,
         InRooms!Taken, InRoomsP!Taken, InRooms!OnBus, InRoomsP!OnBus,
         InRooms!StrokeToPublish, InRoomsP!StrokeToPublish, InRooms!OnRuntimeService,
         InRoomsP!OnRuntimeService, InRooms!OnRuntimeWidget, InRoomsP!OnRuntimeWidget,
         InRooms!Concerns, InRoomsP!Concerns, InRooms!OwnWrite, InRoomsP!OwnWrite,
         InRooms!OnChange, InRoomsP!OnChange, InRooms!RemoteStroke,
         InRoomsP!RemoteStroke, InRooms!setRoom, InRoomsP!setRoom,
         InRooms!IsCurrentRoom, InRoomsP!IsCurrentRoom, InRooms!mergeNotebooks,
         InRoomsP!mergeNotebooks, InRooms!Hydrate, InRoomsP!Hydrate, InRooms!Next,
         InRoomsP!Next, InRooms!vars, InRoomsP!vars, InRooms!SetToSeq,
         InRoomsP!SetToSeq, InRooms!Last, InRoomsP!Last, InRooms!Front, InRoomsP!Front,
         InRooms!RemoveAt, InRoomsP!RemoveAt, InRooms!SelectInSeq, InRoomsP!SelectInSeq,
         InRooms!Cardinality, InRoomsP!Cardinality, InRooms!IsInjective,
         InRoomsP!IsInjective, InRooms!Min, InRoomsP!Min
<1>2. InRooms!Init <=> InRoomsP!Init
  BY DEF InRooms!Init, InRoomsP!Init, InRooms!Empty, InRoomsP!Empty, InRooms!Surfaces,
         InRoomsP!Surfaces, InRooms!Modes, InRoomsP!Modes, InRooms!Keys, InRoomsP!Keys,
         InRooms!Personal, InRoomsP!Personal, InRooms!Blank, InRoomsP!Blank
<1>3. InRoomsP!vars = boardVars /\ InRooms!vars = boardVars
  BY DEF InRooms!vars, InRoomsP!vars, boardVars
<1>4. InRooms!SurfacesAssumption => InRoomsP!SurfacesAssumption
  BY DEF InRooms!SurfacesAssumption, InRoomsP!SurfacesAssumption, InRooms!Modes,
         InRoomsP!Modes, InRooms!Personal, InRoomsP!Personal
<1>5. InRoomsP!TypeOK => InRooms!TypeOK
  BY DEF InRooms!TypeOK, InRoomsP!TypeOK, InRooms!Notebook, InRoomsP!Notebook,
         InRooms!Surfaces, InRoomsP!Surfaces, InRooms!Modes, InRoomsP!Modes, InRooms!Keys,
         InRoomsP!Keys, InRooms!Personal, InRoomsP!Personal, InRooms!Strokes,
         InRoomsP!Strokes
<1>6. InRoomsP!OfItsRoom => InRooms!OfItsRoom
  BY DEF InRooms!OfItsRoom, InRoomsP!OfItsRoom
<1>7. InRoomsP!StoredKept => InRooms!StoredKept
  BY DEF InRooms!StoredKept, InRoomsP!StoredKept
<1> QED BY <1>1, <1>2, <1>3, <1>4, <1>5, <1>6, <1>7

LEMMA SameTwoWindows ==
    /\ TwoWindows!Init <=> TwoWindowsP!Init
    /\ TwoWindows!Next <=> TwoWindowsP!Next
    /\ TwoWindowsP!vars = boardVars /\ TwoWindows!vars = boardVars
    /\ TwoWindows!SurfacesAssumption => TwoWindowsP!SurfacesAssumption
    /\ TwoWindowsP!TypeOK => TwoWindows!TypeOK
    /\ TwoWindowsP!DrawnIsPublished => TwoWindows!DrawnIsPublished
<1>1. TwoWindows!Next <=> TwoWindowsP!Next
  BY DEF TwoWindows!Surfaces, TwoWindowsP!Surfaces, TwoWindows!Modes, TwoWindowsP!Modes,
         TwoWindows!Personal, TwoWindowsP!Personal, TwoWindows!Blank, TwoWindowsP!Blank,
         TwoWindows!Strokes, TwoWindowsP!Strokes, TwoWindows!Keys, TwoWindowsP!Keys,
         TwoWindows!RoomOf, TwoWindowsP!RoomOf, TwoWindows!Tell, TwoWindowsP!Tell,
         TwoWindows!ModeOf, TwoWindowsP!ModeOf, TwoWindows!KeyOf, TwoWindowsP!KeyOf,
         TwoWindows!Waiting, TwoWindowsP!Waiting, TwoWindows!write, TwoWindowsP!write,
         TwoWindows!save, TwoWindowsP!save, TwoWindows!broadcastLocal,
         TwoWindowsP!broadcastLocal, TwoWindows!broadcastRuntime,
         TwoWindowsP!broadcastRuntime, TwoWindows!Put, TwoWindowsP!Put, TwoWindows!Take,
         TwoWindowsP!Take, TwoWindows!Wipe, TwoWindowsP!Wipe, TwoWindows!Changed,
         TwoWindowsP!Changed, TwoWindows!Publish, TwoWindowsP!Publish, TwoWindows!Tells,
         TwoWindowsP!Tells, TwoWindows!edit, TwoWindowsP!edit, TwoWindows!Act,
         TwoWindowsP!Act, TwoWindows!addStroke, TwoWindowsP!addStroke,
         TwoWindows!deleteStroke, TwoWindowsP!deleteStroke, TwoWindows!RedoStack,
         TwoWindowsP!RedoStack, TwoWindows!redo, TwoWindowsP!redo, TwoWindows!clearAll,
         TwoWindowsP!clearAll, TwoWindows!Saved, TwoWindowsP!Saved,
         TwoWindows!setPrivacyMode, TwoWindowsP!setPrivacyMode, TwoWindows!First,
         TwoWindowsP!First, TwoWindows!Taken, TwoWindowsP!Taken, TwoWindows!OnBus,
         TwoWindowsP!OnBus, TwoWindows!StrokeToPublish, TwoWindowsP!StrokeToPublish,
         TwoWindows!OnRuntimeService, TwoWindowsP!OnRuntimeService,
         TwoWindows!OnRuntimeWidget, TwoWindowsP!OnRuntimeWidget, TwoWindows!Concerns,
         TwoWindowsP!Concerns, TwoWindows!OwnWrite, TwoWindowsP!OwnWrite,
         TwoWindows!OnChange, TwoWindowsP!OnChange, TwoWindows!RemoteStroke,
         TwoWindowsP!RemoteStroke, TwoWindows!setRoom, TwoWindowsP!setRoom,
         TwoWindows!IsCurrentRoom, TwoWindowsP!IsCurrentRoom, TwoWindows!mergeNotebooks,
         TwoWindowsP!mergeNotebooks, TwoWindows!Hydrate, TwoWindowsP!Hydrate,
         TwoWindows!Next, TwoWindowsP!Next, TwoWindows!vars, TwoWindowsP!vars,
         TwoWindows!SetToSeq, TwoWindowsP!SetToSeq, TwoWindows!Last, TwoWindowsP!Last,
         TwoWindows!Front, TwoWindowsP!Front, TwoWindows!RemoveAt, TwoWindowsP!RemoveAt,
         TwoWindows!SelectInSeq, TwoWindowsP!SelectInSeq, TwoWindows!Cardinality,
         TwoWindowsP!Cardinality, TwoWindows!IsInjective, TwoWindowsP!IsInjective,
         TwoWindows!Min, TwoWindowsP!Min
<1>2. TwoWindows!Init <=> TwoWindowsP!Init
  BY DEF TwoWindows!Init, TwoWindowsP!Init, TwoWindows!Empty, TwoWindowsP!Empty,
         TwoWindows!Surfaces, TwoWindowsP!Surfaces, TwoWindows!Modes, TwoWindowsP!Modes,
         TwoWindows!Keys, TwoWindowsP!Keys, TwoWindows!Personal, TwoWindowsP!Personal,
         TwoWindows!Blank, TwoWindowsP!Blank
<1>3. TwoWindowsP!vars = boardVars /\ TwoWindows!vars = boardVars
  BY DEF TwoWindows!vars, TwoWindowsP!vars, boardVars
<1>4. TwoWindows!SurfacesAssumption => TwoWindowsP!SurfacesAssumption
  BY DEF TwoWindows!SurfacesAssumption, TwoWindowsP!SurfacesAssumption, TwoWindows!Modes,
         TwoWindowsP!Modes, TwoWindows!Personal, TwoWindowsP!Personal
<1>5. TwoWindowsP!TypeOK => TwoWindows!TypeOK
  BY DEF TwoWindows!TypeOK, TwoWindowsP!TypeOK, TwoWindows!Notebook, TwoWindowsP!Notebook,
         TwoWindows!Surfaces, TwoWindowsP!Surfaces, TwoWindows!Modes, TwoWindowsP!Modes,
         TwoWindows!Keys, TwoWindowsP!Keys, TwoWindows!Personal, TwoWindowsP!Personal,
         TwoWindows!Strokes, TwoWindowsP!Strokes
<1>6. TwoWindowsP!DrawnIsPublished => TwoWindows!DrawnIsPublished
  BY DEF TwoWindows!DrawnIsPublished, TwoWindowsP!DrawnIsPublished, TwoWindows!Quiet,
         TwoWindowsP!Quiet, TwoWindows!Surfaces, TwoWindowsP!Surfaces
<1> QED BY <1>1, <1>2, <1>3, <1>4, <1>5, <1>6


PageInv ==
    /\ OnPageP!Sorted(OnPageP!Anywhere)
    /\ OnPageP!Sorted(OnPageP!OfMode(drawn)) /\ OnPageP!Sorted(OnPageP!OfRoom(drawn))
    /\ OnPageP!AtHome /\ OnPageP!OnItsWay

RoomsInv ==
    /\ InRoomsP!Sorted(InRoomsP!Anywhere) /\ InRoomsP!Sorted(InRoomsP!OfRoom(drawn))
    /\ InRoomsP!Alone(panel)

WindowsInv ==
    /\ TwoWindowsP!Sorted(TwoWindowsP!Anywhere)
    /\ TwoWindowsP!AtHome /\ TwoWindowsP!OnItsWay

LEMMA PageHolds ==
    ASSUME OnPage!SurfacesAssumption
    PROVE  /\ OnPage!Init => PageInv
           /\ PageInv /\ [OnPage!Next]_boardVars => PageInv'
           /\ PageInv => /\ OnPage!TypeOK /\ OnPage!OfItsRoom /\ OnPage!DrawnIsPublished
                         /\ OnPage!PersonalStaysPrivate
<1>1. OnPageP!SurfacesAssumption  BY SameOnPage
<1>2. {w1} \cap {panel} = {} /\ {panel} # {}
  BY DEF OnPage!SurfacesAssumption
<1>3. OnPageP!Guarded  BY <1>2 DEF OnPageP!Guarded
<1>4. ASSUME OnPage!Init
      PROVE  PageInv
  <2>1. OnPageP!Init  BY <1>4, SameOnPage
  <2>2. OnPageP!Sorted(OnPageP!Anywhere)
    BY <1>1, <2>1, OnPageP!InitSorts, OnPageP!FamiliesAre
  <2>3. OnPageP!Sorted(OnPageP!OfMode(drawn))
    BY <1>1, <2>1, OnPageP!OfModeInit
  <2>4. OnPageP!Sorted(OnPageP!OfRoom(drawn))
    BY <1>1, <2>1, OnPageP!OfRoomInit
  <2>5. OnPageP!AtHome /\ OnPageP!OnItsWay
    BY <2>1, OnPageP!OnItsWayInit
  <2> QED BY <2>2, <2>3, <2>4, <2>5 DEF PageInv
<1>5. ASSUME PageInv, [OnPage!Next]_boardVars
      PROVE  PageInv'
  <2>1. [OnPageP!Next]_(OnPageP!vars)  BY <1>5, SameOnPage DEF OnPageP!vars, boardVars
  <2>2. OnPageP!Sorted(OnPageP!Anywhere)'
    BY <1>1, <1>5, <2>1, OnPageP!AnywhereStep DEF PageInv
  <2>3. OnPageP!Sorted(OnPageP!OfMode(drawn))'
    BY <1>1, <1>2, <1>5, <2>1, OnPageP!OfModeStep DEF PageInv
  <2>4. OnPageP!Sorted(OnPageP!OfRoom(drawn))'
    BY <1>1, <1>3, <1>5, <2>1, OnPageP!OfRoomStep DEF PageInv
  <2>5. OnPageP!AtHome' /\ OnPageP!OnItsWay'
    BY <1>1, <1>2, <1>5, <2>1, OnPageP!OnItsWayStep DEF PageInv
  <2> QED BY <2>2, <2>3, <2>4, <2>5 DEF PageInv
<1>6. ASSUME PageInv
      PROVE  /\ OnPage!TypeOK /\ OnPage!OfItsRoom /\ OnPage!DrawnIsPublished
             /\ OnPage!PersonalStaysPrivate
  <2>1. /\ OnPageP!TypeOK /\ OnPageP!OfItsRoom /\ OnPageP!DrawnIsPublished
        /\ OnPageP!PersonalStaysPrivate
    BY <1>1, <1>6, OnPageP!SortedTyped, OnPageP!SortedPrivate, OnPageP!SortedInRoom,
       OnPageP!OnItsWayPublishes DEF PageInv
  <2> QED BY <2>1, SameOnPage
<1> QED BY <1>4, <1>5, <1>6

LEMMA RoomsHold ==
    ASSUME InRooms!SurfacesAssumption
    PROVE  /\ InRooms!Init => RoomsInv
           /\ RoomsInv /\ [InRooms!Next]_boardVars => RoomsInv' /\ InRooms!StoredKept
           /\ RoomsInv => InRooms!TypeOK /\ InRooms!OfItsRoom
<1>1. InRoomsP!SurfacesAssumption  BY SameInRooms
<1>2. InRoomsP!Guarded  BY DEF InRoomsP!Guarded, InRoomsP!Surfaces
<1>3. ASSUME InRooms!Init
      PROVE  RoomsInv
  <2>1. InRoomsP!Init  BY <1>3, SameInRooms
  <2>2. InRoomsP!Sorted(InRoomsP!Anywhere)
    BY <1>1, <2>1, InRoomsP!InitSorts, InRoomsP!FamiliesAre
  <2>3. InRoomsP!Sorted(InRoomsP!OfRoom(drawn))
    BY <1>1, <2>1, InRoomsP!OfRoomInit
  <2>4. InRoomsP!Alone(panel)
    BY <1>1, <2>1, InRoomsP!LoneInit
  <2> QED BY <2>2, <2>3, <2>4 DEF RoomsInv
<1>4. ASSUME RoomsInv, [InRooms!Next]_boardVars
      PROVE  RoomsInv' /\ InRooms!StoredKept
  <2>1. [InRoomsP!Next]_(InRoomsP!vars)  BY <1>4, SameInRooms DEF InRoomsP!vars, boardVars
  <2>2. InRoomsP!Sorted(InRoomsP!Anywhere)'
    BY <1>1, <1>4, <2>1, InRoomsP!AnywhereStep DEF RoomsInv
  <2>3. InRoomsP!Sorted(InRoomsP!OfRoom(drawn))'
    BY <1>1, <1>2, <1>4, <2>1, InRoomsP!OfRoomStep DEF RoomsInv
  <2>4. InRoomsP!Alone(panel)' /\ InRoomsP!StoredKept
    BY <1>1, <1>4, <2>1, <2>2, InRoomsP!LoneStep DEF RoomsInv
  <2> QED BY <2>2, <2>3, <2>4, SameInRooms DEF RoomsInv
<1>5. ASSUME RoomsInv
      PROVE  InRooms!TypeOK /\ InRooms!OfItsRoom
  <2>1. InRoomsP!TypeOK /\ InRoomsP!OfItsRoom
    BY <1>1, <1>5, InRoomsP!SortedTyped, InRoomsP!SortedInRoom DEF RoomsInv
  <2> QED BY <2>1, SameInRooms
<1> QED BY <1>3, <1>4, <1>5

LEMMA WindowsHold ==
    ASSUME TwoWindows!SurfacesAssumption
    PROVE  /\ TwoWindows!Init => WindowsInv
           /\ WindowsInv /\ [TwoWindows!Next]_boardVars => WindowsInv'
           /\ WindowsInv => TwoWindows!TypeOK /\ TwoWindows!DrawnIsPublished
<1>1. TwoWindowsP!SurfacesAssumption  BY SameTwoWindows
<1>2. ASSUME TwoWindows!Init
      PROVE  WindowsInv
  <2>1. TwoWindowsP!Init  BY <1>2, SameTwoWindows
  <2>2. TwoWindowsP!Sorted(TwoWindowsP!Anywhere)
    BY <1>1, <2>1, TwoWindowsP!InitSorts, TwoWindowsP!FamiliesAre
  <2>3. TwoWindowsP!AtHome /\ TwoWindowsP!OnItsWay
    BY <2>1, TwoWindowsP!OnItsWayInit
  <2> QED BY <2>2, <2>3 DEF WindowsInv
<1>3. ASSUME WindowsInv, [TwoWindows!Next]_boardVars
      PROVE  WindowsInv'
  <2>1. [TwoWindowsP!Next]_(TwoWindowsP!vars)  BY <1>3, SameTwoWindows DEF TwoWindowsP!vars, boardVars
  <2>2. TwoWindowsP!Sorted(TwoWindowsP!Anywhere)'
    BY <1>1, <1>3, <2>1, TwoWindowsP!AnywhereStep DEF WindowsInv
  <2>3. TwoWindowsP!AtHome' /\ TwoWindowsP!OnItsWay'
    BY <1>1, <1>3, <2>1, TwoWindowsP!OnItsWayStep DEF WindowsInv
  <2> QED BY <2>2, <2>3 DEF WindowsInv
<1>4. ASSUME WindowsInv
      PROVE  TwoWindows!TypeOK /\ TwoWindows!DrawnIsPublished
  <2>1. TwoWindowsP!TypeOK /\ TwoWindowsP!DrawnIsPublished
    BY <1>1, <1>4, TwoWindowsP!SortedTyped, TwoWindowsP!OnItsWayPublishes DEF WindowsInv
  <2> QED BY <2>1, SameTwoWindows
<1> QED BY <1>2, <1>3, <1>4

BoardsInv ==
    /\ which = "widget" => PageInv
    /\ which = "rooms" => RoomsInv
    /\ which = "popup" => WindowsInv

-----------------------------------------------------------------------------
(* The parts of the run side by side: a step of the whole is a step of the *)
(* part, or leaves it alone.                                               *)

LEMMA FocusComposed ==
    (MCInit => Focus!Init) /\ ([MCNext]_MCVars => [Focus!Next]_Focus!vars)
<1> USE DEF MCVars, focusVars, Focus!vars, Focus!stateVars, Focus!timerVars
<1>1. MCInit => Focus!Init  BY DEF MCInit
<1>2. ASSUME [MCNext]_MCVars
      PROVE  [Focus!Next]_Focus!vars
  <2>1. CASE UNCHANGED MCVars  BY <2>1
  <2>2. CASE OfFocus(Focus!Next)  BY <2>2 DEF OfFocus, Of
  <2>3. CASE \/ OfMedia(Media!Next) \/ OfTimer(Timer!Next)
             \/ OfChat("chat", Chat!Next) \/ OfChat("lossy", Lossy!Next)
             \/ OfCode("edits", Edits!Next) \/ OfCode("code", Code!Next)
             \/ OfSurfaces("widget", OnPage!Next) \/ OfSurfaces("rooms", InRooms!Next)
             \/ OfSurfaces("popup", TwoWindows!Next)
    BY <2>3 DEF OfMedia, OfTimer, OfChat, OfCode, OfSurfaces
  <2> QED  BY <1>2, <2>1, <2>2, <2>3 DEF MCNext
<1> QED  BY <1>1, <1>2

LEMMA MediaComposed ==
    (MCInit => Media!Init) /\ ([MCNext]_MCVars => [Media!Next]_Media!vars)
<1> USE DEF MCVars, mediaVars, Media!vars, Media!voiceVars, Media!stageVars, Media!mediaVars,
            Media!serverVars
<1>1. MCInit => Media!Init  BY DEF MCInit
<1>2. ASSUME [MCNext]_MCVars
      PROVE  [Media!Next]_Media!vars
  <2>1. CASE UNCHANGED MCVars  BY <2>1
  <2>2. CASE OfMedia(Media!Next)  BY <2>2 DEF OfMedia, Of
  <2>3. CASE \/ OfFocus(Focus!Next) \/ OfTimer(Timer!Next)
             \/ OfChat("chat", Chat!Next) \/ OfChat("lossy", Lossy!Next)
             \/ OfCode("edits", Edits!Next) \/ OfCode("code", Code!Next)
             \/ OfSurfaces("widget", OnPage!Next) \/ OfSurfaces("rooms", InRooms!Next)
             \/ OfSurfaces("popup", TwoWindows!Next)
    BY <2>3 DEF OfFocus, OfTimer, OfChat, OfCode, OfSurfaces
  <2> QED  BY <1>2, <2>1, <2>2, <2>3 DEF MCNext
<1> QED  BY <1>1, <1>2

LEMMA ChatPart ==
    ASSUME Chat!ChatAssumption
    PROVE  /\ MCInit => ChatInv
           /\ (which = "chat" => ChatInv) /\ [MCNext]_MCVars => (which = "chat" => ChatInv)'
<1> USE DEF MCVars, chatVars
<1>1. MCInit => ChatInv  BY ChatInit DEF MCInit
<1>2. ASSUME which = "chat" => ChatInv, [MCNext]_MCVars, which' = "chat"
      PROVE  ChatInv'
  <2>1. CASE UNCHANGED MCVars  BY <1>2, <2>1, ChatStep DEF Chat!vars
  <2>2. CASE OfChat("chat", Chat!Next)  BY <1>2, <2>2, ChatStep DEF OfChat, Of
  <2>3. CASE OfChat("lossy", Lossy!Next)  BY <1>2, <2>3 DEF OfChat, Of
  <2>4. CASE \/ OfFocus(Focus!Next) \/ OfMedia(Media!Next) \/ OfTimer(Timer!Next)
             \/ OfCode("edits", Edits!Next) \/ OfCode("code", Code!Next)
             \/ OfSurfaces("widget", OnPage!Next) \/ OfSurfaces("rooms", InRooms!Next)
             \/ OfSurfaces("popup", TwoWindows!Next)
    BY <1>2, <2>4, ChatStep DEF OfFocus, OfMedia, OfTimer, OfCode, OfSurfaces, Of, Chat!vars
  <2> QED  BY <1>2, <2>1, <2>2, <2>3, <2>4 DEF MCNext
<1> QED  BY <1>1, <1>2

LEMMA CodePart ==
    ASSUME Code!CodeAssumption
    PROVE  /\ MCInit => (which = "code" => CodeInv)
           /\ (which = "code" => CodeInv) /\ [MCNext]_MCVars => (which = "code" => CodeInv)'
<1> USE DEF MCVars, codeVars
<1>1. MCInit => (which = "code" => CodeInv)  BY CodeInit DEF MCInit
<1>2. ASSUME which = "code" => CodeInv, [MCNext]_MCVars, which' = "code"
      PROVE  CodeInv'
  <2>1. CASE UNCHANGED MCVars  BY <1>2, <2>1, CodeStep DEF Code!vars
  <2>2. CASE OfCode("code", Code!Next)  BY <1>2, <2>2, CodeStep DEF OfCode, Of
  <2>3. CASE OfCode("edits", Edits!Next)  BY <1>2, <2>3 DEF OfCode, Of
  <2>4. CASE \/ OfFocus(Focus!Next) \/ OfMedia(Media!Next) \/ OfTimer(Timer!Next)
             \/ OfChat("chat", Chat!Next) \/ OfChat("lossy", Lossy!Next)
             \/ OfSurfaces("widget", OnPage!Next) \/ OfSurfaces("rooms", InRooms!Next)
             \/ OfSurfaces("popup", TwoWindows!Next)
    BY <1>2, <2>4, CodeStep DEF OfFocus, OfMedia, OfTimer, OfChat, OfSurfaces, Of, Code!vars
  <2> QED  BY <1>2, <2>1, <2>2, <2>3, <2>4 DEF MCNext
<1> QED  BY <1>1, <1>2

LEMMA BoardsPart ==
    ASSUME OnPage!SurfacesAssumption, InRooms!SurfacesAssumption, TwoWindows!SurfacesAssumption
    PROVE  /\ MCInit => BoardsInv
           /\ BoardsInv /\ [MCNext]_MCVars =>
                  BoardsInv' /\ [which = "rooms" => InRooms!StoredKept]_boardVars
<1>1. ASSUME MCInit
      PROVE  BoardsInv
  <2>1. CASE which = "widget"
    <3>1. OnPage!Init  BY <1>1, <2>1 DEF MCInit
    <3> QED BY <2>1, <3>1, PageHolds DEF BoardsInv
  <2>2. CASE which = "popup"
    <3>1. TwoWindows!Init  BY <1>1, <2>2 DEF MCInit
    <3> QED BY <2>2, <3>1, WindowsHold DEF BoardsInv
  <2>3. CASE which \notin {"widget", "popup"}
    <3>1. InRooms!Init  BY <1>1, <2>3 DEF MCInit
    <3> QED BY <2>3, <3>1, RoomsHold DEF BoardsInv
  <2> QED BY <2>1, <2>2, <2>3
<1>2. ASSUME BoardsInv, [MCNext]_MCVars
      PROVE  BoardsInv' /\ [which = "rooms" => InRooms!StoredKept]_boardVars
  <2>1. \/ UNCHANGED <<boardVars, which>>
        \/ OfSurfaces("widget", OnPage!Next) \/ OfSurfaces("rooms", InRooms!Next)
        \/ OfSurfaces("popup", TwoWindows!Next)
    BY <1>2 DEF MCNext, MCVars, OfFocus, OfMedia, OfChat, OfTimer, OfCode, Of
  <2>2. CASE UNCHANGED <<boardVars, which>>
    BY <1>2, <2>2, PageHolds, RoomsHold, WindowsHold DEF BoardsInv
  <2>3. CASE OfSurfaces("widget", OnPage!Next)
    BY <1>2, <2>3, PageHolds DEF BoardsInv, OfSurfaces, Of
  <2>4. CASE OfSurfaces("rooms", InRooms!Next)
    BY <1>2, <2>4, RoomsHold DEF BoardsInv, OfSurfaces, Of
  <2>5. CASE OfSurfaces("popup", TwoWindows!Next)
    BY <1>2, <2>5, WindowsHold DEF BoardsInv, OfSurfaces, Of
  <2> QED BY <2>1, <2>2, <2>3, <2>4, <2>5
<1> QED BY <1>1, <1>2

\* Whoever ends a focus session, in whatever order matches, joins, arrivals, timers
\* and failures come: a session runs in its own room, who is shown as queued is in
\* the server's queue, the room of a session that is over is left, no timer outlives
\* its phase, and only the first arrival and the user set the clock forward
\* (cofocus.service.ts:119-604).
THEOREM SessionsStayInTheirRoomCorrect == MCSpec => SessionsStayInTheirRoom
<1>1. FocusSafe => (which = "focus" => /\ Focus!TypeOK
                                       /\ Focus!ActiveInOwnRoom /\ Focus!QueuedIsInQueue
                                       /\ Focus!NoRoomLeft /\ Focus!TimersBelongToPhase)
  BY DEF FocusSafe
<1>2. MCSpec => Focus!Spec  BY FocusComposed, PTL DEF MCSpec, Focus!Spec
<1>3. Focus!FocusAssumption  BY FocusAssumption
<1> QED  BY <1>1, <1>2, <1>3, FocusCorrect, PTL DEF SessionsStayInTheirRoom

\* Whatever is left, moved or replaced while the browser asks and the server
\* answers, every microphone or camera that is on belongs to someone who will stop
\* it, the audio that goes out is that of the one service that is on, no late
\* answer turns anything on, and none keeps a slot of the stage
\* (voice.service.ts:192-330, tutor.service.ts:480-830).
THEOREM MediaIsAccountedForCorrect == MCSpec => MediaIsAccountedFor
<1>1. (/\ Media!TypeOK /\ Media!NothingLeftCapturing /\ Media!SenderFollowsOwner
       /\ Media!NoSlotLeft) =>
      (which = "media" => /\ Media!TypeOK /\ Media!NothingLeftCapturing
                          /\ Media!SenderFollowsOwner /\ Media!NoSlotLeft)
  OBVIOUS
<1>2. MCSpec => Media!Spec  BY MediaComposed, PTL DEF MCSpec, Media!Spec
<1>3. Media!MediaAssumption  BY MediaAssumption
<1> QED  BY <1>1, <1>2, <1>3, MediaCorrect, PTL DEF MediaIsAccountedFor

\* In whatever order messages, receipts, answers to questions for history, retries,
\* reads and writes of the cache, room changes and restarts come, a message stands
\* once in a list and in a cache of its own room, and is shown as delivered only if
\* somebody other than its author has taken it in (chat.service.ts:337-1160).
THEOREM ChatKeepsItsRoomCorrect == MCSpec => []ChatKeepsItsRoom
<1>1. Chat!ChatAssumption  BY ChatAssumption
<1>2. (which = "chat" => ChatInv) => ChatKeepsItsRoom
  BY <1>1, ChatIsSafe DEF ChatSafe, ChatKeepsItsRoom
<1> QED  BY <1>1, <1>2, ChatPart, PTL DEF MCSpec

\* However edits, language changes, runs, late packets and room changes interleave, a
\* text stands only in the room it was written in and a result is shown only in the
\* room of its run (code.service.ts:118-470).
THEOREM CodeKeepsItsRoomCorrect == MCSpec => []CodeKeepsItsRoom
<1>1. Code!CodeAssumption  BY CodeAssumption
<1>2. (which = "code" => CodeInv) => CodeKeepsItsRoom
  BY CodeIsSafe DEF CodeKeepsItsRoom
<1> QED  BY <1>1, <1>2, CodePart, PTL DEF MCSpec

\* However the strokes, undos, mode changes, room changes, late reads and echoes of a
\* page, a panel and a second window interleave: no stroke is on the board of another
\* room, a shared one has reached the room once nothing is on its way, a page's
\* personal one never does, and a panel writes over no stored stroke that nobody took
\* off (whiteboard.service.ts:149-701, :1140-1372; floating-widget.ts:2790-3095).
THEOREM BoardsKeepStrokesCorrect == MCSpec => BoardsKeepStrokes
<1>1. MCInit => BoardsInv  BY BoardsPart, SurfacesAssumption
<1>2. BoardsInv /\ [MCNext]_MCVars =>
          BoardsInv' /\ [which = "rooms" => InRooms!StoredKept]_boardVars
  BY BoardsPart, SurfacesAssumption
<1>3. BoardsInv =>
          /\ which = "widget" => /\ OnPage!TypeOK /\ OnPage!OfItsRoom /\ OnPage!DrawnIsPublished
                                 /\ OnPage!PersonalStaysPrivate
          /\ which = "rooms" => InRooms!TypeOK /\ InRooms!OfItsRoom
          /\ which = "popup" => TwoWindows!TypeOK /\ TwoWindows!DrawnIsPublished
  BY PageHolds, RoomsHold, WindowsHold, SurfacesAssumption DEF BoardsInv
<1> QED BY <1>1, <1>2, <1>3, PTL DEF MCSpec, BoardsKeepStrokes
=============
