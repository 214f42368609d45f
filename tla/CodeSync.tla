------------------------------ MODULE CodeSync ------------------------------
(***************************************************************************)
(* The shared code of a room (features/code/code.service.ts): every peer   *)
(* holds the whole text under one version number; an edit broadcasts a     *)
(* delta, a language change or a peer found lagging broadcasts a full      *)
(* sync.  Runs of the code are announced and their results broadcast.      *)
(* A text is a number of its own or, for a template, its language.         *)
(***************************************************************************)
EXTENDS Naturals, FiniteSets, Sequences

CONSTANTS
    Peers,        \* numbers: peer ids are compared
    Rooms, Start, \* the room everyone starts in
    Languages, Initial,
    MaxEdits, MaxLanguages, MaxRuns,  \* bounds on edits, language changes, runs
    MaxMoves      \* bound on room changes

\* MCFeatures assumes it of the instance.
CodeAssumption ==
    /\ Start \in Rooms /\ Initial \in Languages /\ Languages \cap Nat = {}
    /\ MaxEdits \in Nat /\ MaxRuns \in Nat

VARIABLES
    room,         \* room[p]: currentRoomId
    doc,          \* doc[p]: text, language and version
    isRunning,    \* isRunning[p]
    result,       \* result[p]: the run lastResult is of, 0 for none
    expected,     \* expected[p][q]: latestRemoteRunIds, 0 for none
    runGeneration,
    pending,      \* pending[p]: runs of p that have not returned
    network,      \* network[p][q]: packets on their way, in order
    edits,        \* edits[t]: the room text t was written in
    runs,         \* runs[r]: who started run r, and where
    languages, moves

vars == <<room, doc, isRunning, result, expected, runGeneration, pending, network, edits,
          runs, languages, moves>>

Texts == 1 .. MaxEdits
RunIds == 1 .. MaxRuns
InitialCodeState == [text |-> Initial, language |-> Initial, version |-> 1]

Init ==
    /\ room = [p \in Peers |-> Start]
    /\ doc = [p \in Peers |-> InitialCodeState]
    /\ isRunning = [p \in Peers |-> FALSE]
    /\ result = [p \in Peers |-> 0]
    /\ expected = [p \in Peers |-> [q \in Peers |-> 0]]
    /\ runGeneration = [p \in Peers |-> 0]
    /\ pending = [p \in Peers |-> {}]
    /\ network = [p \in Peers |-> [q \in Peers |-> <<>>]]
    /\ edits = <<>> /\ runs = <<>>
    /\ languages = 0 /\ moves = 0

Broadcast(queues, p, pkt) ==
    [queues EXCEPT ![p] = [q \in Peers |->
        IF q # p /\ room[q] = room[p] THEN Append(@[q], pkt) ELSE @[q]]]

Packet(kind, p, body) == [kind |-> kind, room |-> room[p], doc |-> body, run |-> 0]
RunPacket(kind, p, run) == [kind |-> kind, room |-> room[p], doc |-> InitialCodeState, run |-> run]

-----------------------------------------------------------------------------
(* Editing.                                                                *)

Newer(p, text, language) ==
    [text |-> text, language |-> language, version |-> doc[p].version + 1]

updateCode(p) ==
    /\ Len(edits) < MaxEdits
    /\ edits' = Append(edits, room[p])
    /\ doc' = [doc EXCEPT ![p] = Newer(p, Len(edits'), doc[p].language)]
    /\ network' = Broadcast(network, p, Packet("delta", p, doc'[p]))
    /\ UNCHANGED <<room, isRunning, result, expected, runGeneration, pending, runs, languages, moves>>

\* An unmodified or a reset text becomes the template of the language.
setLanguage(p, lang, forceTemplate) ==
    /\ doc[p].language # lang \/ forceTemplate
    /\ languages < MaxLanguages /\ languages' = languages + 1
    /\ doc' = [doc EXCEPT ![p] =
           Newer(p, IF doc[p].text = doc[p].language \/ forceTemplate THEN lang ELSE doc[p].text, lang)]
    /\ network' = Broadcast(network, p, Packet("sync", p, doc'[p]))
    /\ UNCHANGED <<room, isRunning, result, expected, runGeneration, pending, edits, runs, moves>>

\* Slip: the text stays open.
StaysOpen(p) == doc[p]

\* The state a room is entered with.
Entered(p) == InitialCodeState

setRoom(p, r) ==
    /\ room[p] # r /\ moves < MaxMoves /\ moves' = moves + 1
    /\ room' = [room EXCEPT ![p] = r]
    /\ doc' = [doc EXCEPT ![p] = Entered(p)]
    /\ isRunning' = [isRunning EXCEPT ![p] = FALSE]
    /\ result' = [result EXCEPT ![p] = 0]
    /\ expected' = [expected EXCEPT ![p] = [q \in Peers |-> 0]]
    /\ runGeneration' = [runGeneration EXCEPT ![p] = @ + 1]
    /\ UNCHANGED <<pending, network, edits, runs, languages>>

-----------------------------------------------------------------------------
(* Receiving.                                                              *)

First(p, q) == Head(network[q][p])
Taken(p, q) == [network EXCEPT ![q][p] = Tail(@)]
Heal(p, q) == Broadcast(Taken(p, q), p, Packet("sync", p, doc[p]))

Receive(p, q, kind) ==
    /\ network[q][p] # <<>> /\ First(p, q).kind = kind /\ First(p, q).room = room[p]
    /\ UNCHANGED <<room, runGeneration, pending, edits, runs, languages, moves>>

OnSync(p, q) ==
    LET theirs == First(p, q).doc IN
    /\ Receive(p, q, "sync")
    /\ doc' = [doc EXCEPT ![p] = IF theirs.version > @.version THEN theirs ELSE @]
    /\ network' = IF theirs.version < doc[p].version THEN Heal(p, q) ELSE Taken(p, q)
    /\ UNCHANGED <<isRunning, result, expected>>


Prevails(q, p) == q > p

OnDelta(p, q) ==
    LET theirs == First(p, q).doc
        newer == theirs.version > doc[p].version
        conflict == theirs.version = doc[p].version /\ theirs.text # doc[p].text IN
    /\ Receive(p, q, "delta")
    /\ doc' = [doc EXCEPT ![p] =
           IF newer THEN theirs
           ELSE IF conflict /\ Prevails(q, p) THEN [theirs EXCEPT !.version = @ + 1] ELSE @]
    /\ network' = IF theirs.version < doc[p].version \/ (conflict /\ ~Prevails(q, p))
                    THEN Heal(p, q) ELSE Taken(p, q)
    /\ UNCHANGED <<isRunning, result, expected>>

Ignored(p, q) ==
    /\ network[q][p] # <<>> /\ First(p, q).room # room[p]
    /\ network' = Taken(p, q)
    /\ UNCHANGED <<room, doc, isRunning, result, expected, runGeneration, pending, edits,
                   runs, languages, moves>>

-----------------------------------------------------------------------------
(* Running.                                                                *)

runCode(p) ==
    /\ Len(runs) < MaxRuns
    /\ runs' = Append(runs, [by |-> p, room |-> room[p]])
    /\ runGeneration' = [runGeneration EXCEPT ![p] = @ + 1]
    /\ pending' = [pending EXCEPT ![p] =
           @ \cup {[id |-> Len(runs'), generation |-> runGeneration'[p]]}]
    /\ isRunning' = [isRunning EXCEPT ![p] = TRUE]
    /\ network' = Broadcast(network, p, RunPacket("run", p, Len(runs')))
    /\ UNCHANGED <<room, doc, result, expected, edits, languages, moves>>

\* A run that was overtaken, or whose room was left, ends without a word.
Overtaken(p, run) == run.generation # runGeneration[p]

RunReturns(p, run) ==
    /\ run \in pending[p] /\ pending' = [pending EXCEPT ![p] = @ \ {run}]
    /\ IF Overtaken(p, run)
         THEN UNCHANGED <<isRunning, result, network>>
         ELSE /\ isRunning' = [isRunning EXCEPT ![p] = FALSE]
              /\ result' = [result EXCEPT ![p] = run.id]
              /\ network' = Broadcast(network, p, RunPacket("run_result", p, run.id))
    /\ UNCHANGED <<room, doc, expected, runGeneration, edits, runs, languages, moves>>

Awaited(p, q, id) == id

OnRun(p, q) ==
    /\ Receive(p, q, "run")
    /\ expected' = [expected EXCEPT ![p][q] = Awaited(p, q, First(p, q).run)]
    /\ isRunning' = [isRunning EXCEPT ![p] = TRUE]
    /\ network' = Taken(p, q)
    /\ UNCHANGED <<doc, result>>

\* Without an announced run of the sender any result counts.
Unexpected(p, q, id) == expected[p][q] # 0 /\ id # expected[p][q]

OnRunResult(p, q) ==
    LET id == First(p, q).run IN
    /\ Receive(p, q, "run_result")
    /\ network' = Taken(p, q)
    /\ IF Unexpected(p, q, id)
         THEN UNCHANGED <<isRunning, result, expected>>
         ELSE /\ expected' = [expected EXCEPT ![p][q] = 0]
              /\ isRunning' = [isRunning EXCEPT ![p] = FALSE]
              /\ result' = [result EXCEPT ![p] = id]
    /\ UNCHANGED doc

Deliver(p, q) ==
    \/ OnSync(p, q) \/ OnDelta(p, q) \/ OnRun(p, q) \/ OnRunResult(p, q) \/ Ignored(p, q)

Next ==
    \/ \E p \in Peers :
          \/ updateCode(p) \/ runCode(p)
          \/ \E lang \in Languages, force \in BOOLEAN : setLanguage(p, lang, force)
          \/ \E r \in Rooms : setRoom(p, r)
          \/ \E run \in pending[p] : RunReturns(p, run)
    \/ \E p, q \in Peers : Deliver(p, q)

DeliverDue == \E p, q \in Peers : Deliver(p, q)
ReturnDue == \E p \in Peers : \E run \in pending[p] : RunReturns(p, run)
FairSpec == Init /\ [][Next]_vars /\ WF_vars(DeliverDue) /\ WF_vars(ReturnDue)

-----------------------------------------------------------------------------
Documents == [text : Texts \cup Languages, language : Languages, version : Nat]

TypeOK ==
    /\ room \in [Peers -> Rooms] /\ doc \in [Peers -> Documents]
    /\ isRunning \in [Peers -> BOOLEAN] /\ result \in [Peers -> 0 .. MaxRuns]
    /\ expected \in [Peers -> [Peers -> 0 .. MaxRuns]]
    /\ \A p \in Peers : pending[p] \subseteq [id : RunIds, generation : Nat]
    /\ \A t \in DOMAIN edits : edits[t] \in Rooms

\* "code never crosses rooms": a text stands only where it was written, and a
\* result is shown only in the room of its run.
NoOtherRoom ==
    \A p \in Peers :
        /\ doc[p].text \in Texts => edits[doc[p].text] = room[p]
        /\ result[p] # 0 => runs[result[p]].room = room[p]

\* When nothing is on its way everyone in a room has one text.
Settled == \A p, q \in Peers : network[p][q] = <<>>
InAgreement ==
    Settled => \A p, q \in Peers : room[p] = room[q] => doc[p].text = doc[q].text

\* Whoever is shown a run in progress will be told of its end, unless the peer
\* that ran it has left the room since.
Announced(p, id) ==
    \/ \E run \in pending[runs[id].by] : run.id = id /\ ~Overtaken(runs[id].by, run)
    \/ \E i \in 1 .. Len(network[runs[id].by][p]) :
          LET pkt == network[runs[id].by][p][i] IN
          pkt.kind = "run_result" /\ pkt.run = id /\ pkt.room = room[p]
WillEnd ==
    \A p \in Peers : isRunning[p] =>
        \E id \in DOMAIN runs : runs[id].room = room[p] /\
            (room[runs[id].by] # room[p] \/ Announced(p, id))
=============================================================================
