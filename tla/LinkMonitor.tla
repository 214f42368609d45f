---------------------------- MODULE LinkMonitor ----------------------------
(***************************************************************************)
(* Whether the other end of an open channel is still there                 *)
(* (core/network/link-monitor.ts, driven by core/network/topology.service  *)
(* .ts).  One link.  Time is counted in sweeps: silence begins between the *)
(* third and the fourth sweep without a packet (4 s against 9 s).          *)
(*                                                                         *)
(* External: WebRTC opens and closes the channel, and the other end, if it *)
(* is there, answers a probe before MaxDelay more sweeps have passed.      *)
(***************************************************************************)
EXTENDS Naturals

CONSTANTS
    MaxProbes,  \* maxOutstandingProbes
    MaxDelay,
    MaxEvents   \* openings of the channel, departures from the roster

\* MCTransport assumes it of the instance.  The other end has three seconds for
\* each probe (link-monitor.ts), far more than an answer takes.
LinkAssumption == /\ MaxProbes \in Nat /\ MaxDelay \in Nat /\ MaxEvents \in Nat
                  /\ MaxDelay < MaxProbes

VARIABLES
    link,    \* "closed", "open", or "half": nobody is at the other end any more
    tracked, \* there is a health entry
    age,     \* sweeps since lastInboundAt, 4 for more
    probes,  \* outstandingProbes
    waiting, \* sweeps since the oldest probe of this channel that has no answer
    fresh,   \* history: nothing has been heard on this channel yet
    events

vars == <<link, tracked, age, probes, waiting, fresh, events>>

Init ==
    /\ link = "closed" /\ tracked = FALSE /\ age = 0 /\ probes = 0
    /\ waiting = 0 /\ fresh = FALSE /\ events = 0

Connected == link # "closed"

\* Slip: a packet does not take back the probes that were sent.
Noticed == tracked' = TRUE /\ age' = 0 /\ probes' = IF tracked THEN probes ELSE 0

NoteInbound == tracked' = TRUE /\ age' = 0 /\ probes' = 0

\* A packet, or the answer to the probes; notePong.
Inbound ==
    /\ link = "open" /\ NoteInbound /\ fresh' = FALSE
    /\ waiting' \in {0, waiting}
    /\ UNCHANGED <<link, events>>

Forget == tracked' = FALSE /\ age' = 0 /\ probes' = 0

Older == IF age < 4 THEN age + 1 ELSE 4
Silent == {s \in BOOLEAN : (s => Older >= 3) /\ (~s => Older <= 3)}

\* Slip: the entry goes, the channel stays.
ForgetOnly == Forget /\ UNCHANGED <<link, waiting>>

\* onDead: handleDeadLink closes the channel.
Dead == Forget /\ link' = "closed" /\ waiting' = 0

Waited == IF waiting = 0 THEN 0 ELSE waiting + 1
Asked == IF link = "open" THEN waiting + 1 ELSE waiting

Probe ==
    probes' = probes + 1 /\ age' = Older /\ waiting' = Asked /\ UNCHANGED <<link, tracked>>

Healthy == age' = Older /\ waiting' = Waited /\ UNCHANGED <<link, tracked, probes>>

\* sweep; the other end does not let a probe wait for more than MaxDelay.
Sweep ==
    /\ link = "open" => waiting <= MaxDelay
    /\ \/ ~Connected /\ Forget /\ UNCHANGED <<link, waiting>>
       \/ Connected /\ ~tracked /\ NoteInbound /\ UNCHANGED <<link, waiting>>
       \/ Connected /\ tracked /\ FALSE \in Silent /\ Healthy
       \/ Connected /\ tracked /\ TRUE \in Silent
          /\ IF probes >= MaxProbes THEN Dead ELSE Probe
    /\ UNCHANGED <<fresh, events>>

\* A channel opens, with whatever entry the sweep has not removed yet.
Opens ==
    /\ link = "closed" /\ events < MaxEvents
    /\ link' = "open" /\ events' = events + 1 /\ fresh' = TRUE /\ waiting' = 0
    /\ UNCHANGED <<tracked, age, probes>>

Closes ==
    /\ Connected /\ link' = "closed" /\ waiting' = 0
    /\ UNCHANGED <<tracked, age, probes, fresh, events>>

OtherEndGoes ==
    /\ link = "open" /\ link' = "half" /\ waiting' = 0
    /\ UNCHANGED <<tracked, age, probes, fresh, events>>

\* pruneDepartedPeers
Departs ==
    /\ tracked /\ events < MaxEvents /\ events' = events + 1 /\ Forget
    /\ UNCHANGED <<link, waiting, fresh>>

Next == Inbound \/ Sweep \/ Opens \/ Closes \/ OtherEndGoes \/ Departs

Spec == Init /\ [][Next]_vars
FairSpec == Spec /\ WF_vars(Sweep)

-----------------------------------------------------------------------------
\* Every variable keeps its type (link-monitor.ts:16-45).
TypeOK ==
    /\ link \in {"closed", "open", "half"} /\ {tracked, fresh} \subseteq BOOLEAN
    /\ age \in 0..4 /\ probes \in 0..MaxProbes /\ waiting \in 0..(MaxDelay + 1)
    /\ events \in 0..MaxEvents

\* A channel whose other end answers is never torn down by a sweep, however
\* often it falls silent; only one that nothing has come over yet may be, by an
\* entry of the channel before it (link-monitor.ts:196-208).
Keeps == (tracked /\ ~tracked') /\ link = "open" /\ link' = "closed" => fresh
AnsweringIsKept == [][Keeps]_vars

\* A channel whose other end is gone does not stay (link-monitor.ts:197-208,
\* topology.service.ts:1058-1068).
HalfOpenEnds == <>[](link # "half")
=============================================================================
