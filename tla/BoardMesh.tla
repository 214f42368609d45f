----------------------------- MODULE BoardMesh ------------------------------
(***************************************************************************)
(* The whiteboards of the members of a room                                *)
(* (features/whiteboard/whiteboard.service.ts, its network half): strokes, *)
(* undo, redo, clear and pages over links that keep order.  Every member   *)
(* starts with a blank page of an id of its own, beside a personal page.   *)
(***************************************************************************)
EXTENDS Naturals, Sequences, FiniteSets, FiniteSetsExt, Functions, SequencesExt

CONSTANTS
    Peers,
    MaxStrokes, MaxPages,  \* bounds on strokes and on pages added
    MaxActs,               \* bound on undo, redo, delete and clear
    MaxModes               \* bound on changes of mode and page

\* MCRuntime assumes it of the instance.
BoardAssumption == MaxStrokes \in Nat /\ MaxPages \in Nat /\ MaxActs \in Nat /\ MaxModes \in Nat

Modes == {"personal", "collaborative"}
Strokes == 1 .. MaxStrokes

VARIABLES
    mode,      \* mode[p]: privacyMode
    pages,     \* pages[p][m]: the pages of a notebook, by id
    active,    \* active[p][m]: activePageId
    network,   \* network[p][q]: packets on their way, in order
    author,    \* author[n]: who drew stroke n, and in which mode
    removed,   \* strokes somebody took off on purpose
    added, acts, turns

vars == <<mode, pages, active, network, author, removed, added, acts, turns>>

\* Ids: a page a peer began with, or one added later.
First(p, m) == <<m, p>>
Page(strokes, redo) == [strokes |-> strokes, redo |-> redo]
Blank == Page({}, <<>>)

Init ==
    /\ mode = [p \in Peers |-> "collaborative"]
    /\ pages = [p \in Peers |-> [m \in Modes |-> [i \in {First(p, m)} |-> Blank]]]
    /\ active = [p \in Peers |-> [m \in Modes |-> First(p, m)]]
    /\ network = [p \in Peers |-> [q \in Peers |-> <<>>]]
    /\ author = <<>> /\ removed = {}
    /\ added = 0 /\ acts = 0 /\ turns = 0

Notebook(p) == pages[p][mode[p]]
ActivePage(p) == Notebook(p)[active[p][mode[p]]]
Shared(p) == mode[p] = "collaborative"

OnBoard(p, m) == UNION {pages[p][m][id].strokes : id \in DOMAIN pages[p][m]}

\* The active page of p replaced, and the others told when the board is shared.
Edit(p, page, packet) ==
    /\ pages' = [pages EXCEPT ![p][mode[p]][active[p][mode[p]]] = page]
    /\ network' = IF Shared(p)
                    THEN [network EXCEPT ![p] = [q \in Peers |->
                             IF q = p THEN @[q] ELSE Append(@[q], packet)]]
                    ELSE network
    /\ UNCHANGED <<mode, active, added, turns>>

Packet(p, kind, n) == [kind |-> kind, page |-> active[p][mode[p]], stroke |-> n]
Act == acts < MaxActs /\ acts' = acts + 1

-----------------------------------------------------------------------------
addStroke(p) ==
    LET n == Len(author) + 1 IN
    /\ n \in Strokes /\ author' = Append(author, [by |-> p, mode |-> mode[p]])
    /\ Edit(p, Page(ActivePage(p).strokes \cup {n}, <<>>), Packet(p, "stroke", n))
    /\ UNCHANGED <<removed, acts>>

\* On the shared board a member's own youngest stroke, on the personal any.
Undoable(p) ==
    {n \in ActivePage(p).strokes : Shared(p) => author[n].by = p}

undo(p) ==
    /\ Act
    /\ \E n \in Undoable(p) :
       /\ \A k \in Undoable(p) : k <= n
       /\ Edit(p, Page(ActivePage(p).strokes \ {n}, Append(ActivePage(p).redo, n)),
               Packet(p, "undo", n))
       /\ removed' = removed \cup {n}
    /\ UNCHANGED author

\* Undo on an empty page puts back all that was taken off, in one packet.
undoClear(p) ==
    /\ ActivePage(p).strokes = {} /\ ActivePage(p).redo # <<>> /\ Act
    /\ LET strokes == Range(ActivePage(p).redo) IN
       /\ Edit(p, Page(strokes, <<>>), Packet(p, "strokes_batch", 0))
    /\ UNCHANGED <<author, removed>>

redo(p) ==
    /\ ActivePage(p).redo # <<>> /\ Act
    /\ LET n == Last(ActivePage(p).redo) IN
       Edit(p, Page(ActivePage(p).strokes \cup {n}, Front(ActivePage(p).redo)),
            Packet(p, "stroke", n))
    /\ UNCHANGED <<author, removed>>

\* The eraser takes any stroke.
deleteStroke(p, n) ==
    /\ n \in ActivePage(p).strokes /\ Act
    /\ Edit(p, Page(ActivePage(p).strokes \ {n}, Append(ActivePage(p).redo, n)),
            Packet(p, "undo", n))
    /\ removed' = removed \cup {n} /\ UNCHANGED author

clearAll(p) ==
    /\ ActivePage(p).strokes # {} /\ Act
    /\ Edit(p, Page({}, SetToSeq(ActivePage(p).strokes)), Packet(p, "clear", 0))
    /\ removed' = removed \cup ActivePage(p).strokes
    /\ UNCHANGED author

-----------------------------------------------------------------------------
(* Pages and modes.                                                        *)

With(notebook, id, page) == [i \in DOMAIN notebook \cup {id} |-> IF i = id THEN page ELSE notebook[i]]
Tell(p, packet) ==
    network' = IF Shared(p)
                 THEN [network EXCEPT ![p] = [q \in Peers |->
                          IF q = p THEN @[q] ELSE Append(@[q], packet)]]
                 ELSE network

addPage(p) ==
    /\ added < MaxPages /\ added' = added + 1
    /\ pages' = [pages EXCEPT ![p][mode[p]] = With(@, <<"added", added'>>, Blank)]
    /\ active' = [active EXCEPT ![p][mode[p]] = <<"added", added'>>]
    /\ Tell(p, [kind |-> "add", page |-> <<"added", added'>>, stroke |-> 0])
    /\ UNCHANGED <<mode, author, removed, acts, turns>>

switchPage(p, id) ==
    /\ id \in DOMAIN Notebook(p) /\ id # active[p][mode[p]]
    /\ turns < MaxModes /\ turns' = turns + 1
    /\ active' = [active EXCEPT ![p][mode[p]] = id]
    /\ Tell(p, [kind |-> "switch", page |-> id, stroke |-> 0])
    /\ UNCHANGED <<mode, pages, author, removed, added, acts>>

\* Nobody is told of a deleted page.
deletePage(p, id) ==
    /\ id \in DOMAIN Notebook(p) /\ Cardinality(DOMAIN Notebook(p)) > 1 /\ Act
    /\ pages' = [pages EXCEPT ![p][mode[p]] = [i \in DOMAIN @ \ {id} |-> @[i]]]
    /\ \E first \in DOMAIN Notebook(p) \ {id} :
          active' = [active EXCEPT ![p][mode[p]] = IF @ = id THEN first ELSE @]
    /\ removed' = removed \cup Notebook(p)[id].strokes
    /\ UNCHANGED <<mode, network, author, added, turns>>

setPrivacyMode(p, m) ==
    /\ mode[p] # m /\ turns < MaxModes /\ turns' = turns + 1
    /\ mode' = [mode EXCEPT ![p] = m]
    /\ UNCHANGED <<pages, active, network, author, removed, added, acts>>

-----------------------------------------------------------------------------
(* Receiving.                                                              *)

Head1(p, q) == Head(network[q][p])
Receive(p, q, kinds) ==
    /\ network[q][p] # <<>> /\ Head1(p, q).kind \in kinds
    /\ network' = [network EXCEPT ![q][p] = Tail(@)]
    /\ UNCHANGED <<mode, author, added, acts, turns>>

\* A remote stroke lands on the shared page of its id, else on the page p is
\* looking at, whichever notebook that is in.  Slip: an unknown page is ignored.
LandsIfKnown(p, packet) ==
    IF packet.page \in DOMAIN pages[p]["collaborative"]
      THEN [pages[p] EXCEPT !["collaborative"][packet.page].strokes = @ \cup {packet.stroke}]
      ELSE pages[p]

Lands(p, packet) ==
    IF packet.page \in DOMAIN pages[p]["collaborative"]
      THEN [pages[p] EXCEPT !["collaborative"][packet.page].strokes = @ \cup {packet.stroke}]
      ELSE [pages[p] EXCEPT ![mode[p]][active[p][mode[p]]].strokes = @ \cup {packet.stroke}]

OnStroke(p, q) ==
    /\ Receive(p, q, {"stroke"})
    /\ pages' = [pages EXCEPT ![p] = Lands(p, Head1(p, q))]
    /\ UNCHANGED <<active, removed>>

\* Undo and clear reach a page of the same id only; a clear takes also what its
\* sender had not seen.
OnRemove(p, q) ==
    LET packet == Head1(p, q) IN
    /\ Receive(p, q, {"undo", "clear"})
    /\ pages' = IF packet.page \notin DOMAIN pages[p]["collaborative"] THEN pages
                ELSE [pages EXCEPT ![p]["collaborative"][packet.page] =
                          IF packet.kind = "clear" THEN Blank
                          ELSE Page(@.strokes \ {packet.stroke}, @.redo)]
    /\ removed' = removed \cup (OnBoard(p, "collaborative") \ OnBoard(p, "collaborative")')
    /\ UNCHANGED active

\* A batch replaces strokes that are there: it adds none.
OnBatch(p, q) == Receive(p, q, {"strokes_batch"}) /\ UNCHANGED <<pages, active, removed>>

\* page_sync counts only while p looks at the shared board.
OnPageSync(p, q) ==
    LET packet == Head1(p, q)
        known == packet.page \in DOMAIN pages[p]["collaborative"] IN
    /\ Receive(p, q, {"add", "switch"})
    /\ pages' = IF Shared(p) /\ packet.kind = "add" /\ ~known
                  THEN [pages EXCEPT ![p]["collaborative"] = With(@, packet.page, Blank)]
                  ELSE pages
    /\ active' = IF Shared(p) /\ packet.kind = "switch" /\ known
                   THEN [active EXCEPT ![p]["collaborative"] = packet.page] ELSE active
    /\ UNCHANGED removed

Deliver(p, q) == OnStroke(p, q) \/ OnRemove(p, q) \/ OnBatch(p, q) \/ OnPageSync(p, q)

Next ==
    \/ \E p \in Peers :
          \/ addStroke(p) \/ undo(p) \/ undoClear(p) \/ redo(p) \/ clearAll(p) \/ addPage(p)
          \/ \E n \in Strokes : deleteStroke(p, n)
          \/ \E id \in DOMAIN Notebook(p) : switchPage(p, id) \/ deletePage(p, id)
          \/ \E m \in Modes : setPrivacyMode(p, m)
    \/ \E p, q \in Peers : Deliver(p, q)

Spec == Init /\ [][Next]_vars

-----------------------------------------------------------------------------
TypeOK ==
    /\ mode \in [Peers -> Modes]
    /\ \A p \in Peers, m \in Modes :
          /\ active[p][m] \in DOMAIN pages[p][m]
          /\ \A id \in DOMAIN pages[p][m] :
                pages[p][m][id].strokes \subseteq Strokes /\ pages[p][m][id].redo \in Seq(Strokes)
    /\ removed \subseteq Strokes

Quiet == \A p, q \in Peers : network[p][q] = <<>>

\* A shared stroke that no undo, delete or clear took off anywhere is before
\* everyone, although no two members need have a page of one id.
EveryoneHasIt ==
    Quiet => \A n \in DOMAIN author : \A p \in Peers :
        author[n].mode = "collaborative" /\ n \notin removed =>
            n \in OnBoard(p, "collaborative") \cup OnBoard(p, "personal")

\* A stroke of the personal notebook is seen by its author alone.
PersonalIsOwn ==
    \A n \in DOMAIN author : author[n].mode = "personal" =>
        \A p \in Peers : n \in OnBoard(p, "collaborative") \cup OnBoard(p, "personal") =>
            p = author[n].by /\ n \notin OnBoard(p, "collaborative")
=============================================================================
