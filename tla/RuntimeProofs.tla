---------------------------- MODULE RuntimeProofs ----------------------------
(***************************************************************************)
(* Theorems about the extension's own documents, for every number of tabs, *)
(* rooms, windows, members and changes: the registry of the service worker *)
(* (ContextRegistry), the whiteboard popup (WhiteboardPopup), the shared   *)
(* code in the editors of pages (PageEditor) and the whiteboards of the    *)
(* members (BoardMesh).  The four share no state.                          *)
(***************************************************************************)
EXTENDS MCRuntime, SequenceTheorems, FiniteSetTheorems, TLAPS

(***************************************************************************)
(* The registry.  Its invariant: what a starting worker still has to merge *)
(* (the snapshot, the listed tabs) is as current as what it holds, and a   *)
(* snapshot that is out of date has a write waiting.                       *)
(***************************************************************************)

\* A closed tab whose removal was handled is out of the map, and out of the tabs
\* that may still be restored.
ClosedIsOut ==
    /\ \A t \in Tabs : events[t] = "updated" => open[t]
    /\ \A t \in Tabs : Registry!Awake /\ ~open[t] /\ events[t] = "none" =>
          /\ contexts[t] = NoEntry
          /\ phase = "reading" /\ foundTabs # Unread => t \notin foundTabs \ removed

Current(t, r) == told[t] # NoEntry => r \in {told[t], NoEntry}

\* A tab's room in the map, and where the map has none, in the snapshot that was
\* read or may yet be read, is the one it was last told.
NewestEverywhere ==
    \A t \in Tabs :
        /\ Registry!Awake => Current(t, contexts[t])
        /\ phase = "reading" /\ foundEntries # Unread /\ contexts[t] = NoEntry =>
              Current(t, foundEntries[t])
        /\ phase = "asleep" \/ (phase \in {"reading", "ready"} /\ contexts[t] = NoEntry) =>
              Current(t, stored[t])

\* Without a write that waits, the snapshot holds the map.
Saved ==
    /\ phase = "reading" /\ ~queued => \A t \in Tabs : contexts[t] = NoEntry
    /\ phase = "writing" /\ ~queued => stored = contexts

RegistryInv == Registry!NoGhostTab /\ ClosedIsOut /\ NewestEverywhere /\ Saved

USE DEF Registry!Entry, Registry!Awake, Registry!RegistryAssumption

LEMMA RegistryInit == ASSUME Registry!RegistryAssumption, Registry!Init PROVE RegistryInv
BY DEF Registry!Init, RegistryInv, Registry!NoGhostTab, Registry!TypeOK, Registry!NoClosedTab,
       Registry!NewestRoomWins, Registry!NothingOnlyInMemory, ClosedIsOut, NewestEverywhere,
       Current, Saved

\* Every variable keeps its type.
LEMMA RegistryTypes ==
    ASSUME Registry!RegistryAssumption, Registry!TypeOK, [Registry!Next]_Registry!registryVars
    PROVE  Registry!TypeOK'
<1> USE DEF Registry!TypeOK, Registry!browserVars, Registry!workerVars
<1>1. CASE UNCHANGED Registry!registryVars
  BY <1>1 DEF Registry!registryVars
<1>2. CASE \E t \in Tabs, r \in Registry!Entry : Registry!Navigate(t, r)
  BY <1>2 DEF Registry!Navigate
<1>3. CASE \E t \in Tabs, r \in Rooms : Registry!SetRoom(t, r)
  BY <1>3 DEF Registry!SetRoom, Registry!Persist
<1>4. CASE \E t \in Tabs : Registry!CloseTab(t)
  BY <1>4 DEF Registry!CloseTab
<1>5. CASE \E t \in Tabs : Registry!TabUpdated(t)
  BY <1>5 DEF Registry!TabUpdated, Registry!Persist
<1>6. CASE \E t \in Tabs : Registry!TabRemoved(t)
  BY <1>6 DEF Registry!TabRemoved, Registry!Persist
<1>7. CASE Registry!Wake
  BY <1>7 DEF Registry!Wake
<1>8. CASE Registry!Suspend
  BY <1>8 DEF Registry!Suspend
<1>9. CASE Registry!ReadEntries \/ Registry!ListTabs
  BY <1>9 DEF Registry!ReadEntries, Registry!ListTabs
<1>10. CASE Registry!Hydrate
  BY <1>10 DEF Registry!Hydrate, Registry!LiveTabs, Registry!Restored
<1>11. CASE Registry!Ready \/ Registry!HydrationFails
  BY <1>11 DEF Registry!Ready, Registry!HydrationFails
<1> QED
  BY <1>1, <1>2, <1>3, <1>4, <1>5, <1>6, <1>7, <1>8, <1>9, <1>10, <1>11 DEF Registry!Next

LEMMA RegistryStep ==
    ASSUME Registry!RegistryAssumption, RegistryInv, [Registry!Next]_Registry!registryVars
    PROVE  RegistryInv'
<1>0. Registry!TypeOK /\ Registry!TypeOK'
  BY RegistryTypes DEF RegistryInv, Registry!NoGhostTab
<1> USE DEF Registry!TypeOK, Registry!browserVars, Registry!workerVars, RegistryInv,
            Registry!NoGhostTab, Registry!NoClosedTab, Registry!NewestRoomWins,
            Registry!NothingOnlyInMemory, ClosedIsOut, NewestEverywhere, Current, Saved
<1>1. CASE UNCHANGED Registry!registryVars
  BY <1>0, <1>1 DEF Registry!registryVars
<1>2. CASE \E t \in Tabs, r \in Registry!Entry : Registry!Navigate(t, r)
  BY <1>0, <1>2 DEF Registry!Navigate
<1>3. CASE \E t \in Tabs, r \in Rooms : Registry!SetRoom(t, r)
  BY <1>0, <1>3 DEF Registry!SetRoom, Registry!Persist
<1>4. CASE \E t \in Tabs : Registry!CloseTab(t)
  BY <1>0, <1>4 DEF Registry!CloseTab
<1>5. CASE \E t \in Tabs : Registry!TabUpdated(t)
  BY <1>0, <1>5 DEF Registry!TabUpdated, Registry!Persist
<1>6. CASE \E t \in Tabs : Registry!TabRemoved(t)
  <2>1. PICK t \in Tabs : Registry!TabRemoved(t)  BY <1>6
  <2>2. /\ \A x \in Tabs : x # t => /\ events'[x] = events[x] /\ contexts'[x] = contexts[x]
                                    /\ told'[x] = told[x]
        /\ events'[t] = "none" /\ contexts'[t] = NoEntry /\ told'[t] = NoEntry
        /\ removed' = removed \cup {t}
        /\ UNCHANGED <<page, open, moves, phase, foundEntries, foundTabs>>
        /\ stored' = IF phase = "ready" THEN contexts' ELSE stored
        /\ queued' = (phase # "ready") /\ phase # "asleep"
    BY <1>0, <2>1 DEF Registry!TabRemoved, Registry!Persist
  <2>3. ClosedIsOut'  BY <1>0, <2>2
  <2>4. NewestEverywhere'  BY <1>0, <2>2
  <2>5. Saved'  BY <1>0, <2>2
  <2>6. /\ Registry!NoClosedTab' /\ Registry!NewestRoomWins'
        /\ Registry!NothingOnlyInMemory'
    BY <1>0, <2>2, <2>3
  <2> QED  BY <1>0, <2>3, <2>4, <2>5, <2>6
<1>7. CASE Registry!Wake
  BY <1>0, <1>7 DEF Registry!Wake
<1>8. CASE Registry!Suspend
  BY <1>0, <1>8 DEF Registry!Suspend
<1>9. CASE Registry!ReadEntries
  BY <1>0, <1>9 DEF Registry!ReadEntries
<1>10. CASE Registry!ListTabs
  BY <1>0, <1>10 DEF Registry!ListTabs
<1>11. CASE Registry!Hydrate
  BY <1>0, <1>11 DEF Registry!Hydrate, Registry!LiveTabs, Registry!Restored
<1>12. CASE Registry!Ready
  BY <1>0, <1>12 DEF Registry!Ready
<1>13. CASE Registry!HydrationFails
  BY <1>0, <1>13 DEF Registry!HydrationFails
<1> QED
  BY <1>1, <1>2, <1>3, <1>4, <1>5, <1>6, <1>7, <1>8, <1>9, <1>10, <1>11, <1>12, <1>13
  DEF Registry!Next

\* Whatever the browser does to tabs and worker, no closed tab comes back, no tab
\* goes back to a room it left, and a suspended worker loses nothing
\* (context-registry.ts:120-173, service-worker.ts:199-236).
LEMMA RegistryCorrect ==
    ASSUME Registry!RegistryAssumption PROVE Registry!Spec => []Registry!NoGhostTab
<1>1. Registry!Init => RegistryInv  BY RegistryInit
<1>2. RegistryInv /\ [Registry!Next]_Registry!registryVars => RegistryInv'  BY RegistryStep
<1>3. RegistryInv => Registry!NoGhostTab  BY DEF RegistryInv
<1> QED  BY <1>1, <1>2, <1>3, PTL DEF Registry!Spec

HIDE DEF Registry!Entry, Registry!Awake, Registry!RegistryAssumption

-----------------------------------------------------------------------------
(* The popup.  A request is a chain of awaits with one answer under way at *)
(* a time, and so is each removal.  The invariant says what the chain of a  *)
(* request may still believe (Knows), and why a removal that arrives late   *)
(* finds only its own window remembered (Owning).  Window 0 is none.        *)

Answers(n) == [step : Popup!Steps, w : 0..n, found : 0..n]
Spot == DOMAIN answers

Op(e) == e.step \notin {"removed", "asked", "owned"}

OneChain ==
    /\ \A i, j \in Spot : Op(answers[i]) /\ Op(answers[j]) => i = j
    /\ busy <=> \E i \in Spot : Op(answers[i])

OneRemoval ==
    /\ \A i \in Spot : ~Op(answers[i]) => answers[i].w \in (1..made) \ live
    /\ \A i, j \in Spot : ~Op(answers[i]) /\ ~Op(answers[j]) /\ answers[i].w = answers[j].w => i = j

\* With c cached, r remembered and the windows l live.
Knows(e, c, r, l) ==
    /\ e.step = "stored" => /\ c = 0 /\ r \in {e.found, 0}
                            /\ e.found # 0 /\ r = 0 => e.found \notin l
    /\ e.step = "window" => /\ e.w # 0 /\ c \in {e.w, 0} /\ r \in {e.w, 0}
                            /\ (e.found = e.w /\ l \subseteq {e.w}) \/ (e.found = 0 /\ e.w \notin l)
    /\ e.step = "forgotten" => c = 0 /\ r = 0
    /\ e.step = "listed" => c = 0 /\ r = 0 /\ l \subseteq {e.w} /\ e.found = e.w
    /\ e.step = "known" => e.w # 0 /\ c \in {e.w, 0} /\ r \in {e.w, 0} /\ l \subseteq {e.w}
    /\ e.step = "focused" => /\ e.w # 0 /\ c \in {e.w, 0} /\ r \in {e.w, 0}
                             /\ (e.found = e.w /\ l \subseteq {e.w}) \/ (e.found = 0 /\ l = {})
    /\ e.step = "lost" => l = {} /\ e.w # 0 /\ e.found \in {e.w, 0} /\ c = 0 /\ r \in {e.found, 0}
    /\ e.step = "replaced" => l = {} /\ c = 0 /\ r = 0
    /\ e.step = "created" => e.w # 0 /\ l \subseteq {e.w} /\ c = 0 /\ r = 0

ChainKnows == \A i \in Spot : Knows(answers[i], cached, remembered, live)

\* Handling e makes its window the remembered one.
Remembers(e) ==
    /\ e.w # 0
    /\ e.step \in {"listed", "created"} \/ (e.step = "focused" /\ e.found # 0)

\* If that window is closed by now, its removal is handled later.
Fresh ==
    \A i \in Spot : Remembers(answers[i]) =>
        \/ answers[i].w \in live
        \/ \E j \in Spot : j > i /\ answers[j].step = "removed" /\ answers[j].w = answers[i].w

\* The removal of w at e still erases it.
Erases(e, w) == e.w = w /\ (e.step = "removed" \/ (e.step \in {"asked", "owned"} /\ e.found = w))

\* A closed window is remembered only until its removal is handled.
Erased ==
    remembered # 0 /\ remembered \notin live => \E i \in Spot : Erases(answers[i], remembered)

\* The cached window was found gone, which the chain of the request knows.
Gone(e, w) == e.step = "window" /\ e.w = w /\ e.found = 0

Owns(e) == e.step = "owned" /\ e.found = e.w

\* A removal about to erase its window finds that window, or nothing, and no
\* answer ahead of it changes that.
Owning ==
    \A i \in Spot : Owns(answers[i]) =>
        /\ remembered \in {answers[i].w, 0}
        /\ \A k \in Spot : k < i /\ Remembers(answers[k]) => answers[k].w = answers[i].w
        /\ cached = answers[i].w => \E k \in Spot : Gone(answers[k], cached)

Agreed ==
    /\ cached # 0 => remembered \in {cached, 0}
    /\ cached # 0 /\ remembered = 0 => \E k \in Spot : Gone(answers[k], cached)

\* The popup made last is remembered, or a request is on its way to do so.
Memory ==
    \A w \in live : w > 1 =>
        remembered = w \/ \E i \in Spot : Op(answers[i]) /\ answers[i].step # "kept"

PopupInv ==
    /\ Popup!TypeOK /\ Popup!NeverTwo /\ OneChain /\ OneRemoval /\ ChainKnows
    /\ Fresh /\ Erased /\ Owning /\ Agreed /\ Memory

LEMMA PopupSafe == PopupInv => Popup!AtMostOnePopup
<1> SUFFICES ASSUME PopupInv, answers = <<>> PROVE Popup!RemembersThePopup
  BY DEF PopupInv, Popup!AtMostOnePopup, Popup!RemembersThePopup
<1>1. Spot = {}  BY DEF Spot
<1> QED  BY <1>1 DEF PopupInv, Popup!RemembersThePopup, Popup!None, Erased, Agreed, Memory

LEMMA PopupInit == ASSUME MaxWindows \in Nat \ {0}, Popup!Init PROVE PopupInv
<1>1. made \in 0..1 /\ live = 1..made /\ cached = 0 /\ remembered = 0 /\ ~busy /\ answers = <<>>
  BY DEF Popup!Init, Popup!None
<1>2. Popup!TypeOK
  <2>1. 0 \in 0..made /\ made \in 0..MaxWindows  BY <1>1
  <2>2. answers \in Seq(Answers(made))  BY <1>1
  <2>3. busy \in BOOLEAN  BY DEF Popup!Init
  <2> QED  BY <1>1, <2>1, <2>2, <2>3 DEF Popup!TypeOK, Answers
<1>3. Spot = {}  BY <1>1 DEF Spot
<1>4. Popup!NeverTwo /\ Memory  BY <1>1 DEF Popup!NeverTwo, Memory
<1>5. OneChain /\ OneRemoval /\ ChainKnows /\ Fresh /\ Owning
  BY <1>1, <1>3 DEF OneChain, OneRemoval, ChainKnows, Fresh, Owning
<1>6. Erased /\ Agreed  BY <1>1 DEF Erased, Agreed
<1> QED  BY <1>2, <1>4, <1>5, <1>6 DEF PopupInv

-----------------------------------------------------------------------------
(* The queue of answers. *)

\* A step takes d answers off the front of the queue and puts those of X, at most
\* one, at its end.
Moves(d, X) ==
    /\ Spot \subseteq Nat \ {0} /\ Spot' \subseteq Nat \ {0}
    /\ \A i \in Spot : i > d => i - d \in Spot' /\ answers'[i - d] = answers[i]
    /\ \A i \in Spot' : \/ i + d \in Spot /\ answers'[i] = answers[i + d]
                        \/ answers'[i] \in X /\ i + d \notin Spot /\ \A j \in Spot' : j <= i
    /\ \A x \in X : \E i \in Spot' : i + d \notin Spot /\ answers'[i] = x

LEMMA TailFacts ==
    ASSUME NEW S, NEW q \in Seq(S), q # <<>>
    PROVE  /\ Tail(q) \in Seq(S) /\ Len(Tail(q)) = Len(q) - 1 /\ Len(q) \in Nat \ {0}
           /\ \A i \in 1..(Len(q) - 1) : Tail(q)[i] = q[i + 1]
OBVIOUS

LEMMA AppendFacts ==
    ASSUME NEW S, NEW q \in Seq(S), NEW x \in S
    PROVE  /\ Append(q, x) \in Seq(S) /\ Len(Append(q, x)) = Len(q) + 1 /\ Len(q) \in Nat
           /\ \A i \in 1..Len(q) : Append(q, x)[i] = q[i]
           /\ Append(q, x)[Len(q) + 1] = x
OBVIOUS

\* The chain of the head goes on.
LEMMA ThenMoves ==
    ASSUME NEW S, answers \in Seq(S), answers # <<>>, NEW x \in S,
           answers' = Append(Tail(answers), x)
    PROVE  Moves(1, {x}) /\ answers' \in Seq(S) /\ 1 \in Spot
<1>1. /\ Tail(answers) \in Seq(S) /\ Len(Tail(answers)) = Len(answers) - 1 /\ Len(answers) \in Nat \ {0}
      /\ \A i \in 1..(Len(answers) - 1) : Tail(answers)[i] = answers[i + 1]
  BY TailFacts
<1> DEFINE r == Tail(answers)
<1> HIDE DEF r
<1>2. /\ answers' \in Seq(S) /\ Len(answers') = Len(answers)
      /\ \A i \in 1..(Len(answers) - 1) : answers'[i] = r[i]
      /\ answers'[Len(answers)] = x
  BY <1>1, AppendFacts DEF r
<1>3. Spot = 1..Len(answers) /\ Spot' = 1..Len(answers)  BY <1>1, <1>2 DEF Spot
<1>4. \A i \in 1..(Len(answers) - 1) : answers'[i] = answers[i + 1]  BY <1>1, <1>2 DEF r
<1>5. Len(answers) \in Nat \ {0} /\ answers'[Len(answers)] = x  BY <1>1, <1>2
<1>6. /\ Spot \subseteq Nat \ {0} /\ Spot' \subseteq Nat \ {0} /\ 1 \in Spot
      /\ \A i \in Spot : i > 1 => i - 1 \in Spot' /\ answers'[i - 1] = answers[i]
  BY <1>3, <1>4, <1>5
<1>7. \A i \in Spot' : \/ i + 1 \in Spot /\ answers'[i] = answers[i + 1]
                       \/ answers'[i] \in {x} /\ i + 1 \notin Spot /\ \A j \in Spot' : j <= i
  <2> TAKE i \in Spot'
  <2>1. CASE i # Len(answers)  BY <1>3, <1>4, <1>5, <2>1
  <2>2. CASE i = Len(answers)
    <3>1. answers'[i] \in {x}  BY <1>5, <2>2
    <3>2. i + 1 \notin Spot /\ \A j \in Spot' : j <= i  BY <1>3, <1>5, <2>2
    <3> QED  BY <3>1, <3>2
  <2> QED  BY <2>1, <2>2
<1>8. Len(answers) \in Spot' /\ Len(answers) + 1 \notin Spot  BY <1>3, <1>5
<1> QED  BY <1>2, <1>5, <1>6, <1>7, <1>8 DEF Moves

\* The chain of the head ends.
LEMMA TailMoves ==
    ASSUME NEW S, answers \in Seq(S), answers # <<>>, answers' = Tail(answers)
    PROVE  Moves(1, {}) /\ answers' \in Seq(S) /\ 1 \in Spot
<1>1. /\ answers' \in Seq(S) /\ Len(answers') = Len(answers) - 1 /\ Len(answers) \in Nat \ {0}
      /\ \A i \in 1..(Len(answers) - 1) : answers'[i] = answers[i + 1]
  BY TailFacts
<1>2. Spot = 1..Len(answers) /\ Spot' = 1..(Len(answers) - 1)  BY <1>1 DEF Spot
<1> QED  BY <1>1, <1>2 DEF Moves

\* A chain begins.
LEMMA AppendMoves ==
    ASSUME NEW S, answers \in Seq(S), NEW x \in S, answers' = Append(answers, x)
    PROVE  Moves(0, {x}) /\ answers' \in Seq(S)
<1>1. /\ answers' \in Seq(S) /\ Len(answers') = Len(answers) + 1 /\ Len(answers) \in Nat
      /\ \A i \in 1..Len(answers) : answers'[i] = answers[i]
      /\ answers'[Len(answers) + 1] = x
  BY AppendFacts
<1>2. Spot = 1..Len(answers) /\ Spot' = 1..(Len(answers) + 1)  BY <1>1 DEF Spot
<1> QED  BY <1>1, <1>2 DEF Moves

\* Only the last spot is new.
LEMMA AppendSpots ==
    ASSUME NEW S, answers \in Seq(S), NEW x \in S, answers' = Append(answers, x)
    PROVE  \A i \in Spot' : \/ answers'[i] = x /\ i \notin Spot /\ \A j \in Spot' : j <= i
                            \/ i \in Spot /\ i > 0 /\ answers'[i] = answers[i]
<1> DEFINE n == Len(answers)
<1>1. /\ n \in Nat
      /\ \A i \in 1..n : answers'[i] = answers[i]
      /\ answers'[n + 1] = x /\ Len(answers') = n + 1 /\ answers' \in Seq(S)
  BY AppendFacts
<1>2. Spot = 1..n /\ Spot' = 1..(n + 1)  BY <1>1 DEF Spot
<1> HIDE DEF n
<1> TAKE i \in Spot'
<1>3. CASE i = n + 1
  <2>1. i \notin Spot /\ \A j \in Spot' : j <= i  BY <1>1, <1>2, <1>3
  <2> QED  BY <1>1, <1>3, <2>1
<1>4. CASE i # n + 1
  <2>1. i \in 1..n /\ i > 0  BY <1>1, <1>2, <1>4
  <2> QED  BY <1>1, <1>2, <2>1
<1> QED  BY <1>3, <1>4

\* What is somewhere behind the head stays somewhere.
LEMMA Stays ==
    ASSUME NEW d \in {0, 1}, NEW X, Moves(d, X), NEW i \in Spot, i > d
    PROVE  \E j \in Spot' : answers'[j] = answers[i]
BY DEF Moves

LEMMA FreshMoves ==
    ASSUME NEW d \in {0, 1}, NEW X, Moves(d, X), Fresh,
           \A w \in live : w \in live' \/ \E x \in X : x.step = "removed" /\ x.w = w,
           \A x \in X : Remembers(x) => x.w \in live'
    PROVE  Fresh'
<1> SUFFICES ASSUME NEW i \in Spot', Remembers(answers'[i]), answers'[i].w \notin live'
             PROVE  \E j \in Spot' : /\ j > i /\ answers'[j].step = "removed"
                                     /\ answers'[j].w = answers'[i].w
  BY DEF Fresh
<1>1. i + d \in Spot /\ answers'[i] = answers[i + d]  BY DEF Moves
<1>2. CASE answers[i + d].w \in live
  <2>1. PICK x \in X : x.step = "removed" /\ x.w = answers[i + d].w  BY <1>1, <1>2
  <2>2. PICK j \in Spot' : j + d \notin Spot /\ answers'[j] = x  BY DEF Moves
  <2>3. \A k \in Spot' : k <= j  BY <2>2 DEF Moves
  <2>4. i <= j /\ i # j  BY <1>1, <2>2, <2>3
  <2> QED  BY <1>1, <2>1, <2>2, <2>4 DEF Moves
<1>3. CASE answers[i + d].w \notin live
  <2>1. PICK j \in Spot : /\ j > i + d /\ answers[j].step = "removed"
                          /\ answers[j].w = answers[i + d].w
    BY <1>1, <1>3 DEF Fresh
  <2>2. j > d /\ j - d > i  BY <2>1 DEF Moves
  <2>3. j - d \in Spot' /\ answers'[j - d] = answers[j]  BY <2>2 DEF Moves
  <2> QED  BY <1>1, <2>1, <2>2, <2>3
<1> QED  BY <1>2, <1>3

LEMMA ErasedMoves ==
    ASSUME NEW d \in {0, 1}, NEW X, Moves(d, X),
           remembered' # 0 /\ remembered' \notin live' =>
              \/ \E x \in X : Erases(x, remembered')
              \/ \E i \in Spot : i > d /\ Erases(answers[i], remembered')
    PROVE  Erased'
<1> SUFFICES ASSUME remembered' # 0, remembered' \notin live'
             PROVE  \E j \in Spot' : Erases(answers'[j], remembered')
  BY DEF Erased
<1>1. CASE \E x \in X : Erases(x, remembered')  BY <1>1 DEF Moves
<1>2. CASE \E i \in Spot : i > d /\ Erases(answers[i], remembered')  BY <1>2, Stays
<1> QED  BY <1>1, <1>2

LEMMA OwningMoves ==
    ASSUME NEW d \in {0, 1}, NEW X, Moves(d, X), Owning,
           \A i \in Spot : i > d /\ Owns(answers[i]) =>
              /\ remembered' \in {answers[i].w, 0}
              /\ cached' = answers[i].w => \E k \in Spot' : Gone(answers'[k], cached'),
           \A x \in X : Owns(x) =>
              /\ remembered' \in {x.w, 0} /\ cached' # x.w
              /\ \A k \in Spot : k > d /\ Remembers(answers[k]) => answers[k].w = x.w
    PROVE  Owning'
<1> SUFFICES ASSUME NEW i \in Spot', Owns(answers'[i])
             PROVE  /\ remembered' \in {answers'[i].w, 0}
                    /\ \A k \in Spot' : k < i /\ Remembers(answers'[k]) => answers'[k].w = answers'[i].w
                    /\ cached' = answers'[i].w => \E k \in Spot' : Gone(answers'[k], cached')
  BY DEF Owning
<1>1. ASSUME NEW k \in Spot', k < i PROVE k + d \in Spot /\ k + d > d /\ answers'[k] = answers[k + d]
  BY <1>1 DEF Moves
<1>2. CASE i + d \in Spot /\ answers'[i] = answers[i + d]
  <2>1. i + d > d  BY DEF Moves
  <2>2. ASSUME NEW k \in Spot', k < i, Remembers(answers'[k]) PROVE answers'[k].w = answers'[i].w
    <3>1. k + d < i + d  BY <2>2 DEF Moves
    <3> QED  BY <1>1, <1>2, <2>2, <3>1 DEF Owning
  <2> QED  BY <1>2, <2>1, <2>2
<1>3. CASE answers'[i] \in X
  <2>1. ASSUME NEW k \in Spot', k < i, Remembers(answers'[k]) PROVE answers'[k].w = answers'[i].w
    BY <1>1, <1>3, <2>1
  <2> QED  BY <1>3, <2>1
<1> QED  BY <1>2, <1>3 DEF Moves

-----------------------------------------------------------------------------
(* Steps of the chain of a request: the head goes on as x. *)

LEMMA RequestGoesOn ==
    ASSUME PopupInv, NEW x, Moves(1, {x}), 1 \in Spot, Op(answers[1]), Op(x), busy' = busy,
           Popup!TypeOK',
           \/ live' = live /\ made' = made
           \/ live = {} /\ live' = {made + 1} /\ made' = made + 1,
           Knows(x, cached', remembered', live'),
           Remembers(x) => x.w \in live',
           remembered' \in {remembered, 0} \/ (Remembers(answers[1]) /\ remembered' = answers[1].w),
           cached' # 0 => \/ cached' \in live' \/ Gone(x, cached')
                          \/ cached' = cached /\ ~Gone(answers[1], cached)
                          \/ cached' = answers[1].w /\ Remembers(answers[1]),
           cached' # 0 => remembered' \in {cached', 0},
           cached' # 0 /\ remembered' = 0 => Gone(x, cached'),
           x.step = "kept" => \A w \in live' : w > 1 => remembered' = w
    PROVE  PopupInv'
<1> DEFINE h == answers[1]
<1>0. /\ Popup!TypeOK /\ Popup!NeverTwo /\ OneChain /\ OneRemoval /\ ChainKnows
      /\ Fresh /\ Erased /\ Owning /\ Agreed /\ Memory
      /\ made \in Nat /\ live \subseteq 1..made
  BY DEF PopupInv, Popup!TypeOK
<1>1. \A i \in Spot' : \/ answers'[i] = x /\ \A j \in Spot' : answers'[j] = x => i = j
                       \/ i + 1 \in Spot /\ i + 1 > 1 /\ answers'[i] = answers[i + 1]
                          /\ ~Op(answers[i + 1])
  <2>1. \A i \in Spot : i > 1 => ~Op(answers[i])  BY <1>0 DEF OneChain
  <2>2. ASSUME NEW i \in Spot', NEW j \in Spot', answers'[i] = x, answers'[j] = x PROVE i = j
    <3>1. i + 1 \notin Spot /\ j + 1 \notin Spot  BY <2>1, <2>2 DEF Moves
    <3>2. i <= j /\ j <= i /\ i \in Nat /\ j \in Nat  BY <3>1 DEF Moves
    <3> QED  BY <3>2
  <2> QED  BY <2>1, <2>2 DEF Moves
<1>2. \E i \in Spot' : answers'[i] = x  BY DEF Moves
<1>3. Popup!NeverTwo'  BY <1>0 DEF Popup!NeverTwo
<1>4. OneChain'
  BY <1>0, <1>1, <1>2 DEF OneChain
<1>5. OneRemoval'
  <2>1. ASSUME NEW i \in Spot', ~Op(answers'[i]) PROVE answers'[i].w \in (1..made') \ live'
    BY <1>0, <1>1, <2>1 DEF OneRemoval
  <2>2. ASSUME NEW i \in Spot', NEW j \in Spot', ~Op(answers'[i]), ~Op(answers'[j]),
               answers'[i].w = answers'[j].w
        PROVE  i = j
    <3>1. /\ i + 1 \in Spot /\ answers'[i] = answers[i + 1]
          /\ j + 1 \in Spot /\ answers'[j] = answers[j + 1]
      BY <1>1, <2>2
    <3>2. i + 1 = j + 1  BY <1>0, <2>2, <3>1 DEF OneRemoval
    <3>3. i \in Nat /\ j \in Nat  BY DEF Moves
    <3> QED  BY <3>2, <3>3
  <2> QED  BY <2>1, <2>2 DEF OneRemoval
<1>6. ChainKnows'
  BY <1>1 DEF ChainKnows, Knows, Op
<1>7. Fresh'
  BY <1>0, FreshMoves
<1>8. Erased'
  <2> SUFFICES ASSUME remembered' # 0, remembered' \notin live'
               PROVE  \E i \in Spot : i > 1 /\ Erases(answers[i], remembered')
    BY ErasedMoves
  <2>1. CASE remembered' = remembered
    <3>1. PICK i \in Spot : Erases(answers[i], remembered)  BY <1>0, <2>1 DEF Erased
    <3>2. i # 1  BY <3>1 DEF Erases, Op
    <3> QED  BY <2>1, <3>1, <3>2 DEF Moves
  <2>2. CASE Remembers(h) /\ remembered' = h.w
    <3>1. h.w \notin live  BY <1>0, <2>2
    <3> QED  BY <1>0, <2>2, <3>1 DEF Fresh, Erases
  <2> QED  BY <2>1, <2>2
<1>9. Owning'
  <2>1. ASSUME NEW i \in Spot, i > 1, Owns(answers[i])
        PROVE  /\ remembered' \in {answers[i].w, 0}
               /\ cached' = answers[i].w => \E k \in Spot' : Gone(answers'[k], cached')
    <3>1. answers[i].w \in (1..made) \ live /\ answers[i].w \notin live'
      BY <1>0, <2>1 DEF OneRemoval, Owns, Op
    <3>2. remembered' \in {answers[i].w, 0}  BY <1>0, <2>1 DEF Owning
    <3>3. ASSUME cached' = answers[i].w PROVE Gone(x, cached')
      <4>1. ~(cached' = h.w /\ Remembers(h))
        <5> SUFFICES ASSUME h.w = answers[i].w, Remembers(h) PROVE FALSE  BY <3>3
        <5>1. PICK j \in Spot : answers[j].step = "removed" /\ answers[j].w = h.w
          BY <1>0, <3>1 DEF Fresh
        <5> QED  BY <1>0, <2>1, <5>1 DEF OneRemoval, Op, Owns
      <4>2. ~(cached' = cached /\ ~Gone(h, cached))
        <5> SUFFICES ASSUME cached = answers[i].w, ~Gone(h, cached) PROVE FALSE  BY <3>3
        <5>1. PICK k \in Spot : Gone(answers[k], cached)  BY <1>0, <2>1 DEF Owning
        <5>2. Op(answers[k])  BY <5>1 DEF Gone, Op
        <5> QED  BY <1>0, <5>1, <5>2 DEF OneChain
      <4> QED  BY <3>1, <3>3, <4>1, <4>2
    <3> QED  BY <1>2, <3>2, <3>3
  <2>2. ~Owns(x)  BY DEF Owns, Op
  <2> QED  BY <1>0, <2>1, <2>2, OwningMoves
<1>10. Agreed'  BY <1>2 DEF Agreed
<1>11. Memory'  BY <1>2 DEF Memory
<1> QED  BY <1>3, <1>4, <1>5, <1>6, <1>7, <1>8, <1>9, <1>10, <1>11 DEF PopupInv

(* Steps of a removal: the head goes on as the one answer of X, or ends. *)

LEMMA RemovalGoesOn ==
    ASSUME PopupInv, NEW X, Moves(1, X), 1 \in Spot, ~Op(answers[1]), UNCHANGED <<live, made, busy>>,
           Popup!TypeOK',
           \A x \in X : ~Op(x) /\ x.w = answers[1].w,
           \A x, y \in X : x = y,
           cached' \in {cached, 0},
           remembered' = remembered \/ (remembered' = 0 /\ Owns(answers[1])),
           remembered' = answers[1].w => \E x \in X : Erases(x, answers[1].w),
           \A x \in X : Owns(x) => /\ remembered = x.w /\ remembered' = remembered
                                   /\ cached' # x.w
    PROVE  PopupInv'
<1> DEFINE h == answers[1]
<1>0. /\ Popup!TypeOK /\ Popup!NeverTwo /\ OneChain /\ OneRemoval /\ ChainKnows
      /\ Fresh /\ Erased /\ Owning /\ Agreed /\ Memory
      /\ made \in Nat /\ live \subseteq 1..made
  BY DEF PopupInv, Popup!TypeOK
<1>1. \A i \in Spot' : \/ answers'[i] \in X /\ i + 1 \notin Spot /\ \A j \in Spot' : j <= i
                       \/ i + 1 \in Spot /\ i + 1 > 1 /\ answers'[i] = answers[i + 1]
  BY DEF Moves
<1>2. \A i \in Spot : i > 1 \/ i = 1  BY DEF Moves
<1>a. h.w \in (1..made) \ live  BY <1>0 DEF OneRemoval
<1>b. \A i \in Spot : i > 1 /\ ~Op(answers[i]) => answers[i].w # h.w
  BY <1>0 DEF OneRemoval
<1>c. remembered' # remembered => remembered = h.w  BY <1>0 DEF Owning
<1>3. Popup!NeverTwo'  BY <1>0 DEF Popup!NeverTwo
<1>4. OneChain'
  <2>1. ASSUME NEW i \in Spot', Op(answers'[i])
        PROVE  i + 1 \in Spot /\ Op(answers[i + 1])
    BY <1>1, <2>1
  <2>2. ASSUME NEW i \in Spot', NEW j \in Spot', Op(answers'[i]), Op(answers'[j]) PROVE i = j
    <3>1. i + 1 = j + 1  BY <1>0, <2>1, <2>2 DEF OneChain
    <3> QED  BY <3>1 DEF Moves
  <2>3. ASSUME busy PROVE \E i \in Spot' : Op(answers'[i])
    <3>1. PICK i \in Spot : Op(answers[i])  BY <1>0, <2>3 DEF OneChain
    <3>2. i > 1  BY <1>2, <3>1
    <3> QED  BY <3>1, <3>2, Stays
  <2> QED  BY <1>0, <2>1, <2>2, <2>3 DEF OneChain
<1>5. OneRemoval'
  <2>1. ASSUME NEW i \in Spot', ~Op(answers'[i]) PROVE answers'[i].w \in (1..made') \ live'
    BY <1>0, <1>1, <1>a, <2>1 DEF OneRemoval
  <2>2. ASSUME NEW i \in Spot', NEW j \in Spot', ~Op(answers'[i]), ~Op(answers'[j]),
               answers'[i].w = answers'[j].w
        PROVE  i = j
    <3>1. i \in Nat \ {0} /\ j \in Nat \ {0}  BY DEF Moves
    <3>2. CASE answers'[i] \in X /\ answers'[j] \in X /\ i + 1 \notin Spot /\ j + 1 \notin Spot
      <4>1. i <= j /\ j <= i  BY <1>1, <3>2
      <4> QED  BY <3>1, <4>1
    <3>3. CASE i + 1 \in Spot /\ answers'[i] = answers[i + 1]
      <4>1. answers'[i].w # h.w  BY <1>b, <2>2, <3>1, <3>3
      <4>2. j + 1 \in Spot /\ answers'[j] = answers[j + 1]  BY <1>1, <2>2, <4>1
      <4> QED  BY <1>0, <2>2, <3>1, <3>3, <4>2 DEF OneRemoval
    <3>4. CASE j + 1 \in Spot /\ answers'[j] = answers[j + 1]
      <4>1. answers'[j].w # h.w  BY <1>b, <2>2, <3>1, <3>4
      <4>2. i + 1 \in Spot /\ answers'[i] = answers[i + 1]  BY <1>1, <2>2, <4>1
      <4> QED  BY <1>0, <2>2, <3>1, <3>4, <4>2 DEF OneRemoval
    <3> QED  BY <1>1, <3>2, <3>3, <3>4
  <2> QED  BY <2>1, <2>2 DEF OneRemoval
<1>6. ChainKnows'
  <2>1. ASSUME NEW e, Knows(e, cached, remembered, live) PROVE Knows(e, cached', remembered', live)
    BY <1>a, <1>c, <2>1 DEF Knows
  <2>2. \A x \in X : Knows(x, cached', remembered', live)  BY DEF Knows, Op
  <2> QED  BY <1>0, <1>1, <2>1, <2>2 DEF ChainKnows
<1>7. Fresh'
  <2>1. \A x \in X : ~Remembers(x)  BY DEF Remembers, Op
  <2> QED  BY <1>0, <2>1, FreshMoves
<1>8. Erased'
  <2> SUFFICES ASSUME remembered' # 0, remembered' \notin live'
               PROVE  \/ \E x \in X : Erases(x, remembered')
                      \/ \E i \in Spot : i > 1 /\ Erases(answers[i], remembered')
    BY ErasedMoves
  <2>1. CASE remembered' # h.w
    <3>1. PICK i \in Spot : Erases(answers[i], remembered')  BY <1>0 DEF Erased
    <3> QED  BY <1>2, <2>1, <3>1 DEF Erases
  <2> QED  BY <2>1
<1>d. ASSUME NEW w, \E k \in Spot : Gone(answers[k], w)
      PROVE  \E k \in Spot' : Gone(answers'[k], w)
  <2>1. PICK k \in Spot : Gone(answers[k], w)  BY <1>d
  <2>2. k > 1  BY <1>2, <2>1 DEF Gone, Op
  <2> QED  BY <2>1, <2>2, Stays
<1>9. Owning'
  <2>1. ASSUME NEW i \in Spot, i > 1, Owns(answers[i])
        PROVE  /\ remembered' \in {answers[i].w, 0}
               /\ cached' = answers[i].w => \E k \in Spot' : Gone(answers'[k], cached')
    <3>1. answers[i].w # 0  BY <1>0, <2>1 DEF OneRemoval, Owns, Op
    <3> QED  BY <1>0, <1>d, <2>1, <3>1 DEF Owning
  <2>2. ASSUME NEW x \in X, Owns(x)
        PROVE  /\ remembered' \in {x.w, 0} /\ cached' # x.w
               /\ \A k \in Spot : k > 1 /\ Remembers(answers[k]) => answers[k].w = x.w
    <3>1. ASSUME NEW k \in Spot, Remembers(answers[k]) PROVE answers[k].w = x.w
      BY <1>0, <1>a, <2>2, <3>1 DEF ChainKnows, Knows, Remembers
    <3> QED  BY <2>2, <3>1
  <2> QED  BY <1>0, <2>1, <2>2, OwningMoves
<1>10. Agreed'
  <2>1. ASSUME cached' # 0, remembered' = 0 PROVE \E k \in Spot : Gone(answers[k], cached)
    <3>1. CASE remembered = 0  BY <1>0, <2>1, <3>1 DEF Agreed
    <3>2. CASE remembered # 0
      <4>1. remembered = h.w /\ Owns(h) /\ cached = h.w  BY <1>0, <1>c, <2>1, <3>2 DEF Agreed
      <4> QED  BY <1>0, <4>1 DEF Owning
    <3> QED  BY <3>1, <3>2
  <2>2. cached' # 0 => remembered' \in {cached', 0}  BY <1>0 DEF Agreed
  <2> QED  BY <1>d, <2>1, <2>2 DEF Agreed
<1>11. Memory'
  <2> SUFFICES ASSUME NEW w \in live, w > 1, remembered' # w
               PROVE  \E i \in Spot' : Op(answers'[i]) /\ answers'[i].step # "kept"
    BY DEF Memory
  <2>1. remembered # w  BY <1>a, <1>c
  <2>2. PICK i \in Spot : Op(answers[i]) /\ answers[i].step # "kept"  BY <1>0, <2>1 DEF Memory
  <2>3. i > 1  BY <1>2, <2>2
  <2> QED  BY <2>2, <2>3, Stays
<1> QED  BY <1>3, <1>4, <1>5, <1>6, <1>7, <1>8, <1>9, <1>10, <1>11 DEF PopupInv

-----------------------------------------------------------------------------
(* The steps of the worker, one by one. *)

LEMMA HeadOf ==
    ASSUME Popup!TypeOK, NEW step, Popup!At(step)
    PROVE  /\ answers \in Seq(Answers(made)) /\ answers # <<>>
           /\ Head(answers) = answers[1] /\ 1 \in Spot
           /\ answers[1] \in Answers(made) /\ answers[1].step = step
<1>1. answers \in Seq(Answers(made)) /\ answers # <<>>  BY DEF Popup!TypeOK, Popup!At, Answers
<1>2. Head(answers) = answers[1] /\ 1 \in Spot /\ answers[1] \in Answers(made)
  BY <1>1 DEF Spot
<1> QED  BY <1>1, <1>2 DEF Popup!At

\* The head of a request's chain goes on as x, with no window made.
LEMMA RequestThen ==
    ASSUME PopupInv, NEW step, Popup!At(step), step \notin {"removed", "asked", "owned"},
           NEW x \in Answers(made), Op(x), answers' = Append(Tail(answers), x),
           UNCHANGED <<live, made, busy>>, cached' \in 0..made, remembered' \in 0..made,
           Knows(x, cached', remembered', live),
           Remembers(x) => x.w \in live,
           remembered' \in {remembered, 0} \/ (Remembers(answers[1]) /\ remembered' = answers[1].w),
           cached' # 0 => \/ cached' \in live \/ Gone(x, cached')
                          \/ cached' = cached /\ ~Gone(answers[1], cached)
                          \/ cached' = answers[1].w /\ Remembers(answers[1]),
           cached' # 0 => remembered' \in {cached', 0},
           cached' # 0 /\ remembered' = 0 => Gone(x, cached'),
           x.step = "kept" => \A w \in live : w > 1 => remembered' = w
    PROVE  PopupInv'
<1>1. Popup!TypeOK  BY DEF PopupInv
<1>2. /\ answers \in Seq(Answers(made)) /\ answers # <<>> /\ 1 \in Spot /\ Op(answers[1])
  BY <1>1, HeadOf DEF Op
<1>3. Moves(1, {x}) /\ answers' \in Seq(Answers(made))  BY <1>2, ThenMoves
<1>4. Popup!TypeOK'  BY <1>1, <1>3 DEF Popup!TypeOK, Answers
<1> QED  BY <1>2, <1>3, <1>4, RequestGoesOn

\* The head of a request's chain makes a window.
LEMMA RequestCreates ==
    ASSUME MaxWindows \in Nat, PopupInv,
           NEW step, Popup!At(step), step \in {"listed", "replaced"}, live = {},
           Popup!Create, UNCHANGED <<cached, remembered, busy>>
    PROVE  PopupInv'
<1> DEFINE x == Popup!Answer("created", made + 1, made + 1)
<1>1. Popup!TypeOK /\ made \in Nat /\ cached \in 0..made /\ remembered \in 0..made
  BY DEF PopupInv, Popup!TypeOK
<1>2. made' = made + 1 /\ live' = {made + 1} /\ answers' = Append(Tail(answers), x) /\ made < MaxWindows
  BY DEF Popup!Create, Popup!Then
<1>3. /\ answers \in Seq(Answers(made)) /\ answers # <<>> /\ 1 \in Spot
      /\ answers[1] \in Answers(made) /\ answers[1].step = step
  BY <1>1, HeadOf
<1>4. /\ x.step = "created" /\ x.w = made + 1 /\ x.found = made + 1 /\ x \in Answers(made + 1)
  BY <1>1 DEF Popup!Answer, Answers, Popup!Steps
<1> HIDE DEF x
<1>5. answers \in Seq(Answers(made + 1))
  <2>1. Answers(made) \subseteq Answers(made + 1)  BY <1>1 DEF Answers
  <2> QED  BY <1>3, <2>1
<1>6. Moves(1, {x}) /\ answers' \in Seq(Answers(made + 1))  BY <1>2, <1>3, <1>4, <1>5, ThenMoves
<1>7. Popup!TypeOK'
  <2>2. made' \in 0..MaxWindows /\ live' \subseteq 1..made' /\ cached' \in 0..made' /\ remembered' \in 0..made'
    BY <1>1, <1>2 DEF Popup!TypeOK
  <2> QED  BY <1>1, <1>2, <1>6, <2>2 DEF Popup!TypeOK, Answers
<1>8. Knows(answers[1], cached, remembered, live)  BY <1>3 DEF PopupInv, ChainKnows
<1>9. cached = 0 /\ remembered = 0  BY <1>3, <1>8 DEF Knows
<1>10. Knows(x, 0, 0, {made + 1})  BY <1>1, <1>4 DEF Knows
<1>11. Op(answers[1]) /\ Op(x)  BY <1>3, <1>4 DEF Op
<1> QED  BY <1>2, <1>3, <1>4, <1>6, <1>7, <1>9, <1>10, <1>11, RequestGoesOn

\* What the invariant says at the head of a request's chain.
LEMMA AtHead ==
    ASSUME PopupInv, NEW step, Popup!At(step), step \notin {"removed", "asked", "owned"}
    PROVE  /\ Head(answers) = answers[1] /\ answers[1] \in Answers(made) /\ answers[1].step = step
           /\ Knows(answers[1], cached, remembered, live)
           /\ cached # 0 => remembered \in {cached, 0}
           /\ cached # 0 /\ remembered = 0 => Gone(answers[1], cached)
           /\ made \in Nat /\ live \subseteq 1..made /\ cached \in 0..made /\ remembered \in 0..made
           /\ \A v, w \in live : v = w
<1>1. Popup!TypeOK  BY DEF PopupInv
<1>2. /\ Head(answers) = answers[1] /\ answers[1] \in Answers(made) /\ answers[1].step = step
      /\ 1 \in Spot
  BY <1>1, HeadOf
<1>3. Knows(answers[1], cached, remembered, live)  BY <1>2 DEF PopupInv, ChainKnows
<1>4. ASSUME cached # 0, remembered = 0 PROVE Gone(answers[1], cached)
  <2>1. PICK k \in Spot : Gone(answers[k], cached)  BY <1>4 DEF PopupInv, Agreed
  <2>2. k = 1  BY <1>2, <2>1 DEF PopupInv, OneChain, Op, Gone
  <2> QED  BY <2>1, <2>2
<1> QED  BY <1>1, <1>2, <1>3, <1>4 DEF PopupInv, Agreed, Popup!TypeOK, Popup!NeverTwo

USE DEF Popup!None

LEMMA FindStep == ASSUME PopupInv, Popup!Find PROVE PopupInv'
<1> DEFINE x == IF cached = 0 THEN Popup!Answer("stored", 0, remembered)
                ELSE Popup!Answer("window", cached, Popup!Alive(cached))
           h == answers[1]
<1>1. /\ h.step = "bounds" /\ Popup!At("bounds")
      /\ cached # 0 => remembered = cached
      /\ made \in Nat /\ live \subseteq 1..made /\ cached \in 0..made /\ remembered \in 0..made
      /\ \A v, w \in live : v = w
  BY AtHead DEF Popup!Find, Gone
<1>2. answers' = Append(Tail(answers), x) /\ UNCHANGED <<live, made, cached, remembered, busy>>
  BY DEF Popup!Find, Popup!Then
<1>3. /\ cached = 0 => x.step = "stored" /\ x.w = 0 /\ x.found = remembered
      /\ cached # 0 => /\ x.step = "window" /\ x.w = cached
                       /\ x.found = IF cached \in live THEN cached ELSE 0
      /\ x \in Answers(made)
  BY <1>1 DEF Popup!Answer, Popup!Alive, Answers, Popup!Steps
<1> HIDE DEF x
<1>4. Knows(x, cached, remembered, live) /\ Op(x) /\ ~Remembers(x) /\ x.step # "kept"
  BY <1>1, <1>3 DEF Knows, Op, Remembers
<1>5. cached # 0 => cached' = cached /\ ~Gone(h, cached)  BY <1>1, <1>2 DEF Gone
<1> QED  BY <1>1, <1>2, <1>3, <1>4, <1>5, RequestThen

\* All windows are looked through for the whiteboard.
LEMMA ListStep ==
    ASSUME PopupInv, NEW step, Popup!At(step), step \in {"stored", "forgotten"},
           Popup!ListWindows, cached' = 0, remembered = 0, UNCHANGED <<live, made, remembered, busy>>
    PROVE  PopupInv'
<1>1. PICK w : /\ w \in live \/ (w = 0 /\ live = {})
               /\ answers' = Append(Tail(answers), Popup!Answer("listed", w, w))
  BY DEF Popup!ListWindows, Popup!Then
<1> DEFINE x == Popup!Answer("listed", w, w)
<1>2. made \in Nat /\ live \subseteq 1..made /\ \A u, v \in live : u = v
  BY AtHead
<1>3. x.step = "listed" /\ x.w = w /\ x.found = w /\ x \in Answers(made)
  <2>1. w \in 0..made
    <3>1. CASE w = 0  BY <1>2, <3>1
    <3>2. CASE w \in live  BY <1>2, <3>2
    <3> QED  BY <1>1, <3>1, <3>2
  <2> QED  BY <2>1 DEF Popup!Answer, Answers, Popup!Steps
<1>4. answers' = Append(Tail(answers), x)  BY <1>1
<1> HIDE DEF x
<1>5. /\ Knows(x, cached', remembered', live) /\ Op(x) /\ x.step # "kept"
      /\ Remembers(x) => x.w \in live
  BY <1>1, <1>2, <1>3 DEF Knows, Op, Remembers
<1>6. remembered' \in 0..made /\ cached' \in 0..made /\ remembered' = remembered  BY <1>2
<1> QED  BY <1>3, <1>4, <1>5, <1>6, RequestThen

LEMMA FindStoredStep == ASSUME PopupInv, Popup!FindStored PROVE PopupInv'
<1> DEFINE h == answers[1]
           x == Popup!Answer("window", h.found, Popup!Alive(h.found))
<1>1. /\ h.step = "stored" /\ Popup!At("stored") /\ Head(answers) = h
      /\ h.found \in 0..made
      /\ cached = 0 /\ remembered \in {h.found, 0}
      /\ h.found # 0 /\ remembered = 0 => h.found \notin live
      /\ made \in Nat /\ live \subseteq 1..made /\ remembered \in 0..made
      /\ \A v, w \in live : v = w
  BY AtHead DEF Popup!FindStored, Knows, Answers
<1>2. CASE h.found = 0
  <2>1. Popup!ListWindows /\ cached' = 0 /\ UNCHANGED <<live, made, remembered, busy>>
    BY <1>1, <1>2 DEF Popup!FindStored
  <2> QED  BY <1>1, <1>2, <2>1, ListStep
<1>3. CASE h.found # 0
  <2>1. /\ answers' = Append(Tail(answers), x)
        /\ cached' = h.found /\ UNCHANGED <<live, made, remembered, busy>>
    BY <1>1, <1>3 DEF Popup!FindStored, Popup!Then
  <2>2. /\ x.step = "window" /\ x.w = h.found /\ x \in Answers(made)
        /\ x.found = IF h.found \in live THEN h.found ELSE 0
    BY <1>1 DEF Popup!Answer, Popup!Alive, Answers, Popup!Steps
  <2> HIDE DEF x
  <2>3. Knows(x, cached', remembered', live) /\ Op(x) /\ ~Remembers(x) /\ x.step # "kept"
    BY <1>1, <1>3, <2>1, <2>2 DEF Knows, Op, Remembers
  <2>4. /\ cached' \in live \/ Gone(x, cached')
        /\ remembered' \in {cached', 0} /\ cached' \in 0..made /\ remembered' = remembered
        /\ remembered' = 0 => Gone(x, cached')
    BY <1>1, <1>3, <2>1, <2>2 DEF Gone
  <2> QED  BY <1>1, <2>1, <2>2, <2>3, <2>4, RequestThen
<1> QED  BY <1>2, <1>3

LEMMA FindWindowStep == ASSUME PopupInv, Popup!FindWindow PROVE PopupInv'
<1> DEFINE h == answers[1]
           x == IF h.found # 0 THEN Popup!Answer("focused", h.w, Popup!Alive(h.w))
                ELSE Popup!Answer("forgotten", 0, 0)
<1>1. /\ h.step = "window" /\ Popup!At("window") /\ Head(answers) = h
      /\ h.w \in 0..made /\ h.w # 0 /\ cached \in {h.w, 0} /\ remembered \in {h.w, 0}
      /\ (h.found = h.w /\ live \subseteq {h.w}) \/ (h.found = 0 /\ h.w \notin live)
      /\ cached # 0 => remembered \in {cached, 0}
      /\ cached # 0 /\ remembered = 0 => Gone(h, cached)
      /\ made \in Nat /\ live \subseteq 1..made /\ cached \in 0..made /\ remembered \in 0..made
  BY AtHead DEF Popup!FindWindow, Knows, Answers
<1>2. /\ answers' = Append(Tail(answers), x)
      /\ IF h.found # 0 THEN UNCHANGED <<cached, remembered>> ELSE cached' = 0 /\ remembered' = 0
      /\ UNCHANGED <<live, made, busy>>
  BY <1>1 DEF Popup!FindWindow, Popup!Then, Popup!Remember
<1>3. /\ h.found # 0 => /\ x.step = "focused" /\ x.w = h.w
                        /\ x.found = IF h.w \in live THEN h.w ELSE 0
      /\ h.found = 0 => x.step = "forgotten" /\ x.w = 0 /\ x.found = 0
      /\ x \in Answers(made)
  BY <1>1 DEF Popup!Answer, Popup!Alive, Answers, Popup!Steps
<1> HIDE DEF x
<1>4. /\ Knows(x, cached', remembered', live) /\ Op(x) /\ x.step # "kept"
      /\ Remembers(x) => x.w \in live
  BY <1>1, <1>2, <1>3 DEF Knows, Op, Remembers
<1>5. /\ cached' # 0 => cached' = cached /\ ~Gone(h, cached)
      /\ cached' # 0 => remembered' \in {cached', 0} /\ remembered' # 0
      /\ cached' \in 0..made /\ remembered' \in 0..made /\ remembered' \in {remembered, 0}
  BY <1>1, <1>2 DEF Gone
<1> QED  BY <1>1, <1>2, <1>3, <1>4, <1>5, RequestThen

LEMMA ForgottenStep == ASSUME PopupInv, Popup!Forgotten PROVE PopupInv'
<1>1. cached = 0 /\ remembered = 0 /\ Popup!At("forgotten")
  BY AtHead DEF Popup!Forgotten, Knows
<1> QED  BY <1>1, ListStep DEF Popup!Forgotten

LEMMA ListedStep == ASSUME MaxWindows \in Nat, PopupInv, Popup!Listed PROVE PopupInv'
<1> DEFINE h == answers[1]
           x == Popup!Answer("known", h.w, 0)
<1>1. /\ h.step = "listed" /\ Popup!At("listed") /\ Head(answers) = h
      /\ h.w \in 0..made /\ h.found = h.w /\ live \subseteq {h.w} /\ cached = 0 /\ remembered = 0
      /\ made \in Nat /\ live \subseteq 1..made
  BY AtHead DEF Popup!Listed, Knows, Answers
<1>2. CASE h.w = 0
  <2>1. live = {} /\ Popup!Create /\ UNCHANGED <<cached, remembered, busy>>
    BY <1>1, <1>2 DEF Popup!Listed
  <2> QED  BY <1>1, <2>1, RequestCreates
<1>3. CASE h.w # 0
  <2>1. /\ answers' = Append(Tail(answers), x) /\ cached' = h.w /\ remembered' = h.w
        /\ UNCHANGED <<live, made, busy>>
    BY <1>1, <1>3 DEF Popup!Listed, Popup!Then, Popup!Remember
  <2>2. x.step = "known" /\ x.w = h.w /\ x.found = 0 /\ x \in Answers(made)
    BY <1>1 DEF Popup!Answer, Answers, Popup!Steps
  <2> HIDE DEF x
  <2>3. Knows(x, cached', remembered', live) /\ Op(x) /\ ~Remembers(x) /\ x.step # "kept"
    BY <1>1, <1>3, <2>1, <2>2 DEF Knows, Op, Remembers
  <2>4. Remembers(h)  BY <1>1, <1>3 DEF Remembers
  <2> QED  BY <1>1, <1>3, <2>1, <2>2, <2>3, <2>4, RequestThen
<1> QED  BY <1>2, <1>3

LEMMA KnownStep == ASSUME PopupInv, Popup!Known PROVE PopupInv'
<1> DEFINE h == answers[1]
           x == Popup!Answer("focused", h.w, Popup!Alive(h.w))
<1>1. /\ h.step = "known" /\ Popup!At("known") /\ Head(answers) = h
      /\ h.w \in 0..made /\ h.w # 0 /\ cached \in {h.w, 0} /\ remembered \in {h.w, 0}
      /\ live \subseteq {h.w}
      /\ cached # 0 => remembered \in {cached, 0}
      /\ cached # 0 /\ remembered = 0 => Gone(h, cached)
      /\ ~Gone(h, cached)
      /\ made \in Nat /\ live \subseteq 1..made /\ cached \in 0..made /\ remembered \in 0..made
  BY AtHead DEF Popup!Known, Knows, Answers, Gone
<1>2. /\ answers' = Append(Tail(answers), x)
      /\ UNCHANGED <<live, made, cached, remembered, busy>>
  BY <1>1 DEF Popup!Known, Popup!Then
<1>3. /\ x.step = "focused" /\ x.w = h.w /\ x.found = IF h.w \in live THEN h.w ELSE 0
      /\ x \in Answers(made)
  BY <1>1 DEF Popup!Answer, Popup!Alive, Answers, Popup!Steps
<1> HIDE DEF x
<1>4. /\ Knows(x, cached', remembered', live) /\ Op(x) /\ x.step # "kept"
      /\ Remembers(x) => x.w \in live
  BY <1>1, <1>2, <1>3 DEF Knows, Op, Remembers
<1> QED  BY <1>1, <1>2, <1>3, <1>4, RequestThen

LEMMA FocusedStep == ASSUME PopupInv, Popup!Focused PROVE PopupInv'
<1> DEFINE h == answers[1]
           x == IF h.found # 0 THEN Popup!Answer("kept", h.w, 0)
                ELSE Popup!Answer("lost", h.w, remembered)
<1>1. /\ h.step = "focused" /\ Popup!At("focused") /\ Head(answers) = h
      /\ h.w \in 0..made /\ h.w # 0 /\ cached \in {h.w, 0} /\ remembered \in {h.w, 0}
      /\ (h.found = h.w /\ live \subseteq {h.w}) \/ (h.found = 0 /\ live = {})
      /\ made \in Nat /\ live \subseteq 1..made /\ cached \in 0..made /\ remembered \in 0..made
  BY AtHead DEF Popup!Focused, Knows, Answers
<1>2. /\ answers' = Append(Tail(answers), x)
      /\ IF h.found # 0 THEN cached' = h.w /\ remembered' = h.w
                        ELSE cached' = 0 /\ remembered' = remembered
      /\ UNCHANGED <<live, made, busy>>
  BY <1>1 DEF Popup!Focused, Popup!Then, Popup!Remember, Popup!Disown
<1>3. /\ h.found # 0 => x.step = "kept" /\ x.w = h.w /\ x.found = 0
      /\ h.found = 0 => x.step = "lost" /\ x.w = h.w /\ x.found = remembered
      /\ x \in Answers(made)
  BY <1>1 DEF Popup!Answer, Answers, Popup!Steps
<1> HIDE DEF x
<1>4. Knows(x, cached', remembered', live) /\ Op(x) /\ ~Remembers(x)
  BY <1>1, <1>2, <1>3 DEF Knows, Op, Remembers
<1>5. h.found # 0 => Remembers(h)  BY <1>1 DEF Remembers
<1>6. /\ cached' # 0 => cached' = h.w /\ Remembers(h) /\ remembered' = h.w
      /\ remembered' \in {remembered, 0} \/ (Remembers(h) /\ remembered' = h.w)
      /\ x.step = "kept" => \A w \in live : w > 1 => remembered' = w
  BY <1>1, <1>2, <1>3, <1>5
<1> QED  BY <1>1, <1>2, <1>3, <1>4, <1>6, RequestThen

LEMMA LostStep == ASSUME PopupInv, Popup!Lost PROVE PopupInv'
<1> DEFINE h == answers[1]
           x == Popup!Answer("replaced", 0, 0)
<1>1. /\ h.step = "lost" /\ Popup!At("lost") /\ Head(answers) = h
      /\ live = {} /\ h.w # 0 /\ h.found \in {h.w, 0} /\ cached = 0 /\ remembered \in {h.found, 0}
      /\ made \in Nat
  BY AtHead DEF Popup!Lost, Knows
<1>2. /\ answers' = Append(Tail(answers), x) /\ remembered' = 0 /\ cached' = 0
      /\ UNCHANGED <<live, made, busy>>
  BY <1>1 DEF Popup!Lost, Popup!Then, Popup!RemoveOwn
<1>3. x.step = "replaced" /\ x.w = 0 /\ x.found = 0 /\ x \in Answers(made)
  BY <1>1 DEF Popup!Answer, Answers, Popup!Steps
<1> HIDE DEF x
<1>4. Knows(x, cached', remembered', live) /\ Op(x) /\ ~Remembers(x) /\ x.step # "kept"
  BY <1>1, <1>2, <1>3 DEF Knows, Op, Remembers
<1> QED  BY <1>1, <1>2, <1>3, <1>4, RequestThen

LEMMA ReplacedStep == ASSUME MaxWindows \in Nat, PopupInv, Popup!Replaced PROVE PopupInv'
<1>1. live = {} /\ Popup!At("replaced")  BY AtHead DEF Popup!Replaced, Knows
<1> QED  BY <1>1, RequestCreates DEF Popup!Replaced

LEMMA CreatedStep == ASSUME PopupInv, Popup!Created PROVE PopupInv'
<1> DEFINE h == answers[1]
           x == Popup!Answer("kept", h.w, 0)
<1>1. /\ h.step = "created" /\ Popup!At("created") /\ Head(answers) = h
      /\ h.w \in 0..made /\ h.w # 0 /\ live \subseteq {h.w} /\ made \in Nat
  BY AtHead DEF Popup!Created, Knows, Answers
<1>2. /\ answers' = Append(Tail(answers), x) /\ cached' = h.w /\ remembered' = h.w
      /\ UNCHANGED <<live, made, busy>>
  BY <1>1 DEF Popup!Created, Popup!Then, Popup!Remember
<1>3. x.step = "kept" /\ x.w = h.w /\ x.found = 0 /\ x \in Answers(made)
  BY <1>1 DEF Popup!Answer, Answers, Popup!Steps
<1> HIDE DEF x
<1>4. Knows(x, cached', remembered', live) /\ Op(x) /\ ~Remembers(x)
  BY <1>1, <1>2, <1>3 DEF Knows, Op, Remembers
<1>5. Remembers(h)  BY <1>1 DEF Remembers
<1> QED  BY <1>1, <1>2, <1>3, <1>4, <1>5, RequestThen

\* The chain of a request ends.
LEMMA KeptStep == ASSUME PopupInv, Popup!Kept PROVE PopupInv'
<1>0. /\ Popup!TypeOK /\ Popup!NeverTwo /\ OneChain /\ OneRemoval /\ ChainKnows
      /\ Fresh /\ Erased /\ Owning /\ Agreed /\ Memory
  BY DEF PopupInv
<1>1. /\ answers' = Tail(answers) /\ busy' = FALSE /\ UNCHANGED <<live, made, cached, remembered>>
      /\ Popup!At("kept")
  BY DEF Popup!Kept, Popup!Finished
<1>2. /\ answers \in Seq(Answers(made)) /\ answers # <<>> /\ 1 \in Spot /\ answers[1].step = "kept"
  BY <1>0, <1>1, HeadOf
<1>3. Moves(1, {}) /\ answers' \in Seq(Answers(made))  BY <1>1, <1>2, TailMoves
<1>4. \A i \in Spot' : /\ i + 1 \in Spot /\ i + 1 > 1 /\ answers'[i] = answers[i + 1]
                       /\ ~Op(answers[i + 1])
  <2>1. Op(answers[1])  BY <1>2 DEF Op
  <2>2. \A i \in Spot : i > 1 => ~Op(answers[i])  BY <1>0, <1>2, <2>1 DEF OneChain
  <2>3. \A i \in Spot' : i + 1 \in Spot /\ i + 1 > 1 /\ answers'[i] = answers[i + 1]
    BY <1>3 DEF Moves
  <2> QED  BY <2>2, <2>3
<1>5. Popup!TypeOK' /\ Popup!NeverTwo'
  BY <1>0, <1>1, <1>3 DEF Popup!TypeOK, Popup!NeverTwo, Answers
<1>6. OneChain' /\ ChainKnows'  BY <1>1, <1>4 DEF OneChain, ChainKnows, Knows, Op
<1>7. OneRemoval'
  <2>1. ASSUME NEW i \in Spot', NEW j \in Spot', answers'[i].w = answers'[j].w PROVE i = j
    <3>1. i + 1 = j + 1  BY <1>0, <1>4, <2>1 DEF OneRemoval
    <3>2. i \in Nat /\ j \in Nat  BY <1>3 DEF Moves
    <3> QED  BY <3>1, <3>2
  <2>2. \A i \in Spot' : answers'[i].w \in (1..made') \ live'
    BY <1>0, <1>1, <1>4 DEF OneRemoval
  <2> QED  BY <2>1, <2>2 DEF OneRemoval
<1>8. Fresh'  BY <1>0, <1>1, <1>3, FreshMoves
<1>9. Erased'
  <2> SUFFICES ASSUME remembered # 0, remembered \notin live
               PROVE  \E i \in Spot : i > 1 /\ Erases(answers[i], remembered)
    BY <1>1, <1>3, ErasedMoves
  <2>1. PICK i \in Spot : Erases(answers[i], remembered)  BY <1>0 DEF Erased
  <2>2. i # 1 /\ i \in Nat \ {0}  BY <1>2, <1>3, <2>1 DEF Erases, Moves
  <2> QED  BY <2>1, <2>2
<1>10. \A w : ~ \E k \in Spot : Gone(answers[k], w)
  BY <1>0, <1>2 DEF OneChain, Gone, Op
<1>11. Owning'
  <2>1. \A i \in Spot : i > 1 /\ Owns(answers[i]) =>
           remembered' \in {answers[i].w, 0} /\ cached' # answers[i].w
    BY <1>0, <1>1, <1>10 DEF Owning
  <2> QED  BY <1>0, <1>3, <2>1, OwningMoves
<1>12. Agreed'  BY <1>0, <1>1, <1>10 DEF Agreed
<1>13. Memory'
  <2>1. ~ \E i \in Spot : Op(answers[i]) /\ answers[i].step # "kept"
    BY <1>0, <1>2 DEF OneChain, Op
  <2> QED  BY <1>0, <1>1, <2>1 DEF Memory
<1> QED  BY <1>5, <1>6, <1>7, <1>8, <1>9, <1>11, <1>12, <1>13 DEF PopupInv

\* The head of a removal's chain goes on as x.
LEMMA RemovalThen ==
    ASSUME PopupInv, NEW step, Popup!At(step), step \in {"removed", "asked", "owned"},
           NEW x \in Answers(made), ~Op(x), x.w = answers[1].w, answers' = Append(Tail(answers), x),
           UNCHANGED <<live, made, busy, remembered>>, cached' \in {cached, 0},
           remembered = answers[1].w => Erases(x, answers[1].w),
           Owns(x) => remembered = x.w /\ cached' # x.w
    PROVE  PopupInv'
<1>1. Popup!TypeOK /\ made \in Nat /\ cached \in 0..made /\ remembered \in 0..made
  BY DEF PopupInv, Popup!TypeOK
<1>2. answers \in Seq(Answers(made)) /\ answers # <<>> /\ 1 \in Spot /\ ~Op(answers[1])
  BY <1>1, HeadOf DEF Op
<1>3. Moves(1, {x}) /\ answers' \in Seq(Answers(made))  BY <1>2, ThenMoves
<1>4. Popup!TypeOK'  BY <1>1, <1>3 DEF Popup!TypeOK, Answers
<1> QED  BY <1>2, <1>3, <1>4, RemovalGoesOn

\* The head of a removal's chain is its last.
LEMMA RemovalEnds ==
    ASSUME PopupInv, NEW step, Popup!At(step), step \in {"removed", "asked", "owned"},
           answers' = Tail(answers), UNCHANGED <<live, made, busy, cached>>,
           remembered' = remembered \/ (remembered' = 0 /\ Owns(answers[1])),
           remembered' # answers[1].w
    PROVE  PopupInv'
<1>1. Popup!TypeOK /\ made \in Nat /\ cached \in 0..made /\ remembered' \in 0..made
  BY DEF PopupInv, Popup!TypeOK
<1>2. answers \in Seq(Answers(made)) /\ answers # <<>> /\ 1 \in Spot /\ ~Op(answers[1])
  BY <1>1, HeadOf DEF Op
<1>3. Moves(1, {}) /\ answers' \in Seq(Answers(made))  BY <1>2, TailMoves
<1>4. Popup!TypeOK'  BY <1>1, <1>3 DEF Popup!TypeOK, Answers
<1> QED  BY <1>2, <1>3, <1>4, RemovalGoesOn

\* What the invariant says at the head of a removal's chain.
LEMMA AtRemoval ==
    ASSUME PopupInv, NEW step, Popup!At(step), step \in {"removed", "asked", "owned"}
    PROVE  /\ Head(answers) = answers[1] /\ answers[1] \in Answers(made) /\ answers[1].step = step
           /\ answers[1].w \in 1..made /\ made \in Nat
           /\ cached \in 0..made /\ remembered \in 0..made
           /\ Owns(answers[1]) => remembered \in {answers[1].w, 0}
<1>1. Popup!TypeOK  BY DEF PopupInv
<1>2. /\ Head(answers) = answers[1] /\ answers[1] \in Answers(made) /\ answers[1].step = step
      /\ 1 \in Spot
  BY <1>1, HeadOf
<1>3. answers[1].w \in 1..made  BY <1>2 DEF PopupInv, OneRemoval, Op
<1>4. Owns(answers[1]) => remembered \in {answers[1].w, 0}  BY <1>2 DEF PopupInv, Owning
<1> QED  BY <1>1, <1>2, <1>3, <1>4 DEF Popup!TypeOK

\* A removal that is not to erase its window does not find it remembered.
LEMMA ErasesWhatItFinds ==
    ASSUME PopupInv, NEW step, Popup!At(step), step \in {"removed", "asked", "owned"},
           remembered = answers[1].w
    PROVE  Erases(answers[1], answers[1].w)
<1>1. 1 \in Spot /\ ~Op(answers[1]) /\ answers[1].w # 0 /\ answers[1].w \notin live
  BY AtRemoval, HeadOf DEF PopupInv, OneRemoval, Op
<1>2. PICK i \in Spot : Erases(answers[i], answers[1].w)  BY <1>1 DEF PopupInv, Erased
<1>3. i = 1  BY <1>1, <1>2 DEF PopupInv, OneRemoval, Op, Erases
<1> QED  BY <1>2, <1>3

LEMMA WindowRemovedStep == ASSUME PopupInv, Popup!WindowRemoved PROVE PopupInv'
<1> DEFINE h == answers[1]
           x == Popup!Answer(IF cached = h.w THEN "owned" ELSE "asked", h.w, remembered)
<1>1. /\ h.step = "removed" /\ Popup!At("removed") /\ Head(answers) = h /\ h.w \in 1..made
      /\ made \in Nat /\ cached \in 0..made /\ remembered \in 0..made
  BY AtRemoval DEF Popup!WindowRemoved
<1>2. /\ answers' = Append(Tail(answers), x) /\ cached' = IF cached = h.w THEN 0 ELSE cached
      /\ UNCHANGED <<live, made, remembered, busy>>
  BY <1>1 DEF Popup!WindowRemoved, Popup!Then, Popup!Disown
<1>3. /\ x.step \in {"asked", "owned"} /\ x.w = h.w /\ x.found = remembered /\ x \in Answers(made)
  BY <1>1 DEF Popup!Answer, Answers, Popup!Steps
<1> HIDE DEF x
<1>4. /\ ~Op(x) /\ remembered = h.w => Erases(x, h.w)
      /\ Owns(x) => remembered = x.w /\ cached' # x.w
  BY <1>1, <1>2, <1>3 DEF Op, Erases, Owns
<1> QED  BY <1>1, <1>2, <1>3, <1>4, RemovalThen DEF Op

LEMMA AskedStorageStep == ASSUME PopupInv, Popup!AskedStorage PROVE PopupInv'
<1> DEFINE h == answers[1]
           x == Popup!Answer("owned", h.w, remembered)
<1>1. /\ h.step = "asked" /\ Popup!At("asked") /\ Head(answers) = h /\ h.w \in 1..made
      /\ made \in Nat /\ cached \in 0..made /\ remembered \in 0..made
  BY AtRemoval DEF Popup!AskedStorage
<1>2. CASE h.found = h.w
  <2>1. /\ answers' = Append(Tail(answers), x) /\ cached' = IF cached = h.w THEN 0 ELSE cached
        /\ UNCHANGED <<live, made, remembered, busy>>
    BY <1>1, <1>2 DEF Popup!AskedStorage, Popup!Then, Popup!Disown
  <2>2. /\ x.step = "owned" /\ x.w = h.w /\ x.found = remembered /\ x \in Answers(made)
    BY <1>1 DEF Popup!Answer, Answers, Popup!Steps
  <2> HIDE DEF x
  <2>3. /\ remembered = h.w => Erases(x, h.w)
        /\ Owns(x) => remembered = x.w /\ cached' # x.w
        /\ ~Op(x)
    BY <1>1, <2>1, <2>2 DEF Op, Erases, Owns
  <2> QED  BY <1>1, <2>1, <2>2, <2>3, RemovalThen
<1>3. CASE h.found # h.w
  <2>1. answers' = Tail(answers) /\ UNCHANGED <<live, made, cached, remembered, busy>>
    BY <1>1, <1>3 DEF Popup!AskedStorage, Popup!Finished
  <2>2. remembered # h.w  BY <1>1, <1>3, ErasesWhatItFinds DEF Erases
  <2> QED  BY <1>1, <2>1, <2>2, RemovalEnds
<1> QED  BY <1>2, <1>3

LEMMA ForgetOwnedStep == ASSUME PopupInv, Popup!ForgetOwned PROVE PopupInv'
<1> DEFINE h == answers[1]
<1>1. /\ h.step = "owned" /\ Popup!At("owned") /\ Head(answers) = h /\ h.w \in 1..made
      /\ made \in Nat /\ cached \in 0..made /\ remembered \in 0..made
  BY AtRemoval DEF Popup!ForgetOwned
<1>2. /\ answers' = Tail(answers) /\ UNCHANGED <<live, made, cached, busy>>
      /\ remembered' = IF h.found = h.w THEN 0 ELSE remembered
  BY <1>1 DEF Popup!ForgetOwned, Popup!Finished, Popup!RemoveOwn
<1>3. remembered' = remembered \/ (remembered' = 0 /\ Owns(h))  BY <1>1, <1>2 DEF Owns
<1>4. remembered' # h.w
  BY <1>1, <1>2, ErasesWhatItFinds DEF Erases
<1> QED  BY <1>1, <1>2, <1>3, <1>4, RemovalEnds

(* A request arrives. *)
LEMMA RequestStep == ASSUME PopupInv, Popup!Request PROVE PopupInv'
<1> DEFINE x == Popup!Answer("bounds", 0, 0)
<1>0. /\ Popup!TypeOK /\ Popup!NeverTwo /\ OneChain /\ OneRemoval /\ ChainKnows
      /\ Fresh /\ Erased /\ Owning /\ Agreed /\ Memory
      /\ answers \in Seq(Answers(made)) /\ made \in Nat
  BY DEF PopupInv, Popup!TypeOK, Answers
<1>1. /\ ~busy /\ busy' = TRUE /\ answers' = Append(answers, x)
      /\ UNCHANGED <<live, made, cached, remembered>>
  BY DEF Popup!Request
<1>2. x.step = "bounds" /\ x.w = 0 /\ x.found = 0 /\ x \in Answers(made)
  BY <1>0 DEF Popup!Answer, Answers, Popup!Steps
<1> HIDE DEF x
<1>3. Moves(0, {x}) /\ answers' \in Seq(Answers(made))  BY <1>0, <1>1, <1>2, AppendMoves
<1>4. Op(x) /\ ~Remembers(x) /\ ~Owns(x) /\ Knows(x, cached, remembered, live)
  BY <1>2 DEF Op, Remembers, Owns, Knows
<1>5. \A i \in Spot' : \/ answers'[i] = x /\ i \notin Spot /\ \A j \in Spot' : j <= i
                       \/ i \in Spot /\ i > 0 /\ answers'[i] = answers[i] /\ ~Op(answers[i])
  <2>1. \A i \in Spot' : \/ answers'[i] = x /\ i \notin Spot /\ \A j \in Spot' : j <= i
                         \/ i \in Spot /\ i > 0 /\ answers'[i] = answers[i]
    BY <1>0, <1>1, <1>2, AppendSpots
  <2>2. \A i \in Spot : ~Op(answers[i])  BY <1>0, <1>1 DEF OneChain
  <2> QED  BY <2>1, <2>2
<1>6. \A i \in Spot : i \in Spot' /\ answers'[i] = answers[i] /\ i > 0
  <2> TAKE i \in Spot
  <2>1. i \in Nat /\ i > 0  BY <1>3 DEF Moves
  <2>2. i - 0 = i  BY <2>1
  <2> QED  BY <1>3, <2>1, <2>2 DEF Moves
<1>7. \E i \in Spot' : answers'[i] = x  BY <1>3 DEF Moves
<1>8. Popup!TypeOK' /\ Popup!NeverTwo'
  BY <1>0, <1>1, <1>3 DEF Popup!TypeOK, Popup!NeverTwo, Answers
<1>9. OneChain'
  <2>1. ASSUME NEW i \in Spot', NEW j \in Spot', Op(answers'[i]), Op(answers'[j]) PROVE i = j
    <3>1. i <= j /\ j <= i  BY <1>5, <2>1
    <3>2. i \in Nat /\ j \in Nat  BY <1>3 DEF Moves
    <3> QED  BY <3>1, <3>2
  <2> QED  BY <1>1, <1>4, <1>7, <2>1 DEF OneChain
<1>10. OneRemoval'
  <2>1. \A i \in Spot' : ~Op(answers'[i]) => i \in Spot /\ answers'[i] = answers[i]
    BY <1>4, <1>5
  <2> QED  BY <1>0, <1>1, <2>1 DEF OneRemoval
<1>11. ChainKnows'
  <2>1. \A i \in Spot' : answers'[i] = x \/ (i \in Spot /\ answers'[i] = answers[i])  BY <1>5
  <2> QED  BY <1>0, <1>1, <1>4, <2>1 DEF ChainKnows
<1>12. Fresh'  BY <1>0, <1>1, <1>3, <1>4, FreshMoves
<1>13. Erased'  BY <1>0, <1>1, <1>3, <1>6, ErasedMoves DEF Erased
<1>14. \A w : (\E k \in Spot : Gone(answers[k], w)) => \E k \in Spot' : Gone(answers'[k], w)
  BY <1>6
<1>15. Owning'
  <2>1. \A i \in Spot : i > 0 /\ Owns(answers[i]) =>
           /\ remembered' \in {answers[i].w, 0}
           /\ cached' = answers[i].w => \E k \in Spot' : Gone(answers'[k], cached')
    BY <1>0, <1>1, <1>14 DEF Owning
  <2> QED  BY <1>0, <1>3, <1>4, <2>1, OwningMoves
<1>16. Agreed'  BY <1>0, <1>1, <1>14 DEF Agreed
<1>17. Memory'
  <2>1. \E i \in Spot' : Op(answers'[i]) /\ answers'[i].step # "kept"  BY <1>2, <1>4, <1>7
  <2> QED  BY <2>1 DEF Memory
<1> QED  BY <1>8, <1>9, <1>10, <1>11, <1>12, <1>13, <1>15, <1>16, <1>17 DEF PopupInv

(* The user closes the popup. *)
LEMMA CloseWindowStep ==
    ASSUME PopupInv, NEW w \in Popup!Ids, Popup!CloseWindow(w) PROVE PopupInv'
<1> DEFINE x == Popup!Answer("removed", w, 0)
<1>0. /\ Popup!TypeOK /\ Popup!NeverTwo /\ OneChain /\ OneRemoval /\ ChainKnows
      /\ Fresh /\ Erased /\ Owning /\ Agreed /\ Memory
      /\ answers \in Seq(Answers(made)) /\ made \in Nat /\ live \subseteq 1..made
  BY DEF PopupInv, Popup!TypeOK, Answers
<1>1. /\ w \in live /\ live' = live \ {w} /\ answers' = Append(answers, x)
      /\ UNCHANGED <<made, cached, remembered, busy>>
  BY DEF Popup!CloseWindow
<1>2. x.step = "removed" /\ x.w = w /\ x.found = 0 /\ x \in Answers(made) /\ w \in 1..made
  BY <1>0, <1>1 DEF Popup!Answer, Answers, Popup!Steps
<1> HIDE DEF x
<1>3. Moves(0, {x}) /\ answers' \in Seq(Answers(made))  BY <1>0, <1>1, <1>2, AppendMoves
<1>4. ~Op(x) /\ ~Remembers(x) /\ ~Owns(x) /\ Erases(x, w)
      /\ \A c, r, l : Knows(x, c, r, l)
  BY <1>2 DEF Op, Remembers, Owns, Knows, Erases
<1>5. \A i \in Spot' : \/ answers'[i] = x /\ i \notin Spot /\ \A j \in Spot' : j <= i
                       \/ i \in Spot /\ i > 0 /\ answers'[i] = answers[i]
  BY <1>0, <1>1, <1>2, AppendSpots
<1>6. \A i \in Spot : i \in Spot' /\ answers'[i] = answers[i] /\ i > 0  BY <1>3 DEF Moves
<1>7. live = {w}  BY <1>0, <1>1 DEF Popup!NeverTwo
<1>8. Popup!TypeOK' /\ Popup!NeverTwo'
  BY <1>0, <1>1, <1>3 DEF Popup!TypeOK, Popup!NeverTwo, Answers
<1>9. OneChain'
  <2>1. \A i \in Spot' : Op(answers'[i]) => i \in Spot /\ Op(answers[i])  BY <1>4, <1>5
  <2>2. \A i \in Spot : Op(answers[i]) => i \in Spot' /\ Op(answers'[i])  BY <1>6
  <2> QED  BY <1>0, <1>1, <2>1, <2>2 DEF OneChain
<1>10. OneRemoval'
  <2>1. \A i \in Spot : ~Op(answers[i]) => answers[i].w # w  BY <1>0, <1>1 DEF OneRemoval
  <2>2. ASSUME NEW i \in Spot', NEW j \in Spot', ~Op(answers'[i]), ~Op(answers'[j]),
               answers'[i].w = answers'[j].w
        PROVE  i = j
    <3>1. i \in Nat /\ j \in Nat  BY <1>3 DEF Moves
    <3>2. CASE answers'[i].w = w
      <4>1. i \notin Spot /\ j \notin Spot  BY <1>6, <2>1, <2>2, <3>2
      <4>2. i <= j /\ j <= i  BY <1>5, <4>1
      <4> QED  BY <3>1, <4>2
    <3>3. CASE answers'[i].w # w
      <4>1. i \in Spot /\ j \in Spot /\ answers'[i] = answers[i] /\ answers'[j] = answers[j]
        BY <1>2, <1>5, <2>2, <3>3
      <4> QED  BY <1>0, <2>2, <4>1 DEF OneRemoval
    <3> QED  BY <3>2, <3>3
  <2>3. ASSUME NEW i \in Spot', ~Op(answers'[i]) PROVE answers'[i].w \in (1..made') \ live'
    BY <1>0, <1>1, <1>2, <1>5, <2>3 DEF OneRemoval
  <2> QED  BY <2>2, <2>3 DEF OneRemoval
<1>11. ChainKnows'
  <2>1. \A i \in Spot' : answers'[i] = x \/ (i \in Spot /\ answers'[i] = answers[i])  BY <1>5
  <2>2. ASSUME NEW e, Knows(e, cached, remembered, live) PROVE Knows(e, cached, remembered, live')
    BY <1>1, <2>2 DEF Knows
  <2> QED  BY <1>0, <1>1, <1>4, <2>1, <2>2 DEF ChainKnows
<1>12. Fresh'  BY <1>0, <1>1, <1>2, <1>3, <1>4, FreshMoves
<1>13. Erased'  BY <1>0, <1>1, <1>3, <1>4, <1>6, ErasedMoves DEF Erased
<1>14. \A v : (\E k \in Spot : Gone(answers[k], v)) => \E k \in Spot' : Gone(answers'[k], v)
  BY <1>6
<1>15. Owning'
  <2>1. \A i \in Spot : i > 0 /\ Owns(answers[i]) =>
           /\ remembered' \in {answers[i].w, 0}
           /\ cached' = answers[i].w => \E k \in Spot' : Gone(answers'[k], cached')
    BY <1>0, <1>1, <1>14 DEF Owning
  <2> QED  BY <1>0, <1>3, <1>4, <2>1, OwningMoves
<1>16. Agreed'  BY <1>0, <1>1, <1>14 DEF Agreed
<1>17. Memory'  BY <1>1, <1>7 DEF Memory
<1> QED  BY <1>8, <1>9, <1>10, <1>11, <1>12, <1>13, <1>15, <1>16, <1>17 DEF PopupInv

(* The idle worker is stopped. *)
LEMMA RestartStep == ASSUME PopupInv, Popup!RestartWorker PROVE PopupInv'
<1>1. /\ answers = <<>> /\ answers' = <<>> /\ cached' = 0 /\ UNCHANGED <<live, made, remembered, busy>>
  BY DEF Popup!RestartWorker
<1>2. Spot = {} /\ Spot' = {}  BY <1>1 DEF Spot
<1>3. Popup!TypeOK' /\ Popup!NeverTwo'
  BY <1>1 DEF PopupInv, Popup!TypeOK, Popup!NeverTwo
<1> QED
  BY <1>1, <1>2, <1>3 DEF PopupInv, OneChain, OneRemoval, ChainKnows, Fresh, Erased, Owning, Agreed, Memory

LEMMA PopupStep ==
    ASSUME MaxWindows \in Nat, PopupInv, [Popup!Next]_Popup!popupVars
    PROVE  PopupInv'
<1>1. CASE UNCHANGED Popup!popupVars
  BY <1>1 DEF Popup!popupVars, PopupInv, Popup!TypeOK, Popup!NeverTwo, OneChain, OneRemoval, ChainKnows,
     Fresh, Erased, Owning, Agreed, Memory, Spot
<1> QED
  BY <1>1, RequestStep, FindStep, FindStoredStep, FindWindowStep, ForgottenStep, ListedStep, KnownStep,
     FocusedStep, LostStep, ReplacedStep, CreatedStep, KeptStep, WindowRemovedStep, AskedStorageStep,
     ForgetOwnedStep, RestartStep, CloseWindowStep
  DEF Popup!Next

\* However requests, closings and restarts interleave, there is never a second
\* popup, and at rest storage remembers the one that was made or focused last
\* (service-worker.ts:53-150).
LEMMA PopupCorrect ==
    ASSUME Popup!PopupAssumption PROVE Popup!Spec => []Popup!AtMostOnePopup
<1>0. MaxWindows \in Nat \ {0}  BY DEF Popup!PopupAssumption
<1>1. Popup!Init => PopupInv  BY <1>0, PopupInit
<1>2. PopupInv /\ [Popup!Next]_Popup!popupVars => PopupInv'  BY <1>0, PopupStep
<1>3. PopupInv => Popup!AtMostOnePopup  BY <1>0, PopupSafe
<1> QED  BY <1>1, <1>2, <1>3, PTL DEF Popup!Spec

-----------------------------------------------------------------------------
(***************************************************************************)
(* The shared code in the editors of pages.  Where a text goes next is     *)
(* decided by what the queues between the page, its content script and the *)
(* panel still hold, so the invariant is about their last messages.        *)
(***************************************************************************)

CodeText == Editor!Texts \cup {Template}

\* c is the template or a text written in room r.
WrittenIn(w, c, r) == c = Template \/ (c \in 1..Len(w) /\ w[c] = r)

EditorTypes ==
    /\ panelRoom \in Rooms \cup {NoPanelRoom}
    /\ panelCode \in CodeText
    /\ text \in [Pages -> CodeText] /\ lastSentCode \in [Pages -> CodeText]
    /\ debounce \in [Pages -> BOOLEAN]
    /\ changes \in [Pages -> Seq(CodeText)] /\ toPanel \in [Pages -> Seq(CodeText)]
    /\ toPage \in [Pages -> Seq(CodeText)]
    /\ toScript \in [Pages -> Seq([room : Rooms, code : CodeText])]
    /\ written \in Seq(Rooms) /\ panelMoves \in Nat /\ Len(written) <= MaxChanges

\* Every text under way is of the page's room, or names the room it is of.
OwnRoom ==
    /\ WrittenIn(written, panelCode, panelRoom)
    /\ \A t \in Pages :
          /\ WrittenIn(written, text[t], PageRoom[t]) /\ WrittenIn(written,
              lastSentCode[t], PageRoom[t])
          /\ \A i \in 1..Len(changes[t]) : WrittenIn(written, changes[t][i], PageRoom[t])
          /\ \A i \in 1..Len(toPanel[t]) : WrittenIn(written, toPanel[t][i], PageRoom[t])
          /\ \A i \in 1..Len(toPage[t]) : WrittenIn(written, toPage[t][i], PageRoom[t])
          /\ \A i \in 1..Len(toScript[t]) : WrittenIn(written, toScript[t][i].code,
              toScript[t][i].room)

\* What the panel still has to hear from a page that it does not hold itself, and
\* what it told the pages of its room that page t has not taken.
EndsWith(s, c) == s # <<>> /\ s[Len(s)] = c
NewsFor(t) == \E i \in 1..Len(toPanel[t]) : toPanel[t][i] # panelCode
Coming(t) == {i \in 1..Len(toScript[t]) : toScript[t][i].room = PageRoom[t]}

\* The last text coming to a page is the panel's.  When none is, the content script
\* last saw the panel's text or one the panel will hear of last; and the page holds
\* it, will be given it, or has a change of its own to report.
Follows(t) ==
    /\ \A i \in Coming(t) : (\A j \in Coming(t) : j <= i) => toScript[t][i].code = panelCode
    /\ Coming(t) = {} =>
          /\ lastSentCode[t] = panelCode \/ EndsWith(toPanel[t], lastSentCode[t])
          /\ toPage[t] # <<>> => NewsFor(t) \/ EndsWith(toPage[t], lastSentCode[t])
          /\ toPage[t] = <<>> =>
                \/ NewsFor(t) \/ debounce[t]
                \/ text[t] = lastSentCode[t] \/ EndsWith(changes[t], text[t])

AllFollow == \A t \in Pages : PageRoom[t] = panelRoom => Follows(t)

EditorInv == EditorTypes /\ OwnRoom /\ AllFollow

\* A queue with a message more, and with one less.
LEMMA LongerQueue ==
    ASSUME NEW S, NEW s \in Seq(S), NEW e \in S
    PROVE  /\ Append(s, e) \in Seq(S) /\ Append(s, e) # <<>>
           /\ Len(Append(s, e)) = Len(s) + 1 /\ Len(s) \in Nat
           /\ \A i \in 1..Len(s) : Append(s, e)[i] = s[i]
           /\ Append(s, e)[Len(s) + 1] = e
BY AppendProperties, LenProperties, EmptySeq

LEMMA ShorterQueue ==
    ASSUME NEW S, NEW s \in Seq(S), s # <<>>
    PROVE  /\ Tail(s) \in Seq(S) /\ Head(s) = s[1] /\ Head(s) \in S
           /\ Len(s) \in Nat /\ Len(s) >= 1 /\ Len(Tail(s)) = Len(s) - 1
           /\ \A i \in 1..(Len(s) - 1) : Tail(s)[i] = s[i + 1]
           /\ Tail(s) = <<>> <=> Len(s) = 1
<1>1. /\ Tail(s) \in Seq(S)
      /\ Head(s) \in S
      /\ Len(s) >= 1
      /\ Len(Tail(s)) = Len(s) - 1
      /\ Len(s) \in Nat
  BY HeadTailProperties, EmptySeq, LenProperties
<1>2. \A i \in 1..(Len(s) - 1) : Tail(s)[i] = s[i + 1]
  BY <1>1, HeadTailProperties
<1>3. Tail(s) = <<>> <=> Len(s) = 1
  BY <1>1, EmptySeq
<1> QED BY <1>1, <1>2, <1>3

\* It holds at first.
LEMMA EditorInit == ASSUME Editor!EditorAssumption, Editor!Init PROVE EditorInv
<1>1. /\ <<>> \in Seq(CodeText)
      /\ <<>> \in Seq([room : Rooms, code : CodeText])
      /\ <<>> \in Seq(Rooms)
      /\ Len(<<>>) = 0
  BY EmptySeq
<1>2. EditorTypes
  BY <1>1 DEF EditorTypes, Editor!Init, Editor!Empty, CodeText, Editor!EditorAssumption
<1>3. OwnRoom
  BY <1>1 DEF OwnRoom, Editor!Init, Editor!Empty, WrittenIn
<1>4. AllFollow
  BY <1>1 DEF AllFollow, Follows, Coming, Editor!Init, Editor!Empty
<1> QED BY <1>2, <1>3, <1>4 DEF EditorInv

\* A text keeps its room.
LEMMA StillOf ==
    ASSUME EditorTypes, written' = written \/ (\E r \in Rooms : Editor!Write(r)), NEW c,
               NEW r, WrittenIn(written, c, r)
    PROVE  WrittenIn(written', c, r)
<1>1. CASE written' = written
  BY <1>1 DEF WrittenIn
<1>2. ASSUME NEW x \in Rooms, Editor!Write(x) PROVE WrittenIn(written', c, r)
  <2>1. written \in Seq(Rooms) /\ written' = Append(written, x)
    BY <1>2 DEF Editor!Write, EditorTypes
  <2> QED BY <2>1, LongerQueue DEF WrittenIn
<1> QED BY <1>1, <1>2

\* A new text is of the room it is written in.
LEMMA WrittenText ==
    ASSUME EditorTypes, NEW r \in Rooms, Editor!Write(r), Editor!EditorAssumption
    PROVE  /\ written' \in Seq(Rooms) /\ Len(written') = Len(written) + 1
           /\ Len(written') \in Editor!Texts /\ Len(written') <= MaxChanges
           /\ written'[Len(written')] = r
           /\ WrittenIn(written', Len(written'), r)
<1>1. written \in Seq(Rooms) /\ written' = Append(written, r) /\ panelMoves \in Nat
  BY DEF Editor!Write, EditorTypes
<1>2. Len(written) + panelMoves < MaxChanges
  BY DEF Editor!Write, Editor!Free
<1>3. written' \in Seq(Rooms) /\ Len(written') = Len(written) + 1 /\ Len(written) \in Nat
      /\ written'[Len(written')] = r
  BY <1>1, LongerQueue
<1> QED BY <1>1, <1>2, <1>3 DEF Editor!Texts, Editor!EditorAssumption, WrittenIn

USE DEF Editor!EditorAssumption

\* A message to the pages of the panel's room ends what may have gone before.
LEMMA Told ==
    ASSUME EditorTypes, NEW t \in Pages, NEW c \in CodeText, PageRoom[t] \in Rooms,
           panelCode' = c, Editor!broadcastToContentTabs(PageRoom[t], c)
    PROVE  Follows(t)'
<1> DEFINE s == toScript[t]  m == [room |-> PageRoom[t], code |-> c]
<1>1. s \in Seq([room : Rooms, code : CodeText]) /\ m \in [room : Rooms, code : CodeText]
  BY DEF EditorTypes
<1>2. toScript'[t] = Append(s, m)
  BY DEF Editor!broadcastToContentTabs
<1>3. Len(toScript'[t]) = Len(s) + 1 /\ Len(s) \in Nat /\ toScript'[t][Len(s) + 1] = m
  <2> HIDE DEF s, m
  <2> QED BY <1>1, <1>2, LongerQueue
<1>4. Len(s) + 1 \in Coming(t)'
  BY <1>3 DEF Coming
<1>5. ASSUME NEW i \in Coming(t)', \A j \in Coming(t)' : j <= i
      PROVE  toScript'[t][i].code = panelCode'
  <2>1. i = Len(s) + 1
    <3> HIDE DEF s
    <3>1. i \in 1..Len(toScript'[t]) /\ Len(s) + 1 <= i
      BY <1>4, <1>5 DEF Coming
    <3> QED BY <3>1, <1>3
  <2> QED BY <2>1, <1>3
<1> QED BY <1>4, <1>5 DEF Follows

\* Nothing of the page and nothing it is told changes.
LEMMA Untouched ==
    ASSUME NEW t, Follows(t), panelCode' = panelCode, toScript'[t] = toScript[t],
           toPanel'[t] = toPanel[t], toPage'[t] = toPage[t], changes'[t] = changes[t],
           text'[t] = text[t], lastSentCode'[t] = lastSentCode[t], debounce'[t] = debounce[t]
    PROVE  Follows(t)'
BY DEF Follows, Coming, NewsFor, EndsWith

\* A text typed in the page.
LEMMA TypeStep ==
    ASSUME Editor!EditorAssumption, EditorInv, NEW t0 \in Pages, Editor!Type(t0)
    PROVE  EditorInv'
<1> USE DEF EditorInv
<1>1. PageRoom[t0] \in Rooms /\ Editor!Write(PageRoom[t0]) 
  BY DEF Editor!Type
<1>2. /\ written' \in Seq(Rooms) /\ Len(written') \in Editor!Texts
          /\ Len(written') <= MaxChanges
      /\ WrittenIn(written', Len(written'), PageRoom[t0])
  BY <1>1, WrittenText
<1>3. EditorTypes'
  BY <1>2 DEF Editor!Type, EditorTypes, CodeText
<1>4. \A c, r : WrittenIn(written, c, r) => WrittenIn(written', c, r)
  BY <1>1, StillOf
<1>5. text' = [text EXCEPT ![t0] = Len(written')] /\ text \in [Pages -> CodeText]
  BY DEF Editor!Type, EditorTypes
<1>6. OwnRoom'
  <2>1. \A t \in Pages : WrittenIn(written', text'[t], PageRoom[t])
    BY <1>2, <1>4, <1>5 DEF OwnRoom
  <2> QED BY <1>4, <2>1 DEF OwnRoom, Editor!Type
<1>7. ASSUME NEW t \in Pages, PageRoom[t] = panelRoom' PROVE Follows(t)'
  <2>1. Follows(t)
    BY <1>7 DEF AllFollow, Editor!Type
  <2>2. CASE t # t0
    BY <2>1, <2>2, <1>5, Untouched DEF Editor!Type, EditorTypes
  <2>3. CASE t = t0
    <3>1. debounce'[t] = TRUE
      BY <2>3 DEF Editor!Type, EditorTypes
    <3> QED BY <2>1, <3>1 DEF Follows, Coming, NewsFor, EndsWith, Editor!Type
  <2> QED BY <2>2, <2>3
<1> QED BY <1>3, <1>6, <1>7 DEF AllFollow

\* The timer sends what the page holds.
LEMMA DebounceStep ==
    ASSUME Editor!EditorAssumption, EditorInv, NEW t0 \in Pages, Editor!DebounceFires(t0)
    PROVE  EditorInv'
<1> USE DEF EditorInv
<1>1. /\ changes[t0] \in Seq(CodeText)
      /\ text[t0] \in CodeText
      /\ changes \in [Pages -> Seq(CodeText)]
  BY DEF EditorTypes
<1>2. /\ Append(changes[t0], text[t0]) \in Seq(CodeText) /\ Append(changes[t0],
          text[t0]) # <<>>
      /\ Len(Append(changes[t0], text[t0])) = Len(changes[t0]) + 1 /\ Len(changes[t0]) \in Nat
      /\ \A i \in 1..Len(changes[t0]) : Append(changes[t0], text[t0])[i] = changes[t0][i]
      /\ Append(changes[t0], text[t0])[Len(changes[t0]) + 1] = text[t0]
  BY <1>1, LongerQueue
<1>3. changes' = [changes EXCEPT ![t0] = Append(changes[t0], text[t0])]
  BY DEF Editor!DebounceFires, Editor!Put
<1>4. EditorTypes'
  BY <1>1, <1>2, <1>3 DEF Editor!DebounceFires, EditorTypes
<1>5. OwnRoom'
  <2>1. ASSUME NEW t \in Pages, NEW i \in 1..Len(changes'[t])
        PROVE  WrittenIn(written, changes'[t][i], PageRoom[t])
    <3>1. CASE t # t0
      BY <3>1, <2>1, <1>3, <1>1 DEF OwnRoom
    <3>2. CASE t = t0
      <4>1. i \in 1..Len(changes[t0]) \/ i = Len(changes[t0]) + 1
        BY <2>1, <3>2, <1>1, <1>2, <1>3
      <4> QED BY <3>2, <4>1, <1>1, <1>2, <1>3 DEF OwnRoom
    <3> QED BY <3>1, <3>2
  <2> QED BY <2>1 DEF OwnRoom, Editor!DebounceFires
<1>6. ASSUME NEW t \in Pages, PageRoom[t] = panelRoom' PROVE Follows(t)'
  <2>1. Follows(t)
    BY <1>6 DEF AllFollow, Editor!DebounceFires
  <2>2. CASE t # t0
    BY <2>1, <2>2, <1>1, <1>3, Untouched DEF Editor!DebounceFires, EditorTypes
  <2>3. CASE t = t0
    <3>1. EndsWith(changes'[t], text'[t])
      BY <2>3, <1>1, <1>2, <1>3 DEF EndsWith, Editor!DebounceFires
    <3> QED BY <2>1, <3>1 DEF Follows, Coming, NewsFor, EndsWith, Editor!DebounceFires
  <2> QED BY <2>2, <2>3
<1> QED BY <1>4, <1>5, <1>6 DEF AllFollow

\* The page takes what the panel told it.
LEMMA ApplyStep ==
    ASSUME Editor!EditorAssumption, EditorInv, NEW t0 \in Pages, Editor!ApplyRemoteCode(t0)
    PROVE  EditorInv'
<1> USE DEF EditorInv
<1>1. /\ toPage[t0] \in Seq(CodeText)
      /\ toPage \in [Pages -> Seq(CodeText)]
      /\ text \in [Pages -> CodeText]
      /\ toPage[t0] # <<>>
  BY DEF EditorTypes, Editor!ApplyRemoteCode
<1>q. PICK q : q = toPage[t0]
  OBVIOUS
<1>2. /\ Tail(q) \in Seq(CodeText) /\ Head(q) = q[1] /\ Head(q) \in CodeText
      /\ Len(q) \in Nat /\ Len(q) >= 1 /\ Len(Tail(q)) = Len(q) - 1
      /\ \A i \in 1..(Len(q) - 1) : Tail(q)[i] = q[i + 1]
      /\ Tail(q) = <<>> <=> Len(q) = 1
  BY <1>1, <1>q, ShorterQueue
<1>3. toPage' = [toPage EXCEPT ![t0] = Tail(q)] /\ text' = [text EXCEPT ![t0] = Head(q)]
  BY <1>q DEF Editor!ApplyRemoteCode, Editor!Drop
<1>4. EditorTypes'
  <2>1. toPage' \in [Pages -> Seq(CodeText)] /\ text' \in [Pages -> CodeText]
    BY <1>1, <1>2, <1>3
  <2> QED BY <2>1 DEF Editor!ApplyRemoteCode, EditorTypes
<1>5. OwnRoom'
  <2>0. \A i \in 1..Len(q) : WrittenIn(written, q[i], PageRoom[t0])
    BY <1>q DEF OwnRoom
  <2>1. ASSUME NEW t \in Pages, NEW i \in 1..Len(toPage'[t])
        PROVE  WrittenIn(written, toPage'[t][i], PageRoom[t])
    <3>1. CASE t # t0
      BY <3>1, <2>1, <1>3, <1>1 DEF OwnRoom
    <3>2. CASE t = t0
      <4>1. i \in 1..(Len(q) - 1) /\ i + 1 \in 1..Len(q) /\ toPage'[t] = Tail(q)
        BY <2>1, <3>2, <1>1, <1>2, <1>3
      <4> QED BY <3>2, <4>1, <1>2, <2>0
    <3> QED BY <3>1, <3>2
  <2>2. \A t \in Pages : WrittenIn(written, text'[t], PageRoom[t])
    BY <2>0, <1>1, <1>2, <1>3 DEF OwnRoom
  <2> QED BY <2>1, <2>2 DEF OwnRoom, Editor!ApplyRemoteCode
<1>6. ASSUME NEW t \in Pages, PageRoom[t] = panelRoom' PROVE Follows(t)'
  <2>1. Follows(t)
    BY <1>6 DEF AllFollow, Editor!ApplyRemoteCode
  <2>2. CASE t # t0
    BY <2>1, <2>2, <1>1, <1>3, Untouched DEF Editor!ApplyRemoteCode, EditorTypes
  <2>3. CASE t = t0
    <3>1. toPage'[t] = Tail(q) /\ text'[t] = q[1] /\ q = toPage[t] /\ q # <<>>
      BY <2>3, <1>q, <1>1, <1>2, <1>3
    <3>2. ASSUME EndsWith(q, lastSentCode[t])
          PROVE  /\ (Tail(q) = <<>> => q[1] = lastSentCode[t])
                 /\ (Tail(q) # <<>> => EndsWith(Tail(q), lastSentCode[t]))
      BY <3>2, <1>2 DEF EndsWith
    <3> QED BY <2>1, <3>1, <3>2 DEF Follows, Coming, NewsFor, EndsWith, Editor!ApplyRemoteCode
  <2> QED BY <2>2, <2>3
<1> QED BY <1>4, <1>5, <1>6 DEF AllFollow

\* The content script passes a change on, or knows it already.
LEMMA ChangedStep ==
    ASSUME Editor!EditorAssumption, EditorInv, NEW t0 \in Pages, Editor!localCodeChanged(t0)
    PROVE  EditorInv'
<1> USE DEF EditorInv
<1>1. /\ changes[t0] \in Seq(CodeText) /\ changes \in [Pages -> Seq(CodeText)]
          /\ changes[t0] # <<>>
      /\ toPanel[t0] \in Seq(CodeText) /\ toPanel \in [Pages -> Seq(CodeText)]
      /\ lastSentCode \in [Pages -> CodeText]
  BY DEF EditorTypes, Editor!localCodeChanged
<1>q. PICK q : q = changes[t0]
  OBVIOUS
<1>2. /\ Tail(q) \in Seq(CodeText) /\ Head(q) = q[1] /\ Head(q) \in CodeText
      /\ Len(q) \in Nat /\ Len(q) >= 1 /\ Len(Tail(q)) = Len(q) - 1
      /\ \A i \in 1..(Len(q) - 1) : Tail(q)[i] = q[i + 1]
      /\ Tail(q) = <<>> <=> Len(q) = 1
  BY <1>1, <1>q, ShorterQueue
<1>3. changes' = [changes EXCEPT ![t0] = Tail(q)]
  BY <1>q DEF Editor!localCodeChanged, Editor!Drop
<1>4. \A i \in 1..Len(q) : WrittenIn(written, q[i], PageRoom[t0])
  BY <1>q DEF OwnRoom
<1>5. ASSUME NEW t \in Pages, NEW i \in 1..Len(changes'[t])
      PROVE  WrittenIn(written, changes'[t][i], PageRoom[t])
  <2>1. CASE t # t0
    BY <2>1, <1>5, <1>3, <1>1 DEF OwnRoom
  <2>2. CASE t = t0
    <3>1. i \in 1..(Len(q) - 1) /\ i + 1 \in 1..Len(q) /\ changes'[t] = Tail(q)
      BY <1>5, <2>2, <1>1, <1>2, <1>3
    <3> QED BY <2>2, <3>1, <1>2, <1>4
  <2> QED BY <2>1, <2>2
<1>6. changes' \in [Pages -> Seq(CodeText)]
  BY <1>1, <1>2, <1>3
<1>7. \A t \in Pages : PageRoom[t] = panelRoom' => Follows(t)
  BY DEF AllFollow, Editor!localCodeChanged
<1>8. CASE Editor!IsNews(t0, q[1])
  <2>1. /\ lastSentCode' = [lastSentCode EXCEPT ![t0] = q[1]]
        /\ toPanel' = [toPanel EXCEPT ![t0] = Append(toPanel[t0], q[1])]
    BY <1>8, <1>2, <1>q DEF Editor!localCodeChanged, Editor!Put
  <2>2. /\ Append(toPanel[t0], q[1]) \in Seq(CodeText) /\ Append(toPanel[t0], q[1]) # <<>>
        /\ Len(Append(toPanel[t0], q[1])) = Len(toPanel[t0]) + 1 /\ Len(toPanel[t0]) \in Nat
        /\ \A i \in 1..Len(toPanel[t0]) : Append(toPanel[t0], q[1])[i] = toPanel[t0][i]
        /\ Append(toPanel[t0], q[1])[Len(toPanel[t0]) + 1] = q[1]
    BY <1>1, <1>2, LongerQueue
  <2>3. EditorTypes'
    <3>1. toPanel' \in [Pages -> Seq(CodeText)] /\ lastSentCode' \in [Pages -> CodeText]
      BY <1>1, <1>2, <2>1, <2>2
    <3> QED BY <3>1, <1>6 DEF Editor!localCodeChanged, EditorTypes
  <2>4. OwnRoom'
    <3>1. 1 \in 1..Len(q)
      BY <1>2
    <3>2. WrittenIn(written, q[1], PageRoom[t0])
      BY <3>1, <1>4
    <3>3. ASSUME NEW t \in Pages, NEW i \in 1..Len(toPanel'[t])
          PROVE  WrittenIn(written, toPanel'[t][i], PageRoom[t])
      <4>1. CASE t # t0
        BY <4>1, <3>3, <2>1, <1>1 DEF OwnRoom
      <4>2. CASE t = t0
        <5>1. i \in 1..Len(toPanel[t0]) \/ i = Len(toPanel[t0]) + 1
          BY <3>3, <4>2, <1>1, <2>1, <2>2
        <5> QED BY <4>2, <5>1, <3>2, <1>1, <2>1, <2>2 DEF OwnRoom
      <4> QED BY <4>1, <4>2
    <3>4. \A t \in Pages : WrittenIn(written, lastSentCode'[t], PageRoom[t])
      BY <3>2, <2>1, <1>1 DEF OwnRoom
    <3> QED BY <1>5, <3>3, <3>4 DEF OwnRoom, Editor!localCodeChanged
  <2>5. ASSUME NEW t \in Pages, PageRoom[t] = panelRoom' PROVE Follows(t)'
    <3>1. Follows(t)
      BY <2>5, <1>7
    <3>2. CASE t # t0
      BY <3>1, <3>2, <1>1, <1>3, <2>1, Untouched DEF Editor!localCodeChanged
    <3>3. CASE t = t0
      <4>1. EndsWith(toPanel'[t], lastSentCode'[t])
        BY <3>3, <1>1, <2>1, <2>2 DEF EndsWith
      <4>2. Coming(t) = {} => NewsFor(t)'
        <5>1. SUFFICES ASSUME Coming(t) = {} PROVE NewsFor(t)'
          OBVIOUS
        <5>2. /\ q[1] # lastSentCode[t]
              /\ panelCode' = panelCode
              /\ toPanel'[t] = Append(toPanel[t0], q[1])
          BY <3>3, <1>8, <1>1, <2>1 DEF Editor!IsNews, Editor!localCodeChanged
        <5>3. CASE lastSentCode[t] = panelCode
          BY <5>2, <5>3, <2>2 DEF NewsFor
        <5>4. CASE EndsWith(toPanel[t], lastSentCode[t]) /\ lastSentCode[t] # panelCode
          <6>1. Len(toPanel[t0]) \in 1..Len(toPanel[t0])
            BY <5>4, <3>3, <1>1, EmptySeq, LenProperties DEF EndsWith
          <6> QED BY <6>1, <3>3, <5>2, <5>4, <2>2 DEF NewsFor, EndsWith
        <5> QED BY <5>1, <5>3, <5>4, <3>1 DEF Follows
      <4> QED BY <3>1, <4>1, <4>2 DEF Follows, Coming, Editor!localCodeChanged
    <3> QED BY <3>2, <3>3
  <2> QED BY <2>3, <2>4, <2>5 DEF AllFollow
<1>9. CASE ~Editor!IsNews(t0, q[1])
  <2>1. UNCHANGED <<lastSentCode, toPanel>>
    BY <1>9, <1>2, <1>q DEF Editor!localCodeChanged
  <2>2. EditorTypes'
    BY <2>1, <1>6 DEF Editor!localCodeChanged, EditorTypes
  <2>3. OwnRoom'
    BY <2>1, <1>5 DEF OwnRoom, Editor!localCodeChanged
  <2>4. ASSUME NEW t \in Pages, PageRoom[t] = panelRoom' PROVE Follows(t)'
    <3>1. Follows(t)
      BY <2>4, <1>7
    <3>2. CASE t # t0
      BY <3>1, <3>2, <1>1, <1>3, <2>1, Untouched DEF Editor!localCodeChanged
    <3>3. CASE t = t0
      <4>1. changes'[t] = Tail(q) /\ q = changes[t] /\ q[1] = lastSentCode[t]
        BY <3>3, <1>1, <1>3, <1>q, <1>9 DEF Editor!IsNews
      <4>2. ASSUME EndsWith(q, text[t])
            PROVE  text[t] = lastSentCode[t] \/ EndsWith(Tail(q), text[t])
        BY <4>1, <4>2, <1>2 DEF EndsWith
      <4> QED BY <3>1, <4>1, <4>2, <2>1 DEF Follows, Coming, NewsFor, EndsWith,
          Editor!localCodeChanged
    <3> QED BY <3>2, <3>3
  <2> QED BY <2>2, <2>3, <2>4 DEF AllFollow
<1> QED BY <1>8, <1>9

\* A broadcast text is of the room it is broadcast to.
LEMMA Broadcasted ==
    ASSUME EditorTypes, NEW r \in Rooms, NEW c \in CodeText,
               Editor!broadcastToContentTabs(r, c),
           NEW w, WrittenIn(w, c, r),
           \A t \in Pages : \A i \in 1..Len(toScript[t]) : WrittenIn(w,
               toScript[t][i].code, toScript[t][i].room)
    PROVE  /\ toScript' \in [Pages -> Seq([room : Rooms, code : CodeText])]
           /\ \A t \in Pages : \A i \in 1..Len(toScript'[t]) :
                 WrittenIn(w, toScript'[t][i].code, toScript'[t][i].room)
<1>m. PICK m : m = [room |-> r, code |-> c]
  OBVIOUS
<1>M. PICK M : M = [room : Rooms, code : CodeText]
  OBVIOUS
<1>1. m \in M /\ m.room = r /\ m.code = c
  BY <1>m, <1>M
<1>2. toScript \in [Pages -> Seq(M)] /\ toScript' = [t \in Pages |-> Append(toScript[t], m)]
  BY <1>m, <1>M DEF EditorTypes, Editor!broadcastToContentTabs
<1>3. toScript' \in [Pages -> Seq(M)]
  BY <1>1, <1>2, AppendProperties
<1>4. ASSUME NEW t \in Pages, NEW i \in 1..Len(toScript'[t])
      PROVE  WrittenIn(w, toScript'[t][i].code, toScript'[t][i].room)
  <2>1. toScript[t] \in Seq(M) /\ toScript'[t] = Append(toScript[t], m)
    BY <1>2
  <2>2. /\ Len(toScript'[t]) = Len(toScript[t]) + 1 /\ Len(toScript[t]) \in Nat
        /\ \A j \in 1..Len(toScript[t]) : toScript'[t][j] = toScript[t][j]
        /\ toScript'[t][Len(toScript[t]) + 1] = m
    BY <1>1, <2>1, LongerQueue
  <2>3. CASE i \in 1..Len(toScript[t])
    BY <2>2, <2>3
  <2>4. CASE i = Len(toScript[t]) + 1
    BY <2>2, <2>4, <1>1
  <2> QED BY <2>2, <2>3, <2>4
<1> QED BY <1>M, <1>3, <1>4

\* The content script takes a text of its room, and lets one of another room go.
LEMMA RemoteStep ==
    ASSUME Editor!EditorAssumption, EditorInv, NEW t0 \in Pages,
               Editor!applyRemoteCodeToPage(t0)
    PROVE  EditorInv'
<1> USE DEF EditorInv
<1>M. PICK M : M = [room : Rooms, code : CodeText]
  OBVIOUS
<1>q. PICK q : q = toScript[t0]
  OBVIOUS
<1>m. PICK m : m = q[1]
  OBVIOUS
<1>c. PICK c : c = m.code
  OBVIOUS
<1>1. /\ toScript[t0] \in Seq(M) /\ toScript \in [Pages -> Seq(M)] /\ toScript[t0] # <<>>
      /\ toPage[t0] \in Seq(CodeText) /\ toPage \in [Pages -> Seq(CodeText)]
      /\ lastSentCode \in [Pages -> CodeText] /\ PageRoom[t0] \in Rooms
  BY <1>M DEF EditorTypes, Editor!applyRemoteCodeToPage
<1>2. /\ Tail(q) \in Seq(M) /\ Head(q) = m /\ m \in M
      /\ Len(q) \in Nat /\ Len(q) >= 1 /\ Len(Tail(q)) = Len(q) - 1
      /\ \A i \in 1..(Len(q) - 1) : Tail(q)[i] = q[i + 1]
  BY <1>1, <1>q, <1>m, ShorterQueue
<1>3. toScript' = [toScript EXCEPT ![t0] = Tail(q)]
  BY <1>q DEF Editor!applyRemoteCodeToPage, Editor!Drop
<1>4. m.room \in Rooms /\ c \in CodeText
  BY <1>2, <1>M, <1>c
<1>5. \A i \in 1..Len(q) : WrittenIn(written, q[i].code, q[i].room)
  BY <1>q DEF OwnRoom
<1>6. ASSUME NEW t \in Pages, NEW i \in 1..Len(toScript'[t])
      PROVE  WrittenIn(written, toScript'[t][i].code, toScript'[t][i].room)
  <2>1. CASE t # t0
    BY <2>1, <1>6, <1>3, <1>1 DEF OwnRoom
  <2>2. CASE t = t0
    <3>1. i \in 1..(Len(q) - 1) /\ i + 1 \in 1..Len(q) /\ toScript'[t] = Tail(q)
      BY <1>6, <2>2, <1>1, <1>2, <1>3
    <3>2. toScript'[t][i] = q[i + 1]
      BY <3>1, <1>2
    <3> QED BY <3>1, <3>2, <1>5
  <2> QED BY <2>1, <2>2
<1>7. toScript' \in [Pages -> Seq([room : Rooms, code : CodeText])]
  BY <1>M, <1>1, <1>2, <1>3
<1>8. \A t \in Pages : PageRoom[t] = panelRoom' => Follows(t)
  BY DEF AllFollow, Editor!applyRemoteCodeToPage
\* What is still coming, counted from one place further.
<1>9. Coming(t0)' = {i \in 1..(Len(q) - 1) : i + 1 \in Coming(t0)}
  <2>1. \A i \in 1..(Len(q) - 1) : i + 1 \in 1..Len(q)
            /\ toScript'[t0][i] = toScript[t0][i + 1]
    BY <1>1, <1>2, <1>3, <1>q
  <2>2. Len(toScript'[t0]) = Len(q) - 1 /\ Len(toScript[t0]) = Len(q)
    BY <1>1, <1>2, <1>3, <1>q
  <2> QED BY <2>1, <2>2, <1>2 DEF Coming
<1>10. \A i \in Coming(t0) : i = 1 \/ i - 1 \in Coming(t0)'
  <2>1. Coming(t0) \subseteq 1..Len(q)
    BY <1>q DEF Coming
  <2>2. ASSUME NEW i \in Coming(t0), i # 1 PROVE i - 1 \in Coming(t0)'
    <3>1. i - 1 \in 1..(Len(q) - 1) /\ (i - 1) + 1 = i
      BY <2>1, <2>2, <1>2
    <3> QED BY <3>1, <2>2, <1>9
  <2> QED BY <2>2
<1>11. 1 \in Coming(t0) <=> m.room = PageRoom[t0]
  <2>1. 1 \in 1..Len(toScript[t0]) /\ toScript[t0][1] = m
    BY <1>1, <1>2, <1>q, <1>m
  <2> QED BY <2>1 DEF Coming
\* The last one still coming is the one it was.
<1>12. ASSUME Follows(t0), NEW i \in Coming(t0)', \A j \in Coming(t0)' : j <= i
       PROVE  toScript'[t0][i].code = panelCode'
  <2>1. i \in 1..(Len(q) - 1) /\ i + 1 \in Coming(t0) /\ toScript'[t0][i] = toScript[t0][i + 1]
    BY <1>12, <1>9, <1>1, <1>2, <1>3, <1>q
  <2>2. ASSUME NEW j \in Coming(t0) PROVE j <= i + 1
    <3>1. j \in 1..Len(q)
      BY <1>q DEF Coming
    <3>2. CASE j = 1
      BY <3>2, <2>1, <1>2
    <3>3. CASE j - 1 \in Coming(t0)'
      <4>1. j - 1 <= i
        BY <3>3, <1>12
      <4> QED BY <4>1, <3>1, <2>1, <1>2
    <3> QED BY <3>2, <3>3, <1>10
  <2>3. toScript[t0][i + 1].code = panelCode
    BY <2>1, <2>2, <1>12 DEF Follows
  <2> QED BY <2>1, <2>3 DEF Editor!applyRemoteCodeToPage
<1>13. CASE m.room = PageRoom[t0]
  <2>1. /\ lastSentCode' = [lastSentCode EXCEPT ![t0] = c]
        /\ toPage' = [toPage EXCEPT ![t0] = Append(toPage[t0], c)]
    BY <1>13, <1>1, <1>2, <1>q, <1>c DEF Editor!applyRemoteCodeToPage, Editor!Put,
        Editor!Belongs
  <2>2. /\ Append(toPage[t0], c) \in Seq(CodeText) /\ Append(toPage[t0], c) # <<>>
        /\ Len(Append(toPage[t0], c)) = Len(toPage[t0]) + 1 /\ Len(toPage[t0]) \in Nat
        /\ \A i \in 1..Len(toPage[t0]) : Append(toPage[t0], c)[i] = toPage[t0][i]
        /\ Append(toPage[t0], c)[Len(toPage[t0]) + 1] = c
    BY <1>1, <1>4, LongerQueue
  <2>3. EditorTypes'
    <3>1. toPage' \in [Pages -> Seq(CodeText)] /\ lastSentCode' \in [Pages -> CodeText]
      BY <1>1, <1>4, <2>1, <2>2
    <3> QED BY <3>1, <1>7 DEF Editor!applyRemoteCodeToPage, EditorTypes
  <2>4. OwnRoom'
    <3>1. WrittenIn(written, c, PageRoom[t0])
      BY <1>5, <1>2, <1>m, <1>c, <1>13
    <3>2. ASSUME NEW t \in Pages, NEW i \in 1..Len(toPage'[t])
          PROVE  WrittenIn(written, toPage'[t][i], PageRoom[t])
      <4>1. CASE t # t0
        BY <4>1, <3>2, <2>1, <1>1 DEF OwnRoom
      <4>2. CASE t = t0
        <5>1. i \in 1..Len(toPage[t0]) \/ i = Len(toPage[t0]) + 1
          BY <3>2, <4>2, <1>1, <2>1, <2>2
        <5> QED BY <4>2, <5>1, <3>1, <1>1, <2>1, <2>2 DEF OwnRoom
      <4> QED BY <4>1, <4>2
    <3>3. \A t \in Pages : WrittenIn(written, lastSentCode'[t], PageRoom[t])
      BY <3>1, <2>1, <1>1 DEF OwnRoom
    <3> QED BY <1>6, <3>2, <3>3 DEF OwnRoom, Editor!applyRemoteCodeToPage
  <2>5. ASSUME NEW t \in Pages, PageRoom[t] = panelRoom' PROVE Follows(t)'
    <3>1. Follows(t)
      BY <2>5, <1>8
    <3>2. CASE t # t0
      BY <3>1, <3>2, <1>1, <1>3, <2>1, Untouched DEF Editor!applyRemoteCodeToPage
    <3>3. CASE t = t0
      <4>1. EndsWith(toPage'[t], lastSentCode'[t]) /\ toPage'[t] # <<>>
        BY <3>3, <1>1, <2>1, <2>2 DEF EndsWith
      <4>2. Coming(t)' = {} => lastSentCode'[t] = panelCode'
        <5>1. SUFFICES ASSUME Coming(t)' = {} PROVE lastSentCode'[t] = panelCode'
          OBVIOUS
        <5>2. 1 \in Coming(t) /\ \A j \in Coming(t) : j <= 1
          BY <5>1, <3>3, <1>10, <1>11, <1>13
        <5>3. toScript[t][1].code = panelCode
          BY <5>2, <3>1 DEF Follows
        <5> QED BY <5>3, <3>3, <1>1, <2>1, <1>q, <1>m, <1>c DEF Editor!applyRemoteCodeToPage
      <4> QED BY <3>1, <3>3, <4>1, <4>2, <1>12 DEF Follows
    <3> QED BY <3>2, <3>3
  <2> QED BY <2>3, <2>4, <2>5 DEF AllFollow
<1>14. CASE m.room # PageRoom[t0]
  <2>1. UNCHANGED <<lastSentCode, toPage>>
    BY <1>14, <1>1, <1>2, <1>q DEF Editor!applyRemoteCodeToPage, Editor!Belongs
  <2>2. EditorTypes'
    BY <2>1, <1>7 DEF Editor!applyRemoteCodeToPage, EditorTypes
  <2>3. OwnRoom'
    BY <2>1, <1>6 DEF OwnRoom, Editor!applyRemoteCodeToPage
  <2>4. ASSUME NEW t \in Pages, PageRoom[t] = panelRoom' PROVE Follows(t)'
    <3>1. Follows(t)
      BY <2>4, <1>8
    <3>2. CASE t # t0
      BY <3>1, <3>2, <1>1, <1>3, <2>1, Untouched DEF Editor!applyRemoteCodeToPage
    <3>3. CASE t = t0
      <4>1. Coming(t)' = {} => Coming(t) = {}
        BY <3>3, <1>10, <1>11, <1>14
      <4>2. NewsFor(t)' <=> NewsFor(t)
        BY DEF NewsFor, Editor!applyRemoteCodeToPage
      <4> QED BY <3>1, <3>3, <4>1, <4>2, <2>1, <1>12 DEF Follows, EndsWith,
          Editor!applyRemoteCodeToPage
    <3> QED BY <3>2, <3>3
  <2> QED BY <2>2, <2>3, <2>4 DEF AllFollow
<1> QED BY <1>13, <1>14

\* The panel takes a page's text and tells the others.
LEMMA DeltaStep ==
    ASSUME Editor!EditorAssumption, EditorInv, NEW t0 \in Pages, Editor!CodeDeltaLocal(t0)
    PROVE  EditorInv'
<1> USE DEF EditorInv
<1>q. PICK q : q = toPanel[t0]
  OBVIOUS
<1>1. /\ toPanel[t0] \in Seq(CodeText)
      /\ toPanel \in [Pages -> Seq(CodeText)]
      /\ toPanel[t0] # <<>>
      /\ panelCode \in CodeText
  BY DEF EditorTypes, Editor!CodeDeltaLocal
<1>2. /\ Tail(q) \in Seq(CodeText) /\ Head(q) = q[1] /\ Head(q) \in CodeText
      /\ Len(q) \in Nat /\ Len(q) >= 1 /\ Len(Tail(q)) = Len(q) - 1
      /\ \A i \in 1..(Len(q) - 1) : Tail(q)[i] = q[i + 1]
      /\ Tail(q) = <<>> <=> Len(q) = 1
  BY <1>1, <1>q, ShorterQueue
<1>3. toPanel' = [toPanel EXCEPT ![t0] = Tail(q)]
  BY <1>q DEF Editor!CodeDeltaLocal, Editor!Drop
<1>4. \A i \in 1..Len(q) : WrittenIn(written, q[i], PageRoom[t0])
  BY <1>q DEF OwnRoom
<1>5. ASSUME NEW t \in Pages, NEW i \in 1..Len(toPanel'[t])
      PROVE  WrittenIn(written, toPanel'[t][i], PageRoom[t])
  <2>1. CASE t # t0
    BY <2>1, <1>5, <1>3, <1>1 DEF OwnRoom
  <2>2. CASE t = t0
    <3>1. i \in 1..(Len(q) - 1) /\ i + 1 \in 1..Len(q) /\ toPanel'[t] = Tail(q)
      BY <1>5, <2>2, <1>1, <1>2, <1>3
    <3> QED BY <2>2, <3>1, <1>2, <1>4
  <2> QED BY <2>1, <2>2
<1>6. toPanel' \in [Pages -> Seq(CodeText)]
  BY <1>1, <1>2, <1>3
<1>7. \A t \in Pages : PageRoom[t] = panelRoom' => Follows(t)
  BY DEF AllFollow, Editor!CodeDeltaLocal
<1>8. CASE PageRoom[t0] = panelRoom /\ q[1] # panelCode
  <2>1. /\ panelCode' = q[1]
        /\ Editor!broadcastToContentTabs(panelRoom, q[1])
        /\ panelRoom \in Rooms
    BY <1>8, <1>2, <1>q DEF Editor!CodeDeltaLocal, Editor!Adopted, Editor!Belongs
  <2>2. WrittenIn(written, q[1], panelRoom) /\ q[1] \in CodeText
    BY <1>2, <1>4, <1>8
  <2>3. /\ toScript' \in [Pages -> Seq([room : Rooms, code : CodeText])]
        /\ \A t \in Pages : \A i \in 1..Len(toScript'[t]) :
              WrittenIn(written, toScript'[t][i].code, toScript'[t][i].room)
    BY <2>1, <2>2, Broadcasted DEF OwnRoom
  <2>4. EditorTypes'
    BY <1>6, <2>1, <2>2, <2>3 DEF EditorTypes, Editor!CodeDeltaLocal
  <2>5. OwnRoom'
    BY <1>5, <2>1, <2>2, <2>3 DEF OwnRoom, Editor!CodeDeltaLocal
  <2>6. ASSUME NEW t \in Pages, PageRoom[t] = panelRoom' PROVE Follows(t)'
    <3>1. PageRoom[t] = panelRoom
      BY <2>6 DEF Editor!CodeDeltaLocal
    <3> QED BY <3>1, <2>1, <2>2, Told
  <2> QED BY <2>4, <2>5, <2>6 DEF AllFollow
<1>9. CASE PageRoom[t0] # panelRoom \/ q[1] = panelCode
  <2>1. panelCode' = panelCode /\ toScript' = toScript
    BY <1>9, <1>2, <1>q DEF Editor!CodeDeltaLocal, Editor!Adopted, Editor!Belongs
  <2>2. EditorTypes'
    BY <1>6, <2>1 DEF EditorTypes, Editor!CodeDeltaLocal
  <2>3. OwnRoom'
    BY <1>5, <2>1 DEF OwnRoom, Editor!CodeDeltaLocal
  <2>4. ASSUME NEW t \in Pages, PageRoom[t] = panelRoom' PROVE Follows(t)'
    <3>1. Follows(t)
      BY <2>4, <1>7
    <3>2. CASE t # t0
      BY <3>1, <3>2, <1>1, <1>3, <2>1, Untouched DEF Editor!CodeDeltaLocal
    <3>3. CASE t = t0
      <4>1. q[1] = panelCode /\ toPanel'[t] = Tail(q) /\ q = toPanel[t]
        BY <1>9, <1>1, <1>3, <1>q, <3>3, <2>4 DEF Editor!CodeDeltaLocal
      <4>2. NewsFor(t) => NewsFor(t)'
        <5>1. SUFFICES ASSUME NEW i \in 1..Len(q), q[i] # panelCode
                       PROVE  \E j \in 1..Len(Tail(q)) : Tail(q)[j] # panelCode
          BY <4>1, <2>1 DEF NewsFor
        <5>2. i - 1 \in 1..(Len(q) - 1) /\ (i - 1) + 1 = i
          BY <5>1, <4>1, <1>2
        <5>3. Tail(q)[i - 1] = q[i]
          BY <5>2, <1>2
        <5> QED BY <5>1, <5>2, <5>3, <1>2
      <4>3. EndsWith(q, lastSentCode[t]) =>
               lastSentCode[t] = panelCode \/ EndsWith(Tail(q), lastSentCode[t])
        BY <4>1, <1>2 DEF EndsWith
      <4> QED BY <3>1, <4>1, <4>2, <4>3, <2>1 DEF Follows, Coming, EndsWith,
          Editor!CodeDeltaLocal
    <3> QED BY <3>2, <3>3
  <2> QED BY <2>2, <2>3, <2>4 DEF AllFollow
<1> QED BY <1>8, <1>9

\* A text typed in the panel.
LEMMA PanelStep ==
    ASSUME Editor!EditorAssumption, EditorInv, Editor!PanelChange
    PROVE  EditorInv'
<1> USE DEF EditorInv
<1>c. PICK c : c = Len(written')
  OBVIOUS
<1>1. panelRoom \in Rooms /\ Editor!Write(panelRoom) /\ panelRoom' = panelRoom
  BY DEF Editor!PanelChange, EditorTypes
<1>2. /\ written' \in Seq(Rooms) /\ c \in Editor!Texts /\ Len(written') <= MaxChanges
      /\ WrittenIn(written', c, panelRoom)
  BY <1>1, <1>c, WrittenText
<1>3. \A x, r : WrittenIn(written, x, r) => WrittenIn(written', x, r)
  BY <1>1, StillOf
<1>4. c \in CodeText
  BY <1>2 DEF CodeText
<1>5. CASE c # panelCode
  <2>1. panelCode' = c /\ Editor!broadcastToContentTabs(panelRoom, c)
    BY <1>5, <1>c DEF Editor!PanelChange, Editor!Adopted
  <2>w. PICK w : w = written'
    OBVIOUS
  <2>2. \A t \in Pages : \A i \in 1..Len(toScript[t]) : WrittenIn(w, toScript[t][i].code,
            toScript[t][i].room)
    BY <2>w, <1>3 DEF OwnRoom
  <2>3. /\ toScript' \in [Pages -> Seq([room : Rooms, code : CodeText])]
        /\ \A t \in Pages : \A i \in 1..Len(toScript'[t]) :
              WrittenIn(w, toScript'[t][i].code, toScript'[t][i].room)
    BY <2>1, <2>2, <2>w, <1>1, <1>2, <1>4, Broadcasted
  <2>4. EditorTypes'
    BY <1>1, <1>2, <1>4, <2>1, <2>3 DEF EditorTypes, Editor!PanelChange
  <2>5. OwnRoom'
    BY <1>1, <1>2, <1>3, <2>1, <2>3, <2>w DEF OwnRoom, Editor!PanelChange
  <2>6. ASSUME NEW t \in Pages, PageRoom[t] = panelRoom' PROVE Follows(t)'
    BY <2>6, <1>1, <1>4, <2>1, Told
  <2> QED BY <2>4, <2>5, <2>6 DEF AllFollow
<1>6. CASE c = panelCode
  <2>1. panelCode' = panelCode /\ toScript' = toScript
    BY <1>6, <1>c DEF Editor!PanelChange, Editor!Adopted
  <2>2. EditorTypes'
    BY <1>1, <1>2, <2>1 DEF EditorTypes, Editor!PanelChange
  <2>3. OwnRoom'
    BY <1>1, <1>3, <2>1 DEF OwnRoom, Editor!PanelChange
  <2>4. ASSUME NEW t \in Pages, PageRoom[t] = panelRoom' PROVE Follows(t)'
    BY <2>4, <1>1, <2>1, Untouched DEF Editor!PanelChange, AllFollow
  <2> QED BY <2>2, <2>3, <2>4 DEF AllFollow
<1> QED BY <1>5, <1>6

\* The panel goes to another room, or to none.
LEMMA RoomStep ==
    ASSUME Editor!EditorAssumption, EditorInv, NEW r \in Rooms \cup {NoPanelRoom},
               Editor!setRoom(r)
    PROVE  EditorInv'
<1> USE DEF EditorInv
<1>1. /\ panelRoom' = r
      /\ panelCode' = Template
      /\ Template \in CodeText
      /\ panelMoves' = panelMoves + 1
  BY DEF Editor!setRoom, CodeText
<1>2. /\ toScript' \in [Pages -> Seq([room : Rooms, code : CodeText])]
      /\ \A t \in Pages : \A i \in 1..Len(toScript'[t]) :
            WrittenIn(written, toScript'[t][i].code, toScript'[t][i].room)
  <2>1. CASE r = NoPanelRoom
    BY <2>1 DEF Editor!setRoom, OwnRoom, EditorTypes
  <2>2. CASE r # NoPanelRoom
    <3>1. /\ Editor!broadcastToContentTabs(r, Template)
          /\ r \in Rooms
          /\ WrittenIn(written, Template, r)
      BY <2>2 DEF Editor!setRoom, WrittenIn
    <3> QED BY <3>1, <1>1, Broadcasted DEF OwnRoom
  <2> QED BY <2>1, <2>2
<1>3. EditorTypes'
  <2>1. UNCHANGED <<text, debounce, changes, lastSentCode, toPanel, toPage, written>>
    BY DEF Editor!setRoom
  <2>2. panelMoves' \in Nat
    BY <1>1 DEF EditorTypes
  <2> QED BY <1>1, <1>2, <2>1, <2>2 DEF EditorTypes
<1>4. OwnRoom'
  <2>1. WrittenIn(written, panelCode', panelRoom')
    BY <1>1 DEF WrittenIn
  <2> QED BY <1>2, <2>1 DEF OwnRoom, Editor!setRoom
<1>5. ASSUME NEW t \in Pages, PageRoom[t] = panelRoom' PROVE Follows(t)'
  <2>1. r \in Rooms /\ PageRoom[t] = r
    BY <1>5, <1>1
  <2>2. Editor!broadcastToContentTabs(r, Template)
    BY <2>1 DEF Editor!setRoom
  <2> QED BY <2>1, <2>2, <1>1, Told
<1> QED BY <1>3, <1>4, <1>5 DEF AllFollow

\* Every step keeps it.
LEMMA EditorStep ==
    ASSUME Editor!EditorAssumption, EditorInv, [Editor!Next]_Editor!vars
    PROVE  EditorInv'
<1>1. CASE UNCHANGED Editor!vars
  BY <1>1 DEF Editor!vars, EditorInv, EditorTypes, OwnRoom, AllFollow, Follows, Coming,
      NewsFor, EndsWith
<1>2. CASE Editor!Next
  BY <1>2, TypeStep, DebounceStep, ApplyStep, ChangedStep, RemoteStep, DeltaStep, PanelStep,
     RoomStep DEF Editor!Next
<1> QED BY <1>1, <1>2

\* What it says of a page at rest.
LEMMA EditorHolds ==
    ASSUME Editor!EditorAssumption, EditorInv
    PROVE  Editor!TypeOK /\ Editor!PageFollowsPanel /\ Editor!InItsRoom
<1> USE DEF EditorInv
<1>1. Editor!TypeOK
  <2>1. \A x \in DOMAIN written : written[x] \in Rooms
    BY LenProperties, ElementOfSeq DEF EditorTypes
  <2> QED BY <2>1 DEF Editor!TypeOK, EditorTypes, CodeText
<1>2. Editor!PageFollowsPanel
  <2>1. SUFFICES ASSUME \A t \in Pages : Editor!AtRest(t), NEW t \in Pages,
            PageRoom[t] = panelRoom
                 PROVE  text[t] = panelCode
    BY DEF Editor!PageFollowsPanel
  <2>2. /\ toScript[t] = <<>> /\ toPanel[t] = <<>> /\ toPage[t] = <<>> /\ changes[t] = <<>>
        /\ ~debounce[t]
    BY <2>1 DEF Editor!AtRest
  <2>3. Coming(t) = {} /\ ~NewsFor(t)
    BY <2>2 DEF Coming, NewsFor
  <2> QED BY <2>1, <2>2, <2>3 DEF AllFollow, Follows, EndsWith
<1>3. Editor!InItsRoom
  BY DEF Editor!InItsRoom, OwnRoom, WrittenIn, Editor!Texts
<1> QED BY <1>1, <1>2, <1>3

\* Whoever types while what is under way, at rest the pages of the room hold the
\* panel's text, and no text crosses to a page of another room
\* (in-page-bridge.ts, in-page-editor-sync.ts, code.service.ts).
LEMMA EditorCorrect ==
    ASSUME Editor!EditorAssumption
    PROVE  Editor!Spec => [](Editor!TypeOK /\ Editor!PageFollowsPanel /\ Editor!InItsRoom)
<1>1. Editor!Init => EditorInv  BY EditorInit
<1>2. EditorInv /\ [Editor!Next]_Editor!vars => EditorInv'  BY EditorStep
<1>3. EditorInv => Editor!TypeOK /\ Editor!PageFollowsPanel /\ Editor!InItsRoom
  BY EditorHolds
<1> QED  BY <1>1, <1>2, <1>3, PTL DEF Editor!Spec

HIDE DEF Editor!EditorAssumption

-----------------------------------------------------------------------------
(***************************************************************************)
(* The whiteboards.  A page of one member need not be known to another, so *)
(* the invariant is about where a stroke may be at all: on a page of       *)
(* either notebook, or on its way.                                         *)
(***************************************************************************)

Ids == (Board!Modes \X Members) \cup ({"added"} \X (1..MaxPages))
Paper == [strokes : SUBSET Board!Strokes, redo : Seq(Board!Strokes)]
Books == UNION {[D -> Paper] : D \in SUBSET Ids}
PacketKinds == {"stroke", "undo", "clear", "strokes_batch", "add", "switch"}
Packets == [kind : PacketKinds, page : Ids, stroke : Nat]
Authors == [by : Members, mode : Board!Modes]

BoardTypes ==
    /\ mode \in [Members -> Board!Modes]
    /\ pages \in [Members -> [Board!Modes -> Books]]
    /\ active \in [Members -> [Board!Modes -> Ids]]
    /\ \A p \in Members, m \in Board!Modes : active[p][m] \in DOMAIN pages[p][m]
    /\ network \in [Members -> [Members -> Seq(Packets)]]
    /\ author \in Seq(Authors) /\ Len(author) <= MaxStrokes
    /\ takenOff \subseteq Board!Strokes
    /\ added \in Nat /\ added <= MaxPages

\* The shared strokes among those of w, and what member p may have in its notebook m.
SharedStrokes(w) == {n \in 1..Len(w) : w[n].mode = "collaborative"}
Allowed(p, m, w) ==
    SharedStrokes(w) \cup {n \in 1..Len(w) : m = "personal" /\ w[n].by = p}

Fits(sheet, S) == sheet.strokes \subseteq S /\ \A i \in 1..Len(sheet.redo) : sheet.redo[i] \in S
OnlyAllowed ==
    \A p \in Members, m \in Board!Modes : \A id \in DOMAIN pages[p][m] :
        Fits(pages[p][m][id], Allowed(p, m, author))
Carried ==
    \A p, q \in Members : \A i \in 1..Len(network[p][q]) :
        network[p][q][i].kind = "stroke" => network[p][q][i].stroke \in SharedStrokes(author)

\* An added page has a number that was given out.
GivenOut(id, k) == \A j \in 1..MaxPages : id = <<"added", j>> => j <= k
Issued ==
    /\ \A p \in Members, m \in Board!Modes : \A id \in DOMAIN pages[p][m] : GivenOut(id, added)
    /\ \A p, q \in Members : \A i \in 1..Len(network[p][q]) :
           GivenOut(network[p][q][i].page, added)

InBook(book, n) == \E id \in DOMAIN book : n \in book[id].strokes
InQueue(s, n) == \E i \in 1..Len(s) : s[i].kind = "stroke" /\ s[i].stroke = n
Reached(p, n) ==
    \/ \E m \in Board!Modes : InBook(pages[p][m], n)
    \/ \E q \in Members : InQueue(network[q][p], n)
ReachesAll ==
    \A n \in SharedStrokes(author) : n \notin takenOff => \A p \in Members : Reached(p, n)

BoardInv == BoardTypes /\ OnlyAllowed /\ Carried /\ Issued /\ ReachesAll

\* A notebook is a set of ids and what is on each page.
LEMMA BookOf ==
    ASSUME NEW book \in Books
    PROVE  DOMAIN book \subseteq Ids /\ book \in [DOMAIN book -> Paper]
           /\ \A id \in DOMAIN book : book[id] \in Paper
BY DEF Books

LEMMA IsBook ==
    ASSUME NEW D \in SUBSET Ids, NEW book \in [D -> Paper]
    PROVE  book \in Books
BY DEF Books

\* What may be on a page stays so when strokes are drawn.
Grown(w, v) == Len(w) <= Len(v) /\ \A i \in 1..Len(w) : v[i] = w[i]

LEMMA AllowedGrows ==
    ASSUME NEW w \in Seq(Authors), NEW v \in Seq(Authors), Grown(w, v), NEW p, NEW m
    PROVE  /\ SharedStrokes(w) \subseteq SharedStrokes(v)
           /\ Allowed(p, m, w) \subseteq Allowed(p, m, v)
<1>1. Len(w) \in Nat /\ Len(v) \in Nat
  BY LenProperties
<1>2. \A i \in 1..Len(w) : i \in 1..Len(v) /\ v[i] = w[i]
  BY <1>1 DEF Grown
<1> QED BY <1>2 DEF SharedStrokes, Allowed

\* One notebook changes: what is on pages is still allowed, and no stroke leaves
\* its board but those that leave this notebook.
LEMMA Rebooked ==
    ASSUME BoardInv, NEW p \in Members, NEW m \in Board!Modes, NEW book \in Books,
           pages' = [pages EXCEPT ![p][m] = book],
           author' \in Seq(Authors), Grown(author, author'), added' \in Nat, added <= added',
           \A id \in DOMAIN book :
               Fits(book[id], Allowed(p, m, author')) /\ GivenOut(id, added')
    PROVE  /\ pages' \in [Members -> [Board!Modes -> Books]] /\ OnlyAllowed'
           /\ pages'[p][m] = book
           /\ \A q \in Members, k \in Board!Modes : q # p \/ k # m =>
                  pages'[q][k] = pages[q][k]
           /\ \A q \in Members, k \in Board!Modes : \A id \in DOMAIN pages'[q][k] :
                  GivenOut(id, added')
           /\ \A q \in Members, k \in Board!Modes, n \in Board!Strokes :
                 InBook(pages[q][k], n) =>
                     InBook(pages'[q][k], n) \/ (q = p /\ k = m /\ ~InBook(book, n))
<1> USE DEF BoardInv
<1>1. pages \in [Members -> [Board!Modes -> Books]] /\ author \in Seq(Authors) /\ added \in Nat
  BY DEF BoardTypes
<1>2. pages' \in [Members -> [Board!Modes -> Books]]
  BY <1>1
<1>3. pages'[p][m] = book
  BY <1>1
<1>4. \A q \in Members, k \in Board!Modes : q # p \/ k # m => pages'[q][k] = pages[q][k]
  BY <1>1
<1>5. \A q, k : Allowed(q, k, author) \subseteq Allowed(q, k, author')
  BY <1>1, AllowedGrows
<1>6. ASSUME NEW q \in Members, NEW k \in Board!Modes, NEW id \in DOMAIN pages'[q][k]
      PROVE  Fits(pages'[q][k][id], Allowed(q, k, author'))
  <2>1. CASE q # p \/ k # m
    BY <2>1, <1>4, <1>5, <1>6 DEF OnlyAllowed, Fits
  <2>2. CASE q = p /\ k = m
    BY <2>2, <1>3, <1>6
  <2> QED BY <2>1, <2>2
<1>7. OnlyAllowed'
  BY <1>6 DEF OnlyAllowed
<1>8. ASSUME NEW q \in Members, NEW k \in Board!Modes, NEW id \in DOMAIN pages'[q][k]
      PROVE  GivenOut(id, added')
  <2>1. CASE q # p \/ k # m
    BY <2>1, <1>1, <1>4, <1>8 DEF Issued, GivenOut
  <2>2. CASE q = p /\ k = m
    BY <2>2, <1>3, <1>8
  <2> QED BY <2>1, <2>2
<1> QED BY <1>2, <1>3, <1>4, <1>7, <1>8

\* A packet more to every other member.
LEMMA Sent ==
    ASSUME BoardInv, NEW p \in Members, NEW packet \in Packets,
           network' = [network EXCEPT ![p] = [q \in Members |->
                          IF q = p THEN @[q] ELSE Append(@[q], packet)]],
           author' \in Seq(Authors), Grown(author, author'), added' \in Nat, added <= added',
           packet.kind = "stroke" => packet.stroke \in SharedStrokes(author'),
           GivenOut(packet.page, added')
    PROVE  /\ network' \in [Members -> [Members -> Seq(Packets)]] /\ Carried'
           /\ \A q, r \in Members : \A i \in 1..Len(network'[q][r]) :
                 GivenOut(network'[q][r][i].page, added')
           /\ \A q, r \in Members, n \in Board!Strokes :
                 InQueue(network[q][r], n) => InQueue(network'[q][r], n)
           /\ \A r \in Members : r # p /\ packet.kind = "stroke" =>
                  InQueue(network'[p][r], packet.stroke)
<1> USE DEF BoardInv
<1>1. /\ network \in [Members -> [Members -> Seq(Packets)]] /\ author \in Seq(Authors)
      /\ added \in Nat
  BY DEF BoardTypes
<1>2. \A q, r \in Members :
          network'[q][r] = IF q = p /\ r # p THEN Append(network[q][r], packet)
                                             ELSE network[q][r]
  BY <1>1
<1>3. ASSUME NEW q \in Members, NEW r \in Members
      PROVE  /\ Append(network[q][r], packet) \in Seq(Packets)
             /\ Len(Append(network[q][r], packet)) = Len(network[q][r]) + 1
             /\ Len(network[q][r]) \in Nat
             /\ \A i \in 1..Len(network[q][r]) :
                    Append(network[q][r], packet)[i] = network[q][r][i]
             /\ Append(network[q][r], packet)[Len(network[q][r]) + 1] = packet
  <2>1. network[q][r] \in Seq(Packets)
    BY <1>1
  <2> QED BY <2>1, AppendProperties, LenProperties
<1>4. network' \in [Members -> [Members -> Seq(Packets)]]
  <2>1. [q \in Members |-> IF q = p THEN network[p][q] ELSE Append(network[p][q], packet)]
          \in [Members -> Seq(Packets)]
    BY <1>1, <1>3
  <2> QED BY <1>1, <2>1
\* Every packet is the new one or was there.
<1>5. ASSUME NEW q \in Members, NEW r \in Members, NEW i \in 1..Len(network'[q][r])
      PROVE  network'[q][r][i] = packet
                 \/ (i \in 1..Len(network[q][r]) /\ network'[q][r][i] = network[q][r][i])
  BY <1>2, <1>3, <1>5
<1>6. Carried'
  <2>1. SharedStrokes(author) \subseteq SharedStrokes(author')
    BY <1>1, AllowedGrows
  <2> QED BY <1>5, <2>1 DEF Carried
<1>7. \A q, r \in Members : \A i \in 1..Len(network'[q][r]) :
          GivenOut(network'[q][r][i].page, added')
  <2>1. \A id : GivenOut(id, added) => GivenOut(id, added')
    BY <1>1 DEF GivenOut
  <2> QED BY <1>5, <2>1 DEF Issued
<1>8. ASSUME NEW q \in Members, NEW r \in Members, NEW n \in Board!Strokes,
             InQueue(network[q][r], n)
      PROVE  InQueue(network'[q][r], n)
  BY <1>2, <1>3, <1>8 DEF InQueue
<1>9. ASSUME NEW r \in Members, r # p, packet.kind = "stroke"
      PROVE  InQueue(network'[p][r], packet.stroke)
  <2>1. network'[p][r] = Append(network[p][r], packet)
    BY <1>2, <1>9
  <2>2. Len(network[p][r]) + 1 \in 1..Len(network'[p][r])
    BY <1>3, <2>1
  <2>3. network'[p][r][Len(network[p][r]) + 1] = packet
    BY <1>3, <2>1
  <2> QED BY <2>2, <2>3, <1>9 DEF InQueue
<1> QED BY <1>4, <1>6, <1>7, <1>8, <1>9

\* The first packet of a link is gone, the rest is there.
TookHead(p, q) ==
    /\ network' \in [Members -> [Members -> Seq(Packets)]] /\ Carried'
    /\ \A r, s \in Members : \A i \in 1..Len(network'[r][s]) :
           GivenOut(network'[r][s][i].page, added')
    /\ \A r, s \in Members, n \in Board!Strokes : InQueue(network[r][s], n) =>
          \/ InQueue(network'[r][s], n)
          \/ /\ r = q /\ s = p
             /\ Head(network[q][p]).kind = "stroke" /\ Head(network[q][p]).stroke = n

LEMMA TakenPacket ==
    ASSUME BoardInv, NEW p \in Members, NEW q \in Members, NEW kinds,
           Board!Receive(p, q, kinds),
           added' = added
    PROVE  TookHead(p, q)
<1>0. /\ network[q][p] # <<>> /\ network' = [network EXCEPT ![q][p] = Tail(@)]
      /\ mode' = mode /\ author' = author
  BY DEF Board!Receive
<1> USE DEF BoardInv
<1>1. network \in [Members -> [Members -> Seq(Packets)]]
  BY DEF BoardTypes
<1>s. PICK s : s = network[q][p]
  OBVIOUS
<1>2. /\ Tail(s) \in Seq(Packets) /\ Head(s) = s[1] /\ Head(s) \in Packets
      /\ Len(s) \in Nat /\ Len(s) >= 1 /\ Len(Tail(s)) = Len(s) - 1
      /\ \A i \in 1..(Len(s) - 1) : Tail(s)[i] = s[i + 1]
  <2>1. s \in Seq(Packets) /\ s # <<>>
    BY <1>0, <1>1, <1>s
  <2>2. /\ Tail(s) \in Seq(Packets) /\ Head(s) \in Packets /\ Len(s) >= 1
        /\ Len(Tail(s)) = Len(s) - 1
        /\ Len(s) \in Nat /\ Head(s) = s[1]
    BY <2>1, HeadTailProperties, EmptySeq, LenProperties
  <2> QED BY <2>1, <2>2, HeadTailProperties
<1>3. network' = [network EXCEPT ![q][p] = Tail(s)]
  BY <1>0, <1>s
<1>4. network' \in [Members -> [Members -> Seq(Packets)]]
  BY <1>1, <1>2, <1>3
<1>5. /\ network'[q][p] = Tail(s)
      /\ \A r, z \in Members : r # q \/ z # p => network'[r][z] = network[r][z]
  BY <1>1, <1>3
<1>6. ASSUME NEW r \in Members, NEW z \in Members, NEW i \in 1..Len(network'[r][z])
      PROVE  \E j \in 1..Len(network[r][z]) : network'[r][z][i] = network[r][z][j]
  <2>1. CASE r = q /\ z = p
    <3>1. i \in 1..(Len(s) - 1) /\ i + 1 \in 1..Len(s)
      BY <1>2, <1>5, <1>6, <2>1
    <3> QED BY <3>1, <2>1, <1>2, <1>5, <1>s
  <2>2. CASE r # q \/ z # p
    BY <1>5, <1>6, <2>2
  <2> QED BY <2>1, <2>2
<1>7. Carried'
  BY <1>0, <1>6 DEF Carried
<1>8. ASSUME NEW r \in Members, NEW z \in Members, NEW i \in 1..Len(network'[r][z])
      PROVE  GivenOut(network'[r][z][i].page, added')
  <2>1. PICK j \in 1..Len(network[r][z]) : network'[r][z][i] = network[r][z][j]
    BY <1>6
  <2>2. GivenOut(network[r][z][j].page, added)
    BY DEF Issued
  <2> QED BY <2>1, <2>2
<1>9. ASSUME NEW r \in Members, NEW z \in Members, NEW n \in Board!Strokes,
             InQueue(network[r][z], n)
      PROVE  \/ InQueue(network'[r][z], n)
             \/ r = q /\ z = p /\ s[1].kind = "stroke" /\ s[1].stroke = n
  <2>1. CASE r # q \/ z # p
    BY <1>5, <1>9, <2>1
  <2>2. CASE r = q /\ z = p
    <3>1. PICK i \in 1..Len(s) : s[i].kind = "stroke" /\ s[i].stroke = n
      BY <2>2, <1>9, <1>s DEF InQueue
    <3>2. CASE i = 1
      BY <3>1, <3>2, <2>2
    <3>3. CASE i # 1
      <4>1. i - 1 \in 1..(Len(s) - 1) /\ (i - 1) + 1 = i
        BY <3>3, <1>2
      <4> QED BY <4>1, <3>1, <2>2, <1>2, <1>5 DEF InQueue
    <3> QED BY <3>2, <3>3
  <2> QED BY <2>1, <2>2
<1>10. Head(network[q][p]) = s[1]
  BY <1>2, <1>s
<1> QED BY <1>4, <1>7, <1>8, <1>9, <1>10 DEF TookHead

\* Strokes nobody took off stay where they were, or on their way.
LEMMA StillReached ==
    ASSUME ReachesAll, author' = author, takenOff \subseteq takenOff',
           \A q \in Members, n \in SharedStrokes(author) :
               n \notin takenOff' /\ Reached(q, n) => Reached(q, n)'
    PROVE  ReachesAll'
BY DEF ReachesAll

\* A stroke that was drawn has a number.
LEMMA StrokesOf ==
    ASSUME BoardTypes, MaxStrokes \in Nat
    PROVE  SharedStrokes(author) \subseteq Board!Strokes
           /\ \A p, m : Allowed(p, m, author) \subseteq Board!Strokes
<1>1. Len(author) \in Nat /\ Len(author) <= MaxStrokes
  BY LenProperties DEF BoardTypes
<1> QED BY <1>1 DEF SharedStrokes, Allowed, Board!Strokes

\* The page a member works on.
LEMMA ActiveOf ==
    ASSUME BoardInv, NEW p \in Members
    PROVE  /\ mode[p] \in Board!Modes /\ active[p][mode[p]] \in Ids
           /\ pages[p][mode[p]] \in Books /\ active[p][mode[p]] \in DOMAIN pages[p][mode[p]]
           /\ Board!ActivePage(p) = pages[p][mode[p]][active[p][mode[p]]]
           /\ Board!ActivePage(p) \in Paper
           /\ Fits(Board!ActivePage(p), Allowed(p, mode[p], author))
           /\ GivenOut(active[p][mode[p]], added)
<1>1. /\ mode[p] \in Board!Modes /\ active[p][mode[p]] \in Ids
      /\ pages[p][mode[p]] \in Books /\ active[p][mode[p]] \in DOMAIN pages[p][mode[p]]
  BY DEF BoardInv, BoardTypes
<1>2. Board!ActivePage(p) = pages[p][mode[p]][active[p][mode[p]]]
  BY DEF Board!ActivePage, Board!Notebook
<1>3. Board!ActivePage(p) \in Paper
  BY <1>1, <1>2, BookOf
<1>4. Fits(Board!ActivePage(p), Allowed(p, mode[p], author))
  BY <1>1, <1>2 DEF BoardInv, OnlyAllowed
<1>5. GivenOut(active[p][mode[p]], added)
  BY <1>1 DEF BoardInv, Issued
<1> QED BY <1>1, <1>2, <1>3, <1>4, <1>5

\* The active page is replaced and the others are told.
LEMMA EditStep ==
    ASSUME BoardInv, MaxStrokes \in Nat, NEW p \in Members, NEW sheet \in Paper,
           NEW packet \in Packets, packet.page = active[p][mode[p]],
           Board!Edit(p, sheet, packet),
           author' \in Seq(Authors), Grown(author, author'), Len(author') <= MaxStrokes,
           takenOff \subseteq takenOff', takenOff' \subseteq Board!Strokes,
           Board!ActivePage(p).strokes \ sheet.strokes \subseteq takenOff',
           Fits(sheet, Allowed(p, mode[p], author')),
           mode[p] = "collaborative" /\ packet.kind = "stroke" =>
               packet.stroke \in SharedStrokes(author')
    PROVE  /\ BoardTypes' /\ OnlyAllowed' /\ Carried' /\ Issued'
           /\ \A q \in Members, n \in Board!Strokes :
                 n \notin takenOff' /\ Reached(q, n) => Reached(q, n)'
           /\ \A n \in sheet.strokes : Reached(p, n)'
           /\ mode[p] = "collaborative" /\ packet.kind = "stroke" =>
                 \A q \in Members : q # p => Reached(q, packet.stroke)'
<1>m. PICK m : m = mode[p]
  OBVIOUS
<1>a. PICK id : id = active[p][m]
  OBVIOUS
<1>b. PICK book : book = [pages[p][m] EXCEPT ![id] = sheet]
  OBVIOUS
<1>1. /\ m \in Board!Modes /\ id \in Ids /\ pages[p][m] \in Books /\ id \in DOMAIN pages[p][m]
      /\ Board!ActivePage(p) = pages[p][m][id] /\ GivenOut(id, added)
  BY ActiveOf, <1>m, <1>a
<1>2. /\ book \in [DOMAIN pages[p][m] -> Paper] /\ DOMAIN book = DOMAIN pages[p][m]
      /\ book[id] = sheet /\ \A i \in DOMAIN book : i # id => book[i] = pages[p][m][i]
  BY <1>1, <1>b, BookOf
<1>3. book \in Books
  BY <1>1, <1>2, BookOf, IsBook
<1>4. pages' = [pages EXCEPT ![p][m] = book]
  BY <1>m, <1>a, <1>b DEF Board!Edit
<1>5. /\ author \in Seq(Authors) /\ added \in Nat /\ added' = added /\ mode' = mode
      /\ active' = active
  BY DEF BoardInv, BoardTypes, Board!Edit
<1>6. Allowed(p, m, author) \subseteq Allowed(p, m, author')
  BY <1>5, AllowedGrows
<1>7. \A i \in DOMAIN book : Fits(book[i], Allowed(p, m, author')) /\ GivenOut(i, added')
  <2>1. \A i \in DOMAIN pages[p][m] :
            Fits(pages[p][m][i], Allowed(p, m, author)) /\ GivenOut(i, added)
    BY <1>1 DEF BoardInv, OnlyAllowed, Issued
  <2>2. \A i \in DOMAIN pages[p][m] : Fits(pages[p][m][i], Allowed(p, m, author'))
    BY <2>1, <1>6 DEF Fits
  <2> QED BY <2>1, <2>2, <1>2, <1>5, <1>m
<1>8. added' \in Nat /\ added <= added'
  BY <1>5
<1>9. /\ pages' \in [Members -> [Board!Modes -> Books]] /\ OnlyAllowed'
      /\ pages'[p][m] = book
      /\ \A q \in Members, k \in Board!Modes : q # p \/ k # m => pages'[q][k] = pages[q][k]
      /\ \A q \in Members, k \in Board!Modes : \A i \in DOMAIN pages'[q][k] :
             GivenOut(i, added')
      /\ \A q \in Members, k \in Board!Modes, n \in Board!Strokes :
            InBook(pages[q][k], n) =>
                InBook(pages'[q][k], n) \/ (q = p /\ k = m /\ ~InBook(book, n))
  BY <1>1, <1>3, <1>4, <1>7, <1>8, Rebooked
<1>10. /\ network' \in [Members -> [Members -> Seq(Packets)]] /\ Carried'
       /\ \A q, r \in Members : \A i \in 1..Len(network'[q][r]) :
             GivenOut(network'[q][r][i].page, added')
       /\ \A q, r \in Members, n \in Board!Strokes :
             InQueue(network[q][r], n) => InQueue(network'[q][r], n)
       /\ m = "collaborative" /\ packet.kind = "stroke" =>
             \A r \in Members : r # p => InQueue(network'[p][r], packet.stroke)
  <2>1. CASE m = "collaborative"
    <3>1. network' = [network EXCEPT ![p] = [q \in Members |->
                         IF q = p THEN @[q] ELSE Append(@[q], packet)]]
      BY <2>1, <1>m DEF Board!Edit, Board!Shared
    <3>2. GivenOut(packet.page, added')
      BY <1>1, <1>5, <1>m, <1>a
    <3>3. packet.kind = "stroke" => packet.stroke \in SharedStrokes(author')
      BY <2>1, <1>m
    <3> QED BY <3>1, <3>2, <3>3, <1>8, Sent
  <2>2. CASE m # "collaborative"
    <3>1. network' = network
      BY <2>2, <1>m DEF Board!Edit, Board!Shared
    <3>2. SharedStrokes(author) \subseteq SharedStrokes(author')
      BY <1>5, AllowedGrows
    <3>3. Carried'
      BY <3>1, <3>2 DEF BoardInv, Carried
    <3> QED BY <2>2, <3>1, <3>3, <1>5 DEF BoardInv, BoardTypes, Issued
  <2> QED BY <2>1, <2>2
<1>11. BoardTypes'
  <2>1. \A q \in Members, k \in Board!Modes : active'[q][k] \in DOMAIN pages'[q][k]
    BY <1>2, <1>5, <1>9 DEF BoardInv, BoardTypes
  <2> QED BY <2>1, <1>5, <1>9, <1>10 DEF BoardInv, BoardTypes
<1>12. Issued'
  BY <1>9, <1>10 DEF Issued
<1>13. ASSUME NEW q \in Members, NEW n \in Board!Strokes, n \notin takenOff', Reached(q, n)
       PROVE  Reached(q, n)'
  <2>1. CASE \E r \in Members : InQueue(network[r][q], n)
    BY <2>1, <1>10, <1>13 DEF Reached
  <2>2. CASE \E k \in Board!Modes : InBook(pages[q][k], n)
    <3>1. PICK k \in Board!Modes : InBook(pages[q][k], n)
      BY <2>2
    <3>2. InBook(pages[p][m], n) => InBook(book, n)
      <4>1. SUFFICES ASSUME NEW i \in DOMAIN pages[p][m], n \in pages[p][m][i].strokes
                     PROVE  n \in book[i].strokes
        BY <1>2 DEF InBook
      <4>2. CASE i = id
        BY <4>1, <4>2, <1>1, <1>2, <1>13
      <4>3. CASE i # id
        BY <4>1, <4>3, <1>2
      <4> QED BY <4>2, <4>3
    <3>3. InBook(pages'[q][k], n)
      BY <3>1, <3>2, <1>9
    <3> QED BY <3>3 DEF Reached
  <2> QED BY <2>1, <2>2, <1>13 DEF Reached
<1>14. ASSUME NEW n \in sheet.strokes PROVE Reached(p, n)'
  <2>1. InBook(book, n)
    BY <1>1, <1>2, <1>14 DEF InBook
  <2> QED BY <2>1, <1>1, <1>9 DEF Reached
<1>15. mode[p] = "collaborative" /\ packet.kind = "stroke" =>
          \A q \in Members : q # p => Reached(q, packet.stroke)'
  BY <1>10, <1>m DEF Reached
<1> QED BY <1>9, <1>10, <1>11, <1>12, <1>13, <1>14, <1>15

\* A cleared page is kept for undo in some order.
LEMMA SeqOfSet ==
    ASSUME NEW S, IsFiniteSet(S)
    PROVE  Board!SetToSeq(S) \in Seq(S)
<1>1. Board!Cardinality(S) = Cardinality(S)
  BY DEF Board!Cardinality, Cardinality
<1>2. PICK n \in Nat : ExistsBijection(1..n, S)
  BY FS_NatBijection
<1>3. Cardinality(S) = n
  BY <1>2, FS_CountingElements
<1>4. \E f \in [1..n -> S] : Board!IsInjective(f)
  <2>1. PICK f \in Bijection(1..n, S) : TRUE
    BY <1>2 DEF ExistsBijection
  <2>2. f \in [1..n -> S] /\ \A x, y \in 1..n : f[x] = f[y] => x = y
    BY <2>1 DEF Bijection, Injection, IsInjective
  <2> QED BY <2>2 DEF Board!IsInjective
<1>5. Board!SetToSeq(S) \in [1..n -> S]
  BY <1>1, <1>3, <1>4 DEF Board!SetToSeq
<1> QED BY <1>5, SeqDef

\* What an edit does to the page, by the strokes it leaves.
LEMMA PaperOf ==
    ASSUME NEW S, NEW strokes, strokes \subseteq S, NEW redo \in Seq(S),
           S \subseteq Board!Strokes
    PROVE  /\ Board!Page(strokes, redo) \in Paper /\ Fits(Board!Page(strokes, redo), S)
           /\ Board!Page(strokes, redo).strokes = strokes
           /\ Board!Page(strokes, redo).redo = redo
<1>1. redo \in Seq(Board!Strokes)
  BY SeqDef
<1>2. \A i \in 1..Len(redo) : redo[i] \in S
  BY LenProperties, ElementOfSeq
<1> QED BY <1>1, <1>2 DEF Board!Page, Paper, Fits

\* What may be put back, and what is sent.
LEMMA RedoOf ==
    ASSUME NEW S, NEW sheet \in Paper, Fits(sheet, S)
    PROVE  sheet.redo \in Seq(S)
<1>1. sheet.redo \in Seq(Board!Strokes) /\ \A i \in 1..Len(sheet.redo) : sheet.redo[i] \in S
  BY DEF Paper, Fits
<1> QED BY <1>1, SeqDef

LEMMA PacketOf ==
    ASSUME BoardInv, NEW p \in Members, NEW kind \in PacketKinds, NEW n \in Nat
    PROVE  /\ Board!Packet(p, kind, n) \in Packets /\ Board!Packet(p, kind, n).kind = kind
           /\ Board!Packet(p, kind, n).stroke = n
           /\ Board!Packet(p, kind, n).page = active[p][mode[p]]
BY ActiveOf DEF Board!Packet, Packets

LEMMA SameAuthors ==
    ASSUME BoardInv
    PROVE  Grown(author, author) /\ author \in Seq(Authors) /\ Len(author) <= MaxStrokes
BY LenProperties DEF BoardInv, BoardTypes, Grown

\* Edits that draw nothing new.
LEMMA RedrawStep ==
    ASSUME BoardInv, MaxStrokes \in Nat, NEW p \in Members,
           NEW strokes, strokes \subseteq Allowed(p, mode[p], author),
           NEW redo \in Seq(Allowed(p, mode[p], author)),
           NEW kind \in PacketKinds, NEW n \in Nat,
           mode[p] = "collaborative" /\ kind = "stroke" => n \in SharedStrokes(author),
           Board!Edit(p, Board!Page(strokes, redo), Board!Packet(p, kind, n)),
           author' = author,
           takenOff \subseteq takenOff', takenOff' \subseteq Board!Strokes,
           Board!ActivePage(p).strokes \ strokes \subseteq takenOff'
    PROVE  BoardInv'
<1> DEFINE sheet == Board!Page(strokes, redo)  packet == Board!Packet(p, kind, n)
<1>1. /\ Allowed(p, mode[p], author) \subseteq Board!Strokes
      /\ SharedStrokes(author) \subseteq Board!Strokes
  BY StrokesOf DEF BoardInv
<1>2. sheet \in Paper /\ Fits(sheet, Allowed(p, mode[p], author)) /\ sheet.strokes = strokes
  BY <1>1, PaperOf
<1>3. /\ packet \in Packets /\ packet.page = active[p][mode[p]] /\ packet.kind = kind
      /\ packet.stroke = n
  BY PacketOf
<1>4. Grown(author, author') /\ author' \in Seq(Authors) /\ Len(author') <= MaxStrokes
  BY SameAuthors
<1>5. Fits(sheet, Allowed(p, mode[p], author'))
  BY <1>2
<1>6. mode[p] = "collaborative" /\ packet.kind = "stroke" =>
          packet.stroke \in SharedStrokes(author')
  BY <1>3
<1> HIDE DEF sheet, packet
<1>7. /\ Board!Edit(p, sheet, packet)
      /\ Board!ActivePage(p).strokes \ sheet.strokes \subseteq takenOff'
  BY <1>2 DEF sheet, packet
<1>8. /\ BoardTypes' /\ OnlyAllowed' /\ Carried' /\ Issued'
      /\ \A q \in Members, k \in Board!Strokes :
             k \notin takenOff' /\ Reached(q, k) => Reached(q, k)'
  BY <1>2, <1>3, <1>4, <1>5, <1>6, <1>7, EditStep
<1>9. ReachesAll'
  BY <1>1, <1>8, StillReached DEF BoardInv
<1> QED BY <1>8, <1>9 DEF BoardInv

\* A stroke is drawn.
LEMMA AddStep ==
    ASSUME BoardInv, MaxStrokes \in Nat, NEW p \in Members, Board!addStroke(p)
    PROVE  BoardInv'
<1>n. PICK n : n = Len(author) + 1
  OBVIOUS
<1>w. PICK w : w = author'
  OBVIOUS
<1>1. /\ n \in Board!Strokes /\ author' = Append(author, [by |-> p, mode |-> mode[p]])
      /\ Board!Edit(p, Board!Page(Board!ActivePage(p).strokes \cup {n}, <<>>),
             Board!Packet(p, "stroke", n))
      /\ takenOff' = takenOff
  BY <1>n DEF Board!addStroke
<1>2. /\ author \in Seq(Authors) /\ [by |-> p, mode |-> mode[p]] \in Authors
      /\ takenOff \subseteq Board!Strokes
  BY ActiveOf DEF BoardInv, BoardTypes, Authors
<1>3. /\ author' \in Seq(Authors) /\ Len(author') = n /\ Len(author) \in Nat
      /\ \A i \in 1..Len(author) : author'[i] = author[i]
      /\ author'[n] = [by |-> p, mode |-> mode[p]]
  <2>1. PICK e : e = [by |-> p, mode |-> mode[p]]
    OBVIOUS
  <2>2. author' = Append(author, e) /\ e \in Authors
    BY <1>1, <1>2, <2>1
  <2> QED BY <2>1, <2>2, <1>2, <1>n, AppendProperties, LenProperties
<1>4. Grown(author, author') /\ Len(author') <= MaxStrokes
  BY <1>1, <1>3, <1>n DEF Grown, Board!Strokes
<1>5. n \in Allowed(p, mode[p], author')
          /\ (mode[p] = "collaborative" => n \in SharedStrokes(author'))
  <2>1. n \in 1..Len(author') /\ author'[n].by = p /\ author'[n].mode = mode[p]
    BY <1>1, <1>3 DEF Board!Strokes
  <2>2. mode[p] \in {"personal", "collaborative"}
    BY ActiveOf DEF Board!Modes
  <2> QED BY <2>1, <2>2 DEF Allowed, SharedStrokes
<1>s. PICK strokes : strokes = Board!ActivePage(p).strokes \cup {n}
  OBVIOUS
<1>p. PICK sheet : sheet = Board!Page(strokes, <<>>)
  OBVIOUS
<1>k. PICK packet : packet = Board!Packet(p, "stroke", n)
  OBVIOUS
<1>6. /\ sheet \in Paper /\ Fits(sheet, Allowed(p, mode[p], author'))
      /\ sheet.strokes = Board!ActivePage(p).strokes \cup {n}
  <2>1. Board!ActivePage(p).strokes \subseteq Allowed(p, mode[p], author)
    BY ActiveOf DEF Fits
  <2>2. Allowed(p, mode[p], author) \subseteq Allowed(p, mode[p], author')
    BY <1>2, <1>3, <1>4, AllowedGrows
  <2>3. Allowed(p, mode[p], author') \subseteq Board!Strokes
    BY <1>3, <1>4 DEF Allowed, SharedStrokes, Board!Strokes
  <2>4. PICK S : S = Allowed(p, mode[p], author')
    OBVIOUS
  <2>5. <<>> \in Seq(S)
    BY EmptySeq
  <2>6. strokes \subseteq S /\ S \subseteq Board!Strokes
    BY <2>1, <2>2, <2>3, <2>4, <1>5, <1>s
  <2>7. sheet \in Paper /\ Fits(sheet, S) /\ sheet.strokes = strokes
    BY <2>5, <2>6, <1>p, PaperOf
  <2> QED BY <2>4, <2>7, <1>s
<1>7. /\ packet \in Packets /\ packet.page = active[p][mode[p]] /\ packet.kind = "stroke"
      /\ packet.stroke = n
  <2>1. "stroke" \in PacketKinds /\ n \in Nat
    BY <1>1 DEF Board!Strokes, PacketKinds
  <2> QED BY <2>1, <1>k, PacketOf
<1>8. Board!Edit(p, sheet, packet)
  BY <1>1, <1>s, <1>p, <1>k
<1>9. Board!ActivePage(p).strokes \ sheet.strokes \subseteq takenOff'
  BY <1>6
<1>10. mode[p] = "collaborative" /\ packet.kind = "stroke" =>
           packet.stroke \in SharedStrokes(author')
  BY <1>5, <1>7
<1>11. /\ BoardTypes' /\ OnlyAllowed' /\ Carried' /\ Issued'
       /\ \A q \in Members, k \in Board!Strokes :
              k \notin takenOff' /\ Reached(q, k) => Reached(q, k)'
       /\ \A k \in sheet.strokes : Reached(p, k)'
       /\ mode[p] = "collaborative" /\ packet.kind = "stroke" =>
             \A q \in Members : q # p => Reached(q, packet.stroke)'
  <2>1. takenOff \subseteq takenOff' /\ takenOff' \subseteq Board!Strokes
    BY <1>1, <1>2
  <2> QED BY <2>1, <1>3, <1>4, <1>6, <1>7, <1>8, <1>9, <1>10, EditStep
<1>12. ReachesAll'
  <2>1. SUFFICES ASSUME NEW k \in SharedStrokes(author'), k \notin takenOff', NEW q \in Members
                 PROVE  Reached(q, k)'
    BY DEF ReachesAll
  <2>2. k \in 1..Len(author') /\ author'[k].mode = "collaborative"
    BY <2>1 DEF SharedStrokes
  <2>3. CASE k = n
    <3>1. mode[p] = "collaborative"
      BY <2>2, <2>3, <1>3
    <3>2. Reached(p, n)'
      BY <1>6, <1>11
    <3>3. \A r \in Members : r # p => Reached(r, packet.stroke)'
      BY <3>1, <1>7, <1>11
    <3>4. q # p => Reached(q, n)'
      BY <3>3, <1>7
    <3> QED BY <3>2, <3>4, <2>3
  <2>4. CASE k # n
    <3>1. k \in 1..Len(author) /\ author[k].mode = "collaborative"
      BY <2>2, <2>4, <1>3, <1>n
    <3>2. k \in SharedStrokes(author) /\ k \notin takenOff
      BY <3>1, <2>1, <1>1 DEF SharedStrokes
    <3>3. Reached(q, k) /\ k \in Board!Strokes
      BY <3>2, StrokesOf DEF BoardInv, ReachesAll
    <3> QED BY <3>3, <2>1, <1>11
  <2> QED BY <2>3, <2>4
<1> QED BY <1>11, <1>12 DEF BoardInv

\* Undo, redo, the eraser and clear.
LEMMA RedrawSteps ==
    ASSUME BoardInv, MaxStrokes \in Nat, NEW p \in Members,
           \/ Board!undo(p) \/ Board!undoClear(p) \/ Board!redo(p) \/ Board!clearAll(p)
           \/ \E n \in Board!Strokes : Board!deleteStroke(p, n)
    PROVE  BoardInv'
<1>o. PICK old : old = Board!ActivePage(p)
  OBVIOUS
<1>S. PICK S : S = Allowed(p, mode[p], author)
  OBVIOUS
<1>1. /\ old \in Paper /\ old.strokes \subseteq S /\ old.redo \in Seq(S)
      /\ S \subseteq Board!Strokes
      /\ takenOff \subseteq Board!Strokes /\ mode[p] \in Board!Modes
  <2>1. old \in Paper /\ Fits(old, S) /\ mode[p] \in Board!Modes
    BY <1>o, <1>S, ActiveOf
  <2>2. old.redo \in Seq(S)
    BY <2>1, RedoOf
  <2>3. S \subseteq Board!Strokes
    BY <1>S, StrokesOf DEF BoardInv
  <2> QED BY <2>1, <2>2, <2>3 DEF Fits, BoardInv, BoardTypes
<1>2. /\ {"stroke", "undo", "clear", "strokes_batch"} \subseteq PacketKinds
      /\ Board!Strokes \subseteq Nat /\ 0 \in Nat
  BY DEF PacketKinds, Board!Strokes
<1>3. mode[p] = "collaborative" => S = SharedStrokes(author)
  BY <1>S DEF Allowed
\* A stroke of the page is taken off it.
<1>4. ASSUME NEW n \in old.strokes,
             Board!Edit(p, Board!Page(old.strokes \ {n}, Append(old.redo, n)),
                 Board!Packet(p, "undo", n)),
             takenOff' = takenOff \cup {n}, author' = author
      PROVE  BoardInv'
  <2>1. PICK strokes, redo : strokes = old.strokes \ {n} /\ redo = Append(old.redo, n)
    OBVIOUS
  <2>2. strokes \subseteq S /\ redo \in Seq(S) /\ n \in Board!Strokes /\ n \in Nat
    BY <2>1, <1>1, <1>2, <1>4, AppendProperties
  <2>3. /\ takenOff \subseteq takenOff' /\ takenOff' \subseteq Board!Strokes
        /\ old.strokes \ strokes \subseteq takenOff'
    BY <2>1, <2>2, <1>1, <1>4
  <2>4. Board!Edit(p, Board!Page(strokes, redo), Board!Packet(p, "undo", n))
    BY <2>1, <1>4
  <2> QED BY <2>2, <2>3, <2>4, <1>2, <1>4, <1>o, <1>S, RedrawStep
<1>5. CASE Board!undo(p)
  <2>1. PICK n \in Board!Undoable(p) :
           /\ Board!Edit(p, Board!Page(old.strokes \ {n}, Append(old.redo, n)),
                  Board!Packet(p, "undo", n))
           /\ takenOff' = takenOff \cup {n}
    BY <1>5, <1>o DEF Board!undo
  <2>2. n \in old.strokes /\ author' = author
    BY <2>1, <1>5, <1>o DEF Board!undo, Board!Undoable
  <2> QED BY <2>1, <2>2, <1>4
<1>6. CASE \E n \in Board!Strokes : Board!deleteStroke(p, n)
  <2>1. PICK n : Board!deleteStroke(p, n)
    BY <1>6
  <2>2. /\ n \in old.strokes /\ author' = author /\ takenOff' = takenOff \cup {n}
        /\ Board!Edit(p, Board!Page(old.strokes \ {n}, Append(old.redo, n)),
               Board!Packet(p, "undo", n))
    BY <2>1, <1>o DEF Board!deleteStroke
  <2> QED BY <2>2, <1>4
<1>7. CASE Board!clearAll(p)
  <2>1. PICK strokes, redo : strokes = {} /\ redo = Board!SetToSeq(old.strokes)
    OBVIOUS
  <2>2. redo \in Seq(S) /\ strokes \subseteq S
    <3>1. IsFiniteSet(old.strokes)
      <4>1. IsFiniteSet(Board!Strokes)
        BY FS_Interval DEF Board!Strokes
      <4>2. old.strokes \in SUBSET Board!Strokes
        BY <1>1
      <4> QED BY <4>1, <4>2, FS_Subset
    <3>2. redo \in Seq(old.strokes)
      BY <2>1, <3>1, SeqOfSet
    <3> QED BY <2>1, <3>2, <1>1, SeqDef
  <2>3. /\ Board!Edit(p, Board!Page(strokes, redo), Board!Packet(p, "clear", 0))
        /\ takenOff' = takenOff \cup old.strokes /\ author' = author
    BY <1>7, <1>o, <2>1 DEF Board!clearAll
  <2>4. /\ takenOff \subseteq takenOff' /\ takenOff' \subseteq Board!Strokes
        /\ old.strokes \ strokes \subseteq takenOff'
    BY <2>1, <2>3, <1>1
  <2> QED BY <2>2, <2>3, <2>4, <1>2, <1>o, <1>S, RedrawStep
<1>8. CASE Board!undoClear(p)
  <2>1. PICK strokes, redo : strokes = Board!Range(old.redo) /\ redo = <<>>
    OBVIOUS
  <2>2. /\ Board!Edit(p, Board!Page(strokes, redo), Board!Packet(p, "strokes_batch", 0))
        /\ takenOff' = takenOff /\ author' = author /\ old.strokes = {}
    BY <1>8, <1>o, <2>1 DEF Board!undoClear
  <2>3. redo \in Seq(S)
    BY <2>1, EmptySeq
  <2>4. strokes \subseteq S
    BY <2>1, <1>1, ElementOfSeq, LenProperties DEF Board!Range
  <2>5. /\ takenOff \subseteq takenOff' /\ takenOff' \subseteq Board!Strokes
        /\ old.strokes \ strokes \subseteq takenOff'
    BY <2>2, <1>1
  <2> QED BY <2>2, <2>3, <2>4, <2>5, <1>2, <1>o, <1>S, RedrawStep
<1>9. CASE Board!redo(p)
  <2>1. PICK n : n = Board!Last(old.redo)
    OBVIOUS
  <2>2. PICK strokes, redo : strokes = old.strokes \cup {n} /\ redo = Board!Front(old.redo)
    OBVIOUS
  <2>3. /\ Board!Edit(p, Board!Page(strokes, redo), Board!Packet(p, "stroke", n))
        /\ takenOff' = takenOff /\ author' = author /\ old.redo # <<>>
    BY <1>9, <1>o, <2>1, <2>2 DEF Board!redo
  <2>4. Len(old.redo) \in Nat /\ Len(old.redo) >= 1
    BY <2>3, <1>1, EmptySeq, LenProperties
  <2>5. n \in S /\ n \in Nat
    <3>1. Len(old.redo) \in 1..Len(old.redo)
      BY <2>4
    <3> QED BY <3>1, <2>1, <1>1, <1>2, ElementOfSeq DEF Board!Last
  <2>6. redo \in Seq(S)
    <3>1. \A i \in 1..(Len(old.redo) - 1) : old.redo[i] \in S
      BY <2>4, <1>1, ElementOfSeq
    <3> QED BY <3>1, <2>2, <2>4, <1>1, SubSeqProperties DEF Board!Front
  <2>7. /\ takenOff \subseteq takenOff' /\ takenOff' \subseteq Board!Strokes
        /\ old.strokes \ strokes \subseteq takenOff'
    BY <2>2, <2>3, <1>1
  <2>8. strokes \subseteq S
    BY <2>2, <2>5, <1>1
  <2>9. mode[p] = "collaborative" => n \in SharedStrokes(author)
    BY <2>5, <1>3
  <2> QED BY <2>3, <2>5, <2>6, <2>7, <2>8, <2>9, <1>2, <1>o, <1>S, RedrawStep
<1> QED BY <1>5, <1>6, <1>7, <1>8, <1>9

\* A blank page more.
LEMMA WithPage ==
    ASSUME NEW book \in Books, NEW id \in Ids, id \notin DOMAIN book
    PROVE  LET new == Board!With(book, id, Board!Blank) IN
           /\ new \in Books /\ DOMAIN new = DOMAIN book \cup {id}
           /\ new[id] = Board!Blank /\ \A i \in DOMAIN book : new[i] = book[i]
<1>new. PICK new : new = Board!With(book, id, Board!Blank)
  OBVIOUS
<1>1. new = [i \in DOMAIN book \cup {id} |-> IF i = id THEN Board!Blank ELSE book[i]]
  BY <1>new DEF Board!With
<1>2. DOMAIN new = DOMAIN book \cup {id} /\ new[id] = Board!Blank /\ \A i \in DOMAIN book :
          new[i] = book[i]
  BY <1>1
<1>3. Board!Blank \in Paper
  <2>1. <<>> \in Seq(Board!Strokes)
    BY EmptySeq
  <2> QED BY <2>1 DEF Board!Blank, Board!Page, Paper
<1>4. new \in [DOMAIN book \cup {id} -> Paper]
  BY <1>1, <1>3, BookOf
<1>5. DOMAIN book \cup {id} \in SUBSET Ids
  BY BookOf
<1>6. new \in Books
  BY <1>4, <1>5, IsBook
<1> QED BY <1>2, <1>6, <1>new

LEMMA BlankFits == ASSUME NEW S PROVE Fits(Board!Blank, S)
BY EmptySeq DEF Fits, Board!Blank, Board!Page

\* One notebook gets a blank page.
LEMMA BlankAdded ==
    ASSUME BoardInv, NEW p \in Members, NEW m \in Board!Modes, NEW id \in Ids,
           id \notin DOMAIN pages[p][m],
           pages' = [pages EXCEPT ![p][m] = Board!With(pages[p][m], id, Board!Blank)],
           author' = author, added' \in Nat, added <= added', GivenOut(id, added')
    PROVE  /\ pages' \in [Members -> [Board!Modes -> Books]] /\ OnlyAllowed'
           /\ DOMAIN pages'[p][m] = DOMAIN pages[p][m] \cup {id}
           /\ \A q \in Members, k \in Board!Modes : q # p \/ k # m =>
                  pages'[q][k] = pages[q][k]
           /\ \A q \in Members, k \in Board!Modes : \A i \in DOMAIN pages'[q][k] :
                  GivenOut(i, added')
           /\ \A q \in Members, k \in Board!Modes, n \in Board!Strokes :
                 InBook(pages[q][k], n) => InBook(pages'[q][k], n)
<1>new. PICK new : new = Board!With(pages[p][m], id, Board!Blank)
  OBVIOUS
<1>1. pages[p][m] \in Books /\ added \in Nat
  BY DEF BoardInv, BoardTypes
<1>2. /\ new \in Books /\ DOMAIN new = DOMAIN pages[p][m] \cup {id}
      /\ new[id] = Board!Blank /\ \A i \in DOMAIN pages[p][m] : new[i] = pages[p][m][i]
  BY <1>1, <1>new, WithPage
<1>3. author' \in Seq(Authors) /\ Grown(author, author')
  BY SameAuthors
<1>4. \A i \in DOMAIN new : Fits(new[i], Allowed(p, m, author')) /\ GivenOut(i, added')
  <2>1. \A i \in DOMAIN pages[p][m] :
            Fits(pages[p][m][i], Allowed(p, m, author)) /\ GivenOut(i, added)
    BY DEF BoardInv, OnlyAllowed, Issued
  <2>2. \A i : GivenOut(i, added) => GivenOut(i, added')
    BY <1>1 DEF GivenOut
  <2> QED BY <2>1, <2>2, <1>2, BlankFits
<1>5. pages' = [pages EXCEPT ![p][m] = new]
  BY <1>new
<1>6. /\ pages' \in [Members -> [Board!Modes -> Books]] /\ OnlyAllowed'
      /\ pages'[p][m] = new
      /\ \A q \in Members, k \in Board!Modes : q # p \/ k # m => pages'[q][k] = pages[q][k]
      /\ \A q \in Members, k \in Board!Modes : \A i \in DOMAIN pages'[q][k] :
             GivenOut(i, added')
      /\ \A q \in Members, k \in Board!Modes, n \in Board!Strokes :
            InBook(pages[q][k], n) =>
                InBook(pages'[q][k], n) \/ (q = p /\ k = m /\ ~InBook(new, n))
  BY <1>2, <1>3, <1>4, <1>5, Rebooked
<1>7. \A n : InBook(pages[p][m], n) => InBook(new, n)
  BY <1>2 DEF InBook
<1> QED BY <1>2, <1>6, <1>7

\* A packet that carries no stroke goes to the others, from a shared board.
LEMMA ToldOthers ==
    ASSUME BoardInv, NEW p \in Members, NEW packet \in Packets, packet.kind # "stroke",
           Board!Tell(p, packet), author' = author, added' \in Nat, added <= added',
           GivenOut(packet.page, added')
    PROVE  /\ network' \in [Members -> [Members -> Seq(Packets)]] /\ Carried'
           /\ \A q, r \in Members : \A i \in 1..Len(network'[q][r]) :
                 GivenOut(network'[q][r][i].page, added')
           /\ \A q, r \in Members, n \in Board!Strokes :
                 InQueue(network[q][r], n) => InQueue(network'[q][r], n)
<1>1. author' \in Seq(Authors) /\ Grown(author, author')
  BY SameAuthors
<1>2. CASE Board!Shared(p)
  <2>1. network' = [network EXCEPT ![p] = [q \in Members |->
                       IF q = p THEN @[q] ELSE Append(@[q], packet)]]
    BY <1>2 DEF Board!Tell
  <2> QED BY <2>1, <1>1, Sent
<1>3. CASE ~Board!Shared(p)
  <2>1. network' = network
    BY <1>3 DEF Board!Tell
  <2>2. \A i : GivenOut(i, added) => GivenOut(i, added')
    BY DEF GivenOut, BoardInv, BoardTypes
  <2>3. Carried'
    BY <2>1 DEF Carried, BoardInv
  <2> QED BY <2>1, <2>2, <2>3 DEF BoardInv, BoardTypes, Issued
<1> QED BY <1>2, <1>3

\* A page is added, shown, or deleted with its strokes; a member turns to its other
\* notebook.
LEMMA AddPageStep ==
    ASSUME BoardInv, MaxStrokes \in Nat, MaxPages \in Nat, NEW p \in Members, Board!addPage(p)
    PROVE  BoardInv'
<1>m. PICK m : m = mode[p]
  OBVIOUS
<1>k. PICK k : k = added'
  OBVIOUS
<1>i. PICK id : id = <<"added", k>>
  OBVIOUS
<1>1. /\ m \in Board!Modes /\ added \in Nat /\ k = added + 1 /\ k \in 1..MaxPages
      /\ UNCHANGED <<mode, author, takenOff>>
      /\ active \in [Members -> [Board!Modes -> Ids]]
  BY <1>m, <1>k, ActiveOf DEF Board!addPage, BoardInv, BoardTypes
<1>2. id \in Ids /\ GivenOut(id, added')
  BY <1>1, <1>i, <1>k DEF Ids, GivenOut
<1>3. id \notin DOMAIN pages[p][m]
  <2>1. ~GivenOut(id, added)
    BY <1>1, <1>i DEF GivenOut
  <2> QED BY <2>1, <1>1 DEF BoardInv, Issued
<1>4. /\ pages' = [pages EXCEPT ![p][m] = Board!With(pages[p][m], id, Board!Blank)]
      /\ active' = [active EXCEPT ![p][m] = id]
      /\ Board!Tell(p, [kind |-> "add", page |-> id, stroke |-> 0])
  BY <1>m, <1>k, <1>i DEF Board!addPage
<1>5. added' \in Nat /\ added <= added' /\ added' <= MaxPages
  BY <1>1, <1>k
<1>6. /\ pages' \in [Members -> [Board!Modes -> Books]] /\ OnlyAllowed'
      /\ DOMAIN pages'[p][m] = DOMAIN pages[p][m] \cup {id}
      /\ \A q \in Members, j \in Board!Modes : q # p \/ j # m => pages'[q][j] = pages[q][j]
      /\ \A q \in Members, j \in Board!Modes : \A i \in DOMAIN pages'[q][j] :
             GivenOut(i, added')
      /\ \A q \in Members, j \in Board!Modes, n \in Board!Strokes :
            InBook(pages[q][j], n) => InBook(pages'[q][j], n)
  BY <1>1, <1>2, <1>3, <1>4, <1>5, BlankAdded
<1>p. PICK packet : packet = [kind |-> "add", page |-> id, stroke |-> 0]
  OBVIOUS
<1>7. packet \in Packets /\ packet.kind # "stroke" /\ packet.page = id /\ Board!Tell(p, packet)
  BY <1>2, <1>4, <1>p DEF Packets, PacketKinds
<1>8. /\ network' \in [Members -> [Members -> Seq(Packets)]] /\ Carried'
      /\ \A q, r \in Members : \A i \in 1..Len(network'[q][r]) :
            GivenOut(network'[q][r][i].page, added')
      /\ \A q, r \in Members, n \in Board!Strokes :
            InQueue(network[q][r], n) => InQueue(network'[q][r], n)
  BY <1>1, <1>2, <1>5, <1>7, ToldOthers
<1>9. BoardTypes'
  <2>1. active' \in [Members -> [Board!Modes -> Ids]]
    BY <1>1, <1>2, <1>4
  <2>2. ASSUME NEW q \in Members, NEW j \in Board!Modes
        PROVE  active'[q][j] \in DOMAIN pages'[q][j]
    <3>1. CASE q = p /\ j = m
      BY <3>1, <1>1, <1>4, <1>6
    <3>2. CASE q # p \/ j # m
      <4>1. active'[q][j] = active[q][j] /\ pages'[q][j] = pages[q][j]
        BY <3>2, <1>1, <1>4, <1>6
      <4> QED BY <4>1 DEF BoardInv, BoardTypes
    <3> QED BY <3>1, <3>2
  <2> QED BY <2>1, <2>2, <1>1, <1>5, <1>6, <1>8 DEF BoardInv, BoardTypes
<1>10. Issued'
  BY <1>6, <1>8 DEF Issued
<1>11. \A q \in Members, n \in Board!Strokes : Reached(q, n) => Reached(q, n)'
  BY <1>6, <1>8 DEF Reached
<1>12. ReachesAll'
  BY <1>1, <1>11, StrokesOf, StillReached DEF BoardInv
<1> QED BY <1>6, <1>8, <1>9, <1>10, <1>12 DEF BoardInv

LEMMA SwitchStep ==
    ASSUME BoardInv, MaxStrokes \in Nat, NEW p \in Members, NEW id, Board!switchPage(p, id)
    PROVE  BoardInv'
<1>m. PICK m : m = mode[p]
  OBVIOUS
<1>1. /\ m \in Board!Modes /\ added \in Nat /\ id \in DOMAIN pages[p][m]
      /\ active' = [active EXCEPT ![p][m] = id]
      /\ UNCHANGED <<mode, pages, author, takenOff, added>>
      /\ active \in [Members -> [Board!Modes -> Ids]]
      /\ Board!Tell(p, [kind |-> "switch", page |-> id, stroke |-> 0])
  BY <1>m, ActiveOf DEF Board!switchPage, Board!Notebook, BoardInv, BoardTypes
<1>2. id \in Ids /\ GivenOut(id, added)
  <2>1. pages[p][m] \in Books
    BY <1>1 DEF BoardInv, BoardTypes
  <2> QED BY <2>1, <1>1, BookOf DEF BoardInv, Issued
<1>p. PICK packet : packet = [kind |-> "switch", page |-> id, stroke |-> 0]
  OBVIOUS
<1>3. packet \in Packets /\ packet.kind # "stroke" /\ packet.page = id /\ Board!Tell(p, packet)
  BY <1>1, <1>2, <1>p DEF Packets, PacketKinds
<1>4. added' \in Nat /\ added <= added' /\ GivenOut(packet.page, added')
  BY <1>1, <1>2, <1>3
<1>5. /\ network' \in [Members -> [Members -> Seq(Packets)]] /\ Carried'
      /\ \A q, r \in Members : \A i \in 1..Len(network'[q][r]) :
            GivenOut(network'[q][r][i].page, added')
      /\ \A q, r \in Members, n \in Board!Strokes :
            InQueue(network[q][r], n) => InQueue(network'[q][r], n)
  BY <1>1, <1>3, <1>4, ToldOthers
<1>6. BoardTypes'
  <2>1. active' \in [Members -> [Board!Modes -> Ids]]
    BY <1>1, <1>2
  <2>2. \A q \in Members, j \in Board!Modes : active'[q][j] \in DOMAIN pages'[q][j]
    BY <1>1 DEF BoardInv, BoardTypes
  <2> QED BY <2>1, <2>2, <1>1, <1>5 DEF BoardInv, BoardTypes
<1>7. OnlyAllowed' /\ Issued'
  BY <1>1, <1>5 DEF BoardInv, OnlyAllowed, Issued
<1>8. \A q \in Members, n \in Board!Strokes : Reached(q, n) => Reached(q, n)'
  BY <1>1, <1>5 DEF Reached
<1>9. ReachesAll'
  BY <1>1, <1>8, StrokesOf, StillReached DEF BoardInv
<1> QED BY <1>5, <1>6, <1>7, <1>9 DEF BoardInv

LEMMA DeletePageStep ==
    ASSUME BoardInv, MaxStrokes \in Nat, NEW p \in Members, NEW id, Board!deletePage(p, id)
    PROVE  BoardInv'
<1>m. PICK m : m = mode[p]
  OBVIOUS
<1>b. PICK old, new : old = pages[p][m] /\ new = [i \in DOMAIN old \ {id} |-> old[i]]
  OBVIOUS
<1>1. /\ m \in Board!Modes /\ added \in Nat /\ id \in DOMAIN old /\ old \in Books
      /\ pages' = [pages EXCEPT ![p][m] = new]
      /\ takenOff' = takenOff \cup old[id].strokes
      /\ UNCHANGED <<mode, network, author, added>>
      /\ active \in [Members -> [Board!Modes -> Ids]]
      /\ pages \in [Members -> [Board!Modes -> Books]]
  BY <1>m, <1>b, ActiveOf DEF Board!deletePage, Board!Notebook, BoardInv, BoardTypes
<1>2. PICK first \in DOMAIN old \ {id} :
         active' = [active EXCEPT ![p][m] = IF active[p][m] = id THEN first ELSE active[p][m]]
  BY <1>m, <1>b DEF Board!deletePage, Board!Notebook
<1>3. new \in Books /\ DOMAIN new = DOMAIN old \ {id} /\ \A i \in DOMAIN new : new[i] = old[i]
  <2>1. DOMAIN old \ {id} \in SUBSET Ids /\ new \in [DOMAIN old \ {id} -> Paper]
    BY <1>1, <1>b, BookOf
  <2> QED BY <2>1, <1>b, IsBook
<1>4. author' \in Seq(Authors) /\ Grown(author, author') /\ added' \in Nat /\ added <= added'
  BY <1>1, SameAuthors
<1>5. \A i \in DOMAIN new : Fits(new[i], Allowed(p, m, author')) /\ GivenOut(i, added')
  BY <1>1, <1>3, <1>b DEF BoardInv, OnlyAllowed, Issued
<1>6. /\ pages' \in [Members -> [Board!Modes -> Books]] /\ OnlyAllowed'
      /\ pages'[p][m] = new
      /\ \A q \in Members, k \in Board!Modes : q # p \/ k # m => pages'[q][k] = pages[q][k]
      /\ \A q \in Members, k \in Board!Modes : \A i \in DOMAIN pages'[q][k] :
             GivenOut(i, added')
      /\ \A q \in Members, k \in Board!Modes, n \in Board!Strokes :
            InBook(pages[q][k], n) =>
                InBook(pages'[q][k], n) \/ (q = p /\ k = m /\ ~InBook(new, n))
  BY <1>1, <1>3, <1>4, <1>5, Rebooked
<1>7. takenOff \subseteq takenOff' /\ takenOff' \subseteq Board!Strokes
  <2>1. old[id].strokes \subseteq Board!Strokes
    BY <1>1, BookOf DEF Paper
  <2> QED BY <2>1, <1>1 DEF BoardInv, BoardTypes
<1>8. BoardTypes'
  <2>1. active[p][m] \in DOMAIN old /\ DOMAIN old \subseteq Ids
    BY <1>1, <1>b, BookOf DEF BoardInv, BoardTypes
  <2>2. active' \in [Members -> [Board!Modes -> Ids]]
    BY <1>1, <1>2, <2>1
  <2>3. ASSUME NEW q \in Members, NEW j \in Board!Modes
        PROVE  active'[q][j] \in DOMAIN pages'[q][j]
    <3>1. CASE q = p /\ j = m
      BY <3>1, <2>1, <1>1, <1>2, <1>3, <1>6
    <3>2. CASE q # p \/ j # m
      <4>1. active'[q][j] = active[q][j] /\ pages'[q][j] = pages[q][j]
        BY <3>2, <1>1, <1>2, <1>6
      <4> QED BY <4>1 DEF BoardInv, BoardTypes
    <3> QED BY <3>1, <3>2
  <2> QED BY <2>2, <2>3, <1>1, <1>6, <1>7 DEF BoardInv, BoardTypes
<1>9. Carried' /\ Issued'
  BY <1>1, <1>6 DEF BoardInv, Carried, Issued
<1>10. ASSUME NEW q \in Members, NEW n \in Board!Strokes, n \notin takenOff', Reached(q, n)
       PROVE  Reached(q, n)'
  <2>1. InBook(old, n) => InBook(new, n)
    BY <1>1, <1>3, <1>10 DEF InBook
  <2>2. \A k \in Board!Modes : InBook(pages[q][k], n) => InBook(pages'[q][k], n)
    BY <2>1, <1>6, <1>b
  <2> QED BY <2>2, <1>1, <1>10 DEF Reached
<1>11. ReachesAll'
  BY <1>1, <1>7, <1>10, StrokesOf, StillReached DEF BoardInv
<1> QED BY <1>6, <1>8, <1>9, <1>11 DEF BoardInv

LEMMA ModeStep ==
    ASSUME BoardInv, NEW p \in Members, NEW m \in Board!Modes, Board!setPrivacyMode(p, m)
    PROVE  BoardInv'
BY DEF Board!setPrivacyMode, BoardInv, BoardTypes, OnlyAllowed, Carried, Issued, ReachesAll,
   Reached

\* One page of a notebook is replaced by one with other strokes.
LEMMA PageReplaced ==
    ASSUME BoardInv, NEW p \in Members, NEW m \in Board!Modes, NEW id \in DOMAIN pages[p][m],
           NEW sheet \in Paper, Fits(sheet, Allowed(p, m, author)),
           pages' = [pages EXCEPT ![p][m] = [pages[p][m] EXCEPT ![id] = sheet]],
           author' = author, added' = added
    PROVE  /\ pages' \in [Members -> [Board!Modes -> Books]] /\ OnlyAllowed'
           /\ pages'[p][m][id] = sheet
           /\ \A q \in Members, k \in Board!Modes : DOMAIN pages'[q][k] = DOMAIN pages[q][k]
           /\ \A q \in Members, k \in Board!Modes : \A i \in DOMAIN pages'[q][k] :
                  GivenOut(i, added')
           /\ \A q \in Members, k \in Board!Modes, n \in Board!Strokes :
                 InBook(pages[q][k], n) =>
                     \/ InBook(pages'[q][k], n)
                     \/ q = p /\ k = m /\ n \in pages[p][m][id].strokes \ sheet.strokes
<1>b. PICK old, new : old = pages[p][m] /\ new = [old EXCEPT ![id] = sheet]
  OBVIOUS
<1>1. old \in Books /\ added \in Nat
  BY <1>b DEF BoardInv, BoardTypes
<1>2. /\ new \in [DOMAIN old -> Paper] /\ DOMAIN new = DOMAIN old /\ new[id] = sheet
      /\ \A i \in DOMAIN old : i # id => new[i] = old[i]
  BY <1>1, <1>b, BookOf
<1>3. new \in Books
  BY <1>1, <1>2, BookOf, IsBook
<1>4. author' \in Seq(Authors) /\ Grown(author, author') /\ added' \in Nat /\ added <= added'
  BY <1>1, SameAuthors
<1>5. \A i \in DOMAIN new : Fits(new[i], Allowed(p, m, author')) /\ GivenOut(i, added')
  BY <1>2, <1>b DEF BoardInv, OnlyAllowed, Issued
<1>6. pages' = [pages EXCEPT ![p][m] = new]
  BY <1>b
<1>7. /\ pages' \in [Members -> [Board!Modes -> Books]] /\ OnlyAllowed'
      /\ pages'[p][m] = new
      /\ \A q \in Members, k \in Board!Modes : q # p \/ k # m => pages'[q][k] = pages[q][k]
      /\ \A q \in Members, k \in Board!Modes : \A i \in DOMAIN pages'[q][k] :
             GivenOut(i, added')
      /\ \A q \in Members, k \in Board!Modes, n \in Board!Strokes :
            InBook(pages[q][k], n) =>
                InBook(pages'[q][k], n) \/ (q = p /\ k = m /\ ~InBook(new, n))
  BY <1>3, <1>4, <1>5, <1>6, Rebooked
<1>8. \A q \in Members, k \in Board!Modes : DOMAIN pages'[q][k] = DOMAIN pages[q][k]
  BY <1>2, <1>7, <1>b
<1>9. \A n : InBook(old, n) /\ ~InBook(new, n) => n \in old[id].strokes \ sheet.strokes
  BY <1>2, <1>b DEF InBook
<1> QED BY <1>2, <1>7, <1>8, <1>9, <1>b

\* The packet that was taken does not count, the rest of its link does.
LEMMA ReceivedKeeps ==
    ASSUME BoardInv, MaxStrokes \in Nat, NEW p \in Members, NEW q \in Members,
           NEW kinds, Board!Receive(p, q, kinds), added' = added,
           pages' \in [Members -> [Board!Modes -> Books]],
           active' \in [Members -> [Board!Modes -> Ids]],
           \A r \in Members, k \in Board!Modes : active'[r][k] \in DOMAIN pages'[r][k],
           OnlyAllowed',
           \A r \in Members, k \in Board!Modes : \A i \in DOMAIN pages'[r][k] :
               GivenOut(i, added'),
           takenOff \subseteq takenOff', takenOff' \subseteq Board!Strokes,
           \A r \in Members, k \in Board!Modes, n \in Board!Strokes :
               n \notin takenOff' /\ InBook(pages[r][k], n) => InBook(pages'[r][k], n),
           \A n \in Board!Strokes :
               Head(network[q][p]).kind = "stroke" /\ Head(network[q][p]).stroke = n =>
                   Reached(p, n)'
    PROVE  BoardInv'
<1>1. /\ network[q][p] # <<>> /\ network' = [network EXCEPT ![q][p] = Tail(@)]
      /\ mode' = mode /\ author' = author
  BY DEF Board!Receive
<1>2. TookHead(p, q)
  BY TakenPacket
<1>3. BoardTypes'
  BY <1>1, <1>2 DEF BoardInv, BoardTypes, TookHead
<1>4. Issued'
  BY <1>2 DEF Issued, TookHead
<1>5. ASSUME NEW s \in Members, NEW n \in Board!Strokes, n \notin takenOff', Reached(s, n)
      PROVE  Reached(s, n)'
  <2>1. CASE \E k \in Board!Modes : InBook(pages[s][k], n)
    BY <2>1, <1>5 DEF Reached
  <2>2. CASE \E r \in Members : InQueue(network[r][s], n)
    <3>1. PICK r \in Members : InQueue(network[r][s], n)
      BY <2>2
    <3>2. CASE InQueue(network'[r][s], n)
      BY <3>2 DEF Reached
    <3>3. CASE s = p /\ Head(network[q][p]).kind = "stroke" /\ Head(network[q][p]).stroke = n
      BY <3>3
    <3> QED BY <3>1, <3>2, <3>3, <1>2 DEF TookHead
  <2> QED BY <2>1, <2>2, <1>5 DEF Reached
<1>6. ReachesAll'
  BY <1>1, <1>5, StrokesOf, StillReached DEF BoardInv
<1> QED BY <1>2, <1>3, <1>4, <1>6 DEF BoardInv, TookHead

\* The packet a member is about to take.
LEMMA HeadPacket ==
    ASSUME BoardInv, NEW p \in Members, NEW q \in Members, network[q][p] # <<>>
    PROVE  /\ Board!Head1(p, q) = Head(network[q][p]) /\ Board!Head1(p, q) \in Packets
           /\ GivenOut(Board!Head1(p, q).page, added)
           /\ Board!Head1(p, q).kind = "stroke" =>
                  Board!Head1(p, q).stroke \in SharedStrokes(author)
<1>s. PICK s : s = network[q][p]
  OBVIOUS
<1>1. s \in Seq(Packets) /\ s # <<>>
  BY <1>s DEF BoardInv, BoardTypes
<1>2. Head(s) = s[1] /\ Head(s) \in Packets /\ 1 \in 1..Len(s)
  BY <1>1, HeadTailProperties, EmptySeq, LenProperties
<1>3. Board!Head1(p, q) = s[1]
  BY <1>2, <1>s DEF Board!Head1
<1> QED BY <1>2, <1>3, <1>s DEF BoardInv, Issued, Carried

\* A stroke arrives.
LEMMA StrokeStep ==
    ASSUME BoardInv, MaxStrokes \in Nat, NEW p \in Members, NEW q \in Members,
           Board!OnStroke(p, q)
    PROVE  BoardInv'
<1>h. PICK packet : packet = Board!Head1(p, q)
  OBVIOUS
<1>n. PICK n : n = packet.stroke
  OBVIOUS
<1>1. /\ Board!Receive(p, q, {"stroke"}) /\ network[q][p] # <<>> /\ packet.kind = "stroke"
      /\ pages' = [pages EXCEPT ![p] = Board!Lands(p, packet)]
      /\ UNCHANGED <<active, takenOff, author, added>>
  BY <1>h DEF Board!OnStroke, Board!Receive
<1>2. n \in SharedStrokes(author) /\ Head(network[q][p]) = packet /\ n \in Board!Strokes
  BY <1>1, <1>h, <1>n, HeadPacket, StrokesOf DEF BoardInv
<1>3. "collaborative" \in Board!Modes
  BY DEF Board!Modes
<1>4. PICK k, id :
         /\ k \in Board!Modes /\ id \in DOMAIN pages[p][k]
         /\ pages' = [pages EXCEPT ![p] = [pages[p] EXCEPT ![k][id].strokes = @ \cup {n}]]
  <2>1. CASE packet.page \in DOMAIN pages[p]["collaborative"]
    BY <2>1, <1>1, <1>3, <1>n DEF Board!Lands
  <2>2. CASE packet.page \notin DOMAIN pages[p]["collaborative"]
    BY <2>2, <1>1, <1>n, ActiveOf DEF Board!Lands
  <2> QED BY <2>1, <2>2
<1>g. PICK sheet : sheet = [pages[p][k][id] EXCEPT !.strokes = @ \cup {n}]
  OBVIOUS
<1>5. pages' = [pages EXCEPT ![p][k] = [pages[p][k] EXCEPT ![id] = sheet]]
  BY <1>4, <1>g DEF BoardInv, BoardTypes
<1>6. /\ sheet \in Paper /\ Fits(sheet, Allowed(p, k, author))
      /\ sheet.strokes = pages[p][k][id].strokes \cup {n}
  <2>1. pages[p][k][id] \in Paper
    BY <1>4, BookOf DEF BoardInv, BoardTypes
  <2>2. /\ sheet \in Paper /\ sheet.strokes = pages[p][k][id].strokes \cup {n}
        /\ sheet.redo = pages[p][k][id].redo
    BY <2>1, <1>2, <1>g DEF Paper
  <2>3. n \in Allowed(p, k, author) /\ Fits(pages[p][k][id], Allowed(p, k, author))
    BY <1>2, <1>4 DEF Allowed, BoardInv, OnlyAllowed
  <2> QED BY <2>2, <2>3 DEF Fits
<1>7. /\ pages' \in [Members -> [Board!Modes -> Books]] /\ OnlyAllowed'
      /\ pages'[p][k][id] = sheet
      /\ \A r \in Members, j \in Board!Modes : DOMAIN pages'[r][j] = DOMAIN pages[r][j]
      /\ \A r \in Members, j \in Board!Modes : \A i \in DOMAIN pages'[r][j] :
             GivenOut(i, added')
      /\ \A r \in Members, j \in Board!Modes, x \in Board!Strokes :
            InBook(pages[r][j], x) =>
                \/ InBook(pages'[r][j], x)
                \/ r = p /\ j = k /\ x \in pages[p][k][id].strokes \ sheet.strokes
  BY <1>1, <1>4, <1>5, <1>6, PageReplaced
<1>8. Reached(p, n)'
  <2>1. InBook(pages'[p][k], n)
    BY <1>4, <1>6, <1>7 DEF InBook
  <2> QED BY <2>1, <1>4 DEF Reached
<1>9. \A x \in Board!Strokes :
         Head(network[q][p]).kind = "stroke" /\ Head(network[q][p]).stroke = x =>
             Reached(p, x)'
  BY <1>2, <1>8, <1>n
<1>10. /\ active' \in [Members -> [Board!Modes -> Ids]]
       /\ \A r \in Members, j \in Board!Modes : active'[r][j] \in DOMAIN pages'[r][j]
       /\ takenOff \subseteq takenOff' /\ takenOff' \subseteq Board!Strokes
  BY <1>1, <1>7 DEF BoardInv, BoardTypes
<1>11. \A r \in Members, j \in Board!Modes, x \in Board!Strokes :
          x \notin takenOff' /\ InBook(pages[r][j], x) => InBook(pages'[r][j], x)
  BY <1>6, <1>7
<1> QED BY <1>1, <1>7, <1>9, <1>10, <1>11, ReceivedKeeps

\* An undo or a clear arrives.
LEMMA RemoveStep ==
    ASSUME BoardInv, MaxStrokes \in Nat, NEW p \in Members, NEW q \in Members,
           Board!OnRemove(p, q)
    PROVE  BoardInv'
<1>h. PICK packet : packet = Board!Head1(p, q)
  OBVIOUS
<1>c. PICK c : c = "collaborative"
  OBVIOUS
<1>1. /\ Board!Receive(p, q, {"undo", "clear"}) /\ network[q][p] # <<>>
      /\ packet.kind \in {"undo", "clear"}
      /\ UNCHANGED <<active, author, added>> /\ c \in Board!Modes
      /\ takenOff' = takenOff \cup (Board!OnBoard(p, c) \ Board!OnBoard(p, c)')
  BY <1>h, <1>c DEF Board!OnRemove, Board!Receive, Board!Modes
<1>2. Head(network[q][p]) = packet /\ packet.kind # "stroke"
  BY <1>1, <1>h, HeadPacket
<1>3. takenOff \subseteq takenOff' /\ takenOff' \subseteq Board!Strokes
  <2>1. Board!OnBoard(p, c) \subseteq Board!Strokes
    <3>1. pages[p][c] \in Books
      BY <1>1 DEF BoardInv, BoardTypes
    <3> QED BY <3>1, BookOf DEF Board!OnBoard, Paper
  <2> QED BY <2>1, <1>1 DEF BoardInv, BoardTypes
<1>4. \A n : InBook(pages[p][c], n) /\ ~InBook(pages'[p][c], n) => n \in takenOff'
  BY <1>1 DEF InBook, Board!OnBoard
<1>5. /\ pages' \in [Members -> [Board!Modes -> Books]] /\ OnlyAllowed'
      /\ \A r \in Members, j \in Board!Modes : DOMAIN pages'[r][j] = DOMAIN pages[r][j]
      /\ \A r \in Members, j \in Board!Modes : \A i \in DOMAIN pages'[r][j] :
             GivenOut(i, added')
      /\ \A r \in Members, j \in Board!Modes, x \in Board!Strokes :
            InBook(pages[r][j], x) => InBook(pages'[r][j], x) \/ (r = p /\ j = c)
  <2>1. CASE packet.page \notin DOMAIN pages[p][c]
    <3>1. pages' = pages
      BY <2>1, <1>h, <1>c DEF Board!OnRemove
    <3> QED BY <3>1, <1>1 DEF BoardInv, BoardTypes, OnlyAllowed, Issued
  <2>2. CASE packet.page \in DOMAIN pages[p][c]
    <3>d. PICK id, old : id = packet.page /\ old = pages[p][c][id]
      OBVIOUS
    <3>g. PICK sheet : sheet = IF packet.kind = "clear" THEN Board!Blank
                             ELSE Board!Page(old.strokes \ {packet.stroke}, old.redo)
      OBVIOUS
    <3>1. pages' = [pages EXCEPT ![p][c] = [pages[p][c] EXCEPT ![id] = sheet]]
      BY <2>2, <3>d, <3>g, <1>h, <1>c DEF Board!OnRemove
    <3>2. old \in Paper /\ Fits(old, Allowed(p, c, author))
      BY <2>2, <3>d, <1>1, BookOf DEF BoardInv, BoardTypes, OnlyAllowed
    <3>3. sheet \in Paper /\ Fits(sheet, Allowed(p, c, author))
      <4>1. CASE packet.kind = "clear"
        <5>1. <<>> \in Seq(Board!Strokes) /\ Len(<<>>) = 0
          BY EmptySeq
        <5> QED BY <4>1, <5>1, <3>g, BlankFits DEF Board!Blank, Board!Page, Paper
      <4>2. CASE packet.kind # "clear"
        BY <4>2, <3>2, <3>g DEF Board!Page, Paper, Fits
      <4> QED BY <4>1, <4>2
    <3>4. id \in DOMAIN pages[p][c]
      BY <2>2, <3>d
    <3>5. /\ pages' \in [Members -> [Board!Modes -> Books]] /\ OnlyAllowed'
          /\ pages'[p][c][id] = sheet
          /\ \A r \in Members, k \in Board!Modes : DOMAIN pages'[r][k] = DOMAIN pages[r][k]
          /\ \A r \in Members, k \in Board!Modes : \A i \in DOMAIN pages'[r][k] :
                 GivenOut(i, added')
          /\ \A r \in Members, k \in Board!Modes, n \in Board!Strokes :
                InBook(pages[r][k], n) =>
                    \/ InBook(pages'[r][k], n)
                    \/ r = p /\ k = c /\ n \in pages[p][c][id].strokes \ sheet.strokes
      BY <3>1, <3>3, <3>4, <1>1, PageReplaced
    <3> QED BY <3>5
  <2> QED BY <2>1, <2>2
<1>6. \A r \in Members, j \in Board!Modes, x \in Board!Strokes :
         x \notin takenOff' /\ InBook(pages[r][j], x) => InBook(pages'[r][j], x)
  BY <1>4, <1>5
<1>7. /\ active' \in [Members -> [Board!Modes -> Ids]]
      /\ \A r \in Members, j \in Board!Modes : active'[r][j] \in DOMAIN pages'[r][j]
  BY <1>1, <1>5 DEF BoardInv, BoardTypes
<1> QED BY <1>1, <1>2, <1>3, <1>5, <1>6, <1>7, ReceivedKeeps

\* A batch adds nothing.
LEMMA BatchStep ==
    ASSUME BoardInv, MaxStrokes \in Nat, NEW p \in Members, NEW q \in Members,
           Board!OnBatch(p, q)
    PROVE  BoardInv'
<1>1. /\ Board!Receive(p, q, {"strokes_batch"}) /\ network[q][p] # <<>>
      /\ Board!Head1(p, q).kind = "strokes_batch"
      /\ UNCHANGED <<pages, active, takenOff, author, added>>
  BY DEF Board!OnBatch, Board!Receive
<1>2. Head(network[q][p]).kind # "stroke"
  BY <1>1, HeadPacket
<1>3. /\ pages' \in [Members -> [Board!Modes -> Books]]
      /\ active' \in [Members -> [Board!Modes -> Ids]]
      /\ \A r \in Members, k \in Board!Modes : active'[r][k] \in DOMAIN pages'[r][k]
      /\ \A r \in Members, k \in Board!Modes : \A i \in DOMAIN pages'[r][k] :
             GivenOut(i, added')
      /\ takenOff \subseteq takenOff' /\ takenOff' \subseteq Board!Strokes
  BY <1>1 DEF BoardInv, BoardTypes, Issued
<1>4. OnlyAllowed'
  BY <1>1 DEF BoardInv, OnlyAllowed
<1> QED BY <1>1, <1>2, <1>3, <1>4, ReceivedKeeps

\* A page added or shown by another member.
LEMMA PageSyncStep ==
    ASSUME BoardInv, MaxStrokes \in Nat, NEW p \in Members, NEW q \in Members,
           Board!OnPageSync(p, q)
    PROVE  BoardInv'
<1>h. PICK packet : packet = Board!Head1(p, q)
  OBVIOUS
<1>c. PICK c : c = "collaborative"
  OBVIOUS
<1>1. /\ Board!Receive(p, q, {"add", "switch"}) /\ network[q][p] # <<>>
      /\ packet.kind \in {"add", "switch"}
      /\ UNCHANGED <<takenOff, author, added>> /\ c \in Board!Modes /\ added \in Nat
      /\ active \in [Members -> [Board!Modes -> Ids]]
  BY <1>h, <1>c DEF Board!OnPageSync, Board!Receive, Board!Modes, BoardInv, BoardTypes
<1>2. /\ Head(network[q][p]) = packet /\ packet.kind # "stroke"
      /\ packet.page \in Ids /\ GivenOut(packet.page, added)
  BY <1>1, <1>h, HeadPacket DEF Packets
<1>3. takenOff \subseteq takenOff' /\ takenOff' \subseteq Board!Strokes
  BY <1>1 DEF BoardInv, BoardTypes
<1>4. /\ pages' \in [Members -> [Board!Modes -> Books]] /\ OnlyAllowed'
      /\ \A r \in Members, j \in Board!Modes : DOMAIN pages[r][j] \subseteq DOMAIN pages'[r][j]
      /\ \A r \in Members, j \in Board!Modes : \A i \in DOMAIN pages'[r][j] :
             GivenOut(i, added')
      /\ \A r \in Members, j \in Board!Modes, x \in Board!Strokes :
            InBook(pages[r][j], x) => InBook(pages'[r][j], x)
  <2>1. CASE pages' = pages
    BY <2>1, <1>1 DEF BoardInv, BoardTypes, OnlyAllowed, Issued
  <2>2. CASE pages' # pages
    <3>i. PICK id : id = packet.page
      OBVIOUS
    <3>1. /\ pages' = [pages EXCEPT ![p][c] = Board!With(pages[p][c], id, Board!Blank)]
          /\ id \notin DOMAIN pages[p][c]
      BY <2>2, <3>i, <1>h, <1>c DEF Board!OnPageSync
    <3>2. added' \in Nat /\ added <= added' /\ GivenOut(id, added') /\ id \in Ids
      BY <3>i, <1>1, <1>2
    <3>3. /\ pages' \in [Members -> [Board!Modes -> Books]] /\ OnlyAllowed'
          /\ DOMAIN pages'[p][c] = DOMAIN pages[p][c] \cup {id}
          /\ \A r \in Members, k \in Board!Modes : r # p \/ k # c => pages'[r][k] = pages[r][k]
          /\ \A r \in Members, k \in Board!Modes : \A i \in DOMAIN pages'[r][k] :
                 GivenOut(i, added')
          /\ \A r \in Members, k \in Board!Modes, n \in Board!Strokes :
                InBook(pages[r][k], n) => InBook(pages'[r][k], n)
      BY <3>1, <3>2, <1>1, BlankAdded
    <3> QED BY <3>3
  <2> QED BY <2>1, <2>2
<1>5. /\ active' \in [Members -> [Board!Modes -> Ids]]
      /\ \A r \in Members, j \in Board!Modes : active'[r][j] \in DOMAIN pages'[r][j]
  <2>1. \A r \in Members, j \in Board!Modes : active[r][j] \in DOMAIN pages'[r][j]
    BY <1>4 DEF BoardInv, BoardTypes
  <2>2. CASE active' = active
    BY <2>1, <2>2, <1>1
  <2>3. CASE active' # active
    <3>1. active' = [active EXCEPT ![p][c] = packet.page] /\ packet.page \in DOMAIN pages[p][c]
      BY <2>3, <1>h, <1>c DEF Board!OnPageSync
    <3>2. active' \in [Members -> [Board!Modes -> Ids]]
      BY <3>1, <1>1, <1>2
    <3>3. packet.page \in DOMAIN pages'[p][c]
      BY <3>1, <1>1, <1>4
    <3> QED BY <3>1, <3>2, <3>3, <2>1, <1>1
  <2> QED BY <2>2, <2>3
<1> QED BY <1>1, <1>2, <1>3, <1>4, <1>5, ReceivedKeeps

\* The invariant holds at first, is kept by every step, and is enough.
LEMMA BoardInit == ASSUME Board!BoardAssumption, Board!Init PROVE BoardInv
<1> USE DEF Board!Init
<1>1. /\ <<>> \in Seq(Packets) /\ <<>> \in Seq(Authors) /\ <<>> \in Seq(Board!Strokes)
      /\ Len(<<>>) = 0 /\ MaxStrokes \in Nat /\ MaxPages \in Nat
  BY EmptySeq DEF Board!BoardAssumption
<1>2. \A p \in Members, m \in Board!Modes : Board!First(p, m) \in Ids
  BY DEF Ids, Board!First
<1>3. Board!Blank \in Paper
  BY <1>1 DEF Board!Blank, Board!Page, Paper
<1>4. ASSUME NEW p \in Members, NEW m \in Board!Modes
      PROVE  [i \in {Board!First(p, m)} |-> Board!Blank] \in Books
  <2>1. {Board!First(p, m)} \in SUBSET Ids
    BY <1>2
  <2>2. [i \in {Board!First(p, m)} |-> Board!Blank] \in [{Board!First(p, m)} -> Paper]
    BY <1>3
  <2> QED BY <2>1, <2>2, IsBook
<1>5. pages \in [Members -> [Board!Modes -> Books]]
  BY <1>4
<1>6. \A p \in Members, m \in Board!Modes :
         /\ pages[p][m] = [i \in {Board!First(p, m)} |-> Board!Blank]
         /\ active[p][m] = Board!First(p, m)
  OBVIOUS
<1>7. BoardTypes
  <2>1. mode \in [Members -> Board!Modes]
    BY DEF Board!Modes
  <2>2. active \in [Members -> [Board!Modes -> Ids]]
    BY <1>2
  <2>3. network \in [Members -> [Members -> Seq(Packets)]]
    BY <1>1
  <2>4. \A p \in Members, m \in Board!Modes : active[p][m] \in DOMAIN pages[p][m]
    BY <1>6
  <2>5. author = <<>> /\ takenOff = {} /\ added = 0
    OBVIOUS
  <2> HIDE DEF Board!Init
  <2> QED BY <2>1, <2>2, <2>3, <2>4, <2>5, <1>1, <1>5 DEF BoardTypes
<1>8. OnlyAllowed
  BY <1>6, BlankFits DEF OnlyAllowed
<1>9. \A p, q \in Members : network[p][q] = <<>>
  OBVIOUS
<1>10. Carried
  BY <1>1, <1>9 DEF Carried
<1>11. Issued
  <2>1. ASSUME NEW p, NEW m \in Board!Modes PROVE GivenOut(Board!First(p, m), added)
    <3>1. m # "added"
      BY DEF Board!Modes
    <3> QED BY <3>1 DEF Board!First, GivenOut
  <2> QED BY <2>1, <1>1, <1>6, <1>9 DEF Issued
<1>12. ReachesAll
  BY <1>1 DEF ReachesAll, SharedStrokes
<1> QED BY <1>7, <1>8, <1>10, <1>11, <1>12 DEF BoardInv

LEMMA BoardStep ==
    ASSUME Board!BoardAssumption, BoardInv, [Board!Next]_Board!vars
    PROVE  BoardInv'
<1>1. MaxStrokes \in Nat /\ MaxPages \in Nat
  BY DEF Board!BoardAssumption
<1>2. CASE UNCHANGED Board!vars
  BY <1>2 DEF Board!vars, BoardInv, BoardTypes, OnlyAllowed, Carried, Issued, ReachesAll,
     Reached
<1>3. ASSUME NEW p \in Members,
             \/ Board!addStroke(p) \/ Board!undo(p) \/ Board!undoClear(p) \/ Board!redo(p)
             \/ Board!clearAll(p) \/ Board!addPage(p)
             \/ \E n \in Board!Strokes : Board!deleteStroke(p, n)
             \/ \E id \in DOMAIN Board!Notebook(p) :
                    Board!switchPage(p, id) \/ Board!deletePage(p, id)
             \/ \E m \in Board!Modes : Board!setPrivacyMode(p, m)
      PROVE  BoardInv'
  BY <1>1, <1>3, AddStep, RedrawSteps, AddPageStep, SwitchStep, DeletePageStep, ModeStep
<1>4. ASSUME NEW p \in Members, NEW q \in Members, Board!Deliver(p, q) PROVE BoardInv'
  BY <1>1, <1>4, StrokeStep, RemoveStep, BatchStep, PageSyncStep DEF Board!Deliver
<1> QED BY <1>2, <1>3, <1>4 DEF Board!Next

LEMMA BoardHolds ==
    ASSUME Board!BoardAssumption, BoardInv
    PROVE  Board!TypeOK /\ Board!EveryoneHasIt /\ Board!PersonalIsOwn
<1>1. /\ MaxStrokes \in Nat /\ BoardTypes /\ author \in Seq(Authors) /\ Len(author) \in Nat
      /\ DOMAIN author = 1..Len(author)
  BY LenProperties DEF Board!BoardAssumption, BoardInv, BoardTypes
<1>2. ASSUME NEW p \in Members, NEW m \in Board!Modes, NEW id \in DOMAIN pages[p][m]
      PROVE  pages[p][m][id] \in Paper /\ Fits(pages[p][m][id], Allowed(p, m, author))
  BY BookOf DEF BoardInv, BoardTypes, OnlyAllowed
<1>3. Board!TypeOK
  BY <1>1, <1>2 DEF Board!TypeOK, BoardTypes, Paper
<1>4. \A p, m, n : n \in Board!OnBoard(p, m) <=> InBook(pages[p][m], n)
  BY DEF Board!OnBoard, InBook
<1>5. Board!EveryoneHasIt
  <2>1. SUFFICES ASSUME Board!Quiet, NEW n \in DOMAIN author, NEW p \in Members,
                        author[n].mode = "collaborative", n \notin takenOff
                 PROVE  n \in Board!OnBoard(p, "collaborative")
                            \cup Board!OnBoard(p, "personal")
    BY DEF Board!EveryoneHasIt
  <2>2. n \in SharedStrokes(author)
    BY <2>1, <1>1 DEF SharedStrokes
  <2>3. \A q \in Members : network[q][p] = <<>>
    BY <2>1 DEF Board!Quiet
  <2>4. \A q \in Members : ~InQueue(network[q][p], n)
    BY <2>3 DEF InQueue
  <2> QED BY <2>1, <2>2, <2>4, <1>4 DEF BoardInv, ReachesAll, Reached, Board!Modes
<1>6. Board!PersonalIsOwn
  <2>1. SUFFICES ASSUME NEW n \in DOMAIN author, author[n].mode = "personal",
        NEW p \in Members,
                        n \in Board!OnBoard(p, "collaborative")
                            \cup Board!OnBoard(p, "personal")
                 PROVE  p = author[n].by /\ n \notin Board!OnBoard(p, "collaborative")
    BY DEF Board!PersonalIsOwn
  <2>2. \A m \in Board!Modes : n \in Board!OnBoard(p, m) => n \in Allowed(p, m, author)
    BY <1>2, <1>4 DEF InBook, Fits
  <2>3. n \notin SharedStrokes(author)
    BY <2>1 DEF SharedStrokes
  <2>4. n \notin Board!OnBoard(p, "collaborative")
    BY <2>2, <2>3 DEF Allowed, Board!Modes
  <2>5. n \in Allowed(p, "personal", author)
    BY <2>1, <2>2, <2>4 DEF Board!Modes
  <2> QED BY <2>3, <2>4, <2>5 DEF Allowed
<1> QED BY <1>3, <1>5, <1>6

\* However drawing, undoing, clearing and turning pages interleave with packets
\* under way, a shared stroke nobody took off is before everyone once the network
\* is quiet, and a personal one before its author alone (whiteboard.service.ts).
LEMMA BoardCorrect ==
    ASSUME Board!BoardAssumption
    PROVE  Board!Spec => [](Board!TypeOK /\ Board!EveryoneHasIt /\ Board!PersonalIsOwn)
<1>1. Board!Init => BoardInv  BY BoardInit
<1>2. BoardInv /\ [Board!Next]_Board!vars => BoardInv'  BY BoardStep
<1>3. BoardInv => Board!TypeOK /\ Board!EveryoneHasIt /\ Board!PersonalIsOwn  BY BoardHolds
<1> QED  BY <1>1, <1>2, <1>3, PTL DEF Board!Spec

-----------------------------------------------------------------------------
(* As MCRuntime composes them: a step of the whole is a step of the        *)
(* part or leaves it alone.                                                *)

\* Whatever the browser does to tabs and worker, no closed tab comes back, no tab
\* goes back to a room it left, and a suspended worker loses nothing
\* (context-registry.ts:120-173, service-worker.ts:199-236).
THEOREM NoGhostTabCorrect == MCSpec => []NoGhostTab
<1>1. MCInit => Registry!Init  BY DEF MCInit
<1>2. [MCNext]_MCVars => [Registry!Next]_Registry!registryVars
  BY DEF MCNext, MCVars, Of, OfHandoff, registryVars, Registry!registryVars, Registry!browserVars,
         Registry!workerVars
<1>3. Registry!Spec => []Registry!NoGhostTab  BY RegistryAssumption, RegistryCorrect
<1> QED  BY <1>1, <1>2, <1>3, PTL DEF MCSpec, Registry!Spec, NoGhostTab

\* However requests, closings and restarts interleave, there is never a second
\* popup, and at rest storage remembers the one that was made or focused last
\* (service-worker.ts:53-150).
THEOREM AtMostOnePopupCorrect == MCSpec => []AtMostOnePopup
<1>1. MCInit => Popup!Init  BY DEF MCInit
<1>2. [MCNext]_MCVars => [Popup!Next]_Popup!popupVars
  BY DEF MCNext, MCVars, Of, OfHandoff, popupVars, Popup!popupVars
<1>3. Popup!Spec => []Popup!AtMostOnePopup  BY PopupAssumption, PopupCorrect
<1> QED  BY <1>1, <1>2, <1>3, PTL DEF MCSpec, Popup!Spec, AtMostOnePopup

\* Whoever types while what is under way, at rest the pages of the room hold the
\* panel's text, and no text crosses to a page of another room
\* (in-page-bridge.ts, in-page-editor-sync.ts, code.service.ts).
THEOREM PagesFollowPanelCorrect == MCSpec => []PagesFollowPanel
<1>1. MCInit => Editor!Init  BY DEF MCInit
<1>2. [MCNext]_MCVars => [Editor!Next]_Editor!vars
  BY DEF MCNext, MCVars, Of, OfHandoff, editorVars, Editor!vars
<1>3. Editor!Spec => [](Editor!TypeOK /\ Editor!PageFollowsPanel /\ Editor!InItsRoom)
  BY EditorAssumption, EditorCorrect
<1> QED  BY <1>1, <1>2, <1>3, PTL DEF MCSpec, Editor!Spec, PagesFollowPanel

\* However drawing, undoing, clearing and turning pages interleave with packets
\* under way, a shared stroke nobody took off is before everyone once the network
\* is quiet, and a personal one before its author alone (whiteboard.service.ts).
THEOREM EveryoneHasItCorrect == MCSpec => []EveryoneHasIt
<1>1. MCInit => Board!Init  BY DEF MCInit
<1>2. [MCNext]_MCVars => [Board!Next]_Board!vars
  BY DEF MCNext, MCVars, Of, OfHandoff, boardVars, Board!vars
<1>3. Board!Spec => [](Board!TypeOK /\ Board!EveryoneHasIt /\ Board!PersonalIsOwn)
  BY BoardAssumption, BoardCorrect
<1> QED  BY <1>1, <1>2, <1>3, PTL DEF MCSpec, Board!Spec, EveryoneHasIt
=============================================================================
