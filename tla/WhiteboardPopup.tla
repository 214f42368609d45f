--------------------------- MODULE WhiteboardPopup ---------------------------
(***************************************************************************)
(* The one whiteboard popup window, opened or focused by the service       *)
(* worker (service-worker.ts): its id is remembered in the worker and in   *)
(* chrome.storage.session, the user may close the window at any moment,    *)
(* and the worker may be restarted between two requests.                   *)
(*                                                                         *)
(* Every call to the browser takes effect when made; the answer continues  *)
(* the chain of awaits that made it, and answers and events reach the      *)
(* worker in the order in which they arose.                                *)
(*                                                                         *)
(* A definition introduced by "Slip:" is no part of the model; see         *)
(* OrderingBuffer.                                                         *)
(***************************************************************************)
EXTENDS Integers, Sequences

CONSTANT MaxWindows    \* bound: popup windows ever made

\* MCRuntime assumes it of the instance.
PopupAssumption == MaxWindows \in Nat \ {0}

None == 0
Ids == 1..MaxWindows

VARIABLES
    live,        \* popup windows showing the whiteboard
    made,        \* windows made so far
    cached,      \* whiteboardPopupWindowId
    remembered,  \* WHITEBOARD_POPUP_SESSION_KEY
    busy,        \* whiteboardPopupOperation is not null
    answers      \* answers and events on their way to the worker

popupVars == <<live, made, cached, remembered, busy, answers>>

\* The chain of awaits continues at step, about window w, with the value found.
Answer(step, w, found) == [step |-> step, w |-> w, found |-> found]

Then(step, w, found) == answers' = Append(Tail(answers), Answer(step, w, found))

\* The answer being handled is the last of its chain.
Finished == answers' = Tail(answers)

At(step) == answers # <<>> /\ Head(answers).step = step

Alive(w) == IF w \in live THEN w ELSE None

-----------------------------------------------------------------------------
(* openOrFocusWhiteboardPopup *)

\* A request; while one is being served, others share its promise.
Request ==
    /\ ~busy
    /\ busy' = TRUE
    /\ answers' = Append(answers, Answer("bounds", None, None))
    /\ UNCHANGED <<live, made, cached, remembered>>

\* findExistingWhiteboardPopup: the remembered window, if it is still there.
Find ==
    /\ At("bounds")
    /\ IF cached = None THEN Then("stored", None, remembered) ELSE Then("window", cached, Alive(cached))
    /\ UNCHANGED <<live, made, cached, remembered, busy>>

\* Slip: only what storage remembers counts.
ListNothing == Then("listed", None, None)

\* All popup windows are searched for one that shows the whiteboard.
ListWindows ==
    IF live = {} THEN Then("listed", None, None)
    ELSE \E w \in live : Then("listed", w, w)

FindStored ==
    LET w == Head(answers).found
    IN  /\ At("stored")
        /\ cached' = w
        /\ IF w = None THEN ListWindows ELSE Then("window", w, Alive(w))
        /\ UNCHANGED <<live, made, remembered, busy>>

\* rememberWhiteboardPopup
Remember(w) == cached' = w /\ remembered' = w

\* The window is there: focus it.  Otherwise forget it and look at all windows.
FindWindow ==
    LET w == Head(answers).w
    IN  /\ At("window")
        /\ IF Head(answers).found # None
           THEN Then("focused", w, Alive(w)) /\ UNCHANGED <<cached, remembered>>
           ELSE Then("forgotten", None, None) /\ Remember(None)
        /\ UNCHANGED <<live, made, busy>>

Forgotten == At("forgotten") /\ ListWindows /\ UNCHANGED <<live, made, cached, remembered, busy>>

\* chrome.windows.create
Create ==
    /\ made < MaxWindows
    /\ made' = made + 1
    /\ live' = live \cup {made'}
    /\ Then("created", made', made')

Listed ==
    LET w == Head(answers).w
    IN  /\ At("listed")
        /\ IF w = None THEN Create /\ UNCHANGED <<cached, remembered>>
           ELSE Then("known", w, None) /\ Remember(w) /\ UNCHANGED <<live, made>>
        /\ UNCHANGED busy

Known ==
    LET w == Head(answers).w
    IN  At("known") /\ Then("focused", w, Alive(w)) /\ UNCHANGED <<live, made, cached, remembered, busy>>

\* forgetWhiteboardPopupIfOwned, up to its read.
Disown(w) == cached' = IF cached = w THEN None ELSE cached

\* chrome.windows.update succeeded, or the user closed the window just before.
Focused ==
    LET w == Head(answers).w
    IN  /\ At("focused")
        /\ IF Head(answers).found # None
           THEN Then("kept", w, None) /\ Remember(w)
           ELSE Then("lost", w, remembered) /\ Disown(w) /\ UNCHANGED remembered
        /\ UNCHANGED <<live, made, busy>>

\* The rest of forgetWhiteboardPopupIfOwned.
RemoveOwn(w) == IF Head(answers).found = w THEN None ELSE remembered

Lost ==
    /\ At("lost")
    /\ remembered' = RemoveOwn(Head(answers).w)
    /\ Then("replaced", None, None)
    /\ UNCHANGED <<live, made, cached, busy>>

Replaced == At("replaced") /\ Create /\ UNCHANGED <<cached, remembered, busy>>

Created ==
    /\ At("created")
    /\ Remember(Head(answers).w)
    /\ Then("kept", Head(answers).w, None)
    /\ UNCHANGED <<live, made, busy>>

Kept ==
    /\ At("kept")
    /\ busy' = FALSE
    /\ Finished
    /\ UNCHANGED <<live, made, cached, remembered>>

-----------------------------------------------------------------------------
(* chrome.windows.onRemoved *)

CloseWindow(w) ==
    /\ w \in live
    /\ live' = live \ {w}
    /\ answers' = Append(answers, Answer("removed", w, None))
    /\ UNCHANGED <<made, cached, remembered, busy>>

WindowRemoved ==
    LET w == Head(answers).w
    IN  /\ At("removed")
        /\ Disown(w)
        /\ IF cached = w THEN Then("owned", w, remembered) ELSE Then("asked", w, remembered)
        /\ UNCHANGED <<live, made, remembered, busy>>

\* A restarted worker asks storage first.
AskedStorage ==
    LET w == Head(answers).w
    IN  /\ At("asked")
        /\ IF Head(answers).found = w
           THEN Then("owned", w, remembered) /\ Disown(w)
           ELSE Finished /\ UNCHANGED cached
        /\ UNCHANGED <<live, made, remembered, busy>>

ForgetOwned ==
    /\ At("owned")
    /\ remembered' = RemoveOwn(Head(answers).w)
    /\ Finished
    /\ UNCHANGED <<live, made, cached, busy>>

\* The worker is stopped when idle, and started again.
RestartWorker ==
    /\ answers = <<>>
    /\ cached # None
    /\ cached' = None
    /\ UNCHANGED <<live, made, remembered, busy, answers>>

-----------------------------------------------------------------------------
\* After a session restore a popup may be there that storage knows nothing of.
Init ==
    /\ made \in {0, 1} /\ live = 1..made
    /\ cached = None
    /\ remembered = None
    /\ busy = FALSE
    /\ answers = <<>>

Next ==
    \/ Request \/ Find \/ FindStored \/ FindWindow \/ Forgotten \/ Listed \/ Known
    \/ Focused \/ Lost \/ Replaced \/ Created \/ Kept
    \/ WindowRemoved \/ AskedStorage \/ ForgetOwned \/ RestartWorker
    \/ \E w \in Ids : CloseWindow(w)

Spec == Init /\ [][Next]_popupVars

-----------------------------------------------------------------------------
Steps == {"bounds", "stored", "window", "forgotten", "listed", "known", "focused", "lost",
          "replaced", "created", "kept", "removed", "asked", "owned"}

TypeOK ==
    /\ live \subseteq 1..made
    /\ made \in 0..MaxWindows
    /\ cached \in 0..made /\ remembered \in 0..made
    /\ busy \in BOOLEAN
    /\ answers \in Seq([step : Steps, w : 0..made, found : 0..made])

\* service-worker.ts:87 "so browser restart cannot produce a duplicate document":
\* whatever was remembered or forgotten, there is never a second popup.
NeverTwo == \A v, w \in live : v = w

\* With every answer handled, storage remembers the popup that was made or
\* focused last, or none: a removal reported late never erases the replacement
\* (service-worker.ts:64), and never leaves the id of a closed window behind.
RemembersThePopup ==
    answers = <<>> => /\ remembered \in live \cup {None}
                      /\ cached # None => cached = remembered
                      /\ \A w \in live : w > 1 => remembered = w

\* There is at most one popup, and at rest it is the one that is remembered
\* (service-worker.ts:53-150).
AtMostOnePopup == TypeOK /\ NeverTwo /\ RemembersThePopup
=============================================================================
