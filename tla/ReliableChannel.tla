--------------------------- MODULE ReliableChannel ---------------------------
(***************************************************************************)
(* What sendReliable() promises its caller, with the wire, the timers and  *)
(* the windows left out: a message that was submitted is settled exactly   *)
(* once, and it is settled as "delivered" only if the receiver did take    *)
(* it.  (The converse is not promised: a message reported as "timeout" or  *)
(* "rejected" may have been taken.)  ReliableDelivery implements this.     *)
(***************************************************************************)
CONSTANTS Ids

VARIABLES
    sent,      \* messages submitted with a promise to settle
    accepted,  \* messages the receiving side has taken
    receipt    \* DeliveryReceipt.status, "none" while the promise is open

vars == <<sent, accepted, receipt>>

Outcome == {"delivered", "timeout", "rejected"}

Init ==
    /\ sent = {}
    /\ accepted = {}
    /\ receipt = [i \in Ids |-> "none"]

\* A promise is created; under back-pressure it is refused on the spot.
Submit(i) ==
    /\ i \notin sent
    /\ sent' = sent \cup {i}
    /\ receipt' \in {receipt, [receipt EXCEPT ![i] = "rejected"]}
    /\ UNCHANGED accepted

Take(i) ==
    /\ accepted' = accepted \cup {i}
    /\ UNCHANGED <<sent, receipt>>

\* One promise is settled by an acknowledgement or a timer, all the open ones
\* when the transport is cleared.
Settle(S) ==
    /\ S \subseteq {i \in sent : receipt[i] = "none"}
    /\ \E r \in Outcome :
          /\ r = "delivered" => S \subseteq accepted
          /\ receipt' = [i \in Ids |-> IF i \in S THEN r ELSE receipt[i]]
    /\ UNCHANGED <<sent, accepted>>

Next ==
    \/ \E i \in Ids : Submit(i) \/ Take(i)
    \/ \E S \in SUBSET Ids : Settle(S)

Spec == Init /\ [][Next]_vars
=============================================================================
