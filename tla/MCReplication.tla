---------------------------- MODULE MCReplication ----------------------------
(***************************************************************************)
(* Replication for TLC, in two settings: below the compaction thresholds,  *)
(* with explicit dependencies (the constants of the configuration), and    *)
(* with compaction every few operations (module Compacting).  The setting  *)
(* is chosen once, so the two state spaces lie side by side.               *)
(***************************************************************************)
EXTENDS Replication

VARIABLE compacting    \* which setting this behaviour is in

Compacting == INSTANCE Replication WITH
                  Authors <- Replicas, MaxOps <- 2, MaxDeps <- 0, MaxJournal <- 2, Interval <- 2

MCVars == <<vars, compacting>>

MCInit == /\ compacting \in BOOLEAN
          /\ IF compacting THEN Compacting!Init ELSE Init

MCNext == /\ IF compacting THEN Compacting!Next ELSE Next
          /\ UNCHANGED compacting

\* The fairness of Replication, asked of the behaviours below the thresholds.
Small(A) == ~compacting /\ A /\ UNCHANGED compacting

MCSpec ==
    /\ MCInit /\ [][MCNext]_MCVars
    /\ \A r \in Replicas : /\ WF_MCVars(Small(Drain(r))) /\ WF_MCVars(Small(IngestNext(r)))
                           /\ SF_MCVars(Small(\E m \in net : Answer(r, m)))
                           /\ SF_MCVars(Small(\E m \in net : ReceiveResponse(r, m)))
                           /\ SF_MCVars(Small(\E m \in net : ReceiveSnapshot(r, m)))
    /\ \A r, p \in Replicas : SF_MCVars(Small(SyncWith(r, p)))

\* Below the thresholds every replica gets every operation, when packets may
\* be lost but syncWith() is called again and again.
DeltasConverge == ~compacting => Converges
=============================================================================
