------------------------- MODULE OracleBridgeHistory -------------------------
(***************************************************************************)
(* OracleBridge observed: which instances were ever the subject of a       *)
(* promotion; and the properties of the pair.                              *)
(***************************************************************************)
EXTENDS OracleBridge

VARIABLE promoted   \* instances npm run promote was ever run on

vars == <<bridgeVars, promoted>>

Observe ==
  promoted' = promoted \cup {n \in Instance : promotion[n] = None /\ promotion'[n] # None}

Init == BridgeInit /\ promoted = {}
Next == BridgeNext /\ Observe
Spec == Init /\ [][Next]_vars

\* setInterval keeps firing while the process lives: the tick of a standby is fair, and so are
\* the two steps that end it.  Nobody is obliged to start, stop or promote anything.
FairSpec ==
  /\ Spec
  /\ \A n \in Instance :
       /\ WF_vars(StandbyTick(n) /\ Observe)
       /\ WF_vars(StandbyRestore(n) /\ Observe)
       /\ WF_vars(StandbyReload(n) /\ Observe)

-----------------------------------------------------------------------------
\* The type invariant; a process past its start has a state.json.
BridgeTypeOK ==
  /\ disk \in [Instance -> State \cup {None}]
  /\ latest \in State \cup {None}
  /\ pc \in [Instance -> {"down", "booting", "primary", "standby", "syncing", "synced"}]
  /\ mem \in [Instance -> State]
  /\ flight \in [Instance -> [sent : 0 .. MaxInFlight, accepted : 0 .. MaxInFlight]]
  /\ accepted \in 0 .. MaxAccepted
  /\ promotion \in [Instance -> State \cup {None}]
  /\ promoted \subseteq Instance
  /\ \A n \in Instance : pc[n] \notin {"down", "booting"} => disk[n] # None

\* A backup always says "primary", whatever promotions, syncs and restarts raced before it was
\* copied from disk: promote relies on it when it restores a backup without naming a role
\* (restore.ts, "a manifest's embedded `role` is always "primary"").
BackupIsByPrimary == latest # None => latest.role = "primary"

\* A standby never makes itself primary: whoever runs the primary's loops was configured so, or
\* someone ran npm run promote on it, however often it synced from a primary's backup or
\* restarted in the middle of a sync.
OnlyPromotionMakesPrimary ==
  \A n \in Instance : pc[n] = "primary" => n = FirstPrimary \/ n \in promoted

\* No cursor, in memory, on disk, in the backup or in the hands of a promotion, counts more
\* submissions than the network accepted, through failed and overlapping submissions, crashes and
\* restores: prices are lost from the count, never invented.
CursorsAreAccepted ==
  /\ \A n \in Instance : /\ mem[n].cursor <= accepted
                         /\ disk[n] # None => disk[n].cursor <= accepted
                         /\ promotion[n] # None => promotion[n].cursor <= accepted
  /\ latest # None => latest.cursor <= accepted

\* A primary that keeps running never counts backwards, even when a promotion that was still
\* waiting for the key writes an older state over its state.json.
PrimaryCountsForward ==
  [][\A n \in Instance : pc[n] = "primary" /\ pc'[n] = "primary"
                           => mem'[n].cursor >= mem[n].cursor]_vars

\* Promotion is live: a standby between two ticks whose role on disk has been flipped becomes
\* primary without a restart, or its process ends.
FlippedRoleIsNoticed ==
  \A n \in Instance :
    (pc[n] = "standby" /\ disk[n].role = "primary") ~> pc[n] \in {"primary", "down"}

=============================================================================
