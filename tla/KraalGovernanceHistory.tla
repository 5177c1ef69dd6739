----------------------- MODULE KraalGovernanceHistory -----------------------
(***************************************************************************)
(* KraalGovernance observed: three history variables that no entry point   *)
(* reads, and the properties of the control plane stated with them.        *)
(***************************************************************************)
EXTENDS KraalGovernance

VARIABLES
  nominator,   \* who was admin when the pending nomination was made, or None
  hashSince,   \* since when the pending hash has been pending without a break, or None
  pausedAt     \* when the pause that was last declared was declared, or None

controlHistory == <<nominator, hashSince, pausedAt>>
controlVars     == <<govVars, controlHistory>>

ObserveControl ==
  /\ nominator' = IF pendingAdmin' = pendingAdmin THEN nominator
                  ELSE IF pendingAdmin' = None THEN None ELSE admin
  /\ hashSince' = IF pendingWasm' = pendingWasm THEN hashSince
                  ELSE IF pendingWasm' = None THEN None ELSE now
  /\ pausedAt'  = IF pauseExp' = pauseExp THEN pausedAt
                  ELSE IF pauseExp' = 0 THEN None ELSE now

ControlInit == GovInit /\ nominator = None /\ hashSince = None /\ pausedAt = None
ControlNext == GovNext /\ ObserveControl
ControlSpec == ControlInit /\ [][ControlNext]_controlVars

\* Only time is fair: nobody is obliged to call the contract.
FairSpec == ControlSpec /\ WF_controlVars(Tick /\ ObserveControl)

-----------------------------------------------------------------------------
\* The type invariant of the control plane and its history.
TypeOK ==
  /\ now \in Nat \ {0}
  /\ admin \in Addr /\ pendingAdmin \in Addr \cup {None}
  /\ paused \in BOOLEAN /\ pauseExp \in Nat /\ pauseDur \in 0 .. MAX_PAUSE_DURATION
  /\ whitelist \subseteq Addr /\ wlCount \in Nat
  /\ wasm \in Wasm /\ pendingWasm \in Wasm \cup {None}
  /\ upgradeTime \in Nat \cup {None}
  /\ nominator \in Addr \cup {None}
  /\ hashSince \in Nat \cup {None}
  /\ pausedAt \in Nat \cup {None}

\* WLCOUNT is the number of WhitelistEntry keys: listing twice, dropping an address that is
\* not listed, and any interleaving of the two keep the counter that decides between open
\* and restricted liquidation (add_liquidator, remove_liquidator, liquidate) exact.
WhitelistCountAgrees == wlCount = Cardinality(whitelist)

\* A nomination never outlives the admin who made it: whoever can call accept_admin_role now
\* was chosen by the present admin, however many proposals and handovers went before.
NominationIsFromPresentAdmin == pendingAdmin # None => nominator = admin

\* A pause always has an end, at most MAX_PAUSE_DURATION after it was declared, whatever
\* set_pause_duration was called with before it or while it is in force (is_paused_raw would
\* read an expiry of 0 as a pause without end).
PauseIsBounded ==
  IsPaused => /\ pausedAt # None
              /\ pausedAt <= now
              /\ pauseExp # 0
              /\ pauseExp <= pausedAt + MAX_PAUSE_DURATION

\* The code changes only to a hash that was on the table, unreplaced and uncancelled, for the
\* whole timelock (propose_upgrade, execute_upgrade, cancel_upgrade).
UpgradeWaitedTimelock ==
  [][wasm' # wasm => /\ wasm' = pendingWasm
                     /\ hashSince # None
                     /\ now >= hashSince + UPGRADE_TIMELOCK_SECS]_controlVars

\* A pause ends by itself: nobody has to call unpause (is_paused_raw compares with the clock).
PauseEnds == IsPaused ~> ~IsPaused
=============================================================================
