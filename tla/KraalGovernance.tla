--------------------------- MODULE KraalGovernance ---------------------------
(***************************************************************************)
(* The control plane of the StellarKraal lending contract                  *)
(* (contracts/stellarkraal/src/lib.rs): who the admin is, whether the      *)
(* contract is paused, who may liquidate, and which code it runs.          *)
(*                                                                         *)
(* A Soroban invocation is atomic: it either returns Ok and all its writes *)
(* are kept, or returns an error and none is.  So each entry point is one  *)
(* action, enabled exactly when the entry point returns Ok; a failing call *)
(* is a stuttering step.  Time is the ledger timestamp and moves on its    *)
(* own between invocations.                                                *)
(***************************************************************************)
EXTENDS Integers, FiniteSets

CONSTANTS
  Addr,                   \* addresses that call the contract or are named in a call
  FirstAdmin,             \* the admin given to initialize
  Wasm,                   \* code hashes that can be proposed
  FirstWasm,              \* the code deployed first
  None,                   \* an absent storage entry
  StartTime,              \* ledger timestamp of initialize
  MaxTime,                \* bound: the last timestamp explored
  MAX_PAUSE_DURATION,     \* 518_400 s
  DEFAULT_PAUSE_DURATION, \* 24 * 3600 s, used until set_pause_duration
  PauseDurations,         \* inputs tried with set_pause_duration
  Nominees,               \* inputs tried with propose_new_admin
  Liquidators,            \* inputs tried with add_liquidator and remove_liquidator
  Proposals,              \* inputs tried with propose_upgrade
  UPGRADE_TIMELOCK_SECS   \* 86_400 s

ASSUME GovAssumption ==
  /\ IsFiniteSet(Addr) /\ FirstAdmin \in Addr /\ None \notin Addr
  /\ FirstWasm \in Wasm /\ None \notin Wasm
  /\ StartTime \in Nat \ {0} /\ MaxTime \in Nat /\ None \notin Nat
  /\ MAX_PAUSE_DURATION \in Nat /\ UPGRADE_TIMELOCK_SECS \in Nat
  /\ DEFAULT_PAUSE_DURATION \in 0 .. MAX_PAUSE_DURATION
  /\ PauseDurations \subseteq Nat
  /\ Nominees \subseteq Addr /\ Liquidators \subseteq Addr /\ Proposals \subseteq Wasm

VARIABLES
  now,           \* env.ledger().timestamp()
  admin,         \* ADMIN
  pendingAdmin,  \* PEND_ADM, or None
  paused,        \* PAUSED
  pauseExp,      \* PAUSEXP
  pauseDur,      \* PAUSEDUR
  whitelist,     \* the addresses with a WhitelistEntry
  wlCount,       \* WLCOUNT
  wasm,          \* the code the contract runs
  pendingWasm,   \* PendingWasm, or None
  upgradeTime    \* UpgradeTime, or None

pauseVars   == <<paused, pauseExp, pauseDur>>
adminVars   == <<admin, pendingAdmin>>
listVars    == <<whitelist, wlCount>>
upgradeVars == <<wasm, pendingWasm, upgradeTime>>
govVars     == <<now, adminVars, pauseVars, listVars, upgradeVars>>

-----------------------------------------------------------------------------
\* The state that initialize leaves, with no call made yet.
GovInit ==
  /\ now = StartTime
  /\ admin = FirstAdmin /\ pendingAdmin = None
  /\ paused = FALSE /\ pauseExp = 0 /\ pauseDur = DEFAULT_PAUSE_DURATION
  /\ whitelist = {} /\ wlCount = 0
  /\ wasm = FirstWasm /\ pendingWasm = None /\ upgradeTime = None

\* Mutant of IsPaused: the expiry is ignored.
IsPausedForever == paused

\* is_paused_raw: an expiry of 0 never expires, any other ends the pause by itself.
IsPaused == paused /\ (pauseExp = 0 \/ now < pauseExp)

IsAdmin(caller) == caller = admin

Tick ==
  /\ now < MaxTime
  /\ now' = now + 1
  /\ UNCHANGED <<adminVars, pauseVars, listVars, upgradeVars>>

-----------------------------------------------------------------------------
\* The second conjunct only keeps the expiry inside the explored time.
Pause(caller) ==
  /\ IsAdmin(caller) /\ ~IsPaused
  /\ now + pauseDur <= MaxTime
  /\ paused' = TRUE /\ pauseExp' = now + pauseDur
  /\ UNCHANGED <<now, adminVars, pauseDur, listVars, upgradeVars>>

Unpause(caller) ==
  /\ IsAdmin(caller) /\ IsPaused
  /\ paused' = FALSE /\ pauseExp' = 0
  /\ UNCHANGED <<now, adminVars, pauseDur, listVars, upgradeVars>>

\* Mutant of SetPauseDuration: the cap is not enforced.
SetPauseDurationUncapped(caller, duration) ==
  /\ IsAdmin(caller)
  /\ pauseDur' = duration
  /\ UNCHANGED <<now, adminVars, paused, pauseExp, listVars, upgradeVars>>

SetPauseDuration(caller, duration) ==
  /\ IsAdmin(caller)
  /\ duration <= MAX_PAUSE_DURATION
  /\ pauseDur' = duration
  /\ UNCHANGED <<now, adminVars, paused, pauseExp, listVars, upgradeVars>>

-----------------------------------------------------------------------------
\* A second proposal silently replaces the first.
ProposeNewAdmin(caller, newAdmin) ==
  /\ IsAdmin(caller)
  /\ pendingAdmin' = newAdmin
  /\ UNCHANGED <<now, admin, pauseVars, listVars, upgradeVars>>

\* Mutant of AcceptAdminRole: the nomination is not removed.
AcceptAdminRoleKeepsNomination(newAdmin) ==
  /\ pendingAdmin # None /\ newAdmin = pendingAdmin
  /\ admin' = newAdmin
  /\ UNCHANGED <<now, pendingAdmin, pauseVars, listVars, upgradeVars>>

AcceptAdminRole(newAdmin) ==
  /\ pendingAdmin # None /\ newAdmin = pendingAdmin
  /\ admin' = newAdmin /\ pendingAdmin' = None
  /\ UNCHANGED <<now, pauseVars, listVars, upgradeVars>>

-----------------------------------------------------------------------------
\* Mutant of AddLiquidator: no early return for an address already listed.
AddLiquidatorTwice(caller, liquidator) ==
  /\ IsAdmin(caller)
  /\ wlCount < Cardinality(Addr)
  /\ whitelist' = whitelist \cup {liquidator}
  /\ wlCount' = wlCount + 1
  /\ UNCHANGED <<now, adminVars, pauseVars, upgradeVars>>

\* Listing an address twice, or dropping an unlisted one, returns Ok and writes nothing.
AddLiquidator(caller, liquidator) ==
  /\ IsAdmin(caller)
  /\ liquidator \notin whitelist
  /\ whitelist' = whitelist \cup {liquidator}
  /\ wlCount' = wlCount + 1
  /\ UNCHANGED <<now, adminVars, pauseVars, upgradeVars>>

\* count.saturating_sub(1)
RemoveLiquidator(caller, liquidator) ==
  /\ IsAdmin(caller)
  /\ liquidator \in whitelist
  /\ whitelist' = whitelist \ {liquidator}
  /\ wlCount' = IF wlCount = 0 THEN 0 ELSE wlCount - 1
  /\ UNCHANGED <<now, adminVars, pauseVars, upgradeVars>>

\* is_whitelisted, and the same test inside liquidate: an empty list is open to all.
IsWhitelisted(liquidator) == wlCount > 0 => liquidator \in whitelist

-----------------------------------------------------------------------------
\* Mutant of ProposeUpgrade: replacing a pending hash keeps its clock.
ProposeUpgradeKeepsClock(caller, hash) ==
  /\ IsAdmin(caller)
  /\ pendingWasm' = hash
  /\ upgradeTime' = IF upgradeTime = None THEN now ELSE upgradeTime
  /\ UNCHANGED <<now, adminVars, pauseVars, listVars, wasm>>

\* A second proposal replaces the hash and restarts the clock.
ProposeUpgrade(caller, hash) ==
  /\ IsAdmin(caller)
  /\ pendingWasm' = hash /\ upgradeTime' = now
  /\ UNCHANGED <<now, adminVars, pauseVars, listVars, wasm>>

\* Callable by anyone once the timelock is over.
ExecuteUpgrade ==
  /\ pendingWasm # None /\ upgradeTime # None
  /\ now >= upgradeTime + UPGRADE_TIMELOCK_SECS
  /\ wasm' = pendingWasm
  /\ pendingWasm' = None /\ upgradeTime' = None
  /\ UNCHANGED <<now, adminVars, pauseVars, listVars>>

CancelUpgrade(caller) ==
  /\ IsAdmin(caller)
  /\ pendingWasm # None
  /\ pendingWasm' = None /\ upgradeTime' = None
  /\ UNCHANGED <<now, adminVars, pauseVars, listVars, wasm>>

-----------------------------------------------------------------------------
GovNext ==
  \/ Tick
  \/ \E a \in Addr : Pause(a) \/ Unpause(a)
  \/ \E a \in Addr, d \in PauseDurations : SetPauseDuration(a, d)
  \/ \E a \in Addr, n \in Nominees : ProposeNewAdmin(a, n)
  \/ \E n \in Addr : AcceptAdminRole(n)
  \/ \E a \in Addr, l \in Liquidators : AddLiquidator(a, l) \/ RemoveLiquidator(a, l)
  \/ \E a \in Addr, h \in Proposals : ProposeUpgrade(a, h)
  \/ ExecuteUpgrade
  \/ \E a \in Addr : CancelUpgrade(a)

GovSpec == GovInit /\ [][GovNext]_govVars
=============================================================================
