------------------------- MODULE KraalContractProofs -------------------------
(***************************************************************************)
(* Proofs, for every choice of the constants, about the lending contract,  *)
(* in the order in which its parts rest on each other:                     *)
(*   - the control plane (KraalGovernanceHistory, ControlSpec);            *)
(*   - the price feed: the registry of oracles, the running average and    *)
(*     the median of a submission (KraalOracleHistory, FeedSpec);          *)
(*   - loans and collateral (KraalLendingProperties, Spec): types, the     *)
(*     status of loans, the refinement of LoanLedger, health, and what     *)
(*     the contract may always be asked to do.                             *)
(* The history variables of the first two parts play no role in the third. *)
(***************************************************************************)
EXTENDS KraalGovernanceHistory, KraalOracleHistory, KraalLendingProperties,
        FiniteSetTheorems, SequenceTheorems, WellFoundedInduction, TLAPS

-----------------------------------------------------------------------------
(* The control plane. *)

\* A pause in the PAUSED flag, in force or already over, was declared with a capped duration.
PauseInv ==
  /\ ~paused => pauseExp = 0
  /\ paused => /\ pauseExp # 0
               /\ pausedAt # None
               /\ pausedAt <= now
               /\ pauseExp <= pausedAt + MAX_PAUSE_DURATION

\* The clock of a pending hash never starts before the hash was proposed.
UpgradeInv ==
  /\ pendingWasm = None <=> upgradeTime = None
  /\ pendingWasm # None => /\ hashSince # None
                           /\ hashSince <= upgradeTime
                           /\ upgradeTime <= now

ControlInv ==
  /\ TypeOK
  /\ WhitelistCountAgrees
  /\ NominationIsFromPresentAdmin
  /\ PauseInv
  /\ UpgradeInv

-----------------------------------------------------------------------------
\* Initialize establishes the inductive invariant.
LEMMA InitControlInv == ControlInit => ControlInv
<1> SUFFICES ASSUME ControlInit PROVE ControlInv
  OBVIOUS
<1> USE DEF ControlInit, GovInit
<1>1. TypeOK
  BY GovAssumption DEF TypeOK
<1>2. WhitelistCountAgrees
  BY FS_EmptySet DEF WhitelistCountAgrees
<1>3. NominationIsFromPresentAdmin /\ PauseInv /\ UpgradeInv
  BY DEF NominationIsFromPresentAdmin, PauseInv, UpgradeInv
<1> QED
  BY <1>1, <1>2, <1>3 DEF ControlInv

\* Every entry point, and the passage of time, preserves the types.
LEMMA NextTypeOK == TypeOK /\ [ControlNext]_controlVars => TypeOK'
<1> SUFFICES ASSUME TypeOK, [ControlNext]_controlVars PROVE TypeOK'
  OBVIOUS
<1> USE GovAssumption DEF TypeOK, adminVars, pauseVars, listVars, upgradeVars
<1>1. CASE UNCHANGED controlVars
  BY <1>1 DEF controlVars, govVars, controlHistory
<1>2. CASE ControlNext
  <2> USE <1>2 DEF ControlNext, ObserveControl
  <2>1. CASE Tick
    BY <2>1 DEF Tick
  <2>2. ASSUME NEW a \in Addr, Pause(a) PROVE TypeOK'
    BY <2>2 DEF Pause
  <2>3. ASSUME NEW a \in Addr, Unpause(a) PROVE TypeOK'
    BY <2>3 DEF Unpause
  <2>4. ASSUME NEW a \in Addr, NEW d \in PauseDurations, SetPauseDuration(a, d) PROVE TypeOK'
    BY <2>4 DEF SetPauseDuration
  <2>5. ASSUME NEW a \in Addr, NEW n \in Nominees, ProposeNewAdmin(a, n) PROVE TypeOK'
    BY <2>5 DEF ProposeNewAdmin
  <2>6. ASSUME NEW n \in Addr, AcceptAdminRole(n) PROVE TypeOK'
    BY <2>6 DEF AcceptAdminRole
  <2>7. ASSUME NEW a \in Addr, NEW l \in Liquidators, AddLiquidator(a, l) PROVE TypeOK'
    BY <2>7 DEF AddLiquidator
  <2>8. ASSUME NEW a \in Addr, NEW l \in Liquidators, RemoveLiquidator(a, l) PROVE TypeOK'
    BY <2>8 DEF RemoveLiquidator
  <2>9. ASSUME NEW a \in Addr, NEW h \in Proposals, ProposeUpgrade(a, h) PROVE TypeOK'
    BY <2>9 DEF ProposeUpgrade
  <2>10. CASE ExecuteUpgrade
    BY <2>10 DEF ExecuteUpgrade
  <2>11. ASSUME NEW a \in Addr, CancelUpgrade(a) PROVE TypeOK'
    BY <2>11 DEF CancelUpgrade
  <2> QED
    BY <2>1, <2>2, <2>3, <2>4, <2>5, <2>6, <2>7, <2>8, <2>9, <2>10, <2>11 DEF GovNext
<1> QED BY <1>1, <1>2

\* The counter follows the list: only the two list operations touch either.
LEMMA NextWhitelist == TypeOK /\ WhitelistCountAgrees /\ [ControlNext]_controlVars => WhitelistCountAgrees'
<1> SUFFICES ASSUME TypeOK, WhitelistCountAgrees, [ControlNext]_controlVars PROVE WhitelistCountAgrees'
  OBVIOUS
<1> USE DEF WhitelistCountAgrees
<1>1. IsFiniteSet(whitelist)
  BY GovAssumption, FS_Subset DEF TypeOK
<1>2. CASE UNCHANGED listVars
  BY <1>2 DEF listVars
<1>3. ASSUME NEW a \in Addr, NEW l \in Liquidators, AddLiquidator(a, l) PROVE WhitelistCountAgrees'
  BY <1>1, <1>3, FS_AddElement DEF AddLiquidator
<1>4. ASSUME NEW a \in Addr, NEW l \in Liquidators, RemoveLiquidator(a, l) PROVE WhitelistCountAgrees'
  <2>1. Cardinality(whitelist) \in Nat /\ Cardinality(whitelist) # 0
    BY <1>1, <1>4, FS_CardinalityType, FS_EmptySet DEF RemoveLiquidator
  <2> QED
    BY <1>1, <1>4, <2>1, FS_RemoveElement DEF RemoveLiquidator
<1> QED
  BY <1>2, <1>3, <1>4
  DEF ControlNext, GovNext, controlVars, govVars, Tick, Pause, Unpause, SetPauseDuration,
      ProposeNewAdmin, AcceptAdminRole, ProposeUpgrade, ExecuteUpgrade, CancelUpgrade

\* A handover consumes the nomination, and only the present admin makes a new one.
LEMMA NextNomination ==
  TypeOK /\ NominationIsFromPresentAdmin /\ [ControlNext]_controlVars => NominationIsFromPresentAdmin'
<1> SUFFICES ASSUME TypeOK, NominationIsFromPresentAdmin, [ControlNext]_controlVars
             PROVE  NominationIsFromPresentAdmin'
  OBVIOUS
<1> USE DEF NominationIsFromPresentAdmin
<1>1. CASE UNCHANGED controlVars
  BY <1>1 DEF controlVars, govVars, controlHistory, adminVars
<1>2. CASE ControlNext /\ UNCHANGED adminVars
  BY <1>2 DEF ControlNext, ObserveControl, adminVars
<1>3. ASSUME ControlNext, NEW a \in Addr, NEW n \in Nominees, ProposeNewAdmin(a, n)
      PROVE  NominationIsFromPresentAdmin'
  BY <1>3, GovAssumption DEF ControlNext, ObserveControl, ProposeNewAdmin
<1>4. ASSUME ControlNext, NEW n \in Addr, AcceptAdminRole(n) PROVE NominationIsFromPresentAdmin'
  BY <1>4 DEF AcceptAdminRole
<1> QED
  BY <1>1, <1>2, <1>3, <1>4
  DEF ControlNext, GovNext, Tick, Pause, Unpause, SetPauseDuration, AddLiquidator, RemoveLiquidator,
      ProposeUpgrade, ExecuteUpgrade, CancelUpgrade

\* The expiry of a pause is fixed when it is declared, from a duration under the cap.
LEMMA NextPause == TypeOK /\ PauseInv /\ [ControlNext]_controlVars => PauseInv'
<1> SUFFICES ASSUME TypeOK, PauseInv, [ControlNext]_controlVars PROVE PauseInv'
  OBVIOUS
<1> USE GovAssumption DEF PauseInv, TypeOK
<1>1. CASE UNCHANGED controlVars
  BY <1>1 DEF controlVars, govVars, controlHistory, pauseVars
<1>2. ASSUME ControlNext, Tick PROVE PauseInv'
  BY <1>2 DEF ControlNext, ObserveControl, Tick, pauseVars
<1>3. ASSUME ControlNext, NEW a \in Addr, Pause(a) PROVE PauseInv'
  BY <1>3 DEF ControlNext, ObserveControl, Pause
<1>4. ASSUME ControlNext, NEW a \in Addr, Unpause(a) PROVE PauseInv'
  BY <1>4 DEF ControlNext, ObserveControl, Unpause
<1>5. ASSUME ControlNext, UNCHANGED <<now, paused, pauseExp>> PROVE PauseInv'
  BY <1>5 DEF ControlNext, ObserveControl
<1> QED
  BY <1>1, <1>2, <1>3, <1>4, <1>5
  DEF ControlNext, GovNext, pauseVars, SetPauseDuration, ProposeNewAdmin, AcceptAdminRole,
      AddLiquidator, RemoveLiquidator, ProposeUpgrade, ExecuteUpgrade, CancelUpgrade

\* Replacing a hash restarts its clock, so the clock is never older than the hash.
LEMMA NextUpgrade == TypeOK /\ UpgradeInv /\ [ControlNext]_controlVars => UpgradeInv'
<1> SUFFICES ASSUME TypeOK, UpgradeInv, [ControlNext]_controlVars PROVE UpgradeInv'
  OBVIOUS
<1> USE GovAssumption DEF UpgradeInv, TypeOK
<1>1. CASE UNCHANGED controlVars
  BY <1>1 DEF controlVars, govVars, controlHistory, upgradeVars
<1>2. ASSUME ControlNext, Tick PROVE UpgradeInv'
  BY <1>2 DEF ControlNext, ObserveControl, Tick, upgradeVars
<1>3. ASSUME ControlNext, NEW a \in Addr, NEW h \in Proposals, ProposeUpgrade(a, h) PROVE UpgradeInv'
  BY <1>3 DEF ControlNext, ObserveControl, ProposeUpgrade
<1>4. ASSUME ControlNext, pendingWasm' = None, upgradeTime' = None PROVE UpgradeInv'
  BY <1>4
<1>5. ASSUME ControlNext, UNCHANGED <<now, pendingWasm, upgradeTime>> PROVE UpgradeInv'
  BY <1>5 DEF ControlNext, ObserveControl
<1> QED
  BY <1>1, <1>2, <1>3, <1>4, <1>5
  DEF ControlNext, GovNext, upgradeVars, Pause, Unpause, SetPauseDuration, ProposeNewAdmin,
      AcceptAdminRole, AddLiquidator, RemoveLiquidator, ExecuteUpgrade, CancelUpgrade

\* The inductive invariant holds throughout.
LEMMA ControlInvariant == ControlSpec => []ControlInv
<1>1. ControlInv /\ [ControlNext]_controlVars => ControlInv'
  BY NextTypeOK, NextWhitelist, NextNomination, NextPause, NextUpgrade DEF ControlInv
<1> QED
  BY InitControlInv, <1>1, PTL DEF ControlSpec

-----------------------------------------------------------------------------
\* The control plane is type correct under any sequence of calls.
THEOREM TypeCorrect == ControlSpec => []TypeOK
<1>1. ControlInv => TypeOK
  BY DEF ControlInv
<1> QED BY <1>1, ControlInvariant, PTL

\* WLCOUNT always equals the number of listed liquidators, for any set of addresses.
THEOREM WhitelistCountCorrect == ControlSpec => []WhitelistCountAgrees
<1>1. ControlInv => WhitelistCountAgrees
  BY DEF ControlInv
<1> QED BY <1>1, ControlInvariant, PTL

\* A pending nomination was always made by whoever is admin now.
THEOREM NominationCorrect == ControlSpec => []NominationIsFromPresentAdmin
<1>1. ControlInv => NominationIsFromPresentAdmin
  BY DEF ControlInv
<1> QED BY <1>1, ControlInvariant, PTL

\* No pause lasts longer than MAX_PAUSE_DURATION from its declaration.
THEOREM PauseBounded == ControlSpec => []PauseIsBounded
<1>1. ControlInv => PauseIsBounded
  BY DEF ControlInv, PauseInv, PauseIsBounded, IsPaused
<1> QED BY <1>1, ControlInvariant, PTL

\* While the contract is paused, no call and no moment gives the pause another end, and the moment
\* of that end is the end: a shorter or longer set_pause_duration, a second pause and a new admin
\* change nothing about it, and only unpause comes before it (is_paused_raw).  What PauseEnds adds
\* is that time passes.
THEOREM PauseEndIsFixed ==
  ControlSpec => [][IsPaused => /\ now <= now' /\ (IsPaused' => pauseExp' = pauseExp)
                                /\ pauseExp <= now' => ~IsPaused'
                                /\ ~IsPaused' => \/ pauseExp <= now'
                                                \/ \E a \in Addr : Unpause(a)]_controlVars
<1> DEFINE Fixed == IsPaused => /\ now <= now' /\ (IsPaused' => pauseExp' = pauseExp)
                                /\ pauseExp <= now' => ~IsPaused'
                                /\ ~IsPaused' => \/ pauseExp <= now'
                                                \/ \E a \in Addr : Unpause(a)
<1>1. ControlInv /\ [ControlNext]_controlVars => [Fixed]_controlVars
  <2> SUFFICES ASSUME ControlInv, ControlNext, IsPaused PROVE Fixed
    OBVIOUS
  <2>1. now \in Nat /\ pauseExp \in Nat /\ paused /\ pauseExp # 0 /\ now < pauseExp
    BY DEF ControlInv, TypeOK, PauseInv, IsPaused
  <2>2. CASE Tick
    BY <2>1, <2>2 DEF Tick, pauseVars, IsPaused
  <2>3. ASSUME NEW a \in Addr, Unpause(a) PROVE Fixed
    BY <2>1, <2>3 DEF Unpause, IsPaused
  <2>4. CASE UNCHANGED <<now, paused, pauseExp>>
    BY <2>1, <2>4 DEF IsPaused
  <2>5. \A a \in Addr : ~Pause(a)
    BY DEF Pause
  <2> QED
    BY <2>2, <2>3, <2>4, <2>5
    DEF ControlNext, GovNext, pauseVars, SetPauseDuration, ProposeNewAdmin, AcceptAdminRole,
        AddLiquidator, RemoveLiquidator, ProposeUpgrade, ExecuteUpgrade, CancelUpgrade
<1> HIDE DEF Fixed
<1>2. ControlSpec => [][Fixed]_controlVars
  BY <1>1, ControlInvariant, PTL DEF ControlSpec
<1> QED
  BY <1>2 DEF Fixed

\* Every upgrade runs a hash that stood unchanged for the whole timelock.
THEOREM TimelockHolds == ControlSpec => UpgradeWaitedTimelock
<1> DEFINE Waited == wasm' # wasm => /\ wasm' = pendingWasm
                                     /\ hashSince # None
                                     /\ now >= hashSince + UPGRADE_TIMELOCK_SECS
<1>1. ControlInv /\ [ControlNext]_controlVars => [Waited]_controlVars
  <2> SUFFICES ASSUME ControlInv, ControlNext, wasm' # wasm PROVE Waited
    BY DEF controlVars, govVars, upgradeVars
  <2>1. ExecuteUpgrade
    BY DEF ControlNext, GovNext, upgradeVars, Tick, Pause, Unpause, SetPauseDuration,
           ProposeNewAdmin, AcceptAdminRole, AddLiquidator, RemoveLiquidator,
           ProposeUpgrade, CancelUpgrade
  <2> QED
    BY <2>1, GovAssumption DEF ExecuteUpgrade, ControlInv, TypeOK, UpgradeInv
<1> QED
  BY <1>1, ControlInvariant, PTL DEF ControlSpec, UpgradeWaitedTimelock

-----------------------------------------------------------------------------
(* The price feed. *)

\* The sum lies between as many times the lowest sample and as many times the highest.
MeanInv ==
  /\ lowest \in Nat /\ highest \in Nat
  /\ twapCount > 0 =>
       /\ lowest > 0
       /\ lowest * twapCount <= twapSum /\ twapSum <= highest * twapCount
       /\ twapPrice = twapSum \div twapCount

FeedInv == OracleTypeOK /\ now \in Nat \ {0} /\ MeanInv

-----------------------------------------------------------------------------
\* A set of natural numbers with a member has a least one.
LEMMA LeastNat ==
  ASSUME NEW T \in SUBSET Nat, T # {}
  PROVE  \E x \in T : \A y \in T : x <= y
<1> DEFINE R == {ss \in Nat \X Nat : ss[1] < ss[2]}
<1>1. IsWellFoundedOn(R, Nat)
  BY NatLessThanWellFounded, Zenon DEF OpToRel
<1>2. \A x, y \in Nat : x < y => <<x, y>> \in R
  OBVIOUS
<1> HIDE DEF R
<1>3. PICK x \in T : \A y \in T : ~ (<<y, x>> \in R)
  BY <1>1, WFMin
<1>4. ASSUME NEW y \in T PROVE x <= y
  <2>1. ~ (y < x)
    BY <1>2, <1>3
  <2> QED
    BY <2>1
<1> QED
  BY <1>4

\* A bounded set of natural numbers with a member has a greatest one.
LEMMA GreatestNat ==
  ASSUME NEW T \in SUBSET Nat, T # {}, NEW bound \in Nat, \A y \in T : y <= bound
  PROVE  \E x \in T : \A y \in T : y <= x
<1> DEFINE D == {bound - y : y \in T}
<1>1. D \in SUBSET Nat /\ D # {}
  <2>1. ASSUME NEW y \in T PROVE bound - y \in Nat
    OBVIOUS
  <2> QED
    BY <2>1
<1>2. PICK d \in D : \A e \in D : d <= e
  <2> HIDE DEF D
  <2> QED BY <1>1, LeastNat
<1>3. PICK x \in T : d = bound - x
  OBVIOUS
<1>4. ASSUME NEW y \in T PROVE y <= x
  <2>1. bound - y \in D
    OBVIOUS
  <2>2. d <= bound - y
    BY <1>2, <2>1
  <2> QED BY <1>3, <2>2
<1> QED
  BY <1>4

-----------------------------------------------------------------------------
\* The places of the prices below, up to and from a price.
Below(s, p)   == {i \in DOMAIN s : s[i] < p}
UpTo(s, p)    == {i \in DOMAIN s : s[i] <= p}
AtLeast(s, p) == {i \in DOMAIN s : s[i] >= p}

\* Places can be counted.
LEMMA PlacesCount ==
  ASSUME NEW n \in Nat, NEW A \in SUBSET (1 .. n)
  PROVE  IsFiniteSet(A) /\ Cardinality(A) \in Nat /\ Cardinality(A) <= n
<1>1. IsFiniteSet(1 .. n) /\ Cardinality(1 .. n) = n
  BY FS_Interval
<1>2. IsFiniteSet(A) /\ Cardinality(A) <= Cardinality(1 .. n)
  BY <1>1, FS_Subset
<1>3. Cardinality(A) \in Nat
  BY <1>2, FS_CardinalityType
<1> QED
  BY <1>1, <1>2, <1>3

\* Sets of places that have none in common are not larger together than all places.
LEMMA PlacesAddUp ==
  ASSUME NEW n \in Nat, NEW A \in SUBSET (1 .. n), NEW B \in SUBSET (1 .. n), A \cap B = {}
  PROVE  /\ IsFiniteSet(A) /\ Cardinality(A) \in Nat
         /\ IsFiniteSet(B) /\ Cardinality(B) \in Nat
         /\ Cardinality(A) + Cardinality(B) <= n
         /\ A \cup B = 1 .. n => Cardinality(A) + Cardinality(B) = n
<1>1. /\ IsFiniteSet(A) /\ Cardinality(A) \in Nat
      /\ IsFiniteSet(B) /\ Cardinality(B) \in Nat
  BY PlacesCount
<1>2. Cardinality(A \cup B) \in Nat /\ Cardinality(A \cup B) <= n
  <2>1. A \cup B \in SUBSET (1 .. n)
    OBVIOUS
  <2> QED
    BY <2>1, PlacesCount
<1>3. Cardinality(A \cup B) = Cardinality(A) + Cardinality(B) - Cardinality(A \cap B)
  BY <1>1, FS_Union
<1>4. Cardinality(A \cap B) = 0
  BY FS_EmptySet
<1>5. Cardinality(1 .. n) = n
  BY FS_Interval
<1>6. Cardinality(A \cup B) = Cardinality(A) + Cardinality(B)
  BY <1>1, <1>3, <1>4
<1> QED
  BY <1>1, <1>2, <1>5, <1>6

\* Every place of the sorted prices holds one of them.
LEMMA PlaceHolds ==
  ASSUME NEW n \in Nat, NEW s \in [1 .. n -> Nat], NEW bound \in Nat,
         \A i \in 1 .. n : s[i] <= bound,
         NEW k \in 1 .. n
  PROVE  /\ \E i \in 1 .. n : SortedAt(s, k) = s[i]
         /\ Cardinality(Below(s, SortedAt(s, k))) < k
         /\ Cardinality(UpTo(s, SortedAt(s, k))) >= k
<1> DEFINE V == {p \in Range(s) : Cardinality(UpTo(s, p)) >= k}
<1>1. Range(s) \in SUBSET Nat /\ \A p \in Range(s) : p <= bound
  BY DEF Range
<1>2. \A p : Below(s, p) \in SUBSET (1 .. n) /\ UpTo(s, p) \in SUBSET (1 .. n)
  BY DEF Below, UpTo
<1>3. \A p : Cardinality(Below(s, p)) \in Nat /\ Cardinality(UpTo(s, p)) \in Nat
  BY <1>2, PlacesCount
<1>4. V # {}
  <2>1. Range(s) # {}
    BY DEF Range
  <2>2. PICK p \in Range(s) : \A q \in Range(s) : q <= p
    BY <1>1, <2>1, GreatestNat
  <2>3. UpTo(s, p) = 1 .. n
    BY <2>2 DEF UpTo, Range
  <2>4. Cardinality(UpTo(s, p)) = n
    BY <2>3, FS_Interval
  <2> QED
    BY <2>4
<1>5. PICK v \in V : \A p \in V : v <= p
  <2>1. V \in SUBSET Nat
    BY <1>1
  <2> HIDE DEF V
  <2> QED BY <1>4, <2>1, LeastNat
<1>6. Cardinality(Below(s, v)) < k
  <2>1. CASE Below(s, v) = {}
    BY <2>1, FS_EmptySet
  <2>2. CASE Below(s, v) # {}
    <3> DEFINE T == {s[i] : i \in Below(s, v)}
    <3>1. T \in SUBSET Range(s) /\ T # {}
      BY <2>2 DEF Below, Range
    <3>2. PICK w \in T : \A p \in T : p <= w
      <4> HIDE DEF T
      <4>1. T \in SUBSET Nat /\ \A p \in T : p <= bound
        BY <1>1, <3>1
      <4> QED BY <3>1, <4>1, GreatestNat
    <3>3. w \in Range(s) /\ w < v
      BY <3>1 DEF Below
    <3>4. UpTo(s, w) = Below(s, v)
      <4>1. v \in Nat /\ w \in Nat
        BY <1>1, <3>3
      <4>2. ASSUME NEW i \in 1 .. n, s[i] <= w PROVE s[i] < v
        BY <4>1, <4>2, <3>3
      <4>3. ASSUME NEW i \in 1 .. n, s[i] < v PROVE s[i] <= w
        <5>1. i \in Below(s, v)
          BY <4>3 DEF Below
        <5> QED
          BY <5>1, <3>2
      <4> QED
        BY <4>2, <4>3 DEF UpTo, Below
    <3>5. w \notin V
      BY <1>5, <3>3, <1>1
    <3>6. ~ (Cardinality(UpTo(s, w)) >= k)
      BY <3>5, <3>3
    <3> QED
      BY <3>4, <3>6, <1>3
  <2> QED
    BY <2>1, <2>2
<1>7. \E p \in Range(s) : Cardinality(Below(s, p)) < k /\ Cardinality(UpTo(s, p)) >= k
  BY <1>5, <1>6
<1>8. SortedAt(s, k) = CHOOSE p \in Range(s) : /\ Cardinality(Below(s, p)) < k
                                              /\ Cardinality(UpTo(s, p)) >= k
  BY DEF SortedAt, Below, UpTo
<1>9. /\ SortedAt(s, k) \in Range(s)
      /\ Cardinality(Below(s, SortedAt(s, k))) < k /\ Cardinality(UpTo(s, SortedAt(s, k))) >= k
  BY <1>7, <1>8
<1> QED
  BY <1>9 DEF Range

\* A majority of the prices lies around the k-th place, when it outnumbers both the places up
\* to it and the places from it on.
LEMMA MajorityHoldsPlace ==
  ASSUME NEW n \in Nat, NEW s \in [1 .. n -> Nat], NEW bound \in Nat,
         \A i \in 1 .. n : s[i] <= bound,
         NEW k \in 1 .. n, NEW lo \in Int, NEW hi \in Int,
         Cardinality({i \in DOMAIN s : s[i] \in lo .. hi}) > n - k,
         Cardinality({i \in DOMAIN s : s[i] \in lo .. hi}) >= k
  PROVE  SortedAt(s, k) \in lo .. hi
<1> DEFINE K == {i \in DOMAIN s : s[i] \in lo .. hi}
           p == SortedAt(s, k)
<1>1. p \in Nat /\ Cardinality(Below(s, p)) < k /\ Cardinality(UpTo(s, p)) >= k
  BY PlaceHolds
<1>2. K \in SUBSET (1 .. n) /\ Cardinality(K) > n - k /\ Cardinality(K) >= k
  OBVIOUS
<1>3. /\ Below(s, p) \in SUBSET (1 .. n) /\ UpTo(s, p) \in SUBSET (1 .. n)
      /\ AtLeast(s, p) \in SUBSET (1 .. n)
  BY DEF Below, UpTo, AtLeast
<1>4. p >= lo
  <2>1. SUFFICES ASSUME p < lo PROVE FALSE
    BY <1>1
  <2>2. K \cap UpTo(s, p) = {}
    BY <1>1, <2>1 DEF UpTo
  <2> HIDE DEF K, p
  <2>3. /\ Cardinality(K) \in Nat /\ Cardinality(UpTo(s, p)) \in Nat
        /\ Cardinality(K) + Cardinality(UpTo(s, p)) <= n
    BY <1>2, <1>3, <2>2, PlacesAddUp
  <2> QED
    BY <1>1, <1>2, <2>3
<1>5. p <= hi
  <2>1. SUFFICES ASSUME p > hi PROVE FALSE
    BY <1>1
  <2>2. K \cap AtLeast(s, p) = {}
    BY <1>1, <2>1 DEF AtLeast
  <2>3. Below(s, p) \cap AtLeast(s, p) = {} /\ Below(s, p) \cup AtLeast(s, p) = 1 .. n
    BY <1>1 DEF Below, AtLeast
  <2> HIDE DEF K, p
  <2>4. /\ Cardinality(Below(s, p)) \in Nat /\ Cardinality(AtLeast(s, p)) \in Nat
        /\ Cardinality(Below(s, p)) + Cardinality(AtLeast(s, p)) = n
    BY <1>3, <2>3, PlacesAddUp
  <2>5. /\ Cardinality(K) \in Nat
        /\ Cardinality(K) + Cardinality(AtLeast(s, p)) <= n
    BY <1>2, <1>3, <2>2, PlacesAddUp
  <2> QED
    BY <1>1, <1>2, <2>4, <2>5
<1> QED
  BY <1>1, <1>4, <1>5

-----------------------------------------------------------------------------
\* The prices submit_oracle_prices accepts.
Acceptable(prices) ==
  /\ prices \in PriceVectors /\ Len(prices) > 0
  /\ \A i \in DOMAIN prices : prices[i] > 0 /\ prices[i] < MAX_PRICE

\* They are positive numbers under the maximum, one per place.
LEMMA AcceptablePrices ==
  ASSUME NEW prices, Acceptable(prices)
  PROVE  \E n \in Nat \ {0} :
           /\ Len(prices) = n /\ prices \in [1 .. n -> Nat]
           /\ \A i \in 1 .. n : prices[i] > 0 /\ prices[i] <= MAX_PRICE
<1>1. PICK n \in 1 .. MAX_ORACLES : prices \in [1 .. n -> Prices]
  BY DEF Acceptable, PriceVectors
<1>2. n \in Nat \ {0} /\ Prices \subseteq Int /\ MAX_PRICE \in Nat
  BY OracleAssumption
<1>3. Len(prices) = n
  <2>1. prices \in Seq(Prices)
    BY <1>1, <1>2, SeqDef
  <2> QED
    BY <1>1, <1>2, <2>1, LenProperties
<1>4. \A i \in 1 .. n : prices[i] \in Int /\ prices[i] > 0 /\ prices[i] < MAX_PRICE
  BY <1>1, <1>2 DEF Acceptable
<1> QED
  BY <1>1, <1>2, <1>3, <1>4

\* The median of such prices is one itself.
LEMMA MedianIsAPrice ==
  ASSUME NEW prices, Acceptable(prices)
  PROVE  Median(prices) \in Nat \ {0}
<1>1. PICK n \in Nat \ {0} :
        /\ Len(prices) = n /\ prices \in [1 .. n -> Nat]
        /\ \A i \in 1 .. n : prices[i] > 0 /\ prices[i] <= MAX_PRICE
  BY AcceptablePrices
<1>2. ASSUME NEW k \in 1 .. n PROVE SortedAt(prices, k) \in Nat \ {0}
  <2>1. \E i \in 1 .. n : SortedAt(prices, k) = prices[i]
    BY <1>1, PlaceHolds, OracleAssumption
  <2> QED
    BY <1>1, <2>1
<1>3. CASE n % 2 = 1
  <2>1. n \div 2 + 1 \in 1 .. n
    BY <1>3
  <2> QED
    BY <1>1, <1>2, <1>3, <2>1 DEF Median
<1>4. CASE n % 2 # 1
  <2>1. n \div 2 \in 1 .. n /\ n \div 2 + 1 \in 1 .. n
    BY <1>4
  <2>2. \A a, b \in Nat \ {0} : (a + b) \div 2 \in Nat \ {0}
    OBVIOUS
  <2> QED
    BY <1>1, <1>2, <1>4, <2>1, <2>2 DEF Median
<1> QED
  BY <1>3, <1>4

\* A majority of the prices holds the median.
LEMMA MajorityHoldsMedian ==
  ASSUME NEW prices, Acceptable(prices), NEW lo \in Int, NEW hi \in Int,
         2 * Cardinality({i \in DOMAIN prices : prices[i] \in lo .. hi}) > Len(prices)
  PROVE  Median(prices) \in lo .. hi
<1> DEFINE K == {i \in DOMAIN prices : prices[i] \in lo .. hi}
<1>1. PICK n \in Nat \ {0} :
        /\ Len(prices) = n /\ prices \in [1 .. n -> Nat]
        /\ \A i \in 1 .. n : prices[i] > 0 /\ prices[i] <= MAX_PRICE
  BY AcceptablePrices
<1>2. Cardinality(K) \in Nat /\ 2 * Cardinality(K) > n
  BY <1>1, PlacesCount
<1>3. ASSUME NEW k \in 1 .. n, Cardinality(K) > n - k, Cardinality(K) >= k
      PROVE  SortedAt(prices, k) \in lo .. hi
  BY <1>1, <1>3, MajorityHoldsPlace, OracleAssumption
<1> HIDE DEF K
<1>4. CASE n % 2 = 1
  <2>1. /\ n \div 2 + 1 \in 1 .. n
        /\ Cardinality(K) > n - (n \div 2 + 1) /\ Cardinality(K) >= n \div 2 + 1
    BY <1>2, <1>4
  <2> QED
    BY <1>1, <1>3, <1>4, <2>1 DEF Median
<1>5. CASE n % 2 # 1
  <2>1. /\ n \div 2 \in 1 .. n /\ n \div 2 + 1 \in 1 .. n
        /\ Cardinality(K) > n - n \div 2 /\ Cardinality(K) >= n \div 2 + 1
    BY <1>2, <1>5
  <2>2. SortedAt(prices, n \div 2) \in lo .. hi /\ SortedAt(prices, n \div 2 + 1) \in lo .. hi
    BY <1>2, <1>3, <2>1
  <2>3. \A a, b \in lo .. hi : (a + b) \div 2 \in lo .. hi
    OBVIOUS
  <2> QED
    BY <1>1, <1>5, <2>2, <2>3 DEF Median
<1> QED
  BY <1>4, <1>5

-----------------------------------------------------------------------------
\* What an oracle registry has to be.
Registry(list) == list \in Seq(Addr) /\ Len(list) <= MAX_ORACLES /\ IsInjective(list)

\* GetOracles is one, whether the list was written or not.
LEMMA GetOraclesIsRegistry ==
  ASSUME OracleTypeOK
  PROVE  Registry(GetOracles)
<1>1. CASE oracles = None
  <2>1. <<oracle>> \in Seq(Addr)
    BY DEF OracleTypeOK
  <2> QED
    BY <1>1, <2>1 DEF OracleTypeOK, GetOracles, Registry
<1>2. CASE oracles # None
  BY <1>2 DEF OracleTypeOK, GetOracles, Registry
<1> QED
  BY <1>1, <1>2

\* A new oracle appended to a registry with room makes a registry.
LEMMA AppendKeepsRegistry ==
  ASSUME NEW list, Registry(list), NEW o \in Addr, o \notin Range(list), Len(list) < MAX_ORACLES
  PROVE  Registry(Append(list, o))
<1>1. list \in Seq(Addr) /\ Len(list) \in Nat /\ DOMAIN list = 1 .. Len(list)
  BY DEF Registry
<1>2. /\ Append(list, o) \in Seq(Addr) /\ Len(Append(list, o)) = Len(list) + 1
      /\ \A i \in 1 .. Len(list) : Append(list, o)[i] = list[i]
      /\ Append(list, o)[Len(list) + 1] = o
  BY <1>1, AppendProperties
<1>3. DOMAIN Append(list, o) = 1 .. Len(list) + 1
  BY <1>1, <1>2
<1>4. \A i \in 1 .. Len(list) : list[i] # o
  BY <1>1 DEF Range
<1>5. \A i, j \in 1 .. Len(list) : list[i] = list[j] => i = j
  BY <1>1 DEF Registry, IsInjective
<1>6. IsInjective(Append(list, o))
  <2> SUFFICES ASSUME NEW i \in 1 .. Len(list) + 1, NEW j \in 1 .. Len(list) + 1,
                      Append(list, o)[i] = Append(list, o)[j]
               PROVE  i = j
    BY <1>3 DEF IsInjective
  <2>1. i \in 1 .. Len(list) \/ i = Len(list) + 1
    BY <1>1
  <2>2. j \in 1 .. Len(list) \/ j = Len(list) + 1
    BY <1>1
  <2> QED
    BY <1>2, <1>4, <1>5, <2>1, <2>2
<1> QED
  BY <1>1, <1>2, <1>6, OracleAssumption DEF Registry

\* An oracle taken out of a registry leaves a registry.
LEMMA RemoveKeepsRegistry ==
  ASSUME NEW list, Registry(list), NEW o, o \in Range(list)
  PROVE  Registry(RemoveFirst(list, o))
<1> DEFINE I == {i \in 1 .. Len(list) : list[i] = o}
           n == Len(list)
           j == Min(I)
           head == SubSeq(list, 1, j - 1)
           tail == SubSeq(list, j + 1, n)
           rest == head \o tail
<1>1. list \in Seq(Addr) /\ n \in Nat /\ DOMAIN list = 1 .. n
  BY DEF Registry
<1>2. I # {}
  BY <1>1 DEF Range
<1>3. j \in I
  <2>1. I \in SUBSET Nat
    OBVIOUS
  <2>2. \E x \in I : \A y \in I : x <= y
    <3> HIDE DEF I
    <3> QED BY <1>2, <2>1, LeastNat
  <2> QED
    BY <2>2 DEF Min
<1>4. RemoveFirst(list, o) = rest
  <2>1. SelectInSeq(list, LAMBDA v : v = o) = j
    BY <1>2 DEF SelectInSeq
  <2>2. RemoveFirst(list, o) = RemoveAt(list, SelectInSeq(list, LAMBDA v : v = o))
    BY <1>2 DEF RemoveFirst
  <2> QED
    BY <2>1, <2>2 DEF RemoveAt
<1>5. j \in 1 .. n
  BY <1>3
<1> HIDE DEF I, j, n
<1>6. \A i \in 1 .. n : list[i] \in Addr
  BY <1>1 DEF n
<1>7. /\ head \in Seq(Addr) /\ Len(head) = j - 1
      /\ \A i \in 1 .. j - 1 : head[i] = list[i]
  <2>1. \A i \in 1 .. j - 1 : list[i] \in Addr
    BY <1>1, <1>5, <1>6
  <2>2. 1 \in Int /\ j - 1 \in Int
    BY <1>1, <1>5
  <2>3. /\ head \in Seq(Addr) /\ Len(head) = IF 1 <= j - 1 THEN j - 1 - 1 + 1 ELSE 0
        /\ \A i \in 1 .. j - 1 - 1 + 1 : head[i] = list[1 + i - 1]
    BY <2>1, <2>2, SubSeqProperties
  <2> HIDE DEF head
  <2> QED
    BY <1>1, <1>5, <2>3
<1>8. /\ tail \in Seq(Addr) /\ Len(tail) = n - j
      /\ \A i \in 1 .. n - j : tail[i] = list[j + i]
  <2>1. \A i \in j + 1 .. n : list[i] \in Addr
    BY <1>1, <1>5, <1>6
  <2>2. j + 1 \in Int /\ n \in Int
    BY <1>1, <1>5
  <2>3. /\ tail \in Seq(Addr) /\ Len(tail) = IF j + 1 <= n THEN n - (j + 1) + 1 ELSE 0
        /\ \A i \in 1 .. n - (j + 1) + 1 : tail[i] = list[j + 1 + i - 1]
    BY <2>1, <2>2, SubSeqProperties
  <2> HIDE DEF tail
  <2> QED
    BY <1>1, <1>5, <2>3
<1> HIDE DEF head, tail
<1>9. /\ rest \in Seq(Addr) /\ Len(rest) = n - 1
      /\ \A i \in 1 .. n - 1 : rest[i] = IF i < j THEN list[i] ELSE list[i + 1]
  <2>1. /\ rest \in Seq(Addr) /\ Len(rest) = Len(head) + Len(tail)
        /\ \A i \in 1 .. Len(head) + Len(tail) :
             rest[i] = IF i <= Len(head) THEN head[i] ELSE tail[i - Len(head)]
    BY <1>7, <1>8, ConcatProperties
  <2> HIDE DEF rest
  <2>2. Len(head) + Len(tail) = n - 1
    BY <1>1, <1>5, <1>7, <1>8
  <2>3. ASSUME NEW i \in 1 .. n - 1, i < j PROVE rest[i] = list[i]
    <3>1. i \in 1 .. Len(head) + Len(tail) /\ i <= Len(head) /\ i \in 1 .. j - 1
      BY <1>1, <1>5, <1>7, <2>2, <2>3
    <3> QED
      BY <1>7, <2>1, <3>1
  <2>4. ASSUME NEW i \in 1 .. n - 1, ~ (i < j) PROVE rest[i] = list[i + 1]
    <3>1. /\ i \in 1 .. Len(head) + Len(tail) /\ ~ (i <= Len(head))
          /\ i - Len(head) \in 1 .. n - j /\ j + (i - Len(head)) = i + 1
      BY <1>1, <1>5, <1>7, <2>2, <2>4
    <3>2. rest[i] = tail[i - Len(head)]
      BY <2>1, <3>1
    <3> QED
      BY <1>8, <3>1, <3>2
  <2> QED
    BY <2>1, <2>2, <2>3, <2>4
<1> HIDE DEF rest
<1>10. \A i, k \in 1 .. n : list[i] = list[k] => i = k
  BY <1>1 DEF Registry, IsInjective
<1>11. IsInjective(rest)
  <2>1. DOMAIN rest = 1 .. n - 1
    BY <1>9
  <2> SUFFICES ASSUME NEW i \in 1 .. n - 1, NEW k \in 1 .. n - 1, rest[i] = rest[k]
               PROVE  i = k
    BY <2>1 DEF IsInjective
  <2>2. i \in 1 .. n /\ i + 1 \in 1 .. n /\ k \in 1 .. n /\ k + 1 \in 1 .. n
    BY <1>1
  <2> DEFINE at(m) == IF m < j THEN m ELSE m + 1
  <2>3. at(i) \in 1 .. n /\ at(k) \in 1 .. n
    BY <2>2
  <2>4. rest[i] = list[at(i)] /\ rest[k] = list[at(k)]
    BY <1>9
  <2>5. at(i) = at(k)
    <3> HIDE DEF at
    <3> QED BY <1>10, <2>3, <2>4
  <2> QED
    BY <1>5, <2>2, <2>5
<1>12. n - 1 <= MAX_ORACLES
  BY <1>1, OracleAssumption DEF Registry, n
<1> QED
  BY <1>4, <1>9, <1>11, <1>12 DEF Registry

-----------------------------------------------------------------------------
\* The contract as initialize leaves it satisfies the inductive invariant.
LEMMA InitFeedInv == FeedInit => FeedInv
<1> SUFFICES ASSUME FeedInit PROVE FeedInv
  OBVIOUS
<1> USE DEF FeedInit, GovInit, OracleInit
<1>1. now \in Nat \ {0}
  BY GovAssumption
<1>2. MeanInv
  BY DEF MeanInv
<1>3. /\ oracle \in Addr /\ oracles \in Seq(Addr) \cup {None} /\ minQuorum \in Nat
      /\ GetOracles = <<FirstOracle>>
  BY OracleAssumption DEF GetOracles
<1>4. Len(GetOracles) <= MAX_ORACLES /\ IsInjective(GetOracles)
  BY <1>3, OracleAssumption DEF IsInjective
<1>5. OracleTypeOK
  BY <1>1, <1>3, <1>4 DEF OracleTypeOK
<1> QED
  BY <1>1, <1>2, <1>5 DEF FeedInv

\* The registry's part of the type invariant, and the prices' part.
RegistryInv == /\ oracle \in Addr
               /\ oracles \in Seq(Addr) \cup {None}
               /\ Len(GetOracles) <= MAX_ORACLES /\ IsInjective(GetOracles)
               /\ minQuorum \in Nat

PricesInv == /\ lastPrice \in Nat /\ lastPriceTime \in Nat /\ lastPriceTime <= now
             /\ twapSum \in Nat /\ twapCount \in Nat /\ twapPrice \in Nat
             /\ twapCount > 0 <=> lastPriceTime > 0

\* update_oracle, add_oracle and remove_oracle keep the registry.
LEMMA RegistryKept ==
  ASSUME OracleTypeOK,
         \/ \E a \in Addr, o \in OracleAddrs, q \in Quorums : UpdateOracle(a, o, q)
         \/ \E a \in Addr, o \in OracleAddrs : AddOracle(a, o) \/ RemoveOracle(a, o)
  PROVE  RegistryInv'
<1>1. Registry(GetOracles)
  BY GetOraclesIsRegistry
<1>2. OracleAddrs \subseteq Addr /\ Quorums \subseteq Nat /\ MAX_ORACLES \in Nat \ {0}
  BY OracleAssumption
<1>3. ASSUME NEW a \in Addr, NEW o \in OracleAddrs, NEW q \in Quorums, UpdateOracle(a, o, q)
      PROVE  RegistryInv'
  <2>1. oracle' \in Addr /\ minQuorum' \in Nat /\ oracles' = oracles
    BY <1>2, <1>3 DEF UpdateOracle, OracleTypeOK
  <2>2. CASE oracles = None
    <3>1. GetOracles' = <<oracle'>>
      BY <2>1, <2>2 DEF GetOracles
    <3>2. Len(GetOracles') <= MAX_ORACLES /\ IsInjective(GetOracles')
      BY <1>2, <3>1 DEF IsInjective
    <3> QED
      BY <2>1, <2>2, <3>2 DEF RegistryInv, GetOracles
  <2>3. CASE oracles # None
    <3>1. GetOracles' = GetOracles
      BY <2>1, <2>3 DEF GetOracles
    <3> QED
      BY <2>1, <3>1, <1>1 DEF RegistryInv, OracleTypeOK, Registry
  <2> QED
    BY <2>2, <2>3
<1>4. ASSUME NEW list, Registry(list), oracles' = list, UNCHANGED <<oracle, minQuorum>>
      PROVE  RegistryInv'
  <2>1. oracles' \in Seq(Addr) /\ oracle' \in Addr /\ minQuorum' \in Nat
    BY <1>4 DEF Registry, OracleTypeOK
  <2>2. CASE oracles' = None
    <3>1. GetOracles' = <<oracle'>>
      BY <2>2 DEF GetOracles
    <3> QED
      BY <1>2, <2>1, <3>1 DEF RegistryInv, IsInjective
  <2>3. CASE oracles' # None
    <3>1. GetOracles' = list
      BY <1>4, <2>3 DEF GetOracles
    <3> QED
      BY <1>4, <2>1, <3>1 DEF RegistryInv, Registry
  <2> QED
    BY <2>2, <2>3
<1>5. ASSUME NEW a \in Addr, NEW o \in OracleAddrs, AddOracle(a, o)
      PROVE  RegistryInv'
  <2>1. Registry(Append(GetOracles, o))
    BY <1>1, <1>2, <1>5, AppendKeepsRegistry DEF AddOracle
  <2> QED
    BY <1>4, <1>5, <2>1 DEF AddOracle
<1>6. ASSUME NEW a \in Addr, NEW o \in OracleAddrs, RemoveOracle(a, o)
      PROVE  RegistryInv'
  <2>1. Registry(RemoveFirst(GetOracles, o))
    BY <1>1, <1>6, RemoveKeepsRegistry DEF RemoveOracle
  <2> QED
    BY <1>4, <1>6, <2>1 DEF RemoveOracle
<1> QED
  BY <1>3, <1>5, <1>6

\* Multiplication distributes and is monotonic.
LEMMA Products ==
  ASSUME NEW a \in Nat, NEW b \in Nat, NEW n \in Nat
  PROVE  a * (n + 1) = a * n + a /\ (a <= b => a * n <= b * n)
<1>1. a * (n + 1) = a * n + a
  OBVIOUS
<1>2. ASSUME a <= b PROVE a * n <= b * n
  <2>1. (b - a) \in Nat /\ b = a + (b - a)
    BY <1>2
  <2>2. (b - a) * n \in Nat /\ a * n \in Nat
    BY <2>1
  <2>3. b * n = a * n + (b - a) * n
    BY <2>1
  <2> QED
    BY <2>2, <2>3
<1> QED
  BY <1>1, <1>2

\* A positive price that is accepted keeps the types of the prices.
LEMMA AcceptKeepsPrices ==
  ASSUME PricesInv, now \in Nat \ {0}, NEW price \in Nat \ {0}, AcceptPrice(price), now' = now
  PROVE  PricesInv' /\ twapSum' \in Nat /\ twapCount' \in Nat \ {0}
<1> DEFINE restart == lastPriceTime = 0 \/ now - lastPriceTime > TWAP_WINDOW
<1>1. /\ twapSum' = (IF restart THEN price ELSE twapSum + price)
      /\ twapCount' = (IF restart THEN 1 ELSE twapCount + 1)
      /\ twapPrice' = twapSum' \div twapCount'
      /\ lastPrice' = price /\ lastPriceTime' = now
  BY DEF AcceptPrice
<1>2. twapSum' \in Nat /\ twapCount' \in Nat \ {0}
  BY <1>1 DEF PricesInv
<1>3. \A a \in Nat, b \in Nat \ {0} : a \div b \in Nat
  OBVIOUS
<1>4. twapPrice' \in Nat
  BY <1>1, <1>2, <1>3
<1> QED
  BY <1>1, <1>2, <1>4 DEF PricesInv

\* A positive price that is accepted keeps the sum between its bounds.
LEMMA AcceptKeepsMean ==
  ASSUME FeedInv, NEW price \in Nat \ {0}, AcceptPrice(price), now' = now, ObserveSamples
  PROVE  PricesInv' /\ MeanInv'
<1> DEFINE restart == lastPriceTime = 0 \/ now - lastPriceTime > TWAP_WINDOW
<1>1. /\ now \in Nat \ {0} /\ TWAP_WINDOW \in Nat /\ lowest \in Nat /\ highest \in Nat
      /\ lastPriceTime \in Nat /\ lastPriceTime <= now /\ twapSum \in Nat /\ twapCount \in Nat
      /\ twapCount > 0 <=> lastPriceTime > 0
  BY OracleAssumption DEF FeedInv, OracleTypeOK, MeanInv
<1>2. /\ twapSum' = (IF restart THEN price ELSE twapSum + price)
      /\ twapCount' = (IF restart THEN 1 ELSE twapCount + 1)
      /\ twapPrice' = twapSum' \div twapCount'
      /\ lastPrice' = price /\ lastPriceTime' = now
  BY DEF AcceptPrice
<1>3. twapSum' \in Nat /\ twapCount' \in Nat \ {0}
  BY <1>1, <1>2
<1>4. ~ UNCHANGED priceVars
  <2>1. CASE lastPriceTime = 0
    BY <1>1, <1>2, <2>1 DEF priceVars
  <2>2. CASE lastPriceTime # 0
    <3>1. CASE restart
      BY <1>1, <1>2, <2>2, <3>1 DEF priceVars
    <3>2. CASE ~restart
      BY <1>1, <1>2, <3>2 DEF priceVars
    <3> QED
      BY <3>1, <3>2
  <2> QED
    BY <2>1, <2>2
<1>5. /\ lowest' = (IF restart \/ price < lowest THEN price ELSE lowest)
      /\ highest' = (IF restart \/ price > highest THEN price ELSE highest)
  BY <1>2, <1>4 DEF ObserveSamples, Restarted
<1>6. lowest' \in Nat /\ highest' \in Nat
  BY <1>1, <1>5
<1>7. PricesInv'
  BY <1>1, AcceptKeepsPrices DEF FeedInv, OracleTypeOK, PricesInv
<1>8. lowest' > 0 /\ lowest' * twapCount' <= twapSum' /\ twapSum' <= highest' * twapCount'
  <2>1. CASE restart
    <3>1. lowest' = price /\ highest' = price /\ twapSum' = price /\ twapCount' = 1
      BY <1>2, <1>5, <2>1
    <3> QED
      BY <3>1
  <2>2. CASE ~restart
    <3>1. /\ lowest > 0 /\ lowest * twapCount <= twapSum /\ twapSum <= highest * twapCount
      BY <1>1, <2>2 DEF FeedInv, MeanInv
    <3>2. /\ lowest' <= lowest /\ lowest' <= price /\ highest' >= highest /\ highest' >= price
          /\ lowest' > 0
      BY <1>1, <1>5, <2>2, <3>1
    <3>3. \A a, b, n \in Nat : a <= b => a * n <= b * n
      BY Products, Zenon
    <3>4. lowest' * twapCount <= lowest * twapCount /\ highest * twapCount <= highest' * twapCount
      BY <1>1, <1>6, <3>2, <3>3
    <3>5. twapSum' = twapSum + price /\ twapCount' = twapCount + 1
      BY <1>2, <2>2
    <3>6. \A a, n \in Nat : a * (n + 1) = a * n + a
      BY Products, Zenon
    <3>7. /\ lowest' * twapCount' = lowest' * twapCount + lowest'
          /\ highest' * twapCount' = highest' * twapCount + highest'
      BY <1>1, <1>6, <3>5, <3>6
    <3> DEFINE low == lowest' * twapCount
               low0 == lowest * twapCount
               low1 == lowest' * twapCount'
               high == highest' * twapCount
               high0 == highest * twapCount
               high1 == highest' * twapCount'
    <3>8. \A a, n \in Nat : a * n \in Nat
      OBVIOUS
    <3>9. low \in Nat /\ low0 \in Nat /\ high \in Nat /\ high0 \in Nat
      BY <1>1, <1>6, <3>8, Zenon
    <3>10. /\ low <= low0 /\ low0 <= twapSum /\ twapSum <= high0 /\ high0 <= high
           /\ low1 = low + lowest' /\ high1 = high + highest'
      BY <3>1, <3>4, <3>7, Zenon
    <3> HIDE DEF low, low0, low1, high, high0, high1
    <3>11. low + lowest' <= twapSum + price /\ twapSum + price <= high + highest'
      <4>1. low <= twapSum /\ twapSum <= high
        BY <1>1, <3>9, <3>10
      <4>2. lowest' <= price /\ price <= highest'
        BY <1>6, <3>2
      <4>3. \A a, b, c, d \in Nat : a <= b /\ c <= d => a + c <= b + d
        OBVIOUS
      <4> QED
        BY <1>1, <1>6, <3>9, <4>1, <4>2, <4>3, Zenon
    <3>12. low1 <= twapSum' /\ twapSum' <= high1
      BY <3>5, <3>10, <3>11, Zenon
    <3> QED
      BY <3>2, <3>12 DEF low1, high1
  <2> QED
    BY <2>1, <2>2
<1>9. MeanInv'
  BY <1>2, <1>6, <1>8 DEF MeanInv
<1> QED
  BY <1>7, <1>9

\* A submission accepts a positive price: the oracle's own, or the median.
LEMMA SubmissionAccepts ==
  ASSUME OracleStep
  PROVE  \/ \E price \in Nat \ {0} : AcceptPrice(price) /\ UNCHANGED registryVars
         \/ /\ \/ \E a \in Addr, o \in OracleAddrs, q \in Quorums : UpdateOracle(a, o, q)
               \/ \E a \in Addr, o \in OracleAddrs : AddOracle(a, o) \/ RemoveOracle(a, o)
            /\ UNCHANGED priceVars
<1>1. ASSUME NEW prices \in PriceVectors, SubmitOraclePrices(prices)
      PROVE  \E price \in Nat \ {0} : AcceptPrice(price) /\ UNCHANGED registryVars
  <2>1. Acceptable(prices)
    BY <1>1 DEF Acceptable, SubmitOraclePrices
  <2>2. Median(prices) \in Nat \ {0}
    BY <2>1, MedianIsAPrice
  <2> QED
    BY <1>1, <2>2 DEF SubmitOraclePrices
<1>2. ASSUME NEW o \in Addr, NEW p \in Prices, SubmitPrice(o, p)
      PROVE  \E price \in Nat \ {0} : AcceptPrice(price) /\ UNCHANGED registryVars
  <2>1. p \in Nat \ {0}
    BY <1>2, OracleAssumption DEF SubmitPrice
  <2> QED
    BY <1>2, <2>1 DEF SubmitPrice
<1>3. ASSUME NEW a \in Addr, NEW o \in OracleAddrs, NEW q \in Quorums,
             UpdateOracle(a, o, q) \/ AddOracle(a, o) \/ RemoveOracle(a, o)
      PROVE  UNCHANGED priceVars
  BY <1>3 DEF UpdateOracle, AddOracle, RemoveOracle
<1>4. ASSUME NEW a \in Addr, NEW o \in OracleAddrs, AddOracle(a, o) \/ RemoveOracle(a, o)
      PROVE  UNCHANGED priceVars
  BY <1>4 DEF AddOracle, RemoveOracle
<1> QED
  BY <1>1, <1>2, <1>3, <1>4 DEF OracleStep

\* Time does not run backwards, whatever the control plane does.
LEMMA GovTimeMovesOn ==
  ASSUME now \in Nat \ {0}, GovNext
  PROVE  now' \in Nat \ {0} /\ now' >= now
  BY DEF GovNext, Tick, Pause, Unpause, SetPauseDuration, ProposeNewAdmin, AcceptAdminRole,
     AddLiquidator, RemoveLiquidator, ProposeUpgrade, ExecuteUpgrade, CancelUpgrade

\* Whatever is built on the price feed: its steps keep the types of the prices.
LEMMA PricesKept ==
  ASSUME PricesInv, now \in Nat \ {0}, OracleNext
  PROVE  PricesInv' /\ now' \in Nat \ {0} /\ now' >= now
<1>1. ASSUME UNCHANGED priceVars, now' \in Nat, now' >= now PROVE PricesInv'
  BY <1>1 DEF priceVars, PricesInv
<1>2. CASE OracleStep /\ UNCHANGED govVars
  <2>1. now' = now
    BY <1>2 DEF govVars
  <2>2. ASSUME NEW price \in Nat \ {0}, AcceptPrice(price) PROVE PricesInv'
    BY <2>1, <2>2, AcceptKeepsPrices
  <2> QED
    BY <1>1, <1>2, <2>1, <2>2, SubmissionAccepts
<1>3. CASE GovNext /\ UNCHANGED oracleVars
  BY <1>1, <1>3, GovTimeMovesOn DEF oracleVars
<1> QED
  BY <1>2, <1>3 DEF OracleNext

\* Every step keeps the inductive invariant.
LEMMA StepFeedInv ==
  ASSUME FeedInv, [FeedNext]_feedVars
  PROVE  FeedInv'
<1>1. OracleTypeOK /\ now \in Nat \ {0} /\ MeanInv
  BY DEF FeedInv
<1>2. OracleTypeOK <=> RegistryInv /\ PricesInv
  BY DEF OracleTypeOK, RegistryInv, PricesInv
<1>3. OracleTypeOK' <=> RegistryInv' /\ PricesInv'
  BY DEF OracleTypeOK, RegistryInv, PricesInv
<1>4. ASSUME UNCHANGED registryVars PROVE RegistryInv'
  BY <1>1, <1>2, <1>4 DEF registryVars, RegistryInv, GetOracles
<1>5. ASSUME UNCHANGED priceVars, ObserveSamples \/ UNCHANGED samples, now' \in Nat, now' >= now
      PROVE  PricesInv' /\ MeanInv'
  <2>1. UNCHANGED samples
    BY <1>5 DEF ObserveSamples
  <2>2. PricesInv'
    BY <1>1, <1>2, <1>5 DEF priceVars, PricesInv
  <2>3. MeanInv'
    BY <1>1, <1>5, <2>1 DEF priceVars, samples, MeanInv
  <2> QED
    BY <2>2, <2>3
<1>6. CASE UNCHANGED feedVars
  <2>1. UNCHANGED registryVars /\ UNCHANGED priceVars /\ UNCHANGED samples /\ now' = now
    BY <1>6 DEF feedVars, govVars, oracleVars
  <2> QED
    BY <1>1, <1>3, <1>4, <1>5, <2>1 DEF FeedInv
<1>7. CASE OracleStep /\ UNCHANGED govVars /\ ObserveSamples
  <2>1. now' = now
    BY <1>7 DEF govVars
  <2>2. ASSUME NEW price \in Nat \ {0}, AcceptPrice(price), UNCHANGED registryVars
        PROVE  FeedInv'
    BY <1>1, <1>3, <1>4, <1>7, <2>1, <2>2, AcceptKeepsMean DEF FeedInv
  <2>3. ASSUME \/ \E a \in Addr, o \in OracleAddrs, q \in Quorums : UpdateOracle(a, o, q)
               \/ \E a \in Addr, o \in OracleAddrs : AddOracle(a, o) \/ RemoveOracle(a, o),
               UNCHANGED priceVars
        PROVE  FeedInv'
    <3>1. RegistryInv'
      BY <1>1, <2>3, RegistryKept
    <3>2. PricesInv' /\ MeanInv'
      BY <1>1, <1>5, <1>7, <2>1, <2>3
    <3> QED
      BY <1>1, <1>3, <2>1, <3>1, <3>2 DEF FeedInv
  <2> QED
    BY <1>7, <2>2, <2>3, SubmissionAccepts
<1>8. CASE GovNext /\ UNCHANGED oracleVars /\ ObserveSamples
  <2>1. UNCHANGED registryVars /\ UNCHANGED priceVars
    BY <1>8 DEF oracleVars
  <2>2. now' \in Nat \ {0} /\ now' >= now
    BY <1>1, <1>8, GovTimeMovesOn
  <2> QED
    BY <1>1, <1>3, <1>4, <1>5, <1>8, <2>1, <2>2 DEF FeedInv
<1> QED
  BY <1>6, <1>7, <1>8 DEF FeedNext, OracleNext

\* The inductive invariant holds in every state.
LEMMA FeedInvariant == FeedSpec => []FeedInv
<1>1. FeedInv /\ [FeedNext]_feedVars => FeedInv'
  BY StepFeedInv
<1> QED
  BY InitFeedInv, <1>1, PTL DEF FeedSpec

-----------------------------------------------------------------------------
\* The registry always fits the buffer that submit_oracle_prices sorts in and lists no oracle
\* twice, and an average exists exactly when the time of its last sample is known.
THEOREM OracleTypeCorrect == FeedSpec => []OracleTypeOK
<1>1. FeedInv => OracleTypeOK
  BY DEF FeedInv
<1> QED
  BY FeedInvariant, <1>1, PTL

\* The price the lending entry points read lies within the prices accepted since the average
\* restarted.
THEOREM AverageCorrect == FeedSpec => []AverageWithinSamples
<1>1. ASSUME FeedInv PROVE AverageWithinSamples
  <2> SUFFICES ASSUME twapCount > 0
               PROVE  lowest <= EffectivePrice /\ EffectivePrice <= highest
    BY DEF AverageWithinSamples
  <2>1. /\ lowest \in Nat \ {0} /\ highest \in Nat /\ twapSum \in Nat /\ twapCount \in Nat \ {0}
        /\ lowest * twapCount <= twapSum /\ twapSum <= highest * twapCount
        /\ twapPrice = twapSum \div twapCount /\ twapPrice \in Nat
    BY <1>1 DEF FeedInv, OracleTypeOK, MeanInv
  <2>2. twapPrice * twapCount <= twapSum /\ twapSum < twapPrice * twapCount + twapCount
    BY <2>1, Z3
  <2>3. twapPrice >= lowest
    <3>1. SUFFICES ASSUME twapPrice + 1 <= lowest PROVE FALSE
      BY <2>1
    <3>2. (twapPrice + 1) * twapCount <= lowest * twapCount
      BY <2>1, <3>1
    <3> QED
      BY <2>1, <2>2, <3>2
  <2>4. twapPrice <= highest
    <3>1. SUFFICES ASSUME highest + 1 <= twapPrice PROVE FALSE
      BY <2>1
    <3>2. (highest + 1) * twapCount <= twapPrice * twapCount
      BY <2>1, <3>1
    <3> QED
      BY <2>1, <2>2, <3>2
  <2> QED
    BY <2>1, <2>3, <2>4 DEF EffectivePrice
<1> QED
  BY FeedInvariant, <1>1, PTL

\* No minority of the oracles moves the accepted price out of the range of the majority.
THEOREM MedianIsRobust == FeedSpec => MinorityCannotMoveMedian
<1>1. [FeedNext]_feedVars =>
        [\A prices \in PriceVectors : SubmitOraclePrices(prices) =>
           \A lo, hi \in Prices :
             2 * Cardinality({i \in DOMAIN prices : prices[i] \in lo .. hi}) > Len(prices)
               => lastPrice' \in lo .. hi]_feedVars
  <2> SUFFICES ASSUME NEW prices \in PriceVectors, SubmitOraclePrices(prices),
                      NEW lo \in Prices, NEW hi \in Prices,
                      2 * Cardinality({i \in DOMAIN prices : prices[i] \in lo .. hi})
                        > Len(prices)
               PROVE  lastPrice' \in lo .. hi
    OBVIOUS
  <2>1. Acceptable(prices)
    BY DEF Acceptable, SubmitOraclePrices
  <2>2. lo \in Int /\ hi \in Int
    BY OracleAssumption
  <2>3. lastPrice' = Median(prices)
    BY DEF SubmitOraclePrices, AcceptPrice
  <2> QED
    BY <2>1, <2>2, <2>3, MajorityHoldsMedian
<1> QED
  BY <1>1, PTL DEF FeedSpec, MinorityCannotMoveMedian

-----------------------------------------------------------------------------
(* Loans and collateral. *)

\* The books: types, and the debt of every loan.
BooksInv ==
  /\ now \in Nat
  /\ LendingTypeOK
  /\ StatusFollowsDebt

\* Every loan lists collateral, and collateral that exists.
BackedInv ==
  \A l \in DOMAIN loans :
    /\ Len(loans[l].collateralIds) > 0
    /\ Range(loans[l].collateralIds) \subseteq DOMAIN collaterals

IInv == BooksInv /\ now # 0 /\ PricesInv /\ BackedInv

-----------------------------------------------------------------------------
\* A share of at most one of n, rounded down, is at most n; a share below one of a positive
\* n is below n.
LEMMA Share ==
  ASSUME NEW n \in Nat, NEW c \in Nat, NEW b \in Nat \ {0}, c <= b
  PROVE  /\ (n * c) \div b \in 0 .. n
         /\ c < b /\ n > 0 => (n * c) \div b < n
<1> DEFINE q == (n * c) \div b
<1>1. q \in Int /\ b * q <= n * c /\ n * c < b * q + b
  BY Z3
<1>2. n * c \in Nat
  OBVIOUS
<1>3. q >= 0
  BY <1>1, <1>2
<1>4. n * c <= n * b
  OBVIOUS
<1>5. b * q <= b * n
  BY <1>1, <1>4
<1>6. q <= n
  BY <1>1, <1>5
<1>7. ASSUME c < b, n > 0 PROVE q < n
  <2>1. n * c < n * b
    BY <1>7
  <2>2. b * q < b * n
    BY <1>1, <2>1
  <2> QED
    BY <1>1, <2>2
<1> QED
  BY <1>1, <1>3, <1>6, <1>7

\* What Append adds and what it keeps.
LEMMA Appended ==
  ASSUME NEW s, s \in Seq(Range(s)), NEW e
  PROVE  /\ Append(s, e) \in Seq(Range(Append(s, e)))
         /\ Len(Append(s, e)) = Len(s) + 1 /\ Len(s) \in Nat
         /\ DOMAIN s = 1 .. Len(s)
         /\ DOMAIN Append(s, e) = 1 .. (Len(s) + 1)
         /\ \A i \in 1 .. Len(s) : Append(s, e)[i] = s[i]
         /\ Append(s, e)[Len(s) + 1] = e
<1> DEFINE T == Range(s) \cup {e}
<1>1. s \in Seq(T)
  BY SeqMonotonic
<1>2. Append(s, e) \in Seq(T)
  BY <1>1
<1>3. Append(s, e) \in Seq(Range(Append(s, e)))
  BY <1>2, SeqOfRange
<1> QED
  BY <1>1, <1>2, <1>3

\* Replacing the entries of a sequence leaves a sequence of the same length.
LEMMA Replaced ==
  ASSUME NEW s, s \in Seq(Range(s)), NEW t, DOMAIN t = DOMAIN s,
         t = [i \in DOMAIN t |-> t[i]]
  PROVE  t \in Seq(Range(t)) /\ Len(t) = Len(s)
<1>1. Len(s) \in Nat /\ DOMAIN s = 1 .. Len(s)
  OBVIOUS
<1>2. t \in [1 .. Len(s) -> Range(t)]
  BY <1>1 DEF Range
<1> QED
  BY <1>1, <1>2

-----------------------------------------------------------------------------
\* The element a sum takes next, and what it adds up of a set of places.
Taken(s) == CHOOSE x \in s : TRUE
Part(f, g, s) == IF s = {} THEN 0 ELSE f[Taken(s)] + g[s \ {Taken(s)}]
Adds(f, T, g) == g = [s \in SUBSET T |-> Part(f, g, s)]

\* One place less.
LEMMA OneLess ==
  ASSUME NEW T, IsFiniteSet(T), NEW s \in SUBSET T, s # {}
  PROVE  /\ Taken(s) \in T
         /\ s \ {Taken(s)} \in SUBSET T
         /\ Cardinality(s) \in Nat \ {0}
         /\ Cardinality(s \ {Taken(s)}) = Cardinality(s) - 1
<1>1. Taken(s) \in s
  BY DEF Taken
<1>2. IsFiniteSet(s)
  BY FS_Subset
<1>3. Cardinality(s) \in Nat /\ Cardinality(s) # 0
  BY <1>2, FS_CardinalityType, FS_EmptySet
<1>4. Cardinality(s \ {Taken(s)}) = Cardinality(s) - 1
  BY <1>1, <1>2, FS_RemoveElement
<1> QED
  BY <1>1, <1>3, <1>4

\* Some function adds up the subsets of a finite set: up to every size, for which the next size
\* takes one step more.
LEMMA AddsExists ==
  ASSUME NEW T, IsFiniteSet(T), NEW f \in [T -> Nat]
  PROVE  \E g \in [SUBSET T -> Nat] : Adds(f, T, g)
<1> DEFINE AddsTo(g, n) == \A s \in SUBSET T : Cardinality(s) <= n => g[s] = Part(f, g, s)
           Missing == {n \in Nat : ~ \E g \in [SUBSET T -> Nat] : AddsTo(g, n)}
<1>1. \A s \in SUBSET T : Cardinality(s) \in Nat /\ (Cardinality(s) = 0 => s = {})
  <2> TAKE s \in SUBSET T
  <2>1. IsFiniteSet(s)
    BY FS_Subset
  <2> QED
    BY <2>1, FS_CardinalityType, FS_EmptySet
<1>2. 0 \notin Missing
  <2> DEFINE zero == [s \in SUBSET T |-> 0]
  <2>1. zero \in [SUBSET T -> Nat]
    OBVIOUS
  <2>2. AddsTo(zero, 0)
    BY <1>1 DEF Part
  <2> QED
    BY <2>1, <2>2
<1>3. ASSUME NEW n \in Nat, n \notin Missing PROVE n + 1 \notin Missing
  <2>1. PICK g \in [SUBSET T -> Nat] : AddsTo(g, n)
    BY <1>3
  <2> DEFINE h == [s \in SUBSET T |-> Part(f, g, s)]
  <2>2. h \in [SUBSET T -> Nat]
    <3>1. ASSUME NEW s \in SUBSET T PROVE Part(f, g, s) \in Nat
      <4>1. CASE s = {}
        BY <4>1 DEF Part
      <4>2. CASE s # {}
        <5>1. f[Taken(s)] \in Nat /\ g[s \ {Taken(s)}] \in Nat
          BY <4>2, OneLess
        <5> QED
          BY <4>2, <5>1 DEF Part
      <4> QED
        BY <4>1, <4>2
    <3> QED
      BY <3>1
  <2>3. ASSUME NEW s \in SUBSET T, Cardinality(s) <= n + 1
        PROVE  h[s] = Part(f, h, s)
    <3>1. CASE s = {}
      BY <3>1 DEF Part
    <3>2. CASE s # {}
      <4> DEFINE rest == s \ {Taken(s)}
      <4>1. rest \in SUBSET T /\ Cardinality(rest) <= n
        BY <2>3, <3>2, OneLess
      <4>2. g[rest] = Part(f, g, rest)
        BY <2>1, <4>1
      <4>3. h[rest] = g[rest]
        BY <4>1, <4>2
      <4> QED
        BY <3>2, <4>3 DEF Part
    <3> QED
      BY <3>1, <3>2
  <2>4. AddsTo(h, n + 1)
    BY <2>3
  <2> HIDE DEF h, AddsTo
  <2> QED
    BY <2>2, <2>4
<1>4. Missing = {}
  <2>1. SUFFICES ASSUME Missing # {} PROVE FALSE
    OBVIOUS
  <2>2. Missing \in SUBSET Nat
    OBVIOUS
  <2> HIDE DEF Missing
  <2>3. PICK m \in Missing : \A n \in Missing : m <= n
    BY <2>1, <2>2, LeastNat
  <2>4. m \in Nat \ {0} /\ m - 1 \in Nat /\ (m - 1) + 1 = m
    BY <1>2, <2>2, <2>3
  <2>5. m - 1 \notin Missing
    BY <2>2, <2>3, <2>4
  <2> QED
    BY <1>3, <2>3, <2>4, <2>5
<1>5. Cardinality(T) \in Nat
  BY <1>1
<1>6. PICK g \in [SUBSET T -> Nat] : AddsTo(g, Cardinality(T))
  BY <1>4, <1>5
<1>7. ASSUME NEW s \in SUBSET T PROVE g[s] = Part(f, g, s)
  <2>1. Cardinality(s) <= Cardinality(T)
    BY FS_Subset
  <2> QED
    BY <1>6, <2>1
<1>8. g = [s \in SUBSET T |-> Part(f, g, s)]
  BY <1>7
<1> QED
  BY <1>8 DEF Adds

\* What adds up a smaller function stays below what adds up a larger one.
LEMMA AddsGrow ==
  ASSUME NEW T, IsFiniteSet(T), NEW f \in [T -> Nat], NEW h \in [T -> Nat],
         \A x \in T : f[x] <= h[x],
         NEW g, Adds(f, T, g), NEW k, Adds(h, T, k)
  PROVE  \A s \in SUBSET T : g[s] \in Nat /\ k[s] \in Nat /\ g[s] <= k[s]
<1> DEFINE Fine(s) == g[s] \in Nat /\ k[s] \in Nat /\ g[s] <= k[s]
           Sizes == {Cardinality(s) : s \in {t \in SUBSET T : ~Fine(t)}}
<1>1. Sizes \in SUBSET Nat
  <2>1. ASSUME NEW s \in SUBSET T PROVE Cardinality(s) \in Nat
    <3>1. IsFiniteSet(s)
      BY FS_Subset
    <3> QED
      BY <3>1, FS_CardinalityType
  <2> QED
    BY <2>1
<1>2. \A s \in SUBSET T : g[s] = Part(f, g, s) /\ k[s] = Part(h, k, s)
  BY DEF Adds
<1>3. Sizes = {}
  <2>1. SUFFICES ASSUME Sizes # {} PROVE FALSE
    OBVIOUS
  <2>2. PICK m \in Sizes : \A n \in Sizes : m <= n
    <3> HIDE DEF Sizes
    <3> QED
      BY <1>1, <2>1, LeastNat
  <2>3. PICK s \in SUBSET T : ~Fine(s) /\ Cardinality(s) = m
    BY <2>2
  <2>4. CASE s = {}
    BY <1>2, <2>3, <2>4 DEF Part
  <2>5. CASE s # {}
    <3> DEFINE rest == s \ {Taken(s)}
    <3>1. /\ Taken(s) \in T /\ rest \in SUBSET T
          /\ Cardinality(s) \in Nat \ {0} /\ Cardinality(rest) = Cardinality(s) - 1
      BY <2>5, OneLess
    <3>2. Fine(rest)
      <4>1. Cardinality(rest) \notin Sizes
        BY <2>2, <2>3, <3>1
      <4> QED
        BY <3>1, <4>1
    <3>3. f[Taken(s)] \in Nat /\ h[Taken(s)] \in Nat /\ f[Taken(s)] <= h[Taken(s)]
      BY <3>1
    <3>4. g[s] = f[Taken(s)] + g[rest] /\ k[s] = h[Taken(s)] + k[rest]
      BY <1>2, <2>5 DEF Part
    <3> QED
      BY <2>3, <3>2, <3>3, <3>4
  <2> QED
    BY <2>4, <2>5
<1> QED
  BY <1>3

\* SumFunction is the value of such a function on all places.
LEMMA SumAdds ==
  ASSUME NEW T, IsFiniteSet(T), NEW f \in [T -> Nat]
  PROVE  \E g : Adds(f, T, g) /\ SumFunction(f) = g[T]
<1>1. SumFunction(f) = (CHOOSE g : Adds(f, DOMAIN f, g))[DOMAIN f]
  BY Zenon DEF SumFunction, SumFunctionOnSet, FoldFunctionOnSet, MapThenFoldSet, Taken, Part, Adds
<1>2. DOMAIN f = T
  OBVIOUS
<1>3. \E g : Adds(f, T, g)
  BY AddsExists
<1> QED
  BY <1>1, <1>2, <1>3

\* A sum of natural numbers is one, grows with its terms, and is positive when they are.
LEMMA Sums ==
  ASSUME NEW T, IsFiniteSet(T), NEW f \in [T -> Nat], NEW h \in [T -> Nat],
         \A x \in T : f[x] <= h[x]
  PROVE  /\ SumFunction(f) \in Nat /\ SumFunction(h) \in Nat
         /\ SumFunction(f) <= SumFunction(h)
         /\ T # {} /\ (\A x \in T : f[x] > 0) => SumFunction(f) > 0
<1>1. PICK g : Adds(f, T, g) /\ SumFunction(f) = g[T]
  BY SumAdds
<1>2. PICK k : Adds(h, T, k) /\ SumFunction(h) = k[T]
  BY SumAdds
<1>3. \A s \in SUBSET T : g[s] \in Nat /\ k[s] \in Nat /\ g[s] <= k[s]
  BY <1>1, <1>2, AddsGrow
<1>4. ASSUME T # {}, \A x \in T : f[x] > 0 PROVE g[T] > 0
  <2>1. Taken(T) \in T /\ T \ {Taken(T)} \in SUBSET T
    BY <1>4 DEF Taken
  <2>2. g[T] = f[Taken(T)] + g[T \ {Taken(T)}]
    BY <1>1, <1>4 DEF Adds, Part
  <2>3. f[Taken(T)] \in Nat /\ f[Taken(T)] > 0 /\ g[T \ {Taken(T)}] \in Nat
    BY <1>3, <1>4, <2>1
  <2> QED
    BY <2>2, <2>3
<1> QED
  BY <1>1, <1>2, <1>3, <1>4

-----------------------------------------------------------------------------
\* The smaller of two positive numbers.
LEMMA MinIsPositive ==
  ASSUME NEW m \in Nat \ {0}, NEW n \in Nat \ {0}
  PROVE  Min2(m, n) \in Nat \ {0}
BY DEF Min2

\* While there is a price, animals are worth something to the contract.
LEMMA MaxTotalIsPositive ==
  ASSUME PricesInv, EffectivePrice > 0, NEW count \in Nat \ {0}
  PROVE  OracleMaxTotal(count) \in Nat \ {0}
<1> DEFINE most == (EffectivePrice * (BPS + DEV_BPS)) \div BPS
<1>1. EffectivePrice \in Nat \ {0} /\ BPS \in Nat \ {0} /\ DEV_BPS \in Nat
  BY LendingAssumption DEF PricesInv, EffectivePrice
<1>2. \A p, b \in Nat \ {0}, d \in Nat : (p * (b + d)) \div b \in Nat \ {0}
  <2> SUFFICES ASSUME NEW p \in Nat \ {0}, NEW b \in Nat \ {0}, NEW d \in Nat
               PROVE  (p * (b + d)) \div b \in Nat \ {0}
    OBVIOUS
  <2>1. p * (b + d) \in Nat /\ p * (b + d) >= b
    <3>1. p - 1 \in Nat /\ (p - 1) * (b + d) \in Nat
      OBVIOUS
    <3>2. p * (b + d) = (p - 1) * (b + d) + (b + d)
      OBVIOUS
    <3> QED
      BY <3>1, <3>2
  <2>2. \A n \in Nat : n >= b => n \div b \in Nat \ {0}
    OBVIOUS
  <2> QED
    BY <2>1, <2>2
<1>3. most \in Nat \ {0}
  BY <1>1, <1>2
<1> HIDE DEF most
<1>4. count * most \in Nat \ {0}
  BY <1>3
<1> QED
  BY <1>4 DEF OracleMaxTotal, most

\* Every collateral has a value at every price: the fallback of HealthFactor is never needed.
LEMMA EffectiveValueIsPositive ==
  ASSUME PricesInv, CollateralsOK, NEW c \in DOMAIN collaterals
  PROVE  EffectiveValue(collaterals[c]) \in Nat \ {0}
<1>1. collaterals[c].appraisedValue \in Nat \ {0} /\ collaterals[c].count \in Nat \ {0}
  BY DEF CollateralsOK
<1>2. CASE EffectivePrice > 0
  BY <1>1, <1>2, MaxTotalIsPositive, MinIsPositive DEF EffectiveValue
<1>3. CASE ~ (EffectivePrice > 0)
  BY <1>1, <1>3 DEF EffectiveValue
<1> QED
  BY <1>2, <1>3

\* So has every list of collateral.
LEMMA CollateralValueIsPositive ==
  ASSUME PricesInv, CollateralsOK, NEW ids \in Seq(Nat), Len(ids) > 0,
         Range(ids) \subseteq DOMAIN collaterals
  PROVE  CollateralValue(ids) \in Nat \ {0}
<1> DEFINE value == [i \in DOMAIN ids |-> EffectiveValue(collaterals[ids[i]])]
<1>1. DOMAIN ids = 1 .. Len(ids) /\ Len(ids) \in Nat
  OBVIOUS
<1>2. IsFiniteSet(DOMAIN ids) /\ DOMAIN ids # {}
  <2>1. IsFiniteSet(1 .. Len(ids))
    BY <1>1, FS_Interval
  <2>2. 1 \in 1 .. Len(ids)
    BY <1>1
  <2> QED
    BY <1>1, <2>1, <2>2
<1>3. ASSUME NEW i \in DOMAIN ids PROVE value[i] \in Nat \ {0}
  <2>1. ids[i] \in DOMAIN collaterals
    BY DEF Range
  <2> QED
    BY <2>1, EffectiveValueIsPositive
<1>4. value \in [DOMAIN ids -> Nat] /\ \A i \in DOMAIN ids : value[i] > 0 /\ value[i] <= value[i]
  BY <1>3
<1> HIDE DEF value
<1>5. SumFunction(value) \in Nat /\ SumFunction(value) > 0
  BY <1>2, <1>4, Sums
<1> QED
  BY <1>5 DEF CollateralValue, value

-----------------------------------------------------------------------------
\* initialize establishes the inductive invariant.
LEMMA InitBooks == Init => BooksInv
<1> SUFFICES ASSUME Init PROVE BooksInv
  OBVIOUS
<1> USE GovAssumption, LendingAssumption DEF Init, GovInit, LendingInit
<1>1. now \in Nat
  OBVIOUS
<1>2. ParamsOK
  BY DEF ParamsOK
<1>3. balance \in [Accounts -> Nat]
  BY DEF Accounts
<1>4. collaterals \in Seq(Range(collaterals)) /\ loans \in Seq(Range(loans))
  BY DEF Range
<1>5. CollateralsOK /\ LoansOK /\ StatusFollowsDebt
  BY DEF CollateralsOK, LoansOK, StatusFollowsDebt
<1> QED
  BY <1>1, <1>2, <1>3, <1>4, <1>5 DEF BooksInv, LendingTypeOK

\* Time does not run backwards, whatever the control plane and the price feed do.
LEMMA TimeMovesOn ==
  ASSUME now \in Nat, [Next]_vars
  PROVE  now' \in Nat /\ now' >= now
<1>1. CASE UNCHANGED vars
  BY <1>1 DEF vars, govVars
<1>2. CASE (LoanStep \/ AdminStep) /\ UNCHANGED <<govVars, oracleVars>>
  BY <1>2 DEF govVars
<1>3. CASE OracleStep /\ UNCHANGED govVars
  BY <1>3 DEF govVars
<1>4. CASE GovNext
  BY <1>4 DEF GovNext, Tick, Pause, Unpause, SetPauseDuration, ProposeNewAdmin,
       AcceptAdminRole, AddLiquidator, RemoveLiquidator, ProposeUpgrade, ExecuteUpgrade,
       CancelUpgrade
<1> QED
  BY <1>1, <1>2, <1>3, <1>4 DEF Next, OracleNext

\* Interest is charged in whole, non-negative amounts.
LEMMA InterestIsNatural ==
  ASSUME BooksInv, NEW l \in DOMAIN loans
  PROVE  Accrued(loans[l]) \in Nat /\ Interest(loans[l]) \in Nat
<1> DEFINE elapsed == now - loans[l].lastInterestTime
           due     == loans[l].outstanding * intFee * elapsed
           unit    == BPS * YEAR
<1>1. elapsed \in Nat /\ loans[l].outstanding \in Nat /\ intFee \in Nat
      /\ loans[l].interestAccrued \in Nat
  BY DEF BooksInv, LendingTypeOK, LoansOK, ParamsOK
<1>2. due \in Nat
  BY <1>1
<1>3. unit \in Nat \ {0}
  BY LendingAssumption
<1>4. due \div unit \in Nat
  BY <1>2, <1>3
<1>5. Accrued(loans[l]) \in Nat
  BY <1>4 DEF Accrued
<1> QED
  BY <1>1, <1>5 DEF Interest

\* A repayment of an active loan splits into interest and principal without a remainder:
\* the principal part never exceeds the principal owed, and clears it only when no interest
\* is left.  The treasury's fee comes out of the interest.
LEMMA RepaymentSplits ==
  ASSUME BooksInv, NEW l \in DOMAIN loans, NEW amount \in Nat \ {0}
  PROVE  LET loan   == loans[l]
             repaid == Min2(amount, loan.outstanding + Interest(loan))
             part   == InterestPart(loan, repaid)
         IN  /\ repaid \in Nat
             /\ part \in 0 .. repaid /\ part \in 0 .. Interest(loan)
             /\ repaid - part \in 0 .. loan.outstanding
             /\ repaid - part = loan.outstanding => part = Interest(loan) \/ loan.outstanding = 0
             /\ InterestFee(loan, repaid) \in 0 .. part
<1> DEFINE loan   == loans[l]
           repaid == Min2(amount, loan.outstanding + Interest(loan))
           part   == InterestPart(loan, repaid)
<1>1. loan.outstanding \in Nat /\ Interest(loan) \in Nat
  BY InterestIsNatural DEF BooksInv, LendingTypeOK, LoansOK
<1>2. repaid \in Nat /\ repaid <= loan.outstanding + Interest(loan)
  BY <1>1 DEF Min2
<1>3. part = IF Interest(loan) <= repaid THEN Interest(loan) ELSE repaid
  BY DEF InterestPart, Min2
<1>4. /\ part \in 0 .. repaid /\ part \in 0 .. Interest(loan)
      /\ repaid - part \in 0 .. loan.outstanding
      /\ repaid - part = loan.outstanding => part = Interest(loan) \/ loan.outstanding = 0
  <2> HIDE DEF loan, repaid, part
  <2> QED
    BY <1>1, <1>2, <1>3
<1>5. InterestFee(loan, repaid) \in 0 .. part
  <2>1. part \in Nat /\ intFee \in Nat /\ BPS \in Nat \ {0} /\ intFee <= BPS
    BY <1>4, LendingAssumption DEF BooksInv, LendingTypeOK, ParamsOK
  <2>2. (part * intFee) \div BPS \in 0 .. part
    BY <2>1, Share
  <2> QED
    BY <2>2 DEF InterestFee
<1> QED
  BY <1>2, <1>4, <1>5

-----------------------------------------------------------------------------
\* A liquidate call repays at most the principal, and less while the close factor is below
\* one.
LEMMA LiquidationIsPartial ==
  ASSUME BooksInv, NEW l \in DOMAIN loans, NEW x \in Nat \ {0}, x <= MaxLiquidation(loans[l])
  PROVE  /\ x <= loans[l].outstanding
         /\ x = loans[l].outstanding => closeFactor = BPS
<1> DEFINE due == loans[l].outstanding
<1>1. due \in Nat
  BY DEF BooksInv, LendingTypeOK, LoansOK
<1>2. closeFactor \in Nat /\ BPS \in Nat \ {0} /\ closeFactor <= BPS
  BY LendingAssumption DEF BooksInv, LendingTypeOK, ParamsOK
<1>3. x <= (due * closeFactor) \div BPS
  BY DEF MaxLiquidation
<1> HIDE DEF due
<1>4. /\ (due * closeFactor) \div BPS \in 0 .. due
      /\ closeFactor < BPS /\ due > 0 => (due * closeFactor) \div BPS < due
  BY <1>1, <1>2, Share
<1>5. x <= due /\ (x = due => closeFactor = BPS)
  BY <1>1, <1>2, <1>3, <1>4
<1> QED
  BY <1>5 DEF due

\* The entry points that write a loan.
LEMMA LoansMoveOnlyByThree ==
  [Next]_vars =>
    \/ UNCHANGED loans
    \/ \E z \in Addr, id \in 1 .. MaxLoans, x \in Amounts : Liquidate(z, id, x)
    \/ \E b \in Farmers, id \in 1 .. MaxLoans, x \in Amounts : RepayLoan(b, id, x)
    \/ \E b \in Farmers, ids \in CollateralLists, x \in Amounts : RequestLoan(b, ids, x)
<1> SUFFICES ASSUME [Next]_vars
             PROVE  \/ UNCHANGED loans
                    \/ \E z \in Addr, id \in 1 .. MaxLoans, x \in Amounts :
                         Liquidate(z, id, x)
                    \/ \E b \in Farmers, id \in 1 .. MaxLoans, x \in Amounts :
                         RepayLoan(b, id, x)
                    \/ \E b \in Farmers, ids \in CollateralLists, x \in Amounts :
                         RequestLoan(b, ids, x)
  OBVIOUS
<1>1. CASE UNCHANGED vars \/ (OracleNext /\ UNCHANGED lendingVars)
  BY <1>1 DEF vars, lendingVars, recordVars
<1>2. CASE AdminStep
  BY <1>2 DEF AdminStep, recordVars, EmergencyWithdraw, SetLtv, SetLiquidationThreshold,
       SetCloseFactor, UpdateFeeConfig, SetAnimalCap
<1>3. CASE LoanStep
  BY <1>3 DEF LoanStep, RegisterLivestock, UpdateAppraisal
<1> QED
  BY <1>1, <1>2, <1>3 DEF Next

\* Moving tokens between the contract, the treasury and one other account.
LEMMA ThreeMoves ==
  ASSUME balance \in [Accounts -> Nat], NEW b \in Addr,
         NEW m \in Nat, NEW n \in Nat, NEW k \in Nat,
         balance' = [balance EXCEPT ![Contract] = m, ![Treasury] = n, ![b] = k]
  PROVE  /\ balance' \in [Accounts -> Nat]
         /\ balance'[Contract] = m /\ balance'[Treasury] = n /\ balance'[b] = k
  BY LendingAssumption DEF Accounts

\* While the records stay as they are, the invariant needs only parameters and balances.
LEMMA RecordsKept ==
  ASSUME BooksInv, now' \in Nat, now' >= now,
         UNCHANGED recordVars, ParamsOK', (balance \in [Accounts -> Nat])'
  PROVE  BooksInv'
<1> USE DEF recordVars
<1>1. (collaterals \in Seq(Range(collaterals)) /\ loans \in Seq(Range(loans)))'
  BY DEF BooksInv, LendingTypeOK
<1>2. CollateralsOK'
  BY DEF BooksInv, LendingTypeOK, CollateralsOK
<1>3. LoansOK'
  BY DEF BooksInv, LendingTypeOK, LoansOK
<1>4. StatusFollowsDebt'
  BY DEF BooksInv, StatusFollowsDebt
<1> QED
  BY <1>1, <1>2, <1>3, <1>4 DEF BooksInv, LendingTypeOK

\* The parameters stay in range under every setter of the admin.
LEMMA AdminKeepsBooks ==
  ASSUME BooksInv, AdminStep, UNCHANGED <<govVars, oracleVars>>
  PROVE  BooksInv'
<1> USE GovAssumption, LendingAssumption
<1>1. now' \in Nat /\ now' >= now
  BY DEF BooksInv, govVars
<1>2. balance \in [Accounts -> Nat] /\ ParamsOK
  BY DEF BooksInv, LendingTypeOK
<1>3. ASSUME NEW a \in Addr, NEW r \in Recipients, EmergencyWithdraw(a, r) PROVE BooksInv'
  <2>1. (balance \in [Accounts -> Nat])'
    BY <1>2, <1>3 DEF EmergencyWithdraw, Accounts
  <2> QED
    BY <1>1, <1>2, <1>3, <2>1, RecordsKept DEF EmergencyWithdraw, ParamsOK, paramVars
<1>4. ASSUME NEW a \in Addr, NEW v \in Ltvs, SetLtv(a, v) PROVE BooksInv'
  BY <1>1, <1>2, <1>4, RecordsKept DEF SetLtv, ParamsOK
<1>5. ASSUME NEW a \in Addr, NEW v \in Thresholds, SetLiquidationThreshold(a, v) PROVE BooksInv'
  BY <1>1, <1>2, <1>5, RecordsKept DEF SetLiquidationThreshold, ParamsOK
<1>6. ASSUME NEW a \in Addr, NEW v \in CloseFactors, SetCloseFactor(a, v) PROVE BooksInv'
  BY <1>1, <1>2, <1>6, RecordsKept DEF SetCloseFactor, ParamsOK
<1>7. ASSUME NEW a \in Addr, NEW f \in Fees, NEW g \in Fees, UpdateFeeConfig(a, f, g)
      PROVE  BooksInv'
  BY <1>1, <1>2, <1>7, RecordsKept DEF UpdateFeeConfig, ParamsOK
<1>8. ASSUME NEW a \in Addr, NEW t \in AnimalTypes, NEW v \in Caps, SetAnimalCap(a, t, v)
      PROVE  BooksInv'
  BY <1>1, <1>2, <1>8, RecordsKept DEF SetAnimalCap, ParamsOK
<1> QED
  BY <1>3, <1>4, <1>5, <1>6, <1>7, <1>8 DEF AdminStep

-----------------------------------------------------------------------------
\* Registering livestock adds one well-formed, unpledged record.
LEMMA RegisterLivestockKeepsBooks ==
  ASSUME BooksInv, UNCHANGED <<govVars, oracleVars>>,
         NEW o \in Farmers, NEW t \in AnimalTypes, NEW n \in Counts, NEW v \in Values,
         RegisterLivestock(o, t, n, v)
  PROVE  BooksInv'
<1> DEFINE CollateralRecord ==
             [owner : Addr, animalType : AnimalTypes, count : Nat \ {0},
              appraisedValue : Nat \ {0}, loanId : 0 .. Len(loans), history : Seq(Nat)]
<1> DEFINE new == [owner |-> o, animalType |-> t, count |-> n, appraisedValue |-> v,
                   loanId |-> 0, history |-> <<v>>]
<1> USE LendingAssumption
<1>1. /\ collaterals' = Append(collaterals, new)
      /\ UNCHANGED <<now, paramVars, loans, balance>>
      /\ v \in Nat \ {0} /\ n \in Nat \ {0} /\ o \in Addr
  BY DEF RegisterLivestock, govVars
<1>2. collaterals \in Seq(Range(collaterals)) /\ CollateralsOK /\ Len(loans) \in Nat
  BY DEF BooksInv, LendingTypeOK
<1>3. /\ (collaterals \in Seq(Range(collaterals)))'
      /\ DOMAIN collaterals' = 1 .. (Len(collaterals) + 1) /\ Len(collaterals) \in Nat
      /\ DOMAIN collaterals = 1 .. Len(collaterals)
      /\ \A c \in 1 .. Len(collaterals) : collaterals'[c] = collaterals[c]
      /\ collaterals'[Len(collaterals) + 1] = new
  <2> HIDE DEF new
  <2> QED
    BY <1>1, <1>2, Appended
<1>4. CollateralsOK'
  <2> SUFFICES ASSUME NEW c \in 1 .. (Len(collaterals) + 1)
               PROVE  /\ collaterals'[c] \in CollateralRecord
                      /\ 1 <= Len(collaterals'[c].history) /\ Len(collaterals'[c].history) <= 3
                      /\ collaterals'[c].appraisedValue
                           = collaterals'[c].history[Len(collaterals'[c].history)]
    BY <1>1, <1>3 DEF CollateralsOK
  <2>1. CASE c \in 1 .. Len(collaterals)
    BY <1>2, <1>3, <2>1 DEF CollateralsOK
  <2>2. CASE c = Len(collaterals) + 1
    BY <1>1, <1>2, <1>3, <2>2
  <2> QED
    BY <1>3, <2>1, <2>2
<1>5. (ParamsOK /\ balance \in [Accounts -> Nat] /\ loans \in Seq(Range(loans)))'
  BY <1>1 DEF BooksInv, LendingTypeOK, ParamsOK, paramVars
<1>6. LoansOK' /\ StatusFollowsDebt' /\ now' \in Nat
  BY <1>1 DEF BooksInv, LendingTypeOK, LoansOK, StatusFollowsDebt
<1> QED
  BY <1>3, <1>4, <1>5, <1>6 DEF BooksInv, LendingTypeOK

\* A new appraisal joins at most two kept ones and is the newest.
LEMMA HistoryRolls ==
  ASSUME NEW old \in Seq(Nat), 1 <= Len(old) /\ Len(old) <= 3, NEW v \in Nat
  PROVE  /\ Append(NewestTwo(old), v) \in Seq(Nat)
         /\ 1 <= Len(Append(NewestTwo(old), v)) /\ Len(Append(NewestTwo(old), v)) <= 3
         /\ Append(NewestTwo(old), v)[Len(Append(NewestTwo(old), v))] = v
<1>1. NewestTwo(old) \in Seq(Nat) /\ 1 <= Len(NewestTwo(old)) /\ Len(NewestTwo(old)) <= 2
  <2>1. CASE Len(old) >= 3
    <3>1. \A i \in Len(old) - 1 .. Len(old) : old[i] \in Nat
      BY <2>1
    <3>2. /\ SubSeq(old, Len(old) - 1, Len(old)) \in Seq(Nat)
          /\ Len(SubSeq(old, Len(old) - 1, Len(old))) = 2
      BY <3>1, SubSeqProperties
    <3> QED
      BY <2>1, <3>2 DEF NewestTwo
  <2>2. CASE Len(old) < 3
    BY <2>2 DEF NewestTwo
  <2> QED
    BY <2>1, <2>2
<1>2. \A kept \in Seq(Nat) : 1 <= Len(kept) /\ Len(kept) <= 2 =>
        /\ Append(kept, v) \in Seq(Nat)
        /\ 1 <= Len(Append(kept, v)) /\ Len(Append(kept, v)) <= 3
        /\ Append(kept, v)[Len(Append(kept, v))] = v
  <2> SUFFICES ASSUME NEW kept \in Seq(Nat), 1 <= Len(kept), Len(kept) <= 2
               PROVE  /\ Append(kept, v) \in Seq(Nat)
                      /\ 1 <= Len(Append(kept, v)) /\ Len(Append(kept, v)) <= 3
                      /\ Append(kept, v)[Len(Append(kept, v))] = v
    OBVIOUS
  <2>1. /\ Append(kept, v) \in Seq(Nat) /\ Len(Append(kept, v)) = Len(kept) + 1
        /\ Append(kept, v)[Len(kept) + 1] = v
    BY AppendProperties
  <2>2. 1 <= Len(kept) + 1 /\ Len(kept) + 1 <= 3
    OBVIOUS
  <2> QED
    BY <2>1, <2>2
<1> QED
  BY <1>1, <1>2

\* A revaluation keeps at most three appraisals, the newest of them in force.
LEMMA UpdateAppraisalKeepsBooks ==
  ASSUME BooksInv, UNCHANGED <<govVars, oracleVars>>,
         NEW o \in Farmers, NEW id, NEW v \in Values, UpdateAppraisal(o, id, v)
  PROVE  BooksInv'
<1> DEFINE CollateralRecord ==
             [owner : Addr, animalType : AnimalTypes, count : Nat \ {0},
              appraisedValue : Nat \ {0}, loanId : 0 .. Len(loans), history : Seq(Nat)]
<1> DEFINE old  == collaterals[id].history
<1> USE LendingAssumption
<1>1. /\ collaterals' = [collaterals EXCEPT ![id].appraisedValue = v,
                                            ![id].history = Append(NewestTwo(@), v)]
      /\ UNCHANGED <<now, paramVars, loans, balance>>
      /\ v \in Nat \ {0} /\ id \in DOMAIN collaterals
  BY DEF UpdateAppraisal, govVars
<1>2. collaterals \in Seq(Range(collaterals)) /\ CollateralsOK
  BY DEF BooksInv, LendingTypeOK
<1>3. old \in Seq(Nat) /\ 1 <= Len(old) /\ Len(old) <= 3
  BY <1>1, <1>2 DEF CollateralsOK
<1>4. /\ Append(NewestTwo(old), v) \in Seq(Nat)
      /\ 1 <= Len(Append(NewestTwo(old), v)) /\ Len(Append(NewestTwo(old), v)) <= 3
      /\ Append(NewestTwo(old), v)[Len(Append(NewestTwo(old), v))] = v
  <2>1. v \in Nat
    BY <1>1
  <2> QED
    BY <1>3, <2>1, HistoryRolls
<1>6. (collaterals \in Seq(Range(collaterals)))'
  <2>1. DOMAIN collaterals' = DOMAIN collaterals
        /\ collaterals' = [c \in DOMAIN collaterals' |-> collaterals'[c]]
    BY <1>1
  <2> QED
    BY <1>2, <2>1, Replaced
<1>7. CollateralsOK'
  <2> SUFFICES ASSUME NEW c \in DOMAIN collaterals
               PROVE  /\ collaterals'[c] \in CollateralRecord
                      /\ 1 <= Len(collaterals'[c].history) /\ Len(collaterals'[c].history) <= 3
                      /\ collaterals'[c].appraisedValue
                           = collaterals'[c].history[Len(collaterals'[c].history)]
    BY <1>1 DEF CollateralsOK
  <2>1. CASE c # id
    BY <1>1, <1>2, <2>1 DEF CollateralsOK
  <2>2. CASE c = id
    <3>1. collaterals[c] \in CollateralRecord
      BY <1>2 DEF CollateralsOK
    <3>2. collaterals'[c] = [collaterals[c] EXCEPT !.appraisedValue = v,
                                                  !.history = Append(NewestTwo(old), v)]
      BY <1>1, <2>2
    <3> QED
      BY <1>1, <1>4, <3>1, <3>2
  <2> QED
    BY <2>1, <2>2
<1>8. (ParamsOK /\ balance \in [Accounts -> Nat] /\ loans \in Seq(Range(loans)))'
  BY <1>1 DEF BooksInv, LendingTypeOK, ParamsOK, paramVars
<1>9. LoansOK' /\ StatusFollowsDebt' /\ now' \in Nat
  BY <1>1 DEF BooksInv, LendingTypeOK, LoansOK, StatusFollowsDebt
<1> QED
  BY <1>6, <1>7, <1>8, <1>9 DEF BooksInv, LendingTypeOK
-----------------------------------------------------------------------------
\* A new loan is active, owes its whole principal and charges no interest yet.
LEMMA RequestLoanKeepsBooks ==
  ASSUME BooksInv, UNCHANGED <<govVars, oracleVars>>,
         NEW b \in Farmers, NEW ids \in CollateralLists, NEW x \in Amounts,
         RequestLoan(b, ids, x), CollateralValue(ids) \in Nat
  PROVE  BooksInv'
<1> DEFINE CollateralRecord(n) ==
             [owner : Addr, animalType : AnimalTypes, count : Nat \ {0},
              appraisedValue : Nat \ {0}, loanId : 0 .. n, history : Seq(Nat)]
           total == CollateralValue(ids)
           fee   == (x * origFee) \div BPS
           new   == [borrower |-> b, collateralIds |-> ids, totalCollateralValue |-> total,
                     principal |-> x, outstanding |-> x, interestAccrued |-> 0,
                     lastInterestTime |-> now, status |-> "Active"]
<1>1. /\ loans' = Append(loans, new)
      /\ collaterals' = [c \in DOMAIN collaterals |->
           IF c \in Range(ids) THEN Pledge(collaterals[c], Len(loans) + 1)
                               ELSE collaterals[c]]
      /\ balance' = [balance EXCEPT ![Contract] = @ - x, ![Treasury] = @ + fee,
                                    ![b] = @ + (x - fee)]
      /\ x > 0 /\ balance[Contract] >= x
      /\ UNCHANGED <<now, paramVars>>
  BY DEF RequestLoan, govVars
<1>2. x \in Nat /\ b \in Addr /\ ids \in Seq(Nat)
  BY LendingAssumption
<1>3. /\ now \in Nat /\ ParamsOK /\ balance \in [Accounts -> Nat]
      /\ collaterals \in Seq(Range(collaterals)) /\ CollateralsOK
      /\ loans \in Seq(Range(loans)) /\ LoansOK /\ StatusFollowsDebt
  BY DEF BooksInv, LendingTypeOK
<1>4. /\ (loans \in Seq(Range(loans)))'
      /\ DOMAIN loans' = 1 .. (Len(loans) + 1) /\ Len(loans) \in Nat
      /\ Len(loans') = Len(loans) + 1
      /\ DOMAIN loans = 1 .. Len(loans)
      /\ \A l \in 1 .. Len(loans) : loans'[l] = loans[l]
      /\ loans'[Len(loans) + 1] = new
  <2> HIDE DEF new
  <2> QED
    BY <1>1, <1>3, Appended
<1>5. LoansOK'
  <2>1. ASSUME NEW l \in 1 .. Len(loans)
        PROVE  loans'[l] \in [borrower : Addr, collateralIds : Seq(Nat),
                              totalCollateralValue : Nat,
                              principal : Nat, outstanding : Nat, interestAccrued : Nat,
                              lastInterestTime : 0 .. now',
                              status : {"Active", "Repaid", "Liquidated"}]
    BY <1>1, <1>3, <1>4, <2>1 DEF LoansOK
  <2>2. new \in [borrower : Addr, collateralIds : Seq(Nat), totalCollateralValue : Nat,
                 principal : Nat, outstanding : Nat, interestAccrued : Nat,
                 lastInterestTime : 0 .. now', status : {"Active", "Repaid", "Liquidated"}]
    BY <1>1, <1>2, <1>3
  <2> HIDE DEF new, total
  <2> QED
    BY <1>4, <2>1, <2>2 DEF LoansOK
<1>6. StatusFollowsDebt'
  BY <1>1, <1>2, <1>3, <1>4 DEF StatusFollowsDebt
<1>7. (collaterals \in Seq(Range(collaterals)))' /\ DOMAIN collaterals' = DOMAIN collaterals
  BY <1>1, <1>3, Replaced
<1>8. CollateralsOK'
  <2> SUFFICES ASSUME NEW c \in DOMAIN collaterals
               PROVE  /\ collaterals'[c] \in CollateralRecord(Len(loans) + 1)
                      /\ 1 <= Len(collaterals'[c].history) /\ Len(collaterals'[c].history) <= 3
                      /\ collaterals'[c].appraisedValue
                           = collaterals'[c].history[Len(collaterals'[c].history)]
    BY <1>4, <1>7 DEF CollateralsOK
  <2>1. /\ collaterals[c] \in CollateralRecord(Len(loans))
        /\ 1 <= Len(collaterals[c].history) /\ Len(collaterals[c].history) <= 3
        /\ collaterals[c].appraisedValue = collaterals[c].history[Len(collaterals[c].history)]
    BY <1>3 DEF CollateralsOK
  <2>2. CASE c \in Range(ids)
    <3>1. collaterals'[c] = [collaterals[c] EXCEPT !.loanId = Len(loans) + 1]
      BY <1>1, <2>2 DEF Pledge
    <3>2. Len(loans) + 1 \in 0 .. Len(loans) + 1
      BY <1>4
    <3> QED
      BY <2>1, <3>1, <3>2
  <2>3. CASE c \notin Range(ids)
    <3>1. collaterals'[c] = collaterals[c]
      BY <1>1, <2>3
    <3>2. 0 .. Len(loans) \subseteq 0 .. Len(loans) + 1
      BY <1>4
    <3> QED
      BY <2>1, <3>1, <3>2
  <2> QED
    BY <2>2, <2>3
<1>9. (balance \in [Accounts -> Nat])'
  <2>1. origFee \in Nat /\ BPS \in Nat \ {0} /\ origFee <= BPS
    BY <1>3, LendingAssumption DEF ParamsOK
  <2>2. fee \in 0 .. x
    BY <1>2, <2>1, Share
  <2> HIDE DEF fee
  <2>3. x - fee \in Nat /\ fee \in Nat
    BY <1>2, <2>2
  <2>4. balance[Contract] - x \in Nat
    BY <1>1, <1>2, <1>3 DEF Accounts
  <2> QED
    <3>1. balance[Treasury] + fee \in Nat /\ balance[b] + (x - fee) \in Nat
      BY <1>2, <1>3, <2>3 DEF Accounts
    <3>2. balance' = [balance EXCEPT ![Contract] = balance[Contract] - x,
                                     ![Treasury] = balance[Treasury] + fee,
                                     ![b] = balance[b] + (x - fee)]
      BY <1>1, <1>2, <1>3, LendingAssumption DEF Accounts
    <3> QED
      BY <1>2, <1>3, <2>4, <3>1, <3>2, ThreeMoves
<1>10. ParamsOK' /\ now' \in Nat
  BY <1>1, <1>3 DEF ParamsOK, paramVars
<1> QED
  BY <1>4, <1>5, <1>6, <1>7, <1>8, <1>9, <1>10 DEF BooksInv, LendingTypeOK

\* A repayment leaves an active loan with principal, or a repaid one with nothing.
LEMMA RepayLoanKeepsBooks ==
  ASSUME BooksInv, UNCHANGED <<govVars, oracleVars>>,
         NEW b \in Farmers, NEW id, NEW x \in Amounts, RepayLoan(b, id, x)
  PROVE  BooksInv'
<1> DEFINE loan      == loans[id]
           owed      == Interest(loan)
           repaid    == Min2(x, loan.outstanding + owed)
           part      == InterestPart(loan, repaid)
           fee       == InterestFee(loan, repaid)
           interest  == owed - part
           principal == loan.outstanding - (repaid - part)
           status    == IF principal = 0 /\ interest = 0 THEN "Repaid" ELSE loan.status
<1>1. /\ loans' = [loans EXCEPT ![id].outstanding = principal, ![id].interestAccrued = interest,
                                ![id].lastInterestTime = now, ![id].status = status]
      /\ balance' = [balance EXCEPT ![b] = @ - repaid, ![Contract] = @ + (repaid - fee),
                                    ![Treasury] = @ + fee]
      /\ id \in DOMAIN loans /\ loan.borrower = b /\ loan.status = "Active"
      /\ x > 0 /\ balance[b] >= repaid
      /\ UNCHANGED <<now, paramVars, collaterals>>
  BY DEF RepayLoan, RepayAccepted, MayRepay, govVars
<1>2. x \in Nat \ {0} /\ b \in Addr
  BY <1>1, LendingAssumption
<1>3. /\ now \in Nat /\ ParamsOK /\ balance \in [Accounts -> Nat]
      /\ collaterals \in Seq(Range(collaterals)) /\ CollateralsOK
      /\ loans \in Seq(Range(loans)) /\ LoansOK /\ StatusFollowsDebt
  BY DEF BooksInv, LendingTypeOK
<1>4. /\ loan.outstanding \in Nat /\ owed \in Nat /\ repaid \in Nat
      /\ part \in 0 .. repaid /\ part \in 0 .. owed /\ repaid - part \in 0 .. loan.outstanding
      /\ repaid - part = loan.outstanding => part = owed \/ loan.outstanding = 0
      /\ fee \in 0 .. part
  <2>1. loan.outstanding \in Nat /\ owed \in Nat
    BY <1>1, <1>3, InterestIsNatural DEF LoansOK
  <2> QED
    BY <1>1, <1>2, <2>1, RepaymentSplits
<1>5. loan \in [borrower : Addr, collateralIds : Seq(Nat),
                totalCollateralValue : Nat,
                principal : Nat, outstanding : Nat, interestAccrued : Nat,
                lastInterestTime : 0 .. now, status : {"Active", "Repaid", "Liquidated"}]
      /\ 0 < loan.outstanding /\ loan.outstanding <= loan.principal
  BY <1>1, <1>3 DEF LoansOK, StatusFollowsDebt
<1> HIDE DEF owed, repaid, part, fee
<1>6. /\ principal \in Nat /\ interest \in Nat /\ principal <= loan.outstanding
      /\ principal = 0 => interest = 0
  <2>1. /\ loan.outstanding \in Nat /\ owed \in Nat /\ repaid \in Nat /\ part \in Nat
        /\ part <= owed /\ 0 <= repaid - part /\ repaid - part <= loan.outstanding
        /\ repaid - part = loan.outstanding => part = owed
    BY <1>4, <1>5
  <2> DEFINE due == loan.outstanding
  <2> HIDE DEF due
  <2>2. due \in Nat /\ 0 <= repaid - part /\ repaid - part <= due
        /\ (repaid - part = due => part = owed)
    BY <2>1 DEF due
  <2>3. due - (repaid - part) \in Nat /\ due - (repaid - part) <= due /\ owed - part \in Nat
        /\ (due - (repaid - part) = 0 => owed - part = 0)
    BY <2>1, <2>2
  <2> QED
    BY <2>3 DEF due
<1> HIDE DEF principal, interest
<1>7. /\ loans'[id] = [loan EXCEPT !.outstanding = principal, !.interestAccrued = interest,
                                   !.lastInterestTime = now, !.status = status]
      /\ DOMAIN loans' = DOMAIN loans
      /\ \A l \in DOMAIN loans : l # id => loans'[l] = loans[l]
      /\ loans' = [l \in DOMAIN loans' |-> loans'[l]]
  BY <1>1
<1>8. (loans \in Seq(Range(loans)))' /\ Len(loans') = Len(loans)
  BY <1>3, <1>7, Replaced
<1>9. /\ loans'[id] \in [borrower : Addr, collateralIds : Seq(Nat),
                totalCollateralValue : Nat,
                principal : Nat, outstanding : Nat, interestAccrued : Nat,
                lastInterestTime : 0 .. now, status : {"Active", "Repaid", "Liquidated"}]
      /\ loans'[id].outstanding = principal /\ loans'[id].interestAccrued = interest
      /\ loans'[id].principal = loan.principal /\ loans'[id].status = status
  <2>1. status \in {"Active", "Repaid", "Liquidated"} /\ now \in 0 .. now
    BY <1>1, <1>3
  <2>2. loans'[id] = [loan EXCEPT !.outstanding = principal, !.interestAccrued = interest,
                                  !.lastInterestTime = now, !.status = status]
    BY <1>7
  <2> HIDE DEF loan, status
  <2> QED
    BY <1>5, <1>6, <2>1, <2>2
<1>10. LoansOK'
  <2> SUFFICES ASSUME NEW l \in DOMAIN loans
               PROVE  loans'[l] \in [borrower : Addr, collateralIds : Seq(Nat),
                        totalCollateralValue : Nat,
                        principal : Nat, outstanding : Nat, interestAccrued : Nat,
                        lastInterestTime : 0 .. now',
                        status : {"Active", "Repaid", "Liquidated"}]
    BY <1>7 DEF LoansOK
  <2>1. CASE l = id
    BY <1>1, <1>9, <2>1
  <2>2. CASE l # id
    BY <1>1, <1>3, <1>7, <2>2 DEF LoansOK
  <2> QED
    BY <2>1, <2>2
<1>11. StatusFollowsDebt'
  <2> SUFFICES ASSUME NEW l \in DOMAIN loans
               PROVE  /\ loans'[l].status = "Active"
                           => /\ 0 < loans'[l].outstanding
                              /\ loans'[l].outstanding <= loans'[l].principal
                      /\ loans'[l].status = "Repaid"
                           => loans'[l].outstanding = 0 /\ loans'[l].interestAccrued = 0
                      /\ loans'[l].status = "Liquidated" => loans'[l].outstanding = 0
    BY <1>7 DEF StatusFollowsDebt
  <2>1. CASE l = id
    BY <1>1, <1>5, <1>6, <1>9, <2>1
  <2>2. CASE l # id
    BY <1>3, <1>7, <2>2 DEF StatusFollowsDebt
  <2> QED
    BY <2>1, <2>2
<1>12. (balance \in [Accounts -> Nat])'
  <2>1. fee \in Nat /\ repaid \in Nat /\ repaid - fee \in Nat
    BY <1>4
  <2>2. balance[b] - repaid \in Nat
    BY <1>1, <1>2, <1>3, <2>1 DEF Accounts
  <2>3. balance[Contract] + (repaid - fee) \in Nat
    BY <1>3, <2>1 DEF Accounts
  <2>4. balance' = [balance EXCEPT ![Contract] = balance[Contract] + (repaid - fee),
                                   ![Treasury] = balance[Treasury] + fee,
                                   ![b] = balance[b] - repaid]
    BY <1>1, <1>2, <1>3, LendingAssumption DEF Accounts
  <2> QED
    <3>1. balance[Treasury] + fee \in Nat
      BY <1>3, <2>1 DEF Accounts
    <3> QED
      BY <1>2, <1>3, <2>2, <2>3, <2>4, <3>1, ThreeMoves
<1>13. (CollateralsOK /\ collaterals \in Seq(Range(collaterals)))'
  BY <1>1, <1>3, <1>8 DEF CollateralsOK
<1>14. ParamsOK' /\ now' \in Nat
  BY <1>1, <1>3 DEF ParamsOK, paramVars
<1> QED
  BY <1>8, <1>10, <1>11, <1>12, <1>13, <1>14 DEF BooksInv, LendingTypeOK

\* A liquidation takes at most a share of the principal and touches nothing else.
LEMMA LiquidateKeepsBooks ==
  ASSUME BooksInv, UNCHANGED <<govVars, oracleVars>>,
         NEW z \in Addr, NEW id, NEW x \in Amounts, Liquidate(z, id, x)
  PROVE  BooksInv'
<1> DEFINE loan      == loans[id]
           principal == loan.outstanding - x
           status    == IF loan.outstanding = x THEN "Liquidated" ELSE loan.status
<1>1. /\ loans' = [loans EXCEPT ![id].outstanding = principal, ![id].status = status]
      /\ balance' = [balance EXCEPT ![z] = @ - x, ![Contract] = @ + x]
      /\ id \in DOMAIN loans /\ loan.status = "Active"
      /\ x > 0 /\ x <= MaxLiquidation(loan) /\ balance[z] >= x
      /\ UNCHANGED <<now, paramVars, collaterals>>
  BY DEF Liquidate, govVars
<1>2. x \in Nat \ {0}
  BY <1>1, LendingAssumption
<1>3. /\ now \in Nat /\ ParamsOK /\ balance \in [Accounts -> Nat]
      /\ collaterals \in Seq(Range(collaterals)) /\ CollateralsOK
      /\ loans \in Seq(Range(loans)) /\ LoansOK /\ StatusFollowsDebt
  BY DEF BooksInv, LendingTypeOK
<1>4. loan \in [borrower : Addr, collateralIds : Seq(Nat),
                totalCollateralValue : Nat,
                principal : Nat, outstanding : Nat, interestAccrued : Nat,
                lastInterestTime : 0 .. now, status : {"Active", "Repaid", "Liquidated"}]
      /\ 0 < loan.outstanding /\ loan.outstanding <= loan.principal
  BY <1>1, <1>3 DEF LoansOK, StatusFollowsDebt
<1>5. x <= loan.outstanding
  BY <1>1, <1>2, <1>4, LiquidationIsPartial
<1>6. principal \in Nat /\ principal <= loan.outstanding /\ (principal = 0 <=> loan.outstanding = x)
  BY <1>2, <1>4, <1>5
<1>7. /\ loans'[id] = [loan EXCEPT !.outstanding = principal, !.status = status]
      /\ DOMAIN loans' = DOMAIN loans
      /\ \A l \in DOMAIN loans : l # id => loans'[l] = loans[l]
      /\ loans' = [l \in DOMAIN loans' |-> loans'[l]]
  BY <1>1
<1>8. (loans \in Seq(Range(loans)))' /\ Len(loans') = Len(loans)
  BY <1>3, <1>7, Replaced
<1>9. /\ loans'[id] \in [borrower : Addr, collateralIds : Seq(Nat),
                totalCollateralValue : Nat,
                principal : Nat, outstanding : Nat, interestAccrued : Nat,
                lastInterestTime : 0 .. now, status : {"Active", "Repaid", "Liquidated"}]
      /\ loans'[id].outstanding = principal
      /\ loans'[id].principal = loan.principal /\ loans'[id].status = status
  <2>1. status \in {"Active", "Repaid", "Liquidated"}
    BY <1>1
  <2>2. loans'[id] = [loan EXCEPT !.outstanding = principal, !.status = status]
    BY <1>7
  <2> HIDE DEF loan, principal, status
  <2> QED
    BY <1>4, <1>6, <2>1, <2>2
<1>10. LoansOK'
  <2> SUFFICES ASSUME NEW l \in DOMAIN loans
               PROVE  loans'[l] \in [borrower : Addr, collateralIds : Seq(Nat),
                        totalCollateralValue : Nat,
                        principal : Nat, outstanding : Nat, interestAccrued : Nat,
                        lastInterestTime : 0 .. now',
                        status : {"Active", "Repaid", "Liquidated"}]
    BY <1>7 DEF LoansOK
  <2>1. CASE l = id
    BY <1>1, <1>9, <2>1
  <2>2. CASE l # id
    BY <1>1, <1>3, <1>7, <2>2 DEF LoansOK
  <2> QED
    BY <2>1, <2>2
<1>11. StatusFollowsDebt'
  <2> SUFFICES ASSUME NEW l \in DOMAIN loans
               PROVE  /\ loans'[l].status = "Active"
                           => /\ 0 < loans'[l].outstanding
                              /\ loans'[l].outstanding <= loans'[l].principal
                      /\ loans'[l].status = "Repaid"
                           => loans'[l].outstanding = 0 /\ loans'[l].interestAccrued = 0
                      /\ loans'[l].status = "Liquidated" => loans'[l].outstanding = 0
    BY <1>7 DEF StatusFollowsDebt
  <2>1. CASE l = id
    BY <1>1, <1>4, <1>6, <1>9, <2>1
  <2>2. CASE l # id
    BY <1>3, <1>7, <2>2 DEF StatusFollowsDebt
  <2> QED
    BY <2>1, <2>2
<1>12. (balance \in [Accounts -> Nat])'
  <2>1. /\ z \in Accounts /\ Contract \in Accounts /\ z # Contract
        /\ balance[z] \in Nat /\ balance[Contract] \in Nat /\ balance[z] >= x
    BY <1>1, <1>3, LendingAssumption DEF Accounts
  <2>2. balance[z] - x \in Nat /\ balance[Contract] + x \in Nat
    BY <1>2, <2>1
  <2>3. balance' = [balance EXCEPT ![z] = balance[z] - x,
                                   ![Contract] = balance[Contract] + x]
    BY <1>1, <1>3, <2>1
  <2> QED
    BY <1>3, <2>1, <2>2, <2>3
<1>13. (CollateralsOK /\ collaterals \in Seq(Range(collaterals)))'
  BY <1>1, <1>3, <1>8 DEF CollateralsOK
<1>14. ParamsOK' /\ now' \in Nat
  BY <1>1, <1>3 DEF ParamsOK, paramVars
<1> QED
  BY <1>8, <1>10, <1>11, <1>12, <1>13, <1>14 DEF BooksInv, LendingTypeOK

-----------------------------------------------------------------------------
\* What is listed in a loan request has a value.
LEMMA ListedHasValue ==
  ASSUME IInv, NEW b, NEW ids \in CollateralLists, NEW x, RequestLoan(b, ids, x)
  PROVE  /\ Len(ids) > 0 /\ Range(ids) \subseteq DOMAIN collaterals
         /\ CollateralValue(ids) \in Nat \ {0}
<1>1. Len(ids) > 0 /\ Range(ids) \subseteq DOMAIN collaterals
  BY DEF RequestLoan, Range
<1>2. ids \in Seq(Nat)
  BY LendingAssumption
<1> QED
  BY <1>1, <1>2, CollateralValueIsPositive DEF IInv, BooksInv, LendingTypeOK

\* Every step keeps the books.
LEMMA StepBooks ==
  ASSUME IInv, [Next]_vars
  PROVE  BooksInv'
<1>0. BooksInv
  BY DEF IInv
<1>1. now \in Nat
  BY <1>0 DEF BooksInv
<1>2. CASE UNCHANGED vars
  BY <1>0, <1>2 DEF vars, govVars, lendingVars, paramVars, recordVars, BooksInv, LendingTypeOK,
       ParamsOK, CollateralsOK, LoansOK, StatusFollowsDebt
<1>3. CASE OracleNext /\ UNCHANGED lendingVars
  <2>1. now' \in Nat /\ now' >= now
    BY <1>0, <1>1, TimeMovesOn
  <2>2. UNCHANGED recordVars /\ ParamsOK' /\ (balance \in [Accounts -> Nat])'
    BY <1>0, <1>3 DEF lendingVars, paramVars, recordVars, BooksInv, LendingTypeOK, ParamsOK
  <2> QED
    BY <1>0, <2>1, <2>2, RecordsKept
<1>4. CASE AdminStep /\ UNCHANGED <<govVars, oracleVars>>
  BY <1>0, <1>4, AdminKeepsBooks
<1>5. CASE LoanStep /\ UNCHANGED <<govVars, oracleVars>>
  <2> USE <1>0, <1>5
  <2>1. ASSUME NEW o \in Farmers, NEW t \in AnimalTypes, NEW n \in Counts, NEW v \in Values,
               RegisterLivestock(o, t, n, v)
        PROVE  BooksInv'
    BY <2>1, RegisterLivestockKeepsBooks
  <2>2. ASSUME NEW o \in Farmers, NEW c \in 1 .. MaxCollaterals, NEW v \in Values,
               UpdateAppraisal(o, c, v)
        PROVE  BooksInv'
    BY <2>2, UpdateAppraisalKeepsBooks
  <2>3. ASSUME NEW o \in Farmers, NEW ids \in CollateralLists, NEW x \in Amounts,
               RequestLoan(o, ids, x)
        PROVE  BooksInv'
    BY <2>3, RequestLoanKeepsBooks, ListedHasValue
  <2>4. ASSUME NEW o \in Farmers, NEW l \in 1 .. MaxLoans, NEW x \in Amounts,
               RepayLoan(o, l, x)
        PROVE  BooksInv'
    BY <2>4, RepayLoanKeepsBooks
  <2>5. ASSUME NEW z \in Addr, NEW l \in 1 .. MaxLoans, NEW x \in Amounts,
               Liquidate(z, l, x)
        PROVE  BooksInv'
    BY <2>5, LiquidateKeepsBooks
  <2> QED
    BY <2>1, <2>2, <2>3, <2>4, <2>5 DEF LoanStep
<1> QED
  BY <1>0, <1>2, <1>3, <1>4, <1>5 DEF Next

\* Loans keep their collateral and never owe more than before; collateral keeps its animals.
LEMMA RecordsStay ==
  ASSUME IInv, [Next]_vars
  PROVE  /\ \A l \in DOMAIN loans :
              /\ l \in DOMAIN loans' /\ loans'[l].collateralIds = loans[l].collateralIds
              /\ loans'[l].outstanding <= loans[l].outstanding
         /\ \A c \in DOMAIN collaterals :
              c \in DOMAIN collaterals' /\ collaterals'[c].count = collaterals[c].count
<1> DEFINE LoansStay ==
             \A l \in DOMAIN loans :
               /\ l \in DOMAIN loans' /\ loans'[l].collateralIds = loans[l].collateralIds
               /\ loans'[l].outstanding <= loans[l].outstanding
           CollateralStays ==
             \A c \in DOMAIN collaterals :
               c \in DOMAIN collaterals' /\ collaterals'[c].count = collaterals[c].count
           LoanRecord == [borrower : Addr, collateralIds : Seq(Nat),
                          totalCollateralValue : Nat,
                          principal : Nat, outstanding : Nat, interestAccrued : Nat,
                          lastInterestTime : 0 .. now,
                          status : {"Active", "Repaid", "Liquidated"}]
<1>1. /\ BooksInv /\ loans \in Seq(Range(loans)) /\ collaterals \in Seq(Range(collaterals))
      /\ \A l \in DOMAIN loans : loans[l] \in LoanRecord
  BY DEF IInv, BooksInv, LendingTypeOK, LoansOK
<1>2. ASSUME UNCHANGED loans PROVE LoansStay
  BY <1>1, <1>2
<1>3. ASSUME UNCHANGED collaterals PROVE CollateralStays
  BY <1>3
<1>4. ASSUME NEW o \in Farmers, NEW t \in AnimalTypes, NEW n \in Counts, NEW v \in Values,
             RegisterLivestock(o, t, n, v)
      PROVE  CollateralStays /\ UNCHANGED loans
  <2>1. \E new : collaterals' = Append(collaterals, new)
    BY <1>4 DEF RegisterLivestock
  <2>2. \A c \in DOMAIN collaterals : c \in DOMAIN collaterals' /\ collaterals'[c] = collaterals[c]
    BY <1>1, <2>1, Appended
  <2> QED
    BY <1>4, <2>2 DEF RegisterLivestock
<1>5. ASSUME NEW o \in Farmers, NEW id, NEW v \in Values, UpdateAppraisal(o, id, v)
      PROVE  CollateralStays /\ UNCHANGED loans
  BY <1>1, <1>5 DEF UpdateAppraisal, LendingTypeOK, CollateralsOK, BooksInv
<1>6. ASSUME NEW b \in Farmers, NEW ids \in CollateralLists, NEW x \in Amounts,
             RequestLoan(b, ids, x)
      PROVE  CollateralStays /\ LoansStay
  <2>1. \E new : loans' = Append(loans, new)
    BY <1>6 DEF RequestLoan
  <2>2. \A l \in DOMAIN loans : l \in DOMAIN loans' /\ loans'[l] = loans[l]
    BY <1>1, <2>1, Appended
  <2>3. LoansStay
    BY <1>1, <2>2
  <2>4. \A c \in DOMAIN collaterals :
          /\ c \in DOMAIN collaterals'
          /\ \/ collaterals'[c] = collaterals[c]
             \/ collaterals'[c] = [collaterals[c] EXCEPT !.loanId = Len(loans) + 1]
    BY <1>6 DEF RequestLoan, Pledge
  <2>5. CollateralStays
    <3> SUFFICES ASSUME NEW c \in DOMAIN collaterals
                 PROVE  collaterals'[c].count = collaterals[c].count
      BY <2>4
    <3>1. PICK rec : rec = collaterals[c]
      OBVIOUS
    <3>2. [rec EXCEPT !.loanId = Len(loans) + 1].count = rec.count
      BY <1>1, <3>1 DEF BooksInv, LendingTypeOK, CollateralsOK
    <3> QED
      BY <2>4, <3>1, <3>2
  <2> QED
    BY <2>3, <2>5
<1>7. ASSUME NEW b \in Farmers, NEW id \in 1 .. MaxLoans, NEW x \in Amounts,
             RepayLoan(b, id, x)
      PROVE  LoansStay /\ UNCHANGED collaterals
  <2> DEFINE loan      == loans[id]
             repaid    == Min2(x, loan.outstanding + Interest(loan))
             paid      == repaid - InterestPart(loan, repaid)
  <2>1. /\ id \in DOMAIN loans /\ x \in Nat \ {0}
        /\ \E i, s : loans' = [loans EXCEPT ![id].outstanding = loan.outstanding - paid,
                                            ![id].interestAccrued = i,
                                            ![id].lastInterestTime = now,
                                            ![id].status = s]
    <3> DEFINE interest == Interest(loan) - InterestPart(loan, repaid)
               status   == IF loan.outstanding - paid = 0 /\ interest = 0 THEN "Repaid"
                           ELSE loan.status
    <3>1. /\ id \in DOMAIN loans /\ x > 0
          /\ loans' = [loans EXCEPT ![id].outstanding = loan.outstanding - paid,
                                    ![id].interestAccrued = interest,
                                    ![id].lastInterestTime = now, ![id].status = status]
      BY <1>7 DEF RepayLoan, RepayAccepted, MayRepay
    <3>2. x \in Nat \ {0}
      BY <3>1, LendingAssumption
    <3> HIDE DEF interest, status, paid, loan
    <3> QED
      BY <3>1, <3>2, Zenon
  <2>2. paid \in 0 .. loan.outstanding
    BY <1>1, <2>1, RepaymentSplits
  <2>3. loan \in LoanRecord
    BY <1>1, <2>1
  <2> HIDE DEF paid
  <2>4. loan.outstanding - paid <= loan.outstanding
    BY <2>2, <2>3
  <2>5. LoansStay
    <3> SUFFICES ASSUME NEW l \in DOMAIN loans
                 PROVE  /\ l \in DOMAIN loans'
                        /\ loans'[l].collateralIds = loans[l].collateralIds
                        /\ loans'[l].outstanding <= loans[l].outstanding
      OBVIOUS
    <3>1. CASE l # id
      BY <1>1, <2>1, <3>1
    <3>2. CASE l = id
      <4>1. PICK i, s : loans' = [loans EXCEPT ![id].outstanding = loan.outstanding - paid,
                                               ![id].interestAccrued = i,
                                               ![id].lastInterestTime = now,
                                               ![id].status = s]
        BY <2>1
      <4>2. loans'[id] = [loan EXCEPT !.outstanding = loan.outstanding - paid,
                                      !.interestAccrued = i, !.lastInterestTime = now,
                                      !.status = s]
        BY <2>1, <4>1
      <4>3. loans'[id].outstanding = loan.outstanding - paid
            /\ loans'[id].collateralIds = loan.collateralIds
        <5> HIDE DEF loan
        <5> QED BY <2>3, <4>2
      <4> QED
        BY <2>1, <2>4, <3>2, <4>1, <4>3
    <3> QED
      BY <3>1, <3>2
  <2> QED
    BY <1>7, <2>5 DEF RepayLoan
<1>8. ASSUME NEW z \in Addr, NEW id \in 1 .. MaxLoans, NEW x \in Amounts, Liquidate(z, id, x)
      PROVE  LoansStay /\ UNCHANGED collaterals
  <2>1. /\ id \in DOMAIN loans /\ x \in Nat \ {0}
        /\ \E s : loans' = [loans EXCEPT ![id].outstanding = @ - x, ![id].status = s]
    <3> DEFINE status == IF loans[id].outstanding = x THEN "Liquidated" ELSE loans[id].status
    <3>1. /\ id \in DOMAIN loans /\ x > 0
          /\ loans' = [loans EXCEPT ![id].outstanding = @ - x, ![id].status = status]
      BY <1>8 DEF Liquidate
    <3>2. x \in Nat \ {0}
      BY <3>1, LendingAssumption
    <3> HIDE DEF status
    <3> QED
      BY <3>1, <3>2, Zenon
  <2>2. LoansStay
    <3> SUFFICES ASSUME NEW l \in DOMAIN loans
                 PROVE  /\ l \in DOMAIN loans'
                        /\ loans'[l].collateralIds = loans[l].collateralIds
                        /\ loans'[l].outstanding <= loans[l].outstanding
      OBVIOUS
    <3>1. PICK loan : loan = loans[l]
      OBVIOUS
    <3>2. loan \in LoanRecord
      BY <1>1, <3>1
    <3>3. PICK s : loans' = [loans EXCEPT ![id].outstanding = @ - x, ![id].status = s]
      BY <2>1
    <3>4. l \in DOMAIN loans' /\ loans'[l] = IF l = id THEN [loan EXCEPT !.outstanding = @ - x,
                                                                         !.status = s]
                                             ELSE loan
      BY <3>1, <3>3
    <3> QED
      BY <2>1, <3>1, <3>2, <3>4
  <2> QED
    BY <1>8, <2>2 DEF Liquidate
<1>9. CASE UNCHANGED vars \/ (OracleNext /\ UNCHANGED lendingVars)
  BY <1>2, <1>3, <1>9 DEF vars, lendingVars, recordVars
<1>10. CASE AdminStep
  <2>1. UNCHANGED <<loans, collaterals>>
    BY <1>10 DEF AdminStep, recordVars, EmergencyWithdraw, SetLtv, SetLiquidationThreshold,
         SetCloseFactor, UpdateFeeConfig, SetAnimalCap
  <2> QED
    BY <1>2, <1>3, <2>1
<1>11. CASE LoanStep
  <2>1. LoansStay /\ CollateralStays
    <3> HIDE DEF LoansStay, CollateralStays
    <3> QED
      BY <1>2, <1>3, <1>4, <1>5, <1>6, <1>7, <1>8, <1>11 DEF LoanStep
  <2> QED
    BY <2>1
<1> QED
  BY <1>9, <1>10, <1>11 DEF Next

\* Every step keeps the prices.
LEMMA StepPrices ==
  ASSUME IInv, [Next]_vars
  PROVE  PricesInv' /\ now' # 0
<1>1. PricesInv /\ now \in Nat \ {0}
  BY DEF IInv, BooksInv
<1>2. ASSUME UNCHANGED <<govVars, oracleVars>> PROVE PricesInv' /\ now' # 0
  BY <1>1, <1>2 DEF govVars, oracleVars, priceVars, PricesInv
<1>3. CASE OracleNext
  BY <1>1, <1>3, PricesKept
<1> QED
  BY <1>2, <1>3 DEF Next, vars

\* Every loan stays backed by collateral that exists.
LEMMA StepBacked ==
  ASSUME IInv, [Next]_vars
  PROVE  BackedInv'
<1>1. BackedInv /\ BooksInv /\ loans \in Seq(Range(loans))
  BY DEF IInv, BooksInv, LendingTypeOK
<1>2. /\ \A l \in DOMAIN loans :
           l \in DOMAIN loans' /\ loans'[l].collateralIds = loans[l].collateralIds
      /\ DOMAIN collaterals \subseteq DOMAIN collaterals'
  BY RecordsStay
<1>3. ASSUME NEW l \in DOMAIN loans
      PROVE  /\ Len(loans'[l].collateralIds) > 0
             /\ Range(loans'[l].collateralIds) \subseteq DOMAIN collaterals'
  BY <1>1, <1>2 DEF BackedInv
<1>4. CASE DOMAIN loans' = DOMAIN loans
  BY <1>3, <1>4 DEF BackedInv
<1>5. ASSUME NEW b \in Farmers, NEW ids \in CollateralLists, NEW x \in Amounts,
             RequestLoan(b, ids, x)
      PROVE  BackedInv'
  <2>1. PICK new : loans' = Append(loans, new) /\ new.collateralIds = ids
    BY <1>5 DEF RequestLoan
  <2>2. /\ DOMAIN loans' = 1 .. (Len(loans) + 1) /\ DOMAIN loans = 1 .. Len(loans)
        /\ Len(loans) \in Nat /\ loans'[Len(loans) + 1] = new
    BY <1>1, <2>1, Appended
  <2>3. Len(ids) > 0 /\ Range(ids) \subseteq DOMAIN collaterals'
    BY <1>2, <1>5, ListedHasValue
  <2> SUFFICES ASSUME NEW l \in 1 .. (Len(loans) + 1)
               PROVE  /\ Len(loans'[l].collateralIds) > 0
                      /\ Range(loans'[l].collateralIds) \subseteq DOMAIN collaterals'
    BY <2>2 DEF BackedInv
  <2>4. CASE l = Len(loans) + 1
    BY <2>1, <2>2, <2>3, <2>4
  <2>5. CASE l \in DOMAIN loans
    BY <1>3, <2>5
  <2> QED
    BY <2>2, <2>4, <2>5
<1>6. ASSUME NEW b \in Farmers, NEW id \in 1 .. MaxLoans, NEW x \in Amounts, RepayLoan(b, id, x)
      PROVE  DOMAIN loans' = DOMAIN loans
  BY <1>6 DEF RepayLoan
<1>7. ASSUME NEW z \in Addr, NEW id \in 1 .. MaxLoans, NEW x \in Amounts, Liquidate(z, id, x)
      PROVE  DOMAIN loans' = DOMAIN loans
  BY <1>7 DEF Liquidate
<1> QED
  BY <1>4, <1>5, <1>6, <1>7, LoansMoveOnlyByThree

\* The inductive invariant holds in every reachable state.
LEMMA InductiveInvariant == Spec => []IInv
<1>1. Init => IInv
  <2> SUFFICES ASSUME Init PROVE IInv
    OBVIOUS
  <2>1. BooksInv
    BY InitBooks
  <2>2. now # 0 /\ PricesInv /\ BackedInv
    BY <2>1, GovAssumption DEF Init, GovInit, OracleInit, LendingInit, PricesInv, BackedInv,
         BooksInv
  <2> QED
    BY <2>1, <2>2 DEF IInv
<1>2. ASSUME IInv, [Next]_vars PROVE IInv'
  BY <1>2, StepBooks, StepPrices, StepBacked DEF IInv
<1> QED
  BY <1>1, <1>2, PTL DEF Spec

\* Parameters, balances and records keep their types, and appraisal histories roll, in every
\* sequence of calls.
THEOREM LendingTypeCorrect == Spec => []LendingTypeOK
<1>1. IInv => LendingTypeOK
  BY DEF IInv, BooksInv
<1> QED
  BY <1>1, InductiveInvariant, PTL

\* An Active loan owes principal and a closed one does not, however repayments, interest and
\* liquidations interleave.
THEOREM StatusCorrect == Spec => []StatusFollowsDebt
<1>1. IInv => StatusFollowsDebt
  BY DEF IInv, BooksInv
<1> QED
  BY <1>1, InductiveInvariant, PTL

\* No liquidation closes a loan while the close factor is below one.
THEOREM LiquidationLeavesDebtCorrect == Spec => LiquidationLeavesDebt
<1>1. ASSUME BooksInv, [Next]_vars
      PROVE  \A l \in DOMAIN loans :
               loans[l].status = "Active" /\ loans'[l].status = "Liquidated"
                 => closeFactor = BPS
  <2> SUFFICES ASSUME NEW l \in DOMAIN loans,
                      loans[l].status = "Active", loans'[l].status = "Liquidated"
               PROVE  closeFactor = BPS
    OBVIOUS
  <2>0. "Active" # "Liquidated" /\ "Repaid" # "Liquidated"
    OBVIOUS
  <2>1. CASE UNCHANGED loans
    BY <2>0, <2>1
  <2>2. ASSUME NEW z \in Addr, NEW id \in 1 .. MaxLoans, NEW x \in Amounts, Liquidate(z, id, x)
        PROVE  closeFactor = BPS
    <3>1. loans' = [loans EXCEPT ![id].outstanding = @ - x,
                                 ![id].status = IF loans[id].outstanding = x THEN "Liquidated"
                                                ELSE @]
          /\ x > 0 /\ x <= MaxLiquidation(loans[id]) /\ id \in DOMAIN loans
      BY <2>2 DEF Liquidate
    <3>2. id = l
      BY <3>1
    <3>3. loans[id] \in [borrower : Addr, collateralIds : Seq(Nat),
                totalCollateralValue : Nat,
                principal : Nat, outstanding : Nat, interestAccrued : Nat,
                lastInterestTime : 0 .. now, status : {"Active", "Repaid", "Liquidated"}]
      BY <1>1, <3>1 DEF BooksInv, LendingTypeOK, LoansOK
    <3>4. loans[id].outstanding = x
      BY <2>0, <3>1, <3>2, <3>3
    <3>5. x \in Nat \ {0}
      BY <3>1, LendingAssumption
    <3> QED
      BY <1>1, <3>1, <3>4, <3>5, LiquidationIsPartial
  <2>3. ASSUME NEW b \in Farmers, NEW id \in 1 .. MaxLoans, NEW x \in Amounts,
               RepayLoan(b, id, x)
        PROVE  FALSE
    <3>1. loans[l] \in [borrower : Addr, collateralIds : Seq(Nat),
                totalCollateralValue : Nat,
                principal : Nat, outstanding : Nat, interestAccrued : Nat,
                lastInterestTime : 0 .. now, status : {"Active", "Repaid", "Liquidated"}]
      BY <1>1 DEF BooksInv, LendingTypeOK, LoansOK
    <3>2. loans'[l].status \in {loans[l].status, "Repaid"}
      BY <2>3, <3>1 DEF RepayLoan
    <3> QED
      BY <2>0, <3>2
  <2>4. ASSUME NEW b \in Farmers, NEW ids \in CollateralLists, NEW x \in Amounts,
               RequestLoan(b, ids, x)
        PROVE  FALSE
    <3>1. \E new : loans' = Append(loans, new)
      BY <2>4 DEF RequestLoan
    <3>2. loans'[l] = loans[l]
      BY <1>1, <3>1, Appended DEF BooksInv, LendingTypeOK
    <3> QED
      BY <2>0, <3>2
  <2>5. \/ UNCHANGED loans
        \/ \E z \in Addr, id \in 1 .. MaxLoans, x \in Amounts : Liquidate(z, id, x)
        \/ \E b \in Farmers, id \in 1 .. MaxLoans, x \in Amounts : RepayLoan(b, id, x)
        \/ \E b \in Farmers, ids \in CollateralLists, x \in Amounts : RequestLoan(b, ids, x)
    BY <1>1, LoansMoveOnlyByThree
  <2> QED
    BY <2>1, <2>2, <2>3, <2>4, <2>5
<1>2. IInv => BooksInv
  BY DEF IInv
<1> QED
  BY <1>1, <1>2, InductiveInvariant, PTL DEF Spec, LiquidationLeavesDebt

-----------------------------------------------------------------------------
\* The ledger's book has one entry per loan.
LEMMA BookShape ==
  ASSUME BooksInv
  PROVE  /\ DOMAIN Book = DOMAIN loans
         /\ Book \in Seq(Range(Book)) /\ Len(Book) = Len(loans)
         /\ \A l \in DOMAIN loans :
              Book[l] = [owed |-> loans[l].outstanding, open |-> loans[l].status = "Active"]
<1>1. loans \in Seq(Range(loans))
  BY DEF BooksInv, LendingTypeOK
<1>2. DOMAIN Book = DOMAIN loans /\ Book = [l \in DOMAIN Book |-> Book[l]]
  BY DEF Book
<1>3. Book \in Seq(Range(Book)) /\ Len(Book) = Len(loans)
  BY <1>1, <1>2, Replaced
<1> QED
  BY <1>2, <1>3 DEF Book

\* Requesting a loan opens it in the ledger.
LEMMA RequestLoanOpens ==
  ASSUME BooksInv, BooksInv', NEW b \in Farmers, NEW ids \in CollateralLists, NEW x \in Amounts,
         RequestLoan(b, ids, x)
  PROVE  Ledger!Next
<1> DEFINE entry == [owed |-> x, open |-> TRUE]
<1>1. /\ x \in Nat \ {0} /\ b \in Addr /\ x <= balance[Contract]
      /\ balance \in [Accounts -> Nat]
  BY LendingAssumption DEF RequestLoan, BooksInv, LendingTypeOK
<1>2. PICK new : loans' = Append(loans, new) /\ new.outstanding = x /\ new.status = "Active"
  BY DEF RequestLoan
<1>3. /\ Len(loans) \in Nat /\ DOMAIN loans = 1 .. Len(loans)
      /\ DOMAIN loans' = 1 .. (Len(loans) + 1) /\ Len(loans') = Len(loans) + 1
      /\ \A l \in 1 .. Len(loans) : loans'[l] = loans[l]
      /\ loans'[Len(loans) + 1] = new
  BY <1>2, Appended DEF BooksInv, LendingTypeOK
<1>4. /\ Book' = [l \in 1 .. (Len(loans) + 1) |->
                    [owed |-> loans'[l].outstanding, open |-> loans'[l].status = "Active"]]
      /\ Book = [l \in 1 .. Len(loans) |->
                    [owed |-> loans[l].outstanding, open |-> loans[l].status = "Active"]]
  BY <1>3 DEF Book
<1>5. /\ Append(Book, entry) \in Seq(Range(Append(Book, entry)))
      /\ DOMAIN Append(Book, entry) = 1 .. (Len(loans) + 1)
      /\ Len(Append(Book, entry)) = Len(loans) + 1
      /\ \A l \in 1 .. Len(loans) : Append(Book, entry)[l] = Book[l]
      /\ Append(Book, entry)[Len(loans) + 1] = entry
  <2>1. Book \in Seq(Range(Book)) /\ Len(Book) = Len(loans)
    BY BookShape
  <2> HIDE DEF entry
  <2> QED
    BY <2>1, Appended
<1>6. \A l \in 1 .. (Len(loans) + 1) : Book'[l] = Append(Book, entry)[l]
  <2>1. ASSUME NEW l \in 1 .. Len(loans) PROVE Book'[l] = Append(Book, entry)[l]
    BY <1>3, <1>4, <1>5, <2>1
  <2>2. Book'[Len(loans) + 1] = entry
    <3>1. Book'[Len(loans) + 1]
            = [owed |-> new.outstanding, open |-> new.status = "Active"]
      BY <1>3, <1>4
    <3>2. (new.status = "Active") = TRUE
      BY <1>2
    <3> QED
      BY <1>2, <3>1, <3>2, Zenon
  <2> HIDE DEF entry
  <2> QED
    BY <1>3, <1>5, <2>1, <2>2
<1>7. Book' = Append(Book, entry)
  <2> DEFINE longer == Append(Book, entry)
  <2>1. /\ Book' \in Seq(Range(Book')) /\ longer \in Seq(Range(longer))
        /\ Len(Book') = Len(loans) + 1 /\ Len(longer) = Len(loans) + 1
    <3>1. (loans \in Seq(Range(loans)))'
      BY DEF BooksInv, LendingTypeOK
    <3>2. DOMAIN Book' = DOMAIN loans' /\ Book' = [l \in DOMAIN Book' |-> Book'[l]]
      BY DEF Book
    <3>3. Book' \in Seq(Range(Book')) /\ Len(Book') = Len(loans')
      BY <3>1, <3>2, Replaced
    <3> QED
      BY <1>3, <1>5, <3>3
  <2> DEFINE entries == Range(Book') \cup Range(longer)
  <2> HIDE DEF longer
  <2>2. Book' \in Seq(entries) /\ longer \in Seq(entries)
    <3>1. Range(Book') \subseteq entries /\ Range(longer) \subseteq entries
      OBVIOUS
    <3> HIDE DEF entries
    <3> QED
      BY <2>1, <3>1, SeqMonotonic
  <2>3. \A l \in 1 .. Len(Book') : Book'[l] = longer[l]
    BY <1>6, <2>1 DEF longer
  <2> QED
    BY <2>1, <2>2, <2>3, SeqEqual DEF longer
<1>8. balance'[Contract] = balance[Contract] - x
  BY <1>1, LendingAssumption DEF RequestLoan, Accounts
<1>9. Ledger!Open(x) /\ x \in 1 .. balance[Contract]
  <2>1. balance[Contract] \in Nat
    BY <1>1 DEF Accounts
  <2> QED
    BY <1>1, <1>7, <1>8, <2>1 DEF Ledger!Open
<1> QED
  BY <1>9 DEF Ledger!Next

\* A payment that is booked against one active loan is a collection in the ledger.
LEMMA PaymentCollects ==
  ASSUME BooksInv, NEW id \in DOMAIN loans, NEW paid \in 0 .. loans[id].outstanding,
         loans[id].status = "Active", DOMAIN loans' = DOMAIN loans,
         \A l \in DOMAIN loans : l # id => loans'[l] = loans[l],
         loans'[id].outstanding = loans[id].outstanding - paid,
         (loans'[id].status = "Active") = (loans[id].outstanding # paid),
         balance'[Contract] >= balance[Contract] + paid
  PROVE  Ledger!Next
<1> DEFINE after == [owed |-> loans[id].outstanding - paid, open |-> loans[id].outstanding # paid]
<1>1. Book[id].owed = loans[id].outstanding /\ Book[id].open = TRUE /\ DOMAIN Book = DOMAIN loans
  <2>1. Book[id] = [owed |-> loans[id].outstanding, open |-> loans[id].status = "Active"]
    BY DEF Book
  <2>2. (loans[id].status = "Active") = TRUE
    OBVIOUS
  <2> QED
    BY <2>1, <2>2 DEF Book
<1>2. Book'[id] = after
  <2>1. Book'[id] = [owed |-> loans'[id].outstanding, open |-> loans'[id].status = "Active"]
    BY DEF Book
  <2> QED
    BY <2>1, Zenon
<1>3. \A l \in DOMAIN Book : l # id => Book'[l] = Book[l]
  BY DEF Book
<1>4. DOMAIN Book' = DOMAIN Book /\ Book' = [l \in DOMAIN Book |-> Book'[l]]
  BY DEF Book
<1>5. [Book EXCEPT ![id] = after] = [l \in DOMAIN Book |-> IF l = id THEN after ELSE Book[l]]
  BY Zenon
<1>6. Book' = [Book EXCEPT ![id] = after]
  <2> HIDE DEF after
  <2>1. \A l \in DOMAIN Book : Book'[l] = IF l = id THEN after ELSE Book[l]
    BY <1>2, <1>3
  <2> QED
    BY <1>4, <1>5, <2>1, Zenon
<1>7. Book' = [Book EXCEPT ![id] = [owed |-> @.owed - paid, open |-> @.owed # paid]]
  <2>1. after = [owed |-> Book[id].owed - paid, open |-> Book[id].owed # paid]
    BY <1>1, Zenon
  <2> HIDE DEF after
  <2> QED
    BY <1>6, <2>1, Zenon
<1>8. Ledger!Collect(id, paid)
  BY <1>1, <1>7 DEF Ledger!Collect
<1> QED
  BY <1>1, <1>8 DEF Ledger!Next

\* A repayment is a collection: the principal part falls due against tokens that stay in the
\* contract, for the treasury's fee is taken from the interest.
LEMMA RepayLoanCollects ==
  ASSUME BooksInv, NEW b \in Farmers, NEW id \in 1 .. MaxLoans, NEW x \in Amounts,
         RepayLoan(b, id, x)
  PROVE  Ledger!Next
<1> DEFINE loan      == loans[id]
           due       == loan.outstanding
           owed      == Interest(loan)
           repaid    == Min2(x, due + owed)
           part      == InterestPart(loan, repaid)
           fee       == InterestFee(loan, repaid)
           paid      == repaid - part
           status    == IF due - paid = 0 /\ owed - part = 0 THEN "Repaid" ELSE loan.status
<1>1. /\ loans' = [loans EXCEPT ![id].outstanding = due - paid,
                                ![id].interestAccrued = owed - part,
                                ![id].lastInterestTime = now, ![id].status = status]
      /\ balance' = [balance EXCEPT ![b] = @ - repaid, ![Contract] = @ + (repaid - fee),
                                    ![Treasury] = @ + fee]
      /\ id \in DOMAIN loans /\ loan.status = "Active" /\ x > 0
  BY DEF RepayLoan, RepayAccepted, MayRepay
<1>2. x \in Nat \ {0} /\ b \in Addr
  BY <1>1, LendingAssumption
<1>3. /\ balance \in [Accounts -> Nat] /\ due > 0
      /\ loan \in [borrower : Addr, collateralIds : Seq(Nat),
                   totalCollateralValue : Nat,
                   principal : Nat, outstanding : Nat, interestAccrued : Nat,
                   lastInterestTime : 0 .. now, status : {"Active", "Repaid", "Liquidated"}]
  BY <1>1 DEF BooksInv, LendingTypeOK, LoansOK, StatusFollowsDebt
<1>4. /\ due \in Nat /\ owed \in Nat /\ repaid \in Nat
      /\ part \in 0 .. repaid /\ part \in 0 .. owed /\ paid \in 0 .. due
      /\ paid = due => part = owed
      /\ fee \in 0 .. part
  <2>1. due \in Nat /\ owed \in Nat
    BY <1>1, <1>3, InterestIsNatural
  <2>2. /\ repaid \in Nat
        /\ part \in 0 .. repaid /\ part \in 0 .. owed /\ paid \in 0 .. due
        /\ paid = due => part = owed \/ due = 0
        /\ fee \in 0 .. part
    BY <1>1, <1>2, RepaymentSplits
  <2> QED
    BY <1>3, <2>1, <2>2
<1>5. /\ DOMAIN loans' = DOMAIN loans
      /\ \A l \in DOMAIN loans : l # id => loans'[l] = loans[l]
      /\ loans'[id].outstanding = due - paid /\ loans'[id].status = status
  <2>1. /\ loans'[id] = [loan EXCEPT !.outstanding = due - paid,
                                     !.interestAccrued = owed - part,
                                     !.lastInterestTime = now, !.status = status]
        /\ DOMAIN loans' = DOMAIN loans
        /\ \A l \in DOMAIN loans : l # id => loans'[l] = loans[l]
    BY <1>1
  <2> HIDE DEF loan, due, owed, part, paid, status
  <2> QED
    BY <1>3, <2>1
<1>6. (loans'[id].status = "Active") = (due # paid)
  <2> HIDE DEF owed, part, paid, due
  <2>1. CASE due = paid
    BY <1>1, <1>4, <1>5, <2>1
  <2>2. CASE due # paid
    BY <1>1, <1>4, <1>5, <2>2
  <2> QED
    BY <2>1, <2>2
<1>7. balance'[Contract] >= balance[Contract] + paid
  <2>1. balance'[Contract] = balance[Contract] + (repaid - fee) /\ balance[Contract] \in Nat
    <3>1. Contract # b /\ Contract # Treasury /\ Contract \in Accounts
      BY <1>2, LendingAssumption DEF Accounts
    <3> HIDE DEF repaid, fee
    <3> QED
      BY <1>1, <1>3, <3>1
  <2> HIDE DEF repaid, fee, part
  <2> QED
    BY <1>4, <2>1
<1> HIDE DEF paid
<1> QED
  BY <1>1, <1>4, <1>5, <1>6, <1>7, PaymentCollects

\* A liquidation is a collection: what it takes off the debt reaches the contract.
LEMMA LiquidateCollects ==
  ASSUME BooksInv, NEW z \in Addr, NEW id \in 1 .. MaxLoans, NEW x \in Amounts,
         Liquidate(z, id, x)
  PROVE  Ledger!Next
<1> DEFINE loan   == loans[id]
           status == IF loan.outstanding = x THEN "Liquidated" ELSE loan.status
<1>1. /\ loans' = [loans EXCEPT ![id].outstanding = loan.outstanding - x, ![id].status = status]
      /\ balance' = [balance EXCEPT ![z] = @ - x, ![Contract] = @ + x]
      /\ id \in DOMAIN loans /\ loan.status = "Active" /\ x > 0 /\ x <= MaxLiquidation(loan)
  BY DEF Liquidate
<1>2. /\ balance \in [Accounts -> Nat] /\ x \in Nat \ {0}
      /\ loan \in [borrower : Addr, collateralIds : Seq(Nat),
                   totalCollateralValue : Nat,
                   principal : Nat, outstanding : Nat, interestAccrued : Nat,
                   lastInterestTime : 0 .. now, status : {"Active", "Repaid", "Liquidated"}]
  <2>1. balance \in [Accounts -> Nat] /\ LoansOK
    BY DEF BooksInv, LendingTypeOK
  <2>2. x \in Nat \ {0}
    BY <1>1, LendingAssumption
  <2> QED
    BY <1>1, <2>1, <2>2 DEF LoansOK
<1>3. x \in 0 .. loan.outstanding
  BY <1>1, <1>2, LiquidationIsPartial
<1>4. /\ DOMAIN loans' = DOMAIN loans
      /\ \A l \in DOMAIN loans : l # id => loans'[l] = loans[l]
      /\ loans'[id].outstanding = loan.outstanding - x /\ loans'[id].status = status
  <2>1. /\ loans'[id] = [loan EXCEPT !.outstanding = loan.outstanding - x, !.status = status]
        /\ DOMAIN loans' = DOMAIN loans
        /\ \A l \in DOMAIN loans : l # id => loans'[l] = loans[l]
    BY <1>1
  <2> HIDE DEF loan, status
  <2> QED
    BY <1>2, <2>1
<1>5. (loans'[id].status = "Active") = (loan.outstanding # x)
  <2>1. CASE loan.outstanding = x
    BY <1>4, <2>1
  <2>2. CASE loan.outstanding # x
    BY <1>1, <1>4, <2>2
  <2> QED
    BY <2>1, <2>2
<1>6. balance'[Contract] >= balance[Contract] + x
  <2>1. Contract # z /\ Contract \in Accounts /\ balance[Contract] \in Nat
    BY <1>2, LendingAssumption DEF Accounts
  <2> QED
    BY <1>1, <1>2, <2>1
<1> QED
  BY <1>1, <1>3, <1>4, <1>5, <1>6, PaymentCollects

\* Originations, repayments, liquidations and emergency withdrawals, under every setting the
\* admin can choose, keep the books that LoanLedger promises.
THEOREM LendingImplementsLedger == Spec => ImplementsLedger
<1>1. Init => Ledger!Init
  BY LendingAssumption DEF Init, LendingInit, Ledger!Init, Book, Accounts
<1>2. ASSUME BooksInv, BooksInv', [Next]_vars
      PROVE  [Ledger!Next]_<<Book, balance[Contract]>>
  <2>1. CASE UNCHANGED <<loans, balance>>
    BY <2>1 DEF Book
  <2>2. ASSUME NEW a \in Addr, NEW r \in Recipients, EmergencyWithdraw(a, r)
        PROVE  Ledger!Next
    <3>1. balance'[Contract] = 0
      BY <1>2, <2>2, LendingAssumption DEF EmergencyWithdraw, Accounts, BooksInv, LendingTypeOK
    <3>2. UNCHANGED Book
      BY <2>2 DEF EmergencyWithdraw, recordVars, Book
    <3> QED
      BY <3>1, <3>2 DEF Ledger!Next, Ledger!Drain
  <2>3. CASE OracleNext /\ UNCHANGED lendingVars
    BY <2>1, <2>3 DEF lendingVars, recordVars
  <2>4. CASE AdminStep
    BY <2>1, <2>2, <2>4 DEF AdminStep, recordVars, SetLtv, SetLiquidationThreshold,
         SetCloseFactor, UpdateFeeConfig, SetAnimalCap
  <2>5. CASE LoanStep
    <3>1. ASSUME NEW o \in Farmers, NEW t \in AnimalTypes, NEW n \in Counts, NEW v \in Values,
                 RegisterLivestock(o, t, n, v)
          PROVE  UNCHANGED <<loans, balance>>
      BY <3>1 DEF RegisterLivestock
    <3>2. ASSUME NEW o \in Farmers, NEW c \in 1 .. MaxCollaterals, NEW v \in Values,
                 UpdateAppraisal(o, c, v)
          PROVE  UNCHANGED <<loans, balance>>
      BY <3>2 DEF UpdateAppraisal
    <3> QED
      BY <1>2, <2>1, <2>5, <3>1, <3>2, RequestLoanOpens, RepayLoanCollects, LiquidateCollects
         DEF LoanStep
  <2>6. CASE UNCHANGED vars
    BY <2>1, <2>6 DEF vars, lendingVars, recordVars
  <2> QED
    BY <1>2, <2>3, <2>4, <2>5, <2>6 DEF Next
<1>3. IInv => BooksInv
  BY DEF IInv
<1> QED
  BY <1>1, <1>2, <1>3, InductiveInvariant, PTL DEF Spec, ImplementsLedger, Ledger!Spec
-----------------------------------------------------------------------------
\* Dividing at least b times d by d gives at least b.
LEMMA QuotientAtLeast ==
  ASSUME NEW n \in Nat, NEW b \in Nat, NEW d \in Nat \ {0}, b * d <= n
  PROVE  n \div d \in Nat /\ b <= n \div d
<1> DEFINE q == n \div d
<1>1. q \in Nat /\ n < d * q + d
  BY Z3
<1> HIDE DEF q
<1>2. SUFFICES ASSUME q + 1 <= b PROVE FALSE
  BY <1>1 DEF q
<1>3. \A i, j, k \in Nat : i <= j => i * k <= j * k
  BY Products, Zenon
<1>4. (q + 1) * d <= b * d
  BY <1>1, <1>2, <1>3
<1>5. (q + 1) * d = d * q + d
  BY <1>1
<1> QED
  BY <1>1, <1>4, <1>5

\* A larger number divided by a smaller one gives more.
LEMMA QuotientGrows ==
  ASSUME NEW m \in Nat, NEW n \in Nat, NEW d \in Nat \ {0}, NEW e \in Nat \ {0},
         m <= n, e <= d
  PROVE  m \div d \in Nat /\ n \div e \in Nat /\ m \div d <= n \div e
<1> DEFINE q == m \div d
<1>1. q \in Nat /\ d * q <= m
  BY Z3
<1> HIDE DEF q
<1>2. \A i, j, k \in Nat : i <= j => i * k <= j * k
  BY Products, Zenon
<1>3. e * q <= d * q
  BY <1>1, <1>2
<1>4. q * e = e * q /\ e * q \in Nat /\ d * q \in Nat
  BY <1>1
<1>5. q * e <= n
  BY <1>1, <1>3, <1>4
<1> QED
  BY <1>1, <1>5, QuotientAtLeast DEF q

\* A loan of at most a share r of a value v, measured with a share t that is not below r
\* against a value w that is not below v.
LEMMA OriginationRatio ==
  ASSUME NEW v \in Nat, NEW w \in Nat, v <= w, NEW r \in Nat, NEW t \in Nat, r <= t,
         NEW x \in Nat \ {0}, NEW b \in Nat \ {0}, x <= (v * r) \div b
  PROVE  b <= (w * t * b) \div (x * b)
<1> DEFINE vr == v * r
           wr == w * r
           wt == w * t
           q  == vr \div b
           xb == x * b
           qb == q * b
<1>1. \A i, j, k \in Nat : i <= j => i * k <= j * k
  BY Products, Zenon
<1>2. \A i, j \in Nat : i * j \in Nat /\ i * j = j * i
  OBVIOUS
<1>3. vr \in Nat /\ wr \in Nat /\ wt \in Nat
  BY <1>2
<1>4. vr <= wr
  BY <1>1
<1>5. wr <= wt
  <2>1. r * w <= t * w
    BY <1>1
  <2> QED
    BY <2>1, <1>2
<1>6. q \in Nat /\ qb <= vr
  <2> HIDE DEF vr
  <2> QED
    BY <1>3, Z3
<1>7. xb \in Nat \ {0} /\ xb <= qb
  <2>1. xb \in Nat \ {0}
    OBVIOUS
  <2> HIDE DEF q
  <2>2. xb <= qb
    BY <1>1, <1>6 DEF q
  <2> QED
    BY <2>1, <2>2
<1>8. w * t * b = wt * b
  OBVIOUS
<1> HIDE DEF vr, wr, wt, q, xb, qb
<1>9. xb <= wt
  <2>1. qb \in Nat
    BY <1>2, <1>6 DEF qb
  <2> QED
    BY <2>1, <1>3, <1>4, <1>5, <1>6, <1>7
<1>10. b * xb <= wt * b
  <2>1. xb * b <= wt * b
    BY <1>1, <1>3, <1>7, <1>9
  <2>2. b * xb = xb * b
    BY <1>7
  <2> QED
    BY <2>1, <2>2
<1>11. wt * b \in Nat
  BY <1>2, <1>3
<1>12. b <= (wt * b) \div xb
  BY <1>7, <1>10, <1>11, QuotientAtLeast
<1> QED
  BY <1>8, <1>12 DEF xb

\* The same share of more value against less debt is not less.
LEMMA RatioGrows ==
  ASSUME NEW v \in Nat, NEW w \in Nat, v <= w, NEW t \in Nat, NEW b \in Nat \ {0},
         NEW o \in Nat \ {0}, NEW p \in Nat \ {0}, p <= o
  PROVE  /\ (v * t * b) \div (o * b) \in Nat /\ (w * t * b) \div (p * b) \in Nat
         /\ (v * t * b) \div (o * b) <= (w * t * b) \div (p * b)
<1> DEFINE vt == v * t
           wt == w * t
           vtb == v * t * b
           wtb == w * t * b
           ob == o * b
           pb == p * b
<1>1. \A i, j, k \in Nat : i <= j => i * k <= j * k
  BY Products, Zenon
<1>2. \A i, j \in Nat : i * j \in Nat
  OBVIOUS
<1>3. vt \in Nat /\ wt \in Nat /\ vt <= wt
  BY <1>1, <1>2
<1>4. vtb \in Nat /\ wtb \in Nat /\ vtb <= wtb
  <2> HIDE DEF vt, wt
  <2>1. vt * b \in Nat /\ wt * b \in Nat /\ vt * b <= wt * b
    BY <1>1, <1>2, <1>3
  <2> QED
    BY <2>1 DEF vt, wt
<1>5. ob \in Nat \ {0} /\ pb \in Nat \ {0} /\ pb <= ob
  <2>1. ob \in Nat \ {0} /\ pb \in Nat \ {0}
    OBVIOUS
  <2>2. pb <= ob
    BY <1>1
  <2> QED
    BY <2>1, <2>2
<1> HIDE DEF vtb, wtb, ob, pb
<1>6. vtb \div ob \in Nat /\ wtb \div pb \in Nat /\ vtb \div ob <= wtb \div pb
  BY <1>4, <1>5, QuotientGrows
<1> QED
  BY <1>6 DEF vtb, wtb, ob, pb

-----------------------------------------------------------------------------
\* What every collateral is worth, and what the health of a loan comes down to: the fallback
\* to the value at origination is not needed.
WorthInv ==
  /\ \A c \in DOMAIN collaterals : EffectiveValue(collaterals[c]) \in Nat \ {0}
  /\ \A l \in DOMAIN loans :
       LET ids == loans[l].collateralIds IN
       /\ ids \in Seq(Nat) /\ CollateralValue(ids) \in Nat \ {0}
       /\ HealthFactor(loans[l])
            = (CollateralValue(ids) * liqThr * BPS) \div (loans[l].outstanding * BPS)

LEMMA WorthCorrect == IInv => WorthInv
<1> SUFFICES ASSUME IInv PROVE WorthInv
  OBVIOUS
<1>1. PricesInv /\ CollateralsOK /\ LoansOK /\ BackedInv
  BY DEF IInv, BooksInv, LendingTypeOK
<1>2. ASSUME NEW c \in DOMAIN collaterals PROVE EffectiveValue(collaterals[c]) \in Nat \ {0}
  BY <1>1, EffectiveValueIsPositive
<1>3. ASSUME NEW l \in DOMAIN loans
      PROVE  LET ids == loans[l].collateralIds IN
             /\ ids \in Seq(Nat) /\ CollateralValue(ids) \in Nat \ {0}
             /\ HealthFactor(loans[l])
                  = (CollateralValue(ids) * liqThr * BPS) \div (loans[l].outstanding * BPS)
  <2> DEFINE ids == loans[l].collateralIds
  <2>1. ids \in Seq(Nat) /\ Len(ids) > 0 /\ Range(ids) \subseteq DOMAIN collaterals
    BY <1>1 DEF LoansOK, BackedInv
  <2>2. CollateralValue(ids) \in Nat \ {0}
    BY <1>1, <2>1, CollateralValueIsPositive
  <2> QED
    BY <2>1, <2>2 DEF HealthFactor
<1> QED
  BY <1>2, <1>3 DEF WorthInv

\* At one price, animals that are still there and not appraised lower are worth no less.
LEMMA ValueGrows ==
  ASSUME IInv, WorthInv, WorthInv', EffectivePrice' = EffectivePrice,
         CollateralsOK', NEW ids \in Seq(Nat), Range(ids) \subseteq DOMAIN collaterals,
         \A c \in Range(ids) :
           /\ c \in DOMAIN collaterals' /\ collaterals'[c].count = collaterals[c].count
           /\ collaterals[c].appraisedValue <= collaterals'[c].appraisedValue
  PROVE  CollateralValue(ids) <= CollateralValue(ids)'
<1> DEFINE before == [i \in DOMAIN ids |-> EffectiveValue(collaterals[ids[i]])]
           after  == [i \in DOMAIN ids |-> EffectiveValue(collaterals[ids[i]])']
<1>1. PricesInv /\ CollateralsOK
  BY DEF IInv, BooksInv, LendingTypeOK
<1>2. ASSUME NEW i \in DOMAIN ids
      PROVE  before[i] \in Nat /\ after[i] \in Nat /\ before[i] <= after[i]
  <2> DEFINE c == ids[i]
  <2>1. /\ c \in Range(ids) /\ c \in DOMAIN collaterals /\ c \in DOMAIN collaterals'
        /\ collaterals'[c].count = collaterals[c].count
        /\ collaterals[c].appraisedValue <= collaterals'[c].appraisedValue
    BY DEF Range
  <2>2. before[i] \in Nat /\ after[i] \in Nat
    BY <2>1 DEF WorthInv
  <2>3. /\ collaterals[c].appraisedValue \in Nat /\ collaterals'[c].appraisedValue \in Nat
        /\ collaterals[c].count \in Nat \ {0}
    BY <1>1, <2>1 DEF CollateralsOK
  <2>4. CASE EffectivePrice > 0
    <3> DEFINE most == OracleMaxTotal(collaterals[c].count)
    <3>1. most \in Nat
      BY <1>1, <2>3, <2>4, MaxTotalIsPositive
    <3>2. OracleMaxTotal(collaterals[c].count)' = most
      BY <2>1 DEF OracleMaxTotal
    <3>3. /\ before[i] = Min2(collaterals[c].appraisedValue, most)
          /\ after[i] = Min2(collaterals'[c].appraisedValue, most)
      BY <2>4, <3>2 DEF EffectiveValue
    <3> HIDE DEF most, before, after, c
    <3> QED
      BY <2>1, <2>3, <3>1, <3>3 DEF Min2
  <2>5. CASE ~ (EffectivePrice > 0)
    BY <2>1, <2>2, <2>5 DEF EffectiveValue
  <2> QED
    BY <2>2, <2>4, <2>5
<1>3. before \in [DOMAIN ids -> Nat] /\ after \in [DOMAIN ids -> Nat]
  BY <1>2
<1>4. IsFiniteSet(DOMAIN ids)
  <2>1. IsFiniteSet(1 .. Len(ids))
    BY FS_Interval
  <2> QED
    BY <2>1
<1>5. CollateralValue(ids) = SumFunction(before) /\ CollateralValue(ids)' = SumFunction(after)
  BY DEF CollateralValue
<1>6. \A i \in DOMAIN ids : before[i] <= after[i]
  BY <1>2
<1> HIDE DEF before, after
<1>7. SumFunction(before) <= SumFunction(after)
  BY <1>3, <1>4, <1>6, Sums
<1> QED
  BY <1>5, <1>7

\* No loan is open to liquidation in the state it is made in, unless the admin has set the
\* threshold below the loan-to-value ratio.
THEOREM HealthyWhenMade == Spec => HealthyAtOrigination
<1>1. ASSUME IInv, IInv', WorthInv, WorthInv', [Next]_vars,
             Len(loans') > Len(loans), ltv <= liqThr
      PROVE  HealthFactor(loans[Len(loans)])' >= BPS
  <2>1. BooksInv /\ loans \in Seq(Range(loans)) /\ CollateralsOK' /\ LoansOK' /\ ParamsOK
    BY <1>1 DEF IInv, BooksInv, LendingTypeOK
  <2>2. PICK b \in Farmers, ids \in CollateralLists, x \in Amounts : RequestLoan(b, ids, x)
    <3>1. ASSUME NEW z \in Addr, NEW id \in 1 .. MaxLoans, NEW x \in Amounts,
                 Liquidate(z, id, x)
          PROVE  FALSE
      <4>1. DOMAIN loans' = DOMAIN loans
        BY <3>1 DEF Liquidate
      <4>2. Len(loans') = Len(loans)
        BY <2>1, <4>1, <3>1 DEF Liquidate
      <4> QED
        BY <1>1, <2>1, <4>2
    <3>2. ASSUME NEW a \in Farmers, NEW id \in 1 .. MaxLoans, NEW x \in Amounts,
                 RepayLoan(a, id, x)
          PROVE  FALSE
      <4>1. Len(loans') = Len(loans)
        BY <2>1, <3>2 DEF RepayLoan, RepayAccepted
      <4> QED
        BY <1>1, <2>1, <4>1
    <3>3. CASE UNCHANGED loans
      BY <1>1, <2>1, <3>3
    <3> QED
      BY <1>1, <3>1, <3>2, <3>3, LoansMoveOnlyByThree
  <2>3. /\ x \in Nat \ {0} /\ ids \in Seq(Nat) /\ Range(ids) \subseteq DOMAIN collaterals
        /\ CollateralValue(ids) \in Nat \ {0}
        /\ x <= (CollateralValue(ids) * ltv) \div BPS
    <3>1. x \in Nat \ {0}
      BY <2>2, LendingAssumption DEF RequestLoan
    <3>2. ids \in Seq(Nat) /\ Len(ids) > 0
      BY <2>2, LendingAssumption DEF RequestLoan
    <3>3. \A i \in DOMAIN ids : ids[i] \in DOMAIN collaterals
      BY <2>2 DEF RequestLoan
    <3>4. Range(ids) \subseteq DOMAIN collaterals
      BY <3>2, <3>3 DEF Range
    <3>5. CollateralValue(ids) \in Nat \ {0}
      BY <1>1, <2>2, ListedHasValue
    <3>6. x <= (CollateralValue(ids) * ltv) \div BPS
      BY <2>2 DEF RequestLoan, MaxLoan
    <3> QED
      BY <3>1, <3>2, <3>4, <3>5, <3>6
  <2>4. PICK new : /\ loans' = Append(loans, new)
                   /\ new.collateralIds = ids /\ new.outstanding = x
    BY <2>2 DEF RequestLoan
  <2>5. /\ Len(loans') = Len(loans) + 1 /\ Len(loans) \in Nat
        /\ Len(loans') \in DOMAIN loans' /\ loans'[Len(loans')] = new
    BY <2>1, <2>4, Appended
  <2>6. /\ CollateralValue(ids)' \in Nat \ {0}
        /\ HealthFactor(loans[Len(loans)])'
             = (CollateralValue(ids)' * liqThr' * BPS) \div (x * BPS)
    BY <1>1, <2>4, <2>5 DEF WorthInv
  <2>7. liqThr' = liqThr /\ liqThr \in Nat /\ ltv \in Nat /\ BPS \in Nat \ {0}
    BY <2>1, <2>2, LendingAssumption DEF RequestLoan, paramVars, ParamsOK
  <2>8. CollateralValue(ids) <= CollateralValue(ids)'
    <3>1. EffectivePrice' = EffectivePrice
      <4>1. ~ UNCHANGED loans
        BY <2>5
      <4>2. ~ UNCHANGED lendingVars /\ ~ UNCHANGED vars
        BY <4>1 DEF vars, lendingVars, recordVars
      <4>3. UNCHANGED oracleVars
        BY <1>1, <4>2 DEF Next
      <4> QED
        BY <4>3 DEF oracleVars, priceVars, EffectivePrice
    <3>2. ASSUME NEW c \in Range(ids)
          PROVE  /\ c \in DOMAIN collaterals' /\ collaterals'[c].count = collaterals[c].count
                 /\ collaterals[c].appraisedValue <= collaterals'[c].appraisedValue
      <4>1. c \in DOMAIN collaterals
        BY <2>3
      <4>2. PICK rec : rec = collaterals[c]
        OBVIOUS
      <4>3. collaterals'[c] = [rec EXCEPT !.loanId = Len(loans) + 1]
        BY <2>2, <4>1, <4>2 DEF RequestLoan, Pledge
      <4>4. rec.appraisedValue \in Nat /\ collaterals'[c].appraisedValue = rec.appraisedValue
        BY <2>1, <4>1, <4>2, <4>3 DEF BooksInv, LendingTypeOK, CollateralsOK
      <4> QED
        BY <1>1, <4>1, <4>2, <4>4, RecordsStay
    <3> QED
      BY <1>1, <2>1, <2>3, <3>1, <3>2, ValueGrows
  <2>9. PICK v, w : v = CollateralValue(ids) /\ w = CollateralValue(ids)'
    OBVIOUS
  <2>10. v \in Nat /\ w \in Nat /\ v <= w /\ x <= (v * ltv) \div BPS
    BY <2>3, <2>6, <2>8, <2>9
  <2>11. BPS <= (w * liqThr * BPS) \div (x * BPS)
    BY <1>1, <2>3, <2>7, <2>10, OriginationRatio
  <2>12. HealthFactor(loans[Len(loans)])' = (w * liqThr * BPS) \div (x * BPS)
    BY <2>6, <2>7, <2>9
  <2>13. (w * liqThr * BPS) \div (x * BPS) \in Int
    <3>1. w * liqThr * BPS \in Nat /\ x * BPS \in Nat \ {0}
      BY <2>3, <2>7, <2>10
    <3> QED
      BY <3>1
  <2> QED
    BY <2>7, <2>11, <2>12, <2>13
<1> QED
  BY <1>1, WorthCorrect, InductiveInvariant, PTL DEF Spec, HealthyAtOrigination

\* Time, payments, liquidations and other loans never worsen the health of an active loan: it
\* falls only with the price, an appraisal or the threshold.
THEOREM HealthFollowsMarket == Spec => HealthFallsOnlyWithMarket
<1>1. ASSUME IInv, IInv', WorthInv, WorthInv', [Next]_vars
      PROVE  \A l \in DOMAIN loans :
               /\ loans[l].status = "Active" /\ loans'[l].status = "Active"
               /\ HealthFactor(loans[l])' < HealthFactor(loans[l])
               => \/ EffectivePrice' # EffectivePrice
                  \/ liqThr' # liqThr
                  \/ \E c \in Range(loans[l].collateralIds) :
                       collaterals'[c].appraisedValue < collaterals[c].appraisedValue
  <2> SUFFICES ASSUME NEW l \in DOMAIN loans,
                      loans[l].status = "Active", loans'[l].status = "Active",
                      EffectivePrice' = EffectivePrice, liqThr' = liqThr,
                      \A c \in Range(loans[l].collateralIds) :
                        ~ (collaterals'[c].appraisedValue < collaterals[c].appraisedValue)
               PROVE  ~ (HealthFactor(loans[l])' < HealthFactor(loans[l]))
    OBVIOUS
  <2>1. PICK ids : ids = loans[l].collateralIds
    OBVIOUS
  <2>2. PICK o : o = loans[l].outstanding
    OBVIOUS
  <2>3. PICK p : p = loans'[l].outstanding
    OBVIOUS
  <2>4. /\ l \in DOMAIN loans' /\ loans'[l].collateralIds = ids /\ p <= o
        /\ \A c \in DOMAIN collaterals :
             c \in DOMAIN collaterals' /\ collaterals'[c].count = collaterals[c].count
    BY <1>1, <2>1, <2>2, <2>3, RecordsStay
  <2>5. o \in Nat \ {0} /\ p \in Nat \ {0}
    <3>1. LoansOK /\ LoansOK' /\ StatusFollowsDebt /\ StatusFollowsDebt'
      BY <1>1 DEF IInv, BooksInv, LendingTypeOK
    <3>2. o \in Nat /\ o # 0
      BY <2>2, <3>1 DEF LoansOK, StatusFollowsDebt
    <3>3. p \in Nat /\ p # 0
      BY <2>3, <2>4, <3>1 DEF LoansOK, StatusFollowsDebt
    <3> QED
      BY <3>2, <3>3
  <2>6. ids \in Seq(Nat) /\ Range(ids) \subseteq DOMAIN collaterals
    BY <1>1, <2>1 DEF IInv, BackedInv, WorthInv
  <2>7. /\ CollateralsOK /\ CollateralsOK' /\ liqThr \in Nat /\ BPS \in Nat \ {0}
    BY <1>1, LendingAssumption DEF IInv, BooksInv, LendingTypeOK, ParamsOK
  <2>8. ASSUME NEW c \in Range(ids)
        PROVE  /\ c \in DOMAIN collaterals' /\ collaterals'[c].count = collaterals[c].count
               /\ collaterals[c].appraisedValue <= collaterals'[c].appraisedValue
    <3>1. c \in DOMAIN collaterals /\ c \in DOMAIN collaterals'
      BY <2>4, <2>6
    <3>2. collaterals[c].appraisedValue \in Nat /\ collaterals'[c].appraisedValue \in Nat
      BY <2>7, <3>1 DEF CollateralsOK
    <3>3. ~ (collaterals'[c].appraisedValue < collaterals[c].appraisedValue)
      BY <2>1
    <3> QED
      BY <2>4, <3>1, <3>2, <3>3
  <2>9. CollateralValue(ids) <= CollateralValue(ids)'
    BY <1>1, <2>6, <2>7, <2>8, ValueGrows
  <2>10. PICK v, w : v = CollateralValue(ids) /\ w = CollateralValue(ids)'
    OBVIOUS
  <2>11. /\ v \in Nat /\ HealthFactor(loans[l]) = (v * liqThr * BPS) \div (o * BPS)
    BY <1>1, <2>1, <2>2, <2>10 DEF WorthInv
  <2>12. /\ w \in Nat /\ HealthFactor(loans[l])' = (w * liqThr * BPS) \div (p * BPS)
    BY <1>1, <2>3, <2>4, <2>10 DEF WorthInv
  <2>13. /\ (v * liqThr * BPS) \div (o * BPS) \in Nat
         /\ (w * liqThr * BPS) \div (p * BPS) \in Nat
         /\ (v * liqThr * BPS) \div (o * BPS) <= (w * liqThr * BPS) \div (p * BPS)
    BY <2>4, <2>5, <2>7, <2>9, <2>10, <2>11, <2>12, RatioGrows
  <2>14. \A i, j \in Nat : i <= j => ~ (j < i)
    OBVIOUS
  <2> QED
    BY <2>11, <2>12, <2>13, <2>14
<1> QED
  BY <1>1, WorthCorrect, InductiveInvariant, PTL DEF Spec, HealthFallsOnlyWithMarket
-----------------------------------------------------------------------------
(* What the lock of a collateral, and a paused contract, still let one rely on. *)

\* A collateral is locked to the newest loan that lists it, open or closed, and is unlocked
\* only while none ever did.
LocksInv ==
  \A c \in DOMAIN collaterals :
    /\ collaterals[c].loanId # 0 =>
         /\ collaterals[c].loanId \in DOMAIN loans
         /\ c \in Range(loans[collaterals[c].loanId].collateralIds)
    /\ \A l \in DOMAIN loans :
         c \in Range(loans[l].collateralIds) => l <= collaterals[c].loanId

\* Old loans list what they listed; a new collateral is listed by none of them.
LEMMA LocksKept ==
  ASSUME IInv, LocksInv, [Next]_vars, DOMAIN loans' = DOMAIN loans,
         \A c \in DOMAIN collaterals' :
           \/ c \in DOMAIN collaterals /\ collaterals'[c].loanId = collaterals[c].loanId
           \/ c \notin DOMAIN collaterals /\ collaterals'[c].loanId = 0
  PROVE  LocksInv'
<1>1. \A l \in DOMAIN loans : /\ loans'[l].collateralIds = loans[l].collateralIds
                            /\ Range(loans[l].collateralIds) \subseteq DOMAIN collaterals
  BY RecordsStay DEF IInv, BackedInv
<1>2. ASSUME NEW c \in DOMAIN collaterals'
      PROVE  /\ collaterals'[c].loanId # 0 =>
                  /\ collaterals'[c].loanId \in DOMAIN loans
                  /\ c \in Range(loans[collaterals'[c].loanId].collateralIds)
             /\ \A l \in DOMAIN loans :
                  c \in Range(loans[l].collateralIds) => l <= collaterals'[c].loanId
  <2>1. CASE c \in DOMAIN collaterals /\ collaterals'[c].loanId = collaterals[c].loanId
    BY <2>1 DEF LocksInv
  <2>2. CASE c \notin DOMAIN collaterals /\ collaterals'[c].loanId = 0
    BY <1>1, <2>2
  <2> QED
    BY <1>2, <2>1, <2>2
<1> QED
  BY <1>1, <1>2 DEF LocksInv

\* A new loan takes over the locks of all it lists, and no others.
LEMMA RequestLoanLocks ==
  ASSUME IInv, LocksInv, [Next]_vars,
         NEW b \in Farmers, NEW ids \in CollateralLists, NEW x \in Amounts, RequestLoan(b, ids, x)
  PROVE  LocksInv'
<1>0. PICK new : new = Len(loans) + 1
  OBVIOUS
<1>1. loans \in Seq(Range(loans)) /\ CollateralsOK
  BY DEF IInv, BooksInv, LendingTypeOK
<1>2. PICK rec : loans' = Append(loans, rec) /\ rec.collateralIds = ids
  BY DEF RequestLoan
<1>3. /\ DOMAIN loans' = 1 .. new /\ DOMAIN loans = 1 .. Len(loans)
      /\ Len(loans) \in Nat /\ loans'[new] = rec
  BY <1>0, <1>1, <1>2, Appended
<1>4. loans'[new].collateralIds = ids
  BY <1>2, <1>3
<1>5. \A l \in DOMAIN loans : loans'[l].collateralIds = loans[l].collateralIds
  BY RecordsStay
<1>6. DOMAIN collaterals' = DOMAIN collaterals
  BY DEF RequestLoan
<1>7. ASSUME NEW c \in DOMAIN collaterals
      PROVE  collaterals'[c].loanId = IF c \in Range(ids) THEN new ELSE collaterals[c].loanId
  <2>1. PICK old : old = collaterals[c]
    OBVIOUS
  <2>2. [old EXCEPT !.loanId = new].loanId = new
    BY <1>1, <2>1 DEF CollateralsOK
  <2> QED
    BY <1>0, <2>1, <2>2 DEF RequestLoan, Pledge
<1>8. ASSUME NEW c \in DOMAIN collaterals
      PROVE  /\ collaterals'[c].loanId # 0 =>
                  /\ collaterals'[c].loanId \in DOMAIN loans'
                  /\ c \in Range(loans'[collaterals'[c].loanId].collateralIds)
             /\ \A l \in DOMAIN loans' :
                  c \in Range(loans'[l].collateralIds) => l <= collaterals'[c].loanId
  <2>1. CASE c \in Range(ids)
    BY <1>0, <1>3, <1>4, <1>7, <2>1
  <2>2. CASE c \notin Range(ids)
    <3>1. collaterals'[c].loanId = collaterals[c].loanId
      BY <1>7, <2>2
    <3>2. \A l \in DOMAIN loans' : c \in Range(loans'[l].collateralIds) =>
            l \in DOMAIN loans /\ c \in Range(loans[l].collateralIds)
      BY <1>0, <1>3, <1>4, <1>5, <2>2
    <3> QED
      BY <1>0, <1>3, <1>5, <3>1, <3>2 DEF LocksInv
  <2> QED
    BY <2>1, <2>2
<1> QED
  BY <1>6, <1>8 DEF LocksInv

\* The lock is kept by every step.
LEMMA StepLocks ==
  ASSUME IInv, LocksInv, [Next]_vars
  PROVE  LocksInv'
<1>1. BooksInv /\ CollateralsOK /\ collaterals \in Seq(Range(collaterals))
  BY DEF IInv, BooksInv, LendingTypeOK
<1>2. ASSUME UNCHANGED collaterals, DOMAIN loans' = DOMAIN loans PROVE LocksInv'
  BY <1>2, LocksKept
<1>3. ASSUME NEW o \in Farmers, NEW t \in AnimalTypes, NEW n \in Counts, NEW v \in Values,
             RegisterLivestock(o, t, n, v)
      PROVE  LocksInv'
  <2>1. PICK new : collaterals' = Append(collaterals, new) /\ new.loanId = 0
    BY <1>3 DEF RegisterLivestock
  <2>2. /\ DOMAIN collaterals' = 1 .. (Len(collaterals) + 1)
        /\ DOMAIN collaterals = 1 .. Len(collaterals) /\ Len(collaterals) \in Nat
        /\ collaterals'[Len(collaterals) + 1] = new
        /\ \A c \in DOMAIN collaterals : collaterals'[c] = collaterals[c]
    BY <1>1, <2>1, Appended
  <2>3. \A c \in DOMAIN collaterals' :
          \/ c \in DOMAIN collaterals /\ collaterals'[c].loanId = collaterals[c].loanId
          \/ c \notin DOMAIN collaterals /\ collaterals'[c].loanId = 0
    BY <2>1, <2>2
  <2>4. UNCHANGED loans
    BY <1>3 DEF RegisterLivestock
  <2> QED
    BY <2>3, <2>4, LocksKept
<1>4. ASSUME NEW o \in Farmers, NEW id, NEW v \in Values, UpdateAppraisal(o, id, v)
      PROVE  LocksInv'
  <2>1. \A c \in DOMAIN collaterals' :
          c \in DOMAIN collaterals /\ collaterals'[c].loanId = collaterals[c].loanId
    BY <1>1, <1>4 DEF UpdateAppraisal, CollateralsOK
  <2>2. UNCHANGED loans
    BY <1>4 DEF UpdateAppraisal
  <2> QED
    BY <2>1, <2>2, LocksKept
<1>5. ASSUME NEW b \in Farmers, NEW id, NEW x \in Amounts, RepayLoan(b, id, x)
      PROVE  LocksInv'
  BY <1>2, <1>5 DEF RepayLoan
<1>6. ASSUME NEW z \in Addr, NEW id, NEW x \in Amounts, Liquidate(z, id, x)
      PROVE  LocksInv'
  BY <1>2, <1>6 DEF Liquidate
<1>7. CASE UNCHANGED vars \/ (OracleNext /\ UNCHANGED lendingVars)
  BY <1>2, <1>7 DEF vars, lendingVars, recordVars
<1>8. CASE AdminStep
  BY <1>2, <1>8 DEF AdminStep, recordVars, EmergencyWithdraw, SetLtv, SetLiquidationThreshold,
       SetCloseFactor, UpdateFeeConfig, SetAnimalCap
<1>9. CASE LoanStep
  BY <1>3, <1>4, <1>5, <1>6, <1>9, RequestLoanLocks DEF LoanStep
<1> QED
  BY <1>7, <1>8, <1>9 DEF Next

\* What CollateralRecord.loan_id means in this contract, whatever loans share a collateral: it
\* names the newest loan that lists it.  A later loan takes the lock from an active one, which
\* is how CollateralLockedToItsLoan fails, and no repayment or liquidation gives it back.
THEOREM LocksNameNewestLoan == Spec => []LocksInv
<1>1. Init => LocksInv
  BY DEF Init, LendingInit, LocksInv
<1>2. ASSUME IInv, LocksInv, [Next]_vars PROVE LocksInv'
  BY <1>2, StepLocks
<1> QED
  BY <1>1, <1>2, InductiveInvariant, PTL DEF Spec

\* The part of RepayNeverBlocked that is not about ENABLED, for every payment: what repay_loan
\* asks for before it writes is given for every active loan whose borrower has the tokens,
\* paused or not, whatever became of the contract's own balance.
THEOREM RepaymentsAreAccepted ==
  Spec => [](\A l \in DOMAIN loans, x \in Nat \ {0} :
               loans[l].status = "Active" /\ x <= balance[loans[l].borrower]
                 => RepayAccepted(loans[l].borrower, l, x))
<1>1. ASSUME IInv, NEW l \in DOMAIN loans, NEW x \in Nat \ {0},
             loans[l].status = "Active", x <= balance[loans[l].borrower]
      PROVE  RepayAccepted(loans[l].borrower, l, x)
  <2> DEFINE repaid == Min2(x, loans[l].outstanding + Interest(loans[l]))
             part   == InterestPart(loans[l], repaid)
             fee    == InterestFee(loans[l], repaid)
  <2>1. BooksInv
    BY <1>1 DEF IInv
  <2>2. repaid \in Nat /\ part \in 0 .. repaid /\ fee \in 0 .. part
    BY <2>1, RepaymentSplits
  <2>3. repaid <= x
    <3>1. loans[l].outstanding \in Nat /\ Interest(loans[l]) \in Nat
      BY <2>1, InterestIsNatural DEF BooksInv, LendingTypeOK, LoansOK
    <3> QED
      BY <3>1 DEF Min2
  <2>4. balance[Contract] \in Nat /\ balance[loans[l].borrower] \in Nat
    BY <2>1 DEF BooksInv, LendingTypeOK, LoansOK, Accounts
  <2>5. MayRepay(loans[l].borrower, l)
    BY <1>1 DEF MayRepay
  <2>6. balance[loans[l].borrower] >= repaid /\ balance[Contract] + repaid >= fee
    <3> HIDE DEF repaid, part, fee
    <3> QED
      BY <1>1, <2>2, <2>3, <2>4
  <2> QED
    BY <2>5, <2>6 DEF RepayAccepted
<1>2. IInv => \A l \in DOMAIN loans, x \in Nat \ {0} :
                loans[l].status = "Active" /\ x <= balance[loans[l].borrower]
                  => RepayAccepted(loans[l].borrower, l, x)
  BY <1>1
<1> QED
  BY <1>2, InductiveInvariant, PTL
=============================================================================
