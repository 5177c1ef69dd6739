-------------------------- MODULE OracleBridgeProofs --------------------------
(***************************************************************************)
(* Proofs, for any number of instances and submissions, of the safety      *)
(* properties of OracleBridgeHistory.                                      *)
(***************************************************************************)
EXTENDS OracleBridgeHistory, TLAPS

\* Only a primary has submissions under way, and its cursor leaves room for those accepted.
CountsInv ==
  \A n \in Instance :
    /\ flight[n].sent + flight[n].accepted <= MaxInFlight
    /\ mem[n].cursor + flight[n].accepted <= accepted
    /\ pc[n] # "primary" => flight[n] = Idle

\* A primary says so in memory and on disk, whatever was written over its state.json.
RoleInv ==
  \A n \in Instance : pc[n] = "primary" => mem[n].role = "primary" /\ disk[n].role = "primary"

\* The role of a primary, wherever it is kept, comes from the configuration or a promotion.
OriginInv ==
  \A n \in Instance :
    \/ mem[n].role = "primary"
    \/ disk[n] # None /\ disk[n].role = "primary"
    \/ promotion[n] # None
    => n = FirstPrimary \/ n \in promoted

IInv ==
  /\ BridgeTypeOK
  /\ CursorsAreAccepted /\ CountsInv
  /\ BackupIsByPrimary /\ RoleInv /\ OriginInv

-----------------------------------------------------------------------------
\* A state is told apart from None, and its parts are what they should be.
LEMMA StateFacts ==
  ASSUME NEW s \in State
  PROVE  s # None /\ s.role \in Role /\ s.cursor \in Nat /\ s.cursor <= MaxAccepted
<1>1. s \in [role : {"primary", "standby"}, cursor : Nat]
  BY BridgeAssumption DEF State, Role
<1> QED
  BY <1>1, BridgeAssumption DEF State, Role

\* asRole changes the role alone.
LEMMA AsFacts ==
  ASSUME NEW s \in State, NEW r \in Role
  PROVE  As(r, s) \in State /\ As(r, s).role = r /\ As(r, s).cursor = s.cursor
  BY DEF As, State

\* What an instance finds at start is a state, and a primary's only if it was one.
LEMMA StartFacts ==
  ASSUME IInv, NEW n \in Instance
  PROVE  /\ LoadOrInitState(n) \in State
         /\ LoadOrInitState(n).cursor <= accepted
         /\ LoadOrInitState(n).role = "primary" => n = FirstPrimary \/ n \in promoted
<1>1. CASE disk[n] # None
  BY <1>1 DEF LoadOrInitState, IInv, BridgeTypeOK, CursorsAreAccepted, OriginInv
<1>2. CASE disk[n] = None
  BY <1>2, BridgeAssumption
     DEF LoadOrInitState, IInv, BridgeTypeOK, State, Role
<1> QED
  BY <1>1, <1>2

\* The types a step starts from.
LEMMA Typed ==
  ASSUME IInv, NEW n \in Instance
  PROVE  /\ mem[n] \in State
         /\ disk[n] # None => disk[n] \in State
         /\ latest # None => latest \in State
         /\ promotion[n] # None => promotion[n] \in State
         /\ flight[n].sent \in Nat /\ flight[n].accepted \in Nat
         /\ accepted \in Nat /\ MaxInFlight \in Nat /\ MaxAccepted \in Nat
         /\ pc[n] \notin {"down", "booting"} => disk[n] # None
  BY BridgeAssumption DEF IInv, BridgeTypeOK

\* A confirmed submission moves the cursor on by one, and to no more than was accepted.
LEMMA RecordedFacts ==
  ASSUME IInv, NEW n \in Instance, SubmitRecorded(n)
  PROVE  /\ pc[n] = "primary"
         /\ mem'[n] \in State
         /\ mem'[n].role = mem[n].role /\ mem'[n].cursor = mem[n].cursor + 1
         /\ mem'[n].cursor + (flight[n].accepted - 1) <= accepted
<1>1. pc[n] = "primary"
  BY DEF SubmitRecorded, IInv, CountsInv, Idle
<1>2. mem[n] \in State /\ mem' = [mem EXCEPT ![n].cursor = @ + 1]
  BY Typed DEF SubmitRecorded
<1>3. mem'[n] = [mem[n] EXCEPT !.cursor = @ + 1]
  BY <1>2 DEF IInv, BridgeTypeOK
<1>4. /\ mem[n].cursor \in Nat /\ flight[n].accepted \in Nat /\ flight[n].accepted > 0
      /\ accepted \in 0 .. MaxAccepted /\ MaxAccepted \in Nat
      /\ mem[n].cursor + flight[n].accepted <= accepted
  BY StateFacts, Typed DEF SubmitRecorded, IInv, CountsInv, BridgeTypeOK
<1>5. mem[n].cursor + 1 \in 0 .. MaxAccepted
  BY <1>4
<1>6. mem'[n] \in State /\ mem'[n].role = mem[n].role /\ mem'[n].cursor = mem[n].cursor + 1
  BY <1>2, <1>3, <1>5 DEF State
<1> QED
  BY <1>1, <1>4, <1>6

\* A process without submissions under way may take over any cursor that was accepted.
LEMMA MemoryReplaced ==
  ASSUME IInv, NEW n \in Instance, NEW s \in State, s.cursor <= accepted,
         pc[n] # "primary", mem' = [mem EXCEPT ![n] = s],
         \A m \in Instance \ {n} : pc'[m] = pc[m],
         UNCHANGED <<flight, accepted>>
  PROVE  CountsInv' /\ \A m \in Instance : mem'[m].cursor <= accepted
<1>1. flight[n] = Idle /\ Idle.accepted = 0
  BY DEF IInv, CountsInv, Idle
<1>2. mem'[n] = s /\ \A m \in Instance \ {n} : mem'[m] = mem[m]
  BY DEF IInv, BridgeTypeOK
<1>3. s.cursor + flight[n].accepted <= accepted
  BY <1>1, StateFacts, Typed
<1>4. CountsInv'
  BY <1>1, <1>2, <1>3 DEF IInv, CountsInv
<1> QED
  BY <1>2, <1>4 DEF IInv, CursorsAreAccepted

\* Every step preserves the types.
LEMMA NextTypeOK ==
  ASSUME IInv, BridgeNext, Observe
  PROVE  BridgeTypeOK'
<1> SUFFICES ASSUME NEW n \in Instance,
                    Process(n) \/ PromoteRestore(n) \/ PromoteFinish(n) \/ PromoteFails(n)
             PROVE  BridgeTypeOK'
  BY DEF BridgeNext
<1> USE DEF IInv
<1>a. promoted' \subseteq Instance
  BY DEF Observe, BridgeTypeOK
<1>b. Blank \in State /\ Idle \in [sent : 0 .. MaxInFlight, accepted : 0 .. MaxInFlight]
  BY BridgeAssumption DEF Blank, Idle, State, Role
<1>1. ASSUME Start(n) PROVE BridgeTypeOK'
  BY <1>1, <1>a, StartFacts DEF BridgeTypeOK, Start
<1>2. ASSUME Boot(n) PROVE BridgeTypeOK'
  BY <1>2, <1>a, Typed, StateFacts DEF BridgeTypeOK, Boot, Role
<1>3. ASSUME Stop(n) PROVE BridgeTypeOK'
  BY <1>3, <1>a, <1>b DEF BridgeTypeOK, Stop
<1>4. ASSUME SubmitTick(n) PROVE BridgeTypeOK'
  BY <1>4, <1>a, Typed DEF BridgeTypeOK, SubmitTick, CountsInv
<1>5. ASSUME SubmitAccepted(n) PROVE BridgeTypeOK'
  BY <1>5, <1>a, Typed DEF BridgeTypeOK, SubmitAccepted, CountsInv
<1>6. ASSUME SubmitRecorded(n) PROVE BridgeTypeOK'
  <2>1. mem' \in [Instance -> State] /\ disk' \in [Instance -> State \cup {None}]
        /\ disk'[n] # None
    BY <1>6, RecordedFacts, StateFacts DEF SubmitRecorded, BridgeTypeOK
  <2>2. flight' \in [Instance -> [sent : 0 .. MaxInFlight, accepted : 0 .. MaxInFlight]]
    BY <1>6, BridgeAssumption DEF SubmitRecorded, BridgeTypeOK
  <2>3. \A m \in Instance : pc'[m] \notin {"down", "booting"} => disk'[m] # None
    BY <1>6, <2>1 DEF SubmitRecorded, BridgeTypeOK
  <2> QED
    BY <2>1, <2>2, <2>3, <1>6, <1>a DEF BridgeTypeOK, SubmitRecorded
<1>7. ASSUME SubmitFails(n) PROVE BridgeTypeOK'
  <2>1. \/ flight[n].sent > 0 /\ flight' = [flight EXCEPT ![n].sent = @ - 1]
        \/ flight[n].accepted > 0 /\ flight' = [flight EXCEPT ![n].accepted = @ - 1]
    BY <1>7 DEF SubmitFails
  <2>2. flight' \in [Instance -> [sent : 0 .. MaxInFlight, accepted : 0 .. MaxInFlight]]
    BY <2>1, BridgeAssumption DEF BridgeTypeOK
  <2> QED
    BY <2>2, <1>7, <1>a DEF BridgeTypeOK, SubmitFails
<1>8. ASSUME Backup(n) PROVE BridgeTypeOK'
  BY <1>8, <1>a, Typed DEF BridgeTypeOK, Backup
<1>9. ASSUME StandbyTick(n) PROVE BridgeTypeOK'
  BY <1>9, <1>a, Typed DEF BridgeTypeOK, StandbyTick
<1>10. ASSUME StandbyRestore(n) PROVE BridgeTypeOK'
  <2>1. latest # None => As("standby", latest) \in State
    BY Typed, AsFacts DEF Role
  <2>2. disk' \in [Instance -> State \cup {None}]
    BY <2>1, <1>10 DEF StandbyRestore, BridgeTypeOK
  <2>3. \A m \in Instance : pc'[m] \notin {"down", "booting"} => disk'[m] # None
    BY <2>1, <1>10, Typed, StateFacts DEF StandbyRestore, BridgeTypeOK
  <2> QED
    BY <2>2, <2>3, <1>10, <1>a DEF BridgeTypeOK, StandbyRestore
<1>11. ASSUME StandbyReload(n) PROVE BridgeTypeOK'
  BY <1>11, <1>a, Typed DEF BridgeTypeOK, StandbyReload
<1>12. ASSUME PromoteRestore(n) PROVE BridgeTypeOK'
  BY <1>12, <1>a DEF BridgeTypeOK, PromoteRestore
<1>13. ASSUME PromoteFinish(n) PROVE BridgeTypeOK'
  BY <1>13, <1>a, Typed, StateFacts, AsFacts DEF BridgeTypeOK, PromoteFinish, Role
<1>14. ASSUME PromoteFails(n) PROVE BridgeTypeOK'
  BY <1>14, <1>a DEF BridgeTypeOK, PromoteFails
<1> QED
  BY <1>1, <1>2, <1>3, <1>4, <1>5, <1>6, <1>7, <1>8, <1>9,
     <1>10, <1>11, <1>12, <1>13, <1>14 DEF Process

\* Every step keeps the cursors within what was accepted.
LEMMA NextCounts ==
  ASSUME IInv, BridgeNext, Observe
  PROVE  CursorsAreAccepted' /\ CountsInv'
<1> SUFFICES ASSUME NEW n \in Instance,
                    Process(n) \/ PromoteRestore(n) \/ PromoteFinish(n) \/ PromoteFails(n)
             PROVE  CursorsAreAccepted' /\ CountsInv'
  BY DEF BridgeNext
<1> USE DEF IInv
<1>1. ASSUME Start(n) PROVE CursorsAreAccepted' /\ CountsInv'
  <2>1. CountsInv' /\ \A m \in Instance : mem'[m].cursor <= accepted
    BY <1>1, StartFacts, MemoryReplaced DEF Start, BridgeTypeOK
  <2> QED
    BY <2>1, <1>1 DEF Start, CursorsAreAccepted
<1>2. ASSUME Boot(n) PROVE CursorsAreAccepted' /\ CountsInv'
  BY <1>2, Typed, StateFacts DEF CursorsAreAccepted, CountsInv, BridgeTypeOK, Boot
<1>3. ASSUME Stop(n) PROVE CursorsAreAccepted' /\ CountsInv'
  BY <1>3, Typed, StateFacts DEF CursorsAreAccepted, CountsInv, BridgeTypeOK, Stop, Blank, Idle
<1>4. ASSUME SubmitTick(n) PROVE CursorsAreAccepted' /\ CountsInv'
  BY <1>4, Typed, StateFacts DEF CursorsAreAccepted, CountsInv, BridgeTypeOK, SubmitTick
<1>5. ASSUME SubmitAccepted(n) PROVE CursorsAreAccepted' /\ CountsInv'
  <2>1. /\ \A m \in Instance \ {n} : flight'[m] = flight[m]
        /\ flight'[n].sent = flight[n].sent - 1 /\ flight'[n].accepted = flight[n].accepted + 1
        /\ pc[n] = "primary"
    BY <1>5 DEF SubmitAccepted, BridgeTypeOK, CountsInv, Idle
  <2>2. UNCHANGED <<mem, pc, disk, latest, promotion>> /\ accepted' = accepted + 1
    BY <1>5 DEF SubmitAccepted
  <2>3. CursorsAreAccepted'
    BY <2>2, Typed, StateFacts DEF CursorsAreAccepted
  <2>4. CountsInv'
    BY <2>1, <2>2, Typed, StateFacts DEF CountsInv
  <2> QED
    BY <2>3, <2>4
<1>6. ASSUME SubmitRecorded(n) PROVE CursorsAreAccepted' /\ CountsInv'
  <2>1. /\ \A m \in Instance \ {n} :
             flight'[m] = flight[m] /\ mem'[m] = mem[m] /\ disk'[m] = disk[m]
        /\ flight'[n].sent = flight[n].sent /\ flight'[n].accepted = flight[n].accepted - 1
        /\ flight[n].accepted > 0 /\ disk'[n] = mem'[n]
    BY <1>6 DEF SubmitRecorded, BridgeTypeOK
  <2>2. UNCHANGED <<pc, latest, accepted, promotion>>
    BY <1>6 DEF SubmitRecorded
  <2>3. mem'[n].cursor <= accepted
    BY <1>6, <2>1, RecordedFacts, StateFacts, Typed
  <2>4. CursorsAreAccepted'
    BY <2>1, <2>2, <2>3 DEF CursorsAreAccepted
  <2>5. CountsInv'
    BY <1>6, <2>1, <2>2, RecordedFacts, Typed DEF CountsInv
  <2> QED
    BY <2>4, <2>5
<1>7. ASSUME SubmitFails(n) PROVE CursorsAreAccepted' /\ CountsInv'
  <2>1. /\ \A m \in Instance \ {n} : flight'[m] = flight[m]
        /\ flight'[n].sent + flight'[n].accepted = flight[n].sent + flight[n].accepted - 1
        /\ flight'[n].accepted \in {flight[n].accepted, flight[n].accepted - 1}
        /\ pc[n] = "primary"
    <3>1. \/ flight[n].sent > 0 /\ flight' = [flight EXCEPT ![n].sent = @ - 1]
          \/ flight[n].accepted > 0 /\ flight' = [flight EXCEPT ![n].accepted = @ - 1]
      BY <1>7 DEF SubmitFails
    <3>2. flight \in [Instance -> [sent : 0 .. MaxInFlight, accepted : 0 .. MaxInFlight]]
      BY Typed DEF BridgeTypeOK
    <3>3. pc[n] = "primary"
      BY <3>1 DEF CountsInv, Idle
    <3>4. CASE flight[n].sent > 0 /\ flight' = [flight EXCEPT ![n].sent = @ - 1]
      BY <3>2, <3>3, <3>4
    <3>5. CASE flight[n].accepted > 0 /\ flight' = [flight EXCEPT ![n].accepted = @ - 1]
      BY <3>2, <3>3, <3>5
    <3> QED
      BY <3>1, <3>4, <3>5
  <2>2. UNCHANGED <<mem, pc, disk, latest, accepted, promotion>>
    BY <1>7 DEF SubmitFails
  <2>3. CursorsAreAccepted'
    BY <2>2 DEF CursorsAreAccepted
  <2>4. CountsInv'
    BY <2>1, <2>2, Typed, StateFacts DEF CountsInv
  <2> QED
    BY <2>3, <2>4
<1>8. ASSUME Backup(n) PROVE CursorsAreAccepted' /\ CountsInv'
  BY <1>8, Typed, StateFacts DEF CursorsAreAccepted, CountsInv, BridgeTypeOK, Backup
<1>9. ASSUME StandbyTick(n) PROVE CursorsAreAccepted' /\ CountsInv'
  <2>1. CASE disk[n].role = "standby" /\ UNCHANGED <<mem, latest>>
    BY <2>1, <1>9 DEF StandbyTick, CursorsAreAccepted, CountsInv, BridgeTypeOK
  <2>2. CASE mem' = [mem EXCEPT ![n] = disk[n]] /\ latest' = disk[n]
    <3>1. disk[n] \in State /\ disk[n].cursor <= accepted
      BY <1>9, Typed DEF StandbyTick, CursorsAreAccepted
    <3>2. CountsInv' /\ \A m \in Instance : mem'[m].cursor <= accepted
      BY <2>2, <3>1, <1>9, MemoryReplaced DEF StandbyTick, BridgeTypeOK
    <3> QED
      BY <2>2, <3>1, <3>2, <1>9 DEF StandbyTick, CursorsAreAccepted
  <2> QED
    BY <2>1, <2>2, <1>9 DEF StandbyTick
<1>10. ASSUME StandbyRestore(n) PROVE CursorsAreAccepted' /\ CountsInv'
  BY <1>10, Typed, StateFacts, AsFacts
     DEF CursorsAreAccepted, CountsInv, BridgeTypeOK, StandbyRestore, Role
<1>11. ASSUME StandbyReload(n) PROVE CursorsAreAccepted' /\ CountsInv'
  <2>1. disk[n] \in State /\ disk[n].cursor <= accepted
    BY <1>11, Typed DEF StandbyReload, CursorsAreAccepted
  <2>2. CountsInv' /\ \A m \in Instance : mem'[m].cursor <= accepted
    BY <2>1, <1>11, MemoryReplaced DEF StandbyReload, BridgeTypeOK
  <2> QED
    BY <2>2, <1>11 DEF StandbyReload, CursorsAreAccepted
<1>12. ASSUME PromoteRestore(n) PROVE CursorsAreAccepted' /\ CountsInv'
  BY <1>12, Typed, StateFacts DEF CursorsAreAccepted, CountsInv, BridgeTypeOK, PromoteRestore
<1>13. ASSUME PromoteFinish(n) PROVE CursorsAreAccepted' /\ CountsInv'
  BY <1>13, Typed, StateFacts, AsFacts
     DEF CursorsAreAccepted, CountsInv, BridgeTypeOK, PromoteFinish, Role
<1>14. ASSUME PromoteFails(n) PROVE CursorsAreAccepted' /\ CountsInv'
  BY <1>14, Typed, StateFacts DEF CursorsAreAccepted, CountsInv, BridgeTypeOK, PromoteFails
<1> QED
  BY <1>1, <1>2, <1>3, <1>4, <1>5, <1>6, <1>7, <1>8, <1>9,
     <1>10, <1>11, <1>12, <1>13, <1>14 DEF Process

\* Every step keeps primary and backup under the role of a primary.
LEMMA NextRoles ==
  ASSUME IInv, BridgeNext, Observe
  PROVE  BackupIsByPrimary' /\ RoleInv'
<1> SUFFICES ASSUME NEW n \in Instance,
                    Process(n) \/ PromoteRestore(n) \/ PromoteFinish(n) \/ PromoteFails(n)
             PROVE  BackupIsByPrimary' /\ RoleInv'
  BY DEF BridgeNext
<1> USE DEF IInv
<1>1. ASSUME Start(n) PROVE BackupIsByPrimary' /\ RoleInv'
  BY <1>1, Typed, StateFacts DEF BackupIsByPrimary, RoleInv, BridgeTypeOK, Start
<1>2. ASSUME Boot(n) PROVE BackupIsByPrimary' /\ RoleInv'
  BY <1>2, Typed, StateFacts DEF BackupIsByPrimary, RoleInv, BridgeTypeOK, Boot
<1>3. ASSUME Stop(n) PROVE BackupIsByPrimary' /\ RoleInv'
  BY <1>3, Typed, StateFacts DEF BackupIsByPrimary, RoleInv, BridgeTypeOK, Stop
<1>4. ASSUME SubmitTick(n) PROVE BackupIsByPrimary' /\ RoleInv'
  BY <1>4, Typed, StateFacts DEF BackupIsByPrimary, RoleInv, BridgeTypeOK, SubmitTick
<1>5. ASSUME SubmitAccepted(n) PROVE BackupIsByPrimary' /\ RoleInv'
  BY <1>5, Typed, StateFacts DEF BackupIsByPrimary, RoleInv, BridgeTypeOK, SubmitAccepted
<1>6. ASSUME SubmitRecorded(n) PROVE BackupIsByPrimary' /\ RoleInv'
  BY <1>6, Typed, StateFacts, RecordedFacts
     DEF BackupIsByPrimary, RoleInv, BridgeTypeOK, SubmitRecorded
<1>7. ASSUME SubmitFails(n) PROVE BackupIsByPrimary' /\ RoleInv'
  BY <1>7, Typed, StateFacts DEF BackupIsByPrimary, RoleInv, BridgeTypeOK, SubmitFails
<1>8. ASSUME Backup(n) PROVE BackupIsByPrimary' /\ RoleInv'
  BY <1>8, Typed, StateFacts DEF BackupIsByPrimary, RoleInv, BridgeTypeOK, Backup
<1>9. ASSUME StandbyTick(n) PROVE BackupIsByPrimary' /\ RoleInv'
  BY <1>9, Typed, StateFacts DEF BackupIsByPrimary, RoleInv, BridgeTypeOK, StandbyTick
<1>10. ASSUME StandbyRestore(n) PROVE BackupIsByPrimary' /\ RoleInv'
  BY <1>10, Typed, StateFacts, AsFacts
     DEF BackupIsByPrimary, RoleInv, BridgeTypeOK, StandbyRestore, Role
<1>11. ASSUME StandbyReload(n) PROVE BackupIsByPrimary' /\ RoleInv'
  BY <1>11, Typed, StateFacts DEF BackupIsByPrimary, RoleInv, BridgeTypeOK, StandbyReload
<1>12. ASSUME PromoteRestore(n) PROVE BackupIsByPrimary' /\ RoleInv'
  BY <1>12, Typed, StateFacts DEF BackupIsByPrimary, RoleInv, BridgeTypeOK, PromoteRestore
<1>13. ASSUME PromoteFinish(n) PROVE BackupIsByPrimary' /\ RoleInv'
  BY <1>13, Typed, StateFacts, AsFacts
     DEF BackupIsByPrimary, RoleInv, BridgeTypeOK, PromoteFinish, Role
<1>14. ASSUME PromoteFails(n) PROVE BackupIsByPrimary' /\ RoleInv'
  BY <1>14, Typed, StateFacts DEF BackupIsByPrimary, RoleInv, BridgeTypeOK, PromoteFails
<1> QED
  BY <1>1, <1>2, <1>3, <1>4, <1>5, <1>6, <1>7, <1>8, <1>9,
     <1>10, <1>11, <1>12, <1>13, <1>14 DEF Process

\* No step but a promotion brings a primary's role to an instance.
LEMMA NextOrigin ==
  ASSUME IInv, BridgeNext, Observe
  PROVE  OriginInv'
<1> SUFFICES ASSUME NEW n \in Instance,
                    Process(n) \/ PromoteRestore(n) \/ PromoteFinish(n) \/ PromoteFails(n)
             PROVE  OriginInv'
  BY DEF BridgeNext
<1> USE DEF IInv
<1>1. ASSUME Start(n) PROVE OriginInv'
  BY <1>1, Typed, StateFacts, StartFacts DEF OriginInv, Observe, BridgeTypeOK, Start
<1>2. ASSUME Boot(n) PROVE OriginInv'
  BY <1>2, Typed, StateFacts DEF OriginInv, Observe, BridgeTypeOK, Boot
<1>3. ASSUME Stop(n) PROVE OriginInv'
  BY <1>3, Typed, StateFacts DEF OriginInv, Observe, BridgeTypeOK, Stop, Blank
<1>4. ASSUME SubmitTick(n) PROVE OriginInv'
  BY <1>4, Typed, StateFacts DEF OriginInv, Observe, BridgeTypeOK, SubmitTick
<1>5. ASSUME SubmitAccepted(n) PROVE OriginInv'
  BY <1>5, Typed, StateFacts DEF OriginInv, Observe, BridgeTypeOK, SubmitAccepted
<1>6. ASSUME SubmitRecorded(n) PROVE OriginInv'
  BY <1>6, Typed, StateFacts, RecordedFacts DEF OriginInv, Observe, BridgeTypeOK, SubmitRecorded
<1>7. ASSUME SubmitFails(n) PROVE OriginInv'
  BY <1>7, Typed, StateFacts DEF OriginInv, Observe, BridgeTypeOK, SubmitFails
<1>8. ASSUME Backup(n) PROVE OriginInv'
  BY <1>8, Typed, StateFacts DEF OriginInv, Observe, BridgeTypeOK, Backup
<1>9. ASSUME StandbyTick(n) PROVE OriginInv'
  BY <1>9, Typed, StateFacts DEF OriginInv, Observe, BridgeTypeOK, StandbyTick
<1>10. ASSUME StandbyRestore(n) PROVE OriginInv'
  BY <1>10, Typed, StateFacts, AsFacts DEF OriginInv, Observe, BridgeTypeOK, StandbyRestore, Role
<1>11. ASSUME StandbyReload(n) PROVE OriginInv'
  BY <1>11, Typed, StateFacts DEF OriginInv, Observe, BridgeTypeOK, StandbyReload
<1>12. ASSUME PromoteRestore(n) PROVE OriginInv'
  BY <1>12, Typed, StateFacts DEF OriginInv, Observe, BridgeTypeOK, PromoteRestore
<1>13. ASSUME PromoteFinish(n) PROVE OriginInv'
  BY <1>13, Typed, StateFacts, AsFacts DEF OriginInv, Observe, BridgeTypeOK, PromoteFinish, Role
<1>14. ASSUME PromoteFails(n) PROVE OriginInv'
  BY <1>14, Typed, StateFacts DEF OriginInv, Observe, BridgeTypeOK, PromoteFails
<1> QED
  BY <1>1, <1>2, <1>3, <1>4, <1>5, <1>6, <1>7, <1>8, <1>9,
     <1>10, <1>11, <1>12, <1>13, <1>14 DEF Process

-----------------------------------------------------------------------------
\* The initial state: nothing is written and nothing runs.
LEMMA InitIInv == Init => IInv
<1> SUFFICES ASSUME Init PROVE IInv
  OBVIOUS
<1> USE BridgeAssumption DEF Init, BridgeInit
<1>1. Blank \in State /\ Blank.role = "standby" /\ Blank.cursor = 0
  BY DEF Blank, State, Role
<1>2. /\ Idle \in [sent : 0 .. MaxInFlight, accepted : 0 .. MaxInFlight]
      /\ Idle.sent = 0 /\ Idle.accepted = 0
  BY DEF Idle
<1>3. BridgeTypeOK
  BY <1>1, <1>2 DEF BridgeTypeOK
<1>4. CursorsAreAccepted /\ CountsInv
  BY <1>1, <1>2 DEF CursorsAreAccepted, CountsInv
<1>5. BackupIsByPrimary /\ RoleInv /\ OriginInv
  BY <1>1 DEF BackupIsByPrimary, RoleInv, OriginInv
<1> QED
  BY <1>3, <1>4, <1>5 DEF IInv

\* The inductive invariant holds in every behaviour.
LEMMA InductiveInvariant == Spec => []IInv
<1>1. IInv /\ [Next]_vars => IInv'
  <2> SUFFICES ASSUME IInv, [Next]_vars PROVE IInv'
    OBVIOUS
  <2>1. CASE Next
    BY <2>1, NextTypeOK, NextCounts, NextRoles, NextOrigin DEF Next, IInv
  <2>2. CASE UNCHANGED vars
    BY <2>2 DEF vars, bridgeVars, IInv, BridgeTypeOK, CursorsAreAccepted, CountsInv,
         BackupIsByPrimary, RoleInv, OriginInv
  <2> QED
    BY <2>1, <2>2
<1> QED
  BY <1>1, InitIInv, PTL DEF Spec

-----------------------------------------------------------------------------
\* The types of files, processes, submissions and promotions; a process past its start has a
\* state.json (index.ts, main).
THEOREM BridgeTypeCorrect == Spec => []BridgeTypeOK
<1>1. IInv => BridgeTypeOK
  BY DEF IInv
<1> QED
  BY <1>1, InductiveInvariant, PTL

\* What createBackup copies from disk is always a primary's state, so promote may restore it
\* under the role it was written with.
THEOREM BackupCorrect == Spec => []BackupIsByPrimary
<1>1. IInv => BackupIsByPrimary
  BY DEF IInv
<1> QED
  BY <1>1, InductiveInvariant, PTL

\* The submission loop, backups, syncs and promotions never count more submissions than were
\* accepted.
THEOREM CursorsCorrect == Spec => []CursorsAreAccepted
<1>1. IInv => CursorsAreAccepted
  BY DEF IInv
<1> QED
  BY <1>1, InductiveInvariant, PTL

\* Whoever runs the primary's loops was configured so or promoted.
THEOREM PromotionNeeded == Spec => []OnlyPromotionMakesPrimary
<1>1. IInv => OnlyPromotionMakesPrimary
  BY DEF IInv, RoleInv, OriginInv, OnlyPromotionMakesPrimary
<1> QED
  BY <1>1, InductiveInvariant, PTL

\* The cursor in the memory of a running primary never goes back.
THEOREM PrimaryForward == Spec => PrimaryCountsForward
<1>1. IInv /\ [Next]_vars => [\A n \in Instance : pc[n] = "primary" /\ pc'[n] = "primary"
                                => mem'[n].cursor >= mem[n].cursor]_vars
  <2> SUFFICES ASSUME IInv, BridgeNext, NEW n \in Instance,
                      pc[n] = "primary", pc'[n] = "primary"
               PROVE  mem'[n].cursor >= mem[n].cursor
    BY DEF Next
  <2>1. PICK m \in Instance :
          Process(m) \/ PromoteRestore(m) \/ PromoteFinish(m) \/ PromoteFails(m)
    BY DEF BridgeNext
  <2>2. mem[n].cursor \in Nat
    BY Typed, StateFacts
  <2>3. CASE SubmitRecorded(m)
    BY <2>2, <2>3, RecordedFacts DEF SubmitRecorded, IInv, BridgeTypeOK
  <2>4. CASE mem' = mem
    BY <2>2, <2>4
  <2>5. CASE Start(m) \/ Stop(m) \/ StandbyTick(m) \/ StandbyReload(m)
    BY <2>2, <2>5 DEF Start, Stop, StandbyTick, StandbyReload, IInv, BridgeTypeOK
  <2> QED
    BY <2>1, <2>3, <2>4, <2>5 DEF Process, Boot, SubmitTick, SubmitAccepted, SubmitFails, Backup,
         StandbyRestore, PromoteRestore, PromoteFinish, PromoteFails
<1> QED
  BY <1>1, InductiveInvariant, PTL DEF Spec, PrimaryCountsForward

-----------------------------------------------------------------------------
\* A standby between two ticks whose role on disk has been flipped.
Flipped(n) == pc[n] = "standby" /\ disk[n].role = "primary"

\* What a step does to it: it stays so, it becomes primary, or its process ends; the tick of its
\* own timer makes it primary.
FlipLasts ==
  \A n \in Instance : Flipped(n) =>
    /\ pc'[n] \in {"primary", "down"} \/ Flipped(n)'
    /\ StandbyTick(n) => pc'[n] = "primary"

LEMMA StepFlips ==
  ASSUME IInv, BridgeNext
  PROVE  FlipLasts
<1> SUFFICES ASSUME NEW n \in Instance, pc[n] = "standby", disk[n].role = "primary"
             PROVE  /\ pc'[n] \in {"primary", "down"}
                       \/ (pc'[n] = "standby" /\ disk'[n].role = "primary")
                    /\ StandbyTick(n) => pc'[n] = "primary"
  BY DEF FlipLasts, Flipped
<1>1. PICK m \in Instance :
        Process(m) \/ PromoteRestore(m) \/ PromoteFinish(m) \/ PromoteFails(m)
  BY DEF BridgeNext
<1>2. StandbyTick(n) => pc'[n] = "primary"
  BY DEF StandbyTick, IInv, BridgeTypeOK
<1>3. CASE UNCHANGED <<pc, disk>>
  BY <1>2, <1>3
<1>4. CASE m # n
  <2>1. pc'[n] = pc[n] /\ disk'[n] = disk[n]
    BY <1>1, <1>4
    DEF Process, Start, Boot, Stop, SubmitTick, SubmitAccepted, SubmitRecorded, SubmitFails, Backup,
        StandbyTick, StandbyRestore, StandbyReload, PromoteRestore, PromoteFinish, PromoteFails,
        IInv, BridgeTypeOK
  <2> QED
    BY <1>2, <2>1
<1>5. CASE m = n
  <2>1. flight[n] = Idle
    BY DEF IInv, CountsInv
  <2>2. ~Start(n) /\ ~Boot(n) /\ ~SubmitRecorded(n) /\ ~StandbyRestore(n) /\ ~StandbyReload(n)
    BY <2>1 DEF Start, Boot, SubmitRecorded, StandbyRestore, StandbyReload, Idle
  <2>3. CASE Stop(n) \/ StandbyTick(n)
    BY <1>2, <2>3 DEF Stop, IInv, BridgeTypeOK
  <2>4. CASE PromoteRestore(n)
    BY <1>2, <2>4 DEF PromoteRestore, IInv, BridgeTypeOK, BackupIsByPrimary
  <2>5. CASE PromoteFinish(n)
    <3>1. promotion[n] \in State
      BY <2>5 DEF PromoteFinish, IInv, BridgeTypeOK
    <3>2. disk'[n] = As("primary", promotion[n]) /\ pc' = pc
      BY <2>5 DEF PromoteFinish, IInv, BridgeTypeOK
    <3> QED
      BY <1>2, <3>1, <3>2, AsFacts DEF Role
  <2> QED
    BY <1>1, <1>3, <1>5, <2>2, <2>3, <2>4, <2>5
    DEF Process, SubmitTick, SubmitAccepted, SubmitFails, Backup, PromoteFails
<1> QED
  BY <1>4, <1>5

\* A promotion that a standby has not noticed yet is not undone by a late restore, another
\* promotion or a submission's answer: it lasts until the standby's next tick, which makes it
\* primary, or until its process ends (startStandbyLoops, oracle-bridge/src/index.ts).  What
\* FlippedRoleIsNoticed adds is that the timer fires.
THEOREM FlippedRoleLasts == Spec => [][FlipLasts]_vars
<1>1. IInv /\ [Next]_vars => [FlipLasts]_vars
  BY StepFlips DEF Next
<1> QED
  BY <1>1, InductiveInvariant, PTL DEF Spec
=============================================================================
