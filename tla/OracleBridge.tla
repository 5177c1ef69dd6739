---------------------------- MODULE OracleBridge ----------------------------
(***************************************************************************)
(* The oracle bridge (oracle-bridge/src): a primary that submits prices    *)
(* and backs its state up, a warm standby that syncs from the backups, and *)
(* the promotion of a standby, which is another operating-system process   *)
(* working on the same state.json.                                         *)
(*                                                                         *)
(* Inside one Node process a callback runs to its next await without       *)
(* interruption, but two processes interleave between any two file         *)
(* operations.  So a bridge process takes one step per read or write of    *)
(* its own state.json, and a promotion takes one step up to its await and  *)
(* one after it.  A state is reduced to its role and its cursor            *)
(* (lastProcessedLedger); a file operation is one step, so a half-written  *)
(* JSON file is not modelled.                                              *)
(***************************************************************************)
EXTENDS Naturals

CONSTANTS
  Instance,      \* bridge instances, each with a STATE_DIR of its own
  FirstPrimary,  \* the one configured with BRIDGE_ROLE=primary; the others say standby
  None,          \* no file, or no promotion under way
  MaxInFlight,   \* bound: submissions of one process whose outcome it does not know
  MaxAccepted    \* bound: submissions the network accepts

ASSUME BridgeAssumption ==
  /\ FirstPrimary \in Instance
  /\ None \notin [role : {"primary", "standby"}, cursor : Nat]
  /\ MaxInFlight \in Nat /\ MaxAccepted \in Nat

Role  == {"primary", "standby"}
State == [role : Role, cursor : 0 .. MaxAccepted]  \* BridgeState
Idle  == [sent |-> 0, accepted |-> 0]              \* no submission under way
Blank == [role |-> "standby", cursor |-> 0]        \* stands for the memory of no process

VARIABLES
  disk,       \* state.json of each instance, or None
  latest,     \* latest.json in the shared BACKUP_DIR, or None
  pc,         \* where the process of each instance is
  mem,        \* its variable `state`
  flight,     \* its submissions under way: sent, and accepted but not yet reported back
  accepted,   \* submissions the network has accepted, of all instances
  promotion   \* the state a promotion of the instance has restored, or None

bridgeVars == <<disk, latest, pc, mem, flight, accepted, promotion>>

As(role, state) == [state EXCEPT !.role = role]

BridgeInit ==
  /\ disk = [n \in Instance |-> None] /\ latest = None
  /\ pc = [n \in Instance |-> "down"]
  /\ mem = [n \in Instance |-> Blank]
  /\ flight = [n \in Instance |-> Idle]
  /\ accepted = 0
  /\ promotion = [n \in Instance |-> None]

-----------------------------------------------------------------------------
\* What an instance finds at start: its state.json, or the default of its configuration.
LoadOrInitState(n) ==
  IF disk[n] # None THEN disk[n]
  ELSE [role |-> IF n = FirstPrimary THEN "primary" ELSE "standby", cursor |-> 0]

\* The process starts and reads its state.
Start(n) ==
  /\ pc[n] = "down"
  /\ pc'  = [pc EXCEPT ![n] = "booting"]
  /\ mem' = [mem EXCEPT ![n] = LoadOrInitState(n)]
  /\ UNCHANGED <<disk, latest, flight, accepted, promotion>>

\* Mutant of Boot: the state read at start is never written.
BootUnsaved(n) ==
  /\ pc[n] = "booting"
  /\ pc' = [pc EXCEPT ![n] = mem[n].role]
  /\ UNCHANGED <<disk, latest, mem, flight, accepted, promotion>>

\* It writes the state back and starts the loops of the role it read; a primary backs up at once.
Boot(n) ==
  /\ pc[n] = "booting"
  /\ disk'   = [disk EXCEPT ![n] = mem[n]]
  /\ pc'     = [pc EXCEPT ![n] = mem[n].role]
  /\ latest' = IF mem[n].role = "primary" THEN mem[n] ELSE latest
  /\ UNCHANGED <<mem, flight, accepted, promotion>>

\* The process ends, by a signal or a crash, wherever it is.
Stop(n) ==
  /\ pc[n] # "down"
  /\ pc'     = [pc EXCEPT ![n] = "down"]
  /\ mem'    = [mem EXCEPT ![n] = Blank]
  /\ flight' = [flight EXCEPT ![n] = Idle]
  /\ UNCHANGED <<disk, latest, accepted, promotion>>

-----------------------------------------------------------------------------
\* The submission timer fires: the key is resolved and the transaction is on its way.  The timer
\* does not wait for the previous submission.
SubmitTick(n) ==
  /\ pc[n] = "primary"
  /\ flight[n].sent + flight[n].accepted < MaxInFlight
  /\ flight' = [flight EXCEPT ![n].sent = @ + 1]
  /\ UNCHANGED <<disk, latest, pc, mem, accepted, promotion>>

\* The network accepts it: the code waits for no confirmation beyond that.
SubmitAccepted(n) ==
  /\ flight[n].sent > 0 /\ accepted < MaxAccepted
  /\ flight'   = [flight EXCEPT ![n] = [sent |-> @.sent - 1, accepted |-> @.accepted + 1]]
  /\ accepted' = accepted + 1
  /\ UNCHANGED <<disk, latest, pc, mem, promotion>>

\* Mutant of SubmitRecorded: the cursor moves on from the state on disk.
SubmitRecordedFromDisk(n) ==
  /\ flight[n].accepted > 0
  /\ flight' = [flight EXCEPT ![n].accepted = @ - 1]
  /\ mem'    = [mem EXCEPT ![n].cursor = disk[n].cursor + 1]
  /\ disk'   = [disk EXCEPT ![n] = mem'[n]]
  /\ UNCHANGED <<latest, pc, accepted, promotion>>

\* The caller learns of it: the cursor moves on from the state held now, in memory and on disk.
SubmitRecorded(n) ==
  /\ flight[n].accepted > 0
  /\ flight' = [flight EXCEPT ![n].accepted = @ - 1]
  /\ mem'    = [mem EXCEPT ![n].cursor = @ + 1]
  /\ disk'   = [disk EXCEPT ![n] = mem'[n]]
  /\ UNCHANGED <<latest, pc, accepted, promotion>>

\* Mutant of SubmitFails: the cursor moves on whatever became of the submission.
SubmitFailsCounted(n) ==
  /\ flight[n].sent > 0
  /\ flight' = [flight EXCEPT ![n].sent = @ - 1]
  /\ mem'    = [mem EXCEPT ![n].cursor = @ + 1]
  /\ disk'   = [disk EXCEPT ![n] = mem'[n]]
  /\ UNCHANGED <<latest, pc, accepted, promotion>>

\* The submission fails, or it was accepted and the answer is lost: the error is logged.
SubmitFails(n) ==
  /\ \/ /\ flight[n].sent > 0
        /\ flight' = [flight EXCEPT ![n].sent = @ - 1]
     \/ /\ flight[n].accepted > 0
        /\ flight' = [flight EXCEPT ![n].accepted = @ - 1]
  /\ UNCHANGED <<disk, latest, pc, mem, accepted, promotion>>

\* The backup timer fires: what is on disk, not what is in memory, becomes the latest backup.
Backup(n) ==
  /\ pc[n] = "primary"
  /\ latest' = disk[n]
  /\ UNCHANGED <<disk, pc, mem, flight, accepted, promotion>>

-----------------------------------------------------------------------------
\* Mutant of StandbyTick: the standby asks its memory for the role.
StandbyTickFromMemory(n) ==
  /\ pc[n] = "standby"
  /\ \/ /\ mem[n].role = "primary"
        /\ pc'     = [pc EXCEPT ![n] = "primary"]
        /\ mem'    = [mem EXCEPT ![n] = disk[n]]
        /\ latest' = disk[n]
     \/ /\ mem[n].role = "standby"
        /\ pc'     = [pc EXCEPT ![n] = "syncing"]
        /\ UNCHANGED <<mem, latest>>
  /\ UNCHANGED <<disk, flight, accepted, promotion>>

\* Mutant of StandbyTick: no return after the switch, so the tick goes on to sync as a standby.
StandbyTickGoesOn(n) ==
  /\ pc[n] = "standby"
  /\ \/ /\ disk[n].role = "primary"
        /\ pc'     = [pc EXCEPT ![n] = "primary"]
        /\ latest' = disk[n]
        /\ disk'   = [disk EXCEPT ![n] = As("standby", disk[n])]
        /\ mem'    = [mem EXCEPT ![n] = disk'[n]]
     \/ /\ disk[n].role = "standby"
        /\ pc'     = [pc EXCEPT ![n] = "syncing"]
        /\ UNCHANGED <<disk, mem, latest>>
  /\ UNCHANGED <<flight, accepted, promotion>>

\* The standby's timer fires and finds its own role on disk still standby, or flipped: then it
\* reads the state again, starts the loops of a primary and backs up at once.
StandbyTick(n) ==
  /\ pc[n] = "standby"
  /\ \/ /\ disk[n].role = "primary"
        /\ pc'     = [pc EXCEPT ![n] = "primary"]
        /\ mem'    = [mem EXCEPT ![n] = disk[n]]
        /\ latest' = disk[n]
     \/ /\ disk[n].role = "standby"
        /\ pc'     = [pc EXCEPT ![n] = "syncing"]
        /\ UNCHANGED <<mem, latest>>
  /\ UNCHANGED <<disk, flight, accepted, promotion>>

\* Mutant of StandbyRestore: the backup's own role is restored with it.
StandbyRestoreVerbatim(n) ==
  /\ pc[n] = "syncing" /\ latest # None
  /\ pc'   = [pc EXCEPT ![n] = "synced"]
  /\ disk' = [disk EXCEPT ![n] = latest]
  /\ UNCHANGED <<latest, mem, flight, accepted, promotion>>

\* The latest backup replaces the standby's own state, under the role it had; without a backup
\* the tick ends in a caught error.
StandbyRestore(n) ==
  /\ pc[n] = "syncing"
  /\ \/ /\ latest = None
        /\ pc' = [pc EXCEPT ![n] = "standby"]
        /\ UNCHANGED disk
     \/ /\ latest # None
        /\ pc'   = [pc EXCEPT ![n] = "synced"]
        /\ disk' = [disk EXCEPT ![n] = As("standby", latest)]
  /\ UNCHANGED <<latest, mem, flight, accepted, promotion>>

\* The end of the tick: the standby reads back what is on disk by now.
StandbyReload(n) ==
  /\ pc[n] = "synced"
  /\ pc'  = [pc EXCEPT ![n] = "standby"]
  /\ mem' = [mem EXCEPT ![n] = disk[n]]
  /\ UNCHANGED <<disk, latest, flight, accepted, promotion>>

-----------------------------------------------------------------------------
\* The runbook: promote a standby, or a replacement not started yet, while nobody is serving.
MayPromote(n) == \A m \in Instance : pc[m] # "primary"

\* npm run promote, up to its await: the backup is restored with the role it was written with.
PromoteRestore(n) ==
  /\ MayPromote(n)
  /\ promotion[n] = None /\ latest # None
  /\ disk'      = [disk EXCEPT ![n] = latest]
  /\ promotion' = [promotion EXCEPT ![n] = latest]
  /\ UNCHANGED <<latest, pc, mem, flight, accepted>>

\* After it: the signing key is resolved, and what was restored is written again as primary.
PromoteFinish(n) ==
  /\ promotion[n] # None
  /\ disk'      = [disk EXCEPT ![n] = As("primary", promotion[n])]
  /\ promotion' = [promotion EXCEPT ![n] = None]
  /\ UNCHANGED <<latest, pc, mem, flight, accepted>>

\* The key cannot be resolved, or the command is killed: it ends with an error and writes nothing.
PromoteFails(n) ==
  /\ promotion[n] # None
  /\ promotion' = [promotion EXCEPT ![n] = None]
  /\ UNCHANGED <<disk, latest, pc, mem, flight, accepted>>

-----------------------------------------------------------------------------
Process(n) ==
  \/ Start(n) \/ Boot(n) \/ Stop(n)
  \/ SubmitTick(n) \/ SubmitAccepted(n) \/ SubmitRecorded(n) \/ SubmitFails(n)
  \/ Backup(n)
  \/ StandbyTick(n) \/ StandbyRestore(n) \/ StandbyReload(n)

BridgeNext ==
  \E n \in Instance : Process(n) \/ PromoteRestore(n) \/ PromoteFinish(n) \/ PromoteFails(n)
=============================================================================
