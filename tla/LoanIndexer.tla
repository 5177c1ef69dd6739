----------------------------- MODULE LoanIndexer -----------------------------
(***************************************************************************)
(* The backend's copy of the loans (src/src/services/soroban.service.ts    *)
(* and src/src/controllers/retirements.controller.ts): a poller that       *)
(* mirrors contract events into the database, and a request that retires   *)
(* loans on the chain in batches and then records them itself.             *)
(*                                                                         *)
(* Everything runs on one event loop, so code is atomic up to its next     *)
(* await: a handler is a step that reads the loan and a step that writes   *)
(* it, and between the two other polls and requests run.  The chain is     *)
(* external: the contract as this service expects it (its event names and  *)
(* retire_loan are not those of contracts/stellarkraal), where a loan is   *)
(* created and then closed once, and each of these emits an event that can *)
(* be fetched once its ledger is closed.                                   *)
(***************************************************************************)
EXTENDS Naturals, Sequences, FiniteSets, SequencesExt

CONSTANTS
  Loan,         \* loans, each with collateral of its own
  Poll,         \* polls that can be under way at a time
  Request,      \* bulk retirement requests
  None,         \* an absent record
  PageLimit,    \* events of one getEvents response, 100 in the code
  MaxOps,       \* SOROBAN_MAX_OPS_PER_TX
  START_LEDGER, \* where the cursor starts
  MaxLedger,    \* bound: the last ledger explored
  MaxRestarts   \* bound: restarts of the backend

ASSUME IndexerAssumption ==
  /\ PageLimit \in Nat \ {0} /\ MaxOps \in Nat \ {0}
  /\ START_LEDGER \in Nat \ {0} /\ MaxLedger \in Nat /\ START_LEDGER <= MaxLedger
  /\ MaxRestarts \in Nat
  /\ None \notin [status : {"ACTIVE", "REPAID", "LIQUIDATED"}, last : Nat]

VARIABLES
  ledger,      \* the ledger the network is working on
  chain,       \* what the contract says of each loan
  events,      \* the events it emitted, oldest first
  db,          \* the Loan rows: status and lastEventLedger
  freed,       \* loans whose livestock row was set VERIFIED again
  registered,  \* loans whose borrower and livestock have rows
  cursor,      \* currentStartLedger
  poll,        \* per poll: the events left to handle, and how far the first one is
  retire,      \* per request: the loans left to submit, and the chunks left to record
  restarts

chainVars   == <<ledger, chain, events>>
indexerVars == <<chainVars, db, freed, registered, cursor, poll, retire, restarts>>

Terminal == {"REPAID", "LIQUIDATED"}
NoPoll   == [batch |-> <<>>, at |-> "read"]
NoRetire == [todo |-> <<>>, done |-> <<>>]

IndexerInit ==
  /\ ledger = START_LEDGER
  /\ chain = [l \in Loan |-> "None"] /\ events = <<>>
  /\ db = [l \in Loan |-> None] /\ freed = {} /\ registered = {}
  /\ cursor = START_LEDGER
  /\ poll = [p \in Poll |-> NoPoll] /\ retire = [r \in Request |-> NoRetire]
  /\ restarts = 0

-----------------------------------------------------------------------------
Emitted(kind, loans) ==
  events \o [i \in DOMAIN loans |-> [kind |-> kind, loan |-> loans[i], ledger |-> ledger]]

CloseLedger ==
  /\ ledger < MaxLedger
  /\ ledger' = ledger + 1
  /\ UNCHANGED <<chain, events, db, freed, registered, cursor, poll, retire, restarts>>

\* Somebody borrows, repays or is liquidated without the backend.
ChainStep(l, from, to, kind) ==
  /\ chain[l] = from /\ ledger < MaxLedger
  /\ chain'  = [chain EXCEPT ![l] = to]
  /\ events' = Emitted(kind, <<l>>)
  /\ UNCHANGED <<ledger, db, freed, registered, cursor, poll, retire, restarts>>

\* The borrower and the animals of a loan get their rows, before or after the loan exists.
Register(l) ==
  /\ l \notin registered
  /\ registered' = registered \cup {l}
  /\ UNCHANGED <<chainVars, db, freed, cursor, poll, retire, restarts>>

\* The backend restarts: polls, requests and the cursor live in memory.
Restart ==
  /\ restarts < MaxRestarts
  /\ restarts' = restarts + 1
  /\ cursor' = START_LEDGER
  /\ poll' = [p \in Poll |-> NoPoll] /\ retire' = [r \in Request |-> NoRetire]
  /\ UNCHANGED <<chainVars, db, freed, registered>>

-----------------------------------------------------------------------------
\* How many events are of ledgers before k: the first ones, for they are in the order of ledgers.
Before(k) == Cardinality({i \in DOMAIN events : events[i].ledger < k})

\* The events a poll is answered with: the oldest of the closed ledgers from the cursor on.
GetEvents ==
  LET from == Before(cursor)
      upTo == Before(ledger)
  IN  SubSeq(events, from + 1, IF upTo < from + PageLimit THEN upTo ELSE from + PageLimit)

\* The timer fires; it does not ask whether the previous poll is over.
PollEvents(p) ==
  /\ poll[p].batch = <<>> /\ GetEvents # <<>>
  /\ poll' = [poll EXCEPT ![p].batch = GetEvents]
  /\ UNCHANGED <<chainVars, db, freed, registered, cursor, retire, restarts>>

\* Mutant of Advance: one ledger too far.
AdvanceTooFar(e) == IF cursor < e.ledger + 2 THEN e.ledger + 2 ELSE cursor

\* Where the cursor goes when an event has been handled.
Advance(e) == IF cursor < e.ledger + 1 THEN e.ledger + 1 ELSE cursor

\* The poll goes on to its next event.
Handled(p) ==
  /\ cursor' = Advance(Head(poll[p].batch))
  /\ poll'   = [poll EXCEPT ![p] = [batch |-> Tail(@.batch), at |-> "read"]]

\* Mutant of IsReplay: the row is not consulted.
IsReplayNever(e) == FALSE

\* Mutant of IsReplay: what the cursor has passed is taken for known.
IsReplayByCursor(e) == e.ledger < cursor

\* What the guards of both handlers, on lastEventLedger and on a terminal status, turn away.
IsReplay(e) ==
  /\ db[e.loan] # None
  /\ \/ e.ledger <= db[e.loan].last
     \/ e.kind = "LoanCreated" /\ db[e.loan].status \in Terminal

\* A handler reads the loan and either drops the event or carries on to its write.
HandlerReads(p) ==
  /\ poll[p].batch # <<>> /\ poll[p].at = "read"
  /\ LET e == Head(poll[p].batch) IN
     \/ IsReplay(e) /\ Handled(p)
     \/ /\ ~IsReplay(e)
        /\ poll' = [poll EXCEPT ![p].at = IF e.kind = "AssetLiquidated" THEN "free" ELSE "write"]
        /\ UNCHANGED cursor
  /\ UNCHANGED <<chainVars, db, freed, registered, retire, restarts>>

\* A liquidation sets the livestock of the row VERIFIED before it writes the loan.
HandlerFrees(p) ==
  /\ poll[p].batch # <<>> /\ poll[p].at = "free"
  /\ LET l == Head(poll[p].batch).loan IN
     freed' = IF db[l] # None THEN freed \cup {l} ELSE freed
  /\ poll' = [poll EXCEPT ![p].at = "write"]
  /\ UNCHANGED <<chainVars, db, registered, cursor, retire, restarts>>

\* The rows after the write of an event: LoanCreated inserts or reactivates the loan of known
\* parties; a closing event updates a row, and an absent row is an error that is only logged.
Written(e) ==
  CASE e.kind = "LoanCreated" /\ e.loan \in registered ->
         [db EXCEPT ![e.loan] = [status |-> "ACTIVE", last |-> e.ledger]]
    [] e.kind = "LoanRepaid" /\ db[e.loan] # None ->
         [db EXCEPT ![e.loan] = [status |-> "REPAID", last |-> e.ledger]]
    [] e.kind = "AssetLiquidated" /\ db[e.loan] # None ->
         [db EXCEPT ![e.loan] = [status |-> "LIQUIDATED", last |-> e.ledger]]
    [] OTHER -> db

HandlerWrites(p) ==
  /\ poll[p].batch # <<>> /\ poll[p].at = "write"
  /\ db' = Written(Head(poll[p].batch))
  /\ Handled(p)
  /\ UNCHANGED <<chainVars, freed, registered, retire, restarts>>

\* Mutant of HandlerFails: the poll is given up, and the next one meets the same event.
HandlerFailsAgain(p) ==
  /\ poll[p].batch # <<>>
  /\ poll' = [poll EXCEPT ![p] = NoPoll]
  /\ UNCHANGED <<chainVars, db, freed, registered, cursor, retire, restarts>>

\* The database fails under a handler: the error is logged and the event is gone.
HandlerFails(p) ==
  /\ poll[p].batch # <<>>
  /\ Handled(p)
  /\ UNCHANGED <<chainVars, db, freed, registered, retire, restarts>>

-----------------------------------------------------------------------------
\* A retirement request passes validation: every loan it lists, once each, is ACTIVE in the
\* database now.
BulkRetire(r, loans) ==
  /\ retire[r] = NoRetire
  /\ loans # <<>>
  /\ \A i \in DOMAIN loans : db[loans[i]] # None /\ db[loans[i]].status = "ACTIVE"
  /\ retire' = [retire EXCEPT ![r].todo = loans]
  /\ UNCHANGED <<chainVars, db, freed, registered, cursor, poll, restarts>>

\* The next chunk of a request: at most MaxOps loans in one transaction.
Chunk(r) ==
  LET todo == retire[r].todo
  IN  SubSeq(todo, 1, IF Len(todo) < MaxOps THEN Len(todo) ELSE MaxOps)

\* The transaction of the next chunk succeeds: the contract closes all of its loans or none.
ChunkLands(r) ==
  /\ retire[r].todo # <<>> /\ ledger < MaxLedger
  /\ \A i \in DOMAIN Chunk(r) : chain[Chunk(r)[i]] = "Active"
  /\ chain'  = [l \in Loan |-> IF l \in Range(Chunk(r)) THEN "Repaid" ELSE chain[l]]
  /\ events' = Emitted("LoanRepaid", Chunk(r))
  /\ UNCHANGED ledger

\* The backend sees it confirmed and goes on to the next chunk.
ChunkSucceeds(r) ==
  /\ ChunkLands(r)
  /\ retire' = [retire EXCEPT ![r] =
       [todo |-> SubSeq(@.todo, Len(Chunk(r)) + 1, Len(@.todo)),
        done |-> Append(@.done, Range(Chunk(r)))]]
  /\ UNCHANGED <<db, freed, registered, cursor, poll, restarts>>

\* Mutant of ChunkFails: a failed chunk is recorded as if it were retired.
ChunkFailsRecorded(r) ==
  /\ retire[r].todo # <<>>
  /\ ChunkLands(r) \/ UNCHANGED chainVars
  /\ retire' = [retire EXCEPT ![r] = [todo |-> <<>>, done |-> Append(@.done, Range(Chunk(r)))]]
  /\ UNCHANGED <<db, freed, registered, cursor, poll, restarts>>

\* It is refused, or it landed and was not seen confirmed in time: the chunk counts as FAILED
\* and the chunks after it are SKIPPED.
ChunkFails(r) ==
  /\ retire[r].todo # <<>>
  /\ ChunkLands(r) \/ UNCHANGED chainVars
  /\ retire' = [retire EXCEPT ![r].todo = <<>>]
  /\ UNCHANGED <<db, freed, registered, cursor, poll, restarts>>

\* Once every chunk was tried, those that succeeded are written one by one; the ledger of the
\* last event stays as it was.
RecordChunk(r) ==
  /\ retire[r].todo = <<>> /\ retire[r].done # <<>>
  /\ db' = [l \in Loan |-> IF l \in Head(retire[r].done) THEN [db[l] EXCEPT !.status = "REPAID"]
                           ELSE db[l]]
  /\ retire' = [retire EXCEPT ![r].done = Tail(@)]
  /\ UNCHANGED <<chainVars, freed, registered, cursor, poll, restarts>>

-----------------------------------------------------------------------------
\* The lists of distinct loans a request can name.
LoanLists == UNION {{s \in [1 .. n -> Loan] : IsInjective(s)} : n \in {1, 2}}

IndexerNext ==
  \/ CloseLedger
  \/ Restart
  \/ \E l \in Loan : \/ ChainStep(l, "None", "Active", "LoanCreated")
                     \/ ChainStep(l, "Active", "Repaid", "LoanRepaid")
                     \/ ChainStep(l, "Active", "Liquidated", "AssetLiquidated")
                     \/ Register(l)
  \/ \E p \in Poll : \/ PollEvents(p)
                     \/ HandlerReads(p) \/ HandlerFrees(p) \/ HandlerWrites(p) \/ HandlerFails(p)
  \/ \E r \in Request : \/ \E loans \in LoanLists : BulkRetire(r, loans)
                        \/ ChunkSucceeds(r) \/ ChunkFails(r) \/ RecordChunk(r)
=============================================================================
