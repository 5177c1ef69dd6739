-------------------------- MODULE LivestockRequests --------------------------
(***************************************************************************)
(* The requests of farmers about their animals and loans                   *)
(* (src/src/controllers/livestock.controller.ts, loans.controller.ts, and  *)
(* invokeContract of services/soroban.service.ts): a registration          *)
(* appraises the animal, inserts its row and mints its collateral on the   *)
(* chain in the background, while owners and admins edit the row, the      *)
(* indexer writes loans, and loans are requested and read.                 *)
(*                                                                         *)
(* Code is atomic up to its next await: every request is a step per await. *)
(* All mints spend sequence numbers of one server account, and its         *)
(* transactions are valid for TX_TIMEOUT.  The chain and the database are  *)
(* external; time passes in pauses between two confirmation polls.         *)
(***************************************************************************)
EXTENDS Appraisal, Sequences

CONSTANTS
  Tag,            \* animal ids, the farmer's earmarks
  Farmer,         \* users with the role FARMER
  Register,       \* POST /livestock/register requests, each made at most once
  Call,           \* other requests under way at a time
  None,           \* an absent record
  Animals,        \* what a farmer declares: type, breed, weightKg, ageMonths, health
  MarketAnswers,  \* prices the market feed answers; the present stub only NoPrice
  Principals,     \* amounts asked for, in cents
  Edits,          \* the statuses admins set
  Limits,         \* page sizes of the market, 1 to 100 in the code
  MaxAttempts,    \* polls of waitForTransaction, 20 in the code
  TX_TIMEOUT,     \* setTimeout(30) in pauses of 3 seconds, 10 in the code
  MaxSequence     \* bound: sequence numbers others spend

Status == {"APPRAISED", "VERIFIED", "REJECTED"}
Row    == [owner : Farmer, status : Status, value : Nat, edited : BOOLEAN]
Registration == [tag : Tag, owner : Farmer, animal : Animals, step : {"appraise", "failed", "done"}]

\* A transaction is void before the last poll for it, as 30 seconds are over before 60.
ASSUME RequestsAssumption ==
  /\ IsFiniteSet(Register)
  /\ MaxAttempts \in Nat \ {0} /\ TX_TIMEOUT \in 0 .. MaxAttempts /\ MaxSequence \in Nat
  /\ MAX_DEVIATION_PCT \in Nat /\ MarketAnswers \subseteq Nat
  /\ \A a \in Animals :
       /\ a.type \in DOMAIN BASE_PRICE_PER_KG_USD /\ a.health \in DOMAIN HEALTH_MULTIPLIER
       /\ a.weightKg \in Nat /\ a.ageMonths \in Nat
  /\ Edits \subseteq Status /\ Limits \subseteq Nat \ {0}
  /\ None \notin Row \cup Registration

VARIABLES
  livestock, \* the Livestock rows by animalId, which is unique
  reg,       \* registrations between their duplicate check and their insert
  mint,      \* per registration: the mintCollateral promise
  tx,        \* per registration: its transaction, as the network sees it
  sequence,  \* the sequence number of the server account
  chainLoan, \* what the contract says of the loan on an animal
  loans,     \* the Loan rows, oldest first
  call       \* the other requests under way

requestVars == <<livestock, reg, mint, tx, sequence, chainLoan, loans, call>>

NoMint == [step |-> "none", seq |-> 0, left |-> 0, tries |-> 0, rested |-> FALSE]
NoTx   == [fate |-> "none", seq |-> 0, left |-> 0]

RequestsInit ==
  /\ sequence = 0
  /\ livestock = [t \in Tag |-> None] /\ chainLoan = [t \in Tag |-> "None"] /\ loans = <<>>
  /\ reg = [r \in Register |-> None]
  /\ mint = [r \in Register |-> NoMint] /\ tx = [r \in Register |-> NoTx]
  /\ call = [c \in Call |-> None]

\* The animals whose collateral the contract holds.
Minted == {reg[r].tag : r \in {q \in Register : tx[q].fate = "success"}}

\* A pause passes: transactions come closer to their time bound, and waiting mints may poll.
Tick ==
  /\ mint' = [r \in Register |-> [mint[r] EXCEPT
       !.left = IF @ > 0 THEN @ - 1 ELSE 0, !.rested = mint[r].step = "wait"]]
  /\ tx' = [r \in Register |-> [tx[r] EXCEPT !.left = IF @ > 0 THEN @ - 1 ELSE 0]]
  /\ UNCHANGED <<livestock, reg, sequence, chainLoan, loans, call>>

\* The backend restarts: everything it was waiting for is forgotten.
Restart ==
  /\ reg'  = [r \in Register |-> IF reg[r] # None /\ reg[r].step = "appraise"
                                 THEN [reg[r] EXCEPT !.step = "failed"] ELSE reg[r]]
  /\ mint' = [r \in Register |-> IF mint[r].step \in {"none", "done", "unseen"}
                                 THEN mint[r] ELSE [NoMint EXCEPT !.step = "unseen"]]
  /\ call' = [c \in Call |-> None]
  /\ UNCHANGED <<livestock, tx, sequence, chainLoan, loans>>

-----------------------------------------------------------------------------
\* registerLivestock up to its first await: the body is valid and the animalId is not taken.
RegisterChecks(r, f, t, a) ==
  /\ reg[r] = None /\ livestock[t] = None
  /\ reg' = [reg EXCEPT ![r] = [tag |-> t, owner |-> f, animal |-> a, step |-> "appraise"]]
  /\ UNCHANGED <<livestock, mint, tx, sequence, chainLoan, loans, call>>

\* The appraisal is there: the row is inserted as APPRAISED and the mint starts.
Inserted(r) ==
  /\ reg[r] # None /\ reg[r].step = "appraise"
  /\ \E market \in MarketAnswers :
       /\ AggregatedPricePerKg(reg[r].animal.type, reg[r].animal.breed, market) # NoPrice
       /\ livestock' = [livestock EXCEPT ![reg[r].tag] =
            [owner |-> reg[r].owner, status |-> "APPRAISED", edited |-> FALSE,
             value |-> AppraiseLivestock(reg[r].animal, market)]]
  /\ mint' = [mint EXCEPT ![r].step = "account"]
  /\ reg' = [reg EXCEPT ![r].step = "done"]
  /\ UNCHANGED <<tx, sequence, chainLoan, loans, call>>

\* Mutant of RegisterCreates: a taken animalId is not an error.
RegisterCreatesAgain(r) == Inserted(r)

\* The unique animalId refuses a second row.
RegisterCreates(r) == Inserted(r) /\ livestock[reg[r].tag] = None

\* The insert fails, on the unique animalId or otherwise, or the appraisal throws: an error.
RegisterFails(r) ==
  /\ reg[r] # None /\ reg[r].step = "appraise"
  /\ reg' = [reg EXCEPT ![r].step = "failed"]
  /\ UNCHANGED <<livestock, mint, tx, sequence, chainLoan, loans, call>>

-----------------------------------------------------------------------------
MintOnly(r, m) == /\ mint' = [mint EXCEPT ![r] = m]
                  /\ UNCHANGED <<livestock, reg, tx, sequence, chainLoan, loans, call>>

\* invokeContract reads the account and builds a transaction, which is then simulated.
MintBuilds(r) ==
  /\ mint[r].step = "account"
  /\ MintOnly(r, [mint[r] EXCEPT !.step = "send", !.seq = sequence + 1, !.left = TX_TIMEOUT])

\* sendTransaction has it queued, or told to try again later, which counts as sent; the answer
\* may be lost.
MintSends(r) ==
  /\ mint[r].step = "send" /\ mint[r].seq = sequence + 1
  /\ tx' = [tx EXCEPT ![r] = [fate |-> "pending", seq |-> mint[r].seq, left |-> mint[r].left]]
  /\ \E next \in {"wait", "lost"} : mint' = [mint EXCEPT ![r].step = next]
  /\ UNCHANGED <<livestock, reg, sequence, chainLoan, loans, call>>

\* What a poll makes of the transaction.
PollResult(r, otherwise) ==
  CASE tx[r].fate = "success" -> "minted"
    [] tx[r].fate = "failed"  -> "failed"
    [] tx[r].fate = "pending" -> otherwise

\* Mutant of MintPolls: one attempt too many.
MintPollsOnceMore(r) ==
  /\ mint[r].step = "wait" /\ mint[r].rested
  /\ MintOnly(r, [mint[r] EXCEPT
       !.tries = @ + 1, !.rested = FALSE,
       !.step  = PollResult(r, IF mint[r].tries < MaxAttempts THEN "wait" ELSE "failed")])

\* Mutant of MintPolls: polls without end.
MintPollsForever(r) ==
  /\ mint[r].step = "wait" /\ mint[r].rested
  /\ MintOnly(r, [mint[r] EXCEPT !.rested = FALSE, !.step = PollResult(r, "wait")])

\* waitForTransaction: a poll after every pause, until SUCCESS, FAILED or MaxAttempts.
MintPolls(r) ==
  /\ mint[r].step = "wait" /\ mint[r].rested
  /\ MintOnly(r, [mint[r] EXCEPT
       !.tries = @ + 1, !.rested = FALSE,
       !.step  = PollResult(r, IF mint[r].tries + 1 < MaxAttempts THEN "wait" ELSE "failed")])

\* A call of the RPC server fails, or it refuses the transaction: the promise rejects.
MintFails(r) ==
  /\ mint[r].step \in {"account", "send", "wait"}
  /\ MintOnly(r, [mint[r] EXCEPT !.step = IF @ = "wait" THEN "lost" ELSE "failed"])

\* The promise is kept: VERIFIED.
MintVerifies(r) ==
  /\ mint[r].step = "minted"
  /\ livestock' = [livestock EXCEPT ![reg[r].tag].status = "VERIFIED"]
  /\ mint' = [mint EXCEPT ![r].step = "done"]
  /\ UNCHANGED <<reg, tx, sequence, chainLoan, loans, call>>

\* That update fails: the catch behind it takes the mint for failed.
MintVerifyFails(r) ==
  /\ mint[r].step = "minted"
  /\ MintOnly(r, [mint[r] EXCEPT !.step = "lost"])

\* The promise was broken: REJECTED, unless this update fails too, which nobody sees.
MintRejects(r) ==
  /\ mint[r].step \in {"failed", "lost"}
  /\ \/ livestock' = [livestock EXCEPT ![reg[r].tag].status = "REJECTED"]
     \/ UNCHANGED livestock
  /\ mint' = [mint EXCEPT ![r].step = IF @ = "lost" THEN "unseen" ELSE "done"]
  /\ UNCHANGED <<reg, tx, sequence, chainLoan, loans, call>>

\* A ledger takes a pending transaction in time and in sequence; the contract accepts it or not.
TxLands(r, fate) ==
  /\ tx[r].fate = "pending" /\ tx[r].left > 0 /\ tx[r].seq = sequence + 1
  /\ tx' = [tx EXCEPT ![r].fate = fate] /\ sequence' = sequence + 1
  /\ UNCHANGED <<livestock, reg, mint, chainLoan, loans, call>>

\* Another call of invokeContract spends a sequence number of the account.
OtherTx ==
  /\ sequence < MaxSequence /\ sequence' = sequence + 1
  /\ UNCHANGED <<livestock, reg, mint, tx, chainLoan, loans, call>>

-----------------------------------------------------------------------------
Calls(c, record) == /\ call' = [call EXCEPT ![c] = record]
                    /\ UNCHANGED <<livestock, reg, mint, tx, sequence, chainLoan, loans>>

\* updateLivestock reads the row, which its owner or an admin may edit.
UpdateReads(c, t, status) ==
  /\ call[c] = None /\ livestock[t] # None
  /\ Calls(c, [kind |-> "update", tag |-> t, read |-> livestock[t].status, set |-> status])

\* The row's status is the admin's, if one gave it.
UpdateWritesTo(c, otherwise) ==
  /\ call[c] # None /\ call[c].kind = "update"
  /\ livestock' = [livestock EXCEPT
       ![call[c].tag].edited = @ \/ call[c].set # None,
       ![call[c].tag].status = IF call[c].set # None THEN call[c].set ELSE otherwise]
  /\ call' = [call EXCEPT ![c] = None]
  /\ UNCHANGED <<reg, mint, tx, sequence, chainLoan, loans>>

\* Mutant of UpdateWrites: the row is written back as it was read.
UpdateWritesRow(c) == UpdateWritesTo(c, call[c].read)

\* It writes the metadata, which nothing here depends on, and leaves the status alone.
UpdateWrites(c) == UpdateWritesTo(c, livestock[call[c].tag].status)

\* Mutant of Requestable: what my-kraal lists may be pledged.
RequestableInKraal(row, f, principal) ==
  row.owner = f /\ row.status \in {"VERIFIED", "APPRAISED"} /\ principal <= row.value

\* requestLoan's conditions on the row.
Requestable(row, f, principal) ==
  row.owner = f /\ row.status = "VERIFIED" /\ principal <= row.value

\* requestLoan reads the row and then waits for the loans of the animal.
LoanRequestReads(c, f, t, principal) ==
  /\ call[c] = None /\ livestock[t] # None /\ Requestable(livestock[t], f, principal)
  /\ Calls(c, [kind |-> "request", tag |-> t, owner |-> f, principal |-> principal])

ActiveLoans(t) == {i \in DOMAIN loans : loans[i].tag = t /\ loans[i].status = "ACTIVE"}

\* No active loan is indexed: the farmer is given the parameters of create_loan.
LoanRequestAnswers(c) ==
  /\ call[c] # None /\ call[c].kind = "request"
  /\ Calls(c, IF ActiveLoans(call[c].tag) = {} THEN [call[c] EXCEPT !.kind = "params"] ELSE None)

\* getLoanById reads the row and, for realtime, waits for the contract's answer.
LoanViewReads(c, i) ==
  /\ call[c] = None
  /\ Calls(c, [kind |-> "view", tag |-> loans[i].tag, row |-> loans[i].status, live |-> None])

LoanViewAnswers(c) ==
  /\ call[c] # None /\ call[c].kind = "view" /\ call[c].live = None
  /\ Calls(c, [call[c] EXCEPT !.live = chainLoan[call[c].tag]])

\* A request is over: its answer was read, or it ended in an error.
CallEnds(c) == call[c] # None /\ Calls(c, None)

\* The farmer has the contract create the loan, or closes it; the contract wants collateral.
ChainLoan(t) ==
  /\ t \in Minted
  /\ chainLoan' = [chainLoan EXCEPT ![t] =
       CASE @ = "None" -> "Active" [] @ = "Active" -> "Closed" [] OTHER -> @]
  /\ UNCHANGED <<livestock, reg, mint, tx, sequence, loans, call>>

\* The indexer inserts the row of a loan, and closes it; a liquidation sets the animal VERIFIED.
IndexLoan(t, status) ==
  /\ livestock[t] # None
  /\ \/ /\ status = "ACTIVE" /\ chainLoan[t] # "None" /\ \A i \in DOMAIN loans : loans[i].tag # t
        /\ loans' = Append(loans, [tag |-> t, status |-> status]) /\ UNCHANGED livestock
     \/ /\ status \in {"REPAID", "LIQUIDATED"} /\ chainLoan[t] = "Closed"
        /\ \E i \in ActiveLoans(t) : loans' = [loans EXCEPT ![i].status = status]
        /\ livestock' = IF status = "REPAID" THEN livestock
                        ELSE [livestock EXCEPT ![t].status = "VERIFIED"]
  /\ UNCHANGED <<reg, mint, tx, sequence, chainLoan, call>>

-----------------------------------------------------------------------------
\* getMyKraal: the animals a farmer is shown by default, or all of his.
MyKraal(f, all) ==
  {t \in Tag : /\ livestock[t] # None /\ livestock[t].owner = f
               /\ all \/ livestock[t].status \in {"VERIFIED", "APPRAISED"}}

\* getMarketLoans: the active loans, newest first, in pages of a limit.
OnMarket == {i \in DOMAIN loans : loans[i].status = "ACTIVE"}
Newest(k) == CHOOSE i \in OnMarket : Cardinality({j \in OnMarket : j > i}) = k - 1
Market    == [k \in 1 .. Cardinality(OnMarket) |-> loans[Newest(k)]]
TotalPages(limit) == (Len(Market) + limit - 1) \div limit
MarketPage(page, limit) ==
  LET skip == (page - 1) * limit
  IN  SubSeq(Market, skip + 1, IF skip + limit < Len(Market) THEN skip + limit ELSE Len(Market))

RequestsNext ==
  \/ Tick \/ Restart \/ OtherTx
  \/ \E r \in Register :
       \/ \E f \in Farmer, t \in Tag, a \in Animals : RegisterChecks(r, f, t, a)
       \/ RegisterCreates(r) \/ RegisterFails(r)
       \/ MintBuilds(r) \/ MintSends(r) \/ MintPolls(r) \/ MintFails(r)
       \/ MintVerifies(r) \/ MintVerifyFails(r) \/ MintRejects(r)
       \/ TxLands(r, "success") \/ TxLands(r, "failed")
  \/ \E c \in Call :
       \/ \E t \in Tag, s \in Edits \cup {None} : UpdateReads(c, t, s)
       \/ \E f \in Farmer, t \in Tag, p \in Principals : LoanRequestReads(c, f, t, p)
       \/ \E i \in DOMAIN loans : LoanViewReads(c, i)
       \/ UpdateWrites(c) \/ LoanRequestAnswers(c) \/ LoanViewAnswers(c) \/ CallEnds(c)
  \/ \E t \in Tag : ChainLoan(t) \/ \E s \in {"ACTIVE", "REPAID", "LIQUIDATED"} : IndexLoan(t, s)
=============================================================================
