----------------------- MODULE LivestockRequestsProofs -----------------------
(***************************************************************************)
(* Proofs, for every choice of the constants, of the safety properties of  *)
(* LivestockRequestsHistory.                                               *)
(***************************************************************************)
EXTENDS LivestockRequestsHistory, FiniteSetTheorems, SequenceTheorems, TLAPS

MintRecord == [step : {"none", "account", "send", "wait", "minted", "lost", "failed", "done", "unseen"},
               seq : Nat, left : 0 .. TX_TIMEOUT, tries : 0 .. MaxAttempts, rested : BOOLEAN]
TxRecord   == [fate : {"none", "pending", "success", "failed"}, seq : Nat, left : 0 .. TX_TIMEOUT]
LoanRow    == [tag : Tag, status : {"ACTIVE", "REPAID", "LIQUIDATED"}]

\* The types of what is stored, of a registration and its mint, and of a request under way.
StoreTypeOK ==
  /\ livestock \in [Tag -> Row \cup {None}]
  /\ sequence \in Nat
  /\ chainLoan \in [Tag -> {"None", "Active", "Closed"}]
  /\ loans \in Seq(LoanRow)

MintTypeOK ==
  /\ reg \in [Register -> Registration \cup {None}]
  /\ mint \in [Register -> MintRecord]
  /\ tx \in [Register -> TxRecord]

Landed == {r \in Register : tx[r].fate \in {"success", "failed"}}

\* Every sequence number was spent by another transaction or by a mint's that landed.
SequenceInv ==
  /\ sequence <= MaxSequence + Cardinality(Landed)
  /\ \A r \in Register : mint[r].seq <= sequence + 1

Registered(r) == reg[r] # None /\ reg[r].step = "done"

\* A mint belongs to a registration that inserted its row, and only one registration of an
\* animal did.
RowInv ==
  /\ \A r \in Register : mint[r].step # "none" => Registered(r)
  /\ \A r \in Register : Registered(r) => livestock[reg[r].tag] # None
  /\ \A q, r \in Register : Registered(q) /\ Registered(r) /\ reg[q].tag = reg[r].tag => q = r

\* No ledger can take this transaction, now or later.
Dead(x) == \/ x.fate \in {"none", "failed"}
           \/ x.fate = "pending" /\ x.left = 0

\* What a mint knows of its transaction: how many pauses it has left, counted with the polls
\* that were made, and whether it is over.
Follows(m, x) ==
  /\ m.step \in {"none", "account", "send"} => x.fate = "none" /\ m.tries = 0 /\ ~m.rested
  /\ m.step = "wait" =>
       /\ x.fate # "none" /\ m.tries < MaxAttempts
       /\ x.fate = "pending" /\ x.left > 0 =>
            x.left + m.tries + (IF m.rested THEN 1 ELSE 0) <= TX_TIMEOUT
  /\ m.step = "minted" => x.fate = "success"
  /\ m.step = "failed" => Dead(x)
MintInv == \A r \in Register : Follows(mint[r], tx[r])

\* A mint that is done has a transaction that is dead, or a row that is not rejected by it.
DoneInv ==
  \A r \in Register : mint[r].step = "done" =>
    \/ Dead(tx[r])
    \/ livestock[reg[r].tag].edited \/ livestock[reg[r].tag].status = "VERIFIED"

\* An animal is VERIFIED, or has a loan, because it was minted.
VerifiedInv ==
  /\ \A t \in Tag : livestock[t] # None /\ livestock[t].status = "VERIFIED"
       => t \in Minted \/ livestock[t].edited
  /\ \A t \in Tag : chainLoan[t] # "None" => t \in Minted

\* There is one loan per animal, and its row is not ahead of the contract.
LoansInv ==
  /\ \A i, j \in DOMAIN loans : i # j => loans[i].tag # loans[j].tag
  /\ \A i \in DOMAIN loans : loans[i].status # "ACTIVE" => chainLoan[loans[i].tag] = "Closed"

\* The requests under way: an edit, a loan that is asked for, a loan that is read.
UpdateCall == [kind : {"update"}, tag : Tag, read : Status, set : Edits \cup {None}]
LoanCall   == [kind : {"request", "params"}, tag : Tag, owner : Farmer, principal : Principals]
ViewCall   == [kind : {"view"}, tag : Tag, row : {"ACTIVE", "REPAID", "LIQUIDATED"},
               live : {None, "None", "Active", "Closed"}]

\* What a request read holds until it ends.
CallHolds(a) ==
  \/ a \in UpdateCall /\ livestock[a.tag] # None
  \/ /\ a \in LoanCall /\ livestock[a.tag] # None
     /\ livestock[a.tag].owner = a.owner /\ a.principal <= livestock[a.tag].value
     /\ a.tag \in Minted \/ livestock[a.tag].edited
  \/ /\ a \in ViewCall
     /\ a.row # "ACTIVE" => chainLoan[a.tag] = "Closed"
     /\ a.live # None /\ a.row # "ACTIVE" => a.live = "Closed"
CallInv == /\ call \in [Call -> UpdateCall \cup LoanCall \cup ViewCall \cup {None}]
           /\ \A c \in Call : call[c] # None => CallHolds(call[c])

IInv == /\ StoreTypeOK /\ MintTypeOK /\ SequenceInv /\ RowInv /\ MintInv
        /\ DoneInv /\ VerifiedInv /\ LoansInv /\ CallInv

-----------------------------------------------------------------------------
\* One or two answers have a median, and twice of it is a natural number.
LEMMA TwiceMedianIsNatural ==
  ASSUME NEW a \in Nat, NEW b \in Nat, NEW P \in SUBSET {1, 2}, P # {}
  PROVE  TwiceMedian(<<a, b>>, P) \in Nat
<1> DEFINE v == <<a, b>>
           lower(x) == {i \in P : v[i] < x}
           upTo(x)  == {i \in P : v[i] <= x}
           Held(k)  == \E x \in {v[i] : i \in P} : Cardinality(lower(x)) < k /\ Cardinality(upTo(x)) >= k
<1>1. \A k : Held(k) => SortedAt(v, P, k) \in Nat
  <2> SUFFICES ASSUME NEW k, Held(k) PROVE SortedAt(v, P, k) \in Nat
    OBVIOUS
  <2>1. SortedAt(v, P, k) \in {v[i] : i \in P}
    BY DEF SortedAt
  <2> QED
    BY <2>1
<1>2. ASSUME NEW i \in {1, 2}, P = {i} PROVE TwiceMedian(v, P) \in Nat
  <2>1. Cardinality(P) = 1 /\ Cardinality({}) = 0
    BY <1>2, FS_Singleton, FS_EmptySet
  <2>2. lower(v[i]) = {} /\ upTo(v[i]) = P /\ v[i] \in {v[j] : j \in P}
    BY <1>2
  <2>3. Held(1)
    <3> HIDE DEF lower, upTo, v
    <3> QED BY <2>1, <2>2
  <2>4. SortedAt(v, P, 1) \in Nat
    BY <1>1, <2>3
  <2> QED
    BY <2>1, <2>4 DEF TwiceMedian
<1>3. ASSUME P = {1, 2} PROVE TwiceMedian(v, P) \in Nat
  <2>1. Cardinality({1}) = 1 /\ Cardinality({2}) = 1 /\ Cardinality({}) = 0
    BY FS_Singleton, FS_EmptySet
  <2>2. Cardinality({1, 2}) = 2
    <3>1. {1, 2} = 1 .. 2
      OBVIOUS
    <3>2. \A m \in Nat : Cardinality(1 .. m) = m
      BY FS_Interval
    <3> QED
      BY <3>1, <3>2
  <2>3. PICK lo \in {a, b}, hi \in {a, b} : lo <= hi /\ a \in {lo, hi} /\ b \in {lo, hi}
    OBVIOUS
  <2>4. lo \in {v[i] : i \in P} /\ hi \in {v[i] : i \in P}
    BY <1>3, <2>3
  <2>5. lower(lo) = {} /\ upTo(lo) \in {{1}, {2}, {1, 2}}
    BY <1>3, <2>3
  <2>6. upTo(hi) = {1, 2} /\ lower(hi) \in {{}, {1}, {2}}
    BY <1>3, <2>3
  <2> HIDE DEF lower, upTo, v
  <2>7. Held(1) /\ Held(2)
    BY <2>1, <2>2, <2>4, <2>5, <2>6
  <2>8. SortedAt(v, P, 1) \in Nat /\ SortedAt(v, P, 2) \in Nat
    BY <1>1, <2>7
  <2>9. Cardinality(P) % 2 = 0 /\ Cardinality(P) \div 2 = 1
    BY <1>3, <2>2
  <2> QED
    BY <2>8, <2>9 DEF TwiceMedian
<1> QED
  BY <1>2, <1>3

\* Rounding a natural number leaves one.
LEMMA RoundIsNatural ==
  ASSUME NEW n \in Nat, NEW d \in Nat \ {0}
  PROVE  Round(n, d) \in Nat
<1>1. 2 * n + d \in Nat /\ 2 * d \in Nat \ {0}
  OBVIOUS
<1>2. \A a \in Nat, b \in Nat \ {0} : a \div b \in Nat
  OBVIOUS
<1> QED
  BY <1>1, <1>2 DEF Round

\* Every animal has a multiplier of its age, whatever the age.
LEMMA AgeMultiplierIsNatural ==
  ASSUME NEW type \in DOMAIN BASE_PRICE_PER_KG_USD, NEW age \in Nat
  PROVE  AgeMultiplier(type, age) \in Nat
<1> DEFINE prime == PrimeRange[type]
<1>1. prime[1] \in Nat /\ prime[2] \in Nat /\ prime[1] <= prime[2]
  BY DEF PrimeRange, BASE_PRICE_PER_KG_USD
<1>2. AgeMultiplier(type, age) =
        CASE 2 * age < prime[1]      -> 12
          [] 2 * age >= prime[1] /\ age < prime[1] -> 16
          [] age \in prime[1] .. prime[2] -> 20
          [] age > prime[2] /\ 2 * age <= 3 * prime[2] -> 17
          [] 2 * age > 3 * prime[2]  -> 13
  BY DEF AgeMultiplier
<1> HIDE DEF prime
<1> QED
  BY <1>1, <1>2

\* What an animal is appraised at is a natural number of cents.
LEMMA AppraisalIsNatural ==
  ASSUME NEW a \in Animals, NEW market \in MarketAnswers
  PROVE  AppraiseLivestock(a, market) \in Nat
<1> DEFINE price == InternalPrice(a.type, a.breed)
           twice == AggregatedPricePerKg(a.type, a.breed, market)
           age == AgeMultiplier(a.type, a.ageMonths)
           health == HEALTH_MULTIPLIER[a.health]
           ltv == LTV_RATIO[a.health]
<1>1. /\ a.type \in DOMAIN BASE_PRICE_PER_KG_USD /\ a.health \in DOMAIN HEALTH_MULTIPLIER
      /\ a.weightKg \in Nat /\ a.ageMonths \in Nat /\ market \in Nat
  BY RequestsAssumption
<1>2. \A m, n \in Nat : m * n \in Nat
  OBVIOUS
<1>3. price \in Nat
  <2>1. BASE_PRICE_PER_KG_USD[a.type] \in Nat
    BY <1>1 DEF BASE_PRICE_PER_KG_USD
  <2>2. BreedPremium(a.type, a.breed) \in Nat
    BY DEF BreedPremium
  <2> QED
    BY <1>2, <2>1, <2>2, Zenon DEF InternalPrice
<1>4. age \in Nat /\ health \in Nat /\ ltv \in Nat
  <2>1. health \in Nat /\ ltv \in Nat
    BY <1>1 DEF HEALTH_MULTIPLIER, LTV_RATIO
  <2> QED
    BY <1>1, <2>1, AgeMultiplierIsNatural
<1>5. twice \in Nat
  <2> DEFINE answers  == <<price, market>>
             answered == {i \in DOMAIN answers : answers[i] # NoPrice}
             kept     == RejectOutliers(answers, answered)
  <2>1. twice = IF kept = {} THEN NoPrice ELSE TwiceMedian(answers, kept)
    BY DEF AggregatedPricePerKg
  <2>2. kept \in SUBSET {1, 2}
    BY DEF RejectOutliers
  <2> HIDE DEF kept, price
  <2>3. kept # {} => TwiceMedian(answers, kept) \in Nat
    BY <1>1, <1>3, <2>2, TwiceMedianIsNatural
  <2> QED
    BY <2>1, <2>3 DEF NoPrice
<1> DEFINE worth == twice * a.weightKg * age * health
           value == Round(worth, 8000)
<1> HIDE DEF twice, age, health, ltv
<1>6. worth \in Nat
  BY <1>1, <1>2, <1>4, <1>5, Zenon
<1> HIDE DEF worth
<1>7. value \in Nat
  BY <1>6, RoundIsNatural
<1> HIDE DEF value
<1>8. value * ltv \in Nat
  BY <1>2, <1>4, <1>7, Zenon
<1>9. Round(value * ltv, 20) \in Nat
  BY <1>8, RoundIsNatural
<1> QED
  BY <1>9 DEF AppraiseLivestock, value, worth, twice, age, health, ltv

-----------------------------------------------------------------------------
\* The steps of a registration, its mint, its transaction, another request, and the chain.
RegisterStep(r) ==
  \/ \E f \in Farmer, t \in Tag, a \in Animals : RegisterChecks(r, f, t, a)
  \/ RegisterCreates(r) \/ RegisterFails(r)
MintStep(r) == \/ MintBuilds(r) \/ MintSends(r) \/ MintPolls(r) \/ MintFails(r)
               \/ MintVerifies(r) \/ MintVerifyFails(r) \/ MintRejects(r)
LandStep(r) == TxLands(r, "success") \/ TxLands(r, "failed")
CallStep(c) ==
  \/ \E t \in Tag, s \in Edits \cup {None} : UpdateReads(c, t, s)
  \/ \E f \in Farmer, t \in Tag, p \in Principals : LoanRequestReads(c, f, t, p)
  \/ \E i \in DOMAIN loans : LoanViewReads(c, i)
  \/ UpdateWrites(c) \/ LoanRequestAnswers(c) \/ LoanViewAnswers(c) \/ CallEnds(c)
ChainStep(t) ==
  ChainLoan(t) \/ \E s \in {"ACTIVE", "REPAID", "LIQUIDATED"} : IndexLoan(t, s)

\* Every step is one of them, or the clock's, a restart, or another transaction.
LEMMA StepKinds ==
  ASSUME [RequestsNext]_vars
  PROVE  \/ UNCHANGED requestVars
         \/ Tick \/ Restart \/ OtherTx
         \/ \E r \in Register : RegisterStep(r) \/ MintStep(r) \/ LandStep(r)
         \/ \E c \in Call : CallStep(c)
         \/ \E t \in Tag : ChainStep(t)
  BY Zenon DEF vars, RequestsNext, RegisterStep, MintStep, LandStep, CallStep, ChainStep

\* Rows are rows of the table.
LEMMA RowFields ==
  ASSUME NEW row \in Row, NEW s \in Status
  PROVE  /\ row # None /\ row.owner \in Farmer /\ row.status \in Status /\ row.value \in Nat
         /\ row.edited \in BOOLEAN
         /\ [row EXCEPT !.status = s] \in Row
         /\ [row EXCEPT !.status = s].status = s
         /\ [row EXCEPT !.status = s].owner = row.owner
         /\ [row EXCEPT !.status = s].value = row.value
         /\ [row EXCEPT !.status = s].edited = row.edited
<1>1. row # None
  BY RequestsAssumption
<1> QED
  BY <1>1 DEF Row

\* A registration that inserts its row finds none, and writes a valid one.
LEMMA CreatesFacts ==
  ASSUME StoreTypeOK, MintTypeOK, NEW r \in Register, RegisterCreates(r)
  PROVE  /\ reg[r] \in Registration /\ reg[r].step = "appraise" /\ livestock[reg[r].tag] = None
         /\ \E row \in Row : /\ row.status = "APPRAISED" /\ ~row.edited
                            /\ livestock' = [livestock EXCEPT ![reg[r].tag] = row]
         /\ reg' = [reg EXCEPT ![r].step = "done"]
         /\ mint' = [mint EXCEPT ![r].step = "account"]
         /\ UNCHANGED <<tx, sequence, chainLoan, loans, call>>
<1>1. reg[r] \in Registration
  BY DEF MintTypeOK, RegisterCreates, Inserted
<1>2. PICK market \in MarketAnswers :
        livestock' = [livestock EXCEPT ![reg[r].tag] =
            [owner |-> reg[r].owner, status |-> "APPRAISED", edited |-> FALSE,
             value |-> AppraiseLivestock(reg[r].animal, market)]]
  BY DEF RegisterCreates, Inserted
<1>3. reg[r].owner \in Farmer /\ reg[r].animal \in Animals
  BY <1>1 DEF Registration
<1>4. AppraiseLivestock(reg[r].animal, market) \in Nat
  BY <1>3, AppraisalIsNatural
<1> DEFINE row == [owner |-> reg[r].owner, status |-> "APPRAISED", edited |-> FALSE,
                   value |-> AppraiseLivestock(reg[r].animal, market)]
<1>5. row \in Row /\ row.status = "APPRAISED" /\ ~row.edited
  BY <1>3, <1>4 DEF Row, Status
<1> HIDE DEF row
<1>6. livestock' = [livestock EXCEPT ![reg[r].tag] = row]
  BY <1>2 DEF row
<1> QED
  BY <1>1, <1>5, <1>6 DEF RegisterCreates, Inserted

-----------------------------------------------------------------------------
\* A record with another step.
LEMMA MintFields ==
  ASSUME NEW m \in MintRecord,
         NEW step \in {"none", "account", "send", "wait", "minted", "lost", "failed", "done", "unseen"}
  PROVE  /\ m.seq \in Nat /\ m.left \in 0 .. TX_TIMEOUT /\ m.tries \in 0 .. MaxAttempts
         /\ m.rested \in BOOLEAN
         /\ [m EXCEPT !.step = step] \in MintRecord
         /\ [m EXCEPT !.step = step].step = step /\ [m EXCEPT !.step = step].seq = m.seq
         /\ [m EXCEPT !.step = step].left = m.left /\ [m EXCEPT !.step = step].tries = m.tries
         /\ [m EXCEPT !.step = step].rested = m.rested
  BY DEF MintRecord

\* A mint and a transaction after a pause.
Rested(m) == [m EXCEPT !.left = IF @ > 0 THEN @ - 1 ELSE 0, !.rested = m.step = "wait"]
Aged(x)   == [x EXCEPT !.left = IF @ > 0 THEN @ - 1 ELSE 0]

\* A pause: what follows a transaction still follows it.
LEMMA PauseFollows ==
  ASSUME NEW m \in MintRecord, NEW x \in TxRecord, Follows(m, x)
  PROVE  /\ Rested(m) \in MintRecord /\ Aged(x) \in TxRecord /\ Follows(Rested(m), Aged(x))
         /\ Rested(m).step = m.step /\ Rested(m).seq = m.seq /\ Aged(x).fate = x.fate
         /\ Dead(x) => Dead(Aged(x))
<1> PICK n : n = Rested(m)
  OBVIOUS
<1> PICK y : y = Aged(x)
  OBVIOUS
<1>1. /\ m.step \in {"none", "account", "send", "wait", "minted", "lost", "failed", "done", "unseen"}
      /\ m.seq \in Nat /\ m.left \in 0 .. TX_TIMEOUT /\ m.tries \in 0 .. MaxAttempts
      /\ m.rested \in BOOLEAN /\ MaxAttempts \in Nat /\ TX_TIMEOUT \in Nat
  BY RequestsAssumption DEF MintRecord
<1>2. /\ x.fate \in {"none", "pending", "success", "failed"} /\ x.seq \in Nat
      /\ x.left \in 0 .. TX_TIMEOUT
  BY DEF TxRecord
<1>3. n = [step |-> m.step, seq |-> m.seq, left |-> IF m.left > 0 THEN m.left - 1 ELSE 0,
           tries |-> m.tries, rested |-> m.step = "wait"]
  BY DEF MintRecord, Rested
<1>4. y = [fate |-> x.fate, seq |-> x.seq, left |-> IF x.left > 0 THEN x.left - 1 ELSE 0]
  BY DEF TxRecord, Aged
<1>5. n \in MintRecord
  <2>1. (IF m.left > 0 THEN m.left - 1 ELSE 0) \in 0 .. TX_TIMEOUT
    BY <1>1
  <2>2. (m.step = "wait") \in BOOLEAN
    OBVIOUS
  <2> QED
    BY <1>1, <1>3, <2>1, <2>2 DEF MintRecord
<1>6. y \in TxRecord
  <2>1. (IF x.left > 0 THEN x.left - 1 ELSE 0) \in 0 .. TX_TIMEOUT
    BY <1>1, <1>2
  <2> QED
    BY <1>2, <1>4, <2>1 DEF TxRecord
<1>7. /\ n.step = m.step /\ n.seq = m.seq /\ n.tries = m.tries /\ n.rested = (m.step = "wait")
      /\ y.fate = x.fate /\ y.seq = x.seq /\ y.left = IF x.left > 0 THEN x.left - 1 ELSE 0
  BY <1>3, <1>4
<1>8. Dead(x) => Dead(y)
  BY <1>2, <1>7 DEF Dead
<1>9. m.step = "wait" /\ x.fate = "pending" /\ y.left > 0
        => y.left + n.tries + (IF n.rested THEN 1 ELSE 0) <= TX_TIMEOUT
  BY <1>1, <1>2, <1>7 DEF Follows
<1>10. Follows(n, y)
  BY <1>7, <1>8, <1>9 DEF Follows
<1> QED
  BY <1>5, <1>6, <1>7, <1>8, <1>10

\* What a step of a mint leaves of the mint and its transaction.
MintGoesTo(r, m) ==
  /\ m \in MintRecord /\ mint' = [mint EXCEPT ![r] = m]
  /\ mint[r].step # "none" /\ m.step # "none" /\ m.seq <= sequence + 1
  /\ \/ tx' = tx /\ Follows(m, tx[r])
     \/ /\ mint[r].step = "send"
        /\ \E x \in TxRecord : tx' = [tx EXCEPT ![r] = x] /\ x.fate = "pending" /\ Follows(m, x)
  /\ UNCHANGED <<reg, sequence, chainLoan, loans, call>>

\* Every step of a mint follows its transaction.  A mint that fails at its last poll has made
\* more polls than a transaction has pauses.
LEMMA MintStepFollows ==
  ASSUME StoreTypeOK, MintTypeOK, SequenceInv, MintInv, NEW r \in Register, MintStep(r)
  PROVE  \E m \in MintRecord : MintGoesTo(r, m)
<1> DEFINE o == mint[r]
           x == tx[r]
           To(step) == [o EXCEPT !.step = step]
<1>1. o \in MintRecord /\ x \in TxRecord /\ Follows(o, x) /\ o.seq <= sequence + 1 /\ sequence \in Nat
  BY DEF MintTypeOK, MintInv, SequenceInv, StoreTypeOK
<1>2. /\ o.seq \in Nat /\ o.left \in 0 .. TX_TIMEOUT /\ o.tries \in 0 .. MaxAttempts
      /\ o.rested \in BOOLEAN /\ MaxAttempts \in Nat \ {0} /\ TX_TIMEOUT \in 0 .. MaxAttempts
  BY <1>1, RequestsAssumption DEF MintRecord
<1>3. /\ x.fate \in {"none", "pending", "success", "failed"} /\ x.left \in 0 .. TX_TIMEOUT
  BY <1>1 DEF TxRecord
<1> HIDE DEF o, x
<1>4. ASSUME NEW step \in {"account", "send", "wait", "minted", "lost", "failed", "done", "unseen"}
      PROVE  /\ To(step) \in MintRecord /\ To(step).step = step /\ To(step).seq = o.seq
             /\ To(step).left = o.left /\ To(step).tries = o.tries
             /\ To(step).rested = o.rested
  BY <1>1, <1>4 DEF MintRecord
<1>5. CASE MintBuilds(r)
  <2>0. PICK m : m = [o EXCEPT !.step = "send", !.seq = sequence + 1, !.left = TX_TIMEOUT]
    OBVIOUS
  <2>1. /\ m \in MintRecord /\ m.step = "send" /\ m.seq = sequence + 1
        /\ m.tries = o.tries /\ m.rested = o.rested
    <3>1. m = [step |-> "send", seq |-> sequence + 1, left |-> TX_TIMEOUT,
               tries |-> o.tries, rested |-> o.rested]
      BY <1>1, <2>0 DEF MintRecord
    <3>2. sequence + 1 \in Nat /\ TX_TIMEOUT \in 0 .. TX_TIMEOUT
      BY <1>1, <1>2
    <3> QED
      BY <1>2, <3>1, <3>2 DEF MintRecord
  <2>2. Follows(m, x)
    BY <1>1, <1>5, <2>1 DEF Follows, MintBuilds, o, x
  <2>3. mint' = [mint EXCEPT ![r] = m] /\ UNCHANGED <<reg, tx, sequence, chainLoan, loans, call>>
    BY <1>5, <2>0 DEF MintBuilds, MintOnly, o, x
  <2>4. o.step = "account"
    BY <1>5 DEF MintBuilds, o, x
  <2>5. MintGoesTo(r, m)
    BY <1>1, <2>1, <2>2, <2>3, <2>4 DEF MintGoesTo, o, x
  <2> QED
    BY <2>1, <2>5
<1>6. CASE MintSends(r)
  <2> DEFINE y == [fate |-> "pending", seq |-> o.seq, left |-> o.left]
  <2>1. y \in TxRecord /\ y.fate = "pending" /\ y.left = o.left
    BY <1>2 DEF TxRecord
  <2>2. PICK next \in {"wait", "lost"} : mint' = [mint EXCEPT ![r] = To(next)]
    BY <1>6 DEF MintSends, o, x
  <2>3. o.step = "send" /\ tx' = [tx EXCEPT ![r] = y] /\ UNCHANGED <<reg, sequence, chainLoan, loans, call>>
    BY <1>6 DEF MintSends, o, x
  <2>4. o.tries = 0 /\ ~o.rested
    BY <1>1, <2>3 DEF Follows
  <2>5. /\ To(next) \in MintRecord /\ To(next).step = next /\ To(next).seq = o.seq
        /\ To(next).tries = 0 /\ ~To(next).rested
    BY <1>4, <2>4
  <2> HIDE DEF y, To
  <2>6. Follows(To(next), y)
    BY <1>2, <2>1, <2>5 DEF Follows
  <2>7. MintGoesTo(r, To(next))
    BY <1>1, <2>1, <2>2, <2>3, <2>5, <2>6 DEF MintGoesTo, o, x
  <2> QED
    BY <2>5, <2>7
<1>7. CASE MintPolls(r)
  <2> DEFINE last == IF o.tries + 1 < MaxAttempts THEN "wait" ELSE "failed"
             step == PollResult(r, last)
  <2>0. PICK m : m = [o EXCEPT !.tries = @ + 1, !.rested = FALSE, !.step = step]
    OBVIOUS
  <2>1. o.step = "wait" /\ o.rested /\ x.fate # "none" /\ o.tries < MaxAttempts
    BY <1>1, <1>7 DEF MintPolls, Follows, o, x
  <2>2. x.fate = "pending" /\ x.left > 0 => x.left + o.tries + 1 <= TX_TIMEOUT
    BY <1>1, <2>1 DEF Follows
  <2>3. /\ x.fate = "success" => step = "minted"
        /\ x.fate = "failed" => step = "failed"
        /\ x.fate = "pending" => step = last
    BY DEF PollResult, o, x
  <2>4. step \in {"minted", "failed", "wait"}
    BY <1>3, <2>1, <2>3
  <2>5. /\ m \in MintRecord /\ m.step = step /\ m.seq = o.seq /\ m.tries = o.tries + 1 /\ ~m.rested
    <3>1. m = [step |-> step, seq |-> o.seq, left |-> o.left, tries |-> o.tries + 1, rested |-> FALSE]
      <4> HIDE DEF step
      <4> QED
        BY <1>1, <2>0 DEF MintRecord
    <3>2. o.tries + 1 \in 0 .. MaxAttempts
      BY <1>2, <2>1
    <3> HIDE DEF step
    <3> QED
      BY <1>2, <2>4, <3>1, <3>2 DEF MintRecord
  <2>6. mint' = [mint EXCEPT ![r] = m] /\ UNCHANGED <<reg, tx, sequence, chainLoan, loans, call>>
    BY <1>7, <2>0 DEF MintPolls, MintOnly, o, x
  <2>7. CASE x.fate # "pending"
    <3>1. (step = "minted" /\ x.fate = "success") \/ (step = "failed" /\ x.fate = "failed")
      BY <1>3, <2>1, <2>3, <2>7
    <3> HIDE DEF step
    <3>2. m.step = step /\ m.step \notin {"none", "account", "send", "wait"}
      BY <2>5, <3>1
    <3>2a. x.fate = "failed" => Dead(x)
      BY DEF Dead
    <3>2b. Follows(m, x)
      BY <3>1, <3>2, <3>2a DEF Follows
    <3>3. MintGoesTo(r, m)
      BY <1>1, <2>1, <2>5, <2>6, <3>1, <3>2, <3>2b DEF MintGoesTo, o, x
    <3> QED
      BY <2>5, <3>3
  <2>8. CASE x.fate = "pending"
    <3>1. step = last
      BY <2>3, <2>8
    <3>2. last = "failed" => x.left = 0
      BY <1>2, <1>3, <2>1, <2>2, <2>8
    <3>3. last = "wait" => o.tries + 1 < MaxAttempts
      OBVIOUS
    <3>4. last \in {"wait", "failed"}
      OBVIOUS
    <3> HIDE DEF step, last
    <3>5. CASE last = "wait"
      <4>1. m.step = "wait" /\ m.tries = o.tries + 1 /\ m.tries < MaxAttempts /\ ~m.rested
        BY <2>5, <3>1, <3>3, <3>5
      <4>2. x.left > 0 => x.left + m.tries <= TX_TIMEOUT
        BY <1>2, <1>3, <2>2, <2>8, <4>1
      <4>3. Follows(m, x)
        BY <1>2, <1>3, <2>8, <4>1, <4>2 DEF Follows
      <4>4. MintGoesTo(r, m)
        BY <1>1, <2>1, <2>5, <2>6, <4>1, <4>3 DEF MintGoesTo, o, x
      <4> QED
        BY <2>5, <4>4
    <3>6. CASE last = "failed"
      <4>1. Follows(m, x)
        BY <2>5, <2>8, <3>1, <3>2, <3>6 DEF Follows, Dead
      <4>2. MintGoesTo(r, m)
        BY <1>1, <2>1, <2>5, <2>6, <3>1, <3>6, <4>1 DEF MintGoesTo, o, x
      <4> QED
        BY <2>5, <4>2
    <3> QED
      BY <3>4, <3>5, <3>6
  <2> QED
    BY <2>7, <2>8
<1>8. ASSUME NEW step \in {"lost", "failed", "done", "unseen"},
             mint' = [mint EXCEPT ![r] = To(step)], o.step # "none",
             step = "failed" => Dead(x),
             UNCHANGED <<reg, tx, sequence, chainLoan, loans, call>>
      PROVE  \E m \in MintRecord : MintGoesTo(r, m)
  <2>1. To(step) \in MintRecord /\ To(step).step = step /\ To(step).seq = o.seq
    BY <1>4
  <2> HIDE DEF To
  <2>2. Follows(To(step), x)
    BY <1>8, <2>1 DEF Follows
  <2>3. MintGoesTo(r, To(step))
    BY <1>1, <1>8, <2>1, <2>2 DEF MintGoesTo, o, x
  <2> QED
    BY <2>1, <2>3
<1>9. CASE MintFails(r)
  <2>1. CASE o.step = "wait"
    BY <1>8, <1>9, <2>1 DEF MintFails, MintOnly, o, x
  <2>2. CASE o.step # "wait"
    <3>1. o.step \in {"account", "send"} /\ mint' = [mint EXCEPT ![r] = To("failed")]
      BY <1>9, <2>2 DEF MintFails, MintOnly, o, x
    <3>2. Dead(x)
      <4>1. o.step \in {"none", "account", "send"}
        BY <3>1
      <4>2. x.fate = "none"
        BY <1>1, <4>1 DEF Follows
      <4> QED
        BY <4>2 DEF Dead
    <3> QED
      BY <1>8, <1>9, <3>1, <3>2 DEF MintFails, MintOnly, o, x
  <2> QED
    BY <2>1, <2>2
<1>10. CASE MintVerifies(r)
  BY <1>8, <1>10 DEF MintVerifies, o, x
<1>11. CASE MintVerifyFails(r)
  BY <1>8, <1>11 DEF MintVerifyFails, MintOnly, o, x
<1>12. CASE MintRejects(r)
  <2>1. CASE o.step = "lost"
    BY <1>8, <1>12, <2>1 DEF MintRejects, o, x
  <2>2. CASE o.step # "lost"
    BY <1>8, <1>12, <2>2 DEF MintRejects, o, x
  <2> QED
    BY <2>1, <2>2
<1> QED
  BY <1>5, <1>6, <1>7, <1>9, <1>10, <1>11, <1>12 DEF MintStep

-----------------------------------------------------------------------------
\* What no step takes back: a registration's row, a landed transaction, a dead one that was
\* given up.
Kept ==
  \A r \in Register :
    /\ Registered(r) => Registered(r)' /\ reg'[r].tag = reg[r].tag
    /\ tx[r].fate = "success" => tx'[r].fate = "success"
    /\ mint[r].step \in {"failed", "done"} /\ Dead(tx[r]) => Dead(tx'[r])

\* The step of a registration changes no mint but its own, which it starts.
LEMMA RegisterStepKeepsMints ==
  ASSUME IInv, NEW r \in Register, RegisterStep(r)
  PROVE  MintTypeOK' /\ MintInv' /\ SequenceInv' /\ Kept
<1>1. StoreTypeOK /\ MintTypeOK /\ SequenceInv /\ RowInv /\ MintInv
  BY DEF IInv
<1>2. CASE RegisterCreates(r)
  <2>1. /\ reg[r] \in Registration /\ reg[r].step = "appraise"
        /\ reg' = [reg EXCEPT ![r].step = "done"]
        /\ mint' = [mint EXCEPT ![r].step = "account"]
        /\ UNCHANGED <<tx, sequence>>
    BY <1>1, <1>2, CreatesFacts
  <2>2. PICK g : g = [reg[r] EXCEPT !.step = "done"]
    OBVIOUS
  <2>3. g \in Registration /\ g.tag = reg[r].tag
    BY <2>1, <2>2 DEF Registration
  <2>4. reg' = [reg EXCEPT ![r] = g]
    BY <2>1, <2>2
  <2>5. ~Registered(r) /\ mint[r].step = "none"
    BY <1>1, <2>1 DEF Registered, RowInv
  <2>6. PICK m : m = [mint[r] EXCEPT !.step = "account"]
    OBVIOUS
  <2>7. /\ mint[r] \in MintRecord /\ Follows(mint[r], tx[r])
    BY <1>1 DEF MintTypeOK, MintInv
  <2>8. /\ m \in MintRecord /\ m.step = "account" /\ m.seq = mint[r].seq
        /\ m.tries = mint[r].tries /\ m.rested = mint[r].rested
    BY <2>6, <2>7, MintFields
  <2>9. Follows(m, tx[r])
    BY <2>5, <2>7, <2>8 DEF Follows
  <2>10. mint' = [mint EXCEPT ![r] = m]
    BY <2>1, <2>6
  <2>11. MintTypeOK'
    BY <1>1, <2>1, <2>3, <2>4, <2>8, <2>10 DEF MintTypeOK
  <2>12. MintInv'
    BY <1>1, <2>1, <2>9, <2>10 DEF MintInv, MintTypeOK
  <2>13. SequenceInv'
    BY <1>1, <2>1, <2>8, <2>10 DEF SequenceInv, MintTypeOK, Landed
  <2>14. Kept
    BY <1>1, <2>1, <2>4, <2>5 DEF Kept, MintTypeOK, Registered
  <2> QED
    BY <2>11, <2>12, <2>13, <2>14
<1>3. ASSUME NEW g \in Registration, g.step # "done", ~Registered(r),
             reg' = [reg EXCEPT ![r] = g], UNCHANGED <<mint, tx, sequence>>
      PROVE  MintTypeOK' /\ MintInv' /\ SequenceInv' /\ Kept
  <2>1. MintTypeOK'
    BY <1>1, <1>3 DEF MintTypeOK
  <2>2. MintInv' /\ SequenceInv'
    BY <1>1, <1>3 DEF MintInv, SequenceInv, Landed
  <2>3. Kept
    BY <1>1, <1>3 DEF Kept, MintTypeOK, Registered
  <2> QED
    BY <2>1, <2>2, <2>3
<1>4. CASE RegisterFails(r)
  <2>1. PICK g : g = [reg[r] EXCEPT !.step = "failed"]
    OBVIOUS
  <2>2. reg[r] \in Registration /\ reg[r].step = "appraise"
    BY <1>1, <1>4 DEF RegisterFails, MintTypeOK
  <2>3. g \in Registration /\ g.step = "failed"
    BY <2>1, <2>2 DEF Registration
  <2> QED
    BY <1>3, <1>4, <2>1, <2>2, <2>3 DEF RegisterFails, Registered
<1>5. ASSUME NEW f \in Farmer, NEW t \in Tag, NEW a \in Animals, RegisterChecks(r, f, t, a)
      PROVE  MintTypeOK' /\ MintInv' /\ SequenceInv' /\ Kept
  <2>1. PICK g : g = [tag |-> t, owner |-> f, animal |-> a, step |-> "appraise"]
    OBVIOUS
  <2>2. g \in Registration /\ g.step = "appraise"
    BY <2>1 DEF Registration
  <2> QED
    BY <1>3, <1>5, <2>1, <2>2 DEF RegisterChecks, Registered
<1> QED
  BY <1>2, <1>4, <1>5 DEF RegisterStep

\* The step of a mint.
LEMMA MintStepKeepsMints ==
  ASSUME IInv, NEW r \in Register, MintStep(r)
  PROVE  MintTypeOK' /\ MintInv' /\ SequenceInv' /\ Kept
<1>1. StoreTypeOK /\ MintTypeOK /\ SequenceInv /\ RowInv /\ MintInv
  BY DEF IInv
<1>2. PICK m \in MintRecord : MintGoesTo(r, m)
  BY <1>1, MintStepFollows
<1>3. /\ mint' = [mint EXCEPT ![r] = m] /\ m.seq <= sequence + 1
      /\ UNCHANGED <<reg, sequence>>
  BY <1>2 DEF MintGoesTo
<1>4. CASE tx' = tx /\ Follows(m, tx[r])
  <2>1. MintTypeOK'
    BY <1>1, <1>3, <1>4 DEF MintTypeOK
  <2>2. MintInv'
    BY <1>1, <1>3, <1>4 DEF MintInv, MintTypeOK
  <2>3. SequenceInv'
    BY <1>1, <1>3, <1>4 DEF SequenceInv, MintTypeOK, Landed
  <2>4. Kept
    BY <1>3, <1>4 DEF Kept, Registered
  <2> QED
    BY <2>1, <2>2, <2>3, <2>4
<1>5. ASSUME NEW x \in TxRecord, mint[r].step = "send", tx' = [tx EXCEPT ![r] = x],
             x.fate = "pending", Follows(m, x)
      PROVE  MintTypeOK' /\ MintInv' /\ SequenceInv' /\ Kept
  <2>1. tx[r].fate = "none"
    BY <1>1, <1>5 DEF MintInv, Follows
  <2>2. MintTypeOK'
    BY <1>1, <1>3, <1>5 DEF MintTypeOK
  <2>3. MintInv'
    BY <1>1, <1>3, <1>5 DEF MintInv, MintTypeOK
  <2>4. Landed' = Landed
    BY <1>1, <1>5, <2>1 DEF Landed, MintTypeOK
  <2>5. SequenceInv'
    BY <1>1, <1>3, <2>4 DEF SequenceInv, MintTypeOK
  <2>6. Kept
    BY <1>1, <1>3, <1>5, <2>1 DEF Kept, Registered, MintTypeOK
  <2> QED
    BY <2>2, <2>3, <2>5, <2>6
<1> QED
  BY <1>2, <1>4, <1>5 DEF MintGoesTo

\* A ledger takes a transaction: one more has landed, with one more sequence number.
LEMMA LandStepKeepsMints ==
  ASSUME IInv, NEW r \in Register, LandStep(r)
  PROVE  MintTypeOK' /\ MintInv' /\ SequenceInv' /\ Kept
<1>1. StoreTypeOK /\ MintTypeOK /\ SequenceInv /\ RowInv /\ MintInv
  BY DEF IInv
<1>2. PICK fate \in {"success", "failed"} : TxLands(r, fate)
  BY DEF LandStep
<1>3. /\ tx[r].fate = "pending" /\ tx[r].left > 0 /\ sequence' = sequence + 1
      /\ tx' = [tx EXCEPT ![r].fate = fate] /\ UNCHANGED <<reg, mint>>
  BY <1>2 DEF TxLands
<1>4. PICK x : x = [tx[r] EXCEPT !.fate = fate]
  OBVIOUS
<1>5. tx[r] \in TxRecord /\ Follows(mint[r], tx[r])
  BY <1>1 DEF MintTypeOK, MintInv
<1>6. x \in TxRecord /\ x.fate = fate /\ tx' = [tx EXCEPT ![r] = x]
  BY <1>3, <1>4, <1>5 DEF TxRecord
<1>7. tx[r].left \in Nat /\ ~Dead(tx[r])
  BY <1>3, <1>5, RequestsAssumption DEF TxRecord, Dead
<1>8. Follows(mint[r], x)
  BY <1>3, <1>5, <1>6, <1>7 DEF Follows
<1>9. MintTypeOK'
  BY <1>1, <1>3, <1>6 DEF MintTypeOK
<1>10. MintInv'
  BY <1>1, <1>3, <1>6, <1>8 DEF MintInv, MintTypeOK
<1>11. Landed' = Landed \cup {r} /\ r \notin Landed
  BY <1>1, <1>3, <1>6 DEF Landed, MintTypeOK
<1>12. IsFiniteSet(Landed) /\ Cardinality(Landed) \in Nat
  BY RequestsAssumption, FS_Subset, FS_CardinalityType DEF Landed
<1>13. Cardinality(Landed') = Cardinality(Landed) + 1
  BY <1>11, <1>12, FS_AddElement
<1>14. sequence \in Nat /\ MaxSequence \in Nat /\ \A q \in Register : mint[q].seq \in Nat
  BY <1>1, RequestsAssumption DEF StoreTypeOK, MintTypeOK, MintRecord
<1>15. SequenceInv'
  BY <1>1, <1>3, <1>12, <1>13, <1>14 DEF SequenceInv
<1>16. Kept
  BY <1>1, <1>3, <1>6, <1>7 DEF Kept, Registered, MintTypeOK
<1> QED
  BY <1>9, <1>10, <1>15, <1>16

\* A pause.
LEMMA TickKeepsMints ==
  ASSUME IInv, Tick
  PROVE  MintTypeOK' /\ MintInv' /\ SequenceInv' /\ Kept
<1>1. StoreTypeOK /\ MintTypeOK /\ SequenceInv /\ RowInv /\ MintInv
  BY DEF IInv
<1>2. UNCHANGED <<reg, sequence>>
  BY DEF Tick
<1>3. ASSUME NEW r \in Register
      PROVE  /\ mint'[r] \in MintRecord /\ tx'[r] \in TxRecord /\ Follows(mint'[r], tx'[r])
             /\ mint'[r].step = mint[r].step /\ mint'[r].seq = mint[r].seq
             /\ tx'[r].fate = tx[r].fate
             /\ Dead(tx[r]) => Dead(tx'[r])
  <2>1. mint'[r] = Rested(mint[r])
    BY DEF Tick, Rested
  <2>2. tx'[r] = Aged(tx[r])
    BY DEF Tick, Aged
  <2>3. mint[r] \in MintRecord /\ tx[r] \in TxRecord /\ Follows(mint[r], tx[r])
    BY <1>1 DEF MintTypeOK, MintInv
  <2> QED
    BY <2>1, <2>2, <2>3, PauseFollows
<1>4. MintTypeOK'
  <2>1. mint' \in [Register -> MintRecord]
    BY <1>3 DEF Tick
  <2>2. tx' \in [Register -> TxRecord]
    BY <1>3 DEF Tick
  <2> QED
    BY <1>1, <1>2, <2>1, <2>2 DEF MintTypeOK
<1>5. MintInv'
  BY <1>3 DEF MintInv
<1>6. Landed' = Landed
  BY <1>3 DEF Landed
<1>7. SequenceInv'
  BY <1>1, <1>2, <1>3, <1>6 DEF SequenceInv
<1>8. Kept
  BY <1>2, <1>3 DEF Kept, Registered
<1> QED
  BY <1>4, <1>5, <1>7, <1>8

\* A restart forgets the mints that were under way, and the registrations not inserted yet.
LEMMA RestartKeepsMints ==
  ASSUME IInv, Restart
  PROVE  MintTypeOK' /\ MintInv' /\ SequenceInv' /\ Kept
<1>1. StoreTypeOK /\ MintTypeOK /\ SequenceInv /\ RowInv /\ MintInv
  BY DEF IInv
<1>2. UNCHANGED <<tx, sequence>>
  BY DEF Restart
<1>3. PICK unseen : unseen = [NoMint EXCEPT !.step = "unseen"]
  OBVIOUS
<1>4. unseen \in MintRecord /\ unseen.step = "unseen" /\ unseen.seq = 0
  <2>1. NoMint \in MintRecord /\ NoMint.seq = 0
    BY RequestsAssumption DEF NoMint, MintRecord
  <2> QED
    BY <1>3, <2>1, MintFields
<1>5. ASSUME NEW r \in Register
      PROVE  mint'[r] = mint[r] \/ mint'[r] = unseen
  BY <1>3 DEF Restart
<1>6. ASSUME NEW r \in Register
      PROVE  /\ reg'[r] \in Registration \cup {None}
             /\ Registered(r) => reg'[r] = reg[r]
  <2>1. reg'[r] = IF reg[r] # None /\ reg[r].step = "appraise"
                  THEN [reg[r] EXCEPT !.step = "failed"] ELSE reg[r]
    BY DEF Restart
  <2>2. reg[r] \in Registration \cup {None}
    BY <1>1 DEF MintTypeOK
  <2>3. CASE reg[r] # None /\ reg[r].step = "appraise"
    <3>1. PICK g : g = [reg[r] EXCEPT !.step = "failed"]
      OBVIOUS
    <3>2. g \in Registration
      BY <2>2, <2>3, <3>1 DEF Registration
    <3> QED
      BY <2>1, <2>3, <3>1, <3>2 DEF Registered
  <2>4. CASE ~ (reg[r] # None /\ reg[r].step = "appraise")
    BY <2>1, <2>2, <2>4
  <2> QED
    BY <2>3, <2>4
<1>7. MintTypeOK'
  <2>1. \A r \in Register : mint'[r] \in MintRecord
    BY <1>1, <1>4, <1>5 DEF MintTypeOK
  <2>2. mint' \in [Register -> MintRecord]
    BY <2>1 DEF Restart
  <2>3. reg' \in [Register -> Registration \cup {None}]
    BY <1>6 DEF Restart
  <2> QED
    BY <1>1, <1>2, <2>2, <2>3 DEF MintTypeOK
<1>8. MintInv'
  <2>1. \A r \in Register : Follows(unseen, tx[r])
    BY <1>4 DEF Follows
  <2> QED
    BY <1>1, <1>2, <1>5, <2>1 DEF MintInv
<1>9. SequenceInv'
  BY <1>1, <1>2, <1>4, <1>5 DEF SequenceInv, Landed, StoreTypeOK
<1>10. Kept
  BY <1>2, <1>6 DEF Kept, Registered
<1> QED
  BY <1>7, <1>8, <1>9, <1>10

\* Together.
LEMMA StepKeepsMints ==
  ASSUME IInv, [RequestsNext]_vars
  PROVE  MintTypeOK' /\ MintInv' /\ SequenceInv' /\ Kept
<1>1. ASSUME UNCHANGED <<reg, mint, tx, sequence>>
      PROVE  MintTypeOK' /\ MintInv' /\ SequenceInv' /\ Kept
  BY <1>1 DEF IInv, MintTypeOK, MintInv, SequenceInv, Landed, Kept, Registered
<1>2. CASE OtherTx
  <2>1. sequence \in Nat /\ \A r \in Register : mint[r].seq \in Nat
    BY DEF IInv, StoreTypeOK, MintTypeOK, MintRecord
  <2>2. Cardinality(Landed) \in Nat /\ MaxSequence \in Nat
    BY RequestsAssumption, FS_Subset, FS_CardinalityType DEF Landed
  <2>3. SequenceInv'
    BY <1>2, <2>1, <2>2 DEF OtherTx, IInv, SequenceInv, Landed
  <2> QED
    BY <1>2, <2>3 DEF OtherTx, IInv, MintTypeOK, MintInv, Kept, Registered
<1>3. ASSUME NEW c \in Call, CallStep(c)
      PROVE  UNCHANGED <<reg, mint, tx, sequence>>
  BY <1>3 DEF CallStep, UpdateReads, LoanRequestReads, LoanViewReads, UpdateWrites, UpdateWritesTo,
     LoanRequestAnswers, LoanViewAnswers, CallEnds, Calls
<1>4. ASSUME NEW t \in Tag, ChainStep(t)
      PROVE  UNCHANGED <<reg, mint, tx, sequence>>
  BY <1>4 DEF ChainStep, ChainLoan, IndexLoan
<1>5. CASE UNCHANGED requestVars
  BY <1>1, <1>5 DEF requestVars
<1> QED
  BY <1>1, <1>2, <1>3, <1>4, <1>5, StepKinds, TickKeepsMints, RestartKeepsMints,
     RegisterStepKeepsMints, MintStepKeepsMints, LandStepKeepsMints

-----------------------------------------------------------------------------
\* What can happen to the row of an animal in a step: nothing, its insertion, the end of its
\* mint, an admin's edit, or the liquidation of its loan.
SameStatus(t) == /\ livestock'[t].status = livestock[t].status
                 /\ livestock'[t].edited = livestock[t].edited
MintEnds(t) ==
  \E r \in Register :
    /\ Registered(r) /\ reg[r].tag = t /\ livestock'[t].edited = livestock[t].edited
    /\ \/ mint[r].step = "minted" /\ livestock'[t].status = "VERIFIED"
       \/ mint[r].step \in {"failed", "lost"} /\ livestock'[t].status = "REJECTED"
Liquidated(t) == /\ chainLoan[t] = "Closed" /\ livestock'[t].status = "VERIFIED"
                 /\ livestock'[t].edited = livestock[t].edited

RowMoves(t) ==
  /\ livestock[t] # None =>
       /\ livestock'[t] # None
       /\ livestock'[t].owner = livestock[t].owner /\ livestock'[t].value = livestock[t].value
       /\ livestock[t].edited => livestock'[t].edited
       /\ SameStatus(t) \/ livestock'[t].edited \/ MintEnds(t) \/ Liquidated(t)
  /\ livestock[t] = None /\ livestock'[t] # None =>
       /\ livestock'[t].status = "APPRAISED"
       /\ \E r \in Register : RegisterCreates(r) /\ reg[r].tag = t

\* The rows after a step.
RowsMove == livestock' \in [Tag -> Row \cup {None}] /\ \A t \in Tag : RowMoves(t)

\* A row that is replaced by one of the same owner and value moves like that.
LEMMA OneRowMoves ==
  ASSUME StoreTypeOK, NEW t \in Tag, NEW row \in Row, livestock' = [livestock EXCEPT ![t] = row],
         RowMoves(t)
  PROVE  RowsMove
<1>1. livestock' \in [Tag -> Row \cup {None}]
  BY DEF StoreTypeOK
<1>2. ASSUME NEW u \in Tag, u # t PROVE RowMoves(u)
  <2>1. livestock'[u] = livestock[u]
    BY <1>2 DEF StoreTypeOK
  <2> QED
    BY <2>1 DEF RowMoves, SameStatus
<1> QED
  BY <1>1, <1>2 DEF RowsMove

\* A status that is set leaves the rest of the row.
LEMMA StatusIsSet ==
  ASSUME StoreTypeOK, NEW t \in Tag, livestock[t] # None, NEW status \in Status,
         livestock' = [livestock EXCEPT ![t].status = status]
  PROVE  /\ \E row \in Row : livestock' = [livestock EXCEPT ![t] = row]
         /\ livestock'[t] # None /\ livestock'[t].status = status
         /\ livestock'[t].owner = livestock[t].owner /\ livestock'[t].value = livestock[t].value
         /\ livestock'[t].edited = livestock[t].edited
<1>1. PICK row : row = [livestock[t] EXCEPT !.status = status]
  OBVIOUS
<1>2. livestock[t] \in Row
  BY DEF StoreTypeOK
<1>3. /\ row \in Row /\ row # None /\ row.status = status
      /\ row.owner = livestock[t].owner /\ row.value = livestock[t].value
      /\ row.edited = livestock[t].edited
  BY <1>1, <1>2, RowFields
<1>4. livestock' = [livestock EXCEPT ![t] = row] /\ livestock'[t] = row
  BY <1>1 DEF StoreTypeOK
<1> QED
  BY <1>3, <1>4

\* Every step moves the rows like that.
LEMMA StepMovesRows ==
  ASSUME IInv, [RequestsNext]_vars
  PROVE  RowsMove
<1>1. StoreTypeOK /\ MintTypeOK /\ RowInv /\ CallInv
  BY DEF IInv
<1>2. ASSUME UNCHANGED livestock PROVE RowsMove
  BY <1>1, <1>2 DEF RowsMove, RowMoves, SameStatus, StoreTypeOK
<1>3. ASSUME NEW r \in Register, RegisterCreates(r) PROVE RowsMove
  <2>1. reg[r] \in Registration /\ livestock[reg[r].tag] = None
    BY <1>1, <1>3, CreatesFacts
  <2>2. PICK row \in Row : /\ row.status = "APPRAISED"
                          /\ livestock' = [livestock EXCEPT ![reg[r].tag] = row]
    BY <1>1, <1>3, CreatesFacts
  <2>3. reg[r].tag \in Tag
    BY <2>1 DEF Registration
  <2>4. livestock'[reg[r].tag] = row
    BY <1>1, <2>2, <2>3 DEF StoreTypeOK
  <2>5. RowMoves(reg[r].tag)
    BY <1>3, <2>1, <2>2, <2>4 DEF RowMoves
  <2> QED
    BY <1>1, <2>2, <2>3, <2>5, OneRowMoves
<1>4. ASSUME NEW t \in Tag, livestock[t] # None, NEW status \in Status,
             livestock' = [livestock EXCEPT ![t].status = status],
             \/ \E r \in Register :
                  /\ Registered(r) /\ reg[r].tag = t
                  /\ \/ mint[r].step = "minted" /\ status = "VERIFIED"
                     \/ mint[r].step \in {"failed", "lost"} /\ status = "REJECTED"
             \/ chainLoan[t] = "Closed" /\ status = "VERIFIED"
      PROVE  RowsMove
  <2>1. PICK row \in Row : livestock' = [livestock EXCEPT ![t] = row]
    BY <1>1, <1>4, StatusIsSet
  <2>2. /\ livestock'[t] # None /\ livestock'[t].status = status
        /\ livestock'[t].owner = livestock[t].owner /\ livestock'[t].value = livestock[t].value
        /\ livestock'[t].edited = livestock[t].edited
    BY <1>1, <1>4, StatusIsSet
  <2>3. MintEnds(t) \/ Liquidated(t)
    BY <1>4, <2>2 DEF MintEnds, Liquidated
  <2>4. RowMoves(t)
    BY <1>4, <2>2, <2>3 DEF RowMoves
  <2> QED
    BY <1>1, <2>1, <2>4, OneRowMoves
<1>5. ASSUME NEW r \in Register, MintStep(r) PROVE RowsMove
  <2>1. CASE UNCHANGED livestock
    BY <1>2, <2>1
  <2>2. ASSUME NEW status \in Status, livestock' = [livestock EXCEPT ![reg[r].tag].status = status],
               \/ mint[r].step = "minted" /\ status = "VERIFIED"
               \/ mint[r].step \in {"failed", "lost"} /\ status = "REJECTED"
        PROVE  RowsMove
    <3>1. Registered(r) /\ livestock[reg[r].tag] # None
      BY <1>1, <2>2 DEF RowInv
    <3>2. reg[r].tag \in Tag
      BY <1>1, <3>1 DEF Registered, MintTypeOK, Registration
    <3> QED
      BY <1>4, <2>2, <3>1, <3>2
  <2>3. CASE MintVerifies(r)
    BY <2>2, <2>3 DEF MintVerifies, Status
  <2>4. CASE MintRejects(r)
    BY <2>1, <2>2, <2>4 DEF MintRejects, Status
  <2> QED
    BY <1>5, <2>1, <2>3, <2>4 DEF MintStep, MintBuilds, MintSends, MintPolls, MintFails,
       MintVerifyFails, MintOnly
<1>6. ASSUME NEW c \in Call, UpdateWrites(c) PROVE RowsMove
  <2> DEFINE t == call[c].tag
             set == call[c].set
             edited == livestock[t].edited \/ set # None
             status == IF set # None THEN set ELSE livestock[t].status
  <2>1. call[c] # None /\ call[c].kind = "update"
    BY <1>6 DEF UpdateWrites, UpdateWritesTo
  <2>2. t \in Tag /\ livestock[t] # None /\ set \in Edits \cup {None}
    BY <1>1, <2>1 DEF CallInv, CallHolds, UpdateCall, LoanCall, ViewCall
  <2>3. livestock[t] \in Row
    BY <1>1, <2>2 DEF StoreTypeOK
  <2>4. edited \in BOOLEAN /\ status \in Status
    BY <2>2, <2>3, RowFields, RequestsAssumption DEF Row
  <2>5. PICK row : row = [livestock[t] EXCEPT !.edited = edited, !.status = status]
    OBVIOUS
  <2>6. livestock' = [livestock EXCEPT ![t].edited = edited, ![t].status = status]
    BY <1>6 DEF UpdateWrites, UpdateWritesTo
  <2>7. livestock' = [livestock EXCEPT ![t] = row] /\ livestock'[t] = row
    <3> HIDE DEF t, edited, status
    <3> QED
      BY <1>1, <2>2, <2>5, <2>6 DEF StoreTypeOK
  <2>8. /\ row \in Row /\ row.status = status /\ row.edited = edited
        /\ row.owner = livestock[t].owner /\ row.value = livestock[t].value
    <3> HIDE DEF t, edited, status
    <3> QED
      BY <2>3, <2>4, <2>5 DEF Row
  <2>9. row # None
    BY <2>8, RowFields, RequestsAssumption
  <2>10. RowMoves(t)
    <3>1. CASE set # None
      BY <2>2, <2>7, <2>8, <2>9, <3>1 DEF RowMoves
    <3>2. CASE set = None
      <4>1. livestock'[t].status = livestock[t].status
        BY <2>7, <2>8, <3>2
      <4>2. livestock'[t].edited = livestock[t].edited
        BY <2>3, <2>7, <2>8, <3>2, Zenon DEF Row
      <4> QED
        BY <2>2, <2>7, <2>8, <2>9, <4>1, <4>2 DEF RowMoves, SameStatus
    <3> QED
      BY <3>1, <3>2
  <2> QED
    BY <1>1, <2>2, <2>7, <2>8, <2>10, OneRowMoves
<1>7. ASSUME NEW c \in Call, CallStep(c) PROVE RowsMove
  BY <1>2, <1>6, <1>7 DEF CallStep, UpdateReads, LoanRequestReads, LoanViewReads,
     LoanRequestAnswers, LoanViewAnswers, CallEnds, Calls
<1>8. ASSUME NEW t \in Tag, ChainStep(t) PROVE RowsMove
  <2>1. CASE ChainLoan(t)
    BY <1>2, <2>1 DEF ChainLoan
  <2>2. ASSUME NEW s \in {"ACTIVE", "REPAID", "LIQUIDATED"}, IndexLoan(t, s) PROVE RowsMove
    <3>1. CASE UNCHANGED livestock
      BY <1>2, <3>1
    <3>2. CASE ~ UNCHANGED livestock
      <4>1. /\ livestock[t] # None /\ chainLoan[t] = "Closed"
            /\ livestock' = [livestock EXCEPT ![t].status = "VERIFIED"]
        BY <2>2, <3>2 DEF IndexLoan
      <4> QED
        BY <1>4, <4>1 DEF Status
    <3> QED
      BY <3>1, <3>2
  <2> QED
    BY <1>8, <2>1, <2>2 DEF ChainStep
<1>9. CASE Tick \/ Restart \/ OtherTx \/ UNCHANGED requestVars
  BY <1>2, <1>9 DEF Tick, Restart, OtherTx, requestVars
<1>10. ASSUME NEW r \in Register, RegisterStep(r) \/ LandStep(r) PROVE RowsMove
  BY <1>2, <1>3, <1>10 DEF RegisterStep, LandStep, RegisterChecks, RegisterFails, TxLands
<1> QED
  BY <1>5, <1>7, <1>8, <1>9, <1>10, StepKinds

-----------------------------------------------------------------------------
\* A registration is done, and its mint started, by its insert alone.
LEMMA OnlyInsertsStart ==
  ASSUME IInv, [RequestsNext]_vars, NEW r \in Register, ~RegisterCreates(r)
  PROVE  /\ Registered(r)' => Registered(r) /\ reg'[r].tag = reg[r].tag
         /\ mint'[r].step # "none" => mint[r].step # "none"
<1>1. StoreTypeOK /\ MintTypeOK /\ SequenceInv /\ RowInv /\ MintInv
  BY DEF IInv
<1> DEFINE Same == reg'[r] = reg[r] /\ mint'[r] = mint[r]
<1>2. ASSUME Same
      PROVE  /\ Registered(r)' => Registered(r) /\ reg'[r].tag = reg[r].tag
             /\ mint'[r].step # "none" => mint[r].step # "none"
  BY <1>2 DEF Registered
<1>3. ASSUME NEW q \in Register, RegisterStep(q)
      PROVE  /\ Registered(r)' => Registered(r) /\ reg'[r].tag = reg[r].tag
             /\ mint'[r].step # "none" => mint[r].step # "none"
  <2>1. CASE q # r
    <3>1. CASE RegisterCreates(q)
      BY <1>1, <1>2, <2>1, <3>1, CreatesFacts DEF MintTypeOK
    <3>2. CASE RegisterFails(q)
      BY <1>1, <1>2, <2>1, <3>2 DEF RegisterFails, MintTypeOK
    <3>3. CASE \E f \in Farmer, t \in Tag, a \in Animals : RegisterChecks(q, f, t, a)
      BY <1>1, <1>2, <2>1, <3>3 DEF RegisterChecks, MintTypeOK
    <3> QED
      BY <1>3, <3>1, <3>2, <3>3 DEF RegisterStep
  <2>2. CASE q = r
    <3>1. CASE RegisterFails(r)
      <4>1. reg[r] \in Registration
        BY <1>1, <3>1 DEF RegisterFails, MintTypeOK
      <4>2. reg'[r].step = "failed" /\ mint' = mint
        BY <1>1, <3>1, <4>1 DEF RegisterFails, MintTypeOK, Registration
      <4> QED
        BY <4>2 DEF Registered
    <3>2. ASSUME NEW f \in Farmer, NEW t \in Tag, NEW a \in Animals, RegisterChecks(r, f, t, a)
          PROVE  reg'[r].step = "appraise" /\ mint' = mint
      BY <1>1, <3>2 DEF RegisterChecks, MintTypeOK
    <3> QED
      BY <1>3, <2>2, <3>1, <3>2 DEF RegisterStep, Registered
  <2> QED
    BY <2>1, <2>2
<1>4. ASSUME NEW q \in Register, MintStep(q)
      PROVE  /\ Registered(r)' => Registered(r) /\ reg'[r].tag = reg[r].tag
             /\ mint'[r].step # "none" => mint[r].step # "none"
  <2>1. PICK m \in MintRecord : MintGoesTo(q, m)
    BY <1>1, <1>4, MintStepFollows
  <2>2. reg' = reg /\ mint' = [mint EXCEPT ![q] = m] /\ mint[q].step # "none"
    BY <2>1 DEF MintGoesTo
  <2> QED
    BY <1>1, <2>2 DEF Registered, MintTypeOK
<1>5. CASE Tick
  <2>1. reg' = reg /\ mint'[r] = Rested(mint[r])
    BY <1>5 DEF Tick, Rested
  <2>2. Rested(mint[r]).step = mint[r].step
    BY <1>1, PauseFollows DEF MintTypeOK, MintInv
  <2> QED
    BY <2>1, <2>2 DEF Registered
<1>6. CASE Restart
  <2>1. mint[r].step = "none" => mint'[r] = mint[r]
    BY <1>6 DEF Restart
  <2>2. reg'[r] = IF reg[r] # None /\ reg[r].step = "appraise"
                  THEN [reg[r] EXCEPT !.step = "failed"] ELSE reg[r]
    BY <1>6 DEF Restart
  <2>3. CASE reg[r] # None /\ reg[r].step = "appraise"
    <3>1. reg[r] \in Registration
      BY <1>1, <2>3 DEF MintTypeOK
    <3>2. reg'[r].step = "failed"
      BY <2>2, <2>3, <3>1 DEF Registration
    <3> QED
      BY <2>1, <3>2 DEF Registered
  <2>4. CASE ~ (reg[r] # None /\ reg[r].step = "appraise")
    BY <2>1, <2>2, <2>4 DEF Registered
  <2> QED
    BY <2>3, <2>4
<1>7. ASSUME NEW c \in Call, CallStep(c) PROVE Same
  BY <1>7 DEF CallStep, UpdateReads, LoanRequestReads, LoanViewReads, UpdateWrites, UpdateWritesTo,
     LoanRequestAnswers, LoanViewAnswers, CallEnds, Calls
<1>8. ASSUME NEW t \in Tag, ChainStep(t) PROVE Same
  BY <1>8 DEF ChainStep, ChainLoan, IndexLoan
<1>9. CASE OtherTx \/ UNCHANGED requestVars
  BY <1>2, <1>9 DEF OtherTx, requestVars
<1>10. ASSUME NEW q \in Register, LandStep(q) PROVE Same
  BY <1>10 DEF LandStep, TxLands
<1> HIDE DEF Same
<1> QED
  BY <1>2, <1>3, <1>4, <1>5, <1>6, <1>7, <1>8, <1>9, <1>10, StepKinds

\* One registration of an animal inserts its row and starts its mint.
LEMMA StepKeepsRowInv ==
  ASSUME IInv, [RequestsNext]_vars
  PROVE  RowInv'
<1>1. StoreTypeOK /\ MintTypeOK /\ RowInv
  BY DEF IInv
<1>2. RowsMove /\ Kept /\ MintTypeOK'
  BY StepMovesRows, StepKeepsMints
<1>3. ASSUME NEW r \in Register, RegisterCreates(r)
      PROVE  /\ Registered(r)' /\ reg'[r].tag = reg[r].tag /\ reg[r].tag \in Tag
             /\ livestock[reg[r].tag] = None /\ livestock'[reg[r].tag] # None
             /\ \A q \in Register : q # r => reg'[q] = reg[q] /\ mint'[q] = mint[q]
  <2>1. /\ reg[r] \in Registration /\ livestock[reg[r].tag] = None
        /\ reg' = [reg EXCEPT ![r].step = "done"] /\ mint' = [mint EXCEPT ![r].step = "account"]
    BY <1>1, <1>3, CreatesFacts
  <2>2. PICK row \in Row : livestock' = [livestock EXCEPT ![reg[r].tag] = row]
    BY <1>1, <1>3, CreatesFacts
  <2>3. reg[r].tag \in Tag
    BY <2>1 DEF Registration
  <2>4. livestock'[reg[r].tag] # None
    BY <1>1, <2>2, <2>3, RequestsAssumption DEF StoreTypeOK
  <2>5. PICK g : g = [reg[r] EXCEPT !.step = "done"]
    OBVIOUS
  <2>6. g \in Registration /\ g.step = "done" /\ g.tag = reg[r].tag
    BY <2>1, <2>5 DEF Registration
  <2>7. reg'[r] = g
    BY <1>1, <2>1, <2>5 DEF MintTypeOK
  <2>8. g # None
    BY <2>6, RequestsAssumption
  <2> QED
    BY <1>1, <2>1, <2>3, <2>4, <2>6, <2>7, <2>8 DEF Registered, MintTypeOK
<1>4. ASSUME NEW r \in Register, Registered(r)'
      PROVE  livestock'[reg'[r].tag] # None
  <2>1. CASE RegisterCreates(r)
    BY <1>3, <2>1
  <2>2. CASE ~RegisterCreates(r)
    <3>1. Registered(r) /\ reg'[r].tag = reg[r].tag
      BY <1>4, <2>2, OnlyInsertsStart
    <3>2. livestock[reg[r].tag] # None /\ reg[r].tag \in Tag
      BY <1>1, <3>1 DEF RowInv, Registered, MintTypeOK, Registration
    <3> QED
      BY <1>2, <3>1, <3>2 DEF RowsMove, RowMoves
  <2> QED
    BY <2>1, <2>2
<1>5. ASSUME NEW r \in Register, mint'[r].step # "none" PROVE Registered(r)'
  <2>1. CASE RegisterCreates(r)
    BY <1>3, <2>1
  <2>2. CASE ~RegisterCreates(r)
    BY <1>1, <1>2, <1>5, <2>2, OnlyInsertsStart DEF RowInv, Kept
  <2> QED
    BY <2>1, <2>2
<1>6. ASSUME NEW q \in Register, NEW r \in Register, Registered(q)', Registered(r)',
             reg'[q].tag = reg'[r].tag, q # r
      PROVE  FALSE
  <2>1. ASSUME NEW a \in Register, NEW b \in Register, a # b, RegisterCreates(a), Registered(b)',
               reg'[a].tag = reg'[b].tag
        PROVE  FALSE
    <3>1. reg'[b] = reg[b] /\ livestock[reg[a].tag] = None /\ reg'[a].tag = reg[a].tag
      BY <1>3, <2>1
    <3>2. Registered(b) /\ reg[b].tag = reg[a].tag
      BY <2>1, <3>1 DEF Registered
    <3> QED
      BY <1>1, <3>1, <3>2 DEF RowInv
  <2>2. ~RegisterCreates(q) /\ ~RegisterCreates(r)
    BY <1>6, <2>1
  <2>3. /\ Registered(q) /\ reg'[q].tag = reg[q].tag /\ Registered(r) /\ reg'[r].tag = reg[r].tag
    BY <1>6, <2>2, OnlyInsertsStart
  <2> QED
    BY <1>1, <1>6, <2>3 DEF RowInv
<1> QED
  BY <1>4, <1>5, <1>6 DEF RowInv

-----------------------------------------------------------------------------
\* An animal that was minted stays minted.
LEMMA MintedStays ==
  ASSUME IInv, [RequestsNext]_vars
  PROVE  Minted \subseteq Minted'
<1>1. RowInv /\ MintInv /\ Kept
  BY StepKeepsMints DEF IInv
<1>2. ASSUME NEW r \in Register, tx[r].fate = "success" PROVE reg[r].tag \in Minted'
  <2>1. Registered(r)
    BY <1>1, <1>2 DEF RowInv, MintInv, Follows
  <2>2. reg'[r].tag = reg[r].tag /\ tx'[r].fate = "success"
    BY <1>1, <1>2, <2>1 DEF Kept
  <2> QED
    BY <2>2 DEF Minted
<1> QED
  BY <1>2 DEF Minted

\* A mint is done when its promise was kept and the row says so, or when it was broken and its
\* transaction is dead.
LEMMA DoneFrom ==
  ASSUME IInv, [RequestsNext]_vars, NEW r \in Register, mint'[r].step = "done"
  PROVE  \/ mint[r].step = "done"
         \/ mint[r].step = "failed" /\ Dead(tx[r])
         \/ mint[r].step = "minted" /\ livestock'[reg[r].tag].status = "VERIFIED"
<1>1. StoreTypeOK /\ MintTypeOK /\ SequenceInv /\ RowInv /\ MintInv
  BY DEF IInv
<1>2. CASE mint'[r] = mint[r]
  BY <1>2
<1>3. ASSUME NEW q \in Register, MintStep(q), mint'[r] # mint[r]
      PROVE  \/ mint[r].step = "failed" /\ Dead(tx[r])
             \/ mint[r].step = "minted" /\ livestock'[reg[r].tag].status = "VERIFIED"
  <2>1. PICK m \in MintRecord : MintGoesTo(q, m)
    BY <1>1, <1>3, MintStepFollows
  <2>2. q = r
    BY <1>1, <1>3, <2>1 DEF MintGoesTo, MintTypeOK
  <2>3. mint[r] \in MintRecord
    BY <1>1 DEF MintTypeOK
  <2>4. CASE MintVerifies(r)
    <3>1. Registered(r) /\ livestock[reg[r].tag] # None
      BY <1>1, <2>4 DEF RowInv, MintVerifies
    <3>2. reg[r].tag \in Tag
      BY <1>1, <3>1 DEF Registered, MintTypeOK, Registration
    <3>3. livestock'[reg[r].tag].status = "VERIFIED"
      BY <1>1, <2>4, <3>1, <3>2, StatusIsSet DEF MintVerifies, Status
    <3> QED
      BY <2>4, <3>3 DEF MintVerifies
  <2>5. CASE MintRejects(r)
    <3>1. mint' = [mint EXCEPT ![r].step = IF mint[r].step = "lost" THEN "unseen" ELSE "done"]
      BY <2>5 DEF MintRejects
    <3>2. mint'[r] = [mint[r] EXCEPT !.step = IF mint[r].step = "lost" THEN "unseen" ELSE "done"]
      BY <1>1, <3>1 DEF MintTypeOK
    <3>3. mint'[r].step = IF mint[r].step = "lost" THEN "unseen" ELSE "done"
      BY <2>3, <3>2 DEF MintRecord
    <3>4. mint[r].step = "failed"
      BY <2>5, <3>3 DEF MintRejects
    <3> QED
      BY <1>1, <3>4 DEF MintInv, Follows
  <2>6. ASSUME NEW step, mint' = [mint EXCEPT ![r].step = step], step # "done" PROVE FALSE
    <3>1. mint'[r] = [mint[r] EXCEPT !.step = step]
      BY <1>1, <2>6 DEF MintTypeOK
    <3>2. mint'[r].step = step
      BY <2>3, <3>1 DEF MintRecord
    <3> QED
      BY <2>6, <3>2
  <2>7. CASE MintBuilds(r)
    <3>1. mint'[r] = [mint[r] EXCEPT !.step = "send", !.seq = sequence + 1, !.left = TX_TIMEOUT]
      BY <1>1, <2>7 DEF MintBuilds, MintOnly, MintTypeOK
    <3>2. mint'[r].step = "send"
      BY <2>3, <3>1 DEF MintRecord
    <3> QED
      BY <3>2
  <2>8. CASE MintPolls(r)
    <3> DEFINE step == PollResult(r, IF mint[r].tries + 1 < MaxAttempts THEN "wait" ELSE "failed")
    <3>1. mint'[r] = [mint[r] EXCEPT !.tries = mint[r].tries + 1, !.rested = FALSE, !.step = step]
      BY <1>1, <2>8 DEF MintPolls, MintOnly, MintTypeOK
    <3>2. tx[r].fate \in {"success", "failed", "pending"}
      BY <1>1, <2>8 DEF MintPolls, MintInv, Follows, MintTypeOK, TxRecord
    <3>3. step \in {"minted", "failed", "wait"}
      BY <3>2 DEF PollResult
    <3> HIDE DEF step
    <3>4. mint'[r].step = step
      BY <2>3, <3>1 DEF MintRecord
    <3> QED
      BY <3>3, <3>4
  <2>9. CASE MintFails(r)
    <3>1. mint' = [mint EXCEPT ![r] = [mint[r] EXCEPT
                     !.step = IF mint[r].step = "wait" THEN "lost" ELSE "failed"]]
      BY <2>9 DEF MintFails, MintOnly
    <3>2. mint' = [mint EXCEPT ![r].step = IF mint[r].step = "wait" THEN "lost" ELSE "failed"]
      BY <3>1
    <3> QED
      BY <2>6, <3>2
  <2>10. CASE MintVerifyFails(r)
    <3>1. mint' = [mint EXCEPT ![r].step = "lost"]
      BY <2>10 DEF MintVerifyFails, MintOnly
    <3> QED
      BY <2>6, <3>1
  <2>11. CASE MintSends(r)
    BY <2>6, <2>11 DEF MintSends
  <2> QED
    BY <1>3, <2>2, <2>4, <2>5, <2>7, <2>8, <2>9, <2>10, <2>11 DEF MintStep
<1>4. ASSUME NEW q \in Register, RegisterStep(q), mint'[r] # mint[r] PROVE FALSE
  <2>1. RegisterCreates(q)
    BY <1>4 DEF RegisterStep, RegisterChecks, RegisterFails
  <2>2. mint' = [mint EXCEPT ![q].step = "account"]
    BY <1>1, <2>1, CreatesFacts
  <2>3. mint'[r] = [mint[r] EXCEPT !.step = "account"]
    BY <1>1, <1>4, <2>2 DEF MintTypeOK
  <2>4. mint'[r].step = "account"
    BY <1>1, <2>3 DEF MintTypeOK, MintRecord
  <2> QED
    BY <2>4
<1>5. CASE Tick
  <2>1. mint'[r] = Rested(mint[r])
    BY <1>5 DEF Tick, Rested
  <2>2. Rested(mint[r]).step = mint[r].step
    BY <1>1, PauseFollows DEF MintTypeOK, MintInv
  <2> QED
    BY <2>1, <2>2
<1>6. CASE Restart
  <2>1. mint'[r] = mint[r] \/ mint'[r] = [NoMint EXCEPT !.step = "unseen"]
    BY <1>6 DEF Restart
  <2>2. [NoMint EXCEPT !.step = "unseen"].step = "unseen"
    BY DEF NoMint
  <2> QED
    BY <1>2, <2>1, <2>2
<1>7. ASSUME NEW c \in Call, CallStep(c) PROVE mint' = mint
  BY <1>7 DEF CallStep, UpdateReads, LoanRequestReads, LoanViewReads, UpdateWrites, UpdateWritesTo,
     LoanRequestAnswers, LoanViewAnswers, CallEnds, Calls
<1>8. ASSUME NEW t \in Tag, ChainStep(t) PROVE mint' = mint
  BY <1>8 DEF ChainStep, ChainLoan, IndexLoan
<1>9. CASE OtherTx \/ UNCHANGED requestVars
  BY <1>2, <1>9 DEF OtherTx, requestVars
<1>10. ASSUME NEW q \in Register, LandStep(q) PROVE mint' = mint
  BY <1>10 DEF LandStep, TxLands
<1> QED
  BY <1>2, <1>3, <1>4, <1>5, <1>6, <1>7, <1>8, <1>9, <1>10, StepKinds

\* A mint that is done was rejected for good, or left the row VERIFIED or edited.
LEMMA StepKeepsDoneInv ==
  ASSUME IInv, [RequestsNext]_vars
  PROVE  DoneInv'
<1>1. StoreTypeOK /\ MintTypeOK /\ RowInv /\ DoneInv
  BY DEF IInv
<1>2. RowsMove /\ Kept
  BY StepMovesRows, StepKeepsMints
<1>3. ASSUME NEW r \in Register, mint'[r].step = "done"
      PROVE  \/ Dead(tx'[r])
             \/ livestock'[reg'[r].tag].edited \/ livestock'[reg'[r].tag].status = "VERIFIED"
  <2>1. \/ mint[r].step = "done"
        \/ mint[r].step = "failed" /\ Dead(tx[r])
        \/ mint[r].step = "minted" /\ livestock'[reg[r].tag].status = "VERIFIED"
    BY <1>3, DoneFrom
  <2> DEFINE t == reg[r].tag
  <2>2. Registered(r) /\ livestock[t] # None /\ reg'[r].tag = t
    BY <1>1, <1>2, <2>1 DEF RowInv, Kept
  <2>3. t \in Tag
    BY <1>1, <2>2 DEF Registered, MintTypeOK, Registration
  <2>4. CASE mint[r].step = "done"
    <3>1. CASE Dead(tx[r])
      BY <1>2, <2>4, <3>1 DEF Kept
    <3>2. CASE livestock[t].edited
      BY <1>2, <2>2, <2>3, <3>2 DEF RowsMove, RowMoves
    <3>3. CASE livestock[t].status = "VERIFIED"
      <4>1. ~MintEnds(t)
        BY <1>1, <2>2, <2>4 DEF MintEnds, RowInv
      <4>2. SameStatus(t) \/ livestock'[t].edited \/ Liquidated(t)
        BY <1>2, <2>2, <2>3, <4>1 DEF RowsMove, RowMoves
      <4> QED
        BY <2>2, <3>3, <4>2 DEF SameStatus, Liquidated
    <3> QED
      BY <1>1, <2>4, <3>1, <3>2, <3>3 DEF DoneInv
  <2>5. CASE mint[r].step = "failed" /\ Dead(tx[r])
    BY <1>2, <2>5 DEF Kept
  <2> QED
    BY <2>1, <2>2, <2>4, <2>5
<1> QED
  BY <1>3 DEF DoneInv, Dead

\* The contract creates a loan on an animal it holds, and closes it for good.
ChainMoves ==
  /\ chainLoan' \in [Tag -> {"None", "Active", "Closed"}]
  /\ \A t \in Tag : /\ chainLoan[t] = "Closed" => chainLoan'[t] = "Closed"
                    /\ chainLoan'[t] # "None" => chainLoan[t] # "None" \/ t \in Minted

\* A row of a loan is inserted once for an animal, or an active one is closed as the contract
\* has closed the loan.
LoansMove ==
  \/ loans' = loans
  \/ \E t \in Tag :
       /\ \A i \in DOMAIN loans : loans[i].tag # t
       /\ loans' = Append(loans, [tag |-> t, status |-> "ACTIVE"])
  \/ \E i \in DOMAIN loans, status \in {"REPAID", "LIQUIDATED"} :
       chainLoan[loans[i].tag] = "Closed" /\ loans' = [loans EXCEPT ![i].status = status]

\* Every step moves the contract's loans and the indexed rows like that.
LEMMA StepMovesLoans ==
  ASSUME IInv, [RequestsNext]_vars
  PROVE  ChainMoves /\ LoansMove
<1>1. StoreTypeOK /\ MintTypeOK /\ SequenceInv /\ MintInv
  BY DEF IInv
<1> DEFINE Same == chainLoan' = chainLoan /\ loans' = loans
<1>2. ASSUME Same PROVE ChainMoves /\ LoansMove
  BY <1>1, <1>2 DEF StoreTypeOK, ChainMoves, LoansMove
<1>3. ASSUME NEW t \in Tag, ChainLoan(t) PROVE ChainMoves /\ LoansMove
  <2> DEFINE next == CASE chainLoan[t] = "None" -> "Active" [] chainLoan[t] = "Active" -> "Closed"
                       [] OTHER -> chainLoan[t]
  <2>1. t \in Minted /\ chainLoan' = [chainLoan EXCEPT ![t] = next] /\ loans' = loans
    BY <1>3 DEF ChainLoan
  <2>2. /\ next \in {"None", "Active", "Closed"}
        /\ chainLoan[t] = "Closed" => next = "Closed"
    BY <1>1 DEF StoreTypeOK
  <2> HIDE DEF next
  <2> QED
    BY <1>1, <2>1, <2>2 DEF StoreTypeOK, ChainMoves, LoansMove
<1>4. ASSUME NEW t \in Tag, NEW s \in {"ACTIVE", "REPAID", "LIQUIDATED"}, IndexLoan(t, s)
      PROVE  ChainMoves /\ LoansMove
  <2>1. chainLoan' = chainLoan
    BY <1>4 DEF IndexLoan
  <2>2. ChainMoves
    BY <1>1, <2>1 DEF StoreTypeOK, ChainMoves
  <2>3. CASE s = "ACTIVE"
    BY <1>4, <2>2, <2>3 DEF IndexLoan, LoansMove
  <2>4. CASE s # "ACTIVE"
    <3>1. PICK i \in ActiveLoans(t) : loans' = [loans EXCEPT ![i].status = s]
      BY <1>4, <2>4 DEF IndexLoan
    <3>2. i \in DOMAIN loans /\ loans[i].tag = t
      BY DEF ActiveLoans
    <3>3. chainLoan[t] = "Closed" /\ s \in {"REPAID", "LIQUIDATED"}
      BY <1>4, <2>4 DEF IndexLoan
    <3> QED
      BY <2>2, <3>1, <3>2, <3>3 DEF LoansMove
  <2> QED
    BY <2>3, <2>4
<1>5. ASSUME NEW r \in Register, MintStep(r) PROVE Same
  <2>1. PICK m \in MintRecord : MintGoesTo(r, m)
    BY <1>1, <1>5, MintStepFollows
  <2> QED
    BY <2>1 DEF MintGoesTo
<1>6. ASSUME NEW r \in Register, RegisterStep(r) PROVE Same
  BY <1>1, <1>6, CreatesFacts DEF RegisterStep, RegisterChecks, RegisterFails
<1>7. ASSUME NEW c \in Call, CallStep(c) PROVE Same
  BY <1>7 DEF CallStep, UpdateReads, LoanRequestReads, LoanViewReads, UpdateWrites, UpdateWritesTo,
     LoanRequestAnswers, LoanViewAnswers, CallEnds, Calls
<1>8. CASE Tick \/ Restart \/ OtherTx \/ UNCHANGED requestVars
  BY <1>2, <1>8 DEF Tick, Restart, OtherTx, requestVars
<1>9. ASSUME NEW r \in Register, LandStep(r) PROVE Same
  BY <1>9 DEF LandStep, TxLands
<1> HIDE DEF Same
<1> QED
  BY <1>2, <1>3, <1>4, <1>5, <1>6, <1>7, <1>8, <1>9, StepKinds DEF ChainStep

\* What is VERIFIED or has a loan was minted.
LEMMA StepKeepsVerifiedInv ==
  ASSUME IInv, [RequestsNext]_vars
  PROVE  VerifiedInv'
<1>1. StoreTypeOK /\ MintTypeOK /\ RowInv /\ MintInv /\ VerifiedInv
  BY DEF IInv
<1>2. RowsMove /\ ChainMoves /\ Minted \subseteq Minted'
  BY StepMovesRows, StepMovesLoans, MintedStays
<1>3. ASSUME NEW t \in Tag, livestock'[t] # None, livestock'[t].status = "VERIFIED",
             ~livestock'[t].edited
      PROVE  t \in Minted'
  <2>1. livestock[t] # None
    BY <1>2, <1>3 DEF RowsMove, RowMoves
  <2>2. ~livestock[t].edited /\ (SameStatus(t) \/ MintEnds(t) \/ Liquidated(t))
    BY <1>2, <1>3, <2>1 DEF RowsMove, RowMoves
  <2>3. CASE SameStatus(t)
    BY <1>1, <1>2, <1>3, <2>1, <2>2, <2>3 DEF SameStatus, VerifiedInv
  <2>4. CASE MintEnds(t)
    <3>1. PICK r \in Register : reg[r].tag = t /\ mint[r].step = "minted"
      BY <1>3, <2>4 DEF MintEnds
    <3>2. tx[r].fate = "success"
      BY <1>1, <3>1 DEF MintInv, Follows
    <3>3. t \in Minted
      BY <3>1, <3>2 DEF Minted
    <3> QED
      BY <1>2, <3>3
  <2>5. CASE Liquidated(t)
    BY <1>1, <1>2, <2>5 DEF Liquidated, VerifiedInv
  <2> QED
    BY <2>2, <2>3, <2>4, <2>5
<1>4. ASSUME NEW t \in Tag, chainLoan'[t] # "None" PROVE t \in Minted'
  BY <1>1, <1>2, <1>4 DEF ChainMoves, VerifiedInv
<1> QED
  BY <1>3, <1>4 DEF VerifiedInv

\* The rows of loans stay one per animal, of their type, and behind the contract.
LEMMA StepKeepsLoans ==
  ASSUME IInv, [RequestsNext]_vars
  PROVE  LoansInv' /\ loans' \in Seq(LoanRow)
<1>1. loans \in Seq(LoanRow) /\ LoansInv /\ chainLoan \in [Tag -> {"None", "Active", "Closed"}]
  BY DEF IInv, StoreTypeOK
<1>2. ChainMoves /\ LoansMove
  BY StepMovesLoans
<1>3. /\ \A t \in Tag : chainLoan[t] = "Closed" => chainLoan'[t] = "Closed"
      /\ \A i \in DOMAIN loans : loans[i] \in LoanRow /\ loans[i].tag \in Tag
  <2>1. \A i \in DOMAIN loans : loans[i] \in LoanRow
    BY <1>1
  <2>2. \A row \in LoanRow : row.tag \in Tag
    BY DEF LoanRow
  <2> QED
    BY <1>2, <2>1, <2>2 DEF ChainMoves
<1>4. CASE loans' = loans
  BY <1>1, <1>3, <1>4 DEF LoansInv
<1>5. ASSUME NEW t \in Tag, \A i \in DOMAIN loans : loans[i].tag # t,
             loans' = Append(loans, [tag |-> t, status |-> "ACTIVE"])
      PROVE  LoansInv' /\ loans' \in Seq(LoanRow)
  <2> DEFINE row == [tag |-> t, status |-> "ACTIVE"]
  <2>1. row \in LoanRow /\ row.tag = t /\ row.status = "ACTIVE"
    BY DEF LoanRow
  <2> HIDE DEF row
  <2>2. loans' = Append(loans, row)
    BY <1>5 DEF row
  <2>3. /\ loans' \in Seq(LoanRow) /\ Len(loans') = Len(loans) + 1
        /\ \A i \in 1 .. Len(loans) : loans'[i] = loans[i]
        /\ loans'[Len(loans) + 1] = row
    BY <1>1, <2>1, <2>2, AppendProperties
  <2>4. DOMAIN loans = 1 .. Len(loans) /\ DOMAIN loans' = 1 .. (Len(loans) + 1) /\ Len(loans) \in Nat
    BY <1>1, <2>3
  <2>5. \A i \in DOMAIN loans' : \/ i \in DOMAIN loans /\ loans'[i] = loans[i]
                                 \/ i = Len(loans) + 1 /\ loans'[i] = row
    BY <2>3, <2>4
  <2> QED
    BY <1>1, <1>3, <1>5, <2>1, <2>3, <2>5 DEF LoansInv
<1>6. ASSUME NEW k \in DOMAIN loans, NEW status \in {"REPAID", "LIQUIDATED"},
             chainLoan[loans[k].tag] = "Closed", loans' = [loans EXCEPT ![k].status = status]
      PROVE  LoansInv' /\ loans' \in Seq(LoanRow)
  <2>1. PICK row : row = [loans[k] EXCEPT !.status = status]
    OBVIOUS
  <2>2. row \in LoanRow /\ row.tag = loans[k].tag
    BY <1>3, <2>1 DEF LoanRow
  <2>3. loans' = [loans EXCEPT ![k] = row]
    BY <1>6, <2>1
  <2>4. /\ loans' \in Seq(LoanRow) /\ DOMAIN loans' = DOMAIN loans
        /\ \A i \in DOMAIN loans : loans'[i] = IF i = k THEN row ELSE loans[i]
    BY <1>1, <2>2, <2>3
  <2> QED
    BY <1>1, <1>3, <1>6, <2>2, <2>4 DEF LoansInv
<1> QED
  BY <1>2, <1>4, <1>5, <1>6 DEF LoansMove

\* The types of what is stored are kept.
LEMMA StepKeepsStoreTypeOK ==
  ASSUME IInv, [RequestsNext]_vars
  PROVE  StoreTypeOK'
<1>1. StoreTypeOK /\ MintTypeOK /\ SequenceInv /\ MintInv
  BY DEF IInv
<1>2. RowsMove /\ ChainMoves /\ loans' \in Seq(LoanRow)
  BY StepMovesRows, StepMovesLoans, StepKeepsLoans
<1>3. sequence' = sequence \/ sequence' = sequence + 1
  <2>1. ASSUME NEW r \in Register, MintStep(r) PROVE sequence' = sequence
    BY <1>1, <2>1, MintStepFollows DEF MintGoesTo
  <2>2. ASSUME NEW r \in Register, RegisterStep(r) PROVE sequence' = sequence
    BY <1>1, <2>2, CreatesFacts DEF RegisterStep, RegisterChecks, RegisterFails
  <2>3. ASSUME NEW c \in Call, CallStep(c) PROVE sequence' = sequence
    BY <2>3 DEF CallStep, UpdateReads, LoanRequestReads, LoanViewReads, UpdateWrites, UpdateWritesTo,
       LoanRequestAnswers, LoanViewAnswers, CallEnds, Calls
  <2>4. ASSUME NEW t \in Tag, ChainStep(t) PROVE sequence' = sequence
    BY <2>4 DEF ChainStep, ChainLoan, IndexLoan
  <2>5. CASE Tick \/ Restart \/ OtherTx \/ UNCHANGED requestVars
    BY <2>5 DEF Tick, Restart, OtherTx, requestVars
  <2>6. ASSUME NEW r \in Register, LandStep(r) PROVE sequence' = sequence + 1
    BY <2>6 DEF LandStep, TxLands
  <2> QED
    BY <2>1, <2>2, <2>3, <2>4, <2>5, <2>6, StepKinds
<1> QED
  BY <1>1, <1>2, <1>3 DEF StoreTypeOK, RowsMove, ChainMoves

\* What a request read goes on to hold.
LEMMA CallHoldsOn ==
  ASSUME IInv, [RequestsNext]_vars
  PROVE  \A a : CallHolds(a) => CallHolds(a)'
<1>1. RowsMove /\ ChainMoves /\ Minted \subseteq Minted'
  BY StepMovesRows, StepMovesLoans, MintedStays
<1>2. ASSUME NEW a \in UpdateCall, livestock[a.tag] # None PROVE livestock'[a.tag] # None
  BY <1>1, <1>2 DEF RowsMove, RowMoves, UpdateCall
<1>3. ASSUME NEW a \in LoanCall, livestock[a.tag] # None
      PROVE  /\ livestock'[a.tag] # None
             /\ livestock'[a.tag].owner = livestock[a.tag].owner
             /\ livestock'[a.tag].value = livestock[a.tag].value
             /\ livestock[a.tag].edited => livestock'[a.tag].edited
  BY <1>1, <1>3 DEF RowsMove, RowMoves, LoanCall
<1>4. ASSUME NEW a \in ViewCall, chainLoan[a.tag] = "Closed" PROVE chainLoan'[a.tag] = "Closed"
  BY <1>1, <1>4 DEF ChainMoves, ViewCall
<1> QED
  BY <1>1, <1>2, <1>3, <1>4 DEF CallHolds

\* What a request reads holds when it reads it.
LEMMA StepKeepsCallInv ==
  ASSUME IInv, [RequestsNext]_vars
  PROVE  CallInv'
<1>1. StoreTypeOK /\ MintTypeOK /\ SequenceInv /\ MintInv /\ VerifiedInv /\ LoansInv /\ CallInv
  BY DEF IInv
<1>2. \A a : CallHolds(a) => CallHolds(a)'
  BY CallHoldsOn
<1>3. CASE call' = call
  BY <1>1, <1>2, <1>3 DEF CallInv
<1>4. ASSUME NEW c \in Call, NEW a \in UpdateCall \cup LoanCall \cup ViewCall \cup {None},
             call' = [call EXCEPT ![c] = a], a # None => CallHolds(a)
      PROVE  CallInv'
  <2>1. call' \in [Call -> UpdateCall \cup LoanCall \cup ViewCall \cup {None}]
    BY <1>1, <1>4 DEF CallInv
  <2>2. ASSUME NEW d \in Call, call'[d] # None PROVE CallHolds(call[d])'
    <3>1. PICK b : b = IF d = c THEN a ELSE call[d]
      OBVIOUS
    <3>2. call'[d] = b
      BY <1>1, <1>4, <3>1 DEF CallInv
    <3>3. CallHolds(b)
      BY <1>1, <1>4, <2>2, <3>1, <3>2 DEF CallInv
    <3>4. CallHolds(b)'
      BY <1>2, <3>3
    <3> QED
      BY <3>2, <3>4 DEF CallHolds
  <2> QED
    BY <2>1, <2>2 DEF CallInv
<1>5. ASSUME NEW c \in Call, CallStep(c) PROVE CallInv'
  <2>1. ASSUME NEW t \in Tag, NEW s \in Edits \cup {None}, UpdateReads(c, t, s) PROVE CallInv'
    <3> DEFINE a == [kind |-> "update", tag |-> t, read |-> livestock[t].status, set |-> s]
    <3>1. livestock[t] \in Row /\ livestock[t] # None
      BY <1>1, <2>1 DEF UpdateReads, StoreTypeOK
    <3>2. livestock[t].status \in Status
      BY <3>1 DEF Row
    <3>3. a \in UpdateCall /\ a.tag = t
      BY <3>2 DEF UpdateCall
    <3>4. call' = [call EXCEPT ![c] = a]
      BY <2>1 DEF UpdateReads, Calls
    <3> HIDE DEF a
    <3>5. CallHolds(a)
      BY <3>1, <3>3 DEF CallHolds
    <3> QED
      BY <1>4, <3>3, <3>4, <3>5
  <2>2. ASSUME NEW f \in Farmer, NEW t \in Tag, NEW p \in Principals, LoanRequestReads(c, f, t, p)
        PROVE  CallInv'
    <3> DEFINE a == [kind |-> "request", tag |-> t, owner |-> f, principal |-> p]
    <3>1. /\ livestock[t] # None /\ livestock[t].owner = f /\ livestock[t].status = "VERIFIED"
          /\ p <= livestock[t].value
      BY <2>2 DEF LoanRequestReads, Requestable
    <3>2. t \in Minted \/ livestock[t].edited
      BY <1>1, <3>1 DEF VerifiedInv
    <3>3. a \in LoanCall /\ a.tag = t /\ a.owner = f /\ a.principal = p
      BY DEF LoanCall
    <3>4. call' = [call EXCEPT ![c] = a]
      BY <2>2 DEF LoanRequestReads, Calls
    <3> HIDE DEF a
    <3>5. CallHolds(a)
      BY <3>1, <3>2, <3>3 DEF CallHolds
    <3> QED
      BY <1>4, <3>3, <3>4, <3>5
  <2>3. ASSUME NEW i \in DOMAIN loans, LoanViewReads(c, i) PROVE CallInv'
    <3> DEFINE a == [kind |-> "view", tag |-> loans[i].tag, row |-> loans[i].status, live |-> None]
    <3>1. loans[i] \in LoanRow
      BY <1>1 DEF StoreTypeOK
    <3>2. loans[i].tag \in Tag /\ loans[i].status \in {"ACTIVE", "REPAID", "LIQUIDATED"}
      BY <3>1 DEF LoanRow
    <3>3. loans[i].status # "ACTIVE" => chainLoan[loans[i].tag] = "Closed"
      BY <1>1 DEF LoansInv
    <3>4. /\ a \in ViewCall /\ a.tag = loans[i].tag /\ a.row = loans[i].status /\ a.live = None
      BY <3>2 DEF ViewCall
    <3>5. call' = [call EXCEPT ![c] = a]
      BY <2>3 DEF LoanViewReads, Calls
    <3> HIDE DEF a
    <3>6. CallHolds(a)
      BY <3>3, <3>4 DEF CallHolds
    <3> QED
      BY <1>4, <3>4, <3>5, <3>6
  <2>4. CASE UpdateWrites(c)
    BY <1>4, <2>4 DEF UpdateWrites, UpdateWritesTo
  <2>5. CASE LoanRequestAnswers(c)
    <3>1. CallHolds(call[c]) /\ call[c].kind = "request"
      BY <1>1, <2>5 DEF LoanRequestAnswers, CallInv
    <3>2. call[c] \in LoanCall
      BY <3>1 DEF CallHolds, UpdateCall, ViewCall
    <3>3. PICK a : a = [call[c] EXCEPT !.kind = "params"]
      OBVIOUS
    <3>4. /\ a \in LoanCall /\ a.tag = call[c].tag /\ a.owner = call[c].owner
          /\ a.principal = call[c].principal
      BY <3>2, <3>3 DEF LoanCall
    <3>5. call[c] \notin UpdateCall \cup ViewCall
      BY <3>1 DEF UpdateCall, ViewCall
    <3>6. CallHolds(a)
      BY <3>1, <3>4, <3>5 DEF CallHolds
    <3>7. call' = [call EXCEPT ![c] = a] \/ call' = [call EXCEPT ![c] = None]
      BY <2>5, <3>3 DEF LoanRequestAnswers, Calls
    <3> QED
      BY <1>4, <3>4, <3>6, <3>7
  <2>6. CASE LoanViewAnswers(c)
    <3>1. CallHolds(call[c]) /\ call[c].kind = "view"
      BY <1>1, <2>6 DEF LoanViewAnswers, CallInv
    <3>2. call[c] \notin UpdateCall \cup LoanCall
      BY <3>1 DEF UpdateCall, LoanCall
    <3>3. call[c] \in ViewCall /\ (call[c].row # "ACTIVE" => chainLoan[call[c].tag] = "Closed")
      BY <3>1, <3>2 DEF CallHolds
    <3>4. call[c].tag \in Tag /\ chainLoan[call[c].tag] \in {"None", "Active", "Closed"}
      BY <1>1, <3>3 DEF ViewCall, StoreTypeOK
    <3>5. PICK a : a = [call[c] EXCEPT !.live = chainLoan[call[c].tag]]
      OBVIOUS
    <3>6. /\ a \in ViewCall /\ a.tag = call[c].tag /\ a.row = call[c].row
          /\ a.live = chainLoan[call[c].tag]
      BY <3>3, <3>4, <3>5 DEF ViewCall
    <3>7. CallHolds(a)
      BY <3>3, <3>6 DEF CallHolds
    <3>8. call' = [call EXCEPT ![c] = a]
      BY <2>6, <3>5 DEF LoanViewAnswers, Calls
    <3> QED
      BY <1>4, <3>6, <3>7, <3>8
  <2>7. CASE CallEnds(c)
    BY <1>4, <2>7 DEF CallEnds, Calls
  <2> QED
    BY <1>5, <2>1, <2>2, <2>3, <2>4, <2>5, <2>6, <2>7 DEF CallStep
<1>6. CASE Restart
  <2>1. call' = [c \in Call |-> None]
    BY <1>6 DEF Restart
  <2> QED
    BY <2>1 DEF CallInv
<1>7. ASSUME NEW r \in Register, MintStep(r) PROVE call' = call
  BY <1>1, <1>7, MintStepFollows DEF MintGoesTo
<1>8. ASSUME NEW r \in Register, RegisterStep(r) PROVE call' = call
  BY <1>1, <1>8, CreatesFacts DEF RegisterStep, RegisterChecks, RegisterFails
<1>9. ASSUME NEW t \in Tag, ChainStep(t) PROVE call' = call
  BY <1>9 DEF ChainStep, ChainLoan, IndexLoan
<1>10. CASE Tick \/ OtherTx \/ UNCHANGED requestVars
  BY <1>3, <1>10 DEF Tick, OtherTx, requestVars
<1>11. ASSUME NEW r \in Register, LandStep(r) PROVE call' = call
  BY <1>11 DEF LandStep, TxLands
<1> QED
  BY <1>3, <1>5, <1>6, <1>7, <1>8, <1>9, <1>10, <1>11, StepKinds

-----------------------------------------------------------------------------
\* The inductive invariant holds at first, when nothing was asked for.
LEMMA InitIInv ==
  ASSUME RequestsInit
  PROVE  IInv
<1>1. StoreTypeOK
  BY DEF RequestsInit, StoreTypeOK
<1>2. MintTypeOK
  <2>1. NoMint \in MintRecord /\ NoTx \in TxRecord
    BY RequestsAssumption DEF NoMint, NoTx, MintRecord, TxRecord
  <2> QED
    BY <2>1 DEF RequestsInit, MintTypeOK
<1>3. \A r \in Register : mint[r] = NoMint /\ tx[r] = NoTx /\ reg[r] = None
  BY DEF RequestsInit
<1>4. SequenceInv
  <2>1. Landed = {}
    BY <1>3 DEF Landed, NoTx
  <2>2. sequence = 0 /\ MaxSequence \in Nat /\ Cardinality({}) = 0
    BY FS_EmptySet, RequestsAssumption DEF RequestsInit
  <2> QED
    BY <1>3, <2>1, <2>2 DEF SequenceInv, NoMint
<1>5. RowInv
  BY <1>3 DEF RowInv, Registered, NoMint
<1>6. MintInv /\ DoneInv
  BY <1>3 DEF MintInv, DoneInv, Follows, Dead, NoMint, NoTx
<1>7. VerifiedInv /\ LoansInv
  BY DEF RequestsInit, VerifiedInv, LoansInv
<1>8. CallInv
  BY DEF RequestsInit, CallInv
<1> QED
  BY <1>1, <1>2, <1>4, <1>5, <1>6, <1>7, <1>8 DEF IInv

\* Every step keeps the inductive invariant.
LEMMA StepIInv ==
  ASSUME IInv, [RequestsNext]_vars
  PROVE  IInv'
BY StepKeepsStoreTypeOK, StepKeepsMints, StepKeepsRowInv, StepKeepsDoneInv, StepKeepsVerifiedInv,
   StepKeepsLoans, StepKeepsCallInv DEF IInv

\* The inductive invariant holds in every behaviour.
LEMMA InductiveInvariant == Spec => []IInv
<1>1. RequestsInit => IInv
  BY InitIInv
<1>2. IInv /\ [RequestsNext]_vars => IInv'
  BY StepIInv
<1> QED
  BY <1>1, <1>2, PTL DEF Spec

-----------------------------------------------------------------------------
\* The type invariant: rows, registrations, mints and transactions are what they are declared
\* to be, the account's sequence number counts what was spent, and an animal has one loan.
THEOREM RequestsTypes == Spec => []RequestsTypeOK
<1>1. ASSUME IInv PROVE RequestsTypeOK
  <2>1. StoreTypeOK /\ MintTypeOK /\ SequenceInv /\ LoansInv
    BY <1>1 DEF IInv
  <2>2. sequence \in 0 .. MaxSequence + Cardinality(Register)
    <3>1. IsFiniteSet(Register) /\ MaxSequence \in Nat
      BY RequestsAssumption
    <3>2. Landed \in SUBSET Register
      BY DEF Landed
    <3>3. IsFiniteSet(Landed) /\ Cardinality(Landed) <= Cardinality(Register)
      BY <3>1, <3>2, FS_Subset
    <3>4. Cardinality(Landed) \in Nat /\ Cardinality(Register) \in Nat
      BY <3>1, <3>3, FS_CardinalityType
    <3>5. sequence \in Nat /\ sequence <= MaxSequence + Cardinality(Landed)
      BY <2>1 DEF StoreTypeOK, SequenceInv
    <3> QED
      BY <3>1, <3>3, <3>4, <3>5
  <2>3. ASSUME NEW r \in Register
        PROVE  /\ reg[r] # None => reg[r].tag \in Tag /\ reg[r].step \in {"appraise", "failed", "done"}
               /\ mint[r].tries \in 0 .. MaxAttempts /\ mint[r].left \in 0 .. TX_TIMEOUT
               /\ mint[r].seq \in 0 .. sequence + 1
               /\ tx[r].fate \in {"none", "pending", "success", "failed"}
    <3>1. mint[r] \in MintRecord /\ tx[r] \in TxRecord /\ reg[r] \in Registration \cup {None}
      BY <2>1 DEF MintTypeOK
    <3>2. mint[r].seq \in Nat /\ mint[r].tries \in 0 .. MaxAttempts /\ mint[r].left \in 0 .. TX_TIMEOUT
      BY <3>1 DEF MintRecord
    <3>3. mint[r].seq <= sequence + 1 /\ sequence \in Nat
      BY <2>1 DEF SequenceInv, StoreTypeOK
    <3> QED
      BY <3>1, <3>2, <3>3 DEF TxRecord, Registration
  <2> QED
    BY <2>1, <2>2, <2>3 DEF RequestsTypeOK, StoreTypeOK, LoansInv
<1> QED
  BY <1>1, InductiveInvariant, PTL

\* The mint of an animal is started once, however many registrations of it race; and an animal
\* that was rejected in time has a transaction no ledger can still take, because the polls take
\* longer than its time bound.
THEOREM MintsAreTrue == Spec => []MintsAreSound
<1>1. ASSUME IInv PROVE MintsAreSound
  <2>1. MintTypeOK /\ RowInv /\ DoneInv
    BY <1>1 DEF IInv
  <2>2. OneMintPerAnimal
    BY <2>1 DEF OneMintPerAnimal, RowInv
  <2>3. RejectedIsNotMinted
    BY <2>1 DEF RejectedIsNotMinted, DoneInv, Dead
  <2> QED
    BY <2>2, <2>3 DEF MintsAreSound
<1> QED
  BY <1>1, InductiveInvariant, PTL

\* A verification is only taken back by an admin, or by a mint whose answer was lost: a mint that
\* was refused or timed out was not confirmed, so its animal is not the one that is VERIFIED.
THEOREM VerificationIsFinal == Spec => VerificationStays
<1> DEFINE Stays == \A t \in Tag : livestock[t] # None /\ livestock[t].status = "VERIFIED"
       => \/ livestock'[t].status = "VERIFIED" \/ livestock'[t].edited
          \/ \E r \in Register : reg[r] # None /\ reg[r].tag = t /\ mint[r].step = "lost"
<1>1. ASSUME IInv, [RequestsNext]_vars PROVE Stays
  <2>1. StoreTypeOK /\ RowInv /\ MintInv /\ VerifiedInv /\ RowsMove
    BY <1>1, StepMovesRows DEF IInv
  <2>2. SUFFICES ASSUME NEW t \in Tag, livestock[t] # None, livestock[t].status = "VERIFIED",
                        livestock'[t].status # "VERIFIED", ~livestock'[t].edited
                 PROVE  \E r \in Register : reg[r] # None /\ reg[r].tag = t /\ mint[r].step = "lost"
    BY Zenon
  <2>3. ~livestock[t].edited /\ MintEnds(t)
    BY <2>1, <2>2 DEF RowsMove, RowMoves, SameStatus, Liquidated
  <2>4. PICK r \in Register : Registered(r) /\ reg[r].tag = t /\ mint[r].step \in {"failed", "lost"}
    BY <2>2, <2>3 DEF MintEnds
  <2>5. PICK q \in Register : tx[q].fate = "success" /\ reg[q].tag = t
    BY <2>1, <2>2, <2>3 DEF VerifiedInv, Minted
  <2>6. Registered(q)
    BY <2>1, <2>5 DEF RowInv, MintInv, Follows
  <2>7. q = r
    BY <2>1, <2>4, <2>5, <2>6 DEF RowInv
  <2>8. mint[r].step # "failed"
    BY <2>1, <2>5, <2>7 DEF MintInv, Follows, Dead
  <2> QED
    BY <2>4, <2>8 DEF Registered
<1>2. IInv /\ [RequestsNext]_vars => [Stays]_vars
  BY <1>1
<1> HIDE DEF Stays
<1>3. Spec => [][Stays]_vars
  BY <1>2, InductiveInvariant, PTL DEF Spec
<1> QED
  BY <1>3 DEF VerificationStays, Stays

-----------------------------------------------------------------------------
\* Places are counted in pages: place m of the market is the last place of a page, or before it.
LEMMA PageOfPlace ==
  ASSUME NEW n \in Nat, NEW l \in Nat \ {0}, NEW m \in 1 .. n
  PROVE  \E page \in 1 .. ((n + l - 1) \div l), k \in 1 .. l : m = (page - 1) * l + k
<1> DEFINE d == (m - 1) \div l
           r == (m - 1) % l
           last == (n + l - 1) \div l
           rest == (n + l - 1) % l
<1>1. /\ m - 1 \in Nat /\ n + l - 1 \in Nat
      /\ \A a \in Nat, b \in Nat \ {0} :
           a \div b \in Nat /\ (a % b) \in 0 .. b - 1 /\ a = (b * (a \div b)) + (a % b)
  <2>1. m - 1 \in Nat /\ n + l - 1 \in Nat
    OBVIOUS
  <2>2. \A a \in Nat, b \in Nat \ {0} :
           a \div b \in Nat /\ (a % b) \in 0 .. b - 1 /\ a = (b * (a \div b)) + (a % b)
    BY Z3
  <2> QED
    BY <2>1, <2>2
<1>2. /\ d \in Nat /\ r \in 0 .. l - 1 /\ m - 1 = (l * d) + r
      /\ last \in Nat /\ rest \in 0 .. l - 1 /\ n + l - 1 = (l * last) + rest
  BY <1>1, Zenon
<1> HIDE DEF d, r, last, rest
<1>3. d + 1 <= last
  <2>1. ASSUME last <= d PROVE FALSE
    <3>1. \A a, b, c \in Nat : a <= b => c * a <= c * b
      BY Z3
    <3>2. l * last <= l * d
      BY <1>2, <2>1, <3>1, Zenon
    <3> DEFINE low == l * last
               high == l * d
    <3>3. low \in Nat /\ high \in Nat
      BY <1>2
    <3>4. low <= high /\ m - 1 = high + r /\ n + l - 1 = low + rest
      BY <1>2, <3>2
    <3> HIDE DEF low, high
    <3> QED
      BY <1>2, <3>3, <3>4
  <2> QED
    BY <1>2, <2>1
<1>4. (d + 1 - 1) * l = l * d
  BY <1>2, Z3
<1> DEFINE page == d + 1
           k == r + 1
<1>5. page \in 1 .. last /\ k \in 1 .. l
  BY <1>2, <1>3
<1>6. m = (page - 1) * l + k
  <2> DEFINE x == l * d
  <2>1. x \in Nat
    BY <1>2
  <2>2. (page - 1) * l = x /\ m - 1 = x + r
    BY <1>2, <1>4
  <2> HIDE DEF x, page
  <2> QED
    BY <1>2, <2>1, <2>2
<1> QED
  BY <1>5, <1>6 DEF last

\* A place is on one page, at one place of it.
LEMMA PlaceOnce ==
  ASSUME NEW l \in Nat, NEW p \in Nat \ {0}, NEW q \in Nat \ {0}, NEW j \in 1 .. l, NEW k \in 1 .. l,
         (p - 1) * l + j = (q - 1) * l + k
  PROVE  p = q /\ j = k
<1>1. ASSUME NEW a \in Nat, NEW b \in Nat, NEW x \in 1 .. l, NEW y \in 1 .. l,
             a < b, a * l + x = b * l + y
      PROVE  FALSE
  <2>1. \A c, d, e \in Nat : c <= d => c * e <= d * e
    BY Z3
  <2>2. (a + 1) * l <= b * l
    BY <1>1, <2>1
  <2>3. (a + 1) * l = a * l + l
    BY Z3
  <2> DEFINE low == a * l
             high == b * l
  <2>4. low \in Nat /\ high \in Nat
    OBVIOUS
  <2>5. low + l <= high /\ low + x = high + y
    BY <1>1, <2>2, <2>3
  <2> HIDE DEF low, high
  <2> QED
    BY <2>4, <2>5
<1>2. p - 1 \in Nat /\ q - 1 \in Nat
  OBVIOUS
<1>3. p - 1 = q - 1
  BY <1>1, <1>2
<1>4. p = q
  BY <1>3
<1>5. (p - 1) * l \in Nat /\ (p - 1) * l = (q - 1) * l
  BY <1>2, <1>4
<1> DEFINE skip == (p - 1) * l
<1>6. skip \in Nat /\ skip + j = skip + k
  BY <1>5
<1> HIDE DEF skip
<1> QED
  BY <1>4, <1>6

\* In a finite set of numbers each place counted from the greatest is taken, by one of them.
LEMMA RankIsOnto ==
  ASSUME NEW S \in SUBSET Nat, IsFiniteSet(S)
  PROVE  LET Above(i) == {j \in S : j > i}
         IN  /\ \A i \in S : Cardinality(Above(i)) \in 0 .. Cardinality(S) - 1
             /\ \A h, i \in S : Cardinality(Above(h)) = Cardinality(Above(i)) => h = i
             /\ \A k \in 1 .. Cardinality(S) : \E i \in S : Cardinality(Above(i)) = k - 1
<1> DEFINE Above(i) == {j \in S : j > i}
           n == Cardinality(S)
<1>1. n \in Nat
  BY FS_CardinalityType
<1>2. ASSUME NEW T \in SUBSET S, NEW U \in SUBSET T, U # T
      PROVE  /\ Cardinality(U) \in Nat /\ Cardinality(T) \in Nat
             /\ Cardinality(U) < Cardinality(T)
  <2>1. IsFiniteSet(T)
    BY FS_Subset
  <2>2. /\ IsFiniteSet(U) /\ Cardinality(U) <= Cardinality(T)
        /\ Cardinality(T) = Cardinality(U) => T = U
    BY <2>1, FS_Subset
  <2>3. Cardinality(U) \in Nat /\ Cardinality(T) \in Nat
    BY <2>1, <2>2, FS_CardinalityType
  <2> QED
    BY <1>2, <2>2, <2>3
<1>3. ASSUME NEW i \in S
      PROVE  Cardinality(Above(i)) \in 0 .. n - 1
  <2>1. Above(i) \in SUBSET S /\ Above(i) # S
    OBVIOUS
  <2> HIDE DEF Above
  <2>2. Cardinality(Above(i)) \in Nat /\ Cardinality(Above(i)) < n
    BY <1>2, <2>1
  <2> QED
    BY <1>1, <2>2
<1>4. ASSUME NEW h \in S, NEW i \in S, h < i
      PROVE  Cardinality(Above(h)) # Cardinality(Above(i))
  <2>1. Above(h) \in SUBSET S /\ Above(i) \in SUBSET Above(h)
    <3>1. \A a, b, c \in Nat : a < b /\ c > b => c > a
      OBVIOUS
    <3>2. \A j \in S : j > i => j > h
      BY <1>4, <3>1
    <3> QED
      BY <3>2
  <2>2. i \in Above(h) /\ i \notin Above(i)
    BY <1>4
  <2> HIDE DEF Above
  <2> QED
    BY <1>2, <2>1, <2>2
<1>5. ASSUME NEW h \in S, NEW i \in S, Cardinality(Above(h)) = Cardinality(Above(i))
      PROVE  h = i
  <2>1. h \in Nat /\ i \in Nat
    OBVIOUS
  <2>2. ~(h < i) /\ ~(i < h)
    BY <1>4, <1>5
  <2> QED
    BY <2>1, <2>2
<1> DEFINE R == 0 .. n - 1
           rank == [i \in S |-> Cardinality(Above(i))]
<1>6. rank \in Injection(S, R)
  <2>1. rank \in [S -> R]
    BY <1>3
  <2>2. \A h, i \in S : rank[h] = rank[i] => h = i
    BY <1>5
  <2> HIDE DEF rank, R
  <2> QED
    BY <2>1, <2>2 DEF Injection, IsInjective
<1>7. IsFiniteSet(R) /\ Cardinality(R) = n
  <2>1. /\ IsFiniteSet(0 .. n - 1)
        /\ Cardinality(0 .. n - 1) = IF 0 > n - 1 THEN 0 ELSE n - 1 - 0 + 1
    BY <1>1, FS_Interval
  <2> QED
    BY <1>1, <2>1
<1>8. rank \in Surjection(S, R)
  <2> HIDE DEF rank, R
  <2> QED
    BY <1>6, <1>7, FS_Injection
<1>9. ASSUME NEW k \in 1 .. n PROVE \E i \in S : Cardinality(Above(i)) = k - 1
  <2>1. k - 1 \in R
    BY <1>1
  <2> HIDE DEF R, rank
  <2>2. PICK i \in S : rank[i] = k - 1
    BY <1>8, <2>1 DEF Surjection
  <2>3. rank[i] = Cardinality(Above(i))
    BY DEF rank
  <2> QED
    BY <2>2, <2>3
<1> QED
  BY <1>3, <1>5, <1>9

\* The market holds each active loan at one place.
LEMMA MarketFacts ==
  ASSUME IInv
  PROVE  LET n == Cardinality(OnMarket)
         IN  /\ n \in Nat
             /\ \A k \in 1 .. n : Newest(k) \in OnMarket
             /\ \A i \in OnMarket : \E k \in 1 .. n : Newest(k) = i
             /\ \A j, k \in 1 .. n : Newest(j) = Newest(k) => j = k
             /\ Market \in Seq(LoanRow) /\ Len(Market) = n
             /\ \A k \in 1 .. n : Market[k] = loans[Newest(k)]
<1> DEFINE n == Cardinality(OnMarket)
           rank(i) == Cardinality({j \in OnMarket : j > i})
<1>1. loans \in Seq(LoanRow)
  BY DEF IInv, StoreTypeOK
<1>2. Len(loans) \in Nat /\ DOMAIN loans = 1 .. Len(loans)
  BY <1>1
<1>3. OnMarket \in SUBSET Nat /\ IsFiniteSet(OnMarket)
  <2>1. IsFiniteSet(1 .. Len(loans)) /\ OnMarket \in SUBSET (1 .. Len(loans))
    BY <1>2, FS_Interval DEF OnMarket
  <2>2. IsFiniteSet(OnMarket)
    BY <2>1, FS_Subset
  <2> QED
    BY <1>2, <2>1, <2>2
<1>4. n \in Nat
  BY <1>3, FS_CardinalityType
<1>5. /\ \A i \in OnMarket : rank(i) \in 0 .. n - 1
      /\ \A h, i \in OnMarket : rank(h) = rank(i) => h = i
      /\ \A k \in 1 .. n : \E i \in OnMarket : rank(i) = k - 1
  BY <1>3, RankIsOnto
<1>6. ASSUME NEW k \in 1 .. n PROVE Newest(k) \in OnMarket /\ rank(Newest(k)) = k - 1
  <2>1. Newest(k) = CHOOSE i \in OnMarket : rank(i) = k - 1
    BY DEF Newest
  <2>2. \E i \in OnMarket : rank(i) = k - 1
    BY <1>5
  <2> HIDE DEF rank
  <2> QED
    BY <2>1, <2>2
<1> HIDE DEF rank, n
<1>7. ASSUME NEW i \in OnMarket PROVE \E k \in 1 .. n : Newest(k) = i
  <2>1. rank(i) \in 0 .. n - 1
    BY <1>5
  <2>2. PICK k : k = rank(i) + 1
    OBVIOUS
  <2>3. k \in 1 .. n /\ k - 1 = rank(i)
    BY <1>4, <2>1, <2>2
  <2>4. Newest(k) \in OnMarket /\ rank(Newest(k)) = rank(i)
    BY <1>6, <2>3
  <2>5. Newest(k) = i
    BY <1>5, <2>4
  <2> QED
    BY <2>3, <2>5
<1>8. ASSUME NEW j \in 1 .. n, NEW k \in 1 .. n, Newest(j) = Newest(k) PROVE j = k
  <2>1. j - 1 = k - 1
    BY <1>6, <1>8
  <2> QED
    BY <1>4, <2>1
<1>9. Market = [k \in 1 .. n |-> loans[Newest(k)]]
  BY DEF Market, n
<1>10. \A i \in OnMarket : loans[i] \in LoanRow
  BY <1>1 DEF OnMarket
<1>11. \A k \in 1 .. n : loans[Newest(k)] \in LoanRow
  BY <1>6, <1>10
<1>12. Market \in [1 .. n -> LoanRow]
  BY <1>9, <1>11
<1>13. Market \in Seq(LoanRow) /\ Len(Market) = n
  BY <1>4, <1>12
<1>14. \A k \in 1 .. n : Market[k] = loans[Newest(k)]
  BY <1>9
<1> QED
  BY <1>4, <1>6, <1>7, <1>8, <1>13, <1>14 DEF n

\* A page holds the places behind those of the pages before it.
LEMMA PageFacts ==
  ASSUME IInv, NEW l \in Nat \ {0}, NEW page \in Nat \ {0}
  PROVE  LET skip == (page - 1) * l
         IN  /\ skip \in Nat
             /\ \A k \in DOMAIN MarketPage(page, l) :
                  /\ k \in 1 .. l /\ skip + k \in 1 .. Len(Market)
                  /\ MarketPage(page, l)[k] = Market[skip + k]
             /\ \A k \in 1 .. l : skip + k <= Len(Market) => k \in DOMAIN MarketPage(page, l)
<1> DEFINE skip == (page - 1) * l
           n == Len(Market)
           end == IF skip + l < n THEN skip + l ELSE n
<1>1. skip \in Nat
  <2>1. page - 1 \in Nat /\ \A a, b \in Nat : a * b \in Nat
    OBVIOUS
  <2> QED
    BY <2>1
<1>2. n \in Nat /\ Market \in Seq(LoanRow)
  BY MarketFacts
<1>3. MarketPage(page, l) = SubSeq(Market, skip + 1, end)
  BY DEF MarketPage
<1> HIDE DEF skip
<1>4. end \in Nat /\ end <= n /\ end <= skip + l /\ (end = skip + l \/ end = n)
  BY <1>1, <1>2
<1>5. \A i \in skip + 1 .. end : Market[i] \in LoanRow
  <2>1. \A i \in 1 .. n : Market[i] \in LoanRow
    BY <1>2
  <2> HIDE DEF n, end
  <2> QED
    BY <1>1, <1>2, <1>4, <2>1
<1> HIDE DEF n, end
<1> DEFINE s == SubSeq(Market, skip + 1, end)
<1>6. /\ s \in Seq(LoanRow)
      /\ Len(s) = IF skip + 1 <= end THEN end - (skip + 1) + 1 ELSE 0
      /\ \A i \in 1 .. end - (skip + 1) + 1 : s[i] = Market[skip + 1 + i - 1]
  <2>1. skip + 1 \in Int /\ end \in Int
    BY <1>1, <1>4
  <2> QED
    BY <1>5, <2>1, SubSeqProperties
<1> HIDE DEF s
<1>7. DOMAIN s = 1 .. Len(s)
  BY <1>6
<1>8. ASSUME NEW k \in DOMAIN s
      PROVE  k \in 1 .. l /\ skip + k \in 1 .. n /\ s[k] = Market[skip + k]
  <2>1. k \in 1 .. end - (skip + 1) + 1
    BY <1>1, <1>4, <1>6, <1>7
  <2>2. skip + 1 + k - 1 = skip + k
    BY <1>1, <2>1
  <2> QED
    BY <1>1, <1>2, <1>4, <1>6, <2>1, <2>2
<1>9. ASSUME NEW k \in 1 .. l, skip + k <= n PROVE k \in DOMAIN s
  BY <1>1, <1>2, <1>4, <1>6, <1>7, <1>9
<1> QED
  BY <1>1, <1>3, <1>8, <1>9 DEF skip, n, s

\* The pages of the market hold each active loan, and hold it once.
LEMMA PagesHoldActiveLoansOnce ==
  ASSUME IInv, NEW l \in Limits
  PROVE  /\ \A i \in OnMarket : \E page \in 1 .. TotalPages(l) :
              \E k \in DOMAIN MarketPage(page, l) : MarketPage(page, l)[k] = loans[i]
         /\ \A p, q \in 1 .. TotalPages(l) :
              \A j \in DOMAIN MarketPage(p, l), k \in DOMAIN MarketPage(q, l) :
                /\ MarketPage(p, l)[j].status = "ACTIVE"
                /\ MarketPage(p, l)[j] = MarketPage(q, l)[k] => p = q /\ j = k
<1> DEFINE n == Cardinality(OnMarket)
           pages == TotalPages(l)
<1>1. l \in Nat \ {0}
  BY RequestsAssumption
<1>2. /\ n \in Nat
      /\ \A k \in 1 .. n : Newest(k) \in OnMarket
      /\ \A i \in OnMarket : \E k \in 1 .. n : Newest(k) = i
      /\ \A j, k \in 1 .. n : Newest(j) = Newest(k) => j = k
      /\ Len(Market) = n
      /\ \A k \in 1 .. n : Market[k] = loans[Newest(k)]
  BY MarketFacts
<1>3. pages = (n + l - 1) \div l
  BY <1>2 DEF TotalPages
<1> HIDE DEF n, pages
<1>4. \A p \in 1 .. pages : p \in Nat \ {0}
  OBVIOUS
<1>5. ASSUME NEW i \in OnMarket
      PROVE  \E page \in 1 .. pages :
               \E k \in DOMAIN MarketPage(page, l) : MarketPage(page, l)[k] = loans[i]
  <2>0. n \in Nat
    BY <1>2
  <2>1. PICK m \in 1 .. n : Newest(m) = i
    BY <1>2
  <2>2. PICK page \in 1 .. pages, k \in 1 .. l : m = (page - 1) * l + k
    <3>1. \A a \in Nat, b \in Nat \ {0} : \A c \in 1 .. a :
            \E page \in 1 .. ((a + b - 1) \div b), k \in 1 .. b : c = (page - 1) * b + k
      BY PageOfPlace
    <3>2. \E page \in 1 .. ((n + l - 1) \div l), k \in 1 .. l : m = (page - 1) * l + k
      BY <1>1, <2>0, <3>1, Zenon
    <3> QED
      BY <1>3, <3>2, Zenon
  <2>3. page \in Nat \ {0} /\ (page - 1) * l + k <= Len(Market)
    BY <1>2, <1>4, <2>2
  <2>4. k \in DOMAIN MarketPage(page, l)
    BY <1>1, <2>3, PageFacts
  <2>5. MarketPage(page, l)[k] = Market[m]
    BY <1>1, <2>2, <2>3, <2>4, PageFacts
  <2> QED
    BY <1>2, <2>1, <2>4, <2>5
<1>6. ASSUME NEW p \in 1 .. pages, NEW j \in DOMAIN MarketPage(p, l)
      PROVE  /\ j \in 1 .. l /\ (p - 1) * l + j \in 1 .. n
             /\ Newest((p - 1) * l + j) \in OnMarket
             /\ MarketPage(p, l)[j] = loans[Newest((p - 1) * l + j)]
  <2>1. p \in Nat \ {0}
    BY <1>4
  <2>2. /\ j \in 1 .. l /\ (p - 1) * l + j \in 1 .. Len(Market)
        /\ MarketPage(p, l)[j] = Market[(p - 1) * l + j]
    BY <1>1, <2>1, PageFacts
  <2> QED
    BY <1>2, <2>2
<1>7. ASSUME NEW p \in 1 .. pages, NEW q \in 1 .. pages,
             NEW j \in DOMAIN MarketPage(p, l), NEW k \in DOMAIN MarketPage(q, l)
      PROVE  /\ MarketPage(p, l)[j].status = "ACTIVE"
             /\ MarketPage(p, l)[j] = MarketPage(q, l)[k] => p = q /\ j = k
  <2>1. MarketPage(p, l)[j].status = "ACTIVE"
    BY <1>6 DEF OnMarket
  <2>2. ASSUME MarketPage(p, l)[j] = MarketPage(q, l)[k] PROVE p = q /\ j = k
    <3> DEFINE a == (p - 1) * l + j
               b == (q - 1) * l + k
    <3>1. /\ a \in 1 .. n /\ b \in 1 .. n /\ Newest(a) \in OnMarket /\ Newest(b) \in OnMarket
          /\ loans[Newest(a)] = loans[Newest(b)] /\ j \in 1 .. l /\ k \in 1 .. l
      BY <1>6, <2>2
    <3>2. Newest(a) = Newest(b)
      BY <3>1 DEF IInv, LoansInv, OnMarket
    <3>3. a = b
      BY <1>2, <3>1, <3>2
    <3> QED
      BY <1>1, <1>4, <3>1, <3>3, PlaceOnce
  <2> QED
    BY <2>1, <2>2
<1> QED
  BY <1>5, <1>7 DEF pages

\* What users are told is backed by the chain: the parameters of create_loan, the state of a loan
\* that was read behind its row, the animals of a kraal and the pages of the market.
THEOREM AnswersAreTrue == Spec => []AnswersAreBacked
<1>1. ASSUME IInv PROVE AnswersAreBacked
  <2>1. CallInv /\ VerifiedInv
    BY <1>1 DEF IInv
  <2>2. ParametersAreBacked
    BY <2>1 DEF ParametersAreBacked, CallInv, CallHolds, UpdateCall, ViewCall
  <2>3. LiveStateIsNewer
    BY <2>1 DEF LiveStateIsNewer, CallInv, CallHolds, UpdateCall, LoanCall
  <2>4. \A f \in Farmer : \A t \in MyKraal(f, FALSE) :
          livestock[t].status = "VERIFIED" => t \in Minted \/ livestock[t].edited
    BY <2>1 DEF VerifiedInv, MyKraal
  <2>5. ListsAreBacked
    BY <1>1, <2>4, PagesHoldActiveLoansOnce DEF ListsAreBacked
  <2> QED
    BY <2>2, <2>3, <2>5 DEF AnswersAreBacked
<1> QED
  BY <1>1, InductiveInvariant, PTL

-----------------------------------------------------------------------------
(* The appraisal, and what the loans of farmers rest on. *)

\* Of one answer, twice the median is twice that answer; of two, it is their sum.
LEMMA TwiceMedianIs ==
  ASSUME NEW a \in Nat, NEW b \in Nat
  PROVE  TwiceMedian(<<a, b>>, {1}) = 2 * a /\ TwiceMedian(<<a, b>>, {1, 2}) = a + b
<1> DEFINE v == <<a, b>>
           lower(P, x) == {i \in P : v[i] < x}
           upTo(P, x)  == {i \in P : v[i] <= x}
           Holds(P, k, x) == /\ x \in {v[i] : i \in P}
                             /\ Cardinality(lower(P, x)) < k /\ Cardinality(upTo(P, x)) >= k
<1>1. \A P, k : (\E x : Holds(P, k, x)) => Holds(P, k, SortedAt(v, P, k))
  <2> SUFFICES ASSUME NEW P, NEW k, NEW x, Holds(P, k, x) PROVE Holds(P, k, SortedAt(v, P, k))
    OBVIOUS
  <2>1. SortedAt(v, P, k) = CHOOSE y \in {v[i] : i \in P} :
                              Cardinality(lower(P, y)) < k /\ Cardinality(upTo(P, y)) >= k
    BY DEF SortedAt
  <2> HIDE DEF lower, upTo
  <2> QED
    BY <2>1
<1>2. /\ Cardinality({}) = 0 /\ Cardinality({1}) = 1 /\ Cardinality({2}) = 1
      /\ Cardinality({1, 2}) = 2
  <2>1. Cardinality({1}) = 1 /\ Cardinality({2}) = 1 /\ Cardinality({}) = 0
    BY FS_Singleton, FS_EmptySet
  <2>2. {1, 2} = 1 .. 2
    OBVIOUS
  <2>3. \A m \in Nat : Cardinality(1 .. m) = m
    BY FS_Interval
  <2> QED
    BY <2>1, <2>2, <2>3
<1>3. TwiceMedian(v, {1}) = 2 * a
  <2>1. lower({1}, a) = {} /\ upTo({1}, a) = {1} /\ a \in {v[i] : i \in {1}}
    OBVIOUS
  <2>2. Holds({1}, 1, a)
    <3> HIDE DEF lower, upTo, v
    <3> QED
      BY <1>2, <2>1
  <2>3. Holds({1}, 1, SortedAt(v, {1}, 1))
    <3> HIDE DEF Holds, v
    <3> QED
      BY <1>1, <2>2
  <2>4. SortedAt(v, {1}, 1) = a
    BY <2>3
  <2> QED
    BY <1>2, <2>4 DEF TwiceMedian
<1>4. TwiceMedian(v, {1, 2}) = a + b
  <2>1. PICK P : P = {1, 2}
    OBVIOUS
  <2>2. PICK lo \in {a, b}, hi \in {a, b} : lo <= hi /\ a \in {lo, hi} /\ b \in {lo, hi}
    OBVIOUS
  <2>3. lo \in {v[i] : i \in P} /\ hi \in {v[i] : i \in P}
    BY <2>1, <2>2
  <2>4. lower(P, lo) = {} /\ upTo(P, lo) \in {{1}, {2}, {1, 2}}
    BY <2>1, <2>2
  <2>5. upTo(P, hi) = {1, 2} /\ lower(P, hi) \in {{}, {1}, {2}}
    BY <2>1, <2>2
  <2>6. Holds(P, 1, lo) /\ Holds(P, 2, hi)
    <3> HIDE DEF lower, upTo, v
    <3> QED
      BY <1>2, <2>3, <2>4, <2>5
  <2>7. PICK s1, s2 : s1 = SortedAt(v, P, 1) /\ s2 = SortedAt(v, P, 2)
    OBVIOUS
  <2>8. Holds(P, 1, s1) /\ Holds(P, 2, s2)
    <3> HIDE DEF Holds, v
    <3> QED
      BY <1>1, <2>6, <2>7
  <2>9. s1 \in {a, b} /\ s2 \in {a, b}
    BY <2>1, <2>8
  <2>10. lower(P, s1) \in {{}, {1}, {2}, {1, 2}} /\ upTo(P, s2) \in {{}, {1}, {2}, {1, 2}}
    BY <2>1
  <2>11. lower(P, s1) = {} /\ upTo(P, s2) = {1, 2}
    <3> HIDE DEF lower, upTo, v
    <3> QED
      BY <1>2, <2>8, <2>10
  <2>12. s1 <= a /\ s1 <= b /\ a <= s2 /\ b <= s2
    <3>1. 1 \notin lower(P, s1) /\ 2 \notin lower(P, s1) /\ 1 \in upTo(P, s2) /\ 2 \in upTo(P, s2)
      BY <2>11
    <3> QED
      BY <2>1, <2>9, <3>1
  <2>13. s1 + s2 = a + b
    BY <2>9, <2>12
  <2>14. Cardinality(P) % 2 = 0 /\ Cardinality(P) \div 2 = 1
    BY <1>2, <2>1
  <2> HIDE DEF v
  <2>15. TwiceMedian(v, P) = s1 + s2
    BY <2>7, <2>14 DEF TwiceMedian
  <2> QED
    BY <2>1, <2>13, <2>15
<1> QED
  BY <1>3, <1>4

\* Every kind of animal has a price in the internal table, whatever its breed.
LEMMA InternalPriceIsPositive ==
  ASSUME NEW type \in DOMAIN BASE_PRICE_PER_KG_USD, NEW breed
  PROVE  InternalPrice(type, breed) \in Nat \ {0}
<1>1. BASE_PRICE_PER_KG_USD[type] \in Nat \ {0}
  BY DEF BASE_PRICE_PER_KG_USD
<1>2. BreedPremium(type, breed) \in Nat \ {0}
  BY DEF BreedPremium
<1>3. \A m, n \in Nat \ {0} : m * n \in Nat \ {0}
  OBVIOUS
<1> QED
  BY <1>1, <1>2, <1>3, Zenon DEF InternalPrice

\* What the aggregation computes from the table and one market feed.  Two answers are equally far
\* from their median, so a feed that disagrees takes the table's price out with it: there is no
\* price and the registration is refused, rather than appraised from the table alone.
THEOREM TwoSourcesAgreeOrNone ==
  ASSUME NEW type \in DOMAIN BASE_PRICE_PER_KG_USD, NEW breed, NEW market \in Nat
  PROVE  LET price == InternalPrice(type, breed)
             gap   == IF price > market THEN price - market ELSE market - price
         IN  AggregatedPricePerKg(type, breed, market) =
               IF market = NoPrice THEN 2 * price
               ELSE IF 100 * gap > MAX_DEVIATION_PCT * (price + market) THEN NoPrice
               ELSE price + market
<1>0. PICK price : price = InternalPrice(type, breed)
  OBVIOUS
<1>1. price \in Nat \ {0} /\ MAX_DEVIATION_PCT \in Nat
  BY <1>0, InternalPriceIsPositive, RequestsAssumption
<1> DEFINE gap      == IF price > market THEN price - market ELSE market - price
           answers  == <<price, market>>
           answered == {i \in DOMAIN answers : answers[i] # NoPrice}
           kept     == RejectOutliers(answers, answered)
<1>2. AggregatedPricePerKg(type, breed, market) =
        IF kept = {} THEN NoPrice ELSE TwiceMedian(answers, kept)
  BY <1>0 DEF AggregatedPricePerKg
<1>3. CASE market = NoPrice
  <2>1. answered = {1}
    BY <1>1, <1>3 DEF NoPrice
  <2>2. TwiceMedian(answers, {1}) = 2 * price
    BY <1>1, TwiceMedianIs
  <2>3. ~IsOutlier(answers[1], 2 * price)
    <3>1. MAX_DEVIATION_PCT * (2 * price) \in Nat
      BY <1>1
    <3> QED
      BY <1>1, <3>1 DEF IsOutlier
  <2>4. kept = {1}
    <3> HIDE DEF answers
    <3> QED
      BY <2>1, <2>2, <2>3 DEF RejectOutliers
  <2> QED
    BY <1>0, <1>2, <1>3, <2>2, <2>4
<1>4. CASE market # NoPrice
  <2>0. market \in Nat \ {0}
    BY <1>4 DEF NoPrice
  <2>1. answered = {1, 2}
    BY <1>1, <2>0 DEF NoPrice
  <2>2. TwiceMedian(answers, {1, 2}) = price + market
    BY <1>1, TwiceMedianIs
  <2>3. /\ IsOutlier(answers[1], price + market) =
             (100 * gap > MAX_DEVIATION_PCT * (price + market))
        /\ IsOutlier(answers[2], price + market) =
             (100 * gap > MAX_DEVIATION_PCT * (price + market))
    <3> DEFINE off(x) == IF 2 * x > price + market THEN 2 * x - (price + market)
                         ELSE (price + market) - 2 * x
    <3>1. off(price) = gap /\ off(market) = gap /\ price + market # 0
      BY <1>1, <2>0
    <3> QED
      BY <3>1, Zenon DEF IsOutlier
  <2>4. CASE 100 * gap > MAX_DEVIATION_PCT * (price + market)
    <3>1. kept = {}
      <4> HIDE DEF answers, gap
      <4> QED
        BY <2>1, <2>2, <2>3, <2>4 DEF RejectOutliers
    <3> QED
      BY <1>0, <1>2, <1>4, <2>4, <3>1
  <2>5. CASE ~ (100 * gap > MAX_DEVIATION_PCT * (price + market))
    <3>1. kept = {1, 2}
      <4> HIDE DEF answers, gap
      <4> QED
        BY <2>1, <2>2, <2>3, <2>5 DEF RejectOutliers
    <3> QED
      BY <1>0, <1>2, <1>4, <2>2, <2>5, <3>1
  <2> QED
    BY <2>4, <2>5
<1> QED
  BY <1>3, <1>4

\* So the market moves an appraisal by no more than the accepted deviation: a price that is found
\* is that close to the one of the table.
THEOREM MarketMovesPriceLittle ==
  ASSUME NEW type \in DOMAIN BASE_PRICE_PER_KG_USD, NEW breed, NEW market \in Nat
  PROVE  LET twice == AggregatedPricePerKg(type, breed, market)
             table == 2 * InternalPrice(type, breed)
         IN  twice # NoPrice =>
               /\ 100 * (twice - table) <= MAX_DEVIATION_PCT * twice
               /\ 100 * (table - twice) <= MAX_DEVIATION_PCT * twice
<1>0. PICK price : price = InternalPrice(type, breed)
  OBVIOUS
<1>1. price \in Nat \ {0} /\ MAX_DEVIATION_PCT \in Nat
  BY <1>0, InternalPriceIsPositive, RequestsAssumption
<1>2. PICK twice : twice = AggregatedPricePerKg(type, breed, market)
  OBVIOUS
<1> DEFINE gap == IF price > market THEN price - market ELSE market - price
<1>3. twice = IF market = NoPrice THEN 2 * price
              ELSE IF 100 * gap > MAX_DEVIATION_PCT * (price + market) THEN NoPrice
              ELSE price + market
  BY <1>0, <1>2, TwoSourcesAgreeOrNone
<1>4. CASE market = NoPrice
  <2>1. twice = 2 * price
    BY <1>3, <1>4
  <2>2. MAX_DEVIATION_PCT * (2 * price) \in Nat
    BY <1>1
  <2> QED
    BY <1>0, <1>1, <1>2, <2>1, <2>2
<1>5. CASE market # NoPrice /\ twice # NoPrice
  <2>1. twice = price + market /\ ~ (100 * gap > MAX_DEVIATION_PCT * (price + market))
    BY <1>3, <1>5
  <2> DEFINE most == MAX_DEVIATION_PCT * (price + market)
  <2>2. most \in Nat /\ 100 * gap <= most
    BY <1>1, <2>1
  <2> HIDE DEF most
  <2>3. 100 * ((price + market) - 2 * price) <= most /\ 100 * (2 * price - (price + market)) <= most
    BY <1>1, <2>2
  <2> QED
    BY <1>0, <1>2, <2>1, <2>3 DEF most
<1> QED
  BY <1>2, <1>4, <1>5

-----------------------------------------------------------------------------
\* A row's value is what the animal of its owner's registration was appraised at.
Appraised(r, f, t, value) ==
  /\ Registered(r) /\ reg[r].tag = t /\ reg[r].owner = f
  /\ \E market \in MarketAnswers :
       /\ AggregatedPricePerKg(reg[r].animal.type, reg[r].animal.breed, market) # NoPrice
       /\ value = AppraiseLivestock(reg[r].animal, market)
AppraisedInv ==
  \A t \in Tag : livestock[t] # None =>
    \E r \in Register : Appraised(r, livestock[t].owner, t, livestock[t].value)

\* A registration whose row is inserted does not change any more.
LEMMA RegistrationsStay ==
  ASSUME IInv, [RequestsNext]_vars, NEW r \in Register, Registered(r)
  PROVE  reg'[r] = reg[r]
<1>1. StoreTypeOK /\ MintTypeOK /\ SequenceInv /\ MintInv
  BY DEF IInv
<1>2. ASSUME NEW q \in Register, RegisterStep(q) PROVE reg'[r] = reg[r]
  <2>1. q # r
    BY <1>2 DEF RegisterStep, RegisterChecks, RegisterCreates, Inserted, RegisterFails, Registered
  <2> QED
    BY <1>1, <1>2, <2>1 DEF RegisterStep, RegisterChecks, RegisterCreates, Inserted, RegisterFails,
       MintTypeOK
<1>3. ASSUME NEW q \in Register, MintStep(q) \/ LandStep(q) PROVE reg' = reg
  <2>1. CASE MintStep(q)
    BY <1>1, <2>1, MintStepFollows DEF MintGoesTo
  <2>2. CASE LandStep(q)
    BY <2>2 DEF LandStep, TxLands
  <2> QED
    BY <1>3, <2>1, <2>2
<1>4. CASE Restart
  BY <1>4 DEF Restart, Registered
<1>5. CASE Tick \/ OtherTx \/ UNCHANGED requestVars
  BY <1>5 DEF Tick, OtherTx, requestVars
<1>6. ASSUME NEW c \in Call, CallStep(c) PROVE reg' = reg
  BY <1>6 DEF CallStep, UpdateReads, LoanRequestReads, LoanViewReads, UpdateWrites, UpdateWritesTo,
     LoanRequestAnswers, LoanViewAnswers, CallEnds, Calls
<1>7. ASSUME NEW t \in Tag, ChainStep(t) PROVE reg' = reg
  BY <1>7 DEF ChainStep, ChainLoan, IndexLoan
<1> QED
  BY <1>2, <1>3, <1>4, <1>5, <1>6, <1>7, StepKinds

\* An insert appraises the animal of its registration.
LEMMA CreatesAppraised ==
  ASSUME IInv, NEW r \in Register, RegisterCreates(r), NEW t, t = reg[r].tag,
         NEW f, NEW value, f = livestock'[t].owner, value = livestock'[t].value
  PROVE  Appraised(r, f, t, value)'
<1>1. StoreTypeOK /\ MintTypeOK
  BY DEF IInv
<1>2. reg[r] \in Registration /\ reg' = [reg EXCEPT ![r].step = "done"]
  BY <1>1, CreatesFacts
<1>3. PICK g : g = [reg[r] EXCEPT !.step = "done"]
  OBVIOUS
<1>4. reg'[r] = g /\ g.step = "done" /\ g.tag = reg[r].tag /\ g.owner = reg[r].owner
      /\ g.animal = reg[r].animal /\ g \in Registration /\ g # None
  <2>1. g.step = "done" /\ g.tag = reg[r].tag /\ g.owner = reg[r].owner
        /\ g.animal = reg[r].animal /\ g \in Registration
    BY <1>2, <1>3 DEF Registration
  <2> QED
    BY <1>1, <1>2, <1>3, <2>1, RequestsAssumption DEF MintTypeOK
<1>5. PICK market \in MarketAnswers :
        /\ AggregatedPricePerKg(reg[r].animal.type, reg[r].animal.breed, market) # NoPrice
        /\ livestock' = [livestock EXCEPT ![reg[r].tag] =
             [owner |-> reg[r].owner, status |-> "APPRAISED", edited |-> FALSE,
              value |-> AppraiseLivestock(reg[r].animal, market)]]
  BY DEF RegisterCreates, Inserted
<1>6. reg[r].tag \in Tag
  BY <1>2 DEF Registration
<1>7. /\ livestock'[reg[r].tag].owner = reg[r].owner
      /\ livestock'[reg[r].tag].value = AppraiseLivestock(reg[r].animal, market)
  BY <1>1, <1>5, <1>6 DEF StoreTypeOK
<1> QED
  BY <1>4, <1>5, <1>7 DEF Appraised, Registered

\* Every step keeps the values: rows keep their owner and value, and registrations their animal.
LEMMA StepKeepsAppraised ==
  ASSUME IInv, AppraisedInv, [RequestsNext]_vars
  PROVE  AppraisedInv'
<1>1. RowsMove
  BY StepMovesRows
<1>2. SUFFICES ASSUME NEW t \in Tag, livestock'[t] # None,
                      NEW f, NEW value, f = livestock'[t].owner, value = livestock'[t].value
               PROVE  \E r \in Register : Appraised(r, f, t, value)'
  BY DEF AppraisedInv
<1>3. CASE livestock[t] # None
  <2>1. f = livestock[t].owner /\ value = livestock[t].value
    BY <1>1, <1>2, <1>3 DEF RowsMove, RowMoves
  <2>2. PICK r \in Register : Appraised(r, f, t, value)
    BY <1>3, <2>1 DEF AppraisedInv
  <2>3. Registered(r) /\ reg'[r] = reg[r]
    BY <2>2, RegistrationsStay DEF Appraised
  <2>4. Appraised(r, f, t, value)'
    BY <2>2, <2>3 DEF Appraised, Registered
  <2> QED
    BY <2>4
<1>4. CASE livestock[t] = None
  <2>1. PICK r \in Register : RegisterCreates(r) /\ reg[r].tag = t
    BY <1>1, <1>2, <1>4 DEF RowsMove, RowMoves
  <2>2. Appraised(r, f, t, value)'
    BY <1>2, <2>1, CreatesAppraised
  <2> QED
    BY <2>2
<1> QED
  BY <1>3, <1>4

\* The values hold in every behaviour.
LEMMA ValuesInvariant == Spec => [](IInv /\ AppraisedInv)
<1>1. RequestsInit => AppraisedInv
  BY DEF RequestsInit, AppraisedInv
<1>2. IInv /\ AppraisedInv /\ [RequestsNext]_vars => AppraisedInv'
  BY StepKeepsAppraised
<1> QED
  BY <1>1, <1>2, InductiveInvariant, PTL DEF Spec

\* The parameters of create_loan ask for no more than the animal its owner registered was
\* appraised at, at a price its two sources agreed on, however edits, a second registration of
\* the animal, mints and liquidations change the row between the reads of the request.
THEOREM LoansFollowAppraisals ==
  Spec => [](\A c \in Call : call[c] # None /\ call[c].kind = "params" =>
               \E r \in Register, market \in MarketAnswers :
                 /\ Registered(r) /\ reg[r].tag = call[c].tag /\ reg[r].owner = call[c].owner
                 /\ AggregatedPricePerKg(reg[r].animal.type, reg[r].animal.breed, market) # NoPrice
                 /\ call[c].principal <= AppraiseLivestock(reg[r].animal, market))
<1> DEFINE Backed(c) ==
      \E r \in Register, market \in MarketAnswers :
        /\ Registered(r) /\ reg[r].tag = call[c].tag /\ reg[r].owner = call[c].owner
        /\ AggregatedPricePerKg(reg[r].animal.type, reg[r].animal.breed, market) # NoPrice
        /\ call[c].principal <= AppraiseLivestock(reg[r].animal, market)
<1>1. ASSUME IInv, AppraisedInv, NEW c \in Call, call[c] # None, call[c].kind = "params"
      PROVE  Backed(c)
  <2>1. PICK t : t = call[c].tag
    OBVIOUS
  <2>2. CallHolds(call[c])
    BY <1>1 DEF IInv, CallInv
  <2>3. /\ t \in Tag /\ livestock[t] # None
        /\ livestock[t].owner = call[c].owner /\ call[c].principal <= livestock[t].value
    BY <1>1, <2>1, <2>2 DEF CallHolds, UpdateCall, LoanCall, ViewCall
  <2>4. PICK r \in Register : Appraised(r, livestock[t].owner, t, livestock[t].value)
    BY <1>1, <2>3 DEF AppraisedInv
  <2> QED
    BY <2>1, <2>3, <2>4 DEF Appraised
<1>2. IInv /\ AppraisedInv => \A c \in Call : call[c] # None /\ call[c].kind = "params" => Backed(c)
  BY <1>1
<1> QED
  BY <1>2, ValuesInvariant, PTL

-----------------------------------------------------------------------------
\* The most steps a mint has left.
Rank(m) ==
  CASE m.step \in {"none", "done", "unseen"} -> 0
    [] m.step \in {"failed", "lost"}         -> 1
    [] m.step = "minted"                     -> 2
    [] m.step = "wait"                       -> 2 + (MaxAttempts - m.tries)
    [] m.step = "send"                       -> 3 + MaxAttempts
    [] m.step = "account"                    -> 4 + MaxAttempts

\* Its values.
LEMMA RankValues ==
  ASSUME NEW m \in MintRecord
  PROVE  /\ m.step \in {"none", "done", "unseen"} => Rank(m) = 0
         /\ m.step \in {"failed", "lost"} => Rank(m) = 1
         /\ m.step = "minted" => Rank(m) = 2
         /\ m.step = "wait" => Rank(m) = 2 + (MaxAttempts - m.tries)
         /\ m.step = "send" => Rank(m) = 3 + MaxAttempts
         /\ m.step = "account" => Rank(m) = 4 + MaxAttempts
         /\ Rank(m) \in 0 .. MaxAttempts + 4
         /\ m.tries \in 0 .. MaxAttempts /\ MaxAttempts \in Nat \ {0}
<1>1. /\ m.step \in {"none", "account", "send", "wait", "minted", "lost", "failed", "done", "unseen"}
      /\ m.tries \in 0 .. MaxAttempts /\ MaxAttempts \in Nat \ {0}
  BY RequestsAssumption DEF MintRecord
<1>2. /\ m.step \in {"none", "done", "unseen"} => Rank(m) = 0
      /\ m.step \in {"failed", "lost"} => Rank(m) = 1
      /\ m.step = "minted" => Rank(m) = 2
      /\ m.step = "wait" => Rank(m) = 2 + (MaxAttempts - m.tries)
      /\ m.step = "send" => Rank(m) = 3 + MaxAttempts
      /\ m.step = "account" => Rank(m) = 4 + MaxAttempts
  BY DEF Rank
<1> QED
  BY <1>1, <1>2

\* A step of a mint brings it closer to its end.
LEMMA MintStepLowers ==
  ASSUME StoreTypeOK, MintTypeOK, SequenceInv, MintInv, NEW r \in Register, MintStep(r)
  PROVE  Rank(mint'[r]) < Rank(mint[r])
<1> DEFINE o == mint[r]
<1>1. o \in MintRecord /\ mint'[r] \in MintRecord /\ Follows(o, tx[r])
  <2>1. PICK m \in MintRecord : MintGoesTo(r, m)
    BY MintStepFollows
  <2> QED
    BY <2>1 DEF MintGoesTo, MintTypeOK, MintInv
<1>2. PICK n : n = mint'[r]
  OBVIOUS
<1>3. n \in MintRecord /\ o.tries \in 0 .. MaxAttempts /\ MaxAttempts \in Nat \ {0}
  BY <1>1, <1>2, RankValues
<1>4. ASSUME NEW s \in {"lost", "failed", "done", "unseen"}, n = [o EXCEPT !.step = s]
      PROVE  n.step = s
  BY <1>1, <1>4 DEF MintRecord
<1>5. CASE MintBuilds(r)
  <2>1. o.step = "account" /\ n = [o EXCEPT !.step = "send", !.seq = sequence + 1, !.left = TX_TIMEOUT]
    BY <1>2, <1>5 DEF MintBuilds, MintOnly, MintTypeOK
  <2>2. n.step = "send"
    BY <1>1, <2>1 DEF MintRecord
  <2>3. Rank(o) = 4 + MaxAttempts /\ Rank(n) = 3 + MaxAttempts
    BY <1>1, <1>3, <2>1, <2>2, RankValues
  <2> QED
    BY <1>2, <1>3, <2>3
<1>6. CASE MintSends(r)
  <2>1. PICK next \in {"wait", "lost"} : n = [o EXCEPT !.step = next]
    BY <1>2, <1>6 DEF MintSends, MintTypeOK
  <2>2. o.step = "send"
    BY <1>6 DEF MintSends
  <2>3. n.step = next /\ n.tries = o.tries
    BY <1>1, <2>1 DEF MintRecord
  <2> QED
    BY <1>1, <1>2, <1>3, <2>2, <2>3, RankValues
<1>7. CASE MintPolls(r)
  <2> DEFINE step == PollResult(r, IF o.tries + 1 < MaxAttempts THEN "wait" ELSE "failed")
  <2>1. o.step = "wait" /\ n = [o EXCEPT !.tries = @ + 1, !.rested = FALSE, !.step = step]
    BY <1>2, <1>7 DEF MintPolls, MintOnly, MintTypeOK
  <2>2. tx[r].fate \in {"success", "failed", "pending"} /\ o.tries < MaxAttempts
    BY <1>1, <2>1 DEF Follows, MintTypeOK, TxRecord
  <2>3. step \in {"minted", "failed", "wait"}
    BY <2>2 DEF PollResult
  <2> HIDE DEF step
  <2>4. n.step = step /\ n.tries = o.tries + 1
    BY <1>1, <2>1 DEF MintRecord
  <2>5. Rank(o) = 2 + (MaxAttempts - o.tries) /\ o.tries \in Nat
    BY <1>1, <1>3, <2>1, RankValues
  <2>6. Rank(n) \in {1, 2} \/ Rank(n) = 2 + (MaxAttempts - (o.tries + 1))
    BY <1>3, <2>3, <2>4, RankValues
  <2> QED
    BY <1>2, <1>3, <2>2, <2>5, <2>6
<1>8. CASE MintFails(r)
  <2>1. PICK s \in {"lost", "failed"} : n = [o EXCEPT !.step = s]
    <3>1. n = [o EXCEPT !.step = IF @ = "wait" THEN "lost" ELSE "failed"]
      BY <1>2, <1>8 DEF MintFails, MintOnly, MintTypeOK
    <3>2. CASE o.step = "wait"
      BY <3>1, <3>2
    <3>3. CASE o.step # "wait"
      BY <3>1, <3>3
    <3> QED
      BY <3>2, <3>3
  <2>2. o.step = "wait" => o.tries < MaxAttempts
    BY <1>1 DEF Follows
  <2>3. o.step \in {"account", "send", "wait"} /\ n.step = s
    BY <1>4, <1>8, <2>1 DEF MintFails
  <2> QED
    BY <1>1, <1>2, <1>3, <2>2, <2>3, RankValues
<1>9. CASE MintVerifies(r)
  <2>1. o.step = "minted" /\ n = [o EXCEPT !.step = "done"]
    BY <1>2, <1>9 DEF MintVerifies, MintTypeOK
  <2> QED
    BY <1>1, <1>2, <1>4, <2>1, RankValues
<1>10. CASE MintVerifyFails(r)
  <2>1. o.step = "minted" /\ n = [o EXCEPT !.step = "lost"]
    BY <1>2, <1>10 DEF MintVerifyFails, MintOnly, MintTypeOK
  <2> QED
    BY <1>1, <1>2, <1>4, <2>1, RankValues
<1>11. CASE MintRejects(r)
  <2>1. PICK s \in {"done", "unseen"} : n = [o EXCEPT !.step = s]
    <3>1. n = [o EXCEPT !.step = IF @ = "lost" THEN "unseen" ELSE "done"]
      BY <1>2, <1>11 DEF MintRejects, MintTypeOK
    <3>2. CASE o.step = "lost"
      BY <3>1, <3>2
    <3>3. CASE o.step # "lost"
      BY <3>1, <3>3
    <3> QED
      BY <3>2, <3>3
  <2>2. o.step \in {"failed", "lost"}
    BY <1>11 DEF MintRejects
  <2> QED
    BY <1>1, <1>2, <1>4, <2>1, <2>2, RankValues
<1> QED
  BY <1>5, <1>6, <1>7, <1>8, <1>9, <1>10, <1>11 DEF MintStep

\* What the other steps do to a mint that was started: nothing, or a restart forgets it.
LEMMA StepLowers ==
  ASSUME IInv, [RequestsNext]_vars, NEW r \in Register, mint[r].step # "none"
  PROVE  \/ mint'[r].step = mint[r].step /\ mint'[r].tries = mint[r].tries
         \/ Rank(mint'[r]) < Rank(mint[r])
<1> DEFINE Same == mint'[r].step = mint[r].step /\ mint'[r].tries = mint[r].tries
           Less == Rank(mint'[r]) < Rank(mint[r])
<1>1. StoreTypeOK /\ MintTypeOK /\ SequenceInv /\ RowInv /\ MintInv
  BY DEF IInv
<1>2. ASSUME NEW q \in Register, RegisterStep(q) PROVE Same
  <2>1. CASE RegisterCreates(q)
    <3>1. reg[q].step = "appraise" /\ mint' = [mint EXCEPT ![q].step = "account"]
      BY <1>1, <2>1, CreatesFacts
    <3>2. q # r
      BY <1>1, <3>1 DEF RowInv, Registered
    <3> QED
      BY <1>1, <3>1, <3>2 DEF MintTypeOK
  <2>2. CASE ~RegisterCreates(q)
    BY <1>2, <2>2 DEF RegisterStep, RegisterChecks, RegisterFails
  <2> QED
    BY <2>1, <2>2
<1>3. ASSUME NEW q \in Register, MintStep(q) PROVE Same \/ Less
  <2>1. CASE q = r
    BY <1>1, <1>3, <2>1, MintStepLowers
  <2>2. CASE q # r
    <3>1. PICK m : mint' = [mint EXCEPT ![q] = m]
      BY <1>1, <1>3, MintStepFollows DEF MintGoesTo
    <3> QED
      BY <1>1, <2>2, <3>1 DEF MintTypeOK
  <2> QED
    BY <2>1, <2>2
<1>4. CASE Tick
  <2>1. mint'[r] = [mint[r] EXCEPT !.left = IF @ > 0 THEN @ - 1 ELSE 0, !.rested = mint[r].step = "wait"]
    BY <1>4 DEF Tick
  <2>2. mint[r] \in MintRecord
    BY <1>1 DEF MintTypeOK
  <2> QED
    BY <2>1, <2>2 DEF MintRecord
<1>5. CASE Restart
  <2>1. CASE mint[r].step \in {"none", "done", "unseen"}
    BY <1>5, <2>1 DEF Restart
  <2>2. CASE mint[r].step \notin {"none", "done", "unseen"}
    <3>1. PICK n : n = [NoMint EXCEPT !.step = "unseen"]
      OBVIOUS
    <3>2. NoMint \in MintRecord
      BY RequestsAssumption DEF NoMint, MintRecord
    <3>3. mint'[r] = n /\ n \in MintRecord /\ n.step = "unseen"
      BY <1>5, <2>2, <3>1, <3>2, MintFields DEF Restart
    <3>4. mint[r] \in MintRecord
      BY <1>1 DEF MintTypeOK
    <3>5. mint[r].step \in {"account", "send", "wait", "minted", "lost", "failed"}
      BY <2>2, <3>4 DEF MintRecord
    <3>6. mint[r].step = "wait" => mint[r].tries < MaxAttempts
      BY <1>1 DEF MintInv, Follows
    <3> QED
      BY <3>3, <3>4, <3>5, <3>6, RankValues
  <2> QED
    BY <2>1, <2>2
<1>6. CASE OtherTx \/ UNCHANGED requestVars
  BY <1>6 DEF OtherTx, requestVars
<1>7. ASSUME NEW c \in Call, CallStep(c) PROVE Same
  BY <1>7 DEF CallStep, UpdateReads, LoanRequestReads, LoanViewReads, UpdateWrites, UpdateWritesTo,
     LoanRequestAnswers, LoanViewAnswers, CallEnds, Calls
<1>8. ASSUME NEW t \in Tag, ChainStep(t) PROVE Same
  BY <1>8 DEF ChainStep, ChainLoan, IndexLoan
<1>9. ASSUME NEW q \in Register, LandStep(q) PROVE Same
  BY <1>9 DEF LandStep, TxLands
<1>10. Same \/ Less
  <2>1. Tick \/ Restart \/ OtherTx \/ UNCHANGED requestVars => Same \/ Less
    BY <1>4, <1>5, <1>6
  <2> HIDE DEF Same, Less
  <2> QED
    BY <1>2, <1>3, <1>7, <1>8, <1>9, <2>1, StepKinds
<1> QED
  BY <1>10

\* Why a mint settles, but for the fairness of timers and promises: whatever the network, the
\* ledgers, restarts and other requests do, each of its steps lowers a rank of MaxAttempts + 4
\* at most, and no step of anything else raises it.
THEOREM MintsRunDown ==
  Spec => /\ [](\A r \in Register : Rank(mint[r]) \in 0 .. MaxAttempts + 4)
          /\ [][\A r \in Register : mint[r].step # "none" =>
                  \/ mint'[r].step = mint[r].step /\ mint'[r].tries = mint[r].tries
                  \/ Rank(mint'[r]) < Rank(mint[r])]_vars
<1> DEFINE Ranked == \A r \in Register : Rank(mint[r]) \in 0 .. MaxAttempts + 4
           Lower  == \A r \in Register : mint[r].step # "none" =>
                       \/ mint'[r].step = mint[r].step /\ mint'[r].tries = mint[r].tries
                       \/ Rank(mint'[r]) < Rank(mint[r])
<1>1. IInv => Ranked
  BY RankValues DEF IInv, MintTypeOK
<1>2. IInv /\ [RequestsNext]_vars => [Lower]_vars
  BY StepLowers
<1> QED
  BY <1>1, <1>2, InductiveInvariant, PTL DEF Spec
=============================================================================
