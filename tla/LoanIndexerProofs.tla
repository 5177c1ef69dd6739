-------------------------- MODULE LoanIndexerProofs --------------------------
(***************************************************************************)
(* Proofs, for any loans, requests, polls and restarts, of the safety      *)
(* properties of LoanIndexerHistory.                                       *)
(***************************************************************************)
EXTENDS LoanIndexerHistory, FiniteSetTheorems, TLAPS

Kind  == {"LoanCreated", "LoanRepaid", "AssetLiquidated"}
Event == [kind : Kind, loan : Loan, ledger : Nat]
Row   == [status : {"ACTIVE", "REPAID", "LIQUIDATED"}, last : Nat]

ChainTypeOK ==
  /\ ledger \in Nat
  /\ chain \in [Loan -> {"None", "Active", "Repaid", "Liquidated"}]
  /\ events \in Seq(Event)

MirrorTypeOK ==
  /\ db \in [Loan -> Row \cup {None}]
  /\ freed \subseteq Loan /\ registered \subseteq Loan /\ missed \subseteq Loan
  /\ cursor \in Nat
  /\ poll \in [Poll -> [batch : Seq(Event), at : {"read", "free", "write"}]]
  /\ retire \in [Request -> [todo : Seq(Loan), done : Seq(SUBSET Loan)]]
  /\ restarts \in 0 .. MaxRestarts

\* What the contract says of a loan of which it emitted the event e.
Fits(e) ==
  /\ chain[e.loan] # "None"
  /\ e.kind = "LoanRepaid" => chain[e.loan] = "Repaid"
  /\ e.kind = "AssetLiquidated" => chain[e.loan] = "Liquidated"

\* The events are in the order of their ledgers, and the contract stands by each of them.
EventsInv ==
  /\ START_LEDGER <= ledger /\ ledger <= MaxLedger
  /\ \A i \in DOMAIN events :
       /\ START_LEDGER <= events[i].ledger /\ events[i].ledger <= ledger
       /\ Fits(events[i])
       /\ \A j \in DOMAIN events : i <= j => events[i].ledger <= events[j].ledger
       /\ events[i].kind = "LoanCreated" =>
            \A j \in DOMAIN events :
              events[j].loan = events[i].loan => events[i].ledger <= events[j].ledger

\* The polls hold events of closed ledgers.
PollInv ==
  /\ START_LEDGER <= cursor /\ cursor <= ledger
  /\ \A p \in Poll : \A i \in DOMAIN poll[p].batch :
       /\ poll[p].batch[i].ledger < ledger
       /\ \E j \in DOMAIN events : poll[p].batch[i] = events[j]

\* A row was written from an event, and none is older than the creation of its loan.
RowInv ==
  \A l \in Loan : db[l] # None =>
    /\ START_LEDGER <= db[l].last /\ db[l].last <= ledger
    /\ \A i \in DOMAIN events :
         events[i].loan = l /\ events[i].kind = "LoanCreated" => events[i].ledger <= db[l].last

\* Loans in a request have rows, and those of chunks that succeeded are repaid.
RetireInv ==
  \A r \in Request :
    /\ \A i \in DOMAIN retire[r].todo : db[retire[r].todo[i]] # None
    /\ \A i \in DOMAIN retire[r].done : \A l \in retire[r].done[i] :
         db[l] # None /\ chain[l] = "Repaid"

IInv == ChainTypeOK /\ MirrorTypeOK /\ EventsInv /\ PollInv /\ RowInv /\ RetireInv /\ MirrorNeverAhead

\* Where polls do not overlap: a poll about to write a creation found no row, and a poll without
\* events is at its start.
WriteInv ==
  \A p \in Poll :
    /\ poll[p].batch = <<>> => poll[p].at = "read"
    /\ poll[p].batch # <<>> /\ poll[p].at # "read" =>
         LET e == Head(poll[p].batch) IN e.kind = "LoanCreated" => db[e.loan] = None
-----------------------------------------------------------------------------
\* How the chain goes on in a step: it forgets no event and reopens no loan.
Grows ==
  /\ ledger <= ledger'
  /\ \A i \in DOMAIN events : i \in DOMAIN events' /\ events'[i] = events[i]
  /\ \A l \in Loan :
       /\ chain[l] # "None" => chain'[l] # "None"
       /\ chain[l] \in {"Repaid", "Liquidated"} => chain'[l] = chain[l]
  /\ \A i \in DOMAIN events' \ DOMAIN events :
       /\ events'[i].ledger = ledger
       /\ events'[i].kind = "LoanCreated" => chain[events'[i].loan] = "None"
  /\ \A l \in Loan : chain'[l] # chain[l] /\ chain'[l] \in {"Repaid", "Liquidated"} =>
       \E i \in DOMAIN events' : events'[i].loan = l /\ events'[i].kind # "LoanCreated"

\* A step in which the chain emits events that fit what the contract says from then on.
Emits(kind, loans) ==
  /\ events' = Emitted(kind, loans) /\ ledger' = ledger
  /\ chain' \in [Loan -> {"None", "Active", "Repaid", "Liquidated"}]
  /\ \A l \in Loan :
       /\ chain[l] # "None" => chain'[l] # "None"
       /\ chain[l] \in {"Repaid", "Liquidated"} => chain'[l] = chain[l]
       /\ chain'[l] # chain[l] /\ chain'[l] \in {"Repaid", "Liquidated"}
            => kind # "LoanCreated" /\ \E i \in DOMAIN loans : loans[i] = l
  /\ \A i \in DOMAIN loans :
       /\ chain'[loans[i]] # "None"
       /\ kind = "LoanCreated" => chain[loans[i]] = "None"
       /\ kind = "LoanRepaid" => chain'[loans[i]] = "Repaid"
       /\ kind = "AssetLiquidated" => chain'[loans[i]] = "Liquidated"

\* Two lists of one kind make a list of that kind.
LEMMA Concatenation ==
  ASSUME NEW S, NEW s \in Seq(S), NEW t \in Seq(S)
  PROVE  s \o t \in Seq(S) /\ Len(s \o t) = Len(s) + Len(t)
  OBVIOUS

\* Emitted appends one event per loan, of the ledger being filled.
LEMMA EmittedFacts ==
  ASSUME ChainTypeOK, NEW kind \in Kind, NEW loans \in Seq(Loan)
  PROVE  /\ Emitted(kind, loans) \in Seq(Event)
         /\ DOMAIN Emitted(kind, loans) = 1 .. Len(events) + Len(loans)
         /\ \A i \in 1 .. Len(events) : Emitted(kind, loans)[i] = events[i]
         /\ \A i \in Len(events) + 1 .. Len(events) + Len(loans) :
              Emitted(kind, loans)[i]
                = [kind |-> kind, loan |-> loans[i - Len(events)], ledger |-> ledger]
<1> DEFINE new == [i \in DOMAIN loans |-> [kind |-> kind, loan |-> loans[i], ledger |-> ledger]]
<1>1. \A i \in DOMAIN loans : loans[i] \in Loan
  OBVIOUS
<1>2. \A i \in DOMAIN loans : new[i] \in Event
  BY <1>1 DEF ChainTypeOK, Event
<1>3. DOMAIN loans = 1 .. Len(loans) /\ Len(loans) \in Nat
  OBVIOUS
<1>4. new \in Seq(Event) /\ Len(new) = Len(loans)
  BY <1>2, <1>3
<1>5. \A i \in 1 .. Len(loans) :
        new[i] = [kind |-> kind, loan |-> loans[i], ledger |-> ledger]
  BY <1>3
<1>6. events \in Seq(Event) /\ Emitted(kind, loans) = events \o new
  BY DEF ChainTypeOK, Emitted
<1> HIDE DEF new
<1>7. Len(events) \in Nat /\ Len(loans) \in Nat
  BY <1>6
<1>8. /\ Emitted(kind, loans) \in Seq(Event)
      /\ Len(Emitted(kind, loans)) = Len(events) + Len(loans)
  <2>1. events \o new \in Seq(Event) /\ Len(events \o new) = Len(events) + Len(new)
    BY <1>4, <1>6, Concatenation
  <2> QED
    BY <1>4, <1>6, <2>1, Zenon
<1>9. /\ \A i \in 1 .. Len(events) : Emitted(kind, loans)[i] = events[i]
      /\ \A i \in Len(events) + 1 .. Len(events) + Len(loans) :
           Emitted(kind, loans)[i] = new[i - Len(events)]
  BY <1>4, <1>6, <1>7
<1>10. \A i \in Len(events) + 1 .. Len(events) + Len(loans) :
           new[i - Len(events)]
             = [kind |-> kind, loan |-> loans[i - Len(events)], ledger |-> ledger]
  BY <1>5, <1>7
<1>11. DOMAIN Emitted(kind, loans) = 1 .. Len(events) + Len(loans)
  BY <1>8
<1> HIDE DEF Emitted
<1> QED
  BY <1>8, <1>9, <1>10, <1>11, Zenon

\* The chain emits: what is emitted must fit what the contract says from then on, and a loan is
\* created once.
LEMMA EmitStep ==
  ASSUME ChainTypeOK, EventsInv, NEW kind \in Kind, NEW loans \in Seq(Loan),
         Emits(kind, loans)
  PROVE  ChainTypeOK' /\ EventsInv' /\ Grows
<1> DEFINE n == Len(events)
           new(i) == [kind |-> kind, loan |-> loans[i - n], ledger |-> ledger]
<1>1. /\ events' \in Seq(Event) /\ DOMAIN events' = 1 .. n + Len(loans)
      /\ \A i \in 1 .. n : events'[i] = events[i]
      /\ \A i \in n + 1 .. n + Len(loans) : events'[i] = new(i)
  BY EmittedFacts DEF Emits
<1>2. /\ n \in Nat /\ Len(loans) \in Nat /\ DOMAIN loans = 1 .. Len(loans)
      /\ DOMAIN events = 1 .. n /\ ledger \in Nat
      /\ \A i \in 1 .. n : events[i] \in Event
  BY DEF ChainTypeOK
<1>3. ASSUME NEW i \in n + 1 .. n + Len(loans)
      PROVE  /\ events'[i].kind = kind /\ events'[i].loan = loans[i - n] /\ events'[i].ledger = ledger
             /\ i - n \in DOMAIN loans /\ loans[i - n] \in Loan
  <2>1. events'[i] = new(i)
    BY <1>1
  <2>2. i - n \in DOMAIN loans
    BY <1>2
  <2> HIDE DEF n
  <2> QED
    BY <2>1, <2>2
<1>4. \A i \in 1 .. n : events[i].ledger \in Nat /\ events[i].loan \in Loan
  BY <1>2 DEF Event
<1> HIDE DEF n
<1>5. ChainTypeOK'
  BY <1>1, <1>2 DEF ChainTypeOK, Emits
<1>6. Grows
  <2>1. \A i \in DOMAIN events : i \in DOMAIN events' /\ events'[i] = events[i]
    BY <1>1, <1>2
  <2>2. \A i \in DOMAIN events' \ DOMAIN events : i \in n + 1 .. n + Len(loans)
    BY <1>1, <1>2
  <2>3. ASSUME NEW i \in DOMAIN events' \ DOMAIN events, events'[i].kind = "LoanCreated"
        PROVE  chain[events'[i].loan] = "None"
    BY <2>2, <2>3, <1>3 DEF Emits
  <2>4. \A i \in DOMAIN events' \ DOMAIN events : events'[i].ledger = ledger
    BY <2>2, <1>3
  <2>5. ASSUME NEW l \in Loan, chain'[l] # chain[l], chain'[l] \in {"Repaid", "Liquidated"}
        PROVE  \E i \in DOMAIN events' : events'[i].loan = l /\ events'[i].kind # "LoanCreated"
    <3>1. kind # "LoanCreated" /\ \E j \in DOMAIN loans : loans[j] = l
      BY <2>5 DEF Emits
    <3>2. PICK j \in DOMAIN loans : loans[j] = l
      BY <3>1
    <3>3. n + j \in n + 1 .. n + Len(loans) /\ (n + j) - n = j /\ n + j \in DOMAIN events'
      BY <1>1, <1>2
    <3>4. events'[n + j].kind = kind /\ events'[n + j].loan = loans[(n + j) - n]
      BY <1>3, <3>3
    <3> QED
      BY <3>1, <3>2, <3>3, <3>4
  <2> QED
    BY <1>2, <2>1, <2>3, <2>4, <2>5 DEF Grows, Emits
<1>7. ASSUME NEW i \in DOMAIN events'
      PROVE  START_LEDGER <= events'[i].ledger /\ events'[i].ledger <= ledger /\ Fits(events[i])'
  <2>1. CASE i \in 1 .. n
    BY <1>1, <1>2, <1>4, <2>1 DEF EventsInv, Fits, Emits
  <2>2. CASE i \in n + 1 .. n + Len(loans)
    BY <1>1, <1>2, <1>3, <2>2 DEF EventsInv, Fits, Emits
  <2> QED
    BY <1>1, <1>2, <2>1, <2>2
<1>8. ASSUME NEW i \in DOMAIN events', NEW j \in DOMAIN events'
      PROVE  /\ i <= j => events'[i].ledger <= events'[j].ledger
             /\ events'[i].kind = "LoanCreated" /\ events'[j].loan = events'[i].loan
                  => events'[i].ledger <= events'[j].ledger
  <2>1. CASE j \in n + 1 .. n + Len(loans)
    <3>1. events'[j].ledger = ledger
      BY <1>3, <2>1
    <3> QED
      BY <1>7, <3>1 DEF Emits
  <2>2. CASE i \in 1 .. n /\ j \in 1 .. n
    BY <1>1, <1>2, <2>2 DEF EventsInv
  <2>3. CASE i \in n + 1 .. n + Len(loans) /\ j \in 1 .. n
    <3>1. i > j
      BY <1>2, <2>3
    <3>2. events'[i].kind = "LoanCreated" => chain[events'[i].loan] = "None"
      BY <1>3, <2>3 DEF Emits
    <3>3. chain[events[j].loan] # "None" /\ events'[j] = events[j]
      BY <1>1, <1>2, <2>3 DEF EventsInv, Fits, Emits
    <3> QED
      BY <1>2, <2>3, <3>1, <3>2, <3>3
  <2> QED
    BY <1>1, <1>2, <2>1, <2>2, <2>3
<1> QED
  BY <1>5, <1>6, <1>7, <1>8 DEF EventsInv, Emits

\* A chunk is the front of what a request has left to submit.
LEMMA ChunkFacts ==
  ASSUME MirrorTypeOK, NEW r \in Request
  PROVE  /\ Chunk(r) \in Seq(Loan) /\ Len(Chunk(r)) \in 0 .. Len(retire[r].todo)
         /\ \A i \in DOMAIN Chunk(r) : i \in DOMAIN retire[r].todo /\ Chunk(r)[i] = retire[r].todo[i]
         /\ Range(Chunk(r)) \in SUBSET Loan
<1>1. retire[r].todo \in Seq(Loan) /\ Len(retire[r].todo) \in Nat /\ MaxOps \in Nat
  BY IndexerAssumption DEF MirrorTypeOK
<1> DEFINE todo == retire[r].todo
           k == IF Len(todo) < MaxOps THEN Len(todo) ELSE MaxOps
<1>2. k \in 0 .. Len(todo) /\ Chunk(r) = SubSeq(todo, 1, k)
  BY <1>1 DEF Chunk
<1> HIDE DEF todo, k
<1>3. todo \in Seq(Loan)
  BY <1>1 DEF todo
<1>4. /\ Chunk(r) \in Seq(Loan) /\ Len(Chunk(r)) = k
      /\ \A i \in 1 .. k : Chunk(r)[i] = todo[i]
  BY <1>2, <1>3
<1>5. Range(Chunk(r)) \in SUBSET Loan
  BY <1>4 DEF Range
<1> QED
  BY <1>2, <1>3, <1>4, <1>5 DEF todo

\* A transaction that lands closes the loans of its chunk.
LEMMA ChunkLandsFacts ==
  ASSUME ChainTypeOK, MirrorTypeOK, EventsInv, NEW r \in Request, ChunkLands(r)
  PROVE  /\ ChainTypeOK' /\ EventsInv' /\ Grows
         /\ \A l \in Range(Chunk(r)) : chain'[l] = "Repaid"
<1>1. Chunk(r) \in Seq(Loan) /\ Range(Chunk(r)) \in SUBSET Loan
  BY ChunkFacts
<1>2. \A i \in DOMAIN Chunk(r) : Chunk(r)[i] \in Range(Chunk(r))
  BY DEF Range
<1>3. \A l \in Range(Chunk(r)) : chain[l] = "Active"
  BY DEF Range, ChunkLands
<1>4. chain' = [l \in Loan |-> IF l \in Range(Chunk(r)) THEN "Repaid" ELSE chain[l]]
  BY DEF ChunkLands
<1>5. \A l \in Range(Chunk(r)) : chain'[l] = "Repaid"
  BY <1>1, <1>4
<1>6. \A l \in Loan \ Range(Chunk(r)) : chain'[l] = chain[l]
  BY <1>4
<1>7. chain' \in [Loan -> {"None", "Active", "Repaid", "Liquidated"}]
  BY <1>4, <1>5, <1>6 DEF ChainTypeOK
<1>8. \A l \in Loan : /\ chain[l] # "None" => chain'[l] # "None"
                      /\ chain[l] \in {"Repaid", "Liquidated"} => chain'[l] = chain[l]
  BY <1>3, <1>5, <1>6
<1>9. events' = Emitted("LoanRepaid", Chunk(r)) /\ ledger' = ledger /\ "LoanRepaid" \in Kind
  BY DEF ChunkLands, Kind
<1>10. \A i \in DOMAIN Chunk(r) : chain'[Chunk(r)[i]] = "Repaid"
  BY <1>2, <1>5
<1>11. \A l \in Loan : chain'[l] # chain[l] => \E i \in DOMAIN Chunk(r) : Chunk(r)[i] = l
  BY <1>6 DEF Range
<1>12. Emits("LoanRepaid", Chunk(r))
  BY <1>7, <1>8, <1>9, <1>10, <1>11 DEF Emits
<1> QED
  BY <1>1, <1>5, <1>9, <1>12, EmitStep

\* Somebody closes or opens a loan without the backend.
LEMMA ChainStepFacts ==
  ASSUME ChainTypeOK, EventsInv, NEW l \in Loan, NEW from, NEW to, NEW kind,
         <<from, to, kind>> \in {<<"None", "Active", "LoanCreated">>,
                                <<"Active", "Repaid", "LoanRepaid">>,
                                <<"Active", "Liquidated", "AssetLiquidated">>},
         ChainStep(l, from, to, kind)
  PROVE  ChainTypeOK' /\ EventsInv' /\ Grows
<1>1. chain[l] = from /\ chain' = [chain EXCEPT ![l] = to] /\ events' = Emitted(kind, <<l>>)
      /\ ledger' = ledger
  BY DEF ChainStep
<1>2. chain'[l] = to /\ \A m \in Loan \ {l} : chain'[m] = chain[m]
  BY <1>1 DEF ChainTypeOK
<1>3. chain' \in [Loan -> {"None", "Active", "Repaid", "Liquidated"}]
  BY <1>1 DEF ChainTypeOK
<1>4. <<l>> \in Seq(Loan) /\ DOMAIN <<l>> = {1} /\ <<l>>[1] = l /\ kind \in Kind
  BY DEF Kind
<1>5. \A m \in Loan : /\ chain[m] # "None" => chain'[m] # "None"
                      /\ chain[m] \in {"Repaid", "Liquidated"} => chain'[m] = chain[m]
  BY <1>1, <1>2
<1>6. \A i \in DOMAIN <<l>> :
           /\ chain'[<<l>>[i]] # "None"
           /\ kind = "LoanCreated" => chain[<<l>>[i]] = "None"
           /\ kind = "LoanRepaid" => chain'[<<l>>[i]] = "Repaid"
           /\ kind = "AssetLiquidated" => chain'[<<l>>[i]] = "Liquidated"
  BY <1>1, <1>2, <1>4
<1>7. \A m \in Loan : chain'[m] # chain[m] =>
        \E i \in DOMAIN <<l>> : <<l>>[i] = m /\ (kind = "LoanCreated" => chain'[m] = "Active")
  BY <1>2, <1>4
<1>8. Emits(kind, <<l>>)
  BY <1>1, <1>3, <1>5, <1>6, <1>7 DEF Emits
<1> QED
  BY <1>4, <1>8, EmitStep

\* The chain's side of every step of the system.
LEMMA ChainSide ==
  ASSUME ChainTypeOK, MirrorTypeOK, EventsInv, Next
  PROVE  ChainTypeOK' /\ EventsInv' /\ Grows
<1>1. CASE UNCHANGED chainVars
  BY <1>1 DEF chainVars, ChainTypeOK, EventsInv, Grows, Fits
<1>2. CASE CloseLedger
  <2>1. /\ ledger' = ledger + 1 /\ ledger < MaxLedger /\ MaxLedger \in Nat
        /\ chain' = chain /\ events' = events /\ ledger \in Nat /\ START_LEDGER \in Nat
        /\ \A i \in DOMAIN events : events[i] \in Event
    BY <1>2, IndexerAssumption DEF CloseLedger, ChainTypeOK
  <2>2. \A i \in DOMAIN events : events[i].ledger \in Nat
    BY <2>1 DEF Event
  <2>3. ChainTypeOK' /\ Grows
    BY <2>1 DEF ChainTypeOK, Grows
  <2>4. \A i \in DOMAIN events : Fits(events[i])' <=> Fits(events[i])
    BY <2>1 DEF Fits
  <2>5. EventsInv'
    BY <2>1, <2>2, <2>4 DEF EventsInv
  <2> QED
    BY <2>3, <2>5
<1>3. ASSUME NEW r \in Request, ChunkSucceeds(r) \/ ChunkFails(r)
      PROVE  ChainTypeOK' /\ EventsInv' /\ Grows
  BY <1>1, <1>3, ChunkLandsFacts DEF ChunkSucceeds, ChunkFails
<1>4. CASE Restart \/ \E l \in Loan : Register(l)
  BY <1>1, <1>4 DEF Restart, Register
<1>5. ASSUME NEW p \in Poll,
             PollEvents(p) \/ HandlerReads(p) \/ HandlerFrees(p) \/ HandlerWrites(p) \/ HandlerFails(p)
      PROVE  UNCHANGED chainVars
  BY <1>5 DEF PollEvents, HandlerReads, HandlerFrees, HandlerWrites, HandlerFails
<1>6. ASSUME NEW r \in Request, RecordChunk(r) \/ \E loans \in LoanLists : BulkRetire(r, loans)
      PROVE  UNCHANGED chainVars
  BY <1>6 DEF RecordChunk, BulkRetire
<1>7. ASSUME NEW l \in Loan,
             \/ ChainStep(l, "None", "Active", "LoanCreated")
             \/ ChainStep(l, "Active", "Repaid", "LoanRepaid")
             \/ ChainStep(l, "Active", "Liquidated", "AssetLiquidated")
      PROVE  ChainTypeOK' /\ EventsInv' /\ Grows
  <2>1. CASE ChainStep(l, "None", "Active", "LoanCreated")
    BY <2>1, ChainStepFacts
  <2>2. CASE ChainStep(l, "Active", "Repaid", "LoanRepaid")
    BY <2>2, ChainStepFacts
  <2>3. CASE ChainStep(l, "Active", "Liquidated", "AssetLiquidated")
    BY <2>3, ChainStepFacts
  <2> QED
    BY <1>7, <2>1, <2>2, <2>3
<1> QED
  BY <1>1, <1>2, <1>3, <1>4, <1>5, <1>6, <1>7 DEF Next, IndexerNext

-----------------------------------------------------------------------------
\* Of events in the order of ledgers, those before a ledger are the first ones.
LEMMA BeforeFacts ==
  ASSUME ChainTypeOK, EventsInv, NEW k \in Nat
  PROVE  /\ Before(k) \in Nat /\ Before(k) <= Len(events)
         /\ \A i \in DOMAIN events : i <= Before(k) <=> events[i].ledger < k
<1> DEFINE S == {i \in DOMAIN events : events[i].ledger < k}
           n == Len(events)
<1>1. /\ n \in Nat /\ DOMAIN events = 1 .. n
      /\ \A i \in DOMAIN events : events[i].ledger \in Nat
  <2>1. /\ n \in Nat /\ DOMAIN events = 1 .. n
        /\ \A i \in DOMAIN events : events[i] \in Event
    BY DEF ChainTypeOK
  <2> QED
    BY <2>1 DEF Event
<1>2. IsFiniteSet(1 .. n) /\ Cardinality(1 .. n) = n
  BY <1>1, FS_Interval
<1>3. S \subseteq 1 .. n
  BY <1>1
<1>4. IsFiniteSet(S) /\ Cardinality(S) <= n
  BY <1>2, <1>3, FS_Subset
<1>5. Cardinality(S) \in Nat
  BY <1>4, FS_CardinalityType
<1>6. ASSUME NEW i \in DOMAIN events, i <= Cardinality(S)
      PROVE  i \in S
  <2>1. SUFFICES ASSUME i \notin S PROVE FALSE
    OBVIOUS
  <2>2. \A j \in S : j < i
    BY <1>1, <2>1 DEF EventsInv
  <2>3. S \subseteq 1 .. i - 1
    BY <1>1, <1>3, <2>2
  <2>4. i - 1 \in Nat /\ IsFiniteSet(1 .. i - 1) /\ Cardinality(1 .. i - 1) = i - 1
    <3>1. i - 1 \in Nat /\ 1 \in Int
      BY <1>1
    <3> QED
      BY <3>1, FS_Interval
  <2>5. Cardinality(S) <= i - 1
    BY <2>3, <2>4, FS_Subset
  <2> QED
    BY <1>1, <1>5, <1>6, <2>4, <2>5
<1>7. ASSUME NEW i \in S
      PROVE  i <= Cardinality(S)
  <2>1. i \in 1 .. n /\ \A j \in 1 .. i : j \in S
    BY <1>1, <1>3 DEF EventsInv
  <2>2. i \in Nat /\ 1 .. i \subseteq S
    BY <1>1, <2>1
  <2>3. Cardinality(1 .. i) = i
    BY <2>2, FS_Interval
  <2> QED
    BY <1>4, <2>2, <2>3, FS_Subset
<1>8. Before(k) = Cardinality(S)
  BY DEF Before
<1> QED
  BY <1>4, <1>5, <1>6, <1>7, <1>8

\* A poll is answered with events of closed ledgers.
LEMMA PolledFacts ==
  ASSUME ChainTypeOK, EventsInv, cursor \in Nat
  PROVE  /\ GetEvents \in Seq(Event)
         /\ \A i \in DOMAIN GetEvents :
              /\ GetEvents[i].ledger < ledger
              /\ \E j \in DOMAIN events : GetEvents[i] = events[j]
<1> DEFINE from == Before(cursor)
           upTo == Before(ledger)
           end  == IF upTo < from + PageLimit THEN upTo ELSE from + PageLimit
<1>1. /\ from \in Nat /\ upTo \in Nat /\ upTo <= Len(events)
      /\ \A i \in DOMAIN events : i <= upTo => events[i].ledger < ledger
  BY BeforeFacts DEF ChainTypeOK
<1>2. PageLimit \in Nat
  BY IndexerAssumption
<1>3. end \in Nat /\ end <= upTo
  BY <1>1, <1>2
<1>4. GetEvents = SubSeq(events, from + 1, end)
  BY DEF GetEvents
<1> HIDE DEF from, upTo, end
<1>5. /\ events \in Seq(Event) /\ Len(events) \in Nat /\ DOMAIN events = 1 .. Len(events)
      /\ from + 1 \in 1 .. from + 1 /\ from + 1 \in Nat
  BY <1>1 DEF ChainTypeOK
<1>6. CASE from + 1 <= end
  <2>1. /\ GetEvents \in Seq(Event) /\ Len(GetEvents) = end - from
        /\ \A i \in 1 .. end - from : GetEvents[i] = events[from + i]
    BY <1>1, <1>3, <1>4, <1>5, <1>6
  <2>2. DOMAIN GetEvents = 1 .. end - from
    BY <1>1, <1>3, <2>1
  <2>3. \A i \in 1 .. end - from : from + i \in DOMAIN events /\ from + i <= upTo
    BY <1>1, <1>3, <1>5
  <2> QED
    BY <1>1, <2>1, <2>2, <2>3
<1>7. CASE ~(from + 1 <= end)
  <2>1. GetEvents = <<>>
    BY <1>1, <1>3, <1>4, <1>5, <1>7
  <2> QED
    BY <2>1
<1> QED
  BY <1>6, <1>7

\* A handler is done with the first event of its poll, and with no event it did not have.
LEMMA FirstFacts ==
  ASSUME MirrorTypeOK, NEW p \in Poll, poll[p].batch # <<>>
  PROVE  /\ Head(poll[p].batch) \in Event /\ Head(poll[p].batch) = poll[p].batch[1]
         /\ 1 \in DOMAIN poll[p].batch
         /\ Tail(poll[p].batch) \in Seq(Event)
         /\ \A i \in DOMAIN Tail(poll[p].batch) :
              i + 1 \in DOMAIN poll[p].batch /\ Tail(poll[p].batch)[i] = poll[p].batch[i + 1]
<1>1. poll[p].batch \in Seq(Event)
  BY DEF MirrorTypeOK
<1> DEFINE b == poll[p].batch
<1> HIDE DEF b
<1>2. b \in Seq(Event) /\ b # <<>>
  BY <1>1 DEF b
<1>3. Len(b) \in Nat /\ Len(b) # 0 /\ DOMAIN b = 1 .. Len(b)
  BY <1>2
<1>4. /\ Head(b) = b[1] /\ 1 \in DOMAIN b
      /\ Tail(b) \in Seq(Event) /\ Len(Tail(b)) = Len(b) - 1
      /\ \A i \in 1 .. Len(b) - 1 : Tail(b)[i] = b[i + 1]
  BY <1>2, <1>3
<1>5. DOMAIN Tail(b) = 1 .. Len(b) - 1
  BY <1>3, <1>4
<1>6. b[1] \in Event
  BY <1>2, <1>4
<1>7. \A i \in DOMAIN Tail(b) : i + 1 \in DOMAIN b /\ Tail(b)[i] = b[i + 1]
  BY <1>3, <1>4, <1>5
<1> QED
  BY <1>4, <1>6, <1>7 DEF b

-----------------------------------------------------------------------------
\* The events a poll holds are events.
LEMMA PollEvent ==
  ASSUME IInv, NEW p \in Poll, NEW i \in DOMAIN poll[p].batch
  PROVE  /\ poll[p].batch[i] \in Event /\ poll[p].batch[i].ledger \in Nat
         /\ poll[p].batch[i].ledger < ledger
         /\ \E j \in DOMAIN events : poll[p].batch[i] = events[j]
<1>1. poll[p].batch \in Seq(Event)
  BY DEF IInv, MirrorTypeOK
<1>2. poll[p].batch[i] \in Event
  BY <1>1
<1> QED
  BY <1>2 DEF Event, IInv, PollInv

\* An event that has been handled was of a closed ledger: the cursor stays behind the network.
LEMMA HandledFacts ==
  ASSUME IInv, ChainTypeOK', Grows, NEW p \in Poll, poll[p].batch # <<>>, Handled(p)
  PROVE  /\ cursor' \in Nat /\ PollInv'
         /\ poll' \in [Poll -> [batch : Seq(Event), at : {"read", "free", "write"}]]
<1> DEFINE b == poll[p].batch
<1>1. /\ poll' = [poll EXCEPT ![p] = [batch |-> Tail(b), at |-> "read"]]
      /\ cursor' = Advance(Head(b))
  BY DEF Handled
<1>2. /\ Head(b) \in Event /\ Head(b) = b[1] /\ 1 \in DOMAIN b
      /\ Tail(b) \in Seq(Event)
      /\ \A i \in DOMAIN Tail(b) : i + 1 \in DOMAIN b /\ Tail(b)[i] = b[i + 1]
  BY FirstFacts DEF IInv
<1>3. /\ poll' \in [Poll -> [batch : Seq(Event), at : {"read", "free", "write"}]]
      /\ poll'[p].batch = Tail(b) /\ \A q \in Poll \ {p} : poll'[q] = poll[q]
  BY <1>1, <1>2 DEF IInv, MirrorTypeOK
<1>4. ASSUME NEW i \in DOMAIN b
      PROVE  b[i].ledger < ledger /\ \E j \in DOMAIN events : b[i] = events[j]
  BY <1>4 DEF IInv, PollInv
<1>5. Head(b).ledger \in Nat /\ Head(b).ledger < ledger
  BY <1>2, <1>4 DEF Event
<1>6. ledger \in Nat /\ ledger' \in Nat /\ ledger <= ledger' /\ START_LEDGER \in Nat /\ cursor \in Nat
      /\ START_LEDGER <= cursor /\ cursor <= ledger
  BY IndexerAssumption DEF IInv, PollInv, MirrorTypeOK, ChainTypeOK, Grows
<1>7. cursor' \in Nat /\ START_LEDGER <= cursor' /\ cursor' <= ledger'
  <2> DEFINE e == Head(b)
  <2>1. cursor' = IF cursor < e.ledger + 1 THEN e.ledger + 1 ELSE cursor
    BY <1>1 DEF Advance
  <2>2. e.ledger \in Nat /\ e.ledger < ledger
    BY <1>5
  <2> HIDE DEF e
  <2> QED
    BY <1>6, <2>1, <2>2
<1>8. ASSUME NEW q \in Poll, NEW i \in DOMAIN poll'[q].batch
      PROVE  poll'[q].batch[i].ledger < ledger'
             /\ \E j \in DOMAIN events' : poll'[q].batch[i] = events'[j]
  <2>1. PICK k \in DOMAIN poll[q].batch : poll'[q].batch[i] = poll[q].batch[k]
    <3>1. CASE q = p
      <4>1. i + 1 \in DOMAIN b /\ Tail(b)[i] = b[i + 1]
        BY <1>2, <1>3, <3>1
      <4> QED
        BY <1>3, <3>1, <4>1
    <3>2. CASE q # p
      BY <1>3, <3>2
    <3> QED
      BY <3>1, <3>2
  <2>2. poll[q].batch[k].ledger < ledger /\ \E j \in DOMAIN events : poll[q].batch[k] = events[j]
    BY PollEvent
  <2>3. poll[q].batch[k].ledger \in Nat
    BY PollEvent
  <2> QED
    BY <1>6, <2>1, <2>2, <2>3 DEF Grows
<1> QED
  BY <1>3, <1>7, <1>8 DEF PollInv

\* Polls that keep their events, or lose them, still hold events of closed ledgers.
LEMMA PollsKept ==
  ASSUME IInv, ChainTypeOK', Grows, cursor' \in {cursor, START_LEDGER},
         \A p \in Poll : poll'[p].batch = poll[p].batch \/ poll'[p].batch = <<>>
  PROVE  cursor' \in Nat /\ PollInv'
<1>1. ledger \in Nat /\ ledger' \in Nat /\ ledger <= ledger' /\ START_LEDGER \in Nat /\ cursor \in Nat
      /\ START_LEDGER <= cursor /\ cursor <= ledger
  BY IndexerAssumption DEF IInv, PollInv, MirrorTypeOK, ChainTypeOK, Grows
<1>2. ASSUME NEW q \in Poll, NEW i \in DOMAIN poll'[q].batch
      PROVE  poll'[q].batch[i].ledger < ledger'
             /\ \E j \in DOMAIN events' : poll'[q].batch[i] = events'[j]
  <2>1. poll'[q].batch = poll[q].batch
    BY <1>2
  <2>2. poll[q].batch[i].ledger < ledger /\ \E j \in DOMAIN events : poll[q].batch[i] = events[j]
    BY <2>1, PollEvent
  <2>3. poll[q].batch[i].ledger \in Nat
    BY <2>1, PollEvent
  <2> QED
    BY <1>1, <2>1, <2>2, <2>3 DEF Grows
<1> QED
  BY <1>1, <1>2 DEF PollInv

\* The poller's side of every step.
LEMMA PollSide ==
  ASSUME IInv, ChainTypeOK', Grows, Next
  PROVE  /\ cursor' \in Nat /\ PollInv'
         /\ poll' \in [Poll -> [batch : Seq(Event), at : {"read", "free", "write"}]]
<1> DEFINE P == /\ cursor' \in Nat /\ PollInv'
                /\ poll' \in [Poll -> [batch : Seq(Event), at : {"read", "free", "write"}]]
<1>1. poll \in [Poll -> [batch : Seq(Event), at : {"read", "free", "write"}]]
  BY DEF IInv, MirrorTypeOK
<1>2. CASE UNCHANGED <<cursor, poll>>
  BY <1>1, <1>2, PollsKept
<1>3. CASE Restart
  <2>1. cursor' = START_LEDGER /\ poll' = [p \in Poll |-> NoPoll]
    BY <1>3 DEF Restart
  <2>2. NoPoll \in [batch : Seq(Event), at : {"read", "free", "write"}] /\ NoPoll.batch = <<>>
    BY DEF NoPoll
  <2> QED
    BY <2>1, <2>2, PollsKept
<1>4. ASSUME NEW p \in Poll, PollEvents(p) PROVE P
  <2>1. /\ poll' = [poll EXCEPT ![p].batch = GetEvents] /\ cursor' = cursor
        /\ ledger' = ledger /\ events' = events
    BY <1>4 DEF PollEvents, chainVars
  <2>2. /\ GetEvents \in Seq(Event)
        /\ \A i \in DOMAIN GetEvents :
             /\ GetEvents[i].ledger < ledger
             /\ \E j \in DOMAIN events : GetEvents[i] = events[j]
    BY PolledFacts DEF IInv, MirrorTypeOK
  <2> HIDE DEF GetEvents
  <2>3. /\ poll' \in [Poll -> [batch : Seq(Event), at : {"read", "free", "write"}]]
        /\ poll'[p].batch = GetEvents /\ \A q \in Poll \ {p} : poll'[q] = poll[q]
    BY <1>1, <2>1, <2>2
  <2>4. cursor' \in Nat /\ PollInv'
    BY <2>1, <2>2, <2>3 DEF IInv, MirrorTypeOK, PollInv
  <2> QED
    BY <2>3, <2>4
<1>5. ASSUME NEW p \in Poll, poll[p].batch # <<>>, Handled(p) PROVE P
  BY <1>5, HandledFacts
<1>6. ASSUME NEW p \in Poll, NEW at \in {"free", "write"}, cursor' = cursor,
             poll' = [poll EXCEPT ![p].at = at]
      PROVE  P
  <2>1. /\ poll' \in [Poll -> [batch : Seq(Event), at : {"read", "free", "write"}]]
        /\ \A q \in Poll : poll'[q].batch = poll[q].batch
    BY <1>1, <1>6
  <2> QED
    BY <2>1, <1>6, PollsKept
<1>7. ASSUME NEW p \in Poll, HandlerReads(p) \/ HandlerFrees(p) \/ HandlerWrites(p) \/ HandlerFails(p)
      PROVE  P
  <2>1. poll[p].batch # <<>>
    BY <1>7 DEF HandlerReads, HandlerFrees, HandlerWrites, HandlerFails
  <2>2. \/ Handled(p)
        \/ \E at \in {"free", "write"} : cursor' = cursor /\ poll' = [poll EXCEPT ![p].at = at]
    BY <1>7 DEF HandlerReads, HandlerFrees, HandlerWrites, HandlerFails
  <2> HIDE DEF P
  <2> QED
    BY <2>1, <2>2, <1>5, <1>6
<1>8. CASE \E l \in Loan : \/ ChainStep(l, "None", "Active", "LoanCreated")
                           \/ ChainStep(l, "Active", "Repaid", "LoanRepaid")
                           \/ ChainStep(l, "Active", "Liquidated", "AssetLiquidated")
                           \/ Register(l)
  BY <1>2, <1>8 DEF ChainStep, Register
<1>9. CASE \E r \in Request : \/ \E loans \in LoanLists : BulkRetire(r, loans)
                              \/ ChunkSucceeds(r) \/ ChunkFails(r) \/ RecordChunk(r)
  BY <1>2, <1>9 DEF BulkRetire, ChunkSucceeds, ChunkFails, RecordChunk
<1>10. CASE CloseLedger
  BY <1>2, <1>10 DEF CloseLedger
<1> HIDE DEF P
<1>11. P
  BY <1>3, <1>4, <1>7, <1>8, <1>9, <1>10 DEF Next, IndexerNext, P
<1> QED
  BY <1>11 DEF P

-----------------------------------------------------------------------------
\* The rows after a step, and that no row is lost.
RowsGood ==
  /\ db' \in [Loan -> Row \cup {None}]
  /\ \A l \in Loan : db[l] # None => db'[l] # None
  /\ RowInv' /\ MirrorNeverAhead'

\* A row, and the row a retirement makes of it.
LEMMA RowFacts ==
  ASSUME IInv, NEW l \in Loan, db[l] # None
  PROVE  /\ db[l] \in Row /\ db[l].last \in Nat
         /\ [db[l] EXCEPT !.status = "REPAID"] \in Row
         /\ [db[l] EXCEPT !.status = "REPAID"].last = db[l].last
         /\ [db[l] EXCEPT !.status = "REPAID"].status = "REPAID"
<1>1. db[l] \in Row
  BY DEF IInv, MirrorTypeOK
<1> QED
  BY <1>1 DEF Row

\* A row is told apart from None.
LEMMA RowIsThere ==
  ASSUME NEW row \in Row
  PROVE  row # None
  BY IndexerAssumption DEF Row

\* Rows that stay as they are stay right: a loan that is created has no row yet.
LEMMA RowsKept ==
  ASSUME IInv, ChainTypeOK', EventsInv', Grows, db' = db
  PROVE  RowsGood
<1>1. ASSUME NEW l \in Loan, db[l] # None
      PROVE  /\ chain[l] # "None" /\ chain'[l] # "None"
             /\ db[l].status = "REPAID" => chain'[l] = "Repaid"
             /\ db[l].status = "LIQUIDATED" => chain'[l] = "Liquidated"
  BY <1>1 DEF IInv, MirrorNeverAhead, Grows
<1>2. ASSUME NEW l \in Loan, db[l] # None
      PROVE  START_LEDGER <= db[l].last /\ db[l].last <= ledger'
  <2>1. ledger \in Nat /\ ledger' \in Nat /\ ledger <= ledger' /\ db[l].last \in Nat
    BY <1>2, RowFacts DEF IInv, ChainTypeOK, Grows
  <2>2. START_LEDGER <= db[l].last /\ db[l].last <= ledger
    BY <1>2 DEF IInv, RowInv
  <2> QED
    BY <2>1, <2>2
<1>3. ASSUME NEW l \in Loan, db[l] # None, NEW i \in DOMAIN events',
             events'[i].loan = l, events'[i].kind = "LoanCreated"
      PROVE  events'[i].ledger <= db[l].last
  <2>1. i \in DOMAIN events
    BY <1>1, <1>3 DEF Grows
  <2> QED
    BY <1>3, <2>1 DEF IInv, RowInv, Grows
<1> QED
  BY <1>1, <1>2, <1>3 DEF RowsGood, RowInv, MirrorNeverAhead, IInv, MirrorTypeOK

\* The write of a handler: a row never says more than the event it was written from.
LEMMA RowWritten ==
  ASSUME IInv, NEW p \in Poll, poll[p].batch # <<>>, db' = Written(Head(poll[p].batch)),
         UNCHANGED chainVars
  PROVE  RowsGood
<1> DEFINE e == Head(poll[p].batch)
<1>1. /\ e \in Event /\ e.ledger \in Nat /\ e.ledger < ledger
      /\ \E j \in DOMAIN events : e = events[j]
  BY FirstFacts, PollEvent DEF IInv
<1>2. PICK j \in DOMAIN events : e = events[j]
  BY <1>1
<1> HIDE DEF e
<1>3. /\ START_LEDGER <= e.ledger /\ Fits(e)
      /\ \A i \in DOMAIN events :
           events[i].loan = e.loan /\ events[i].kind = "LoanCreated" => events[i].ledger <= e.ledger
  BY <1>2 DEF IInv, EventsInv
<1>4. e.loan \in Loan /\ e.kind \in Kind
  BY <1>1 DEF Event
<1> DEFINE row(st) == [status |-> st, last |-> e.ledger]
<1>5. CASE db' = db
  BY <1>5, RowsKept DEF chainVars, IInv, Grows, ChainTypeOK, EventsInv, Fits
<1>6. ASSUME NEW st \in {"ACTIVE", "REPAID", "LIQUIDATED"}, db' = [db EXCEPT ![e.loan] = row(st)],
             st = "REPAID" => e.kind = "LoanRepaid", st = "LIQUIDATED" => e.kind = "AssetLiquidated"
      PROVE  RowsGood
  <2>1. row(st) \in Row /\ row(st).status = st /\ row(st).last = e.ledger
    BY <1>1 DEF Row
  <2> HIDE DEF row
  <2>2. row(st) # None
    BY <2>1, RowIsThere
  <2>3. db \in [Loan -> Row \cup {None}]
    BY DEF IInv, MirrorTypeOK
  <2>4. db' \in [Loan -> Row \cup {None}] /\ db'[e.loan] = row(st)
        /\ \A l \in Loan \ {e.loan} : db'[l] = db[l]
    BY <1>4, <1>6, <2>1, <2>3
  <2>5. \A l \in Loan : db[l] # None => db'[l] # None
    BY <2>2, <2>4
  <2>6. MirrorNeverAhead'
    BY <1>3, <1>4, <1>6, <2>1, <2>4 DEF IInv, MirrorNeverAhead, Fits, chainVars
  <2>7. RowInv'
    BY <1>1, <1>3, <2>1, <2>4 DEF IInv, RowInv, chainVars, ChainTypeOK
  <2> QED
    BY <2>4, <2>5, <2>6, <2>7 DEF RowsGood
<1>7. db' = Written(e)
  BY DEF e
<1>8. \/ db' = db
      \/ e.kind = "LoanCreated" /\ db' = [db EXCEPT ![e.loan] = row("ACTIVE")]
      \/ e.kind = "LoanRepaid" /\ db' = [db EXCEPT ![e.loan] = row("REPAID")]
      \/ e.kind = "AssetLiquidated" /\ db' = [db EXCEPT ![e.loan] = row("LIQUIDATED")]
  BY <1>7 DEF Written
<1> HIDE DEF row
<1> QED
  BY <1>5, <1>6, <1>8

\* The record of a chunk: the loans of a chunk that succeeded are repaid on the chain.
LEMMA RowRecorded ==
  ASSUME IInv, NEW r \in Request, RecordChunk(r)
  PROVE  RowsGood
<1>1. retire[r].done \in Seq(SUBSET Loan) /\ retire[r].done # <<>>
  BY DEF RecordChunk, IInv, MirrorTypeOK
<1> DEFINE c == Head(retire[r].done)
<1>2. 1 \in DOMAIN retire[r].done /\ c = retire[r].done[1]
  BY <1>1
<1>3. \A l \in c : db[l] # None /\ chain[l] = "Repaid"
  BY <1>2 DEF IInv, RetireInv
<1>4. db' = [l \in Loan |-> IF l \in c THEN [db[l] EXCEPT !.status = "REPAID"] ELSE db[l]]
      /\ UNCHANGED chainVars
  BY DEF RecordChunk
<1> HIDE DEF c
<1>5. ASSUME NEW l \in Loan
      PROVE  /\ db'[l] \in Row \cup {None}
             /\ db[l] # None => db'[l] # None /\ db'[l].last = db[l].last
             /\ db'[l] # None => db[l] # None
             /\ db'[l] # None => db'[l].status = db[l].status
                               \/ (db'[l].status = "REPAID" /\ chain[l] = "Repaid")
  <2>1. CASE l \in c
    <3>1. db[l] # None /\ chain[l] = "Repaid" /\ db'[l] = [db[l] EXCEPT !.status = "REPAID"]
      BY <1>3, <1>4, <2>1
    <3>2. db'[l] \in Row /\ db'[l].last = db[l].last /\ db'[l].status = "REPAID"
      BY <3>1, RowFacts
    <3> QED
      BY <3>1, <3>2, RowIsThere
  <2>2. CASE l \notin c
    BY <1>4, <2>2 DEF IInv, MirrorTypeOK
  <2> QED
    BY <2>1, <2>2
<1>6. db' \in [Loan -> Row \cup {None}]
  BY <1>4, <1>5
<1>7. RowInv'
  BY <1>4, <1>5 DEF IInv, RowInv, chainVars
<1>8. MirrorNeverAhead'
  BY <1>4, <1>5 DEF IInv, MirrorNeverAhead, chainVars
<1> QED
  BY <1>5, <1>6, <1>7, <1>8 DEF RowsGood

\* The rows' side of every step.
LEMMA RowSide ==
  ASSUME IInv, ChainTypeOK', EventsInv', Grows, Next
  PROVE  RowsGood
<1>1. CASE db' = db
  BY <1>1, RowsKept
<1>2. ASSUME NEW p \in Poll, HandlerWrites(p) PROVE RowsGood
  BY <1>2, RowWritten DEF HandlerWrites
<1>3. ASSUME NEW r \in Request, RecordChunk(r) PROVE RowsGood
  BY <1>3, RowRecorded
<1>4. ASSUME NEW p \in Poll, PollEvents(p) \/ HandlerReads(p) \/ HandlerFrees(p) \/ HandlerFails(p)
      PROVE  db' = db
  BY <1>4 DEF PollEvents, HandlerReads, HandlerFrees, HandlerFails
<1>5. ASSUME NEW r \in Request,
             (\E loans \in LoanLists : BulkRetire(r, loans)) \/ ChunkSucceeds(r) \/ ChunkFails(r)
      PROVE  db' = db
  BY <1>5 DEF BulkRetire, ChunkSucceeds, ChunkFails
<1>6. CASE CloseLedger \/ Restart
  BY <1>1, <1>6 DEF CloseLedger, Restart
<1>7. CASE \E l \in Loan : \/ ChainStep(l, "None", "Active", "LoanCreated")
                           \/ ChainStep(l, "Active", "Repaid", "LoanRepaid")
                           \/ ChainStep(l, "Active", "Liquidated", "AssetLiquidated")
                           \/ Register(l)
  BY <1>1, <1>7 DEF ChainStep, Register
<1> QED
  BY <1>1, <1>2, <1>3, <1>4, <1>5, <1>6, <1>7 DEF Next, IndexerNext

-----------------------------------------------------------------------------
Retirement == [todo : Seq(Loan), done : Seq(SUBSET Loan)]

\* What a request has yet to do stays good while rows stay and repaid loans stay repaid.
GoodRetirement(rt) ==
  /\ \A i \in DOMAIN rt.todo : db[rt.todo[i]] # None
  /\ \A i \in DOMAIN rt.done : \A l \in rt.done[i] : db[l] # None /\ chain[l] = "Repaid"

\* A retirement stays good while rows are kept and closed loans stay closed.
LEMMA GoodStays ==
  ASSUME Grows, RowsGood, NEW rt \in Retirement, GoodRetirement(rt)
  PROVE  GoodRetirement(rt)'
<1>1. \A i \in DOMAIN rt.todo : rt.todo[i] \in Loan
  BY DEF Retirement
<1>2. \A i \in DOMAIN rt.done : rt.done[i] \subseteq Loan
  BY DEF Retirement
<1> QED
  BY <1>1, <1>2 DEF Grows, RowsGood, GoodRetirement

\* The lists a request can name are sequences of loans.
LEMMA LoanListsAreSequences ==
  ASSUME NEW loans \in LoanLists
  PROVE  loans \in Seq(Loan)
<1>1. PICK n \in {1, 2} : loans \in [1 .. n -> Loan]
  BY DEF LoanLists
<1>2. n \in Nat
  BY <1>1
<1> QED
  BY <1>1, <1>2

\* A step keeps what is known of the retirements.
LEMMA RetireSide ==
  ASSUME IInv, Grows, RowsGood, ChainTypeOK', Next
  PROVE  retire' \in [Request -> Retirement] /\ RetireInv'
<1>1. /\ retire \in [Request -> Retirement]
      /\ \A r \in Request : GoodRetirement(retire[r])
  BY DEF IInv, MirrorTypeOK, Retirement, RetireInv, GoodRetirement
<1>2. ASSUME NEW r \in Request
      PROVE  GoodRetirement(retire[r])' <=>
    /\ \A i \in DOMAIN retire'[r].todo : db'[retire'[r].todo[i]] # None
    /\ \A i \in DOMAIN retire'[r].done : \A l \in retire'[r].done[i] :
         db'[l] # None /\ chain'[l] = "Repaid"
  BY DEF GoodRetirement
<1>3. (\A r \in Request : GoodRetirement(retire[r])') => RetireInv'
  BY <1>2 DEF RetireInv
<1>4. ASSUME NEW r \in Request, retire'[r] = retire[r]
      PROVE  GoodRetirement(retire[r])'
  <2>1. retire[r] \in Retirement
    BY <1>1
  <2>2. PICK rt \in Retirement : rt = retire[r]
    BY <2>1
  <2>3. GoodRetirement(rt)'
    BY <1>1, <2>2, GoodStays
  <2> QED
    BY <1>4, <2>2, <2>3 DEF GoodRetirement
<1>5. CASE UNCHANGED retire
  BY <1>1, <1>3, <1>4, <1>5
<1>6. CASE Restart
  <2>1. \A r \in Request : retire'[r] = NoRetire
    BY <1>6 DEF Restart
  <2>2. NoRetire \in Retirement /\ NoRetire.todo = <<>> /\ NoRetire.done = <<>>
    BY DEF NoRetire, Retirement
  <2>3. retire' \in [Request -> Retirement]
    BY <1>6, <2>2 DEF Restart
  <2>4. \A r \in Request : GoodRetirement(retire[r])'
    BY <2>1, <2>2 DEF GoodRetirement
  <2> QED
    BY <1>3, <2>3, <2>4
\* One request moves on to rt.
<1>7. ASSUME NEW r \in Request, NEW rt \in Retirement, retire' = [retire EXCEPT ![r] = rt],
             \A i \in DOMAIN rt.todo : db'[rt.todo[i]] # None,
             \A i \in DOMAIN rt.done : \A l \in rt.done[i] : db'[l] # None /\ chain'[l] = "Repaid"
      PROVE  retire' \in [Request -> Retirement] /\ RetireInv'
  <2>1. /\ retire' \in [Request -> Retirement] /\ retire'[r] = rt
        /\ \A q \in Request \ {r} : retire'[q] = retire[q]
    BY <1>1, <1>7
  <2>2. GoodRetirement(retire[r])'
    BY <1>7, <2>1 DEF GoodRetirement
  <2>3. \A q \in Request \ {r} : GoodRetirement(retire[q])'
    BY <1>4, <2>1
  <2> QED
    BY <1>3, <2>1, <2>2, <2>3
<1>8. ASSUME NEW r \in Request, NEW loans \in LoanLists, BulkRetire(r, loans)
      PROVE  retire' \in [Request -> Retirement] /\ RetireInv'
  <2> DEFINE rt == [todo |-> loans, done |-> <<>>]
  <2>1. loans \in Seq(Loan)
    BY LoanListsAreSequences
  <2>2. rt \in Retirement /\ rt.todo = loans /\ rt.done = <<>>
    BY <2>1 DEF Retirement
  <2>3. retire[r] = NoRetire /\ retire' = [retire EXCEPT ![r].todo = loans] /\ db' = db
    BY <1>8 DEF BulkRetire
  <2>4. [retire[r] EXCEPT !.todo = loans] = rt
    BY <2>3 DEF NoRetire
  <2>5. retire' = [retire EXCEPT ![r] = rt]
    BY <1>1, <2>3, <2>4
  <2>6. \A i \in DOMAIN loans : db'[loans[i]] # None
    BY <1>8, <2>3 DEF BulkRetire
  <2>7. /\ \A i \in DOMAIN rt.todo : db'[rt.todo[i]] # None
        /\ \A i \in DOMAIN rt.done : \A l \in rt.done[i] : db'[l] # None /\ chain'[l] = "Repaid"
    BY <2>2, <2>6
  <2> HIDE DEF rt
  <2> QED
    BY <2>2, <2>5, <2>7, <1>7
<1>9. ASSUME NEW r \in Request
      PROVE  /\ retire[r].todo \in Seq(Loan) /\ retire[r].done \in Seq(SUBSET Loan)
             /\ \A i \in DOMAIN retire[r].todo : db'[retire[r].todo[i]] # None
             /\ \A i \in DOMAIN retire[r].done : \A l \in retire[r].done[i] :
                   db'[l] # None /\ chain'[l] = "Repaid"
  <2>1. retire[r] \in Retirement /\ GoodRetirement(retire[r])
    BY <1>1
  <2>2. PICK rt \in Retirement : rt = retire[r]
    BY <2>1
  <2>3. GoodRetirement(rt)'
    BY <2>1, <2>2, GoodStays
  <2> QED
    BY <2>2, <2>3 DEF GoodRetirement, Retirement
<1>10. ASSUME NEW r \in Request, ChunkSucceeds(r)
       PROVE  retire' \in [Request -> Retirement] /\ RetireInv'
  <2> DEFINE todo == retire[r].todo
             done == retire[r].done
             k    == Len(Chunk(r)) + 1
             rt   == [todo |-> SubSeq(todo, k, Len(todo)), done |-> Append(done, Range(Chunk(r)))]
  <2>1. /\ Range(Chunk(r)) \in SUBSET Loan /\ Len(Chunk(r)) \in 0 .. Len(todo)
        /\ Chunk(r) \in Seq(Loan)
        /\ \A i \in DOMAIN Chunk(r) : i \in DOMAIN todo /\ Chunk(r)[i] = todo[i]
    BY ChunkFacts DEF IInv
  <2>2. \A l \in Range(Chunk(r)) : chain'[l] = "Repaid"
    BY <1>10, ChunkLandsFacts DEF IInv, ChunkSucceeds
  <2>3. retire' = [retire EXCEPT ![r] = rt]
    BY <1>10 DEF ChunkSucceeds
  <2>4. \A l \in Range(Chunk(r)) : db'[l] # None
    BY <2>1, <1>9 DEF Range
  <2>5. todo \in Seq(Loan) /\ done \in Seq(SUBSET Loan)
    BY <1>9
  <2>6. k \in 1 .. Len(todo) + 1 /\ Len(todo) \in Nat /\ Len(done) \in Nat
    BY <2>1, <2>5
  <2> DEFINE left == SubSeq(todo, k, Len(todo))
  <2>7. left \in Seq(Loan) /\ \A i \in DOMAIN left : \E j \in DOMAIN todo : left[i] = todo[j]
    <3> HIDE DEF todo, k
    <3>1. left \in Seq(Loan) /\ Len(left) = Len(todo) - k + 1
          /\ \A i \in 1 .. Len(todo) - k + 1 : left[i] = todo[k + i - 1]
      BY <2>5, <2>6
    <3>2. DOMAIN left = 1 .. Len(todo) - k + 1
      BY <3>1, <2>6
    <3>3. \A i \in 1 .. Len(todo) - k + 1 : k + i - 1 \in 1 .. Len(todo)
      BY <2>6
    <3>4. DOMAIN todo = 1 .. Len(todo)
      BY <2>5
    <3> QED
      BY <3>1, <3>2, <3>3, <3>4
  <2> DEFINE marked == Append(done, Range(Chunk(r)))
  <2>8. marked \in Seq(SUBSET Loan)
        /\ \A i \in DOMAIN marked : marked[i] = Range(Chunk(r)) \/ \E j \in DOMAIN done : marked[i] = done[j]
    <3> DEFINE c == Range(Chunk(r))
    <3>1. c \in SUBSET Loan
      BY <2>1
    <3> HIDE DEF done, c
    <3>2. Append(done, c) \in Seq(SUBSET Loan)
          /\ \A i \in DOMAIN Append(done, c) : Append(done, c)[i] = c
                \/ \E j \in DOMAIN done : Append(done, c)[i] = done[j]
      BY <2>5, <2>6, <3>1
    <3> QED
      BY <3>2 DEF c, done
  <2>9. rt \in Retirement /\ rt.todo = left /\ rt.done = marked
    BY <2>7, <2>8 DEF Retirement
  <2> HIDE DEF rt, left, marked
  <2>10. \A i \in DOMAIN left : db'[left[i]] # None
    BY <1>9, <2>7
  <2>11. \A i \in DOMAIN marked : \A l \in marked[i] : db'[l] # None /\ chain'[l] = "Repaid"
    BY <1>9, <2>2, <2>4, <2>8
  <2> QED
    BY <1>7, <2>3, <2>9, <2>10, <2>11
<1>11. ASSUME NEW r \in Request, ChunkFails(r)
       PROVE  retire' \in [Request -> Retirement] /\ RetireInv'
  <2> DEFINE rt == [todo |-> <<>>, done |-> retire[r].done]
  <2>1. rt \in Retirement /\ rt.todo = <<>> /\ rt.done = retire[r].done
    BY <1>9 DEF Retirement
  <2>2. [retire[r] EXCEPT !.todo = <<>>] = rt
    BY <1>1 DEF Retirement
  <2>3. retire' = [retire EXCEPT ![r] = rt]
    BY <1>1, <1>11, <2>2 DEF ChunkFails
  <2>4. /\ \A i \in DOMAIN rt.todo : db'[rt.todo[i]] # None
        /\ \A i \in DOMAIN rt.done : \A l \in rt.done[i] : db'[l] # None /\ chain'[l] = "Repaid"
    BY <1>9, <2>1
  <2> HIDE DEF rt
  <2> QED
    BY <1>7, <2>1, <2>3, <2>4
<1>12. ASSUME NEW r \in Request, RecordChunk(r)
       PROVE  retire' \in [Request -> Retirement] /\ RetireInv'
  <2> DEFINE done == retire[r].done
             rt == [todo |-> retire[r].todo, done |-> Tail(done)]
  <2>1. done \in Seq(SUBSET Loan) /\ done # <<>>
    BY <1>9, <1>12 DEF RecordChunk
  <2>2. Tail(done) \in Seq(SUBSET Loan)
        /\ \A i \in DOMAIN Tail(done) : \E j \in DOMAIN done : Tail(done)[i] = done[j]
    <3> HIDE DEF done
    <3>1. /\ Tail(done) \in Seq(SUBSET Loan) /\ Len(Tail(done)) = Len(done) - 1
          /\ \A i \in 1 .. Len(done) - 1 : Tail(done)[i] = done[i + 1]
          /\ Len(done) \in Nat /\ DOMAIN done = 1 .. Len(done)
      BY <2>1
    <3>2. DOMAIN Tail(done) = 1 .. Len(done) - 1
      BY <3>1
    <3>3. \A i \in 1 .. Len(done) - 1 : i + 1 \in DOMAIN done
      BY <3>1
    <3> QED
      BY <3>1, <3>2, <3>3
  <2>3. rt \in Retirement /\ rt.todo = retire[r].todo /\ rt.done = Tail(done)
    BY <1>9, <2>2 DEF Retirement
  <2>4. [retire[r] EXCEPT !.done = Tail(done)] = rt
    <3> DEFINE rest == Tail(done)
    <3>1. retire[r] \in Retirement
      BY <1>1
    <3> HIDE DEF rest
    <3>2. [retire[r] EXCEPT !.done = rest] = [todo |-> retire[r].todo, done |-> rest]
      BY <3>1 DEF Retirement
    <3> QED
      BY <3>2 DEF rest
  <2>5. retire' = [retire EXCEPT ![r] = rt]
    BY <1>1, <1>12, <2>4 DEF RecordChunk
  <2>6. \A i \in DOMAIN Tail(done) : \A l \in Tail(done)[i] : db'[l] # None /\ chain'[l] = "Repaid"
    BY <1>9, <2>2
  <2> HIDE DEF rt
  <2> QED
    BY <1>7, <1>9, <2>3, <2>5, <2>6
<1>13. CASE CloseLedger
  BY <1>5, <1>13 DEF CloseLedger
<1>14. CASE \E l \in Loan : \/ ChainStep(l, "None", "Active", "LoanCreated")
                            \/ ChainStep(l, "Active", "Repaid", "LoanRepaid")
                            \/ ChainStep(l, "Active", "Liquidated", "AssetLiquidated")
                            \/ Register(l)
  BY <1>5, <1>14 DEF ChainStep, Register
<1>15. CASE \E p \in Poll : PollEvents(p) \/ HandlerReads(p) \/ HandlerFrees(p) \/ HandlerWrites(p) \/ HandlerFails(p)
  BY <1>5, <1>15 DEF PollEvents, HandlerReads, HandlerFrees, HandlerWrites, HandlerFails
<1> QED
  BY <1>6, <1>8, <1>10, <1>11, <1>12, <1>13, <1>14, <1>15 DEF Next, IndexerNext

-----------------------------------------------------------------------------
\* What is left of the types: loans only, and restarts within their bound.
LEMMA RestSide ==
  ASSUME IInv, poll' \in [Poll -> [batch : Seq(Event), at : {"read", "free", "write"}]], Next
  PROVE  /\ freed' \subseteq Loan /\ registered' \subseteq Loan /\ missed' \subseteq Loan
         /\ restarts' \in 0 .. MaxRestarts
<1>1. /\ freed \subseteq Loan /\ registered \subseteq Loan /\ missed \subseteq Loan
      /\ restarts \in 0 .. MaxRestarts /\ MaxRestarts \in Nat
  BY IndexerAssumption DEF IInv, MirrorTypeOK
<1>2. ASSUME NEW p \in Poll, poll[p].batch # <<>>
      PROVE  Head(poll[p].batch).loan \in Loan
  BY <1>2, FirstFacts DEF IInv, Event
<1>3. ASSUME NEW p \in Poll, GivesUp(p)
      PROVE  poll[p].batch # <<>>
  <2>1. poll[p].batch \in Seq(Event) /\ poll'[p].batch \in Seq(Event)
    BY DEF IInv, MirrorTypeOK
  <2>2. Len(poll'[p].batch) < Len(poll[p].batch)
    BY <1>3 DEF GivesUp
  <2>3. SUFFICES ASSUME poll[p].batch = <<>> PROVE FALSE
    OBVIOUS
  <2>4. Len(poll'[p].batch) \in Nat
    BY <2>1
  <2> QED
    BY <2>2, <2>3, <2>4
<1>4. missed' \subseteq Loan
  BY <1>1, <1>2, <1>3 DEF Next, Observe
<1>5. ASSUME NEW p \in Poll, HandlerFrees(p) PROVE freed' \subseteq Loan
  BY <1>1, <1>2, <1>5 DEF HandlerFrees
<1>6. ASSUME NEW p \in Poll,
             PollEvents(p) \/ HandlerReads(p) \/ HandlerWrites(p) \/ HandlerFails(p)
      PROVE  UNCHANGED <<freed, registered, restarts>>
  BY <1>6 DEF PollEvents, HandlerReads, HandlerWrites, HandlerFails
<1>7. ASSUME NEW r \in Request, \/ \E loans \in LoanLists : BulkRetire(r, loans)
                                \/ ChunkSucceeds(r) \/ ChunkFails(r) \/ RecordChunk(r)
      PROVE  UNCHANGED <<freed, registered, restarts>>
  BY <1>7 DEF BulkRetire, ChunkSucceeds, ChunkFails, RecordChunk
<1>8. ASSUME NEW l \in Loan, \/ ChainStep(l, "None", "Active", "LoanCreated")
                             \/ ChainStep(l, "Active", "Repaid", "LoanRepaid")
                             \/ ChainStep(l, "Active", "Liquidated", "AssetLiquidated")
                             \/ Register(l)
      PROVE  freed' = freed /\ restarts' = restarts /\ registered' \in {registered, registered \cup {l}}
  BY <1>8 DEF ChainStep, Register
<1>9. /\ CloseLedger => UNCHANGED <<freed, registered, restarts>>
      /\ Restart => UNCHANGED <<freed, registered>> /\ restarts' = restarts + 1 /\ restarts < MaxRestarts
      /\ \A p \in Poll : HandlerFrees(p) => UNCHANGED <<registered, restarts>>
  BY DEF CloseLedger, Restart, HandlerFrees
<1>10. registered' \subseteq Loan
  BY <1>1, <1>6, <1>7, <1>8, <1>9 DEF Next, IndexerNext
<1>11. freed' \subseteq Loan
  BY <1>1, <1>5, <1>6, <1>7, <1>8, <1>9 DEF Next, IndexerNext
<1>12. restarts' \in 0 .. MaxRestarts
  <2>1. restarts' = restarts \/ (restarts' = restarts + 1 /\ restarts < MaxRestarts)
    BY <1>6, <1>7, <1>8, <1>9 DEF Next, IndexerNext
  <2> QED
    BY <1>1, <2>1
<1> QED
  BY <1>4, <1>10, <1>11, <1>12

\* The inductive invariant holds before anything is indexed.
LEMMA InitIInv == Init => IInv
<1> SUFFICES ASSUME Init PROVE IInv
  OBVIOUS
<1>1. /\ ledger = START_LEDGER /\ cursor = START_LEDGER /\ restarts = 0 /\ missed = {}
      /\ chain = [l \in Loan |-> "None"] /\ events = <<>>
      /\ db = [l \in Loan |-> None] /\ freed = {} /\ registered = {}
      /\ poll = [p \in Poll |-> NoPoll] /\ retire = [r \in Request |-> NoRetire]
  BY DEF Init, IndexerInit
<1>2. /\ NoPoll \in [batch : Seq(Event), at : {"read", "free", "write"}] /\ NoPoll.batch = <<>>
      /\ NoRetire \in [todo : Seq(Loan), done : Seq(SUBSET Loan)]
      /\ NoRetire.todo = <<>> /\ NoRetire.done = <<>>
  BY DEF NoPoll, NoRetire
<1>3. START_LEDGER \in Nat /\ MaxLedger \in Nat /\ MaxRestarts \in Nat /\ START_LEDGER <= MaxLedger
  BY IndexerAssumption
<1>4. ChainTypeOK /\ MirrorTypeOK
  BY <1>1, <1>2, <1>3 DEF ChainTypeOK, MirrorTypeOK
<1>5. EventsInv /\ PollInv
  BY <1>1, <1>2, <1>3 DEF EventsInv, PollInv
<1>6. RowInv /\ RetireInv /\ MirrorNeverAhead
  BY <1>1, <1>2 DEF RowInv, RetireInv, MirrorNeverAhead
<1> QED
  BY <1>4, <1>5, <1>6 DEF IInv

\* Every step keeps the inductive invariant.
LEMMA StepIInv == IInv /\ [Next]_vars => IInv'
<1> SUFFICES ASSUME IInv, [Next]_vars PROVE IInv'
  OBVIOUS
<1>1. CASE Next
  <2>1. ChainTypeOK' /\ EventsInv' /\ Grows
    BY <1>1, ChainSide DEF IInv
  <2>2. /\ cursor' \in Nat /\ PollInv'
        /\ poll' \in [Poll -> [batch : Seq(Event), at : {"read", "free", "write"}]]
    BY <1>1, <2>1, PollSide
  <2>3. RowsGood
    BY <1>1, <2>1, RowSide
  <2>4. retire' \in [Request -> Retirement] /\ RetireInv'
    BY <1>1, <2>1, <2>3, RetireSide
  <2>5. /\ freed' \subseteq Loan /\ registered' \subseteq Loan /\ missed' \subseteq Loan
        /\ restarts' \in 0 .. MaxRestarts
    BY <1>1, <2>2, RestSide
  <2>6. MirrorTypeOK'
    BY <2>2, <2>3, <2>4, <2>5 DEF MirrorTypeOK, RowsGood, Retirement
  <2> QED
    BY <2>1, <2>2, <2>3, <2>4, <2>6 DEF IInv, RowsGood
<1>2. CASE UNCHANGED vars
  BY <1>2 DEF vars, indexerVars, chainVars, IInv, ChainTypeOK, MirrorTypeOK, EventsInv, PollInv, RowInv,
              RetireInv, MirrorNeverAhead, Fits
<1> QED
  BY <1>1, <1>2

\* The inductive invariant holds in every behaviour.
LEMMA IndexerInvariant == Spec => []IInv
  BY InitIInv, StepIInv, PTL DEF Spec

\* The poller, the retirements and the chain keep their types, and the cursor never passes the
\* ledger that the network is filling (pollEvents, src/src/services/soroban.service.ts).
THEOREM IndexerTypes == Spec => []IndexerTypeOK
<1>1. IInv => IndexerTypeOK
  <2> SUFFICES ASSUME IInv PROVE IndexerTypeOK
    OBVIOUS
  <2> USE DEF IInv
  <2>1. ASSUME NEW i \in DOMAIN events
        PROVE  events[i] \in [kind : {"LoanCreated", "LoanRepaid", "AssetLiquidated"},
                              loan : Loan, ledger : START_LEDGER .. ledger]
    <3>1. events[i] \in Event /\ ledger \in Nat /\ START_LEDGER \in Nat
      BY IndexerAssumption DEF ChainTypeOK
    <3>2. START_LEDGER <= events[i].ledger /\ events[i].ledger <= ledger
      BY DEF EventsInv
    <3> QED
      BY <3>1, <3>2 DEF Event, Kind
  <2>2. ASSUME NEW l \in Loan
        PROVE  db[l] \in [status : Terminal \cup {"ACTIVE"}, last : START_LEDGER .. ledger] \cup {None}
    <3>1. db[l] \in Row \cup {None} /\ ledger \in Nat /\ START_LEDGER \in Nat
      BY IndexerAssumption DEF ChainTypeOK, MirrorTypeOK
    <3>2. db[l] # None => START_LEDGER <= db[l].last /\ db[l].last <= ledger
      BY DEF RowInv
    <3> QED
      BY <3>1, <3>2 DEF Row, Terminal
  <2>3. db \in [Loan -> [status : Terminal \cup {"ACTIVE"}, last : START_LEDGER .. ledger] \cup {None}]
    BY <2>2 DEF MirrorTypeOK
  <2>4. ASSUME NEW p \in Poll
        PROVE  poll[p].at \in {"read", "free", "write"} /\ Range(poll[p].batch) \subseteq Range(events)
    BY PollEvent DEF MirrorTypeOK, Range
  <2>5. ASSUME NEW r \in Request
        PROVE  /\ Range(retire[r].todo) \subseteq Loan
               /\ \A c \in Range(retire[r].done) : c \subseteq Loan
    <3>1. retire[r].todo \in Seq(Loan) /\ retire[r].done \in Seq(SUBSET Loan)
      BY DEF MirrorTypeOK
    <3>2. /\ \A i \in DOMAIN retire[r].todo : retire[r].todo[i] \in Loan
          /\ \A i \in DOMAIN retire[r].done : retire[r].done[i] \subseteq Loan
      BY <3>1
    <3> QED
      BY <3>2 DEF Range
  <2>6. ledger \in START_LEDGER .. MaxLedger /\ cursor \in START_LEDGER .. ledger
    BY IndexerAssumption DEF EventsInv, PollInv, ChainTypeOK, MirrorTypeOK
  <2> QED
    BY <2>1, <2>3, <2>4, <2>5, <2>6 DEF IndexerTypeOK, ChainTypeOK, MirrorTypeOK
<1> QED
  BY <1>1, IndexerInvariant, PTL

\* No row of the database is ahead of the contract, through any overlap of polls, failed handlers,
\* retirements that end half way and restarts (the event handlers and bulkRetire).
THEOREM MirrorIsBehind == Spec => []MirrorNeverAhead
<1>1. IInv => MirrorNeverAhead
  BY DEF IInv
<1> QED
  BY <1>1, IndexerInvariant, PTL

-----------------------------------------------------------------------------
\* While polls do not overlap, the row a handler has looked at is still what it was when it writes.
LEMMA WriteStep ==
  ASSUME NEW s, Poll = {s}, IInv, WriteInv, Next
  PROVE  WriteInv'
<1> DEFINE e == Head(poll[s].batch)
<1>1. /\ poll[s].batch \in Seq(Event) /\ poll \in [Poll -> [batch : Seq(Event), at : {"read", "free", "write"}]]
      /\ s \in Poll
  BY DEF IInv, MirrorTypeOK
<1>2. CASE UNCHANGED <<poll, db>>
  BY <1>2 DEF WriteInv
<1>3. CASE Restart
  BY <1>3 DEF Restart, WriteInv, NoPoll
<1>4. CASE PollEvents(s)
  <2>1. poll[s].batch = <<>> /\ GetEvents # <<>> /\ poll' = [poll EXCEPT ![s].batch = GetEvents] /\ db' = db
    BY <1>4 DEF PollEvents
  <2>2. poll'[s].batch = GetEvents /\ poll'[s].at = poll[s].at
    <3> HIDE DEF GetEvents
    <3> QED
      BY <1>1, <2>1
  <2>3. poll[s].at = "read"
    BY <1>1, <2>1 DEF WriteInv
  <2> QED
    BY <2>1, <2>2, <2>3 DEF WriteInv
<1>5. CASE Handled(s)
  <2>1. poll'[s].at = "read"
    BY <1>1, <1>5 DEF Handled
  <2> QED
    BY <2>1 DEF WriteInv
<1>6. CASE HandlerReads(s) /\ ~Handled(s)
  <2>1. /\ poll[s].batch # <<>> /\ ~IsReplay(e) /\ db' = db
        /\ \E at \in {"free", "write"} : poll' = [poll EXCEPT ![s].at = at]
    BY <1>6 DEF HandlerReads
  <2>2. poll'[s].batch = poll[s].batch
    BY <1>1, <2>1
  <2>3. /\ e \in Event /\ e.ledger \in Nat /\ \E j \in DOMAIN events : e = events[j]
    BY <1>1, <2>1, FirstFacts, PollEvent DEF IInv
  <2>4. e.loan \in Loan
    BY <2>3 DEF Event
  <2> HIDE DEF e
  <2>5. ASSUME e.kind = "LoanCreated" PROVE db[e.loan] = None
    <3>1. SUFFICES ASSUME db[e.loan] # None PROVE FALSE
      OBVIOUS
    <3>2. e.ledger <= db[e.loan].last
      BY <2>3, <2>4, <2>5, <3>1 DEF IInv, RowInv
    <3> QED
      BY <2>1, <3>1, <3>2 DEF IsReplay
  <2> QED
    BY <2>1, <2>2, <2>5 DEF WriteInv, e
<1>7. CASE HandlerFrees(s)
  <2>1. /\ poll[s].batch # <<>> /\ poll[s].at = "free" /\ db' = db
        /\ poll' = [poll EXCEPT ![s].at = "write"]
    BY <1>7 DEF HandlerFrees
  <2>2. poll'[s].batch = poll[s].batch
    BY <1>1, <2>1
  <2> QED
    BY <1>1, <2>1, <2>2 DEF WriteInv
<1>8. ASSUME NEW r \in Request, RecordChunk(r) PROVE WriteInv'
  <2>1. poll' = poll /\ retire[r].done \in Seq(SUBSET Loan) /\ retire[r].done # <<>>
        /\ db' = [l \in Loan |-> IF l \in Head(retire[r].done)
                                 THEN [db[l] EXCEPT !.status = "REPAID"] ELSE db[l]]
    BY <1>8 DEF RecordChunk, IInv, MirrorTypeOK
  <2>2. \A l \in Head(retire[r].done) : db[l] # None
    BY <2>1 DEF IInv, RetireInv
  <2>3. \A l \in Loan : db[l] = None => db'[l] = None
    BY <2>1, <2>2
  <2>4. poll[s].batch # <<>> => e.loan \in Loan
    BY <1>1, FirstFacts DEF IInv, Event
  <2> QED
    BY <2>1, <2>3, <2>4 DEF WriteInv
<1>9. CASE HandlerWrites(s) \/ HandlerFails(s)
  BY <1>5, <1>9 DEF HandlerWrites, HandlerFails
<1>10. CASE CloseLedger
  BY <1>2, <1>10 DEF CloseLedger
<1>11. CASE \E l \in Loan : \/ ChainStep(l, "None", "Active", "LoanCreated")
                            \/ ChainStep(l, "Active", "Repaid", "LoanRepaid")
                            \/ ChainStep(l, "Active", "Liquidated", "AssetLiquidated")
                            \/ Register(l)
  BY <1>2, <1>11 DEF ChainStep, Register
<1>12. CASE \E r \in Request : \/ \E loans \in LoanLists : BulkRetire(r, loans)
                               \/ ChunkSucceeds(r) \/ ChunkFails(r)
  BY <1>2, <1>12 DEF BulkRetire, ChunkSucceeds, ChunkFails
<1>13. CASE \E p \in Poll : PollEvents(p) \/ HandlerReads(p) \/ HandlerFrees(p) \/ HandlerWrites(p) \/ HandlerFails(p)
  BY <1>4, <1>5, <1>6, <1>7, <1>9, <1>13
<1> QED
  BY <1>3, <1>8, <1>10, <1>11, <1>12, <1>13 DEF Next, IndexerNext

\* A row that is written over says the same of its loan if the loan was closed.
LEMMA TerminalStep ==
  ASSUME NEW s, Poll = {s}, IInv, WriteInv, Next,
         NEW l \in Loan, db[l] # None, db[l].status \in Terminal
  PROVE  db'[l].status = db[l].status
<1>1. CASE db' = db
  BY <1>1
<1>2. CASE HandlerWrites(s)
  <2> DEFINE e == Head(poll[s].batch)
  <2>1. poll[s].batch # <<>> /\ poll[s].at = "write" /\ db' = Written(e)
    BY <1>2 DEF HandlerWrites
  <2>2. s \in Poll
    OBVIOUS
  <2>3. e.kind = "LoanCreated" => db[e.loan] = None
    BY <2>1, <2>2 DEF WriteInv
  <2>4. e \in Event /\ \E j \in DOMAIN events : e = events[j]
    BY <2>1, <2>2, FirstFacts, PollEvent DEF IInv
  <2> HIDE DEF e
  <2>5. Fits(e)
    BY <2>4 DEF IInv, EventsInv
  <2>6. CASE l # e.loan
    <3>1. db \in [Loan -> Row \cup {None}]
      BY DEF IInv, MirrorTypeOK
    <3> QED
      BY <2>1, <2>6, <3>1 DEF Written
  <2>7. CASE l = e.loan
    <3>1. db \in [Loan -> Row \cup {None}]
      BY DEF IInv, MirrorTypeOK
    <3>2. e.kind # "LoanCreated"
      BY <2>3, <2>7
    <3>3. /\ e.kind = "LoanRepaid" => db[l].status = "REPAID"
          /\ e.kind = "AssetLiquidated" => db[l].status = "LIQUIDATED"
      BY <2>5, <2>7 DEF Fits, IInv, MirrorNeverAhead, Terminal
    <3> QED
      BY <2>1, <2>7, <3>1, <3>2, <3>3 DEF Written
  <2> QED
    BY <2>6, <2>7
<1>3. ASSUME NEW r \in Request, RecordChunk(r) PROVE db'[l].status = db[l].status
  <2>1. retire[r].done \in Seq(SUBSET Loan) /\ retire[r].done # <<>>
        /\ db' = [m \in Loan |-> IF m \in Head(retire[r].done)
                                 THEN [db[m] EXCEPT !.status = "REPAID"] ELSE db[m]]
    BY <1>3 DEF RecordChunk, IInv, MirrorTypeOK
  <2>2. l \in Head(retire[r].done) => chain[l] = "Repaid"
    BY <2>1 DEF IInv, RetireInv
  <2>3. chain[l] = "Repaid" => db[l].status = "REPAID"
    BY DEF IInv, MirrorNeverAhead, Terminal
  <2> QED
    BY <2>1, <2>2, <2>3, RowFacts
<1>4. ASSUME NEW p \in Poll, PollEvents(p) \/ HandlerReads(p) \/ HandlerFrees(p) \/ HandlerFails(p)
      PROVE  db' = db
  BY <1>4 DEF PollEvents, HandlerReads, HandlerFrees, HandlerFails
<1>5. ASSUME NEW r \in Request,
             (\E loans \in LoanLists : BulkRetire(r, loans)) \/ ChunkSucceeds(r) \/ ChunkFails(r)
      PROVE  db' = db
  BY <1>5 DEF BulkRetire, ChunkSucceeds, ChunkFails
<1>6. CASE CloseLedger \/ Restart
  BY <1>1, <1>6 DEF CloseLedger, Restart
<1>7. CASE \E m \in Loan : \/ ChainStep(m, "None", "Active", "LoanCreated")
                           \/ ChainStep(m, "Active", "Repaid", "LoanRepaid")
                           \/ ChainStep(m, "Active", "Liquidated", "AssetLiquidated")
                           \/ Register(m)
  BY <1>1, <1>7 DEF ChainStep, Register
<1> QED
  BY <1>1, <1>2, <1>3, <1>4, <1>5, <1>6, <1>7 DEF Next, IndexerNext

\* Where a poll ends before the next one starts, which setInterval does not see to, no replay
\* rolls a closed row back (handleLoanCreated and the guard on lastEventLedger).
THEOREM TerminalRowsStay ==
  ASSUME NEW s, Poll = {s}
  PROVE  Spec => TerminalStays
<1>1. Init => WriteInv
  BY DEF Init, IndexerInit, WriteInv, NoPoll
<1>2. IInv /\ WriteInv /\ [Next]_vars => WriteInv'
  <2>1. CASE UNCHANGED vars
    BY <2>1 DEF vars, indexerVars, WriteInv
  <2> QED
    BY <2>1, WriteStep
<1>3. IInv /\ WriteInv /\ [Next]_vars
        => [\A l \in Loan : db[l] # None /\ db[l].status \in Terminal
              => db'[l].status = db[l].status]_vars
  BY TerminalStep
<1> QED
  BY <1>1, <1>2, <1>3, IndexerInvariant, PTL DEF Spec, TerminalStays
-----------------------------------------------------------------------------
\* A loan that is closed was closed by an event.
ClosedInv ==
  \A l \in Loan : chain[l] \in {"Repaid", "Liquidated"} =>
    \E i \in DOMAIN events : events[i].loan = l /\ events[i].kind # "LoanCreated"

\* An open row is as old as the creation of its loan.
ActiveInv ==
  \A l \in Loan : db[l] # None /\ db[l].status = "ACTIVE" =>
    \E i \in DOMAIN events : /\ events[i].loan = l /\ events[i].kind = "LoanCreated"
                             /\ events[i].ledger = db[l].last

\* The mirror has what it can have of an event.
Settled(e) ==
  \/ e.loan \in missed \/ ClosedAtOnce(e.loan)
  \/ db[e.loan] # None /\ (e.kind # "LoanCreated" => db[e.loan].status \in Terminal)

\* A poll with the events b of which k were emitted before: those are settled, and the ones after
\* b belong to ledgers that neither the cursor nor b has touched.
Reached(b, k) ==
  /\ k + Len(b) <= Len(events)
  /\ \A j \in DOMAIN b : b[j] = events[k + j]
  /\ \A i \in DOMAIN events : i <= k => Settled(events[i])
  /\ \A i \in DOMAIN events : i > k + Len(b) =>
       events[i].ledger >= cursor /\ \A j \in DOMAIN b : events[i].ledger > b[j].ledger

ReachedInv == \A p \in Poll : \E k \in Nat : Reached(poll[p].batch, k)

AInv == WriteInv /\ ClosedInv /\ ActiveInv /\ ReachedInv

\* What waits in closed ledgers fits in one page.
OnePage == Before(ledger) <= Before(cursor) + PageLimit

\* Rows are written by handlers and by retirements only.
LEMMA RowWriters ==
  ASSUME Next
  PROVE  \/ db' = db
         \/ \E p \in Poll : HandlerWrites(p)
         \/ \E r \in Request : RecordChunk(r)
<1>1. ASSUME NEW p \in Poll, PollEvents(p) \/ HandlerReads(p) \/ HandlerFrees(p) \/ HandlerFails(p)
      PROVE  db' = db
  BY <1>1 DEF PollEvents, HandlerReads, HandlerFrees, HandlerFails
<1>2. ASSUME NEW r \in Request,
             (\E loans \in LoanLists : BulkRetire(r, loans)) \/ ChunkSucceeds(r) \/ ChunkFails(r)
      PROVE  db' = db
  BY <1>2 DEF BulkRetire, ChunkSucceeds, ChunkFails
<1>3. CASE CloseLedger \/ Restart
  BY <1>3 DEF CloseLedger, Restart
<1>4. CASE \E m \in Loan : \/ ChainStep(m, "None", "Active", "LoanCreated")
                           \/ ChainStep(m, "Active", "Repaid", "LoanRepaid")
                           \/ ChainStep(m, "Active", "Liquidated", "AssetLiquidated")
                           \/ Register(m)
  BY <1>4 DEF ChainStep, Register
<1> QED
  BY <1>1, <1>2, <1>3, <1>4 DEF Next, IndexerNext

\* Only the creation of a loan opens its row.
LEMMA ActiveStep ==
  ASSUME IInv, ActiveInv, Next, Grows
  PROVE  ActiveInv'
<1> SUFFICES ASSUME NEW l \in Loan, db'[l] # None, db'[l].status = "ACTIVE"
             PROVE  \E i \in DOMAIN events : /\ events[i].loan = l /\ events[i].kind = "LoanCreated"
                                             /\ events[i].ledger = db'[l].last
  BY DEF Grows, ActiveInv
<1>1. CASE db'[l] = db[l]
  BY <1>1 DEF ActiveInv
<1>2. ASSUME NEW p \in Poll, HandlerWrites(p), db'[l] # db[l]
      PROVE  \E i \in DOMAIN events : /\ events[i].loan = l /\ events[i].kind = "LoanCreated"
                                      /\ events[i].ledger = db'[l].last
  <2> DEFINE e == Head(poll[p].batch)
  <2>1. poll[p].batch # <<>> /\ db' = Written(e)
    BY <1>2 DEF HandlerWrites
  <2>2. e \in Event /\ \E j \in DOMAIN events : e = events[j]
    BY <2>1, FirstFacts, PollEvent DEF IInv
  <2> HIDE DEF e
  <2>3. db \in [Loan -> Row \cup {None}]
    BY DEF IInv, MirrorTypeOK
  <2>4. e.loan = l /\ e.kind = "LoanCreated" /\ db'[l] = [status |-> "ACTIVE", last |-> e.ledger]
    BY <1>2, <2>1, <2>3 DEF Written
  <2> QED
    BY <2>2, <2>4
<1>3. ASSUME NEW r \in Request, RecordChunk(r)
      PROVE  db'[l] = db[l]
  <2>1. db' = [m \in Loan |-> IF m \in Head(retire[r].done)
                              THEN [db[m] EXCEPT !.status = "REPAID"] ELSE db[m]]
        /\ retire[r].done \in Seq(SUBSET Loan) /\ retire[r].done # <<>>
    BY <1>3 DEF RecordChunk, IInv, MirrorTypeOK
  <2>2. l \in Head(retire[r].done) => db[l] # None
    BY <2>1 DEF IInv, RetireInv
  <2> QED
    BY <2>1, <2>2, RowFacts
<1> QED
  BY <1>1, <1>2, <1>3, RowWriters

\* A loan that is closed in a step is closed by an event of that step.
LEMMA ClosedStep ==
  ASSUME ClosedInv, Grows
  PROVE  ClosedInv'
<1> SUFFICES ASSUME NEW l \in Loan, chain'[l] \in {"Repaid", "Liquidated"}
             PROVE  \E i \in DOMAIN events' : events'[i].loan = l /\ events'[i].kind # "LoanCreated"
  BY DEF ClosedInv
<1>1. CASE chain'[l] # chain[l]
  BY <1>1 DEF Grows
<1>2. CASE chain'[l] = chain[l]
  BY <1>2 DEF ClosedInv, Grows
<1> QED
  BY <1>1, <1>2

\* What is settled stays settled while the process lives.
LEMMA SettledStays ==
  ASSUME NEW s, Poll = {s}, IInv, WriteInv, Next, Grows, RowsGood, missed \subseteq missed',
         NEW i \in DOMAIN events, Settled(events[i])
  PROVE  Settled(events[i])'
<1> DEFINE l == events[i].loan
<1>1. events[i] \in Event /\ l \in Loan
  <2>1. events \in Seq(Event) /\ i \in DOMAIN events
    BY DEF IInv, ChainTypeOK
  <2>2. events[i] \in Event
    BY <2>1
  <2> QED
    BY <2>2 DEF Event
<1>2. i \in DOMAIN events' /\ events'[i] = events[i]
  BY DEF Grows
<1>3. CASE ClosedAtOnce(l)
  <2>1. PICK g \in DOMAIN events, h \in DOMAIN events :
           /\ g # h /\ events[g].ledger = events[h].ledger
           /\ events[g].loan = l /\ events[h].loan = l
    BY <1>3 DEF ClosedAtOnce
  <2>2. /\ g \in DOMAIN events' /\ h \in DOMAIN events'
        /\ events'[g] = events[g] /\ events'[h] = events[h]
    BY DEF Grows
  <2> QED
    BY <1>2, <2>1, <2>2 DEF Settled, ClosedAtOnce
<1>4. CASE l \in missed
  BY <1>2, <1>4 DEF Settled
<1>5. CASE db[l] # None /\ (events[i].kind # "LoanCreated" => db[l].status \in Terminal)
  <2>1. db'[l] # None
    BY <1>1, <1>5 DEF RowsGood
  <2>2. db[l].status \in Terminal => db'[l].status = db[l].status
    BY <1>1, <1>5, TerminalStep
  <2> HIDE DEF l
  <2>3. events'[i].loan = l
    BY <1>2 DEF l
  <2> QED
    BY <1>2, <1>5, <2>1, <2>2, <2>3 DEF Settled
<1> QED
  BY <1>3, <1>4, <1>5 DEF Settled
\* A closing event that is dropped as a replay finds a closed row, or was emitted in the ledger of
\* its loan's creation.
LEMMA ReplaySettles ==
  ASSUME IInv, ActiveInv, NEW e \in Event, NEW j \in DOMAIN events, e = events[j], IsReplay(e)
  PROVE  Settled(e)
<1> DEFINE l == e.loan
<1>1. l \in Loan /\ e.ledger \in Nat /\ db[l] # None
  BY DEF Event, IsReplay
<1>2. CASE e.kind = "LoanCreated"
  BY <1>1, <1>2 DEF Settled
<1>3. CASE e.kind # "LoanCreated"
  <2>1. e.ledger <= db[l].last
    BY <1>3 DEF IsReplay
  <2>2. db[l].status \in Terminal \cup {"ACTIVE"}
    BY <1>1, RowFacts DEF Row, Terminal
  <2>3. CASE db[l].status = "ACTIVE"
    <3>1. PICK i \in DOMAIN events : /\ events[i].loan = l /\ events[i].kind = "LoanCreated"
                                     /\ events[i].ledger = db[l].last
      BY <1>1, <2>3 DEF ActiveInv
    <3>2. events[i].ledger <= e.ledger
      BY <3>1 DEF IInv, EventsInv
    <3>3. db[l].last \in Nat
      BY <1>1, RowFacts
    <3>4. events[i].ledger = e.ledger
      BY <1>1, <2>1, <3>1, <3>2, <3>3
    <3>5. i # j
      BY <1>3, <3>1
    <3> QED
      BY <3>1, <3>4, <3>5 DEF Settled, ClosedAtOnce
  <2> QED
    BY <1>1, <2>2, <2>3 DEF Settled
<1> QED
  BY <1>2, <1>3

\* An event that a poll leaves behind is settled: it was a replay, or it was written, or it was
\* given up.
LEMMA HandledSettles ==
  ASSUME NEW s, Poll = {s}, IInv, IInv', ActiveInv, Observe,
         NEW e \in Event, NEW j \in DOMAIN events, e = events[j],
         poll[s].batch # <<>>, e = Head(poll[s].batch),
         Handled(s), restarts' = restarts, events' = events,
         db' = db \/ (poll[s].at = "write" /\ db' = Written(e))
  PROVE  Settled(e)' /\ missed \subseteq missed'
<1> DEFINE l == e.loan
<1>1. /\ l \in Loan /\ db \in [Loan -> Row \cup {None}] /\ db' \in [Loan -> Row \cup {None}]
      /\ s \in Poll
  BY DEF Event, IInv, MirrorTypeOK
<1>2. Len(poll'[s].batch) < Len(poll[s].batch)
  <2>1. poll[s].batch \in Seq(Event) /\ poll'[s].batch = Tail(poll[s].batch)
    BY <1>1 DEF Handled, IInv, MirrorTypeOK
  <2> QED
    BY <2>1
<1>3. missed' = missed \cup {Head(poll[p].batch).loan : p \in {q \in Poll : GivesUp(q)}}
  BY DEF Observe
<1>4. GivesUp(s) => l \in missed'
  BY <1>1, <1>3
<1>5. CASE db' = db /\ poll[s].at = "read" /\ IsReplay(e)
  <2>1. Settled(e)
    BY <1>5, ReplaySettles
  <2>2. CASE e.loan \in missed
    BY <1>3, <2>2 DEF Settled
  <2>3. CASE ClosedAtOnce(e.loan)
    BY <1>3, <2>3 DEF Settled, ClosedAtOnce
  <2>4. CASE db[e.loan] # None /\ (e.kind # "LoanCreated" => db[e.loan].status \in Terminal)
    BY <1>3, <1>5, <2>4 DEF Settled
  <2> QED
    BY <1>3, <2>1, <2>2, <2>3, <2>4 DEF Settled
<1>6. CASE db' = db /\ ~(poll[s].at = "read" /\ IsReplay(e))
  BY <1>2, <1>3, <1>4, <1>6 DEF GivesUp, Settled
<1>7. CASE poll[s].at = "write" /\ db'[l] = db[l]
  BY <1>2, <1>3, <1>4, <1>7 DEF GivesUp, Settled
<1>8. CASE poll[s].at = "write" /\ db' = Written(e) /\ db'[l] # db[l]
  <2>1. /\ db'[l] # None
        /\ e.kind = "LoanRepaid" => db'[l].status = "REPAID"
        /\ e.kind = "AssetLiquidated" => db'[l].status = "LIQUIDATED"
    <3>1. ASSUME NEW status \in {"ACTIVE", "REPAID", "LIQUIDATED"},
                 db' = [db EXCEPT ![l] = [status |-> status, last |-> e.ledger]]
          PROVE  db'[l] # None /\ db'[l].status = status
      <4>1. db'[l] = [status |-> status, last |-> e.ledger]
        BY <1>1, <3>1
      <4>2. [status |-> status, last |-> e.ledger] \in Row
        BY DEF Row, Event
      <4> QED
        BY <4>1, <4>2, RowIsThere
    <3>2. /\ e.kind = "LoanCreated" =>
               db' = [db EXCEPT ![l] = [status |-> "ACTIVE", last |-> e.ledger]]
          /\ e.kind = "LoanRepaid" =>
               db' = [db EXCEPT ![l] = [status |-> "REPAID", last |-> e.ledger]]
          /\ e.kind = "AssetLiquidated" =>
               db' = [db EXCEPT ![l] = [status |-> "LIQUIDATED", last |-> e.ledger]]
      BY <1>8 DEF Written
    <3>3. e.kind \in {"LoanCreated", "LoanRepaid", "AssetLiquidated"}
      BY DEF Event, Kind
    <3> HIDE DEF l
    <3> QED
      BY <3>1, <3>2, <3>3
  <2>2. e.kind \in {"LoanCreated", "LoanRepaid", "AssetLiquidated"}
    BY DEF Event, Kind
  <2>3. db'[l] # None /\ (e.kind # "LoanCreated" => db'[l].status \in Terminal)
    BY <2>1, <2>2 DEF Terminal
  <2> QED
    BY <1>3, <2>3 DEF Settled
<1> QED
  BY <1>5, <1>6, <1>7, <1>8

\* A poll that keeps its events stays where it is: what the chain emits belongs to the ledger being
\* filled.
LEMMA ReachedKept ==
  ASSUME NEW s, Poll = {s}, IInv, IInv', WriteInv, ReachedInv, Next, Grows, RowsGood,
         missed \subseteq missed', cursor' = cursor, poll'[s].batch = poll[s].batch
  PROVE  ReachedInv'
<1>1. PICK k \in Nat : Reached(poll[s].batch, k)
  BY DEF ReachedInv
<1> DEFINE b == poll[s].batch
<1>2. /\ b \in Seq(Event) /\ Len(b) \in Nat /\ DOMAIN b = 1 .. Len(b)
      /\ Len(events) \in Nat /\ DOMAIN events = 1 .. Len(events)
      /\ Len(events') \in Nat /\ DOMAIN events' = 1 .. Len(events')
  <2>1. b \in Seq(Event) /\ events \in Seq(Event) /\ events' \in Seq(Event)
    BY DEF IInv, MirrorTypeOK, ChainTypeOK
  <2> QED
    BY <2>1
<1>3. \A i \in DOMAIN events : i \in DOMAIN events' /\ events'[i] = events[i]
  BY DEF Grows
<1>4. Len(events) <= Len(events')
  BY <1>2, <1>3
<1>5. k + Len(poll'[s].batch) <= Len(events')
  BY <1>1, <1>2, <1>4 DEF Reached
<1>6. \A j \in DOMAIN poll'[s].batch : poll'[s].batch[j] = events'[k + j]
  BY <1>1, <1>2, <1>3 DEF Reached
<1>7. \A i \in DOMAIN events' : i <= k => Settled(events[i])'
  <2> SUFFICES ASSUME NEW i \in DOMAIN events', i <= k PROVE Settled(events[i])'
    OBVIOUS
  <2>1. i \in DOMAIN events /\ Settled(events[i])
    BY <1>1, <1>2 DEF Reached
  <2> QED
    BY <2>1, SettledStays
<1>8. ASSUME NEW i \in DOMAIN events', i > k + Len(b)
      PROVE  events'[i].ledger >= cursor' /\ \A j \in DOMAIN b : events'[i].ledger > b[j].ledger
  <2>1. CASE i \in DOMAIN events
    BY <1>1, <1>3, <1>8, <2>1 DEF Reached
  <2>2. CASE i \notin DOMAIN events
    <3>1. events'[i].ledger = ledger
      BY <2>2 DEF Grows
    <3>2. cursor \in Nat /\ ledger \in Nat /\ cursor <= ledger
      BY DEF IInv, MirrorTypeOK, ChainTypeOK, PollInv
    <3>3. \A j \in DOMAIN b : b[j].ledger \in Nat /\ b[j].ledger < ledger
      BY PollEvent
    <3> QED
      BY <3>1, <3>2, <3>3
  <2> QED
    BY <2>1, <2>2
<1>9. Reached(poll[s].batch, k)'
  BY <1>5, <1>6, <1>7, <1>8 DEF Reached
<1> QED
  BY <1>9 DEF ReachedInv
\* A poll that is done with an event has it behind it; with the last one of a batch, the ledgers
\* the cursor has passed are behind it.
LEMMA ReachedHandled ==
  ASSUME NEW s, Poll = {s}, IInv, IInv', WriteInv, ActiveInv, ReachedInv, Next, Grows, RowsGood, Observe,
         poll[s].batch # <<>>, Handled(s), restarts' = restarts, events' = events,
         db' = db \/ (poll[s].at = "write" /\ db' = Written(Head(poll[s].batch)))
  PROVE  ReachedInv'
<1>1. PICK k \in Nat : Reached(poll[s].batch, k)
  BY DEF ReachedInv
<1> DEFINE b == poll[s].batch
           t == Tail(b)
<1>2. /\ b \in Seq(Event) /\ Len(b) \in Nat /\ DOMAIN b = 1 .. Len(b) /\ 1 \in DOMAIN b
      /\ t \in Seq(Event) /\ Len(t) = Len(b) - 1 /\ DOMAIN t = 1 .. Len(b) - 1
      /\ Head(b) = b[1] /\ \A j \in DOMAIN t : t[j] = b[j + 1]
      /\ Len(events) \in Nat /\ DOMAIN events = 1 .. Len(events)
  <2>1. b \in Seq(Event) /\ events \in Seq(Event) /\ b # <<>>
    BY DEF IInv, MirrorTypeOK, ChainTypeOK
  <2>2. Len(b) \in Nat /\ Len(b) # 0 /\ DOMAIN b = 1 .. Len(b)
    BY <2>1
  <2>3. /\ t \in Seq(Event) /\ Len(t) = Len(b) - 1 /\ Head(b) = b[1]
        /\ \A j \in 1 .. Len(b) - 1 : t[j] = b[j + 1]
    BY <2>1, <2>2
  <2>4. DOMAIN t = 1 .. Len(b) - 1
    BY <2>2, <2>3
  <2>5. Len(events) \in Nat /\ DOMAIN events = 1 .. Len(events)
    BY <2>1
  <2> QED
    BY <2>1, <2>2, <2>3, <2>4, <2>5
<1>3. poll'[s].batch = t /\ cursor' = Advance(b[1])
  BY <1>2 DEF Handled, IInv, MirrorTypeOK
<1>4. k + 1 \in DOMAIN events /\ b[1] = events[k + 1] /\ k + Len(b) <= Len(events)
  BY <1>1, <1>2 DEF Reached
<1>5. PICK e \in Event : e = b[1]
  BY <1>2
<1>6. Settled(e)' /\ missed \subseteq missed'
  BY <1>2, <1>4, <1>5, HandledSettles
<1>7. ASSUME NEW i \in DOMAIN events', i <= k + 1
      PROVE  Settled(events[i])'
  <2>1. CASE i = k + 1
    <3>1. events'[i] = e
      BY <1>4, <1>5, <2>1
    <3> QED
      BY <1>6, <3>1 DEF Settled
  <2>2. CASE i <= k
    <3>1. i \in DOMAIN events /\ Settled(events[i])
      BY <1>1, <2>2 DEF Reached
    <3> QED
      BY <1>6, <3>1, SettledStays
  <2> QED
    BY <1>2, <1>7, <2>1, <2>2
<1>8. ASSUME NEW i \in DOMAIN events', i > k + Len(b)
      PROVE  events'[i].ledger >= cursor' /\ \A j \in DOMAIN t : events'[i].ledger > t[j].ledger
  <2>1. i \in DOMAIN events /\ events'[i].ledger = events[i].ledger /\ events[i] \in Event
    <3>1. events \in Seq(Event)
      BY DEF IInv, ChainTypeOK
    <3> QED
      BY <1>8, <3>1
  <2>2. events[i].ledger \in Nat /\ e.ledger \in Nat /\ cursor \in Nat
    BY <2>1 DEF Event, IInv, MirrorTypeOK
  <2>3. events[i].ledger >= cursor /\ \A j \in DOMAIN b : events[i].ledger > b[j].ledger
    BY <1>1, <1>8, <2>1 DEF Reached
  <2>4. events[i].ledger > e.ledger
    BY <1>2, <1>5, <2>3
  <2>5. cursor' = IF cursor < e.ledger + 1 THEN e.ledger + 1 ELSE cursor
    BY <1>3, <1>5 DEF Advance
  <2>6. \A j \in DOMAIN t : j + 1 \in DOMAIN b /\ t[j] = b[j + 1]
    BY <1>2
  <2> HIDE DEF b, t
  <2>7. events[i].ledger >= cursor'
    BY <2>2, <2>3, <2>4, <2>5
  <2> QED
    BY <2>1, <2>3, <2>6, <2>7
<1>9. (k + 1) + Len(t) = k + Len(b) /\ \A j \in DOMAIN t : t[j] = events[(k + 1) + j]
  <2>1. ASSUME NEW j \in DOMAIN t
        PROVE  t[j] = events[(k + 1) + j]
    <3> HIDE DEF b, t
    <3>1. j \in Nat /\ j + 1 \in DOMAIN b /\ t[j] = b[j + 1]
      BY <1>2
    <3>2. (k + 1) + j = k + (j + 1)
      BY <3>1
    <3>3. b[j + 1] = events[k + (j + 1)]
      BY <1>1, <3>1 DEF Reached, b
    <3> QED
      BY <3>1, <3>2, <3>3
  <2>2. Len(b) \in Nat /\ Len(t) = Len(b) - 1
    BY <1>2
  <2> HIDE DEF b, t
  <2> QED
    BY <2>1, <2>2
<1> DEFINE m == k + 1
<1>10. m \in Nat
  OBVIOUS
<1>11. Reached(poll[s].batch, m)'
  <2>1. m + Len(poll'[s].batch) <= Len(events')
    BY <1>3, <1>4, <1>9
  <2>2. \A j \in DOMAIN poll'[s].batch : poll'[s].batch[j] = events'[m + j]
    BY <1>3, <1>9
  <2>3. \A i \in DOMAIN events' : i > m + Len(poll'[s].batch) =>
          events'[i].ledger >= cursor' /\ \A j \in DOMAIN poll'[s].batch :
                                            events'[i].ledger > poll'[s].batch[j].ledger
    BY <1>3, <1>8, <1>9
  <2>4. \A i \in DOMAIN events' : i <= m => Settled(events[i])'
    BY <1>7
  <2> HIDE DEF m, b, t
  <2> QED
    BY <2>1, <2>2, <2>3, <2>4 DEF Reached
<1> HIDE DEF m
<1> QED
  BY <1>10, <1>11 DEF ReachedInv

\* A poll that starts takes all that waits: what is before its page is before the cursor, and what
\* is after it belongs to the ledger being filled.
LEMMA ReachedPolled ==
  ASSUME NEW s, Poll = {s}, IInv, WriteInv, ReachedInv, OnePage, PollEvents(s),
         missed \subseteq missed'
  PROVE  ReachedInv'
<1>1. PICK k \in Nat : Reached(poll[s].batch, k)
  BY DEF ReachedInv
<1>2. /\ poll[s].batch = <<>> /\ GetEvents # <<>> /\ poll' = [poll EXCEPT ![s].batch = GetEvents]
      /\ UNCHANGED <<ledger, chain, events, db, cursor>>
  BY DEF PollEvents, chainVars
<1>3. poll'[s].batch = GetEvents
  <2> HIDE DEF GetEvents
  <2> QED
    BY <1>2 DEF IInv, MirrorTypeOK
<1> DEFINE from == Before(cursor)
           upTo == Before(ledger)
<1>4. /\ from \in Nat /\ upTo \in Nat /\ upTo <= Len(events)
      /\ \A i \in DOMAIN events : i <= from <=> events[i].ledger < cursor
      /\ \A i \in DOMAIN events : i <= upTo <=> events[i].ledger < ledger
  BY BeforeFacts DEF IInv, ChainTypeOK, MirrorTypeOK
<1>5. /\ events \in Seq(Event) /\ Len(events) \in Nat /\ DOMAIN events = 1 .. Len(events)
      /\ PageLimit \in Nat /\ cursor \in Nat /\ ledger \in Nat /\ cursor <= ledger
  BY IndexerAssumption DEF IInv, ChainTypeOK, MirrorTypeOK, PollInv
<1>6. \A i \in DOMAIN events : events[i].ledger \in Nat
  <2>1. \A i \in DOMAIN events : events[i] \in Event
    BY <1>5
  <2> QED
    BY <2>1 DEF Event
<1>7. GetEvents = SubSeq(events, from + 1, upTo)
  <2>1. GetEvents = SubSeq(events, from + 1, IF upTo < from + PageLimit THEN upTo ELSE from + PageLimit)
    BY DEF GetEvents
  <2>2. upTo <= from + PageLimit
    BY DEF OnePage
  <2> HIDE DEF from, upTo
  <2>3. ~(upTo < from + PageLimit) => from + PageLimit = upTo
    BY <1>4, <1>5, <2>2
  <2> QED
    BY <2>1, <2>3
<1> DEFINE b == GetEvents
<1> HIDE DEF from, upTo
<1>8. from + 1 <= upTo
  <2>1. SUFFICES ASSUME ~(from + 1 <= upTo) PROVE GetEvents = <<>>
    BY <1>2
  <2> QED
    BY <1>4, <1>5, <1>7, <2>1
<1>9. /\ Len(b) = upTo - from /\ DOMAIN b = 1 .. upTo - from
      /\ \A j \in 1 .. upTo - from : b[j] = events[from + j]
  <2>1. /\ b \in Seq(Event) /\ Len(b) = upTo - from
        /\ \A j \in 1 .. upTo - from : b[j] = events[from + j]
    BY <1>4, <1>5, <1>7, <1>8
  <2> QED
    BY <1>4, <1>8, <2>1
<1> HIDE DEF b
<1>10. from + Len(b) = upTo
  BY <1>4, <1>9
<1>11. ASSUME NEW i \in DOMAIN events', i <= from
       PROVE  Settled(events[i])'
  <2>1. i \in DOMAIN events /\ events[i].ledger < cursor
    BY <1>2, <1>4, <1>11
  <2>2. Len(poll[s].batch) = 0
    BY <1>2
  <2>3. i <= k
    <3>1. i > k => events[i].ledger >= cursor
      BY <1>1, <2>1, <2>2 DEF Reached
    <3> QED
      BY <1>5, <1>6, <2>1, <3>1
  <2>4. Settled(events[i])
    BY <1>1, <2>1, <2>3 DEF Reached
  <2> QED
    BY <1>2, <2>4 DEF Settled, ClosedAtOnce
<1>12. ASSUME NEW i \in DOMAIN events', i > from + Len(b)
       PROVE  events'[i].ledger >= cursor' /\ \A j \in DOMAIN b : events'[i].ledger > b[j].ledger
  <2>1. i \in DOMAIN events /\ events[i].ledger >= ledger /\ events'[i] = events[i]
    BY <1>2, <1>4, <1>5, <1>6, <1>10, <1>12
  <2>2. ASSUME NEW j \in DOMAIN b PROVE b[j].ledger < ledger /\ b[j].ledger \in Nat
    <3>1. from + j \in DOMAIN events /\ from + j <= upTo /\ b[j] = events[from + j]
      BY <1>4, <1>5, <1>9
    <3> QED
      BY <1>4, <1>6, <3>1
  <2> QED
    BY <1>2, <1>5, <1>6, <2>1, <2>2
<1>13. \E f \in Nat : Reached(poll[s].batch, f)'
  <2>1. from + Len(b) <= Len(events)
    BY <1>4, <1>10
  <2>2. PICK f \in Nat : f = from
    BY <1>4
  <2>3. f + Len(poll'[s].batch) <= Len(events')
    BY <1>2, <1>3, <2>1, <2>2 DEF b
  <2>4. \A j \in DOMAIN poll'[s].batch : poll'[s].batch[j] = events'[f + j]
    BY <1>2, <1>3, <1>9, <2>2 DEF b
  <2>5. \A i \in DOMAIN events' : i <= f => Settled(events[i])'
    BY <1>11, <2>2
  <2>6. \A i \in DOMAIN events' : i > f + Len(poll'[s].batch) =>
          events'[i].ledger >= cursor' /\ \A j \in DOMAIN poll'[s].batch :
                                            events'[i].ledger > poll'[s].batch[j].ledger
    BY <1>3, <1>12, <2>2 DEF b
  <2> QED
    BY <2>3, <2>4, <2>5, <2>6 DEF Reached
<1> QED
  BY <1>13 DEF ReachedInv
\* Where polls do not overlap and a page holds what waits, every step keeps the poll in its place.
LEMMA ReachedStep ==
  ASSUME NEW s, Poll = {s}, IInv, IInv', AInv, OnePage, Next, Grows, RowsGood
  PROVE  ReachedInv'
<1> USE DEF AInv
<1>1. restarts' = restarts => missed \subseteq missed'
  BY DEF Next, Observe
<1>2. s \in Poll /\ restarts \in Nat /\ Observe
      /\ poll \in [Poll -> [batch : Seq(Event), at : {"read", "free", "write"}]]
  BY IndexerAssumption DEF Next, IInv, MirrorTypeOK
<1>3. CASE Restart
  <2>1. cursor' = START_LEDGER /\ poll'[s].batch = <<>> /\ events' = events
    BY <1>2, <1>3 DEF Restart, NoPoll, chainVars
  <2>2. events \in Seq(Event) /\ START_LEDGER \in Nat
    BY IndexerAssumption DEF IInv, ChainTypeOK
  <2>3. \A i \in DOMAIN events : i \in Nat /\ i > 0 /\ events[i] \in Event
    BY <2>2
  <2>4. \A i \in DOMAIN events : events[i].ledger \in Nat /\ START_LEDGER <= events[i].ledger
    BY <2>3 DEF Event, IInv, EventsInv
  <2>5. Len(events) \in Nat /\ Len(poll'[s].batch) = 0 /\ DOMAIN poll'[s].batch = {}
    BY <2>1, <2>2
  <2>6. PICK k \in Nat : k = 0
    OBVIOUS
  <2>7. Reached(poll[s].batch, k)'
    BY <2>1, <2>2, <2>3, <2>4, <2>5, <2>6 DEF Reached
  <2> QED
    BY <2>7 DEF ReachedInv
<1>4. CASE PollEvents(s)
  <2>1. restarts' = restarts
    BY <1>4 DEF PollEvents
  <2> QED
    BY <1>1, <1>4, <2>1, ReachedPolled
<1>5. ASSUME restarts' = restarts, cursor' = cursor, poll'[s].batch = poll[s].batch
      PROVE  ReachedInv'
  BY <1>1, <1>5, ReachedKept
<1>6. CASE HandlerReads(s)
  <2> DEFINE e == Head(poll[s].batch)
  <2>1. /\ poll[s].batch # <<>> /\ UNCHANGED <<events, db, restarts>>
        /\ \/ Handled(s)
           \/ cursor' = cursor /\ \E at \in {"free", "write"} : poll' = [poll EXCEPT ![s].at = at]
    BY <1>6 DEF HandlerReads, chainVars
  <2>2. CASE Handled(s)
    BY <1>2, <2>1, <2>2, ReachedHandled
  <2>3. CASE cursor' = cursor /\ \E at \in {"free", "write"} : poll' = [poll EXCEPT ![s].at = at]
    BY <1>2, <1>5, <2>1, <2>3
  <2> QED
    BY <2>1, <2>2, <2>3
<1>7. CASE HandlerFrees(s)
  BY <1>2, <1>5, <1>7 DEF HandlerFrees
<1>8. CASE HandlerWrites(s) \/ HandlerFails(s)
  <2>1. /\ poll[s].batch # <<>> /\ Handled(s) /\ restarts' = restarts /\ events' = events
        /\ db' = db \/ (poll[s].at = "write" /\ db' = Written(Head(poll[s].batch)))
    BY <1>8 DEF HandlerWrites, HandlerFails, chainVars
  <2> QED
    BY <1>2, <2>1, ReachedHandled
<1>9. CASE \E r \in Request : \/ \E loans \in LoanLists : BulkRetire(r, loans)
                              \/ ChunkSucceeds(r) \/ ChunkFails(r) \/ RecordChunk(r)
  <2>1. UNCHANGED <<cursor, poll, restarts>>
    BY <1>9 DEF BulkRetire, ChunkSucceeds, ChunkFails, RecordChunk
  <2> QED
    BY <1>5, <2>1
<1>10. CASE CloseLedger
  <2>1. UNCHANGED <<cursor, poll, restarts>>
    BY <1>10 DEF CloseLedger
  <2> QED
    BY <1>5, <2>1
<1>11. CASE \E l \in Loan : \/ ChainStep(l, "None", "Active", "LoanCreated")
                            \/ ChainStep(l, "Active", "Repaid", "LoanRepaid")
                            \/ ChainStep(l, "Active", "Liquidated", "AssetLiquidated")
                            \/ Register(l)
  <2>1. UNCHANGED <<cursor, poll, restarts>>
    BY <1>11 DEF ChainStep, Register
  <2> QED
    BY <1>5, <2>1
<1> QED
  BY <1>3, <1>4, <1>6, <1>7, <1>8, <1>9, <1>10, <1>11 DEF Next, IndexerNext

\* What is settled and reached is what the mirror promises between two polls.
LEMMA AgreesWhenReached ==
  ASSUME NEW s, Poll = {s}, IInv, AInv
  PROVE  MirrorAgrees
<1> SUFFICES ASSUME poll[s].batch = <<>>, NEW l \in Loan \ missed,
                    chain[l] \in {"Repaid", "Liquidated"}, ~ClosedAtOnce(l),
                    \A k \in Ledgers(l) : k < cursor
             PROVE  /\ db[l] # None
                    /\ db[l].status = IF chain[l] = "Repaid" THEN "REPAID" ELSE "LIQUIDATED"
  BY DEF MirrorAgrees
<1>1. PICK i \in DOMAIN events : events[i].loan = l /\ events[i].kind # "LoanCreated"
  BY DEF AInv, ClosedInv
<1>2. events[i].ledger < cursor
  BY <1>1 DEF Ledgers
<1>3. PICK k \in Nat : Reached(poll[s].batch, k)
  BY DEF AInv, ReachedInv
<1>4. events \in Seq(Event) /\ cursor \in Nat
  BY DEF IInv, ChainTypeOK, MirrorTypeOK
<1>5. i \in Nat /\ events[i] \in Event /\ Len(poll[s].batch) = 0
  BY <1>4
<1>6. events[i].ledger \in Nat
  BY <1>5 DEF Event
<1>7. i > k => events[i].ledger >= cursor
  BY <1>3, <1>5 DEF Reached
<1>8. Settled(events[i])
  BY <1>2, <1>3, <1>4, <1>5, <1>6, <1>7 DEF Reached
<1>9. db[l] # None /\ db[l].status \in Terminal
  BY <1>1, <1>8 DEF Settled
<1> QED
  BY <1>9 DEF IInv, MirrorNeverAhead, Terminal

\* The retirement of rows, the replays and the failed handlers leave the mirror right about every
\* closed loan the cursor has passed, as long as polls do not overlap and a page of getEvents holds
\* what waits in closed ledgers (pollEvents; a page that ends inside a ledger loses the rest of it).
THEOREM MirrorIsRightPaged ==
  ASSUME NEW s, Poll = {s}
  PROVE  Spec /\ []OnePage => []MirrorAgrees
<1>1. Init => AInv
  <2> SUFFICES ASSUME Init PROVE AInv
    OBVIOUS
  <2>1. /\ events = <<>> /\ cursor \in Nat /\ db = [l \in Loan |-> None]
        /\ chain = [l \in Loan |-> "None"] /\ poll = [p \in Poll |-> NoPoll]
    BY IndexerAssumption DEF Init, IndexerInit
  <2>2. Reached(<<>>, 0)
    BY <2>1 DEF Reached
  <2> QED
    BY <2>1, <2>2 DEF AInv, WriteInv, ClosedInv, ActiveInv, ReachedInv, NoPoll
<1>2. IInv /\ IInv' /\ AInv /\ OnePage /\ [Next]_vars => AInv'
  <2> SUFFICES ASSUME IInv, IInv', AInv, OnePage, [Next]_vars PROVE AInv'
    OBVIOUS
  <2>1. CASE UNCHANGED vars
    BY <2>1 DEF vars, indexerVars, chainVars, AInv, WriteInv, ClosedInv, ActiveInv, ReachedInv, Reached,
                Settled, ClosedAtOnce
  <2>2. CASE Next
    <3>1. Grows
      BY <2>2, ChainSide DEF IInv
    <3>2. RowsGood
      BY <2>2, <3>1, RowSide DEF IInv
    <3>3. WriteInv' /\ ClosedInv' /\ ActiveInv'
      BY <2>2, <3>1, WriteStep, ClosedStep, ActiveStep DEF AInv
    <3>4. ReachedInv'
      BY <2>2, <3>1, <3>2, ReachedStep
    <3> QED
      BY <3>3, <3>4 DEF AInv
  <2> QED
    BY <2>1, <2>2
<1>3. IInv /\ AInv => MirrorAgrees
  BY AgreesWhenReached
<1> QED
  BY <1>1, <1>2, <1>3, IndexerInvariant, PTL DEF Spec
-----------------------------------------------------------------------------
\* The contract creates a loan once and closes it once.
OnceInv ==
  \A i, j \in DOMAIN events :
    events[i].loan = events[j].loan
      /\ (events[i].kind = "LoanCreated" <=> events[j].kind = "LoanCreated") => i = j

\* A request has each loan once.
TodoInv == \A r \in Request : IsInjective(retire[r].todo)

\* What is emitted once, of loans that were ready for it, is not emitted again.
LEMMA EmitOnce ==
  ASSUME ChainTypeOK, EventsInv, OnceInv, NEW kind \in Kind, NEW loans \in Seq(Loan),
         IsInjective(loans), events' = Emitted(kind, loans),
         \A i \in DOMAIN loans : chain[loans[i]] = IF kind = "LoanCreated" THEN "None" ELSE "Active"
  PROVE  OnceInv'
<1> DEFINE n == Len(events)
<1>1. /\ DOMAIN events' = 1 .. n + Len(loans)
      /\ \A i \in 1 .. n : events'[i] = events[i]
      /\ \A i \in n + 1 .. n + Len(loans) :
           events'[i] = [kind |-> kind, loan |-> loans[i - n], ledger |-> ledger]
  BY EmittedFacts
<1>2. n \in Nat /\ Len(loans) \in Nat /\ DOMAIN loans = 1 .. Len(loans) /\ DOMAIN events = 1 .. n
  BY DEF ChainTypeOK
<1> HIDE DEF n
<1>3. ASSUME NEW i \in n + 1 .. n + Len(loans)
      PROVE  /\ events'[i].kind = kind /\ events'[i].loan = loans[i - n] /\ i - n \in DOMAIN loans
             /\ chain[events'[i].loan] = IF kind = "LoanCreated" THEN "None" ELSE "Active"
  <2>1. i - n \in DOMAIN loans
    BY <1>2
  <2>2. events'[i] = [kind |-> kind, loan |-> loans[i - n], ledger |-> ledger]
    BY <1>1
  <2>3. events'[i].kind = kind /\ events'[i].loan = loans[i - n]
    BY <2>2
  <2>4. chain[loans[i - n]] = IF kind = "LoanCreated" THEN "None" ELSE "Active"
    BY <2>1
  <2> QED
    BY <2>1, <2>3, <2>4
<1>4. ASSUME NEW i \in 1 .. n
      PROVE  /\ chain[events'[i].loan] # "None"
             /\ events'[i].kind # "LoanCreated" => chain[events'[i].loan] # "Active"
             /\ events'[i] = events[i]
  <2>1. events[i] \in Event /\ Fits(events[i])
    BY <1>2 DEF ChainTypeOK, EventsInv
  <2> QED
    BY <1>1, <2>1 DEF Fits, Event, Kind
<1> SUFFICES ASSUME NEW i \in DOMAIN events', NEW j \in DOMAIN events',
                    events'[i].loan = events'[j].loan,
                    events'[i].kind = "LoanCreated" <=> events'[j].kind = "LoanCreated"
             PROVE  i = j
  BY DEF OnceInv
<1>5. CASE i \in 1 .. n /\ j \in 1 .. n
  BY <1>2, <1>4, <1>5 DEF OnceInv
<1>6. CASE i \in n + 1 .. n + Len(loans) /\ j \in n + 1 .. n + Len(loans)
  <2>1. i - n = j - n
    BY <1>3, <1>6 DEF IsInjective
  <2> QED
    BY <1>2, <1>6, <2>1
<1>7. CASE i \in 1 .. n /\ j \in n + 1 .. n + Len(loans)
  BY <1>3, <1>4, <1>7
<1>8. CASE i \in n + 1 .. n + Len(loans) /\ j \in 1 .. n
  BY <1>3, <1>4, <1>8
<1> QED
  BY <1>1, <1>2, <1>5, <1>6, <1>7, <1>8

\* Every step emits what it emits once.
LEMMA OnceStep ==
  ASSUME IInv, OnceInv, TodoInv, Next
  PROVE  OnceInv'
<1>1. CASE events' = events
  BY <1>1 DEF OnceInv
<1>2. ASSUME NEW l \in Loan, NEW from, NEW to, NEW kind,
             <<from, to, kind>> \in {<<"None", "Active", "LoanCreated">>,
                                    <<"Active", "Repaid", "LoanRepaid">>,
                                    <<"Active", "Liquidated", "AssetLiquidated">>},
             ChainStep(l, from, to, kind)
      PROVE  OnceInv'
  <2>1. <<l>> \in Seq(Loan) /\ DOMAIN <<l>> = {1} /\ <<l>>[1] = l /\ kind \in Kind
    BY <1>2 DEF Kind
  <2>2. IsInjective(<<l>>)
    BY <2>1 DEF IsInjective
  <2>3. chain[l] = from /\ events' = Emitted(kind, <<l>>)
    BY <1>2 DEF ChainStep
  <2>4. \A i \in DOMAIN <<l>> : chain[<<l>>[i]] = IF kind = "LoanCreated" THEN "None" ELSE "Active"
    BY <1>2, <2>1, <2>3
  <2> QED
    BY <2>1, <2>2, <2>3, <2>4, EmitOnce DEF IInv
<1>3. ASSUME NEW r \in Request, ChunkLands(r)
      PROVE  OnceInv'
  <2>1. /\ Chunk(r) \in Seq(Loan)
        /\ \A i \in DOMAIN Chunk(r) : i \in DOMAIN retire[r].todo /\ Chunk(r)[i] = retire[r].todo[i]
    BY ChunkFacts DEF IInv
  <2>2. IsInjective(Chunk(r))
    BY <2>1 DEF TodoInv, IsInjective
  <2>3. /\ events' = Emitted("LoanRepaid", Chunk(r)) /\ "LoanRepaid" \in Kind
        /\ \A i \in DOMAIN Chunk(r) : chain[Chunk(r)[i]] = "Active"
    BY <1>3 DEF ChunkLands, Kind
  <2> QED
    BY <2>1, <2>2, <2>3, EmitOnce DEF IInv
<1>4. CASE \E l \in Loan : \/ ChainStep(l, "None", "Active", "LoanCreated")
                           \/ ChainStep(l, "Active", "Repaid", "LoanRepaid")
                           \/ ChainStep(l, "Active", "Liquidated", "AssetLiquidated")
  BY <1>2, <1>4
<1>5. CASE (\E l \in Loan : Register(l)) \/ CloseLedger \/ Restart
  BY <1>1, <1>5 DEF Register, CloseLedger, Restart, chainVars
<1>6. CASE \E r \in Request : ChunkSucceeds(r) \/ ChunkFails(r)
  BY <1>1, <1>3, <1>6 DEF ChunkSucceeds, ChunkFails, chainVars
<1>7. CASE \E r \in Request : RecordChunk(r) \/ \E loans \in LoanLists : BulkRetire(r, loans)
  BY <1>1, <1>7 DEF RecordChunk, BulkRetire, chainVars
<1>8. CASE \E p \in Poll : PollEvents(p) \/ HandlerReads(p) \/ HandlerFrees(p) \/ HandlerWrites(p) \/ HandlerFails(p)
  BY <1>1, <1>8 DEF PollEvents, HandlerReads, HandlerFrees, HandlerWrites, HandlerFails, chainVars
<1> QED
  BY <1>4, <1>5, <1>6, <1>7, <1>8 DEF Next, IndexerNext

\* A request is given each loan once, and what is left of it is a part of that.
LEMMA TodoStep ==
  ASSUME IInv, TodoInv, Next
  PROVE  TodoInv'
<1>1. retire \in [Request -> [todo : Seq(Loan), done : Seq(SUBSET Loan)]]
  BY DEF IInv, MirrorTypeOK
<1>2. ASSUME \A r \in Request : retire'[r].todo = retire[r].todo
      PROVE  TodoInv'
  BY <1>2 DEF TodoInv
<1>3. ASSUME NEW r \in Request, NEW todo, IsInjective(todo), retire'[r].todo = todo,
             \A q \in Request \ {r} : retire'[q] = retire[q]
      PROVE  TodoInv'
  BY <1>3 DEF TodoInv
<1>4. IsInjective(<<>>)
  BY DEF IsInjective
<1>5. CASE Restart
  BY <1>4, <1>5 DEF Restart, NoRetire, TodoInv
<1>6. ASSUME NEW r \in Request, NEW loans \in LoanLists, BulkRetire(r, loans)
      PROVE  TodoInv'
  <2>1. retire'[r].todo = loans /\ \A q \in Request \ {r} : retire'[q] = retire[q]
    BY <1>1, <1>6 DEF BulkRetire
  <2>2. IsInjective(loans)
    BY DEF LoanLists
  <2> QED
    BY <1>3, <2>1, <2>2
<1>7. ASSUME NEW r \in Request, ChunkSucceeds(r)
      PROVE  TodoInv'
  <2> DEFINE todo == retire[r].todo
             k    == Len(Chunk(r)) + 1
             left == SubSeq(todo, k, Len(todo))
  <2>1. retire'[r].todo = left /\ \A q \in Request \ {r} : retire'[q] = retire[q]
    BY <1>1, <1>7 DEF ChunkSucceeds
  <2>2. /\ todo \in Seq(Loan) /\ Len(todo) \in Nat /\ DOMAIN todo = 1 .. Len(todo)
        /\ k \in 1 .. Len(todo) + 1 /\ IsInjective(todo)
    <3>1. Len(Chunk(r)) \in 0 .. Len(todo)
      BY ChunkFacts DEF IInv
    <3>2. todo \in Seq(Loan)
      BY <1>1
    <3> QED
      BY <3>1, <3>2 DEF TodoInv
  <2>3. IsInjective(left)
    <3> HIDE DEF todo, k
    <3>1. Len(left) = Len(todo) - k + 1 /\ \A i \in 1 .. Len(todo) - k + 1 : left[i] = todo[k + i - 1]
      BY <2>2
    <3>2. DOMAIN left = 1 .. Len(todo) - k + 1
      BY <3>1, <2>2
    <3>3. ASSUME NEW i \in DOMAIN left, NEW j \in DOMAIN left, left[i] = left[j]
          PROVE  i = j
      <4>1. k + i - 1 \in DOMAIN todo /\ k + j - 1 \in DOMAIN todo
        BY <2>2, <3>2
      <4>2. k + i - 1 = k + j - 1
        BY <2>2, <3>1, <3>2, <3>3, <4>1 DEF IsInjective
      <4> QED
        BY <2>2, <3>2, <4>2
    <3> QED
      BY <3>3 DEF IsInjective
  <2> QED
    BY <1>3, <2>1, <2>3
<1>8. ASSUME NEW r \in Request, ChunkFails(r)
      PROVE  TodoInv'
  <2>1. retire'[r].todo = <<>> /\ \A q \in Request \ {r} : retire'[q] = retire[q]
    BY <1>1, <1>8 DEF ChunkFails
  <2> QED
    BY <1>3, <1>4, <2>1
<1>9. ASSUME NEW r \in Request, RecordChunk(r)
      PROVE  TodoInv'
  BY <1>1, <1>2, <1>9 DEF RecordChunk
<1>10. CASE \E l \in Loan : \/ ChainStep(l, "None", "Active", "LoanCreated")
                            \/ ChainStep(l, "Active", "Repaid", "LoanRepaid")
                            \/ ChainStep(l, "Active", "Liquidated", "AssetLiquidated")
                            \/ Register(l)
  BY <1>2, <1>10 DEF ChainStep, Register
<1>11. CASE CloseLedger
  BY <1>2, <1>11 DEF CloseLedger
<1>12. CASE \E p \in Poll : PollEvents(p) \/ HandlerReads(p) \/ HandlerFrees(p) \/ HandlerWrites(p) \/ HandlerFails(p)
  BY <1>2, <1>12 DEF PollEvents, HandlerReads, HandlerFrees, HandlerWrites, HandlerFails
<1> QED
  BY <1>5, <1>6, <1>7, <1>8, <1>9, <1>10, <1>11, <1>12 DEF Next, IndexerNext

\* Created once and closed once, loans have two events each.
LEMMA TwoEventsEach ==
  ASSUME IInv, OnceInv, IsFiniteSet(Loan)
  PROVE  Len(events) <= 2 * Cardinality(Loan)
<1> DEFINE n == Len(events)
           C == {i \in 1 .. n : events[i].kind = "LoanCreated"}
           D == {i \in 1 .. n : events[i].kind # "LoanCreated"}
           c == [i \in C |-> events[i].loan]
           d == [i \in D |-> events[i].loan]
<1>1. n \in Nat /\ DOMAIN events = 1 .. n /\ \A i \in 1 .. n : events[i] \in Event
  BY DEF IInv, ChainTypeOK
<1>2. \A i \in 1 .. n : events[i].loan \in Loan
  BY <1>1 DEF Event
<1> HIDE DEF n
<1>3. c \in Injection(C, Loan)
  <2>1. c \in [C -> Loan] /\ \A i, j \in C : c[i] = c[j] => i = j
    BY <1>1, <1>2 DEF OnceInv
  <2> HIDE DEF c, C
  <2> QED
    BY <2>1 DEF Injection, IsInjective
<1>4. d \in Injection(D, Loan)
  <2>1. d \in [D -> Loan] /\ \A i, j \in D : d[i] = d[j] => i = j
    BY <1>1, <1>2 DEF OnceInv
  <2> HIDE DEF d, D
  <2> QED
    BY <2>1 DEF Injection, IsInjective
<1> HIDE DEF c, d
<1>5. /\ IsFiniteSet(C) /\ Cardinality(C) <= Cardinality(Loan)
      /\ IsFiniteSet(D) /\ Cardinality(D) <= Cardinality(Loan)
  BY <1>3, <1>4, FS_Injection
<1>6. C \cup D = 1 .. n
  OBVIOUS
<1>7. Cardinality(1 .. n) = n
  BY <1>1, FS_Interval
<1> HIDE DEF C, D
<1>8. /\ Cardinality(C \cup D) = Cardinality(C) + Cardinality(D) - Cardinality(C \cap D)
      /\ Cardinality(C) \in Nat /\ Cardinality(D) \in Nat /\ Cardinality(Loan) \in Nat
  BY <1>5, FS_Union, FS_CardinalityType
<1>9. Cardinality(C \cap D) \in Nat
  <2>1. C \cap D \in SUBSET C
    OBVIOUS
  <2> QED
    BY <1>5, <2>1, FS_Subset, FS_CardinalityType
<1>10. n <= 2 * Cardinality(Loan)
  <2>1. n = Cardinality(C) + Cardinality(D) - Cardinality(C \cap D)
    BY <1>6, <1>7, <1>8
  <2> QED
    BY <1>5, <1>8, <1>9, <2>1
<1> QED
  BY <1>10 DEF n

\* Where polls do not overlap and a page has room for two events of each loan, the mirror is right
\* about every closed loan that the cursor has passed, through failed handlers, retirements that
\* end half way and restarts that replay every event (pollEvents and the event handlers).
THEOREM MirrorIsRight ==
  ASSUME NEW s, Poll = {s}, IsFiniteSet(Loan), 2 * Cardinality(Loan) <= PageLimit
  PROVE  Spec => []MirrorAgrees
<1>1. Init => OnceInv /\ TodoInv
  BY DEF Init, IndexerInit, OnceInv, TodoInv, NoRetire, IsInjective
<1>2. IInv /\ OnceInv /\ TodoInv /\ [Next]_vars => OnceInv' /\ TodoInv'
  <2>1. CASE UNCHANGED vars
    BY <2>1 DEF vars, indexerVars, chainVars, OnceInv, TodoInv
  <2> QED
    BY <2>1, OnceStep, TodoStep
<1>3. IInv /\ OnceInv => OnePage
  <2> SUFFICES ASSUME IInv, OnceInv PROVE OnePage
    OBVIOUS
  <2>1. /\ Before(ledger) \in Nat /\ Before(ledger) <= Len(events) /\ Before(cursor) \in Nat
        /\ Len(events) \in Nat
    <3>1. ChainTypeOK /\ EventsInv /\ ledger \in Nat /\ cursor \in Nat /\ events \in Seq(Event)
      BY DEF IInv, ChainTypeOK, MirrorTypeOK
    <3>2. Len(events) \in Nat
      BY <3>1
    <3> QED
      BY <3>1, <3>2, BeforeFacts
  <2>2. Len(events) <= 2 * Cardinality(Loan) /\ 2 * Cardinality(Loan) \in Nat
    BY TwoEventsEach, FS_CardinalityType
  <2> DEFINE m == 2 * Cardinality(Loan)
  <2>3. PageLimit \in Nat
    BY IndexerAssumption
  <2> HIDE DEF m
  <2>4. Len(events) <= m /\ m \in Nat /\ m <= PageLimit
    BY <2>2 DEF m
  <2> QED
    BY <2>1, <2>3, <2>4 DEF OnePage
<1>4. Spec => []OnePage
  BY <1>1, <1>2, <1>3, IndexerInvariant, PTL DEF Spec
<1> QED
  BY <1>4, MirrorIsRightPaged, PTL

-----------------------------------------------------------------------------
\* How many steps a poll has left at most: three for each event, fewer for the one under way.
Left(pl) == 3 * Len(pl.batch) - (IF pl.at = "read" THEN 0 ELSE IF pl.at = "free" THEN 1 ELSE 2)

\* A poll that asks gets events whenever the cursor has not passed one of a closed ledger.
FindsEvents ==
  \A i \in DOMAIN events : cursor <= events[i].ledger /\ events[i].ledger < ledger => GetEvents # <<>>

\* What a step does to the polls under way: nothing, or it uses up a step of one of them; an event
\* that is left behind has been passed by the cursor, which never goes back.
GetsOn ==
  /\ cursor <= cursor'
  /\ \A p \in Poll : poll[p].batch # <<>> =>
       \/ poll'[p] = poll[p]
       \/ Left(poll'[p]) < Left(poll[p]) /\ poll'[p].batch = poll[p].batch
       \/ Left(poll'[p]) < Left(poll[p]) /\ cursor' > Head(poll[p].batch).ledger

LEMMA EventsAreFound == IInv => FindsEvents
<1> SUFFICES ASSUME IInv, NEW i \in DOMAIN events, cursor <= events[i].ledger,
                    events[i].ledger < ledger
             PROVE  GetEvents # <<>>
  BY DEF FindsEvents
<1> DEFINE from == Before(cursor)
           upTo == Before(ledger)
           end  == IF upTo < from + PageLimit THEN upTo ELSE from + PageLimit
<1>1. cursor \in Nat /\ ledger \in Nat /\ PageLimit \in Nat \ {0}
  BY IndexerAssumption DEF IInv, MirrorTypeOK, ChainTypeOK
<1>2. /\ from \in Nat /\ upTo \in Nat /\ upTo <= Len(events)
      /\ i <= from <=> events[i].ledger < cursor
      /\ i <= upTo <=> events[i].ledger < ledger
  BY <1>1, BeforeFacts DEF IInv
<1>3. i \in Nat /\ events \in Seq(Event) /\ events[i] \in Event /\ events[i].ledger \in Nat
  <2>1. events \in Seq(Event) /\ i \in Nat /\ events[i] \in Event
    BY DEF IInv, ChainTypeOK
  <2> QED
    BY <2>1 DEF Event
<1>4. GetEvents = SubSeq(events, from + 1, end)
  BY DEF GetEvents
<1> HIDE DEF from, upTo
<1>5. from < i /\ i <= upTo
  BY <1>1, <1>2, <1>3
<1>6. end \in Nat /\ from + 1 <= end /\ end <= Len(events)
  BY <1>1, <1>2, <1>3, <1>5
<1> HIDE DEF end
<1>7. Len(GetEvents) = end - from
  BY <1>2, <1>3, <1>4, <1>6
<1> QED
  BY <1>2, <1>6, <1>7

\* The values of the rank: it falls while an event is handled and when it is left behind.
LEMMA LeftValues ==
  ASSUME NEW b \in Seq(Event), b # <<>>
  PROVE  /\ Left([batch |-> b, at |-> "free"]) < Left([batch |-> b, at |-> "read"])
         /\ Left([batch |-> b, at |-> "write"]) < Left([batch |-> b, at |-> "free"])
         /\ \A a \in {"read", "free", "write"} :
              Left([batch |-> Tail(b), at |-> "read"]) < Left([batch |-> b, at |-> a])
<1>1. Len(b) \in Nat /\ Len(Tail(b)) = Len(b) - 1
  OBVIOUS
<1> QED
  BY <1>1 DEF Left

\* An event that a poll has handled is behind the cursor.
LEMMA HandledGetsOn ==
  ASSUME IInv, NEW p \in Poll, poll[p].batch # <<>>, Handled(p)
  PROVE  GetsOn
<1> DEFINE b == poll[p].batch
           e == Head(b)
<1>1. b \in Seq(Event) /\ b # <<>> /\ poll[p] = [batch |-> b, at |-> poll[p].at]
      /\ poll[p].at \in {"read", "free", "write"}
  BY DEF IInv, MirrorTypeOK
<1>2. e \in Event /\ e.ledger \in Nat /\ cursor \in Nat
  BY FirstFacts DEF IInv, MirrorTypeOK, Event
<1>3. poll' = [poll EXCEPT ![p] = [batch |-> Tail(b), at |-> "read"]] /\ cursor' = Advance(e)
  BY DEF Handled
<1>4. poll'[p] = [batch |-> Tail(b), at |-> "read"] /\ \A q \in Poll \ {p} : poll'[q] = poll[q]
  BY <1>3 DEF IInv, MirrorTypeOK
<1> HIDE DEF b
<1>5. Left(poll'[p]) < Left(poll[p])
  BY <1>1, <1>4, LeftValues
<1> HIDE DEF e
<1>6. cursor <= cursor' /\ e.ledger < cursor'
  BY <1>2, <1>3 DEF Advance
<1> QED
  BY <1>4, <1>5, <1>6 DEF GetsOn, b, e

\* Every step but a restart gets the polls on.
LEMMA StepGetsOn ==
  ASSUME IInv, Next, restarts' = restarts
  PROVE  GetsOn
<1>1. cursor \in Nat /\ restarts \in Nat
  BY IndexerAssumption DEF IInv, MirrorTypeOK
<1>2. CASE UNCHANGED <<cursor, poll>>
  BY <1>1, <1>2 DEF GetsOn
<1>3. ASSUME NEW p \in Poll, NEW a \in {"free", "write"}, poll[p].batch # <<>>,
             poll' = [poll EXCEPT ![p].at = a], cursor' = cursor,
             \/ poll[p].at = "read"
             \/ poll[p].at = "free" /\ a = "write"
      PROVE  GetsOn
  <2>1. PICK b : b = poll[p].batch
    OBVIOUS
  <2>2. b \in Seq(Event) /\ b # <<>> /\ poll[p] = [batch |-> b, at |-> poll[p].at]
    BY <1>3, <2>1 DEF IInv, MirrorTypeOK
  <2>3. poll'[p] = [batch |-> b, at |-> a] /\ \A q \in Poll \ {p} : poll'[q] = poll[q]
    BY <1>3, <2>2 DEF IInv, MirrorTypeOK
  <2>4. /\ Left([batch |-> b, at |-> "free"]) < Left([batch |-> b, at |-> "read"])
        /\ Left([batch |-> b, at |-> "write"]) < Left([batch |-> b, at |-> "free"])
        /\ Left([batch |-> b, at |-> "write"]) < Left([batch |-> b, at |-> "read"])
    <3>1. Len(b) \in Nat
      BY <2>2
    <3> QED
      BY <3>1 DEF Left
  <2>5. Left(poll'[p]) < Left(poll[p])
    BY <1>3, <2>2, <2>3, <2>4
  <2> QED
    BY <1>1, <1>3, <2>1, <2>3, <2>5 DEF GetsOn
<1>4. ASSUME NEW p \in Poll, PollEvents(p) PROVE GetsOn
  <2>1. cursor' = cursor /\ \A q \in Poll : poll[q].batch # <<>> => poll'[q] = poll[q]
    BY <1>4 DEF PollEvents, IInv, MirrorTypeOK
  <2> QED
    BY <1>1, <2>1 DEF GetsOn
<1>5. ASSUME NEW p \in Poll, HandlerReads(p) PROVE GetsOn
  <2>1. CASE Handled(p)
    BY <1>5, <2>1, HandledGetsOn DEF HandlerReads
  <2>2. CASE ~Handled(p)
    <3>1. PICK a \in {"free", "write"} : poll' = [poll EXCEPT ![p].at = a]
      BY <1>5, <2>2 DEF HandlerReads
    <3> QED
      BY <1>3, <1>5, <2>2, <3>1 DEF HandlerReads
  <2> QED
    BY <2>1, <2>2
<1>6. ASSUME NEW p \in Poll, HandlerFrees(p) PROVE GetsOn
  BY <1>3, <1>6 DEF HandlerFrees
<1>7. ASSUME NEW p \in Poll, HandlerWrites(p) \/ HandlerFails(p) PROVE GetsOn
  BY <1>7, HandledGetsOn DEF HandlerWrites, HandlerFails
<1>8. ~Restart
  BY <1>1 DEF Restart
<1> QED
  BY <1>2, <1>4, <1>5, <1>6, <1>7, <1>8
  DEF Next, IndexerNext, CloseLedger, ChainStep, Register, BulkRetire, ChunkSucceeds, ChunkFails,
      RecordChunk

\* The poller is never without something to do while an event waits, and what it does it does a
\* bounded number of times: an idle poll gets events whenever the cursor has not passed one of a
\* closed ledger, each step of a handler lowers a rank that no other step raises, and an event left
\* behind, handled or given up, has been passed by the cursor (pollEvents and the handlers,
\* src/src/services/soroban.service.ts).  What EventsAreReached adds is that timers fire.
THEOREM PollsGetOn ==
  Spec => []FindsEvents /\ [][restarts' = restarts => GetsOn]_vars
<1>1. IInv /\ [Next]_vars => [restarts' = restarts => GetsOn]_vars
  BY StepGetsOn
<1> QED
  BY <1>1, EventsAreFound, IndexerInvariant, PTL DEF Spec
=============================================================================
