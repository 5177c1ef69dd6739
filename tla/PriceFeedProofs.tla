--------------------------- MODULE PriceFeedProofs ---------------------------
(***************************************************************************)
(* Proof, for any clients, credits and events, that a client with a chart  *)
(* misses no event (PriceFeedHistory).                                     *)
(***************************************************************************)
EXTENDS PriceFeedHistory, FiniteSetTheorems, TLAPS

Publication == [at : {"none", "persist", "done"}, time : Nat]
Connection  == [at : {"none", "oracle", "greet", "open", "ended"}, gone : BOOLEAN,
                credit : Credit \cup {None}, oracle : Event \cup {None}, got : SUBSET Event]

FeedTypeOK ==
  /\ now \in Nat
  /\ publish \in [Event -> Publication]
  /\ rows \in Seq(Event)
  /\ listening \subseteq Client
  /\ stream \in [Client -> Connection]
  /\ charted \subseteq Client

\* An event has one row at most, written when its publication was done.
RowsInv ==
  /\ \A i, j \in DOMAIN rows : rows[i] = rows[j] => i = j
  /\ \A i \in DOMAIN rows : publish[rows[i]].at = "done"

\* A client that is there and greeted is registered.
OpenInv == \A c \in Client : stream[c].at = "open" /\ ~stream[c].gone => c \in listening

\* Only clients that were greeted read a chart.
ChartInv == \A c \in charted : stream[c].at \in {"open", "ended"}

IInv == FeedTypeOK /\ RowsInv /\ OpenInv /\ ChartInv /\ NothingMissed

-----------------------------------------------------------------------------
\* What each step does to the connections, the registrations and the table.
LEMMA StreamSteps ==
  ASSUME FeedTypeOK, PriceFeedNext
  PROVE  \/ UNCHANGED <<rows, listening, stream>>
         \/ \E e \in Event : Persists(e)
         \/ \E c \in Client : \/ \E k \in Credit : StreamPriceEvents(c, k)
                             \/ OracleRead(c) \/ Greets(c) \/ ReadsChart(c)
                             \/ MaxDuration(c) \/ Closes(c)
BY DEF PriceFeedNext, Tick, Publish

\* Publications end once: what is in the table or done stays so.
LEMMA PublicationsEnd ==
  ASSUME FeedTypeOK, PriceFeedNext
  PROVE  /\ publish' \in [Event -> Publication] /\ now' \in Nat
         /\ \A e \in Event : publish[e].at = "done" => publish'[e] = publish[e]
<1>1. CASE Tick
  BY <1>1 DEF Tick, FeedTypeOK
<1>2. ASSUME NEW e \in Event, Publish(e)
      PROVE  /\ publish' \in [Event -> Publication] /\ now' \in Nat
             /\ \A f \in Event : publish[f].at = "done" => publish'[f] = publish[f]
  BY <1>2 DEF Publish, FeedTypeOK, Publication
<1>3. ASSUME NEW e \in Event, Persists(e)
      PROVE  /\ publish' \in [Event -> Publication] /\ now' \in Nat
             /\ \A f \in Event : publish[f].at = "done" => publish'[f] = publish[f]
  BY <1>3 DEF Persists, FeedTypeOK, Publication
<1>4. CASE UNCHANGED <<now, publish>>
  BY <1>4 DEF FeedTypeOK
<1> QED
  BY <1>1, <1>2, <1>3, <1>4
  DEF PriceFeedNext, StreamPriceEvents, OracleRead, Greets, ReadsChart, MaxDuration, Closes

\* The table grows by the event of a publication that was not done.
LEMMA StepRows ==
  ASSUME FeedTypeOK, RowsInv, PriceFeedNext
  PROVE  RowsInv' /\ rows' \in Seq(Event)
<1>1. CASE UNCHANGED rows
  <2>1. \A i \in DOMAIN rows : rows[i] \in Event
    BY DEF FeedTypeOK
  <2>2. \A i \in DOMAIN rows : publish'[rows[i]].at = "done"
    BY <2>1, PublicationsEnd DEF RowsInv
  <2> QED
    BY <1>1, <2>2 DEF RowsInv, FeedTypeOK
<1>2. ASSUME NEW e \in Event, Persists(e), rows' = Append(rows, e)
      PROVE  RowsInv' /\ rows' \in Seq(Event)
  <2>1. /\ rows' \in Seq(Event) /\ DOMAIN rows = 1 .. Len(rows) /\ Len(rows) \in Nat
        /\ DOMAIN rows' = 1 .. Len(rows) + 1
        /\ \A i \in DOMAIN rows : rows'[i] = rows[i] /\ rows[i] \in Event
        /\ rows'[Len(rows) + 1] = e
    BY <1>2 DEF FeedTypeOK
  <2>2. publish[e].at = "persist" /\ publish'[e].at = "done"
    BY <1>2 DEF Persists, FeedTypeOK, Publication
  <2>3. \A i \in DOMAIN rows : rows[i] # e /\ publish'[rows[i]].at = "done"
    BY <2>1, <2>2, PublicationsEnd DEF RowsInv
  <2>4. \A i \in DOMAIN rows' : i \in DOMAIN rows \/ i = Len(rows) + 1
    BY <2>1
  <2>5. \A i \in DOMAIN rows' : publish'[rows'[i]].at = "done"
    BY <2>1, <2>2, <2>3, <2>4
  <2>6. \A i, j \in DOMAIN rows' : rows'[i] = rows'[j] => i = j
    BY <2>1, <2>3, <2>4 DEF RowsInv
  <2> QED
    BY <2>1, <2>5, <2>6 DEF RowsInv
<1> QED
  BY <1>1, <1>2, StreamSteps
  DEF Persists, StreamPriceEvents, OracleRead, Greets, ReadsChart, MaxDuration, Closes

\* What is read of the table are events, and of a table with as many rows as the limit everything.
LEMMA HistoryIsWhole ==
  ASSUME FeedTypeOK, RowsInv, NEW k \in Credit
  PROVE  /\ PriceHistory(k) \subseteq Event /\ LatestOraclePrice(k) \subseteq Event \cup {None}
         /\ Cardinality(RowsOf(k)) <= Limit => PriceHistory(k) = RowsOf(k)
<1>1. ToSet(rows) \subseteq Event
  BY DEF ToSet, FeedTypeOK
<1>2. IsFiniteSet(RowsOf(k))
  <2>1. IsFiniteSet(1 .. Len(rows))
    BY FS_Interval DEF FeedTypeOK
  <2>2. DOMAIN rows = 1 .. Len(rows)
    BY DEF FeedTypeOK
  <2>3. rows \in Surjection(1 .. Len(rows), ToSet(rows))
    BY <2>2 DEF ToSet, Surjection, FeedTypeOK
  <2>4. IsFiniteSet(ToSet(rows))
    BY <2>1, <2>3, FS_Surjection
  <2>5. RowsOf(k) \subseteq ToSet(rows)
    BY DEF RowsOf
  <2> QED
    BY <2>4, <2>5, FS_Subset
<1>3. ASSUME Cardinality(RowsOf(k)) <= Limit, NEW e \in RowsOf(k)
      PROVE  Cardinality({f \in RowsOf(k) : Before(f, e)}) < Limit
  <2>1. ~ Before(e, e)
    <3>1. e \in Event /\ publish[e].time \in Nat
      BY <1>1 DEF RowsOf, FeedTypeOK, Publication
    <3>2. ASSUME NEW i \in DOMAIN rows, NEW j \in DOMAIN rows, i < j, rows[i] = e, rows[j] = e
          PROVE  FALSE
      <4>1. i = j /\ i \in Nat
        BY <3>2 DEF RowsInv, FeedTypeOK
      <4> QED
        BY <3>2, <4>1
    <3> QED
      BY <3>1, <3>2 DEF Before
  <2>2. {f \in RowsOf(k) : Before(f, e)} \subseteq RowsOf(k) \ {e}
    BY <2>1
  <2>3. /\ IsFiniteSet(RowsOf(k) \ {e})
        /\ Cardinality(RowsOf(k) \ {e}) = Cardinality(RowsOf(k)) - 1
    BY <1>2, <1>3, FS_RemoveElement
  <2>4. /\ Cardinality({f \in RowsOf(k) : Before(f, e)}) <= Cardinality(RowsOf(k) \ {e})
        /\ Cardinality({f \in RowsOf(k) : Before(f, e)}) \in Nat
    BY <2>2, <2>3, FS_Subset, FS_CardinalityType
  <2>5. Cardinality(RowsOf(k)) \in Nat /\ Limit \in Nat
    BY <1>2, FS_CardinalityType, PriceFeedAssumption
  <2> QED
    BY <1>3, <2>3, <2>4, <2>5
<1> QED
  BY <1>1, <1>3 DEF PriceHistory, LatestOraclePrice, RowsOf

-----------------------------------------------------------------------------
\* What a step may do to a connection: give it events and keep it registered, take it to its
\* greeting, register and greet it, end it, or lose its client.
Moved(c) ==
  \/ /\ stream'[c].at = stream[c].at /\ stream'[c].gone = stream[c].gone
     /\ stream'[c].credit = stream[c].credit /\ stream[c].got \subseteq stream'[c].got
     /\ c \in listening /\ stream[c].at # "ended" => c \in listening'
  \/ stream[c].at \in {"none", "oracle"} /\ stream'[c].at \in {"oracle", "greet"}
  \/ stream[c].at = "greet" /\ stream'[c].at = "open" /\ c \in listening'
  \/ stream[c].at = "open" /\ stream'[c].at = "ended"
  \/ stream'[c].at = stream[c].at /\ stream'[c].gone

\* An event goes to every client that is registered for it and there, and to no one's loss.
LEMMA BroadcastReaches ==
  ASSUME FeedTypeOK, NEW e \in Event, Persists(e)
  PROVE  /\ listening' \subseteq listening /\ stream' \in [Client -> Connection]
         /\ \A c \in Client : Moved(c)
         /\ \A c \in listening :
              stream[c].credit = CreditOf[e] /\ stream[c].at = "open" /\ ~stream[c].gone
                => e \in stream'[c].got
<1>1. listening' \subseteq listening
  BY DEF Persists, Broadcast
<1>2. ASSUME NEW c \in Client
      PROVE  /\ stream'[c] \in Connection
             /\ stream'[c].at = stream[c].at /\ stream'[c].gone = stream[c].gone
             /\ stream'[c].credit = stream[c].credit /\ stream[c].got \subseteq stream'[c].got
             /\ /\ c \in listening /\ stream[c].credit = CreditOf[e]
                /\ stream[c].at = "open" /\ ~stream[c].gone
                => e \in stream'[c].got
  <2>1. stream[c] \in Connection
    BY DEF FeedTypeOK
  <2>2. CASE stream'[c] = stream[c] /\ ~ (/\ c \in listening /\ stream[c].credit = CreditOf[e]
                                        /\ stream[c].at = "open" /\ ~stream[c].gone)
    BY <2>1, <2>2
  <2>3. CASE stream'[c] = [stream[c] EXCEPT !.got = @ \cup {e}]
    BY <2>1, <2>3 DEF Connection
  <2> QED
    BY <2>2, <2>3 DEF Persists, Broadcast
<1>3. \A c \in listening : stream[c].at # "ended" => c \in listening'
  BY DEF Persists, Broadcast
<1>4. \A c \in Client : Moved(c)
  BY <1>2, <1>3 DEF Moved
<1>5. stream' \in [Client -> Connection]
  <2>1. stream' = [c \in Client |-> stream'[c]]
    BY DEF Persists, Broadcast
  <2> QED
    BY <1>2, <2>1
<1> QED
  BY <1>1, <1>2, <1>4, <1>5 DEF FeedTypeOK

\* Every step moves connections so.
LEMMA StepMoves ==
  ASSUME FeedTypeOK, RowsInv, PriceFeedNext
  PROVE  /\ listening' \subseteq Client /\ stream' \in [Client -> Connection]
         /\ \A c \in Client : Moved(c)
<1> DEFINE Goal == /\ listening' \subseteq Client /\ stream' \in [Client -> Connection]
                   /\ \A c \in Client : Moved(c)
<1>1. CASE UNCHANGED <<rows, listening, stream>>
  BY <1>1 DEF FeedTypeOK, Moved
<1>2. ASSUME NEW e \in Event, Persists(e) PROVE Goal
  <2>1. listening' \subseteq listening
    BY <1>2, BroadcastReaches
  <2>3. stream' \in [Client -> Connection]
    BY <1>2, BroadcastReaches
  <2>4. \A c \in Client : Moved(c)
    BY <1>2, BroadcastReaches
  <2>2. listening \subseteq Client
    BY DEF FeedTypeOK
  <2> QED
    BY <2>1, <2>2, <2>3, <2>4, Zenon
<1>3. ASSUME NEW c \in Client, NEW m \in Connection, stream' = [stream EXCEPT ![c] = m],
             listening' \subseteq Client, Moved(c),
             \A d \in Client : d # c /\ d \in listening => d \in listening'
      PROVE  Goal
  <2>1. stream' \in [Client -> Connection] /\ \A d \in Client : d # c => stream'[d] = stream[d]
    BY <1>3 DEF FeedTypeOK
  <2>2. \A d \in Client : d # c => Moved(d)
    BY <1>3, <2>1 DEF Moved
  <2> QED
    BY <1>3, <2>1, <2>2
<1> HIDE DEF Goal
<1>4. ASSUME NEW c \in Client, NEW k \in Credit, StreamPriceEvents(c, k) PROVE Goal
  <2>1. PICK m : m = [stream[c] EXCEPT !.at = "oracle", !.credit = k]
    OBVIOUS
  <2>2. m \in Connection /\ m.at = "oracle"
    BY <2>1 DEF FeedTypeOK, Connection
  <2>3. stream' = [stream EXCEPT ![c] = m] /\ stream'[c] = m
    BY <1>4, <2>1 DEF StreamPriceEvents, FeedTypeOK
  <2>4. Moved(c)
    BY <1>4, <2>2, <2>3 DEF StreamPriceEvents, Moved
  <2> QED
    BY <1>3, <1>4, <2>2, <2>3, <2>4 DEF StreamPriceEvents, FeedTypeOK
<1>5. ASSUME NEW c \in Client, OracleRead(c) PROVE Goal
  <2>1. PICK e \in LatestOraclePrice(stream[c].credit) \cup {None} :
          stream' = [stream EXCEPT ![c].at = "greet", ![c].oracle = e]
    BY <1>5 DEF OracleRead
  <2>2. e \in Event \cup {None}
    <3>1. rows \in Seq(Event) /\ ToSet(rows) \subseteq Event
      BY DEF FeedTypeOK, ToSet
    <3> QED
      BY <2>1, <3>1 DEF LatestOraclePrice, RowsOf
  <2>3. PICK m : m = [stream[c] EXCEPT !.at = "greet", !.oracle = e]
    OBVIOUS
  <2>4. m \in Connection /\ m.at = "greet"
    BY <2>2, <2>3 DEF FeedTypeOK, Connection
  <2>5. stream' = [stream EXCEPT ![c] = m] /\ stream'[c] = m
    BY <2>1, <2>3 DEF FeedTypeOK
  <2>6. Moved(c)
    BY <1>5, <2>4, <2>5 DEF OracleRead, Moved
  <2> QED
    BY <1>3, <1>5, <2>4, <2>5, <2>6 DEF OracleRead, FeedTypeOK
<1>6. ASSUME NEW c \in Client, Greets(c) PROVE Goal
  <2>1. PICK m : m = [stream[c] EXCEPT !.at = "open"]
    OBVIOUS
  <2>2. m \in Connection /\ m.at = "open"
    BY <2>1 DEF FeedTypeOK, Connection
  <2>3. stream' = [stream EXCEPT ![c] = m] /\ stream'[c] = m
    BY <1>6, <2>1 DEF Greets, FeedTypeOK
  <2>4. Moved(c)
    BY <1>6, <2>2, <2>3 DEF Greets, Moved
  <2> QED
    BY <1>3, <1>6, <2>2, <2>3, <2>4 DEF Greets, FeedTypeOK
<1>7. ASSUME NEW c \in Client, ReadsChart(c) PROVE Goal
  <2>1. PriceHistory(stream[c].credit) \subseteq Event
    BY DEF PriceHistory, RowsOf, FeedTypeOK, ToSet
  <2>2. PICK m : m = [stream[c] EXCEPT !.got = @ \cup PriceHistory(stream[c].credit)]
    OBVIOUS
  <2>3. /\ m \in Connection /\ m.at = stream[c].at /\ m.gone = stream[c].gone
        /\ m.credit = stream[c].credit /\ stream[c].got \subseteq m.got
    BY <2>1, <2>2 DEF FeedTypeOK, Connection
  <2>4. stream' = [stream EXCEPT ![c] = m] /\ stream'[c] = m
    BY <1>7, <2>2 DEF ReadsChart, FeedTypeOK
  <2>5. Moved(c)
    BY <1>7, <2>3, <2>4 DEF ReadsChart, Moved
  <2> QED
    BY <1>3, <1>7, <2>3, <2>4, <2>5 DEF ReadsChart, FeedTypeOK
<1>8. ASSUME NEW c \in Client, MaxDuration(c) PROVE Goal
  <2>1. PICK m : m = [stream[c] EXCEPT !.at = "ended"]
    OBVIOUS
  <2>2. m \in Connection /\ m.at = "ended"
    BY <2>1 DEF FeedTypeOK, Connection
  <2>3. stream' = [stream EXCEPT ![c] = m] /\ stream'[c] = m
    BY <1>8, <2>1 DEF MaxDuration, FeedTypeOK
  <2>4. Moved(c)
    BY <1>8, <2>2, <2>3 DEF MaxDuration, Moved
  <2> QED
    BY <1>3, <1>8, <2>2, <2>3, <2>4 DEF MaxDuration, FeedTypeOK
<1>9. ASSUME NEW c \in Client, Closes(c) PROVE Goal
  <2>1. PICK m : m = [stream[c] EXCEPT !.gone = TRUE]
    OBVIOUS
  <2>2. m \in Connection /\ m.at = stream[c].at /\ m.gone
    BY <2>1 DEF FeedTypeOK, Connection
  <2>3. stream' = [stream EXCEPT ![c] = m] /\ stream'[c] = m
    BY <1>9, <2>1 DEF Closes, FeedTypeOK
  <2>4. Moved(c)
    BY <1>9, <2>2, <2>3 DEF Closes, Moved
  <2> QED
    BY <1>3, <1>9, <2>2, <2>3, <2>4 DEF Closes, FeedTypeOK
<1>10. Goal
  BY <1>1, <1>2, <1>4, <1>5, <1>6, <1>7, <1>8, <1>9, StreamSteps DEF Goal
<1> QED
  BY <1>10 DEF Goal

-----------------------------------------------------------------------------
\* A client that is there and greeted stays registered.
LEMMA StepOpen ==
  ASSUME FeedTypeOK, RowsInv, OpenInv, PriceFeedNext
  PROVE  OpenInv'
<1> SUFFICES ASSUME NEW c \in Client, stream'[c].at = "open", ~stream'[c].gone
             PROVE  c \in listening'
  BY DEF OpenInv
<1>1. Moved(c)
  BY StepMoves
<1> QED
  BY <1>1 DEF Moved, OpenInv

\* Who read a chart has been greeted, and is not greeted again.
LEMMA StepChart ==
  ASSUME FeedTypeOK, RowsInv, ChartInv, Next
  PROVE  ChartInv' /\ charted' \subseteq Client
<1>1. PriceFeedNext /\ charted' \subseteq Client
  BY DEF Next, Observe, FeedTypeOK
<1>2. ASSUME NEW c \in charted'
      PROVE  stream'[c].at \in {"open", "ended"}
  <2>1. stream[c].at \in {"open", "ended"}
    BY <1>2 DEF Next, Observe, ReadsChart, ChartInv
  <2>2. Moved(c)
    BY <1>1, <1>2, StepMoves
  <2> QED
    BY <2>1, <2>2 DEF Moved
<1> QED
  BY <1>1, <1>2 DEF ChartInv

\* A client with a chart has the events that were recorded before, and is given those that are
\* recorded now.
LEMMA StepMissesNothing ==
  ASSUME IInv, Next
  PROVE  NothingMissed'
<1> SUFFICES ASSUME NEW c \in charted', NEW e \in ToSet(rows'),
                    stream'[c].at = "open", ~stream'[c].gone, CreditOf[e] = stream'[c].credit
             PROVE  e \in stream'[c].got
  BY DEF NothingMissed
<1>1. PriceFeedNext /\ FeedTypeOK /\ RowsInv /\ c \in Client /\ Moved(c)
  BY StepMoves, StepChart DEF IInv, Next
<1>2. CASE c \notin charted
  <2>1. ReadsChart(c) /\ Cardinality(RowsOf(stream[c].credit)) <= Limit
    BY <1>2 DEF Next, Observe
  <2>2. rows' = rows /\ stream'[c] = [stream[c] EXCEPT !.got = @ \cup PriceHistory(stream[c].credit)]
    BY <1>1, <2>1 DEF ReadsChart, FeedTypeOK
  <2>3. /\ stream'[c].credit = stream[c].credit
        /\ PriceHistory(stream[c].credit) \subseteq stream'[c].got
    BY <1>1, <2>2 DEF FeedTypeOK, Connection
  <2>4. e \in ToSet(rows) /\ e \in Event
    BY <1>1, <2>2 DEF ToSet, FeedTypeOK
  <2>5. stream[c].credit \in Credit
    BY <2>3, <2>4, PriceFeedAssumption
  <2>6. PriceHistory(stream[c].credit) = RowsOf(stream[c].credit)
    BY <1>1, <2>1, <2>5, HistoryIsWhole
  <2> QED
    BY <2>3, <2>4, <2>6 DEF RowsOf
<1>3. CASE c \in charted
  <2>1. stream[c].at \in {"open", "ended"}
    BY <1>3 DEF IInv, ChartInv
  <2>2. /\ stream[c].at = "open" /\ ~stream[c].gone /\ stream[c].credit = stream'[c].credit
        /\ stream[c].got \subseteq stream'[c].got
    BY <1>1, <2>1 DEF Moved
  <2>3. CASE e \in ToSet(rows)
    <3>1. publish[e].at = "done"
      BY <1>1, <2>3 DEF RowsInv, ToSet
    <3> QED
      BY <1>3, <2>2, <2>3, <3>1 DEF IInv, NothingMissed
  <2>4. CASE e \notin ToSet(rows)
    <3>1. rows' # rows
      BY <2>4
    <3>2. PICK f \in Event : Persists(f) /\ rows' = Append(rows, f)
      BY <1>1, <3>1, StreamSteps
      DEF Persists, StreamPriceEvents, OracleRead, Greets, ReadsChart, MaxDuration, Closes
    <3>3. e = f
      BY <1>1, <2>4, <3>2 DEF ToSet, FeedTypeOK
    <3>4. c \in listening
      BY <1>1, <2>2 DEF IInv, OpenInv
    <3>5. stream[c].credit = CreditOf[f] /\ stream[c].at = "open" /\ ~stream[c].gone
            => f \in stream'[c].got
      BY <1>1, <3>2, <3>4, BroadcastReaches
    <3> QED
      BY <2>2, <3>3, <3>4, <3>5
  <2> QED
    BY <2>3, <2>4
<1> QED
  BY <1>2, <1>3

\* The inductive invariant holds before anyone is connected, and is kept.
LEMMA FeedInvariant == Spec => []IInv
<1>1. Init => IInv
  <2> SUFFICES ASSUME Init PROVE IInv
    OBVIOUS
  <2> USE DEF Init, PriceFeedInit
  <2>1. FeedTypeOK
    BY DEF FeedTypeOK, Publication, Connection, NoStream
  <2>2. RowsInv /\ ChartInv /\ NothingMissed
    BY DEF RowsInv, ChartInv, NothingMissed
  <2>3. OpenInv
    BY DEF OpenInv, NoStream
  <2> QED
    BY <2>1, <2>2, <2>3 DEF IInv
<1>2. IInv /\ [Next]_vars => IInv'
  <2> SUFFICES ASSUME IInv, [Next]_vars PROVE IInv'
    OBVIOUS
  <2>1. CASE Next
    <3>1. PriceFeedNext /\ FeedTypeOK /\ RowsInv /\ OpenInv /\ ChartInv
      BY <2>1 DEF Next, IInv
    <3>2. now' \in Nat /\ publish' \in [Event -> Publication]
      BY <3>1, PublicationsEnd
    <3>3. RowsInv' /\ rows' \in Seq(Event)
      BY <3>1, StepRows
    <3>4. listening' \subseteq Client /\ stream' \in [Client -> Connection]
      BY <3>1, StepMoves
    <3>5. ChartInv' /\ charted' \subseteq Client
      BY <2>1, <3>1, StepChart
    <3>6. OpenInv' /\ NothingMissed'
      BY <2>1, <3>1, StepOpen, StepMissesNothing
    <3> QED
      BY <3>2, <3>3, <3>4, <3>5, <3>6 DEF IInv, FeedTypeOK
  <2>2. CASE UNCHANGED vars
    <3>1. UNCHANGED <<now, publish, rows, listening, stream, charted>>
      BY <2>2 DEF vars, feedVars
    <3> QED
      BY <3>1 DEF IInv, FeedTypeOK, RowsInv, OpenInv, ChartInv, NothingMissed
  <2> QED
    BY <2>1, <2>2
<1> QED
  BY <1>1, <1>2, PTL DEF Spec

\* A client whose chart was drawn from the whole history has every recorded event of its credit,
\* whatever is published, read or closed at the same time.
THEOREM ChartsAreComplete == Spec => []NothingMissed
<1>1. IInv => NothingMissed
  BY DEF IInv
<1> QED
  BY <1>1, FeedInvariant, PTL

-----------------------------------------------------------------------------
\* Whoever is registered has been greeted, so that the timer of its connection runs.
TimedInv == \A c \in listening : stream[c].at \in {"open", "ended"}

\* What a step does to the registration of a client that has left: it is taken back only once its
\* response was ended, and the next event of its credit takes it back then.
LeftoverGoes ==
  /\ \A c \in listening : stream[c].gone /\ c \notin listening' => stream[c].at = "ended"
  /\ \A c \in listening, e \in Event :
       Persists(e) /\ stream[c].at = "ended" /\ stream[c].credit = CreditOf[e] => c \notin listening'

LEMMA StepTimed ==
  ASSUME FeedTypeOK, RowsInv, TimedInv, PriceFeedNext
  PROVE  TimedInv'
<1> SUFFICES ASSUME NEW c \in listening' PROVE stream'[c].at \in {"open", "ended"}
  BY DEF TimedInv
<1>1. c \in Client /\ Moved(c)
  BY StepMoves
<1>2. CASE c \in listening
  BY <1>1, <1>2 DEF Moved, TimedInv
<1>3. CASE c \notin listening
  <2>1. Greets(c)
    BY <1>3, StreamSteps
    DEF Persists, Broadcast, StreamPriceEvents, OracleRead, Greets, ReadsChart, MaxDuration, Closes
  <2> QED
    BY <1>1, <2>1 DEF Greets, FeedTypeOK
<1> QED
  BY <1>2, <1>3

LEMMA StepLeftover ==
  ASSUME FeedTypeOK, PriceFeedNext
  PROVE  LeftoverGoes
<1>1. ASSUME NEW c \in listening, stream[c].gone, c \notin listening'
      PROVE  stream[c].at = "ended"
  BY <1>1, StreamSteps
  DEF Persists, Broadcast, StreamPriceEvents, OracleRead, Greets, ReadsChart, MaxDuration, Closes
<1>2. ASSUME NEW c \in listening, NEW e \in Event, Persists(e), stream[c].at = "ended",
             stream[c].credit = CreditOf[e]
      PROVE  c \notin listening'
  BY <1>2 DEF Persists, Broadcast
<1> QED
  BY <1>1, <1>2 DEF LeftoverGoes

\* A client that left while its greeting was awaited is in no other way lost than it should be: it
\* is registered with its timer running, stays so until the timer has ended its response, and is
\* then removed by the next event of its credit (streamPriceEvents,
\* src/src/controllers/price-events.controller.ts).  What LeftoversEnd adds is that timers fire.
THEOREM LeftoversAreTimed == Spec => []TimedInv /\ [][LeftoverGoes]_vars
<1>1. Init => TimedInv
  BY DEF Init, PriceFeedInit, TimedInv
<1>2. IInv /\ TimedInv /\ [Next]_vars => TimedInv'
  BY StepTimed DEF Next, IInv, vars, feedVars, TimedInv
<1>3. IInv /\ [Next]_vars => [LeftoverGoes]_vars
  BY StepLeftover DEF Next, IInv
<1> QED
  BY <1>1, <1>2, <1>3, FeedInvariant, PTL DEF Spec
=============================================================================
