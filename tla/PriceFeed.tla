------------------------------ MODULE PriceFeed ------------------------------
(***************************************************************************)
(* The live prices of a credit: publishPriceEvent, the table of events and *)
(* the streams of the browsers (src/src/services/price-events.service.ts   *)
(* and src/src/controllers/price-events.controller.ts).                    *)
(*                                                                         *)
(* Code is atomic up to its next await.  A stream that the client has left *)
(* still takes writes: writableEnded is only true after end().  Payloads,  *)
(* keep-alive comments and the table for screen readers are left out; an   *)
(* event is its credit, its type and the time it is published at.          *)
(***************************************************************************)
EXTENDS Naturals, Sequences, FiniteSets, SequencesExt

CONSTANTS
  Event,      \* events to be published
  CreditOf,   \* the credit of an event
  Updates,    \* the events of type oracle_update
  Client,     \* connections of browsers
  Credit,     \* credit ids
  None,       \* an absent event
  Limit,      \* the limit of a history request
  MaxTime     \* bound on the clock

ASSUME PriceFeedAssumption ==
  /\ CreditOf \in [Event -> Credit] /\ Updates \subseteq Event /\ None \notin Event \cup Credit
  /\ Limit \in Nat \ {0} /\ MaxTime \in Nat

VARIABLES
  now,         \* the clock
  publish,     \* the publications: their progress and their timestamp
  rows,        \* the PriceEvent table, as it was filled
  listening,   \* the clients with a handler on the bus, which sseClients lists
  stream       \* the connections: their progress, and whether the client has left;
               \* the oracle price it was greeted with, and the events it was given

feedVars == <<now, publish, rows, listening, stream>>
NoStream == [at |-> "none", gone |-> FALSE, credit |-> None, oracle |-> None, got |-> {}]

PriceFeedInit ==
  /\ now = 0 /\ publish = [e \in Event |-> [at |-> "none", time |-> 0]] /\ rows = <<>>
  /\ listening = {} /\ stream = [c \in Client |-> NoStream]

-----------------------------------------------------------------------------
RowsOf(k) == {e \in ToSet(rows) : CreditOf[e] = k}

\* getPriceHistory: the oldest rows of a credit, those of one time as they were written.
Before(e, f) == \/ publish[e].time < publish[f].time
                \/ /\ publish[e].time = publish[f].time
                   /\ \E i, j \in DOMAIN rows : i < j /\ rows[i] = e /\ rows[j] = f

PriceHistory(k) == {e \in RowsOf(k) : Cardinality({f \in RowsOf(k) : Before(f, e)}) < Limit}

\* getLatestOraclePrice: an update with the latest time.
LatestOraclePrice(k) ==
  LET updates == RowsOf(k) \cap Updates
      latest  == {e \in updates : \A f \in updates : publish[f].time <= publish[e].time}
  IN  IF updates = {} THEN {None} ELSE latest

\* getOraclePrice: the latest price, and whether it is older than an hour.
OracleAnswer(k, hour) ==
  {[price |-> e, stale |-> e # None /\ now - publish[e].time > hour] : e \in LatestOraclePrice(k)}

-----------------------------------------------------------------------------
Tick == now < MaxTime /\ now' = now + 1 /\ UNCHANGED <<publish, rows, listening, stream>>

\* publishPriceEvent takes the time and writes the row.
Publish(e) ==
  /\ publish[e].at = "none"
  /\ publish' = [publish EXCEPT ![e] = [at |-> "persist", time |-> now]]
  /\ UNCHANGED <<now, rows, listening, stream>>

\* The handlers on the credit's channel run at once: each writes, and one that cannot is removed.
Broadcast(e) ==
  LET to == {c \in listening : stream[c].credit = CreditOf[e]}
  IN  /\ listening' = listening \ {c \in to : stream[c].at = "ended"}
      /\ stream' = [c \in Client |-> IF c \in to /\ stream[c].at = "open" /\ ~stream[c].gone
                                     THEN [stream[c] EXCEPT !.got = @ \cup {e}] ELSE stream[c]]

\* The row is written, or the write failed and the event gets a temporary id.
Persists(e) ==
  /\ publish[e].at = "persist" /\ publish' = [publish EXCEPT ![e].at = "done"]
  /\ rows' \in {Append(rows, e), rows}
  /\ Broadcast(e) /\ UNCHANGED now

-----------------------------------------------------------------------------
\* streamPriceEvents up to its await.
StreamPriceEvents(c, k) ==
  /\ stream[c].at = "none"
  /\ stream' = [stream EXCEPT ![c].at = "oracle", ![c].credit = k]
  /\ UNCHANGED <<now, publish, rows, listening>>

\* The price of the greeting is read, or the read fails and there is none.
OracleRead(c) ==
  /\ stream[c].at = "oracle"
  /\ \E e \in LatestOraclePrice(stream[c].credit) \cup {None} :
       stream' = [stream EXCEPT ![c].at = "greet", ![c].oracle = e]
  /\ UNCHANGED <<now, publish, rows, listening>>

\* Mutant of Greets: the client is greeted before it is registered.
GreetsFirst(c) ==
  /\ \/ stream[c].at = "greet" /\ listening' = listening
     \/ stream[c].at = "open" /\ listening' = listening \cup {c}
  /\ stream' = [stream EXCEPT ![c].at = "open"]
  /\ UNCHANGED <<now, publish, rows>>

\* The rest of streamPriceEvents: the greeting, the registration and the timers, for a client
\* that may have left during the await.
Greets(c) ==
  /\ stream[c].at = "greet"
  /\ stream' = [stream EXCEPT ![c].at = "open"] /\ listening' = listening \cup {c}
  /\ UNCHANGED <<now, publish, rows>>

\* getPriceChartData for a client that was greeted: it has the events of both from now on.
ReadsChart(c) ==
  /\ stream[c].at = "open" /\ ~stream[c].gone
  /\ stream' = [stream EXCEPT ![c].got = @ \cup PriceHistory(stream[c].credit)]
  /\ UNCHANGED <<now, publish, rows, listening>>

\* Mutant of MaxDuration: the timer goes when the client does.
MaxDurationHere(c) ==
  /\ stream[c].at = "open" /\ c \in listening /\ ~stream[c].gone
  /\ stream' = [stream EXCEPT ![c].at = "ended"]
  /\ UNCHANGED <<now, publish, rows, listening>>

\* The timer of a registered client: the response is ended.
MaxDuration(c) ==
  /\ stream[c].at = "open" /\ c \in listening
  /\ stream' = [stream EXCEPT ![c].at = "ended"]
  /\ UNCHANGED <<now, publish, rows, listening>>

\* The request closes, after end() or because the client left: cleanup, if it listens already.
Closes(c) ==
  /\ stream[c].at # "none" /\ ~stream[c].gone /\ stream' = [stream EXCEPT ![c].gone = TRUE]
  /\ listening' = IF stream[c].at \in {"open", "ended"} THEN listening \ {c} ELSE listening
  /\ UNCHANGED <<now, publish, rows>>

PriceFeedNext ==
  \/ Tick
  \/ \E e \in Event : Publish(e) \/ Persists(e)
  \/ \E c \in Client :
       \/ \E k \in Credit : StreamPriceEvents(c, k)
       \/ OracleRead(c) \/ Greets(c) \/ ReadsChart(c) \/ MaxDuration(c) \/ Closes(c)
=============================================================================
