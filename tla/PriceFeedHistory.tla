--------------------------- MODULE PriceFeedHistory ---------------------------
(* PriceFeed observed: the clients that read the whole history after their greeting. *)
EXTENDS PriceFeed

VARIABLE charted

vars == <<feedVars, charted>>

Observe ==
  charted' = charted \cup {c \in Client : /\ ReadsChart(c)
                                          /\ Cardinality(RowsOf(stream[c].credit)) <= Limit}

Init == PriceFeedInit /\ charted = {}
Next == PriceFeedNext /\ Observe
\* The timer of a connection fires; nothing else is assumed.
Spec == Init /\ [][Next]_vars /\ \A c \in Client : WF_vars(MaxDuration(c) /\ Observe)

-----------------------------------------------------------------------------
\* A chart made of the history, read after the greeting, and the live events misses no event:
\* whatever publications are under way then, each recorded event was written before the history
\* was read or broadcast after the client was registered.  (The history has the oldest rows up
\* to its limit; a client that read a longer one misses events.)
NothingMissed ==
  \A c \in charted, e \in ToSet(rows) :
    /\ stream[c].at = "open" /\ ~stream[c].gone
    /\ CreditOf[e] = stream[c].credit /\ publish[e].at = "done"
    => e \in stream[c].got

\* A client that left while its greeting was awaited gets registered, and no close will come for
\* it: its response is ended in the end all the same, so that the next event removes it.
LeftoversEnd ==
  \A c \in Client : stream[c].gone /\ c \in listening
                      ~> c \notin listening \/ stream[c].at = "ended"
=============================================================================
