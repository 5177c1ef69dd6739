------------------------- MODULE LoanIndexerHistory -------------------------
(***************************************************************************)
(* LoanIndexer observed: the loans an event of which was given up since    *)
(* the last restart, because the database failed or a row it needs was not *)
(* there; and the properties of the mirror.                                *)
(***************************************************************************)
EXTENDS LoanIndexer

VARIABLE missed

vars == <<indexerVars, missed>>

\* The poll leaves its first event behind, not a replay, with the loan's row as it was.
GivesUp(p) ==
  /\ Len(poll'[p].batch) < Len(poll[p].batch)
  /\ LET e == Head(poll[p].batch) IN
     IF poll[p].at = "read" THEN ~IsReplay(e) ELSE db'[e.loan] = db[e.loan]

Observe ==
  missed' = IF restarts' # restarts THEN {}
            ELSE missed \cup {Head(poll[p].batch).loan : p \in {q \in Poll : GivesUp(q)}}

Init == IndexerInit /\ missed = {}
Next == IndexerNext /\ Observe
Spec == Init /\ [][Next]_vars

\* setInterval keeps polling and promises settle while the process lives; ledgers, loans,
\* registrations, retirements and restarts come or do not come.
FairSpec ==
  /\ Spec
  /\ \A p \in Poll :
       /\ WF_vars(PollEvents(p) /\ Observe)
       /\ WF_vars(HandlerReads(p) /\ Observe)
       /\ WF_vars(HandlerFrees(p) /\ Observe)
       /\ WF_vars(HandlerWrites(p) /\ Observe)

-----------------------------------------------------------------------------
\* The type invariant; the cursor never passes the ledger the network is still filling.
IndexerTypeOK ==
  /\ ledger \in START_LEDGER .. MaxLedger
  /\ chain \in [Loan -> {"None", "Active", "Repaid", "Liquidated"}]
  /\ \A i \in DOMAIN events :
       events[i] \in [kind : {"LoanCreated", "LoanRepaid", "AssetLiquidated"},
                      loan : Loan, ledger : START_LEDGER .. ledger]
  /\ db \in [Loan -> [status : Terminal \cup {"ACTIVE"}, last : START_LEDGER .. ledger]
                      \cup {None}]
  /\ freed \subseteq Loan /\ registered \subseteq Loan /\ missed \subseteq Loan
  /\ cursor \in START_LEDGER .. ledger
  /\ \A p \in Poll : poll[p].at \in {"read", "free", "write"}
                     /\ Range(poll[p].batch) \subseteq Range(events)
  /\ \A r \in Request : Range(retire[r].todo) \subseteq Loan
                        /\ \A c \in Range(retire[r].done) : c \subseteq Loan
  /\ restarts \in 0 .. MaxRestarts

\* A row never claims what the contract has not done: no REPAID or LIQUIDATED row, written by
\* the poller or by a retirement that ended half way, of a loan not closed that way.
MirrorNeverAhead ==
  \A l \in Loan : db[l] # None =>
    /\ chain[l] # "None"
    /\ db[l].status = "REPAID"     => chain[l] = "Repaid"
    /\ db[l].status = "LIQUIDATED" => chain[l] = "Liquidated"

\* "Prevents replayed events from rolling back terminal states (e.g. LIQUIDATED -> ACTIVE)"
\* (handleLoanCreated): a closed row never changes its status again, through restarts that
\* replay every event and retirements recorded meanwhile.
TerminalStays ==
  [][\A l \in Loan : db[l] # None /\ db[l].status \in Terminal
       => db'[l].status = db[l].status]_vars

\* The ledgers of a loan's events, and whether one of them holds two of the loan's events.
Ledgers(l) == {events[i].ledger : i \in {j \in DOMAIN events : events[j].loan = l}}
ClosedAtOnce(l) ==
  \E i, j \in DOMAIN events : /\ i # j /\ events[i].ledger = events[j].ledger
                              /\ events[i].loan = l /\ events[j].loan = l

\* Between polls the mirror is right about every loan whose events the cursor has passed,
\* unless one of them was given up or the loan was closed in the ledger it was created in.
MirrorAgrees ==
  (\A p \in Poll : poll[p].batch = <<>>) =>
    \A l \in Loan \ missed :
      /\ chain[l] \in {"Repaid", "Liquidated"} /\ ~ClosedAtOnce(l)
      /\ \A k \in Ledgers(l) : k < cursor
      => /\ db[l] # None
         /\ db[l].status = IF chain[l] = "Repaid" THEN "REPAID" ELSE "LIQUIDATED"

\* The poller gets past every ledger that holds an event, whatever fails on the way: a failing
\* handler gives up its event and never holds up the ones behind it.
EventsAreReached ==
  \A k \in START_LEDGER .. MaxLedger :
    (k < ledger /\ \E i \in DOMAIN events : events[i].ledger = k) ~> cursor > k
=============================================================================
