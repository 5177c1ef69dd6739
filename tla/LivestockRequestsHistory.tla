---------------------- MODULE LivestockRequestsHistory ----------------------
(***************************************************************************)
(* LivestockRequests under the fairness of one process, and its            *)
(* properties.                                                             *)
(***************************************************************************)
EXTENDS LivestockRequests

vars == requestVars
Spec == RequestsInit /\ [][RequestsNext]_vars

\* Timers fire and promises settle while the process lives; what users, the chain and the
\* indexer do comes or does not come.
FairSpec ==
  /\ Spec /\ WF_vars(Tick)
  /\ \A r \in Register :
       WF_vars(MintBuilds(r) \/ MintSends(r) \/ MintPolls(r) \/ MintFails(r)
                 \/ MintVerifies(r) \/ MintVerifyFails(r) \/ MintRejects(r))

-----------------------------------------------------------------------------
\* The type invariant.
RequestsTypeOK ==
  /\ livestock \in [Tag -> Row \cup {None}]
  /\ \A r \in Register :
       /\ reg[r] # None => reg[r].tag \in Tag /\ reg[r].step \in {"appraise", "failed", "done"}
       /\ mint[r].tries \in 0 .. MaxAttempts /\ mint[r].left \in 0 .. TX_TIMEOUT
       /\ mint[r].seq \in 0 .. sequence + 1
       /\ tx[r].fate \in {"none", "pending", "success", "failed"}
  /\ sequence \in 0 .. MaxSequence + Cardinality(Register)
  /\ \A i, j \in DOMAIN loans : i # j => loans[i].tag # loans[j].tag

\* Two registrations of one animalId can both pass the duplicate check and appraise; only one
\* of them has its collateral minted, since registerLivestock inserts before it mints.
OneMintPerAnimal ==
  \A q, r \in Register : q # r /\ mint[q].step # "none" /\ mint[r].step # "none"
    => reg[q].tag # reg[r].tag

\* An animal REJECTED because the chain did not confirm its mint in time is not minted later:
\* the time bound of the transaction has passed.  Mints whose answer was lost ("unseen") and
\* rows an admin edited are excluded.
RejectedIsNotMinted ==
  \A r \in Register :
    /\ mint[r].step = "done" /\ ~livestock[reg[r].tag].edited
    /\ livestock[reg[r].tag].status = "REJECTED"
    => tx[r].fate # "success"

\* The mint of an animal is started once, and a rejection is true of it for good.
MintsAreSound == OneMintPerAnimal /\ RejectedIsNotMinted

\* The parameters of create_loan go to the owner of an animal whose collateral the contract
\* holds, for no more than its appraised value, unless an admin edited the row.
ParametersAreBacked ==
  \A c \in Call : call[c] # None /\ call[c].kind = "params" =>
    LET row == livestock[call[c].tag]
    IN  /\ row.owner = call[c].owner /\ call[c].principal <= row.value
        /\ call[c].tag \in Minted \/ row.edited

\* The state getLoanById reads from the contract is never older than the row it comes with.
LiveStateIsNewer ==
  \A c \in Call : call[c] # None /\ call[c].kind = "view" /\ call[c].live # None
    => (call[c].row # "ACTIVE" => call[c].live = "Closed")

\* A farmer's kraal shows nothing as VERIFIED that was not minted, unless an admin edited it,
\* and the pages of the market hold each active loan once.
ListsAreBacked ==
  /\ \A f \in Farmer : \A t \in MyKraal(f, FALSE) :
       livestock[t].status = "VERIFIED" => t \in Minted \/ livestock[t].edited
  /\ \A limit \in Limits :
       /\ \A i \in OnMarket : \E page \in 1 .. TotalPages(limit) :
            \E k \in DOMAIN MarketPage(page, limit) : MarketPage(page, limit)[k] = loans[i]
       /\ \A p, q \in 1 .. TotalPages(limit) :
            \A j \in DOMAIN MarketPage(p, limit), k \in DOMAIN MarketPage(q, limit) :
              /\ MarketPage(p, limit)[j].status = "ACTIVE"
              /\ MarketPage(p, limit)[j] = MarketPage(q, limit)[k] => p = q /\ j = k

\* What users are told is backed by the chain, whatever happens between the reads of an answer.
AnswersAreBacked == ParametersAreBacked /\ LiveStateIsNewer /\ ListsAreBacked

\* A verification is only taken back by an admin: not by a mint that ends late, nor by an owner's
\* edit that read the row before it was verified.  The exception is a mint whose answer was lost,
\* which rejects even an animal that was verified by the liquidation of its loan.
VerificationStays ==
  [][\A t \in Tag : livestock[t] # None /\ livestock[t].status = "VERIFIED"
       => \/ livestock'[t].status = "VERIFIED" \/ livestock'[t].edited
          \/ \E r \in Register : reg[r] # None /\ reg[r].tag = t /\ mint[r].step = "lost"]_vars

\* A registration's mint comes to an end, whatever the network does: it is confirmed, rejected
\* or forgotten in a restart.
MintSettles ==
  \A r \in Register : mint[r].step = "account" ~> mint[r].step \in {"done", "unseen"}
=============================================================================
