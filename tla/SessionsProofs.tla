---------------------------- MODULE SessionsProofs ----------------------------
(***************************************************************************)
(* Proofs, for any number of challenges, logins, requests and secrets, of  *)
(* the properties of SessionsHistory.                                      *)
(***************************************************************************)
EXTENDS SessionsHistory, TLAPS

Challenge   == [nonce : Nonce, expired : BOOLEAN]
Environment == [secret : Nat, previous : Nat \cup {None}, left : Nat]
LoginRow    == [at : {"none", "find", "create", "in", "failed"}, nonce : Nonce \cup {None},
                secret : Nat, left : Nat]
RequestRow  == [at : {"none", "look", "lookMark", "unmark", "setMark", "run", "over"},
                writes : SUBSET {"store", "unmark"}]

SessionsTypeOK ==
  /\ issued \subseteq Nonce
  /\ pending = None \/ pending \in Challenge
  /\ user \in BOOLEAN
  /\ login \in [Login -> LoginRow]
  /\ env \in Environment
  /\ printed = None \/ printed \in Environment
  /\ stored \in Request \cup {None}
  /\ mark \in BOOLEAN
  /\ request \in [Request -> RequestRow]
  /\ repeats \subseteq Request

\* A challenge that a login went past is pending no more, and was handed out.
ChallengeInv ==
  /\ pending # None => pending.nonce \in issued
  /\ \A l \in Login :
       /\ login[l].nonce # None => login[l].nonce \in issued
       /\ login[l].at = "none" <=> login[l].nonce = None
       /\ pending # None /\ login[l].nonce = pending.nonce => login[l].at = "failed"

\* What rotate-jwt-secret printed carries the secret in use over, until it is deployed.
PrintedInv == printed # None => printed.previous = env.secret

\* There are repeats only while an answer is stored, and a request not sent has written nothing.
StoredInv ==
  /\ repeats # {} => stored # None
  /\ \A q \in Request : request[q].at = "none" => request[q].writes = {}

IInv ==
  /\ SessionsTypeOK
  /\ ChallengeInv /\ ChallengeUsedOnce
  /\ PrintedInv
  /\ StoredInv /\ RepeatsRunNothing

-----------------------------------------------------------------------------
\* The steps of a request through the idempotency middleware.
RequestStep(q) ==
  \/ \E l \in Login : RequestArrives(q, l)
  \/ LookUp(q) \/ LookUpFails(q) \/ LookUpMark(q) \/ RemoveMark(q) \/ StoreMark(q)
  \/ StoreMarkFails(q) \/ RequestAnswers(q)
  \/ \E w \in request[q].writes : WriteLands(q, w) \/ WriteFails(q, w)

Hop(from, to, q) == request[q].at = from /\ request' = [request EXCEPT ![q].at = to]

Answers(q) ==
  /\ request[q].at = "run"
  /\ request' = [request EXCEPT ![q] = [at |-> "over", writes |-> {"store", "unmark"}]]

Written(q) == \E w \in request[q].writes : request' = [request EXCEPT ![q].writes = @ \ {w}]

\* The middleware changes nothing that authentication reads, and removes no stored answer.
LEMMA RequestStepFrame ==
  ASSUME SessionsTypeOK, NEW q \in Request, RequestStep(q)
  PROVE  /\ UNCHANGED authVars
         /\ stored' \in Request \cup {None} /\ mark' \in BOOLEAN
         /\ stored # None => stored' # None
<1>1. UNCHANGED authVars
  BY DEF RequestStep, RequestArrives, LookUp, LookUpFails, LookUpMark, RemoveMark, StoreMark,
         StoreMarkFails, RequestAnswers, WriteLands, WriteFails, WriteOver, RequestGoes
<1>2. stored' \in {stored, q}
  BY DEF RequestStep, RequestArrives, LookUp, LookUpFails, LookUpMark, RemoveMark, StoreMark,
         StoreMarkFails, RequestAnswers, WriteLands, WriteFails
<1>3. mark' \in BOOLEAN
  BY DEF RequestStep, RequestArrives, LookUp, LookUpFails, LookUpMark, RemoveMark, StoreMark,
         StoreMarkFails, RequestAnswers, WriteLands, WriteFails, SessionsTypeOK
<1> QED
  BY <1>1, <1>2, <1>3, SessionsAssumption DEF SessionsTypeOK

\* The ways a request goes through the middleware, from one await to the next.
LEMMA RequestStepWays ==
  ASSUME NEW q \in Request, RequestStep(q)
  PROVE  \/ Hop("none", "look", q)
         \/ Hop("look", "over", q) \/ Hop("look", "lookMark", q)
         \/ Hop("lookMark", "unmark", q) \/ Hop("lookMark", "setMark", q)
         \/ Hop("unmark", "setMark", q)
         \/ Hop("setMark", "run", q) \/ Hop("setMark", "over", q)
         \/ Answers(q)
         \/ Written(q)
  BY DEF RequestStep, RequestArrives, LookUp, LookUpFails, LookUpMark, RemoveMark, StoreMark,
         StoreMarkFails, RequestAnswers, WriteLands, WriteFails, WriteOver, RequestGoes,
         Hop, Answers, Written

\* The rest of the steps, by what they leave alone.
AuthStep ==
  \/ \E n \in Nonce : GetChallenge(n)
  \/ ChallengeExpires
  \/ \E l \in Login : \/ \E n \in issued : LoginVerifies(l, n)
                      \/ LoginFinds(l) \/ LoginCreates(l)
  \/ Tick \/ RotateSecret

\* Logins and rotations leave the idempotent requests alone.
LEMMA AuthStepFrame ==
  ASSUME AuthStep
  PROVE  UNCHANGED <<stored, mark, request>>
  BY DEF AuthStep, GetChallenge, ChallengeExpires, LoginVerifies, LoginFinds, LoginCreates,
         Tick, RotateSecret

\* The kinds of steps.
LEMMA StepKinds ==
  ASSUME Next
  PROVE  AuthStep \/ Deploy \/ Crash \/ StoredExpires \/ \E q \in Request : RequestStep(q)
  BY DEF Next, SessionsNext, AuthStep, RequestStep

-----------------------------------------------------------------------------
\* What a login's steps do to it, and that they leave the others alone.
LEMMA VerifiesFacts ==
  ASSUME SessionsTypeOK, NEW l \in Login, NEW n \in issued, LoginVerifies(l, n)
  PROVE  /\ login' \in [Login -> LoginRow]
         /\ login'[l].nonce = n /\ login'[l].at = IF Verifies(n) THEN "find" ELSE "failed"
         /\ \A m \in Login \ {l} : login'[m] = login[m]
<1>1. login[l] \in LoginRow /\ n \in Nonce
  BY DEF SessionsTypeOK
<1>2. login'[l] = [login[l] EXCEPT !.nonce = n, !.at = IF Verifies(n) THEN "find" ELSE "failed"]
  BY DEF SessionsTypeOK, LoginVerifies
<1>3. /\ login'[l] \in LoginRow
      /\ login'[l].nonce = n /\ login'[l].at = IF Verifies(n) THEN "find" ELSE "failed"
  BY <1>1, <1>2 DEF LoginRow
<1>4. /\ login' = [login EXCEPT ![l] = login'[l]]
      /\ \A m \in Login \ {l} : login'[m] = login[m]
  BY <1>2 DEF SessionsTypeOK, LoginVerifies
<1> QED
  BY <1>3, <1>4 DEF SessionsTypeOK

\* A login that looks its user up ends, or goes on to create the user.
LEMMA FindsFacts ==
  ASSUME SessionsTypeOK, NEW l \in Login, LoginFinds(l) \/ LoginCreates(l)
  PROVE  /\ login[l].at \in {"find", "create"}
         /\ login' \in [Login -> LoginRow]
         /\ login'[l].nonce = login[l].nonce /\ login'[l].at \in {"in", "create", "failed"}
         /\ \A m \in Login \ {l} : login'[m] = login[m]
<1>1. login[l] \in LoginRow /\ env.secret \in Nat /\ EXPIRES_IN \in Nat
  BY SessionsAssumption DEF SessionsTypeOK, Environment
<1>2. login'[l] \in {Token(l), [login[l] EXCEPT !.at = "create"], [login[l] EXCEPT !.at = "failed"]}
  BY DEF SessionsTypeOK, LoginFinds, LoginCreates
<1>3. /\ login'[l] \in LoginRow
      /\ login'[l].nonce = login[l].nonce /\ login'[l].at \in {"in", "create", "failed"}
  BY <1>1, <1>2 DEF LoginRow, Token
<1>4. /\ login' = [login EXCEPT ![l] = login'[l]]
      /\ \A m \in Login \ {l} : login'[m] = login[m]
  BY DEF SessionsTypeOK, LoginFinds, LoginCreates
<1> QED
  BY <1>3, <1>4 DEF SessionsTypeOK, LoginFinds, LoginCreates

\* Time moves no login, and the secrets stay as they are.
LEMMA TickFacts ==
  ASSUME SessionsTypeOK, Tick
  PROVE  /\ login' \in [Login -> LoginRow]
         /\ \A l \in Login : login'[l].at = login[l].at /\ login'[l].nonce = login[l].nonce
         /\ env' \in Environment /\ env'.secret = env.secret
         /\ printed' = None \/ printed' \in Environment
         /\ printed = None => printed' = None
         /\ printed # None => printed'.previous = printed.previous
<1>1. ASSUME NEW l \in Login
      PROVE  /\ login'[l] \in LoginRow
             /\ login'[l].at = login[l].at /\ login'[l].nonce = login[l].nonce
  <2>1. login[l] \in LoginRow
    BY DEF SessionsTypeOK
  <2>2. login'[l] = [login[l] EXCEPT !.left = IF login[l].left > 0 THEN login[l].left - 1 ELSE 0]
    BY DEF Tick
  <2> QED
    BY <2>1, <2>2 DEF LoginRow
<1>2. login' \in [Login -> LoginRow]
  BY <1>1 DEF Tick
<1>3. env' \in Environment /\ env'.secret = env.secret
  BY DEF Tick, SessionsTypeOK, Environment
<1>4. /\ printed' = None \/ printed' \in Environment
      /\ printed # None => printed'.previous = printed.previous
  BY DEF Tick, SessionsTypeOK, Environment
<1> QED
  BY <1>1, <1>2, <1>3, <1>4 DEF Tick

\* A restart ends the calls under way.
LEMMA RestartFacts ==
  ASSUME SessionsTypeOK, NEW e, Restart(e)
  PROVE  /\ login' \in [Login -> LoginRow]
         /\ \A l \in Login :
              /\ login'[l].nonce = login[l].nonce
              /\ login'[l].at # login[l].at => login[l].at # "none" /\ login'[l].at = "failed"
              /\ login[l].at \in {"in", "failed"} => login'[l] = login[l]
         /\ request' \in [Request -> RequestRow]
         /\ \A q \in Request :
              /\ request'[q].writes = {}
              /\ request'[q].at = IF request[q].at = "none" THEN "none" ELSE "over"
<1>1. ASSUME NEW l \in Login
      PROVE  /\ login'[l] \in LoginRow /\ login'[l].nonce = login[l].nonce
             /\ login'[l].at # login[l].at => login[l].at # "none" /\ login'[l].at = "failed"
             /\ login[l].at \in {"in", "failed"} => login'[l] = login[l]
  <2>1. login[l] \in LoginRow
    BY DEF SessionsTypeOK
  <2>2. login'[l] = IF login[l].at \in {"find", "create"}
                    THEN [login[l] EXCEPT !.at = "failed"] ELSE login[l]
    BY DEF Restart
  <2> QED
    BY <2>1, <2>2 DEF LoginRow
<1>2. login' \in [Login -> LoginRow]
  BY <1>1 DEF Restart
<1>3. ASSUME NEW q \in Request
      PROVE  /\ request'[q] \in RequestRow
             /\ request'[q].writes = {}
             /\ request'[q].at = IF request[q].at = "none" THEN "none" ELSE "over"
  BY DEF Restart, NoRequest, RequestRow
<1>4. request' \in [Request -> RequestRow]
  BY <1>3 DEF Restart
<1> QED
  BY <1>1, <1>2, <1>3, <1>4

\* What a step of a request does to it.
LEMMA RequestFacts ==
  ASSUME SessionsTypeOK, NEW q \in Request, RequestStep(q)
  PROVE  /\ request' \in [Request -> RequestRow]
         /\ \A p \in Request \ {q} : request'[p] = request[p]
         /\ request'[q].at # "none" \/ request'[q].at = request[q].at
         /\ request'[q].writes \subseteq request[q].writes \/ Answers(q)
         /\ request[q].at = "none" => request'[q].at \in {"none", "look"}
         /\ request[q].at = "look" => request'[q].at \in {"look", "lookMark", "over"}
         /\ request[q].at = "over" => request'[q].at = "over"
<1>1. request[q] \in RequestRow
  BY DEF SessionsTypeOK
<1>2. ASSUME NEW from, NEW to \in {"look", "lookMark", "unmark", "setMark", "run", "over"},
             Hop(from, to, q)
      PROVE  /\ request'[q] \in RequestRow /\ request[q].at = from /\ request'[q].at = to
             /\ request'[q].writes = request[q].writes
             /\ request' = [request EXCEPT ![q] = request'[q]]
  <2>1. request'[q] = [request[q] EXCEPT !.at = to]
    BY <1>2 DEF Hop, SessionsTypeOK
  <2> QED
    BY <1>1, <1>2, <2>1 DEF Hop, SessionsTypeOK, RequestRow
<1>3. ASSUME Answers(q)
      PROVE  /\ request'[q] \in RequestRow /\ request[q].at = "run" /\ request'[q].at = "over"
             /\ request' = [request EXCEPT ![q] = request'[q]]
  BY <1>3 DEF Answers, SessionsTypeOK, RequestRow
<1>4. ASSUME Written(q)
      PROVE  /\ request'[q] \in RequestRow /\ request'[q].at = request[q].at
             /\ request'[q].writes \subseteq request[q].writes
             /\ request' = [request EXCEPT ![q] = request'[q]]
  <2>1. PICK w \in request[q].writes : request' = [request EXCEPT ![q].writes = @ \ {w}]
    BY <1>4 DEF Written
  <2>2. request'[q] = [request[q] EXCEPT !.writes = @ \ {w}]
    BY <2>1 DEF SessionsTypeOK
  <2> QED
    BY <1>1, <2>1, <2>2 DEF SessionsTypeOK, RequestRow
<1>5. /\ request'[q] \in RequestRow
      /\ request' = [request EXCEPT ![q] = request'[q]]
  BY RequestStepWays, <1>2, <1>3, <1>4
<1>6. /\ request' \in [Request -> RequestRow]
      /\ \A p \in Request \ {q} : request'[p] = request[p]
  BY <1>5 DEF SessionsTypeOK
<1>7. /\ request'[q].at # "none" \/ request'[q].at = request[q].at
      /\ request'[q].writes \subseteq request[q].writes \/ Answers(q)
      /\ request[q].at = "none" => request'[q].at \in {"none", "look"}
      /\ request[q].at = "look" => request'[q].at \in {"look", "lookMark", "over"}
      /\ request[q].at = "over" => request'[q].at = "over"
  BY RequestStepWays, <1>2, <1>3, <1>4
<1> QED
  BY <1>6, <1>7

-----------------------------------------------------------------------------
\* What the observer notes: requests only, none once the answer has expired.
LEMMA ObserveFacts ==
  ASSUME Observe
  PROVE  /\ repeats' \subseteq Request
         /\ StoredExpires => repeats' = {}
  BY DEF Observe

\* Every variable keeps its type.
LEMMA TypeStep ==
  ASSUME SessionsTypeOK, Next
  PROVE  SessionsTypeOK'
<1>1. repeats' \subseteq Request
  BY ObserveFacts DEF Next
<1>2. CASE AuthStep
  <2>1. UNCHANGED <<stored, mark, request>>
    BY <1>2, AuthStepFrame
  <2>2. ASSUME NEW n \in Nonce, GetChallenge(n) PROVE SessionsTypeOK'
    BY <1>1, <2>1, <2>2 DEF GetChallenge, SessionsTypeOK, Challenge
  <2>3. CASE ChallengeExpires
    BY <1>1, <2>1, <2>3 DEF ChallengeExpires, SessionsTypeOK, Challenge
  <2>4. ASSUME NEW l \in Login, NEW n \in issued, LoginVerifies(l, n) PROVE SessionsTypeOK'
    <3>1. pending' \in {None, pending}
      BY <2>4 DEF LoginVerifies, PendingAfter
    <3> QED
      BY <1>1, <2>1, <2>4, <3>1, VerifiesFacts DEF LoginVerifies, SessionsTypeOK
  <2>5. ASSUME NEW l \in Login, LoginFinds(l) \/ LoginCreates(l) PROVE SessionsTypeOK'
    <3>1. login' \in [Login -> LoginRow]
      BY <2>5, FindsFacts
    <3> QED
      BY <1>1, <2>1, <2>5, <3>1 DEF LoginFinds, LoginCreates, SessionsTypeOK
  <2>6. CASE Tick
    BY <1>1, <2>1, <2>6, TickFacts DEF Tick, SessionsTypeOK
  <2>7. CASE RotateSecret
    BY <1>1, <2>1, <2>7, SessionsAssumption DEF RotateSecret, SessionsTypeOK, Environment
  <2> QED
    BY <1>2, <2>2, <2>3, <2>4, <2>5, <2>6, <2>7 DEF AuthStep
<1>3. CASE Deploy
  <2>1. Restart(printed) /\ printed' = None /\ printed \in Environment
    BY <1>3 DEF Deploy, SessionsTypeOK
  <2>2. login' \in [Login -> LoginRow] /\ request' \in [Request -> RequestRow]
    BY <2>1, RestartFacts
  <2> QED
    BY <1>1, <2>1, <2>2 DEF Restart, SessionsTypeOK
<1>4. CASE Crash
  <2>1. Restart(env) /\ printed' = printed
    BY <1>4 DEF Crash
  <2>2. login' \in [Login -> LoginRow] /\ request' \in [Request -> RequestRow]
    BY <2>1, RestartFacts
  <2> QED
    BY <1>1, <2>1, <2>2 DEF Restart, SessionsTypeOK
<1>5. CASE StoredExpires
  BY <1>1, <1>5 DEF StoredExpires, authVars, SessionsTypeOK
<1>6. ASSUME NEW q \in Request, RequestStep(q) PROVE SessionsTypeOK'
  <2>1. request' \in [Request -> RequestRow]
    BY <1>6, RequestFacts
  <2> QED
    BY <1>1, <1>6, <2>1, RequestStepFrame DEF authVars, SessionsTypeOK
<1> QED
  BY StepKinds, <1>2, <1>3, <1>4, <1>5, <1>6

\* A login that a step takes past its challenge took it away; no other step does either.
LEMMA ChallengeStep ==
  ASSUME SessionsTypeOK, ChallengeInv, ChallengeUsedOnce, Next
  PROVE  ChallengeInv' /\ ChallengeUsedOnce'
<1>1. CASE AuthStep
  <2>1. ASSUME NEW n \in Nonce, GetChallenge(n) PROVE ChallengeInv' /\ ChallengeUsedOnce'
    BY <2>1, SessionsAssumption DEF GetChallenge, ChallengeInv, ChallengeUsedOnce
  <2>2. CASE ChallengeExpires
    <3>1. pending # None /\ pending'.nonce = pending.nonce
      BY <2>2 DEF ChallengeExpires, SessionsTypeOK, Challenge
    <3> QED
      BY <2>2, <3>1 DEF ChallengeExpires, ChallengeInv, ChallengeUsedOnce
  <2>3. ASSUME NEW l \in Login, NEW n \in issued, LoginVerifies(l, n)
        PROVE  ChallengeInv' /\ ChallengeUsedOnce'
    <3>1. /\ login'[l].nonce = n /\ login'[l].at = IF Verifies(n) THEN "find" ELSE "failed"
          /\ \A m \in Login \ {l} : login'[m] = login[m]
      BY <2>3, VerifiesFacts
    <3>2. /\ n # None /\ issued' = issued
          /\ pending' = None \/ (pending' = pending /\ ~Verifies(n))
          /\ Verifies(n) => pending # None /\ pending.nonce = n
      BY <2>3, SessionsAssumption DEF LoginVerifies, PendingAfter, Verifies, SessionsTypeOK
    <3>3. ChallengeInv'
      BY <3>1, <3>2 DEF ChallengeInv
    <3>4. ChallengeUsedOnce'
      BY <3>1, <3>2 DEF ChallengeInv, ChallengeUsedOnce
    <3> QED
      BY <3>3, <3>4
  <2>4. ASSUME NEW l \in Login, LoginFinds(l) \/ LoginCreates(l)
        PROVE  ChallengeInv' /\ ChallengeUsedOnce'
    <3>1. UNCHANGED <<issued, pending>>
      BY <2>4 DEF LoginFinds, LoginCreates
    <3>2. /\ login[l].at \in {"find", "create"}
          /\ login'[l].nonce = login[l].nonce /\ login'[l].at \in {"in", "create", "failed"}
          /\ \A m \in Login \ {l} : login'[m] = login[m]
      BY <2>4, FindsFacts
    <3>3. ChallengeInv'
      BY <3>1, <3>2 DEF ChallengeInv
    <3>4. ChallengeUsedOnce'
      BY <3>2 DEF ChallengeUsedOnce
    <3> QED
      BY <3>3, <3>4
  <2>5. CASE Tick
    <3>1. /\ UNCHANGED <<issued, pending>>
          /\ \A l \in Login : login'[l].at = login[l].at /\ login'[l].nonce = login[l].nonce
      BY <2>5, TickFacts DEF Tick
    <3> QED
      BY <3>1 DEF ChallengeInv, ChallengeUsedOnce
  <2>6. CASE RotateSecret
    BY <2>6 DEF RotateSecret, ChallengeInv, ChallengeUsedOnce
  <2> QED
    BY <1>1, <2>1, <2>2, <2>3, <2>4, <2>5, <2>6 DEF AuthStep
<1>2. ASSUME NEW e, Restart(e) PROVE ChallengeInv' /\ ChallengeUsedOnce'
  <2>1. /\ issued' = issued /\ pending' = None
        /\ \A l \in Login :
             /\ login'[l].nonce = login[l].nonce
             /\ login'[l].at # login[l].at => login[l].at # "none" /\ login'[l].at = "failed"
    BY <1>2, RestartFacts DEF Restart
  <2>2. ChallengeInv'
    BY <2>1 DEF ChallengeInv
  <2>3. ChallengeUsedOnce'
    BY <2>1 DEF ChallengeUsedOnce
  <2> QED
    BY <2>2, <2>3
<1>3. ASSUME UNCHANGED authVars PROVE ChallengeInv' /\ ChallengeUsedOnce'
  BY <1>3 DEF authVars, ChallengeInv, ChallengeUsedOnce
<1> QED
  BY StepKinds, RequestStepFrame, <1>1, <1>2, <1>3 DEF Deploy, Crash, StoredExpires

\* What is printed goes on carrying over the secret in use.
LEMMA PrintedStep ==
  ASSUME SessionsTypeOK, PrintedInv, Next
  PROVE  PrintedInv'
<1>1. CASE AuthStep
  <2>1. CASE Tick
    BY <2>1, TickFacts DEF PrintedInv
  <2>2. CASE RotateSecret
    BY <2>2 DEF RotateSecret, PrintedInv
  <2>3. CASE ~Tick /\ ~RotateSecret
    <3>1. UNCHANGED <<env, printed>>
      BY <1>1, <2>3 DEF AuthStep, GetChallenge, ChallengeExpires, LoginVerifies, LoginFinds,
                        LoginCreates
    <3> QED
      BY <3>1 DEF PrintedInv
  <2> QED
    BY <2>1, <2>2, <2>3
<1>2. CASE Deploy
  BY <1>2 DEF Deploy, PrintedInv
<1>3. CASE Crash
  BY <1>3 DEF Crash, Restart, PrintedInv
<1>4. ASSUME UNCHANGED authVars PROVE PrintedInv'
  BY <1>4 DEF authVars, PrintedInv
<1> QED
  BY StepKinds, RequestStepFrame, <1>1, <1>2, <1>3, <1>4 DEF StoredExpires

\* A repeat looks for the stored answer and finds it; it comes to nothing else.
LEMMA RepeatsStep ==
  ASSUME SessionsTypeOK, StoredInv, RepeatsRunNothing, Next
  PROVE  StoredInv' /\ RepeatsRunNothing'
<1>1. Observe
  BY DEF Next
<1>2. CASE UNCHANGED <<stored, request>>
  BY <1>1, <1>2 DEF Observe, StoredInv, RepeatsRunNothing
<1>3. ASSUME NEW e, Restart(e) PROVE StoredInv' /\ RepeatsRunNothing'
  <2>1. /\ stored' = stored
        /\ \A q \in Request :
             /\ request'[q].writes = {}
             /\ request'[q].at = IF request[q].at = "none" THEN "none" ELSE "over"
    BY <1>3, RestartFacts DEF Restart
  <2>2. repeats' \subseteq repeats
    BY <1>1, <2>1 DEF Observe
  <2> QED
    BY <2>1, <2>2 DEF StoredInv, RepeatsRunNothing, SessionsTypeOK
<1>4. CASE StoredExpires
  BY <1>1, <1>4 DEF Observe, StoredExpires, StoredInv, RepeatsRunNothing
<1>5. ASSUME NEW q \in Request, RequestStep(q), ~StoredExpires
      PROVE  StoredInv' /\ RepeatsRunNothing'
  <2>1. /\ stored # None => stored' # None
        /\ \A p \in Request \ {q} : request'[p] = request[p]
        /\ request'[q].at # "none" \/ request'[q].at = request[q].at
        /\ request'[q].writes \subseteq request[q].writes \/ request[q].at = "run"
        /\ request[q].at = "look" => request'[q].at \in {"look", "lookMark", "over"}
        /\ request[q].at = "over" => request'[q].at = "over"
    BY <1>5, RequestStepFrame, RequestFacts DEF Answers
  <2>2. \A p \in repeats' : /\ p \in Request /\ ~ReadFailed(p) /\ stored # None
                            /\ \/ p \in repeats
                               \/ request[p].at = "none" /\ request'[p].at = "look"
    BY <1>1, <1>5 DEF Observe, StoredInv
  <2>3. StoredInv'
    BY <2>1, <2>2, RequestStepWays, <1>5, RequestFacts DEF StoredInv, Answers
  <2>4. ASSUME NEW p \in repeats'
        PROVE  request'[p].at \in {"look", "over"} /\ request'[p].writes = {}
    <3>1. p \in Request /\ ~ReadFailed(p) /\ stored # None
      BY <2>2
    <3>2. CASE p \in repeats
      BY <2>1, <3>1, <3>2 DEF RepeatsRunNothing, ReadFailed
    <3>3. CASE request[p].at = "none" /\ request'[p].at = "look"
      BY <2>1, <3>1, <3>3 DEF StoredInv
    <3> QED
      BY <2>2, <3>2, <3>3
  <2> QED
    BY <2>3, <2>4 DEF RepeatsRunNothing
<1> QED
  BY StepKinds, AuthStepFrame, <1>2, <1>3, <1>4, <1>5 DEF Deploy, Crash

-----------------------------------------------------------------------------
\* The inductive invariant holds before any challenge is issued.
LEMMA InitIInv == Init => IInv
<1> SUFFICES ASSUME Init PROVE IInv
  OBVIOUS
<1>1. \A l \in Login : login[l] = NoLogin
  BY DEF Init, SessionsInit
<1>2. \A q \in Request : request[q] = NoRequest
  BY DEF Init, SessionsInit
<1>3. NoLogin \in LoginRow /\ NoLogin.at = "none" /\ NoLogin.nonce = None
  BY DEF NoLogin, LoginRow
<1>4. NoRequest \in RequestRow /\ NoRequest.writes = {}
  BY DEF NoRequest, RequestRow
<1>5. SessionsTypeOK
  BY <1>3, <1>4 DEF Init, SessionsInit, SessionsTypeOK, Environment
<1>6. ChallengeInv /\ ChallengeUsedOnce
  BY <1>1, <1>3 DEF Init, SessionsInit, ChallengeInv, ChallengeUsedOnce
<1>7. PrintedInv /\ StoredInv /\ RepeatsRunNothing
  BY <1>2, <1>4 DEF Init, SessionsInit, PrintedInv, StoredInv, RepeatsRunNothing
<1> QED
  BY <1>5, <1>6, <1>7 DEF IInv

\* Every step keeps the inductive invariant.
LEMMA StepIInv == IInv /\ [Next]_vars => IInv'
<1> SUFFICES ASSUME IInv, [Next]_vars PROVE IInv'
  OBVIOUS
<1>1. CASE Next
  BY <1>1, TypeStep, ChallengeStep, PrintedStep, RepeatsStep DEF IInv
<1>2. CASE UNCHANGED vars
  BY <1>2 DEF vars, sessionVars, IInv, SessionsTypeOK, ChallengeInv, ChallengeUsedOnce, PrintedInv,
              StoredInv, RepeatsRunNothing
<1> QED
  BY <1>1, <1>2

\* The parts of IInv are what the properties need of every reachable state.
LEMMA SessionsInvariant == Spec => []IInv
  BY InitIInv, StepIInv, PTL DEF Spec

\* Of the logins that show the same signed challenge one at most goes past it, however they are
\* interleaved with other challenges and restarts (verifyChallenge, src/src/services/auth.service.ts).
THEOREM OneLoginPerChallenge == Spec => []ChallengeUsedOnce
<1>1. IInv => ChallengeUsedOnce
  BY DEF IInv
<1> QED
  BY <1>1, SessionsInvariant, PTL

\* A request that repeats an answered one is answered from the store and leaves nothing under way
\* (the idempotency middleware of POST /retirements/bulk).
THEOREM RepeatsAreAnswered == Spec => []RepeatsRunNothing
<1>1. IInv => RepeatsRunNothing
  BY DEF IInv
<1> QED
  BY <1>1, SessionsInvariant, PTL

\* Deploying what rotate-jwt-secret printed, while its overlap lasts, keeps the tokens that are
\* under the secret in use (verifyJwt with JWT_SECRET_PREVIOUS).
THEOREM RotationKeepsSessions == Spec => SessionsSurviveRotation
<1>1. IInv /\ [Next]_vars
        => [\A l \in Login :
              /\ Deploy /\ printed.left > 0
              /\ AcceptedUnder(login[l], env) /\ login[l].secret = env.secret
              => AcceptedUnder(login'[l], env')]_vars
  <2> SUFFICES ASSUME IInv, NEW l \in Login, Deploy, printed.left > 0,
                      AcceptedUnder(login[l], env), login[l].secret = env.secret
               PROVE  AcceptedUnder(login'[l], env')
    OBVIOUS
  <2>1. env' = printed /\ printed.previous = env.secret
    BY DEF Deploy, Restart, IInv, PrintedInv
  <2>2. login[l].at = "in" /\ login[l].left > 0
    BY DEF AcceptedUnder
  <2>3. login'[l] = login[l]
    BY <2>2, RestartFacts DEF IInv, Deploy
  <2> QED
    BY <2>1, <2>2, <2>3 DEF AcceptedUnder
<1> QED
  BY <1>1, SessionsInvariant, PTL DEF Spec, SessionsSurviveRotation
=============================================================================
