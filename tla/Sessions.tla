------------------------------ MODULE Sessions ------------------------------
(***************************************************************************)
(* Who may call the backend, and how often a call runs: the challenge and  *)
(* the login (src/src/services/auth.service.ts and its controller), tokens *)
(* through a rotation of the JWT secret (scripts/rotate-jwt-secret.ts),    *)
(* requireAuth, and the idempotency keys of POST /retirements/bulk         *)
(* (middleware/idempotency.ts and services/idempotency.service.ts).        *)
(*                                                                         *)
(* Code is atomic up to its next await.  One public key logs in and one    *)
(* idempotency key is used, whose row and processing mark are stored and   *)
(* answered.  Signatures hold, nonces differ, and time passes in ticks.    *)
(***************************************************************************)
EXTENDS Naturals, FiniteSets

CONSTANTS
  Nonce,         \* challenges that can be asked for
  Login,         \* POST /auth/login requests
  Request,       \* POST /retirements/bulk requests
  None,          \* an absent record
  Secrets,       \* JWT secrets, used in order: 1 .. Secrets
  EXPIRES_IN,    \* JWT_EXPIRES_IN in ticks
  OVERLAP        \* JWT_ROTATION_OVERLAP_MS in ticks

ASSUME SessionsAssumption ==
  /\ Secrets \in Nat \ {0} /\ EXPIRES_IN \in Nat \ {0} /\ OVERLAP \in Nat
  /\ None \notin Nonce \cup Request

VARIABLES
  issued,    \* nonces handed out
  pending,   \* pendingChallenges of the key: a nonce, and whether it has expired
  user,      \* whether the User row exists
  login,     \* the logins: their nonce, their progress and their token
  env,       \* the deployed JWT_SECRET and JWT_SECRET_PREVIOUS, and the overlap left
  printed,   \* what rotate-jwt-secret printed and nobody deployed yet
  stored,    \* the answer stored for the idempotency key: the request that gave it
  mark,      \* whether the processing mark is there
  request    \* the requests: their progress, and the writes they left under way

sessionVars == <<issued, pending, user, login, env, printed, stored, mark, request>>
authVars    == <<issued, pending, user, login, env, printed>>
NoLogin     == [at |-> "none", nonce |-> None, secret |-> 0, left |-> 0]
NoRequest   == [at |-> "none", writes |-> {}]

SessionsInit ==
  /\ issued = {} /\ pending = None /\ user = FALSE
  /\ login = [l \in Login |-> NoLogin]
  /\ env = [secret |-> 1, previous |-> None, left |-> 0] /\ printed = None
  /\ stored = None /\ mark = FALSE /\ request = [q \in Request |-> NoRequest]

-----------------------------------------------------------------------------
\* getChallenge: a new challenge takes the place of the pending one.
GetChallenge(n) ==
  /\ n \notin issued /\ issued' = issued \cup {n}
  /\ pending' = [nonce |-> n, expired |-> FALSE]
  /\ UNCHANGED <<user, login, env, printed, stored, mark, request>>

ChallengeExpires ==
  /\ pending # None /\ pending' = [pending EXCEPT !.expired = TRUE]
  /\ UNCHANGED <<issued, user, login, env, printed, stored, mark, request>>

\* What a signed challenge must be, and what is left pending after it was shown.
Verifies(n) == pending # None /\ ~pending.expired /\ pending.nonce = n

\* Mutant of PendingAfter: the nonce is not consumed.
PendingAfterKept(n) == IF pending # None /\ pending.expired THEN None ELSE pending

PendingAfter(n) ==
  IF Verifies(n) \/ (pending # None /\ pending.expired) THEN None ELSE pending

\* login up to its first await: verifyChallenge checks and consumes at once.
LoginVerifies(l, n) ==
  /\ login[l].at = "none" /\ n \in issued
  /\ login' = [login EXCEPT ![l].nonce = n, ![l].at = IF Verifies(n) THEN "find" ELSE "failed"]
  /\ pending' = PendingAfter(n)
  /\ UNCHANGED <<issued, user, env, printed, stored, mark, request>>

Token(l) == [login[l] EXCEPT !.at = "in", !.secret = env.secret, !.left = EXPIRES_IN]

\* authenticateUser finds the user and issues a token, or goes on to create him.
LoginFinds(l) ==
  /\ login[l].at = "find"
  /\ login' = [login EXCEPT ![l] = IF user THEN Token(l) ELSE [@ EXCEPT !.at = "create"]]
  /\ UNCHANGED <<issued, pending, user, env, printed, stored, mark, request>>

\* The user is created; if another login was faster the unique key makes it an error.
LoginCreates(l) ==
  /\ login[l].at = "create"
  /\ login' = [login EXCEPT ![l] = IF user THEN [@ EXCEPT !.at = "failed"] ELSE Token(l)]
  /\ user' = TRUE
  /\ UNCHANGED <<issued, pending, env, printed, stored, mark, request>>

-----------------------------------------------------------------------------
\* Time passes: tokens expire and overlap windows close.
Tick ==
  /\ login' = [l \in Login |-> [login[l] EXCEPT !.left = IF @ > 0 THEN @ - 1 ELSE 0]]
  /\ env' = [env EXCEPT !.left = IF @ > 0 THEN @ - 1 ELSE 0]
  /\ printed' = IF printed = None THEN None
                ELSE [printed EXCEPT !.left = IF @ > 0 THEN @ - 1 ELSE 0]
  /\ UNCHANGED <<issued, pending, user, stored, mark, request>>

\* Mutant of RotateSecret: the current secret is not carried over.
RotateSecretNaively ==
  /\ printed = None /\ env.secret < Secrets
  /\ printed' = [secret |-> env.secret + 1, previous |-> None, left |-> OVERLAP]
  /\ UNCHANGED <<issued, pending, user, login, env, stored, mark, request>>

\* rotate-jwt-secret prints a new secret, the current one and the time.
RotateSecret ==
  /\ printed = None /\ env.secret < Secrets
  /\ printed' = [secret |-> env.secret + 1, previous |-> env.secret, left |-> OVERLAP]
  /\ UNCHANGED <<issued, pending, user, login, env, stored, mark, request>>

\* The backend starts again with an environment: challenges and calls under way are gone, rows,
\* tokens and idempotency keys stay.
Restart(e) ==
  /\ env' = e /\ pending' = None
  /\ login' = [l \in Login |-> IF login[l].at \in {"find", "create"}
                               THEN [login[l] EXCEPT !.at = "failed"] ELSE login[l]]
  /\ request' = [q \in Request |-> IF request[q].at = "none" THEN NoRequest
                                   ELSE [at |-> "over", writes |-> {}]]
  /\ UNCHANGED <<issued, user, stored, mark>>

Deploy == printed # None /\ Restart(printed) /\ printed' = None
Crash  == Restart(env) /\ UNCHANGED printed

\* verifyJwt: the current secret, or the previous one while the overlap lasts.
AcceptedUnder(token, e) ==
  /\ token.at = "in" /\ token.left > 0
  /\ token.secret = e.secret \/ (token.secret = e.previous /\ e.left > 0)

-----------------------------------------------------------------------------
RequestGoes(q, at) == /\ request' = [request EXCEPT ![q].at = at]
                      /\ UNCHANGED authVars

\* requireAuth lets a request with a valid token through to the idempotency middleware.
RequestArrives(q, l) ==
  /\ request[q].at = "none" /\ AcceptedUnder(login[l], env)
  /\ RequestGoes(q, "look")
  /\ UNCHANGED <<stored, mark>>

\* getStoredResponse: a stored answer is given again; an error passes for nothing stored.
LookUp(q) ==
  /\ request[q].at = "look"
  /\ RequestGoes(q, IF stored # None THEN "over" ELSE "lookMark")
  /\ UNCHANGED <<stored, mark>>

LookUpFails(q) ==
  /\ request[q].at = "look" /\ RequestGoes(q, "lookMark")
  /\ UNCHANGED <<stored, mark>>

\* A processing mark is taken for that of a request that crashed, and removed, unless it has
\* expired or cannot be read.
LookUpMark(q) ==
  /\ request[q].at = "lookMark"
  /\ \/ mark /\ RequestGoes(q, "unmark")
     \/ RequestGoes(q, "setMark")
  /\ UNCHANGED <<stored, mark>>

RemoveMark(q) ==
  /\ request[q].at = "unmark" /\ RequestGoes(q, "setMark")
  /\ mark' \in {FALSE, mark} /\ UNCHANGED stored

\* The mark is stored, over another one if need be, and the handler starts.
StoreMark(q) ==
  /\ request[q].at = "setMark" /\ RequestGoes(q, "run")
  /\ mark' = TRUE /\ UNCHANGED stored

\* The mark cannot be stored: nothing catches that, and the request gets no answer.
StoreMarkFails(q) ==
  /\ request[q].at = "setMark" /\ RequestGoes(q, "over")
  /\ UNCHANGED <<stored, mark>>

\* The handler answers: res.json starts both writes and waits for neither.
RequestAnswers(q) ==
  /\ request[q].at = "run"
  /\ request' = [request EXCEPT ![q] = [at |-> "over", writes |-> {"store", "unmark"}]]
  /\ UNCHANGED <<authVars, stored, mark>>

WriteOver(q, w) == /\ w \in request[q].writes
                   /\ request' = [request EXCEPT ![q].writes = @ \ {w}]
                   /\ UNCHANGED authVars

\* Mutant of WriteLands: the answer is removed instead of its mark.
WriteLandsOnAnswer(q, w) ==
  /\ WriteOver(q, w)
  /\ stored' = IF w = "store" THEN q ELSE None
  /\ UNCHANGED mark

\* One of these writes lands; a second answer for the key replaces the first.
WriteLands(q, w) ==
  /\ WriteOver(q, w)
  /\ stored' = IF w = "store" THEN q ELSE stored
  /\ mark' = (mark /\ w = "store")

\* One of them fails, which is only logged.
WriteFails(q, w) == WriteOver(q, w) /\ UNCHANGED <<stored, mark>>

\* The row outlives its 24 hours and is removed, by the next reader or the clean-up.
StoredExpires ==
  /\ stored # None /\ stored' = None
  /\ UNCHANGED <<authVars, mark, request>>

SessionsNext ==
  \/ \E n \in Nonce : GetChallenge(n)
  \/ ChallengeExpires
  \/ \E l \in Login : \/ \E n \in issued : LoginVerifies(l, n)
                      \/ LoginFinds(l) \/ LoginCreates(l)
  \/ Tick \/ RotateSecret \/ Deploy \/ Crash
  \/ \E q \in Request :
       \/ \E l \in Login : RequestArrives(q, l)
       \/ LookUp(q) \/ LookUpFails(q) \/ LookUpMark(q) \/ RemoveMark(q) \/ StoreMark(q)
       \/ StoreMarkFails(q) \/ RequestAnswers(q)
       \/ \E w \in request[q].writes : WriteLands(q, w) \/ WriteFails(q, w)
  \/ StoredExpires
=============================================================================
