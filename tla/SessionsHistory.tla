--------------------------- MODULE SessionsHistory ---------------------------
(***************************************************************************)
(* Sessions observed: the requests that were sent when an answer for their *)
(* key was stored, for as long as it stays stored and can be read; and the *)
(* properties.                                                             *)
(***************************************************************************)
EXTENDS Sessions, TLC

VARIABLE repeats

vars == <<sessionVars, repeats>>

ReadFailed(q) == request[q].at = "look" /\ request'[q].at = "lookMark" /\ stored # None
Observe ==
  repeats' = IF StoredExpires THEN {}
             ELSE {q \in Request : /\ ~ReadFailed(q)
                                   /\ \/ q \in repeats
                                      \/ /\ request[q].at = "none" /\ request'[q].at = "look"
                                         /\ stored # None}

Init == SessionsInit /\ repeats = {}
Next == SessionsNext /\ Observe
Spec == Init /\ [][Next]_vars

\* Nonces, logins and requests are alike; no property is about liveness.
Alike == Permutations(Nonce) \cup Permutations(Login) \cup Permutations(Request)

-----------------------------------------------------------------------------
\* "Consume the nonce - one-time use" (verifyChallenge): however often a signed challenge is
\* sent, around other challenges, restarts and the awaits of a login, one login goes past it.
ChallengeUsedOnce ==
  \A l, m \in Login : l # m /\ login[l].nonce = login[m].nonce /\ login[l].nonce # None
    => login[l].at = "failed" \/ login[m].at = "failed"

\* "Existing sessions keep working" (docs/ops/secrets-rotation.md:72): deploying a rotation
\* before its overlap is over logs nobody out who has a token under the secret in use; one under
\* a secret rotated out earlier may be lost.
SessionsSurviveRotation ==
  [][\A l \in Login :
       /\ Deploy /\ printed.left > 0
       /\ AcceptedUnder(login[l], env) /\ login[l].secret = env.secret
       => AcceptedUnder(login'[l], env')]_vars

\* A request that repeats an answered one runs nothing: it was sent when the answer was stored,
\* and neither did the row expire since nor the read fail.  (Sent after the answer and before
\* its row is written, it does run: storeResponse is not awaited.)
RepeatsRunNothing ==
  \A q \in repeats : request[q].at \in {"look", "over"} /\ request[q].writes = {}
=============================================================================
