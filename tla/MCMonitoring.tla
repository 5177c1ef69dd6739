----------------------------- MODULE MCMonitoring -----------------------------
(* Calls of one function with small and large values by two accounts, one that failed and was
   not decoded, and an operation that is no call. *)
EXTENDS MonitoringHistory

CONSTANTS f, a, b

Invocation(fn, args, account, successful) ==
  [invoke |-> TRUE, fn |-> fn, args |-> args, account |-> account, successful |-> successful]

MCOperation ==
  {Invocation(f, <<1>>, a, TRUE), Invocation(f, <<1, -4>>, b, TRUE),
   Invocation(None, <<>>, a, FALSE), [Invocation(f, <<>>, a, TRUE) EXCEPT !.invoke = FALSE]}
=============================================================================
