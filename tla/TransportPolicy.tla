--------------------------- MODULE TransportPolicy --------------------------
(***************************************************************************)
(* The retry policy of the SQL connector's transport (RetryPolicy and the   *)
(* http_timeout of config.py): the parameters of TransportRetry, and of     *)
(* Connect, which makes its requests.                                      *)
(***************************************************************************)
EXTENDS Naturals

CONSTANTS MaxRetries,    \* RetryPolicy.max_retries
          MaxElapsed,    \* RetryPolicy.max_elapsed
          BackoffBase,   \* RetryPolicy.backoff_base
          BackoffMax,    \* RetryPolicy.backoff_max
          RetryAfters,   \* the delays a Retry-After header may ask for
          RequestTime    \* bound: the longest a request is out (http_timeout)

ASSUME PolicyAssumption ==
  /\ MaxRetries \in Nat /\ MaxElapsed \in Nat
  /\ BackoffBase \in Nat /\ BackoffMax \in Nat
  /\ RetryAfters \subseteq Nat
  /\ RequestTime \in Nat
=============================================================================
