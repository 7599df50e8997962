------------------------------ MODULE SdkErrors ------------------------------
(***************************************************************************)
(* How plugins/module_utils/errors.py sorts the error codes of the cloud's *)
(* SDK, and which of them plugins/module_utils/retries.py retries.         *)
(*                                                                         *)
(* A code of the model stands for every code the source treats alike: the  *)
(* source tests prefixes ("ResourceNotFound*", "InternalError.*") and two  *)
(* literal lists.  NoCode is an exception without a get_code method (the   *)
(* interpreter's own errors): it belongs to no bucket.                     *)
(***************************************************************************)
EXTENDS Integers

NotFoundCodes    == {"ResourceNotFound", "InvalidVpcId.NotFound"}
RateLimitedCodes == {"RequestLimitExceeded", "LimitExceeded"}
TransientCodes   == {"InternalError", "RequestTimeout", "ServiceUnavailable",
                     "ResourceBusy"}
DeniedCodes      == {"AuthFailure", "UnauthorizedOperation"}
OtherCodes       == {"ResourceInUse", "InvalidParameterValue"}
NoCode           == "NoCode"

ErrorCodes == NotFoundCodes \cup RateLimitedCodes \cup TransientCodes
                \cup DeniedCodes \cup OtherCodes \cup {NoCode}

IsNotFound(code)    == code \in NotFoundCodes
IsRateLimited(code) == code \in RateLimitedCodes
IsRetryable(code)   == IsRateLimited(code) \/ code \in TransientCodes

\* retry_on re-raises whatever this does not hold of.
Retried(code) == IsRateLimited(code) \/ IsRetryable(code)

\* Seconds slept before the attempt-th retry: min(10, 2 ** (attempt - 1)).
Backoff(attempt) == IF attempt < 5 THEN <<1, 2, 4, 8>>[attempt] ELSE 10

=============================================================================
