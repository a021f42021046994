--------------------------- MODULE DeliveryEngine ---------------------------
(***************************************************************************)
(* The pure rules of packages/delivery-engine: when the retry budget of a  *)
(* delivery is spent, which destination a failover hands over to, how long *)
(* a retry waits and which idempotency key a destination sees.             *)
(*                                                                         *)
(* A delivery policy is [strategy, scope, dests]; dests is the ordered     *)
(* list of [id, active] targets.  Destination indexes count from 0, as in  *)
(* the code, and None stands for its null.                                 *)
(***************************************************************************)
EXTENDS Integers, Sequences, FiniteSetsExt

None == -1

RetriesExhausted(attempt, maximum) == attempt >= maximum

(* The index after the current one, for the failover strategy only.        *)
NextFailoverIndex(strategy, current, count) ==
  IF strategy = "failover" /\ current + 1 < count THEN current + 1 ELSE None

(* The active targets behind position i of a policy.                       *)
ActiveAfter(policy, i) ==
  {j \in 0 .. Len(policy.dests) - 1 : i < j /\ policy.dests[j + 1].active}

(* Where the worker's loop over NextFailoverIndex stops: the first active  *)
(* target behind i.                                                        *)
NextTarget(policy, i) ==
  IF policy.strategy # "failover" \/ ActiveAfter(policy, i) = {}
  THEN None
  ELSE Min(ActiveAfter(policy, i))

(* What the key is a hash of: hashing is taken to be injective.            *)
AnyDest == "any_dest"
IdempotencyKey(event, dest, scope) ==
  [event |-> event, dest |-> IF scope = "event" THEN AnyDest ELSE dest]

-----------------------------------------------------------------------------
(* Delays, in milliseconds.  The random jitter is a number of thousandths, *)
(* 800 .. 1200, and Math.round rounds a half up.                           *)

Smaller(a, b) == IF a <= b THEN a ELSE b
Larger(a, b) == IF a >= b THEN a ELSE b

ComputeBackoff(attempt, base, maximum, jitter) ==
  LET bounded == Smaller(base * 2 ^ Larger(0, attempt - 1), maximum)
  IN  Larger(1000, (bounded * jitter + 500) \div 1000)

(* Retry-After already read as milliseconds from now; Missing when the     *)
(* header is absent or not a number or date.                               *)
Missing == "missing"

ParseRetryAfter(value, maximum) ==
  IF value = Missing THEN None
  ELSE IF value <= 0 THEN None ELSE Smaller(value, maximum)
=============================================================================
