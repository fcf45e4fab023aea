----------------------------- MODULE RetryPolicy -----------------------------
(***************************************************************************)
(* RetryPolicy.delay_for_failure (models.py): capped exponential backoff.  *)
(* FloatMax is the largest float; the power raises OverflowError beyond    *)
(* it, and the handler answers the maximum delay.                          *)
(***************************************************************************)
EXTENDS Integers

CONSTANTS BaseDelay, MaximumDelay, Multiplier, FloatMax

\* __post_init__ rejects everything else.
ASSUME RetryPolicyAssumption ==
  /\ BaseDelay \in Nat \ {0}
  /\ MaximumDelay \in Nat /\ BaseDelay <= MaximumDelay
  /\ Multiplier \in Nat \ {0}
  /\ FloatMax \in Nat /\ MaximumDelay <= FloatMax

DelayForFailure(n) ==
  LET factor == Multiplier ^ (n - 1)
      delay  == BaseDelay * factor
  IN  IF factor > FloatMax \/ delay > MaximumDelay THEN MaximumDelay ELSE delay
=============================================================================
