------------------------------ MODULE RetryDelays -----------------------------
(***************************************************************************)
(* How long a RetryPolicy waits after each attempt (src/campanile/model/   *)
(* policy.py), for policies without jitter, whose fraction comes from a    *)
(* hash, and with whole numbers for delay, multiplier and max_delay.       *)
(***************************************************************************)
EXTENDS Integers

Unlimited == -1   \* a max_delay of None

\* What RetryPolicy.__post_init__ accepts
RetryPolicy ==
  [backoff : {"FIXED", "LINEAR", "EXPONENTIAL"}, delay : Nat,
   multiplier : Nat \ {0}, maxDelay : Nat \cup {Unlimited}]

BaseDelayFor(policy, attempt) ==
  CASE policy.backoff = "FIXED"       -> policy.delay
    [] policy.backoff = "LINEAR"      -> policy.delay * attempt
    [] policy.backoff = "EXPONENTIAL" -> policy.delay * policy.multiplier ^ (attempt - 1)

DelayFor(policy, attempt) ==
  LET base == BaseDelayFor(policy, attempt)
  IN  IF policy.maxDelay # Unlimited /\ policy.maxDelay < base
      THEN policy.maxDelay ELSE base
===============================================================================
