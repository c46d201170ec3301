------------------------------ MODULE MCScheduler -----------------------------
(***************************************************************************)
(* Small workflows for TLC.  A cfg picks one value for each constant.      *)
(***************************************************************************)
EXTENDS DocumentedClaims, RetryDelays, TLC

\* The diamond a -> {b, c} -> d; the edges a -> c and b -> d carry conditions,
\* and b -> d reads the result of a as well.
DiamondTasks == {"a", "b", "c", "d"}
DiamondOrder == <<"a", "b", "c", "d">>
DiamondEdges == "a" :> <<>> @@ "b" :> <<"a">> @@ "c" :> <<"a">> @@ "d" :> <<"b", "c">>
DiamondConditional == {<<"a", "c">>, <<"b", "d">>}
DiamondReads == <<"a", "c">> :> {"a"} @@ <<"b", "d">> :> {"a", "b"}
DiamondEagerReads == <<"a", "c">> :> {"a"} @@ <<"b", "d">> :> {"b", "c"}
DiamondDeclared == "a" :> 0 @@ "b" :> 1 @@ "c" :> 2 @@ "d" :> 3

AllSuccess == [t \in Tasks |-> "ALL_SUCCESS"]
DiamondMixed == "a" :> "ALL_SUCCESS" @@ "b" :> "ALWAYS" @@ "c" :> "ALL_DONE"
                  @@ "d" :> "ANY_SUCCESS"

\* c is urgent; b takes the whole of the pool, c and d share it
DiamondPriority == "a" :> 0 @@ "b" :> 1 @@ "c" :> 0 @@ "d" :> 0
DiamondRequest == "a" :> ("p" :> 0) @@ "b" :> ("p" :> 2) @@ "c" :> ("p" :> 1)
                  @@ "d" :> ("p" :> 1)
OnePool == {"p"}
TwoSlots == "p" :> 2

\* Three tasks without upstreams, competing for a pool and for two places in a wave:
\* the first in line is small, the second large, the third small; a fourth follows
\* the first
FanTasks == {"x", "y", "z", "w"}
FanOrder == <<"x", "y", "z", "w">>
FanEdges == [t \in FanTasks |-> IF t = "w" THEN <<"x">> ELSE <<>>]
FanPriority == "x" :> 0 @@ "y" :> 1 @@ "z" :> 2 @@ "w" :> 0
FanDeclared == "x" :> 0 @@ "y" :> 1 @@ "z" :> 2 @@ "w" :> 3
FanRequest == "x" :> ("p" :> 1) @@ "y" :> ("p" :> 2) @@ "z" :> ("p" :> 1) @@ "w" :> ("p" :> 2)
NoReads == [e \in {} |-> {}]

\* Retry and timeout settings
TwoAttempts == [t \in Tasks |-> 2]
RootThrice == [t \in Tasks |-> IF t = Order[1] THEN 3 ELSE 1]
AnyError == [t \in Tasks |-> {}]
OnlyTimeouts == [t \in Tasks |-> {"TaskTimeout"}]
Delays(policy) == [t \in Tasks |-> [n \in 1 .. 3 |-> DelayFor(policy, n)]]
TwoPerAttempt ==
  [backoff |-> "LINEAR", delay |-> 2, multiplier |-> 2, maxDelay |-> Unlimited]
TriplingToFour ==
  [backoff |-> "EXPONENTIAL", delay |-> 2, multiplier |-> 3, maxDelay |-> 4]
ByAttempt == Delays(TwoPerAttempt)
Growing == Delays(TriplingToFour)

ASSUME PoliciesAccepted == {TwoPerAttempt, TriplingToFour} \subseteq RetryPolicy
NoTimeouts == [t \in Tasks |-> NoTimeout]
TimeoutOfOne == [t \in Tasks |-> 1]
Instant == [t \in Tasks |-> {0}]
RootSlow == [t \in Tasks |-> IF t = Order[1] THEN {0, 2} ELSE {0}]
AnyOneSlow == [t \in Tasks |-> {0, 3}]
Errors == [t \in Tasks |-> {"ValueError"}]
Nobody == {}
Everybody == Tasks
===============================================================================
