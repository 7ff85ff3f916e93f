-------------------------- MODULE MCDeliveryTiming --------------------------
(* Instances of DeliveryTiming for TLC: destinations whose delays double,  *)
(* whose only delay is the whole lifetime, and that never retry.           *)
EXTENDS DeliveryTiming, TLC

SmallPolicies ==
    {[maxAttempts |-> 3, lifetime |-> 7, delays |-> <<1, 4>>, timeout |-> 2],
     [maxAttempts |-> 2, lifetime |-> 5, delays |-> <<5>>, timeout |-> 1],
     [maxAttempts |-> 1, lifetime |-> 3, delays |-> <<>>, timeout |-> 2]}

Interchangeable == Permutations(Worker)
=============================================================================
