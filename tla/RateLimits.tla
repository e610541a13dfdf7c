----------------------------- MODULE RateLimits -----------------------------
(***************************************************************************)
(* The rate limits of the Python API (api/rate_limit.py), for one client   *)
(* address; addresses do not touch each other.  Every request that counts  *)
(* takes a token from the default bucket, one that asks a model or scans   *)
(* takes one from the heavy bucket first, and gets it back in no case.     *)
(*                                                                         *)
(* A minute has Minute steps and a token is counted in Minute parts, so    *)
(* that the part of it that comes with a step is a whole number.           *)
(***************************************************************************)
EXTENDS Sums

CONSTANTS DefaultRpm, \* 120
          HeavyRpm,   \* 20
          Minute      \* steps of a minute

RateLimitsAssumption == {DefaultRpm, HeavyRpm, Minute} \subseteq Nat \ {0}

VARIABLES bucket, \* parts of tokens left, "default" and "heavy"
          passed  \* history: requests that passed in each of the last steps, the newest first

vars == <<bucket, passed>>

Rpm == [default |-> DefaultRpm, heavy |-> HeavyRpm]
Kinds == DOMAIN Rpm

Init == /\ bucket = [k \in Kinds |-> Rpm[k] * Minute]
        /\ passed = [i \in 1..Minute |-> [k \in Kinds |-> 0]]

Has(k) == bucket[k] >= Minute

Pass(ks) == passed' = [passed EXCEPT ![1] = [k \in Kinds |-> IF k \in ks THEN @[k] + 1 ELSE @[k]]]

\* A request to any path but the free ones and the heavy ones; one that is refused changes nothing.
Request == /\ Has("default")
           /\ bucket' = [bucket EXCEPT !["default"] = @ - Minute]
           /\ Pass({"default"})

\* fault: a heavy request is refused by the default bucket only
FaultyTakesHeavy == TRUE

TakesHeavy == Has("heavy")

\* A request to a heavy path; the heavy token is gone when the default bucket refuses.
HeavyRequest == /\ TakesHeavy
                /\ bucket' = [k \in Kinds |-> IF k = "heavy" \/ Has(k) THEN bucket[k] - Minute ELSE bucket[k]]
                /\ IF Has("default") THEN Pass(Kinds) ELSE UNCHANGED passed

\* _refill_and_consume fills a bucket when it is used, which comes to the same.
Refilled(k) == IF bucket[k] + Rpm[k] < Rpm[k] * Minute THEN bucket[k] + Rpm[k] ELSE Rpm[k] * Minute

Tick == /\ bucket' = [k \in Kinds |-> Refilled(k)]
        /\ passed' = [i \in 1..Minute |-> IF i = 1 THEN [k \in Kinds |-> 0] ELSE passed[i - 1]]

Next == Request \/ HeavyRequest \/ Tick

Spec == Init /\ [][Next]_vars

----------------------------------------------------------------------------
(* Properties *)

TypeOK == \A k \in Kinds : bucket[k] \in 0..(Rpm[k] * Minute)

PassedIn(n, k) == Total([i \in 1..Minute |-> passed[i][k]], n)

\* However requests are spread, those that pass within some steps are no more than a full
\* bucket and what the steps brought.
PassesAreBounded ==
    \A k \in Kinds : \A n \in 1..Minute : Minute * PassedIn(n, k) <= Rpm[k] * Minute + (n - 1) * Rpm[k]
=============================================================================
