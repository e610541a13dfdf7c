---------------------------- MODULE BoundedCache ----------------------------
(***************************************************************************)
(* What the caches of the Python service promise to those who read them:   *)
(* there is nothing, or something that is not older than MaxAge, and what  *)
(* is there grows older until it is replaced or dropped.  How many layers  *)
(* a cache has, who fills it and what for, is left to the specifications   *)
(* that implement this one.                                                *)
(***************************************************************************)
EXTENDS Integers

CONSTANTS Keys, MaxAge

VARIABLE age  \* of what is cached under each key

Absent == -1

Init == age = [k \in Keys |-> Absent]

Store(k) == \E a \in 0..MaxAge : age' = [age EXCEPT ![k] = a]

Drop(k) == age' = [age EXCEPT ![k] = Absent]

\* Time passes; some of it expires.
Pass == /\ \E gone \in SUBSET Keys :
               age' = [k \in Keys |-> IF k \in gone \/ age[k] = Absent THEN Absent ELSE age[k] + 1]
        /\ \A k \in Keys : age'[k] <= MaxAge

Next == Pass \/ \E k \in Keys : Store(k) \/ Drop(k)

Spec == Init /\ [][Next]_age
=============================================================================
