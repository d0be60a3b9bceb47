------------------------------- MODULE MCLogQuery ------------------------------
(* Instances of LogQuery for TLC. *)
EXTENDS LogQuery, TLC

CONSTANTS c1, c2, c3

\* With two lines of each log wanted at most, and two in all, the readers race
\* for the limit; one log begins before the interval, one ends after it.
MCLog ==
  c1 :> <<"before", "within">> @@ c2 :> <<"before", "within", "within">> @@ c3 :> <<"within", "after">>
================================================================================
