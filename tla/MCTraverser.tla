---------------------------- MODULE MCTraverser ----------------------------
(***************************************************************************)
(* Small instances of Traverser for TLC.                                   *)
(*                                                                         *)
(* "Cycle": classes A, B, C with the rules r1 (A to B) and r2 (B to A and  *)
(* C), so the search runs in a cycle; one query is produced by two objects *)
(* and a store may fail half way.                                          *)
(* "Wide": one start object yields four queries of one class, for the      *)
(* query limit, and a rule leads beyond the depth limit.                   *)
(***************************************************************************)
EXTENDS TraverserProps, TLC

CONSTANTS A, B, C, D, r1, r2, a1, a2, b1, b2, c1,
          qa0, qa1, qb1, qb2, qb3, qb4, qc1, qd

L(s, r, g) == [start |-> s, rule |-> r, goal |-> g]

ClassTable == [q \in {qa0, qa1, qb1, qb2, qb3, qb4, qc1, qd} |->
  CASE q \in {qa0, qa1} -> A
    [] q \in {qb1, qb2, qb3, qb4} -> B
    [] q = qc1 -> C
    [] q = qd -> D]
MCQueryClass == [q \in Query |-> ClassTable[q]]

\* Apply from a table of the pairs that yield queries.
Table(t) == [r \in Rule |-> [o \in Object |-> IF <<r, o>> \in DOMAIN t THEN t[<<r, o>>] ELSE {}]]

CycleLines == {L(A, r1, B), L(B, r2, A), L(B, r2, C)}
CycleApply == Table(<<r1, a1>> :> {qb1} @@ <<r1, a2>> :> {qb1}
                 @@ <<r2, b1>> :> {qa1, qc1} @@ <<r2, b2>> :> {qa1})
CycleAnswers == qa0 :> {{a2}, {}} @@ qa1 :> {{a1, a2}}
             @@ qb1 :> {{b1, b2}, {b2}} @@ qc1 :> {{c1}}

WideLines == {L(A, r1, B), L(B, r2, A)}
WideApply == Table(<<r1, a1>> :> {qb1, qb2, qb3, qb4} @@ <<r2, b1>> :> {qa1})
WideAnswers == qb1 :> {{b1}} @@ qb2 :> {{b1}} @@ qb3 :> {{b2}} @@ qb4 :> {{}}
            @@ qa1 :> {{}} @@ qd :> {{}}

Unlimited == -1
Unset == -1

Workers == Permutations(Worker)

=============================================================================
