------------------------------- MODULE Search -------------------------------
(***************************************************************************)
(* What a correlation search promises, independent of how it is scheduled. *)
(*                                                                         *)
(* A search holds the objects found so far and the queries asked so far.   *)
(* It starts from some objects and some queries; a rule applied to an      *)
(* object yields more queries, followed when they are on a line of the     *)
(* search scope.  Every query is asked at most once, and unless the search *)
(* is cut short it is not finished while it owes a query.                  *)
(*                                                                         *)
(* Traverser implements this specification (package traverse).             *)
(***************************************************************************)

EXTENDS SearchScope

VARIABLES
  found,         \* [Class -> SUBSET Object]
  asked,         \* queries that have been executed and merged
  cut,           \* the search may stop early: cancelled or limited
  finished       \* the search has returned

vars == <<found, asked, cut, finished>>

\* Every query that the objects in f give rise to.
YieldOf(f) ==
  {q \in Query : \E c \in Class, r \in Rule : \E o \in f[c] : q \in Yield(c, r, o)}

\* Everything the search must ask, given what it has found.
Owed == StartQueries \cup YieldOf(found)

TypeOK ==
  /\ found \in [Class -> SUBSET Object]
  /\ asked \subseteq Query
  /\ cut \in BOOLEAN
  /\ finished \in BOOLEAN

Init ==
  /\ found = [c \in Class |-> IF c = StartClass THEN StartObjects ELSE {}]
  /\ asked = {}
  /\ cut \in BOOLEAN
  /\ finished = FALSE

Ask(q) ==
  /\ ~finished
  /\ q \in Owed \ asked
  /\ asked' = asked \cup {q}
  /\ \E objects \in Answers[q] :
       found' = [found EXCEPT ![QueryClass[q]] = @ \cup objects]
  /\ UNCHANGED <<cut, finished>>

Cut ==
  /\ ~cut
  /\ cut' = TRUE
  /\ UNCHANGED <<found, asked, finished>>

Finish ==
  /\ ~finished
  /\ cut \/ Owed \subseteq asked
  /\ finished' = TRUE
  /\ UNCHANGED <<found, asked, cut>>

Next ==
  \/ \E q \in Query : Ask(q)
  \/ Cut
  \/ Finish

Spec == Init /\ [][Next]_vars

=============================================================================
