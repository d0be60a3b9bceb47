------------------------------ MODULE QueryIntern ------------------------------
(***************************************************************************)
(* Domains.Query as the workers of a search use it.  Rules write queries   *)
(* as strings; a query object is found or made for each string, and the    *)
(* search tells queries apart by their identity: it runs a query unless    *)
(* this very object is in `seen'.  Several workers ask for the same string *)
(* at once; the map of queries has a read and a write lock.                *)
(***************************************************************************)
EXTENDS Naturals

CONSTANTS
  Worker,
  QueryString,
  BadString     \* the strings that no domain accepts

ASSUME BadStringAssumption == BadString \subseteq QueryString

VARIABLES
  queries,      \* Domains.queries: string -> the query made for it, 0 for none
  made,         \* the queries made so far; each new one is a number of its own
  seen,         \* traverser.seen
  pc, str, got, \* worker -> where it is, its string, the query it was given
  runs          \* history: how often each string was admitted for execution

internVars == <<queries, made, seen, pc, str, got, runs>>

InternInit ==
  /\ queries = [s \in QueryString |-> 0]
  /\ made = 0
  /\ seen = {}
  /\ pc = [w \in Worker |-> "idle"]
  /\ str \in [Worker -> QueryString]
  /\ got = [w \in Worker |-> 0]
  /\ runs = [s \in QueryString |-> 0]
--------------------------------------------------------------------------------
\* rQuery, under the read lock.
Lookup(w, s) ==
  /\ pc[w] = "idle"
  /\ str' = [str EXCEPT ![w] = s]
  /\ got' = [got EXCEPT ![w] = queries[s]]
  /\ pc' = [pc EXCEPT ![w] = IF queries[s] = 0 THEN "lock" ELSE "got"]
  /\ UNCHANGED <<queries, made, seen, runs>>

\* Under the write lock, the map is read again: another worker may have been faster.
Interned(w) ==
  /\ pc[w] = "lock"
  /\ queries[str[w]] # 0
  /\ got' = [got EXCEPT ![w] = queries[str[w]]]
  /\ pc' = [pc EXCEPT ![w] = "got"]
  /\ UNCHANGED <<queries, made, seen, str, runs>>

\* A string that is not a query of a known domain is an error, and is not stored.
\* Its rule yields nothing; the worker goes on to its next string.
Reject(w) ==
  /\ pc[w] = "lock"
  /\ queries[str[w]] = 0
  /\ str[w] \in BadString
  /\ pc' = [pc EXCEPT ![w] = "idle"]
  /\ UNCHANGED <<queries, made, seen, str, got, runs>>

\* Mutant: the map is not read again under the write lock.
MakeAnyway(w) ==
  /\ pc[w] = "lock"
  /\ str[w] \notin BadString
  /\ made' = made + 1
  /\ queries' = [queries EXCEPT ![str[w]] = made + 1]
  /\ got' = [got EXCEPT ![w] = made + 1]
  /\ pc' = [pc EXCEPT ![w] = "got"]
  /\ UNCHANGED <<seen, str, runs>>
Make(w) ==
  /\ pc[w] = "lock"
  /\ queries[str[w]] = 0
  /\ str[w] \notin BadString
  /\ made' = made + 1
  /\ queries' = [queries EXCEPT ![str[w]] = made + 1]
  /\ got' = [got EXCEPT ![w] = made + 1]
  /\ pc' = [pc EXCEPT ![w] = "got"]
  /\ UNCHANGED <<seen, str, runs>>

\* isDuplicate, under the lock of the search.
Duplicate(w) ==
  /\ pc[w] = "got"
  /\ got[w] \in seen
  /\ pc' = [pc EXCEPT ![w] = "idle"]
  /\ UNCHANGED <<queries, made, seen, str, got, runs>>

Admit(w) ==
  /\ pc[w] = "got"
  /\ got[w] \notin seen
  /\ seen' = seen \cup {got[w]}
  /\ pc' = [pc EXCEPT ![w] = "run"]
  /\ runs' = [runs EXCEPT ![str[w]] = @ + 1]
  /\ UNCHANGED <<queries, made, str, got>>

\* Store.Get of the admitted query: it begins and ends.
Run(w) ==
  /\ pc[w] = "run"
  /\ pc' = [pc EXCEPT ![w] = "running"]
  /\ UNCHANGED <<queries, made, seen, str, got, runs>>
Finish(w) ==
  /\ pc[w] = "running"
  /\ pc' = [pc EXCEPT ![w] = "idle"]
  /\ UNCHANGED <<queries, made, seen, str, got, runs>>

Intern(w) ==
  (\E s \in QueryString : Lookup(w, s)) \/ Interned(w) \/ Reject(w) \/ Make(w) \/ Duplicate(w) \/ Admit(w)

InternNext == \E w \in Worker : Intern(w) \/ Run(w) \/ Finish(w)

InternSpec == InternInit /\ [][InternNext]_internVars
--------------------------------------------------------------------------------
(* Properties *)

InternTypeOK ==
  /\ made \in Nat
  /\ queries \in [QueryString -> 0 .. made]
  /\ seen \subseteq 1 .. made
  /\ pc \in [Worker -> {"idle", "lock", "got", "run", "running"}]
  /\ str \in [Worker -> QueryString]
  /\ got \in [Worker -> 0 .. made]
  /\ runs \in [QueryString -> Nat]

HasQuery(w) == pc[w] \in {"got", "run", "running"}

\* "Queries are interned; equal strings will return identical Query instances":
\* whoever holds a query holds the one in the map, and no two strings share one.
SameQuery ==
  /\ \A w \in Worker : HasQuery(w) => got[w] = queries[str[w]] /\ got[w] # 0
  /\ \A s, t \in QueryString : queries[s] # 0 /\ queries[s] = queries[t] => s = t

\* A search that several rules, or several workers with the same rule, lead to
\* the same query string executes it once.
RunOnce == \A s \in QueryString : runs[s] <= 1
================================================================================
