-------------------------------- MODULE LogQuery -------------------------------
(***************************************************************************)
(* Workers of one search that come upon the same log query, and the direct *)
(* log store that answers it: the worker whose query object is admitted    *)
(* calls Get and is the goroutine `main' of DirectLogs until it returns,   *)
(* which may be before the readers and the consumer of its logs are done.  *)
(***************************************************************************)
EXTENDS QueryIntern, DirectLogs

CONSTANT
  LogString     \* the string of the query that the direct log store answers

ASSUME LogStringAssumption == LogString \in QueryString \ BadString

vars == <<internVars, logsVars>>

Init == InternInit /\ LogsInit

\* The search handles one string after another; nothing here depends on the log store.
Search(w) == Intern(w) /\ UNCHANGED logsVars

\* handleQuery: StoreHolder.Get of the domain of the query.
Call(w) == Run(w) /\ IF str[w] = LogString THEN Start ELSE UNCHANGED logsVars
Called(w) == Finish(w) /\ (str[w] = LogString => Outcome # "running") /\ UNCHANGED logsVars

Serve == LogsStep /\ UNCHANGED internVars

Next == Serve \/ \E w \in Worker : Search(w) \/ Call(w) \/ Called(w)

Fairness ==
  /\ LogsFairness
  /\ \A w \in Worker : WF_vars(Call(w)) /\ WF_vars(Called(w))

Spec == Init /\ [][Next]_vars /\ Fairness
--------------------------------------------------------------------------------
(* Properties *)

TypeOK == InternTypeOK /\ LogsTypeOK

\* The worker whose query was admitted gets to call the store and is back at
\* its search in the end, whatever fails in the store.
WorkerReturns == \A w \in Worker : pc[w] = "run" ~> pc[w] = "idle"
================================================================================
