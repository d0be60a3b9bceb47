------------------------------ MODULE MCAlertStore -----------------------------
(***************************************************************************)
(* Alerts for AlertStore: two of one name about different pods, one that   *)
(* no query asks for, one that starts late, some of Loki; one of them with *)
(* more labels in Alertmanager, another about the same pod that has ended, *)
(* and two of one name that no rules API has.                              *)
(***************************************************************************)
EXTENDS AlertStore

About(name, ns, pod) == [alertname |-> name, namespace |-> ns, pod |-> pod]
Starting(labels, starts) == [labels |-> labels, starts |-> starts]
InManager(labels, starts, ends, receiver) ==
  [labels |-> labels, starts |-> starts, ends |-> ends, receivers |-> {receiver}]

MCPromAlerts ==
  {Starting(About("crash", "a", "p"), "within"), Starting(About("crash", "a", "q"), "before"),
   Starting(About("idle", "a", "s"), "within"), Starting(About("late", "b", "p"), "after")}
MCLokiAlerts ==
  [application |-> {Starting(About("errors", "a", "p"), "within"), Starting(About("errors", "b", "p"), "within")},
   infrastructure |-> {Starting(About("errors", "b", "q"), "within"), Starting(About("errors", "a", "p"), "before")}]
MCManaged ==
  <<InManager("cluster" :> "c" @@ About("crash", "a", "p"), "before", "within", "mail"),
    InManager(About("other", "a", "p"), "before", "before", "chat"),
    InManager(About("unruled", "a", "r"), "within", NoTime, "chat"),
    InManager(About("unruled", "b", "r"), "within", NoTime, "mail")>>
MCQueries ==
  {<<[namespace |-> "a", pod |-> "p"]>>,
   <<[alertname |-> "crash"], [namespace |-> "b"]>>,
   <<[alertname |-> "unruled"]>>}
================================================================================
