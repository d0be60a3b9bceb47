------------------------------- MODULE LogAnswer -------------------------------
(***************************************************************************)
(* What a direct log query promises its caller, whatever the goroutines    *)
(* behind it do: the wanted lines of each container arrive in the order of *)
(* that container's log, each once, no more than Limit of them in all, and *)
(* none after the call has returned.  Only a call that is abandoned, with  *)
(* an error of its own, keeps delivering.                                  *)
(***************************************************************************)
EXTENDS Integers, Sequences

CONSTANTS
  Container,  \* the selected containers of the selected pods
  Wanted,     \* container -> the set of positions of its wanted log lines
  Limit       \* of lines in the answer; 0 for none

VARIABLES
  answer,     \* the lines delivered so far: <<container, position>>
  call        \* "running", "returned" or "abandoned"

Init ==
  /\ answer = <<>>
  /\ call = "running"

Undelivered(c) == {i \in Wanted[c] : \A k \in 1 .. Len(answer) : answer[k] # <<c, i>>}

Deliver(c) ==
  /\ call # "returned"
  /\ Limit > 0 => Len(answer) < Limit
  /\ \E i \in Undelivered(c) :
       /\ \A j \in Undelivered(c) : i <= j
       /\ answer' = Append(answer, <<c, i>>)
  /\ UNCHANGED call

Return ==
  /\ call = "running"
  /\ call' \in {"returned", "abandoned"}
  /\ UNCHANGED answer

Next == Return \/ \E c \in Container : Deliver(c)
Spec == Init /\ [][Next]_<<answer, call>>
================================================================================
