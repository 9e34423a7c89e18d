---------------------------- MODULE PrintPromise ----------------------------
(***************************************************************************)
(* What the print pipeline promises a restaurant, without queue, agents or  *)
(* network (docs/printing.md, "Güvenli teslimat"): each ticket on paper uses *)
(* up a permission of its own, permissions come from queueing a job and from *)
(* an operator's retries, and a job is closed as printed only once a ticket  *)
(* is out, after which no permission is added.                               *)
(***************************************************************************)
EXTENDS PrintProtocol

VARIABLES permitted,    \* permissions given, per job
          tickets,      \* tickets on paper, per job and attempt
          closed        \* the jobs reported as printed

promiseVars == <<permitted, tickets, closed>>

PromiseInit ==
  /\ permitted = [j \in Jobs |-> 0]
  /\ tickets = [j \in Jobs |-> [a \in Attempts |-> 0]]
  /\ closed = {}

Permit(j) ==
  /\ j \notin closed
  /\ permitted' = [permitted EXCEPT ![j] = @ + 1]
  /\ UNCHANGED <<tickets, closed>>

PutOnPaper(j, a) ==
  /\ a <= permitted[j]
  /\ tickets[j][a] = 0
  /\ tickets' = [tickets EXCEPT ![j][a] = 1]
  /\ UNCHANGED <<permitted, closed>>

Close(j) ==
  /\ \E a \in Attempts : tickets[j][a] > 0
  /\ closed' = closed \cup {j}
  /\ UNCHANGED <<permitted, tickets>>

PromiseNext ==
  \E j \in Jobs : Permit(j) \/ Close(j) \/ \E a \in Attempts : PutOnPaper(j, a)

PromiseSpec == PromiseInit /\ [][PromiseNext]_promiseVars
=============================================================================
