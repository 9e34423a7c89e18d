----------------------------- MODULE MCCommands -----------------------------
(* One table and one product, wanted several times: equal commands are the   *)
(* ones an API could confuse.                                                *)
EXTENDS Commands, TLC

Kind(w) == "cola"

\* Bound: a third key is minted only while neither guest nor desk has ordered,
\* so waiter and till have one key more than all of them together.
TillAndWaiter == \/ minted < MaxKeys
                 \/ /\ draft[Guest] = {} /\ draft[Desk] = {} /\ retained[Desk] = {} /\ asks = <<>>
                    /\ \A m \in wire : m.from \notin {Guest, Desk}
                    /\ \A i \in DOMAIN rows : rows[i].from # Desk
=============================================================================
