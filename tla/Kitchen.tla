------------------------------ MODULE Kitchen -------------------------------
(***************************************************************************)
(* Ticket updates by the preparation stations: update_ticket_status in      *)
(* apps/api/app/api/kitchen.py. The handler locks its ticket only. It reads *)
(* the order, the order's other tickets and the table without a lock, and   *)
(* writes what it changed at its commit, so it is two actions; in between   *)
(* anything may happen to those rows. A column whose new value equals the   *)
(* one that was read is not written ("keep").                               *)
(***************************************************************************)
EXTENDS FloorData

Transitions(status) ==
  CASE status = "NEW"       -> {"ACCEPTED", "CANCELLED"}
    [] status = "ACCEPTED"  -> {"PREPARING", "CANCELLED"}
    [] status = "PREPARING" -> {"READY", "CANCELLED"}
    [] status = "READY"     -> {"COMPLETED"}
    [] OTHER                -> {}

\* item_status
LineStatus(status) == IF status = "COMPLETED" THEN "SERVED" ELSE status

\* The statuses of an order's tickets once ticket k has the given one.
Statuses(k, status) ==
  {status} \cup {tickets[j].status : j \in {j \in TicketIds : j[1] = k[1] /\ j # k
                                                              /\ tickets[j].status # "none"}}

\* What the tickets say of the order that was read with status current.
Progress(statuses, current) ==
  IF statuses \subseteq {"READY", "COMPLETED"} THEN "READY"
  ELSE IF statuses \cap {"READY", "COMPLETED"} # {} THEN "PARTIALLY_READY"
  ELSE IF "PREPARING" \in statuses THEN "PREPARING"
  ELSE current

Changed(new, old) == IF new = old THEN "keep" ELSE new

\* What the handler will write, from what it reads now. A table of 0: it writes none.
Update(k, status) ==
  LET o        == k[1]
      progress == Progress(Statuses(k, status), orders[o].status)
      follows  == orders[o].status \in FollowsKitchen
      t        == TableOf(o)
  IN [status |-> status,
      lines  |-> {i \in tickets[k].lines : items[i].status # LineStatus(status)},
      order  |-> IF follows THEN Changed(progress, orders[o].status) ELSE "keep",
      table  |-> IF follows THEN t ELSE 0,
      shown  |-> IF follows /\ t # 0
                 THEN Changed(IF progress = "READY" /\ Statuses(k, status) \subseteq {"READY", "COMPLETED"}
                              THEN "READY" ELSE "PREPARING", tables[t])
                 ELSE "keep"]

BeginTicket(k, status) ==
  /\ kitchenTx[k] = NoTx
  /\ status \in Transitions(tickets[k].status)
  /\ kitchenTx' = [kitchenTx EXCEPT ![k] = Update(k, status)]
  /\ UNCHANGED <<rows, closeTx, endings, edits, moves, retries>>

CommitTicket(k) ==
  LET tx == kitchenTx[k] IN
  /\ tx # NoTx
  /\ Unlocked(tx.table) /\ (tx.order # "keep" => Unheld(k[1]))
  /\ tickets' = [tickets EXCEPT ![k].status = tx.status]
  /\ items' = [i \in ItemIds |->
                 IF i \in tx.lines THEN [items[i] EXCEPT !.status = LineStatus(tx.status)]
                                   ELSE items[i]]
  /\ orders' = IF tx.order = "keep" THEN orders ELSE [orders EXCEPT ![k[1]].status = tx.order]
  /\ tables' = IF tx.shown = "keep" THEN tables ELSE Shown(tx.table, tx.shown)
  /\ kitchenTx' = [kitchenTx EXCEPT ![k] = NoTx]
  /\ UNCHANGED <<payments, approvals, sessions, closeTx, endings, edits, moves, retries>>
=============================================================================
