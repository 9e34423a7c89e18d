------------------------------- MODULE Orders -------------------------------
(***************************************************************************)
(* The commands on orders: apps/api/app/services/orders.py, called by       *)
(* api/orders.py, api/qr.py and services/delivery.py.                       *)
(*                                                                          *)
(* Every command that changes an order locks its row first and reads the    *)
(* lines, payments and session after that (load_order with lock=True); it   *)
(* commits once. So each command is one action, at the moment it has its    *)
(* locks; but one that ends a check looks at the session's other checks,    *)
(* which it has not locked, and is two. A refused command changes nothing   *)
(* and is no step.                                                          *)
(***************************************************************************)
EXTENDS FloorData

Quantities == 1..MaxQuantity

----------------------------------------------------------------------------
(* Intake and the kitchen. *)

\* append_order_items: product m on order o, sent to its station at once or not.
Append(o, m, q, auto) ==
  /\ orders[o].status \in (FollowsKitchen \ {"AWAITING_APPROVAL"}) \cup {"BILL_REQUESTED"}
  /\ Completed(o) = {}
  /\ Unheld(o) /\ Unlocked(TableOf(o))
  /\ \E i \in FreshItem :
       LET its     == [items EXCEPT ![i] = Line(o, m, q, "SUBMITTED")]
           working == [orders[o] EXCEPT !.status = IF @ = "BILL_REQUESTED" THEN "ACCEPTED" ELSE @]
           charged == Charged(working, its[i].line)
       IN IF auto
          THEN /\ Routable(o, {i}, its)
               /\ items' = Sent({i}, its)
               /\ tickets' = Ticketed(o, {i}, its)
               /\ orders' = [orders EXCEPT ![o] = Accepted(charged)]
               /\ tables' = Shown(TableOf(o), "PREPARING")
          ELSE /\ items' = its
               /\ orders' = [orders EXCEPT ![o] = charged]
               /\ tables' = Shown(TableOf(o), "ORDER_PENDING")
               /\ UNCHANGED tickets
  /\ UNCHANGED <<payments, approvals, sessions, kitchenTx, closeTx, endings, edits, moves, retries>>

\* create_order where there is no open check: a new order in session s of table t
\* (0 and 0 without a table), submitted and, with auto_accept, sent.
Open(t, s, m, q, auto) ==
  \E o \in FreshOrder, i \in FreshItem :
    LET its   == [items EXCEPT ![i] = Line(o, m, q, "SUBMITTED")]
        fresh == Charged([NoOrder EXCEPT !.status = "SUBMITTED", !.session = s], its[i].line)
    IN IF auto
       THEN /\ Routable(o, {i}, its)
            /\ items' = Sent({i}, its)
            /\ tickets' = Ticketed(o, {i}, its)
            /\ orders' = [orders EXCEPT ![o] = Accepted(fresh)]
            /\ tables' = Shown(t, "PREPARING")
       ELSE /\ items' = its
            /\ orders' = [orders EXCEPT ![o] = fresh]
            /\ tables' = Shown(t, "ORDER_PENDING")
            /\ UNCHANGED tickets

\* create_order and _get_or_create_table_session: the table's row is locked.
CreateAtTable(t, m, q, auto) ==
  /\ Unlocked(t) /\ OneSession(t)
  /\ \/ \E o \in LastCheck(t) : Append(o, m, q, auto)
     \/ /\ LastCheck(t) = {}
        /\ \E s \in SessionFor(t) :
             /\ sessions' = [sessions EXCEPT ![s] = [table |-> t, status |-> "OPEN"]]
             /\ Open(t, s, m, q, auto)
        /\ UNCHANGED <<payments, approvals, kitchenTx, closeTx, endings, edits, moves, retries>>

\* create_order for an order that is taken away or delivered.
CreateTakeaway(m, q, auto) ==
  /\ Open(0, 0, m, q, auto)
  /\ UNCHANGED <<payments, approvals, sessions, kitchenTx, closeTx, endings, edits, moves, retries>>

\* accept_order: all pending lines go to their stations together.
AcceptOrder(o) ==
  LET pending == {i \in LinesOf(o) : items[i].status \in PendingStatus} IN
  /\ orders[o].status \in FollowsKitchen
  /\ pending # {} /\ Routable(o, pending, items)
  /\ Unheld(o) /\ Unlocked(TableOf(o))
  /\ items' = Sent(pending, items)
  /\ tickets' = Ticketed(o, pending, items)
  /\ orders' = [orders EXCEPT ![o] = Accepted(@)]
  /\ tables' = Shown(TableOf(o), "PREPARING")
  /\ UNCHANGED <<payments, approvals, sessions, kitchenTx, closeTx, endings, edits, moves, retries>>

----------------------------------------------------------------------------
(* Settlement. *)

Remaining(o) == orders[o].total - Paid(o)
Settles(o, amount) == Paid(o) + amount >= orders[o].total
Pending(a) == approvals[a].status = "PENDING"

\* A command that may end check o (with its last payment, line or a cancellation) has
\* locked it and looks at the session's other checks. (A line that is on a ticket can be
\* the last one to be moved or cancelled, but is not removed.)
MayEnd(o) == \/ orders[o].status \notin DeadStatus /\ Remaining(o) > 0 /\ FreshPayment # {}
             \/ \E i \in ItemIds : LiveLines(o) = {i} /\ (OnTicket(i) => moves < MaxMoves)
             \/ \E a \in ApprovalIds : approvals[a].order = o /\ Pending(a)
Looking == {o \in OrderIds : endTx[o] # NoTx}
LookAround(o) ==
  /\ Cardinality(Looking) < MaxLooks      \* bound
  /\ orders[o].session # 0 /\ Unheld(o) /\ MayEnd(o)
  /\ endTx' = [endTx EXCEPT ![o] = Look(o)]
  /\ UNCHANGED <<rows, kitchenTx, closeTx, atOnce, edits, moves, retries>>
\* It is refused after all, or the database ends it to resolve a deadlock.
GiveUp(o) ==
  /\ endTx[o] # NoTx
  /\ endTx' = [endTx EXCEPT ![o] = NoTx]
  /\ UNCHANGED <<rows, kitchenTx, closeTx, atOnce, edits, moves, retries>>

\* mark_order_bill_requested
RequestBill(o) ==
  /\ orders[o].status \in FollowsKitchen \ {"SUBMITTED", "AWAITING_APPROVAL"}
  /\ Unheld(o) /\ Unlocked(TableOf(o))
  /\ orders' = [orders EXCEPT ![o].status = "BILL_REQUESTED"]
  /\ tables' = Shown(TableOf(o), "BILL_REQUESTED")
  /\ UNCHANGED <<items, tickets, payments, approvals, sessions, kitchenTx, closeTx, endings, edits, moves,
                 retries>>

\* add_payment: the balance is read while the order is locked.
AddPayment(o, amount) ==
  /\ Exists(o) /\ orders[o].status \notin DeadStatus
  /\ amount <= Remaining(o)
  /\ Ending(o, Settles(o, amount))
  /\ \E p \in FreshPayment :
       payments' = [payments EXCEPT ![p] = [order |-> o, amount |-> amount, status |-> "COMPLETED"]]
  /\ orders' = [orders EXCEPT ![o].status = IF Settles(o, amount) THEN "PAID" ELSE "PAYMENT_PENDING"]
  /\ \/ /\ Settles(o, amount)
        /\ Unlocked(Seen(o).table) /\ tables' = Shown(Seen(o).table, "CLEANING")
     \/ /\ ~Settles(o, amount) /\ OnOpenSession(o)
        /\ Unlocked(TableOf(o)) /\ tables' = Shown(TableOf(o), "PAYMENT_PENDING")
     \/ ~Settles(o, amount) /\ ~OnOpenSession(o) /\ UNCHANGED tables
  /\ UNCHANGED <<items, tickets, approvals, sessions, kitchenTx, closeTx, edits, moves, retries>>

\* refund_payment: a reversal; the order keeps its status.
RefundPayment(p) ==
  /\ payments[p].status = "COMPLETED" /\ Unheld(payments[p].order)
  /\ payments' = [payments EXCEPT ![p].status = "REFUNDED"]
  /\ UNCHANGED <<orders, items, tickets, approvals, sessions, tables, kitchenTx, closeTx, endings, edits,
                 moves, retries>>

----------------------------------------------------------------------------
(* Changes of one line: mutate_order_item. *)

\* Mutant: payments are not looked at.
EditableAfterPayment(i) ==
  /\ items[i].order # 0 /\ IsOpen(items[i].order) /\ Unheld(items[i].order) /\ ~Dead(i)

Editable(i) ==
  LET o == items[i].order IN
  /\ o # 0 /\ IsOpen(o) /\ Completed(o) = {}
  /\ Unheld(o) /\ ~Dead(i)

\* Bound: gifts that are taken back do not count, since each was given by an edit.
Counted == edits < MaxEdits /\ edits' = edits + 1

Reopened(r) == [r EXCEPT !.status = IF @ = "BILL_REQUESTED" THEN "ACCEPTED" ELSE @]

\* INCREASE: one more portion; if the line was sent, as a pending line of its own.
Increase(i) ==
  LET o == items[i].order
      one  == IF items[i].comp THEN 0 ELSE items[i].price
      more == IF items[i].comp THEN items[i].line ELSE items[i].price * (items[i].quantity + 1)
  IN /\ Editable(i) /\ Counted
     /\ \/ /\ items[i].status \notin PendingStatus
           /\ \E n \in FreshItem :
                items' = [items EXCEPT ![n] = [Line(o, items[i], 1, "SUBMITTED") EXCEPT
                                                 !.comp = items[i].comp, !.line = one]]
           /\ orders' = [orders EXCEPT ![o] = Charged(Reopened(@), one)]
        \/ /\ items[i].status \in PendingStatus
           /\ items[i].quantity < MaxQuantity
           /\ items' = [items EXCEPT ![i] = [items[i] EXCEPT !.quantity = items[i].quantity + 1,
                                                             !.line = more]]
           /\ orders' = [orders EXCEPT ![o] = Charged(Reopened(@), more - items[i].line)]
     /\ UNCHANGED <<tickets, payments, approvals, sessions, tables, kitchenTx, closeTx, endings, moves, retries>>

\* DECREASE
Decrease(i) ==
  LET o == items[i].order
      less == IF items[i].comp THEN items[i].line ELSE items[i].price * (items[i].quantity - 1)
  IN
  /\ Editable(i) /\ Counted
  /\ items[i].quantity > 1
  /\ items' = [items EXCEPT ![i] = [items[i] EXCEPT !.quantity = items[i].quantity - 1,
                                                    !.line = less]]
  /\ orders' = [orders EXCEPT ![o] = IF items[i].comp THEN Recalculated(@)
                                     ELSE Relieved(@, items[i].price)]
  /\ UNCHANGED <<tickets, payments, approvals, sessions, tables, kitchenTx, closeTx, endings, moves, retries>>

\* Mutant: the gift keeps its price.
SetComplimentaryPriced(i) ==
  LET o == items[i].order IN
  /\ Editable(i) /\ Counted
  /\ ~items[i].comp
  /\ items' = [items EXCEPT ![i].comp = TRUE]
  /\ orders' = [orders EXCEPT ![o] = Relieved(@, items[i].line)]
  /\ UNCHANGED <<tickets, payments, approvals, sessions, tables, kitchenTx, closeTx, endings, moves, retries>>

\* SET_COMPLIMENTARY
SetComplimentary(i) ==
  LET o == items[i].order IN
  /\ Editable(i) /\ Counted
  /\ ~items[i].comp
  /\ items' = [items EXCEPT ![i] = [items[i] EXCEPT !.comp = TRUE, !.line = 0]]
  /\ orders' = [orders EXCEPT ![o] = Relieved(@, items[i].line)]
  /\ UNCHANGED <<tickets, payments, approvals, sessions, tables, kitchenTx, closeTx, endings, moves, retries>>

\* REMOVE_COMPLIMENTARY
RemoveComplimentary(i) ==
  LET o == items[i].order
      price == items[i].price * items[i].quantity
  IN /\ Editable(i)
     /\ items[i].comp
     /\ items' = [items EXCEPT ![i] = [items[i] EXCEPT !.comp = FALSE, !.line = price]]
     /\ orders' = [orders EXCEPT ![o] = Charged(@, price)]
     /\ UNCHANGED <<tickets, payments, approvals, sessions, tables, kitchenTx, closeTx, endings, edits, moves,
                    retries>>

\* remove_unprinted_order_item: a line that no kitchen ticket holds.
RemoveUnprinted(i) ==
  LET o     == items[i].order
      empty == LiveLines(o) \subseteq {i}
      less  == Relieved(orders[o], items[i].line)
  IN /\ o # 0 /\ ~Dead(i) /\ ~OnTicket(i)
     /\ Ending(o, empty)
     /\ items' = [items EXCEPT ![i] = [items[i] EXCEPT !.status = "VOIDED", !.line = 0]]
     /\ orders' = [orders EXCEPT ![o] = IF empty THEN [less EXCEPT !.status = "VOIDED"] ELSE less]
     /\ empty => Unlocked(ToRelease(o))
     /\ tables' = IF empty THEN Released(o) ELSE tables
     /\ UNCHANGED <<tickets, payments, approvals, sessions, kitchenTx, closeTx, edits, moves, retries>>

----------------------------------------------------------------------------
(* Approvals. *)

Request(o, i, type, d) ==
  /\ Exists(o)
  /\ i \in LinesOf(o) \cup {0}
  /\ \E a \in FreshApproval :
       approvals' = [approvals EXCEPT ![a] = [order |-> o, item |-> i, type |-> type,
                                              discount |-> d, status |-> "PENDING"]]
  /\ UNCHANGED <<orders, items, tickets, payments, sessions, tables, kitchenTx, closeTx, endings, edits,
                 moves, retries>>

\* request_discount, request_cancellation
RequestDiscount(o, i, d)  == Request(o, i, "DISCOUNT", d)
RequestCancellation(o, i) == Request(o, i, IF i = 0 THEN "ORDER_VOID" ELSE "ITEM_CANCELLATION",
                                           NoDiscount)

Resolve(a, status) == approvals' = [approvals EXCEPT ![a].status = status]

\* reject_discount, reject_cancellation
Reject(a) ==
  /\ Pending(a)
  /\ Resolve(a, "REJECTED")
  /\ UNCHANGED <<orders, items, tickets, payments, sessions, tables, kitchenTx, closeTx, endings, edits,
                 moves, retries>>

\* approve_discount: the amount is computed from the order as it is now.
Reduction(base, d) ==
  LET amount == IF d.kind = "PERCENTAGE" THEN Percent(base, d.value) ELSE d.value
  IN IF amount < base THEN amount ELSE base
ApproveDiscount(a) ==
  LET o    == approvals[a].order
      i    == approvals[a].item
      base == IF i = 0 THEN orders[o].subtotal ELSE items[i].line
  IN /\ Pending(a) /\ approvals[a].type = "DISCOUNT"
     /\ Unheld(o) /\ (i # 0 => i \in LinesOf(o))
     /\ orders' = [orders EXCEPT ![o] =
                     Recalculated([@ EXCEPT !.discount =
                                     orders[o].discount + Reduction(base, approvals[a].discount)])]
     /\ Resolve(a, "APPROVED")
     /\ UNCHANGED <<items, tickets, payments, sessions, tables, kitchenTx, closeTx, endings, edits, moves, retries>>

Withdrawn(ls, status) ==
  [i \in ItemIds |-> IF i \in ls THEN [items[i] EXCEPT !.status = status] ELSE items[i]]

\* approve_cancellation of a whole order
ApproveVoid(a) ==
  LET o == approvals[a].order IN
  /\ Pending(a) /\ approvals[a].type = "ORDER_VOID"
  /\ Completed(o) = {}
  /\ Ending(o, TRUE) /\ Unlocked(ToRelease(o))
  /\ items' = Withdrawn(LiveLines(o), "VOIDED")
  /\ orders' = [orders EXCEPT ![o].status = "VOIDED"]
  /\ tables' = Released(o)
  /\ Resolve(a, "APPROVED")
  /\ UNCHANGED <<tickets, payments, sessions, kitchenTx, closeTx, edits, moves, retries>>

\* approve_cancellation of a line that is (still) on this order
ApproveItemCancellation(a) ==
  LET o    == approvals[a].order
      ls   == {approvals[a].item} \cap LinesOf(o)
      last == LiveLines(o) \subseteq ls
      less == Relieved(orders[o], LineTotal(ls))
  IN /\ Pending(a) /\ approvals[a].type = "ITEM_CANCELLATION"
     /\ Completed(o) = {}
     /\ Ending(o, last) /\ (last => Unlocked(ToRelease(o)))
     /\ items' = Withdrawn(ls, "CANCELLED")
     /\ orders' = [orders EXCEPT ![o] = IF last THEN [less EXCEPT !.status = "CANCELLED"] ELSE less]
     /\ tables' = IF last THEN Released(o) ELSE tables
     /\ Resolve(a, "APPROVED")
     /\ UNCHANGED <<tickets, payments, sessions, kitchenTx, closeTx, edits, moves, retries>>
=============================================================================
