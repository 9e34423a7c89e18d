------------------------------- MODULE Moves --------------------------------
(***************************************************************************)
(* Commands that move lines between checks and checks between tables        *)
(* (apps/api/app/services/orders.py). They lock the source order, then the  *)
(* destination order or table; two that wait for each other are resolved by *)
(* the database, which refuses one of them.                                 *)
(***************************************************************************)
EXTENDS FloorData

Moving == moves < MaxMoves /\ moves' = moves + 1

\* Money received or given binds a check to its lines.
Unbound(o) == Completed(o) = {} /\ orders[o].discount = 0

----------------------------------------------------------------------------
\* Mutant: a table that waits for cleaning counts as free.
NearlyVacant(t) == tables[t] \in {"AVAILABLE", "CLEANING"}

Vacant(t) == tables[t] = "AVAILABLE"

\* transfer_order_table: the whole session of order o goes to a free table.
Transferred(o, t) ==
  /\ OnOpenSession(o)
  /\ Vacant(t)
  /\ Unheld(o) /\ Unlocked(t) /\ Unlocked(TableOf(o))
  /\ sessions' = [sessions EXCEPT ![orders[o].session].table = t]
  /\ tables' = [tables EXCEPT ![TableOf(o)] = "AVAILABLE",
                              ![t] = IF orders[o].status \in {"READY", "PARTIALLY_READY"}
                                     THEN "READY" ELSE "PREPARING"]
  /\ UNCHANGED <<orders, items, tickets, payments, approvals, kitchenTx, closeTx, endings, edits, retries>>

TransferTable(o, t) == Moving /\ Transferred(o, t)

----------------------------------------------------------------------------
\* merge_table_order: copies of the live lines of o join check d at table t; o is
\* voided and its session closed. The copies forget that a line was complimentary.
FreeRows == {i \in ItemIds : items[i].status = "none"}
RowFor(l, ls) == {i \in FreeRows : Cardinality({j \in FreeRows : j < i}) = Cardinality({k \in ls : k < l})}
Copies(ls, d) ==
  [i \in ItemIds |->
     IF i \in ls THEN [items[i] EXCEPT !.status = "VOIDED"]
     ELSE IF \E l \in ls : i \in RowFor(l, ls)
     THEN [items[CHOOSE l \in ls : i \in RowFor(l, ls)] EXCEPT !.order = d, !.comp = FALSE]
     ELSE items[i]]

\* The source's own state is not looked at: it may be merged again, or after its session
\* was closed, and its table is freed all the same.
LateMerge(o) == orders[o].session # 0 /\ ~OnOpenSession(o)

Merged(o, d, t) ==
  /\ d # o
  /\ Unbound(o) /\ Completed(d) = {}
  /\ Unheld(o) /\ Unheld(d) /\ Unlocked(t) /\ Unlocked(TableOf(o))
  /\ \A l \in LiveLines(o) : RowFor(l, LiveLines(o)) # {}      \* bound
  /\ items' = Copies(LiveLines(o), d)
  /\ orders' = [orders EXCEPT ![d] = Charged(@, LineTotal(LiveLines(o))), ![o].status = "VOIDED"]
  /\ sessions' = IF orders[o].session = 0 THEN sessions
                 ELSE [sessions EXCEPT ![orders[o].session].status = "CLOSED"]
  /\ tables' = [Shown(TableOf(o), "AVAILABLE") EXCEPT ![t] = "PREPARING"]
  /\ IF LateMerge(o) THEN retries < MaxRetries /\ retries' = retries + 1
                     ELSE UNCHANGED retries
  /\ UNCHANGED <<tickets, payments, approvals, kitchenTx, closeTx, endings, edits>>

MergeTable(o, t) ==
  /\ Moving /\ Exists(o) /\ OneSession(t)
  /\ \/ OpenSessions(t) = {} /\ Transferred(o, t)
     \/ \E d \in LastCheck(t) : Merged(o, d, t)

----------------------------------------------------------------------------
\* split_check_by_items: the lines ls become a check of their own at the same table.
SplitCheck(o, ls) ==
  /\ Moving /\ Exists(o)
  /\ ls # {} /\ ls \subseteq LinesOf(o)
  /\ Cardinality(ls) < Cardinality(LiveLines(o))
  /\ Unbound(o)
  /\ orders[o].subtotal >= LineTotal(ls)      \* order_subtotal_nonnegative
  /\ Unheld(o) /\ Unlocked(TableOf(o))
  /\ \E n \in FreshOrder :
       /\ orders' = [orders EXCEPT
                       ![n] = Charged([NoOrder EXCEPT !.status = orders[o].status,
                                                      !.session = orders[o].session], LineTotal(ls)),
                       ![o] = Relieved(@, LineTotal(ls))]
       /\ items' = [i \in ItemIds |-> IF i \in ls THEN [items[i] EXCEPT !.order = n] ELSE items[i]]
  /\ UNCHANGED <<tickets, payments, approvals, sessions, tables, kitchenTx, closeTx, endings, edits, retries>>

----------------------------------------------------------------------------
\* Mutant: the original keeps the portions that were moved.
MovedToo(i, d, n, q) ==
  [items EXCEPT ![n] = [items[i] EXCEPT !.order = d, !.quantity = q, !.line = items[i].price * q],
                ![i] = IF q = items[i].quantity THEN [@ EXCEPT !.status = "VOIDED"] ELSE @]

Moved(i, d, n, q) ==
  LET cost(k) == IF items[i].comp THEN 0 ELSE items[i].price * k
      rest    == items[i].quantity - q
  IN [items EXCEPT
        ![n] = [Line(d, items[i], q, items[i].status) EXCEPT !.comp = items[i].comp, !.line = cost(q)],
        ![i] = IF rest = 0 THEN [items[i] EXCEPT !.status = "VOIDED"]
               ELSE [items[i] EXCEPT !.quantity = rest, !.line = cost(rest)]]

\* transfer_order_items: q portions of line i go to the check at table t, which is
\* opened if there is none. (Several lines in one call are several such steps.)
TransferItems(i, t, q) ==
  LET o     == items[i].order
      cost  == IF items[i].comp THEN 0 ELSE items[i].price * q
      empty == LiveLines(o) \subseteq {i} /\ q = items[i].quantity
      left  == Relieved(orders[o], cost)
      shown == IF items[i].status \in PendingStatus THEN "ORDER_PENDING" ELSE "PREPARING"
  IN /\ Moving /\ OneSession(t)
     /\ o # 0 /\ IsOpen(o) /\ orders[o].session # 0 /\ TableOf(o) # t
     /\ ~Dead(i) /\ q <= items[i].quantity
     /\ Unbound(o) /\ \A d \in LastCheck(t) : Unbound(d)
     /\ Ending(o, empty) /\ \A d \in LastCheck(t) : Unheld(d)
     /\ Unlocked(t) /\ (empty => Unlocked(ToRelease(o)))
     /\ \E n \in FreshItem, s \in SessionFor(t),
           d \in IF LastCheck(t) = {} THEN FreshOrder ELSE LastCheck(t) :
          /\ sessions' = [sessions EXCEPT ![s] = [table |-> t, status |-> "OPEN"]]
          /\ items' = Moved(i, d, n, q)
          /\ orders' = [orders EXCEPT
                          ![o] = IF empty THEN [left EXCEPT !.status = "VOIDED"] ELSE left,
                          ![d] = IF d \in LastCheck(t) THEN Charged(@, cost)
                                 ELSE Charged([NoOrder EXCEPT !.status = orders[o].status,
                                                              !.session = s], cost)]
     /\ tables' = [(IF empty THEN Released(o) ELSE tables) EXCEPT ![t] = shown]
     /\ UNCHANGED <<tickets, payments, approvals, kitchenTx, closeTx, edits, retries>>
=============================================================================
