----------------------------- MODULE FloorData -----------------------------
(***************************************************************************)
(* The rows that the handlers of one branch share: orders, lines, kitchen   *)
(* tickets, payments, approval requests, tables and table sessions          *)
(* (apps/api/app/models/orders.py, operations.py), and what the handlers of *)
(* Orders, Kitchen and FloorTables compute from them.                       *)
(*                                                                          *)
(* Rows are numbered in the order of their creation; 0 is NULL. Money is in *)
(* cents. Left out because no property here is about them: versions (a      *)
(* client may always have read the current one), notes, customers, tax and  *)
(* service charge (zero for every order the present code creates), stock    *)
(* and print jobs.                                                          *)
(***************************************************************************)
EXTENDS Integers, FiniteSets, FiniteSetsExt

CONSTANTS Tables,       \* the branch's tables
          Stations,     \* its preparation stations
          NoStation,    \* the NULL of preparation_station_id
          NoTx,         \* no handler in flight
          Menu,         \* products, as [price, station]
          Discounts,    \* what may be asked for, as [kind, value]
          MaxOrders, MaxItems, MaxBatches, MaxPayments, MaxApprovals, MaxSessions,
                        \* bounds: rows of each table (batches: per order and station)
          MaxQuantity,  \* bound: quantity of a line
          MaxEdits,     \* bound: item changes in all
          MaxMoves,     \* bound: transfers, merges and splits in all
          MaxRetries,   \* bound: commands that come late, to a closed session
          MaxLooks      \* bound: commands in flight at once that may end a check

ASSUME RowBounds == {MaxOrders, MaxItems, MaxBatches, MaxPayments, MaxApprovals, MaxSessions,
                     MaxQuantity, MaxEdits, MaxMoves, MaxRetries, MaxLooks} \subseteq Nat
ASSUME MenuAssumption == Menu \subseteq [price : Nat, station : Stations \cup {NoStation}]
ASSUME DiscountAssumption == Discounts \subseteq [kind : {"FIXED", "PERCENTAGE"}, value : Nat]
ASSUME StationAssumption == NoStation \notin Stations
ASSUME TableAssumption == 0 \notin Tables

VARIABLES orders, items, tickets, payments, approvals, sessions, tables,
          kitchenTx,    \* the ticket update in flight, per ticket
          closeTx,      \* the closing in flight, per table, which it has locked
          endTx,        \* what the command in flight that may end a check has read, per
                        \* order, which it has locked
          atOnce,       \* history: sessions two of whose checks were ended at once
          edits, moves, retries     \* bounds; retries counts the late commands

rows      == <<orders, items, tickets, payments, approvals, sessions, tables>>
endings   == <<endTx, atOnce>>
floorVars == <<rows, kitchenTx, closeTx, endings, edits, moves, retries>>

OrderIds    == 1..MaxOrders
ItemIds     == 1..MaxItems
PaymentIds  == 1..MaxPayments
ApprovalIds == 1..MaxApprovals
SessionIds  == 1..MaxSessions
TicketIds   == OrderIds \X Stations \X (1..MaxBatches)   \* uq_ticket_order_station_batch

FollowsKitchen == {"SUBMITTED", "AWAITING_APPROVAL", "ACCEPTED", "PREPARING",
                   "PARTIALLY_READY", "READY", "SERVED"}
ClosedStatus   == {"PAID", "CANCELLED", "VOIDED"}
OrderStatus    == FollowsKitchen \cup ClosedStatus \cup {"DRAFT", "BILL_REQUESTED", "PAYMENT_PENDING"}
DeadStatus     == {"CANCELLED", "VOIDED"}
PendingStatus  == {"DRAFT", "SUBMITTED"}
ItemStatus     == DeadStatus \cup PendingStatus \cup {"ACCEPTED", "PREPARING", "READY", "SERVED"}
TicketStatus   == {"NEW", "ACCEPTED", "PREPARING", "READY", "COMPLETED", "CANCELLED"}
TableState     == {"AVAILABLE", "ORDER_PENDING", "PREPARING", "READY", "BILL_REQUESTED",
                   "PAYMENT_PENDING", "CLEANING"}

NoOrder    == [status |-> "none", session |-> 0, subtotal |-> 0, discount |-> 0, total |-> 0]
NoItem     == [order |-> 0, status |-> "none", price |-> 0, station |-> NoStation,
               quantity |-> 0, line |-> 0, comp |-> FALSE]
NoTicket   == [status |-> "none", lines |-> {}]
NoPayment  == [order |-> 0, amount |-> 0, status |-> "none"]
NoDiscount == [kind |-> "none", value |-> 0]
NoApproval == [order |-> 0, item |-> 0, type |-> "none", discount |-> NoDiscount, status |-> "none"]
NoSession  == [table |-> 0, status |-> "none"]

----------------------------------------------------------------------------
(* Reading the rows. *)

Exists(o)     == orders[o].status # "none"
IsOpen(o)     == Exists(o) /\ orders[o].status \notin ClosedStatus
LinesOf(o)    == {i \in ItemIds : items[i].order = o}
Dead(i)       == items[i].status \in DeadStatus
LiveLines(o)  == {i \in LinesOf(o) : ~Dead(i)}
OnTicket(i)   == \E k \in TicketIds : i \in tickets[k].lines
LineTotal(ls) == SumFunctionOnSet([i \in ItemIds |-> items[i].line], ls)

Completed(o) == {p \in PaymentIds : payments[p].order = o /\ payments[p].status = "COMPLETED"}
Paid(o)      == SumFunctionOnSet([p \in PaymentIds |-> payments[p].amount], Completed(o))

OpenSessions(t) == {s \in SessionIds : sessions[s].table = t /\ sessions[s].status = "OPEN"}
ChecksOn(s)     == {o \in OrderIds : s # 0 /\ orders[o].session = s}
OpenChecks(s)   == {o \in ChecksOn(s) : IsOpen(o)}
TableOf(o)      == IF orders[o].session = 0 THEN 0 ELSE sessions[orders[o].session].table
OnOpenSession(o) == orders[o].session # 0 /\ sessions[orders[o].session].status = "OPEN"

\* The check, if any, that lines for table t go to: the latest open one. Handlers read the open session of a table
\* with scalar_one_or_none, so a second one would make them fail.
OneSession(t) == \A s1, s2 \in OpenSessions(t) : s1 = s2
LastCheck(t) == LET open == UNION {OpenChecks(s) : s \in OpenSessions(t)} IN
                {o \in open : \A p \in open : p <= o}

\* A row that a handler locks or writes must not be locked by a closing in flight.
Unlocked(t) == t \in Tables => closeTx[t] = NoTx
\* The same for an order that a command in flight has locked.
Unheld(o) == o \in OrderIds => endTx[o] = NoTx

\* The next row of a table whose used ids are given.
Fresh(ids, used) == {n \in ids \ used : \A m \in ids \ used : n <= m}
FreshOrder    == Fresh(OrderIds, {o \in OrderIds : Exists(o)})
FreshItem     == Fresh(ItemIds, {i \in ItemIds : items[i].status # "none"})
FreshPayment  == Fresh(PaymentIds, {p \in PaymentIds : payments[p].status # "none"})
FreshApproval == Fresh(ApprovalIds, {a \in ApprovalIds : approvals[a].status # "none"})
FreshSession  == Fresh(SessionIds, {s \in SessionIds : sessions[s].status # "none"})

\* _get_or_create_table_session: the open session of table t, or a new one.
SessionFor(t) == IF OpenSessions(t) = {} THEN FreshSession ELSE OpenSessions(t)

----------------------------------------------------------------------------
(* Computing new rows. *)

Floored(n) == IF n > 0 THEN n ELSE 0

\* recalculate_order_totals: the total follows from subtotal and discounts.
Recalculated(r) == [r EXCEPT !.total = Floored(r.subtotal - r.discount)]
\* Mutant: the subtotal is not kept from below zero.
RelievedBelowZero(r, n) == Recalculated([r EXCEPT !.subtotal = r.subtotal - n])

Charged(r, n)   == Recalculated([r EXCEPT !.subtotal = r.subtotal + n])
Relieved(r, n)  == Recalculated([r EXCEPT !.subtotal = Floored(r.subtotal - n)])

\* money: half of a cent is rounded up.
Percent(base, p) == (2 * base * p + 100) \div 200

\* A new line of q portions.
Line(o, product, q, status) ==
  [order |-> o, status |-> status, price |-> product.price, station |-> product.station,
   quantity |-> q, line |-> product.price * q, comp |-> FALSE]

\* Tables: the state of table t becomes s; an order without a table has none.
Shown(t, s) == IF t \in Tables THEN [tables EXCEPT ![t] = s] ELSE tables

(***************************************************************************)
(* _send_items_to_preparation: one ticket per station for the given lines,  *)
(* as they are in its.                                                      *)
(***************************************************************************)
Batch(o, st) == Cardinality({b \in 1..MaxBatches : tickets[<<o, st, b>>].status # "none"}) + 1
At(ls, its, st) == {i \in ls : its[i].station = st}
Routable(o, ls, its) ==      \* bound
  \A st \in Stations : At(ls, its, st) # {} => Batch(o, st) <= MaxBatches
\* Mutants: one ticket per order and station, ever; lines stay pending once routed.
TicketedFirst(o, ls, its) ==
  [k \in TicketIds |->
     IF k[1] = o /\ k[3] = 1 /\ Batch(o, k[2]) = 1 /\ At(ls, its, k[2]) # {}
     THEN [status |-> "NEW", lines |-> At(ls, its, k[2])]
     ELSE tickets[k]]
SentSilently(ls, its) == its

Ticketed(o, ls, its) ==
  [k \in TicketIds |->
     IF k[1] = o /\ k[3] = Batch(o, k[2]) /\ At(ls, its, k[2]) # {}
     THEN [status |-> "NEW", lines |-> At(ls, its, k[2])]
     ELSE tickets[k]]
Sent(ls, its) == [i \in ItemIds |-> IF i \in ls THEN [its[i] EXCEPT !.status = "ACCEPTED"] ELSE its[i]]
Accepted(r) ==
  [r EXCEPT !.status = IF r.status \in {"PREPARING", "PARTIALLY_READY"} THEN "PREPARING"
                                                                      ELSE "ACCEPTED"]

(***************************************************************************)
(* The end of a check: add_payment, _release_table_if_no_open_checks. The   *)
(* command has locked its own check only. It reads the session, its table   *)
(* and its other open checks without a lock and, at its commit, sends the   *)
(* table to cleaning if there were none.                                    *)
(***************************************************************************)
LastOpen(o) == OnOpenSession(o) /\ OpenChecks(orders[o].session) \subseteq {o}
\* Mutant: checks that have ended count as open.
LookAtAll(o) ==
  [table     |-> IF OnOpenSession(o) /\ ChecksOn(orders[o].session) \subseteq {o} THEN TableOf(o) ELSE 0,
   vacant    |-> OnOpenSession(o) /\ tables[TableOf(o)] = "AVAILABLE",
   overtaken |-> FALSE]

\* What it reads; overtaken (history): another check of the session was ended since.
Look(o) ==
  [table     |-> IF LastOpen(o) THEN TableOf(o) ELSE 0,
   vacant    |-> OnOpenSession(o) /\ tables[TableOf(o)] = "AVAILABLE",
   overtaken |-> FALSE]

\* A command on check o commits; if it ends the check, from what it has read (a check
\* without a table reads nothing).
Seen(o) == IF orders[o].session = 0 THEN [table |-> 0, vacant |-> FALSE, overtaken |-> FALSE]
                                    ELSE endTx[o]
Ending(o, ends) ==
  LET s == orders[o].session IN
  \/ /\ ends /\ s # 0 /\ endTx[o] # NoTx
     /\ endTx' = [p \in OrderIds |->
                    IF p = o THEN NoTx
                    ELSE IF p \in ChecksOn(s) /\ endTx[p] # NoTx
                    THEN [endTx[p] EXCEPT !.overtaken = TRUE]
                    ELSE endTx[p]]
     /\ atOnce' = IF endTx[o].overtaken THEN atOnce \cup {s} ELSE atOnce
  \/ /\ ~ends \/ s = 0
     /\ endTx[o] = NoTx /\ UNCHANGED endings

\* Mutant: the table is free at once.
FreedAtOnce(o) == Shown(Seen(o).table, "AVAILABLE")

\* _release_table_if_no_open_checks: check o has lost its last live line.
ToRelease(o) == IF Seen(o).vacant THEN 0 ELSE Seen(o).table
Released(o)  == Shown(ToRelease(o), "CLEANING")
=============================================================================
