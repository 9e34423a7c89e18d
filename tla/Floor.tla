------------------------------- MODULE Floor --------------------------------
(***************************************************************************)
(* The floor of one branch: waiters, cashiers and managers (Orders, Moves), *)
(* preparation stations (Kitchen) and the closing of tables (FloorTables)   *)
(* work on the same rows at once. The steps of different requests           *)
(* interleave as their row locks allow.                                     *)
(***************************************************************************)
EXTENDS Orders, Moves, Kitchen, FloorTables

FloorInit ==
  /\ orders = [o \in OrderIds |-> NoOrder]
  /\ items = [i \in ItemIds |-> NoItem]
  /\ tickets = [k \in TicketIds |-> NoTicket]
  /\ payments = [p \in PaymentIds |-> NoPayment]
  /\ approvals = [a \in ApprovalIds |-> NoApproval]
  /\ sessions = [s \in SessionIds |-> NoSession]
  /\ tables = [t \in Tables |-> "AVAILABLE"]
  /\ kitchenTx = [k \in TicketIds |-> NoTx]
  /\ closeTx = [t \in Tables |-> NoTx]
  /\ endTx = [o \in OrderIds |-> NoTx] /\ atOnce = {}
  /\ edits = 0 /\ moves = 0 /\ retries = 0

Intake ==
  \E m \in Menu, q \in Quantities, auto \in BOOLEAN :
    \/ \E t \in Tables : CreateAtTable(t, m, q, auto)
    \/ CreateTakeaway(m, q, auto)
    \/ \E o \in OrderIds : Append(o, m, q, auto)

Service == \E o \in OrderIds : AcceptOrder(o) \/ RequestBill(o)

Settlement ==
  \/ \E o \in OrderIds : LookAround(o) \/ GiveUp(o) \/ \E amount \in 1..Remaining(o) : AddPayment(o, amount)
  \/ \E p \in PaymentIds : RefundPayment(p)

Editing ==
  \E i \in ItemIds : \/ Increase(i) \/ Decrease(i)
                     \/ SetComplimentary(i) \/ RemoveComplimentary(i)
                     \/ RemoveUnprinted(i)

Asking ==
  \E o \in OrderIds, i \in ItemIds \cup {0} :
    \/ RequestCancellation(o, i)
    \/ \E d \in Discounts : RequestDiscount(o, i, d)
Resolving ==
  \E a \in ApprovalIds : \/ Reject(a) \/ ApproveDiscount(a)
                         \/ ApproveVoid(a) \/ ApproveItemCancellation(a)

MovingLines ==
  \/ \E o \in OrderIds, t \in Tables : TransferTable(o, t) \/ MergeTable(o, t)
  \/ \E o \in OrderIds : \E ls \in SUBSET LinesOf(o) : SplitCheck(o, ls)
  \/ \E i \in ItemIds, t \in Tables, q \in Quantities : TransferItems(i, t, q)

Preparation ==
  \E k \in TicketIds : \/ \E status \in TicketStatus : BeginTicket(k, status)
                       \/ CommitTicket(k)

Closing ==
  \E t \in Tables : \/ \E s \in SessionIds : BeginClose(t, s) \/ RepeatClose(t, s)
                    \/ CommitClose(t)

FloorNext == \/ Intake \/ Service \/ Settlement \/ Editing \/ Asking \/ Resolving
             \/ MovingLines \/ Preparation \/ Closing
FloorSpec == FloorInit /\ [][FloorNext]_floorVars

----------------------------------------------------------------------------
\* The rows are well typed, and rows are used in the order of their numbers.
KitchenUpdate == [status : TicketStatus, lines : SUBSET ItemIds, order : OrderStatus \cup {"keep"},
                  table : Tables \cup {0}, shown : TableState \cup {"keep"}]
Reading == [table : Tables \cup {0}, vacant : BOOLEAN, overtaken : BOOLEAN]
Closure == [session : SessionIds, zero : SUBSET OrderIds]
FloorTypeOK ==
  /\ orders \in [OrderIds -> [status : OrderStatus \cup {"none"}, session : SessionIds \cup {0},
                              subtotal : Nat, discount : Nat, total : Nat]]
  /\ items \in [ItemIds -> [order : OrderIds \cup {0}, status : ItemStatus \cup {"none"},
                            price : Nat, station : Stations \cup {NoStation},
                            quantity : 0..MaxQuantity, line : Nat, comp : BOOLEAN]]
  /\ tickets \in [TicketIds -> [status : TicketStatus \cup {"none"}, lines : SUBSET ItemIds]]
  /\ payments \in [PaymentIds -> [order : OrderIds \cup {0}, amount : Nat,
                                  status : {"none", "COMPLETED", "REFUNDED"}]]
  /\ \A a \in ApprovalIds : /\ approvals[a].order \in OrderIds \cup {0}
                            /\ approvals[a].item \in ItemIds \cup {0}
                            /\ approvals[a].discount \in Discounts \cup {NoDiscount}
                            /\ approvals[a].status \in {"none", "PENDING", "APPROVED", "REJECTED"}
  /\ sessions \in [SessionIds -> [table : Tables \cup {0}, status : {"none", "OPEN", "CLOSED"}]]
  /\ tables \in [Tables -> TableState]
  /\ kitchenTx \in [TicketIds -> KitchenUpdate \cup {NoTx}]
  /\ closeTx \in [Tables -> Closure \cup {NoTx}]
  /\ endTx \in [OrderIds -> Reading \cup {NoTx}] /\ atOnce \subseteq SessionIds
  /\ \A o \in 2..MaxOrders : Exists(o) => Exists(o - 1)

----------------------------------------------------------------------------
(* Money. *)

Drift(o) == orders[o].subtotal - LineTotal(LiveLines(o))
Cancelled(a) == approvals[a].status = "APPROVED" /\ approvals[a].type = "ITEM_CANCELLATION"
CancelledAgain(o) == \E a, b \in ApprovalIds : /\ a # b /\ Cancelled(a) /\ Cancelled(b)
                                               /\ approvals[a].item = approvals[b].item
                                               /\ approvals[a].order = o

\* What the stations change is not on the bill: a cancelled ticket leaves the subtotal as it
\* is, and an update read before a cancellation gives the line back.
Unworked  == \A k \in TicketIds : tickets[k].status \in {"none", "NEW"}
Undisturbed == moves = 0 /\ Unworked
Revoked(o) == \E a \in ApprovalIds : /\ approvals[a].status = "APPROVED" /\ approvals[a].type = "ORDER_VOID"
                                     /\ approvals[a].order = o

\* The subtotal of an open check is the sum of its live lines, and its total what
\* subtotal and discounts give, however additions, changes, gifts, removals and
\* approvals of old requests are mixed, unless one line was cancelled by two approvals,
\* or the check was voided by one: a closing that had read it before makes it PAID, and a
\* payment open again. (As long as nothing was moved and no station has reported.)
TotalsFollowLines ==
  \A o \in OrderIds :
    IsOpen(o) => /\ orders[o] = Recalculated(orders[o])
                 /\ Undisturbed => Drift(o) = 0 \/ CancelledAgain(o) \/ Revoked(o)

\* A check that money was received for never costs more afterwards: every handler that
\* adds lines to a check, edits one, merges or moves lines into it checks the payments.
PaidCheckNeverGrows ==
  [][\A o \in OrderIds : Completed(o) # {} => orders'[o].total <= orders[o].total]_floorVars

\* Moving lines between checks or checks between tables creates and loses no portion and
\* no money, in any order of splits, merges and partial transfers, where each line costs its
\* portions or is a gift. (A gift that was merged is neither: see Copies.)
Live == {i \in ItemIds : items[i].order # 0 /\ ~Dead(i)}
Portions == SumFunctionOnSet([i \in ItemIds |-> items[i].quantity], Live)
CostsItsPortions(i) == items[i].comp \/ items[i].line = items[i].price * items[i].quantity
MovesConserveLines ==
  [][moves' # moves /\ (\A i \in Live : CostsItsPortions(i)) => /\ Portions' = Portions
                                                              /\ LineTotal(Live)' = LineTotal(Live)]_floorVars

----------------------------------------------------------------------------
(* The kitchen. *)

\* No line is routed twice: it is on one ticket at most, and at its own station
\* (docs/order-lifecycle.md:132), whatever is accepted, appended, split and merged.
LinesRoutedOnce ==
  \A i \in ItemIds, k \in TicketIds :
    i \in tickets[k].lines => /\ items[i].station = k[2]
                              /\ \A j \in TicketIds : i \in tickets[j].lines => j = k

\* No line is lost between the waiter and the kitchen: one that counts as accepted and
\* has a station is on a ticket. (Until lines are moved: the copies that a merge or a
\* transfer makes are on none.)
AcceptedLinesReachKitchen ==
  moves = 0 => \A i \in ItemIds : /\ items[i].status \in ItemStatus \ (DeadStatus \cup PendingStatus)
                                  /\ items[i].station # NoStation
                                  => OnTicket(i)

----------------------------------------------------------------------------
(* Tables. *)

\* A table has one open session at most, although nothing in the schema says so and
\* every handler that finds two of them fails. (Until a command comes late: see LateMerge.)
OneOpenSession == retries = 0 => \A t \in Tables : OneSession(t)

\* A table that shows as AVAILABLE has no open session. (Until a command comes late.)
FreeTableIsFree == retries = 0 => \A t \in Tables : tables[t] = "AVAILABLE" => OpenSessions(t) = {}

\* No phantom guests: where every check of an open session has ended, the table shows
\* CLEANING (_release_table_if_no_open_checks, add_payment), unless two of its checks were
\* ended at once: then each command saw the other check open, and neither released the
\* table. (As long as nothing was moved, no station has reported and no command has come late.)
NoPhantomTable ==
  Undisturbed /\ retries = 0 =>
    \A t \in Tables : \A s \in OpenSessions(t) \ atOnce : OpenChecks(s) = {} => tables[t] = "CLEANING"
=============================================================================
