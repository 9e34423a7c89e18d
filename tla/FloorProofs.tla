---------------------------- MODULE FloorProofs -----------------------------
(***************************************************************************)
(* Proofs about the floor, whatever waiters, managers and stations do at    *)
(* once and for all constants: no table has two open sessions, shows as     *)
(* free while it has one, or keeps phantom guests; every accepted           *)
(* line reaches the kitchen, and only once; a bill is the sum of its lines, *)
(* a paid check never grows, and moves conserve portions and money.         *)
(***************************************************************************)
EXTENDS Floor, SumProofs

(* Tables and their sessions. *)

Session == [table : Tables \cup {0}, status : {"none", "OPEN", "CLOSED"}]

\* A row of orders, as far as tables are concerned.
IsCheck(r) == /\ DOMAIN r = {"status", "session", "subtotal", "discount", "total"}
              /\ r.session \in SessionIds \cup {0}

\* A table that is being closed has no open session but the one that will be closed.
ClosingIsAlone == \A t \in Tables : closeTx[t] # NoTx => OpenSessions(t) = {closeTx[t].session}

\* A station that reports never shows a table as free.
KitchenFreesNothing == \A k \in TicketIds : kitchenTx[k] # NoTx => kitchenTx[k].shown # "AVAILABLE"

\* The inductive invariant. OneOpenSession needs FreeTableIsFree because a transfer trusts
\* the state of its destination, and that needs ClosingIsAlone: a closing frees its table
\* from what it read before.
TablesInv ==
  /\ DOMAIN orders = OrderIds /\ \A o \in OrderIds : IsCheck(orders[o])
  /\ sessions \in [SessionIds -> Session]
  /\ DOMAIN tables = Tables /\ DOMAIN closeTx = Tables /\ DOMAIN kitchenTx = TicketIds
  /\ retries \in Nat
  /\ KitchenFreesNothing
  /\ ClosingIsAlone
  /\ OneOpenSession
  /\ FreeTableIsFree

LEMMA TablesInit == FloorInit => TablesInv
  <1> SUFFICES ASSUME FloorInit PROVE TablesInv
    OBVIOUS
  <1>1. /\ DOMAIN orders = OrderIds /\ DOMAIN tables = Tables
        /\ DOMAIN closeTx = Tables /\ DOMAIN kitchenTx = TicketIds /\ retries \in Nat
    BY DEF FloorInit
  <1>2. \A o \in OrderIds : IsCheck(orders[o])
    BY DEF FloorInit, IsCheck, NoOrder
  <1>3. sessions \in [SessionIds -> Session]
    BY DEF FloorInit, Session, NoSession
  <1>4. \A t \in Tables : OpenSessions(t) = {}
    BY DEF FloorInit, OpenSessions, NoSession
  <1>5. KitchenFreesNothing /\ ClosingIsAlone
    BY DEF FloorInit, KitchenFreesNothing, ClosingIsAlone
  <1>6. OneOpenSession /\ FreeTableIsFree
    BY <1>4 DEF OneOpenSession, OneSession, FreeTableIsFree
  <1>7. QED
    BY <1>1, <1>2, <1>3, <1>5, <1>6 DEF TablesInv

----------------------------------------------------------------------------
(* Steps that leave the sessions alone. *)

\* Orders keep their sessions.
ChecksStay == DOMAIN orders' = OrderIds /\ \A o \in OrderIds : IsCheck(orders'[o])

\* No table becomes free.
NoneFreed == DOMAIN tables' = Tables
             /\ \A t \in Tables : tables'[t] = tables[t] \/ tables'[t] # "AVAILABLE"

LEMMA OpenUnchanged ==
  ASSUME UNCHANGED sessions, NEW t
  PROVE  OpenSessions(t)' = OpenSessions(t) /\ OneSession(t)' = OneSession(t)
  BY DEF OpenSessions, OneSession

LEMMA QuietStep ==
  ASSUME TablesInv, ChecksStay, NoneFreed, UNCHANGED <<sessions, kitchenTx, closeTx, retries>>
  PROVE  TablesInv'
  <1>1. \A t \in Tables : OpenSessions(t)' = OpenSessions(t) /\ OneSession(t)' = OneSession(t)
    BY OpenUnchanged
  <1>2. ClosingIsAlone' /\ OneOpenSession' /\ FreeTableIsFree'
    BY <1>1 DEF TablesInv, NoneFreed, ClosingIsAlone, OneOpenSession, FreeTableIsFree
  <1>3. KitchenFreesNothing'
    BY DEF TablesInv, KitchenFreesNothing
  <1>4. QED
    BY <1>2, <1>3 DEF TablesInv, ChecksStay, NoneFreed

LEMMA CheckKept ==
  ASSUME NEW r, IsCheck(r), NEW v
  PROVE  /\ IsCheck([r EXCEPT !.status = v])
         /\ IsCheck([r EXCEPT !.subtotal = v])
         /\ IsCheck([r EXCEPT !.discount = v])
         /\ IsCheck([r EXCEPT !.total = v])
  BY DEF IsCheck

LEMMA CheckCharged ==
  ASSUME NEW r, IsCheck(r), NEW n
  PROVE  IsCheck(Recalculated(r)) /\ IsCheck(Charged(r, n)) /\ IsCheck(Relieved(r, n))
         /\ IsCheck(Accepted(r)) /\ IsCheck(Reopened(r))
  <1>1. \A q : IsCheck(q) => IsCheck(Recalculated(q))
    BY CheckKept DEF Recalculated
  <1>2. IsCheck(Charged(r, n)) /\ IsCheck(Relieved(r, n))
    BY <1>1, CheckKept DEF Charged, Relieved
  <1>3. IsCheck(Accepted(r)) /\ IsCheck(Reopened(r))
    BY CheckKept DEF Accepted, Reopened
  <1>4. QED
    BY <1>1, <1>2, <1>3

\* One order changes.
LEMMA OneCheck ==
  ASSUME TablesInv, NEW o, NEW r, o \in OrderIds => IsCheck(r), orders' = [orders EXCEPT ![o] = r]
  PROVE  ChecksStay
  BY DEF TablesInv, ChecksStay

LEMMA ShowsBusy ==
  ASSUME TablesInv, NEW t, NEW s, s # "AVAILABLE", tables' = Shown(t, s)
  PROVE  NoneFreed
  BY DEF TablesInv, NoneFreed, Shown

LEMMA ShowsReleased ==
  ASSUME TablesInv, NEW o, tables' = Released(o) \/ UNCHANGED tables
  PROVE  NoneFreed
  <1>1. CASE tables' = Shown(ToRelease(o), "CLEANING")
    BY <1>1, ShowsBusy
  <1>2. CASE UNCHANGED tables
    BY <1>2 DEF TablesInv, NoneFreed
  <1>3. QED
    BY <1>1, <1>2 DEF Released

----------------------------------------------------------------------------
(* Commands on orders. *)

LEMMA AppendQuiet ==
  ASSUME TablesInv, NEW o, NEW m, NEW q, NEW auto, o \in OrderIds, Append(o, m, q, auto)
  PROVE  TablesInv'
  <1>1. PICK i \in FreshItem :
          LET its     == [items EXCEPT ![i] = Line(o, m, q, "SUBMITTED")]
              working == [orders[o] EXCEPT !.status = IF @ = "BILL_REQUESTED" THEN "ACCEPTED" ELSE @]
              charged == Charged(working, its[i].line)
          IN \/ /\ orders' = [orders EXCEPT ![o] = Accepted(charged)]
                /\ tables' = Shown(TableOf(o), "PREPARING")
             \/ /\ orders' = [orders EXCEPT ![o] = charged]
                /\ tables' = Shown(TableOf(o), "ORDER_PENDING")
    BY ZenonT(60) DEF Append
  <1> DEFINE its     == [items EXCEPT ![i] = Line(o, m, q, "SUBMITTED")]
             working == [orders[o] EXCEPT !.status = IF @ = "BILL_REQUESTED" THEN "ACCEPTED" ELSE @]
             charged == Charged(working, its[i].line)
  <1>2. IsCheck(orders[o])
    BY DEF TablesInv
  <1>3. IsCheck(working)
    BY <1>2, CheckKept
  <1>4. \/ /\ orders' = [orders EXCEPT ![o] = Accepted(charged)]
           /\ tables' = Shown(TableOf(o), "PREPARING")
        \/ /\ orders' = [orders EXCEPT ![o] = charged]
           /\ tables' = Shown(TableOf(o), "ORDER_PENDING")
    BY <1>1
  <1> HIDE DEF its, working
  <1>5. IsCheck(charged) /\ IsCheck(Accepted(charged))
    BY <1>3, CheckCharged
  <1> HIDE DEF charged
  <1>6. ChecksStay
    BY <1>4, <1>5, OneCheck
  <1>7. NoneFreed
    BY <1>4, ShowsBusy
  <1>8. UNCHANGED <<sessions, kitchenTx, closeTx, retries>>
    BY DEF Append
  <1>9. QED
    BY <1>6, <1>7, <1>8, QuietStep

LEMMA OpenQuiet ==
  ASSUME TablesInv, NEW t, NEW s \in SessionIds \cup {0}, NEW m, NEW q, NEW auto, Open(t, s, m, q, auto)
  PROVE  ChecksStay /\ \E shown \in {"PREPARING", "ORDER_PENDING"} : tables' = Shown(t, shown)
  <1>1. PICK o \in FreshOrder, i \in FreshItem :
          LET its   == [items EXCEPT ![i] = Line(o, m, q, "SUBMITTED")]
              fresh == Charged([NoOrder EXCEPT !.status = "SUBMITTED", !.session = s], its[i].line)
          IN \/ /\ orders' = [orders EXCEPT ![o] = Accepted(fresh)]
                /\ tables' = Shown(t, "PREPARING")
             \/ /\ orders' = [orders EXCEPT ![o] = fresh]
                /\ tables' = Shown(t, "ORDER_PENDING")
    BY ZenonT(60) DEF Open
  <1> DEFINE its   == [items EXCEPT ![i] = Line(o, m, q, "SUBMITTED")]
             row   == [NoOrder EXCEPT !.status = "SUBMITTED", !.session = s]
             fresh == Charged(row, its[i].line)
  <1>2. IsCheck(row)
    BY DEF IsCheck, NoOrder
  <1>3. \/ /\ orders' = [orders EXCEPT ![o] = Accepted(fresh)]
           /\ tables' = Shown(t, "PREPARING")
        \/ /\ orders' = [orders EXCEPT ![o] = fresh]
           /\ tables' = Shown(t, "ORDER_PENDING")
    BY <1>1
  <1> HIDE DEF its, row
  <1>4. IsCheck(fresh) /\ IsCheck(Accepted(fresh))
    BY <1>2, CheckCharged
  <1> HIDE DEF fresh
  <1>5. QED
    BY <1>3, <1>4, OneCheck

\* A session is opened, or found, at a table that is not being closed.
LEMMA SessionOpened ==
  ASSUME TablesInv, NEW t \in Tables, Unlocked(t), OneSession(t), NEW s \in SessionFor(t),
         sessions' = [sessions EXCEPT ![s] = [table |-> t, status |-> "OPEN"]],
         NoneFreed, tables'[t] # "AVAILABLE", ChecksStay, UNCHANGED <<kitchenTx, closeTx, retries>>
  PROVE  TablesInv'
  <1>1. s \in SessionIds
    BY DEF SessionFor, OpenSessions, FreshSession, Fresh
  <1>2. sessions' \in [SessionIds -> Session]
    BY <1>1 DEF TablesInv, Session
  <1>3. sessions[s].status = "OPEN" => sessions[s].table = t
    <2>1. s \in OpenSessions(t) \/ s \in FreshSession
      BY DEF SessionFor
    <2>2. s \in FreshSession => sessions[s].status = "none"
      BY DEF FreshSession, Fresh
    <2>3. QED
      BY <2>1, <2>2 DEF OpenSessions
  <1>4. \A u \in Tables \ {t} : OpenSessions(u)' = OpenSessions(u)
    BY <1>1, <1>3 DEF TablesInv, Session, OpenSessions
  <1>5. OpenSessions(t)' = {s}
    <2>1. OpenSessions(t)' = OpenSessions(t) \cup {s}
      BY <1>1 DEF TablesInv, OpenSessions
    <2>2. OpenSessions(t) \subseteq {s}
      BY DEF SessionFor, OneSession
    <2>3. QED
      BY <2>1, <2>2
  <1>6. ClosingIsAlone'
    BY <1>4 DEF TablesInv, ClosingIsAlone, Unlocked
  <1>7. OneOpenSession'
    BY <1>4, <1>5 DEF TablesInv, OneOpenSession, OneSession
  <1>8. FreeTableIsFree'
    BY <1>4 DEF TablesInv, FreeTableIsFree, NoneFreed
  <1>9. KitchenFreesNothing'
    BY DEF TablesInv, KitchenFreesNothing
  <1>10. QED
    BY <1>2, <1>6, <1>7, <1>8, <1>9 DEF TablesInv, ChecksStay, NoneFreed

LEMMA IntakeKeepsTables == ASSUME TablesInv, Intake PROVE TablesInv'
  <1>1. ASSUME NEW t \in Tables, NEW m, NEW q, NEW auto, CreateAtTable(t, m, q, auto)
        PROVE  TablesInv'
    <2>1. CASE \E o \in LastCheck(t) : Append(o, m, q, auto)
      <3>1. LastCheck(t) \subseteq OrderIds
        BY DEF LastCheck, OpenChecks, ChecksOn
      <3>2. QED
        BY <2>1, <3>1, AppendQuiet
    <2>2. CASE /\ \E s \in SessionFor(t) :
                    /\ sessions' = [sessions EXCEPT ![s] = [table |-> t, status |-> "OPEN"]]
                    /\ Open(t, s, m, q, auto)
               /\ UNCHANGED <<kitchenTx, closeTx, retries>>
      <3>1. PICK s \in SessionFor(t) :
                    /\ sessions' = [sessions EXCEPT ![s] = [table |-> t, status |-> "OPEN"]]
                    /\ Open(t, s, m, q, auto)
        BY <2>2
      <3>2. s \in SessionIds
        BY DEF SessionFor, OpenSessions, FreshSession, Fresh
      <3>3. ChecksStay /\ \E shown \in {"PREPARING", "ORDER_PENDING"} : tables' = Shown(t, shown)
        BY <3>1, <3>2, OpenQuiet
      <3>4. NoneFreed
        BY <3>3, ShowsBusy
      <3>5. tables'[t] # "AVAILABLE"
        BY <3>3 DEF Shown, TablesInv
      <3>6. Unlocked(t) /\ OneSession(t)
        BY <1>1 DEF CreateAtTable
      <3>7. QED
        BY <2>2, <3>1, <3>3, <3>4, <3>5, <3>6, SessionOpened
    <2>3. QED
      BY <1>1, <2>1, <2>2 DEF CreateAtTable
  <1>2. ASSUME NEW m, NEW q, NEW auto, CreateTakeaway(m, q, auto)
        PROVE  TablesInv'
    <2>1. ChecksStay /\ \E shown \in {"PREPARING", "ORDER_PENDING"} : tables' = Shown(0, shown)
      BY <1>2, OpenQuiet DEF CreateTakeaway
    <2>2. NoneFreed
      BY <2>1, ShowsBusy
    <2>3. QED
      BY <1>2, <2>1, <2>2, QuietStep DEF CreateTakeaway
  <1>3. QED
    BY <1>1, <1>2, AppendQuiet DEF Intake

LEMMA ServiceKeepsTables == ASSUME TablesInv, Service PROVE TablesInv'
  <1>1. PICK o \in OrderIds : AcceptOrder(o) \/ RequestBill(o)
    BY DEF Service
  <1>2. \A p \in OrderIds : IsCheck(orders[p])
    BY DEF TablesInv
  <1>3. CASE AcceptOrder(o)
    <2>1. /\ orders' = [orders EXCEPT ![o] = Accepted(orders[o])]
          /\ tables' = Shown(TableOf(o), "PREPARING")
          /\ UNCHANGED <<sessions, kitchenTx, closeTx, retries>>
      BY <1>3, ZenonT(60) DEF AcceptOrder
    <2>2. QED
      BY <1>2, <2>1, CheckCharged, OneCheck, ShowsBusy, QuietStep
  <1>4. CASE RequestBill(o)
    <2>1. /\ orders' = [orders EXCEPT ![o] = [orders[o] EXCEPT !.status = "BILL_REQUESTED"]]
          /\ tables' = Shown(TableOf(o), "BILL_REQUESTED")
          /\ UNCHANGED <<sessions, kitchenTx, closeTx, retries>>
      BY <1>4, ZenonT(60) DEF RequestBill
    <2>2. IsCheck([orders[o] EXCEPT !.status = "BILL_REQUESTED"])
      BY <1>2, CheckKept
    <2>3. ChecksStay
      BY <2>1, <2>2, OneCheck
    <2>4. QED
      BY <2>1, <2>3, ShowsBusy, QuietStep
  <1>5. QED
    BY <1>1, <1>3, <1>4

LEMMA SettlementKeepsTables == ASSUME TablesInv, Settlement PROVE TablesInv'
  <1>1. ASSUME NEW o \in OrderIds, NEW amount, AddPayment(o, amount)
        PROVE  TablesInv'
    <2> DEFINE status == IF Settles(o, amount) THEN "PAID" ELSE "PAYMENT_PENDING"
    <2>1. /\ orders' = [orders EXCEPT ![o] = [orders[o] EXCEPT !.status = status]]
          /\ UNCHANGED <<sessions, kitchenTx, closeTx, retries>>
      BY <1>1, ZenonT(60) DEF AddPayment
    <2>2. IsCheck([orders[o] EXCEPT !.status = status])
      BY CheckKept DEF TablesInv
    <2>3. ChecksStay
      BY <2>1, <2>2, OneCheck
    <2>4. \/ UNCHANGED tables
          \/ tables' = Shown(TableOf(o), "PAYMENT_PENDING") \/ tables' = Shown(Seen(o).table, "CLEANING")
      BY <1>1, ZenonT(60) DEF AddPayment
    <2>5. NoneFreed
      BY <2>4, ShowsBusy, ShowsReleased
    <2>6. QED
      BY <2>1, <2>3, <2>5, QuietStep
  <1>2. ASSUME NEW p, RefundPayment(p)
        PROVE  TablesInv'
    <2>1. UNCHANGED <<orders, tables, sessions, kitchenTx, closeTx, retries>>
      BY <1>2 DEF RefundPayment
    <2>2. ChecksStay /\ NoneFreed
      BY <2>1 DEF TablesInv, ChecksStay, NoneFreed
    <2>3. QED
      BY <2>1, <2>2, QuietStep
  <1>3. ASSUME NEW o, LookAround(o) \/ GiveUp(o)
        PROVE  TablesInv'
    <2>1. UNCHANGED <<orders, tables, sessions, kitchenTx, closeTx, retries>>
      BY <1>3 DEF LookAround, GiveUp, rows
    <2>2. ChecksStay /\ NoneFreed
      BY <2>1 DEF TablesInv, ChecksStay, NoneFreed
    <2>3. QED
      BY <2>1, <2>2, QuietStep
  <1>4. QED
    BY <1>1, <1>2, <1>3 DEF Settlement

----------------------------------------------------------------------------
(* Changes of lines, and approvals. *)

LEMMA CheckStep ==
  ASSUME TablesInv, NEW o, NEW r, o \in OrderIds => IsCheck(r), orders' = [orders EXCEPT ![o] = r],
         tables' = Released(o) \/ UNCHANGED tables,
         UNCHANGED <<sessions, kitchenTx, closeTx, retries>>
  PROVE  TablesInv'
  BY OneCheck, ShowsReleased, QuietStep

LEMMA EditingKeepsTables == ASSUME TablesInv, Editing PROVE TablesInv'
  <1>1. PICK i \in ItemIds : \/ Increase(i) \/ Decrease(i)
                            \/ SetComplimentary(i) \/ RemoveComplimentary(i)
                            \/ RemoveUnprinted(i)
    BY DEF Editing
  <1> DEFINE o == items[i].order
             r == orders[o]
  <1>2. o \in OrderIds => IsCheck(r)
    BY DEF TablesInv
  <1>3. CASE Increase(i)
    <2>1. /\ \E n : orders' = [orders EXCEPT ![o] = Charged(Reopened(r), n)]
          /\ UNCHANGED <<tables, sessions, kitchenTx, closeTx, retries>>
      BY <1>3, ZenonT(60) DEF Increase
    <2>2. \A n : o \in OrderIds => IsCheck(Charged(Reopened(r), n))
      BY <1>2, CheckCharged
    <2> HIDE DEF o, r
    <2>3. QED
      BY <2>1, <2>2, CheckStep
  <1>4. CASE Decrease(i)
    <2>1. /\ \E n : orders' = [orders EXCEPT ![o] = IF items[i].comp THEN Recalculated(r)
                                                                    ELSE Relieved(r, n)]
          /\ UNCHANGED <<tables, sessions, kitchenTx, closeTx, retries>>
      BY <1>4, ZenonT(60) DEF Decrease
    <2>2. \A n : o \in OrderIds => IsCheck(Relieved(r, n)) /\ IsCheck(Recalculated(r))
      BY <1>2, CheckCharged
    <2> HIDE DEF o, r
    <2>3. QED
      BY <2>1, <2>2, CheckStep
  <1>5. CASE SetComplimentary(i) \/ RemoveComplimentary(i)
    <2>1. /\ \E n : \/ orders' = [orders EXCEPT ![o] = Relieved(r, n)]
                    \/ orders' = [orders EXCEPT ![o] = Charged(r, n)]
          /\ UNCHANGED <<tables, sessions, kitchenTx, closeTx, retries>>
      BY <1>5, ZenonT(60) DEF SetComplimentary, RemoveComplimentary
    <2>2. \A n : o \in OrderIds => IsCheck(Relieved(r, n)) /\ IsCheck(Charged(r, n))
      BY <1>2, CheckCharged
    <2> HIDE DEF o, r
    <2>3. QED
      BY <2>1, <2>2, CheckStep
  <1>6. CASE RemoveUnprinted(i)
    <2> DEFINE less == Relieved(r, items[i].line)
               void == [less EXCEPT !.status = "VOIDED"]
    <2>1. /\ \/ orders' = [orders EXCEPT ![o] = void]
             \/ orders' = [orders EXCEPT ![o] = less]
          /\ tables' = Released(o) \/ UNCHANGED tables
          /\ UNCHANGED <<sessions, kitchenTx, closeTx, retries>>
      BY <1>6, ZenonT(60) DEF RemoveUnprinted
    <2>2. o \in OrderIds => IsCheck(less)
      BY <1>2, CheckCharged
    <2> HIDE DEF o, r, less
    <2>3. o \in OrderIds => IsCheck(void)
      BY <2>2, CheckKept
    <2> HIDE DEF void
    <2>4. QED
      BY <2>1, <2>2, <2>3, CheckStep
  <1>7. QED
    BY <1>1, <1>3, <1>4, <1>5, <1>6

LEMMA ApprovalsKeepTables == ASSUME TablesInv, Asking \/ Resolving PROVE TablesInv'
  <1>1. ASSUME UNCHANGED <<orders, tables, sessions, kitchenTx, closeTx, retries>>
        PROVE  TablesInv'
    <2>1. ChecksStay /\ NoneFreed
      BY <1>1 DEF TablesInv, ChecksStay, NoneFreed
    <2>2. QED
      BY <1>1, <2>1, QuietStep
  <1>2. CASE Asking
    BY <1>1, <1>2 DEF Asking, RequestCancellation, RequestDiscount, Request
  <1>3. ASSUME NEW a \in ApprovalIds,
               Reject(a) \/ ApproveDiscount(a) \/ ApproveVoid(a) \/ ApproveItemCancellation(a)
        PROVE  TablesInv'
    <2> DEFINE o == approvals[a].order
               r == orders[o]
    <2>1. o \in OrderIds => IsCheck(r)
      BY DEF TablesInv
    <2>2. CASE Reject(a)
      BY <1>1, <2>2 DEF Reject
    <2>3. CASE ApproveDiscount(a)
      <3>1. /\ \E n : orders' = [orders EXCEPT ![o] = Recalculated([r EXCEPT !.discount = n])]
            /\ UNCHANGED <<tables, sessions, kitchenTx, closeTx, retries>>
        BY <2>3, ZenonT(60) DEF ApproveDiscount
      <3>2. \A n : o \in OrderIds => IsCheck([r EXCEPT !.discount = n])
        BY <2>1, CheckKept
      <3>3. \A n : o \in OrderIds => IsCheck(Recalculated([r EXCEPT !.discount = n]))
        BY <3>2, CheckCharged
      <3> HIDE DEF o, r
      <3>4. QED
        BY <3>1, <3>3, CheckStep
    <2>4. CASE ApproveVoid(a)
      <3>1. /\ orders' = [orders EXCEPT ![o] = [r EXCEPT !.status = "VOIDED"]]
            /\ tables' = Released(o)
            /\ UNCHANGED <<sessions, kitchenTx, closeTx, retries>>
        BY <2>4, ZenonT(60) DEF ApproveVoid
      <3>2. o \in OrderIds => IsCheck([r EXCEPT !.status = "VOIDED"])
        BY <2>1, CheckKept
      <3> HIDE DEF o, r
      <3>3. QED
        BY <3>1, <3>2, CheckStep
    <2>5. CASE ApproveItemCancellation(a)
      <3> DEFINE less == Relieved(r, LineTotal({approvals[a].item} \cap LinesOf(o)))
                 gone == [less EXCEPT !.status = "CANCELLED"]
      <3>1. /\ \/ orders' = [orders EXCEPT ![o] = gone]
               \/ orders' = [orders EXCEPT ![o] = less]
            /\ tables' = Released(o) \/ UNCHANGED tables
            /\ UNCHANGED <<sessions, kitchenTx, closeTx, retries>>
        BY <2>5, ZenonT(60) DEF ApproveItemCancellation
      <3>2. o \in OrderIds => IsCheck(less)
        BY <2>1, CheckCharged
      <3> HIDE DEF o, r, less
      <3>3. o \in OrderIds => IsCheck(gone)
        BY <3>2, CheckKept
      <3> HIDE DEF gone
      <3>4. QED
        BY <3>1, <3>2, <3>3, CheckStep
    <2>6. QED
      BY <1>3, <2>2, <2>3, <2>4, <2>5
  <1>4. QED
    BY <1>2, <1>3 DEF Resolving

----------------------------------------------------------------------------
(* The stations and the closing of tables. *)

LEMMA PreparationKeepsTables == ASSUME TablesInv, Preparation PROVE TablesInv'
  <1>1. PICK k \in TicketIds : \/ \E status \in TicketStatus : BeginTicket(k, status)
                              \/ CommitTicket(k)
    BY DEF Preparation
  <1>2. CASE \E status \in TicketStatus : BeginTicket(k, status)
    <2>1. PICK status \in TicketStatus : kitchenTx' = [kitchenTx EXCEPT ![k] = Update(k, status)]
      BY <1>2 DEF BeginTicket
    <2>2. Update(k, status).shown # "AVAILABLE"
      BY DEF Update, Changed
    <2>3. KitchenFreesNothing' /\ DOMAIN kitchenTx' = TicketIds
      BY <2>1, <2>2 DEF TablesInv, KitchenFreesNothing
    <2>4. UNCHANGED <<orders, tables, sessions, closeTx, retries>>
      BY <1>2 DEF BeginTicket, rows
    <2>5. \A t : OpenSessions(t)' = OpenSessions(t) /\ OneSession(t)' = OneSession(t)
      BY <2>4, OpenUnchanged
    <2>6. QED
      BY <2>3, <2>4, <2>5 DEF TablesInv, ClosingIsAlone, OneOpenSession, FreeTableIsFree
  <1>3. CASE CommitTicket(k)
    <2> DEFINE tx == kitchenTx[k]
    <2>1. tx # NoTx /\ tx.shown # "AVAILABLE"
      BY <1>3 DEF CommitTicket, TablesInv, KitchenFreesNothing
    <2>2. /\ \/ UNCHANGED orders
             \/ orders' = [orders EXCEPT ![k[1]] = [orders[k[1]] EXCEPT !.status = tx.order]]
          /\ UNCHANGED tables \/ tables' = Shown(tx.table, tx.shown)
          /\ kitchenTx' = [kitchenTx EXCEPT ![k] = NoTx]
          /\ UNCHANGED <<sessions, closeTx, retries>>
      BY <1>3, ZenonT(60) DEF CommitTicket
    <2>3. k[1] \in OrderIds => IsCheck([orders[k[1]] EXCEPT !.status = tx.order])
      BY CheckKept DEF TablesInv
    <2> HIDE DEF tx
    <2>4. ChecksStay
      <3>1. CASE UNCHANGED orders
        BY <3>1 DEF TablesInv, ChecksStay
      <3>2. QED
        BY <2>2, <2>3, <3>1, OneCheck
    <2>5. NoneFreed
      BY <2>1, <2>2, ShowsBusy, ShowsReleased
    <2>6. KitchenFreesNothing' /\ DOMAIN kitchenTx' = TicketIds
      BY <2>2 DEF TablesInv, KitchenFreesNothing
    <2>7. \A t : OpenSessions(t)' = OpenSessions(t) /\ OneSession(t)' = OneSession(t)
      BY <2>2, OpenUnchanged
    <2>8. ClosingIsAlone' /\ OneOpenSession' /\ FreeTableIsFree'
      BY <2>2, <2>5, <2>7 DEF TablesInv, NoneFreed, ClosingIsAlone, OneOpenSession, FreeTableIsFree
    <2>9. QED
      BY <2>2, <2>4, <2>5, <2>6, <2>8 DEF TablesInv, ChecksStay, NoneFreed
  <1>4. QED
    BY <1>1, <1>2, <1>3

LEMMA ClosingKeepsTables == ASSUME TablesInv, Closing PROVE TablesInv'
  <1>1. ASSUME NEW t \in Tables, NEW s \in SessionIds, BeginClose(t, s)
        PROVE  TablesInv'
    <2>1. /\ \E tx : tx.session = s /\ closeTx' = [closeTx EXCEPT ![t] = tx]
          /\ OpenSessions(t) = {s}
          /\ UNCHANGED <<orders, tables, sessions, kitchenTx, retries>>
      <3> DEFINE tx == [session |-> s, zero |-> {o \in ChecksOn(s) : ZeroTotal(o)}]
      <3>1. tx.session = s /\ closeTx' = [closeTx EXCEPT ![t] = tx]
        BY <1>1 DEF BeginClose
      <3>2. QED
        BY <1>1, <3>1 DEF BeginClose, rows
    <2>2. \A u : OpenSessions(u)' = OpenSessions(u) /\ OneSession(u)' = OneSession(u)
      BY <2>1, OpenUnchanged
    <2>3. ClosingIsAlone' /\ DOMAIN closeTx' = Tables
      BY <2>1, <2>2 DEF TablesInv, ClosingIsAlone
    <2>4. QED
      BY <2>1, <2>2, <2>3 DEF TablesInv, KitchenFreesNothing, OneOpenSession, FreeTableIsFree
  <1>2. ASSUME NEW t \in Tables, NEW s \in SessionIds, RepeatClose(t, s)
        PROVE  TablesInv'
    <2>1. /\ retries' = retries + 1 /\ tables' = Shown(t, "AVAILABLE")
          /\ UNCHANGED <<orders, sessions, kitchenTx, closeTx>>
      BY <1>2 DEF RepeatClose
    <2>2. retries' \in Nat /\ retries' # 0 /\ DOMAIN tables' = Tables
      BY <2>1 DEF TablesInv, Shown
    <2>3. \A u : OpenSessions(u)' = OpenSessions(u)
      BY <2>1, OpenUnchanged
    <2>4. QED
      BY <2>1, <2>2, <2>3
      DEF TablesInv, KitchenFreesNothing, ClosingIsAlone, OneOpenSession, FreeTableIsFree
  <1>3. ASSUME NEW t \in Tables, CommitClose(t)
        PROVE  TablesInv'
    <2> DEFINE s == closeTx[t].session
    <2>1. closeTx[t] # NoTx /\ OpenSessions(t) = {s}
      BY <1>3 DEF CommitClose, TablesInv, ClosingIsAlone
    <2>2. /\ orders' = [o \in OrderIds |-> IF o \in closeTx[t].zero
                                          THEN [orders[o] EXCEPT !.status = "PAID"] ELSE orders[o]]
          /\ sessions' = [sessions EXCEPT ![s] = [sessions[s] EXCEPT !.status = "CLOSED"]]
          /\ tables' = Shown(t, "AVAILABLE")
          /\ closeTx' = [closeTx EXCEPT ![t] = NoTx]
          /\ UNCHANGED <<kitchenTx, retries>>
      BY <1>3, ZenonT(60) DEF CommitClose
    <2>3. ChecksStay
      <3>1. \A o \in OrderIds : IsCheck(orders[o]) /\ IsCheck([orders[o] EXCEPT !.status = "PAID"])
        BY CheckKept DEF TablesInv
      <3>2. QED
        BY <2>2, <3>1 DEF ChecksStay
    <2> HIDE DEF s
    <2>4. s \in SessionIds /\ sessions[s].table = t
      BY <2>1 DEF OpenSessions
    <2>5. sessions' \in [SessionIds -> Session]
      BY <2>2, <2>4 DEF TablesInv, Session
    <2>6. /\ OpenSessions(t)' = {}
          /\ \A u \in Tables \ {t} : OpenSessions(u)' = OpenSessions(u)
      BY <2>1, <2>2, <2>4 DEF TablesInv, Session, OpenSessions
    <2>7. /\ DOMAIN tables' = Tables /\ DOMAIN closeTx' = Tables
          /\ \A u \in Tables \ {t} : tables'[u] = tables[u] /\ closeTx'[u] = closeTx[u]
          /\ closeTx'[t] = NoTx
      BY <2>2 DEF TablesInv, Shown
    <2>8. ClosingIsAlone'
      BY <2>6, <2>7 DEF TablesInv, ClosingIsAlone
    <2>9. OneOpenSession' /\ FreeTableIsFree'
      BY <2>2, <2>6, <2>7 DEF TablesInv, OneOpenSession, OneSession, FreeTableIsFree
    <2>10. KitchenFreesNothing'
      BY <2>2 DEF TablesInv, KitchenFreesNothing
    <2>11. QED
      BY <2>2, <2>3, <2>5, <2>7, <2>8, <2>9, <2>10 DEF TablesInv, ChecksStay
  <1>4. QED
    BY <1>1, <1>2, <1>3 DEF Closing

----------------------------------------------------------------------------
(* Moves. *)

\* The whole session moves: its old table has no other, its new one had none.
LEMMA TransferredKeepsTables ==
  ASSUME TablesInv, NEW o \in OrderIds, NEW t \in Tables, Transferred(o, t)
  PROVE  TablesInv'
  <1> DEFINE s == orders[o].session
             u == sessions[s].table
             shown == IF orders[o].status \in {"READY", "PARTIALLY_READY"} THEN "READY" ELSE "PREPARING"
  <1>1. /\ s \in SessionIds /\ sessions[s].status = "OPEN" /\ TableOf(o) = u
        /\ tables[t] = "AVAILABLE" /\ Unlocked(t) /\ Unlocked(u)
        /\ UNCHANGED <<orders, kitchenTx, closeTx, retries>>
    BY DEF Transferred, OnOpenSession, TableOf, Vacant, TablesInv, IsCheck
  <1>2. /\ sessions' = [sessions EXCEPT ![s] = [sessions[s] EXCEPT !.table = t]]
        /\ tables' = [tables EXCEPT ![u] = "AVAILABLE", ![t] = shown]
    BY <1>1, ZenonT(60) DEF Transferred
  <1>3. shown # "AVAILABLE"
    OBVIOUS
  <1> HIDE DEF s, shown
  <1>4. sessions[s] \in Session
    BY <1>1 DEF TablesInv
  <1>5. sessions' \in [SessionIds -> Session]
    BY <1>1, <1>2, <1>4 DEF TablesInv, Session
  <1>6. DOMAIN tables' = Tables /\ tables'[t] # "AVAILABLE"
        /\ \A v \in Tables \ {t, u} : tables'[v] = tables[v]
    BY <1>2, <1>3 DEF TablesInv
  <1>7. \A v \in Tables \ {t} : OpenSessions(v)' = OpenSessions(v) \ {s}
    BY <1>1, <1>2, <1>4, <1>5 DEF TablesInv, Session, OpenSessions
  <1>8. OpenSessions(t)' = OpenSessions(t) \cup {s}
    BY <1>1, <1>2, <1>4, <1>5 DEF TablesInv, Session, OpenSessions
  <1>9. \A v \in Tables \ {u} : s \notin OpenSessions(v)
    BY DEF OpenSessions
  <1>10. ClosingIsAlone'
    <2>1. ASSUME NEW v \in Tables, closeTx'[v] # NoTx
          PROVE  OpenSessions(v)' = {closeTx'[v].session}
      <3>1. v # t /\ v # u
        BY <1>1, <2>1 DEF Unlocked
      <3>2. OpenSessions(v)' = OpenSessions(v)
        BY <1>7, <1>9, <3>1
      <3>3. QED
        BY <1>1, <2>1, <3>2 DEF TablesInv, ClosingIsAlone
    <2>2. QED
      BY <2>1 DEF ClosingIsAlone
  <1>11. ASSUME retries' = 0
         PROVE  /\ \A v \in Tables : OneSession(v)'
                /\ \A v \in Tables : tables'[v] = "AVAILABLE" => OpenSessions(v)' = {}
    <2>1. /\ \A v \in Tables : OneSession(v)
          /\ \A v \in Tables : tables[v] = "AVAILABLE" => OpenSessions(v) = {}
      BY <1>1, <1>11 DEF TablesInv, OneOpenSession, FreeTableIsFree
    <2>2. OpenSessions(t)' = {s}
      BY <1>1, <1>8, <2>1
    <2>3. \A v \in Tables : OneSession(v)'
      BY <1>7, <2>1, <2>2 DEF OneSession
    <2>4. ASSUME NEW v \in Tables \ {t}, v = u
          PROVE  OpenSessions(v)' = {}
      <3>1. s \in OpenSessions(v)
        BY <1>1, <2>4 DEF OpenSessions
      <3>2. OpenSessions(v) = {s}
        BY <2>1, <3>1 DEF OneSession
      <3>3. QED
        BY <1>7, <3>2
    <2>5. ASSUME NEW v \in Tables, tables'[v] = "AVAILABLE"
          PROVE  OpenSessions(v)' = {}
      <3>1. CASE v = u
        BY <1>6, <2>4, <2>5, <3>1
      <3>2. CASE v # u
        BY <1>6, <1>7, <2>1, <2>5, <3>2
      <3>3. QED
        BY <3>1, <3>2
    <2>6. QED
      BY <2>3, <2>5
  <1>12. QED
    BY <1>1, <1>5, <1>6, <1>10, <1>11
    DEF TablesInv, OneOpenSession, FreeTableIsFree, KitchenFreesNothing

\* The source's session ends with its only table, unless the merge comes late.
LEMMA MergedKeepsTables ==
  ASSUME TablesInv, NEW o \in OrderIds, NEW d \in OrderIds, NEW t \in Tables, Merged(o, d, t)
  PROVE  TablesInv'
  <1> DEFINE s == orders[o].session
             u == TableOf(o)
             freed == Shown(u, "AVAILABLE")
  <1>1. /\ d # o /\ Unlocked(t) /\ Unlocked(u)
        /\ orders' = [orders EXCEPT ![d] = Charged(orders[d], LineTotal(LiveLines(o))),
                                   ![o] = [orders[o] EXCEPT !.status = "VOIDED"]]
        /\ sessions' = IF s = 0 THEN sessions
                       ELSE [sessions EXCEPT ![s] = [sessions[s] EXCEPT !.status = "CLOSED"]]
        /\ tables' = [freed EXCEPT ![t] = "PREPARING"]
        /\ UNCHANGED <<kitchenTx, closeTx>>
    BY ZenonT(60) DEF Merged
  <1>2. IF LateMerge(o) THEN retries' = retries + 1 ELSE UNCHANGED retries
    BY DEF Merged
  <1>3. ChecksStay
    <2>1. IsCheck(Charged(orders[d], LineTotal(LiveLines(o))))
      BY CheckCharged DEF TablesInv
    <2>2. IsCheck([orders[o] EXCEPT !.status = "VOIDED"])
      BY CheckKept DEF TablesInv
    <2>3. QED
      BY <1>1, <2>1, <2>2 DEF TablesInv, ChecksStay
  <1>4. retries' \in Nat /\ (LateMerge(o) => retries' # 0) /\ (~LateMerge(o) => retries' = retries)
    BY <1>2 DEF TablesInv
  <1>5. s \in SessionIds \cup {0} /\ (s = 0 => u = 0) /\ (s # 0 => u = sessions[s].table)
    BY DEF TablesInv, IsCheck, TableOf
  <1>6. LateMerge(o) <=> s # 0 /\ sessions[s].status # "OPEN"
    BY DEF LateMerge, OnOpenSession
  <1> HIDE DEF s, u
  <1>7. DOMAIN tables' = Tables /\ tables'[t] = "PREPARING"
        /\ \A v \in Tables \ {t, u} : tables'[v] = tables[v]
    BY <1>1 DEF TablesInv, Shown
  <1>8. sessions' \in [SessionIds -> Session]
    BY <1>1, <1>5 DEF TablesInv, Session
  <1>9. \A v \in Tables : OpenSessions(v)' = OpenSessions(v) \ {s}
    <2>1. CASE s = 0
      <3>1. s \notin SessionIds
        BY <2>1 DEF SessionIds
      <3>2. QED
        BY <1>1, <2>1, <3>1 DEF OpenSessions
    <2>2. CASE s # 0
      <3>1. s \in SessionIds /\ sessions' = [sessions EXCEPT ![s] = [sessions[s] EXCEPT !.status = "CLOSED"]]
        BY <1>1, <1>5, <2>2
      <3>2. QED
        BY <3>1 DEF TablesInv, Session, OpenSessions
    <2>3. QED
      BY <2>1, <2>2
  <1>10. \A v \in Tables \ {u} : s \notin OpenSessions(v)
    <2>1. CASE s = 0
      BY <2>1 DEF OpenSessions, SessionIds
    <2>2. CASE s # 0
      BY <1>5, <2>2 DEF OpenSessions
    <2>3. QED
      BY <2>1, <2>2
  <1>11. ClosingIsAlone'
    <2>1. ASSUME NEW v \in Tables, closeTx'[v] # NoTx
          PROVE  OpenSessions(v)' = {closeTx'[v].session}
      <3>1. v # u
        BY <1>1, <2>1 DEF Unlocked
      <3>2. OpenSessions(v)' = OpenSessions(v)
        BY <1>9, <1>10, <3>1
      <3>3. QED
        BY <1>1, <2>1, <3>2 DEF TablesInv, ClosingIsAlone
    <2>2. QED
      BY <2>1 DEF ClosingIsAlone
  <1>12. OneOpenSession'
    BY <1>4, <1>9 DEF TablesInv, OneOpenSession, OneSession
  <1>13. FreeTableIsFree'
    <2>1. ASSUME retries' = 0, NEW v \in Tables, tables'[v] = "AVAILABLE"
          PROVE  OpenSessions(v)' = {}
      <3>1. retries = 0 /\ ~LateMerge(o)
        BY <1>4, <2>1
      <3>2. CASE v = u
        <4>1. s \in OpenSessions(u)
          BY <1>5, <1>6, <3>1, <3>2, TableAssumption DEF OpenSessions
        <4>2. OneSession(u)
          BY <3>1, <3>2 DEF TablesInv, OneOpenSession
        <4>3. QED
          BY <1>9, <3>2, <4>1, <4>2 DEF OneSession
      <3>3. CASE v # u
        <4>1. tables[v] = "AVAILABLE"
          BY <1>7, <2>1, <3>3
        <4>2. QED
          BY <1>9, <3>1, <4>1 DEF TablesInv, FreeTableIsFree
      <3>4. QED
        BY <3>2, <3>3
    <2>2. QED
      BY <2>1 DEF FreeTableIsFree
  <1>14. KitchenFreesNothing'
    BY <1>1 DEF TablesInv, KitchenFreesNothing
  <1>15. QED
    BY <1>1, <1>3, <1>4, <1>7, <1>8, <1>11, <1>12, <1>13, <1>14 DEF TablesInv, ChecksStay

\* A new check of the given session.
LEMMA CheckOpened ==
  ASSUME NEW status, NEW s \in SessionIds \cup {0}, NEW n
  PROVE  IsCheck(Charged([NoOrder EXCEPT !.status = status, !.session = s], n))
  <1> DEFINE r == [NoOrder EXCEPT !.status = status, !.session = s]
  <1>1. IsCheck(r)
    BY DEF IsCheck, NoOrder
  <1> HIDE DEF r
  <1>2. IsCheck(Charged(r, n))
    BY <1>1, CheckCharged
  <1>3. QED
    BY <1>2 DEF r

LEMMA SplitKeepsTables ==
  ASSUME TablesInv, NEW o \in OrderIds, NEW ls, SplitCheck(o, ls)
  PROVE  TablesInv'
  <1> DEFINE new(n) == Charged([NoOrder EXCEPT !.status = orders[o].status,
                                               !.session = orders[o].session], LineTotal(ls))
             less   == Relieved(orders[o], LineTotal(ls))
  <1>1. /\ \E n \in FreshOrder : orders' = [orders EXCEPT ![n] = new(n), ![o] = Relieved(@, LineTotal(ls))]
        /\ Exists(o)
        /\ UNCHANGED <<tables, sessions, kitchenTx, closeTx, retries>>
    BY DEF SplitCheck
  <1>2. PICK n \in FreshOrder : orders' = [orders EXCEPT ![n] = new(n), ![o] = Relieved(@, LineTotal(ls))]
    BY <1>1
  <1>3. n # o /\ n \in OrderIds
    BY <1>1 DEF FreshOrder, Fresh
  <1>4. IsCheck(orders[o]) /\ orders[o].session \in SessionIds \cup {0}
    BY DEF TablesInv, IsCheck
  <1>5. IsCheck(new(n)) /\ IsCheck(less)
    BY <1>4, CheckOpened, CheckCharged
  <1>6. orders'[o] = less
    BY <1>2, <1>3 DEF TablesInv
  <1>7. orders'[n] = new(n) /\ DOMAIN orders' = OrderIds
        /\ \A p \in OrderIds \ {n, o} : orders'[p] = orders[p]
    BY <1>2, <1>3 DEF TablesInv
  <1> HIDE DEF new, less
  <1>8. ChecksStay
    BY <1>5, <1>6, <1>7 DEF TablesInv, ChecksStay
  <1>9. NoneFreed
    BY <1>1 DEF TablesInv, NoneFreed
  <1>10. QED
    BY <1>1, <1>8, <1>9, QuietStep

LEMMA TransferItemsKeepsTables ==
  ASSUME TablesInv, NEW i \in ItemIds, NEW t \in Tables, NEW q, TransferItems(i, t, q)
  PROVE  TablesInv'
  <1> DEFINE o     == items[i].order
             r     == orders[o]
             cost  == IF items[i].comp THEN 0 ELSE items[i].price * q
             empty == LiveLines(o) \subseteq {i} /\ q = items[i].quantity
             left  == Relieved(r, cost)
             void  == [left EXCEPT !.status = "VOIDED"]
             shown == IF items[i].status \in PendingStatus THEN "ORDER_PENDING" ELSE "PREPARING"
             table == IF empty THEN Released(o) ELSE tables
             new(s) == Charged([NoOrder EXCEPT !.status = r.status, !.session = s], cost)
  <1>1. /\ OneSession(t) /\ Unlocked(t)
        /\ tables' = [table EXCEPT ![t] = shown]
        /\ UNCHANGED <<kitchenTx, closeTx, retries>>
    BY ZenonT(60) DEF TransferItems
  <1>2. \E n \in FreshItem, s \in SessionFor(t),
           d \in IF LastCheck(t) = {} THEN FreshOrder ELSE LastCheck(t) :
          /\ sessions' = [sessions EXCEPT ![s] = [table |-> t, status |-> "OPEN"]]
          /\ orders' = [orders EXCEPT ![o] = IF empty THEN void ELSE left,
                                     ![d] = IF d \in LastCheck(t) THEN Charged(@, cost) ELSE new(s)]
    BY ZenonT(60) DEF TransferItems
  <1>3. PICK s \in SessionFor(t),
             d \in IF LastCheck(t) = {} THEN FreshOrder ELSE LastCheck(t) :
          /\ sessions' = [sessions EXCEPT ![s] = [table |-> t, status |-> "OPEN"]]
          /\ orders' = [orders EXCEPT ![o] = IF empty THEN void ELSE left,
                                     ![d] = IF d \in LastCheck(t) THEN Charged(@, cost) ELSE new(s)]
    BY <1>2
  <1>4. d \in OrderIds /\ s \in SessionIds
    BY DEF LastCheck, OpenChecks, ChecksOn, FreshOrder, Fresh, SessionFor, OpenSessions, FreshSession
  <1>5. d # o
    <2>1. TableOf(o) # t /\ Exists(o)
      BY DEF TransferItems, IsOpen
    <2>2. CASE d \in LastCheck(t)
      <3>1. TableOf(d) = t
        BY <2>2 DEF LastCheck, OpenChecks, ChecksOn, OpenSessions, TableOf
      <3>2. QED
        BY <2>1, <3>1
    <2>3. CASE d \in FreshOrder
      BY <2>1, <2>3 DEF FreshOrder, Fresh
    <2>4. QED
      BY <2>2, <2>3
  <1>6. o \in OrderIds => IsCheck(left) /\ IsCheck(void)
    <2>1. o \in OrderIds => IsCheck(left)
      BY CheckCharged DEF TablesInv
    <2> HIDE DEF left
    <2>2. QED
      BY <2>1, CheckKept
  <1>7. IsCheck(new(s)) /\ IsCheck(Charged(orders[d], cost))
    BY <1>4, CheckOpened, CheckCharged DEF TablesInv
  <1>8. /\ DOMAIN orders' = OrderIds
        /\ orders'[d] \in {Charged(orders[d], cost), new(s)}
        /\ o \in OrderIds => orders'[o] \in {left, void}
        /\ \A p \in OrderIds \ {o, d} : orders'[p] = orders[p]
    BY <1>3, <1>4, <1>5 DEF TablesInv
  <1> HIDE DEF left, void, empty, o, cost, shown, new
  <1>9. ChecksStay
    BY <1>6, <1>7, <1>8 DEF TablesInv, ChecksStay
  <1>10. shown # "AVAILABLE"
    BY DEF shown
  <1>11. /\ DOMAIN table = Tables
         /\ \A v \in Tables : table[v] = tables[v] \/ table[v] # "AVAILABLE"
    BY DEF TablesInv, Released, Shown
  <1> HIDE DEF table
  <1>12. NoneFreed /\ tables'[t] # "AVAILABLE"
    BY <1>1, <1>10, <1>11 DEF NoneFreed
  <1>13. QED
    BY <1>1, <1>3, <1>9, <1>12, SessionOpened

LEMMA MovingKeepsTables == ASSUME TablesInv, MovingLines PROVE TablesInv'
  <1>1. ASSUME NEW o \in OrderIds, NEW t \in Tables, TransferTable(o, t) \/ MergeTable(o, t)
        PROVE  TablesInv'
    <2>1. LastCheck(t) \subseteq OrderIds
      BY DEF LastCheck, OpenChecks, ChecksOn
    <2>2. Transferred(o, t) \/ \E d \in LastCheck(t) : Merged(o, d, t)
      BY <1>1 DEF TransferTable, MergeTable
    <2>3. QED
      BY <2>1, <2>2, TransferredKeepsTables, MergedKeepsTables
  <1>2. QED
    BY <1>1, SplitKeepsTables, TransferItemsKeepsTables DEF MovingLines

----------------------------------------------------------------------------
LEMMA TablesInductive == FloorSpec => []TablesInv
  <1>1. TablesInv /\ [FloorNext]_floorVars => TablesInv'
    <2> SUFFICES ASSUME TablesInv, [FloorNext]_floorVars PROVE TablesInv'
      OBVIOUS
    <2>1. CASE UNCHANGED floorVars
      <3>1. UNCHANGED <<orders, tables, sessions, kitchenTx, closeTx, retries>>
        BY <2>1 DEF floorVars, rows
      <3>2. ChecksStay /\ NoneFreed
        BY <3>1 DEF TablesInv, ChecksStay, NoneFreed
      <3>3. QED
        BY <3>1, <3>2, QuietStep
    <2>2. CASE FloorNext
      BY <2>2, IntakeKeepsTables, ServiceKeepsTables, SettlementKeepsTables, EditingKeepsTables,
         ApprovalsKeepTables, MovingKeepsTables, PreparationKeepsTables, ClosingKeepsTables
      DEF FloorNext
    <2>3. QED
      BY <2>1, <2>2
  <1>2. QED
    BY <1>1, TablesInit, PTL DEF FloorSpec

\* As long as no command comes late, no table ever has two open sessions: for any number of
\* tables, checks and sessions, whatever create_order, transfers, merges, partial transfers,
\* stations and closings do in whatever order.
THEOREM TablesHaveOneSession == FloorSpec => []OneOpenSession
  <1>1. TablesInv => OneOpenSession
    BY DEF TablesInv
  <1>2. QED
    BY <1>1, TablesInductive, PTL

\* As long as no command comes late, a table that shows as AVAILABLE is not in use: no release,
\* payment, station's report, merge or closing frees a table over an open session.
THEOREM FreeTablesAreFree == FloorSpec => []FreeTableIsFree
  <1>1. TablesInv => FreeTableIsFree
    BY DEF TablesInv
  <1>2. QED
    BY <1>1, TablesInductive, PTL

----------------------------------------------------------------------------
(* Lines and tickets. *)

ItemRow == [order : OrderIds \cup {0}, status : ItemStatus \cup {"none"}, price : Int,
            station : Stations \cup {NoStation}, quantity : Int, line : Int, comp : BOOLEAN]
Ticket  == [status : TicketStatus \cup {"none"}, lines : SUBSET ItemIds]

\* A line that waits to be sent, or does not exist yet, is on no ticket.
PendingIsUnrouted ==
  \A i \in ItemIds : items[i].status \in PendingStatus \cup {"none"} =>
    \A k \in TicketIds : i \notin tickets[k].lines

\* An update in flight never makes a line pending again.
UpdatesAdvance == \A k \in TicketIds : kitchenTx[k] # NoTx => kitchenTx[k].status \in TicketStatus \ {"NEW"}

\* The inductive invariant. LinesRoutedOnce alone is not inductive: it needs that the
\* lines which accept_order and append_order_items send are on no ticket yet.
RoutingInv ==
  /\ items \in [ItemIds -> ItemRow]
  /\ tickets \in [TicketIds -> Ticket]
  /\ kitchenTx = [k \in TicketIds |-> kitchenTx[k]]
  /\ UpdatesAdvance
  /\ PendingIsUnrouted
  /\ LinesRoutedOnce

USE DEF DeadStatus, PendingStatus, ItemStatus

LEMMA RoutingInit == FloorInit => RoutingInv
  BY DEF FloorInit, RoutingInv, ItemRow, Ticket, NoItem, NoTicket, UpdatesAdvance, PendingIsUnrouted,
         LinesRoutedOnce, TicketStatus

----------------------------------------------------------------------------
(* The two ways in which rows change. *)

\* Lines may be added and changed as long as a routed line stays at its station and
\* does not become pending, and tickets keep their lines.
LEMMA LinesChange ==
  ASSUME RoutingInv,
         items' \in [ItemIds -> ItemRow],
         tickets' \in [TicketIds -> Ticket],
         \A k \in TicketIds : tickets'[k].lines = tickets[k].lines,
         kitchenTx' = [k \in TicketIds |-> kitchenTx'[k]], UpdatesAdvance',
         \A i \in ItemIds, k \in TicketIds : i \in tickets[k].lines =>
            /\ items'[i].station = items[i].station
            /\ items'[i].status \notin PendingStatus \cup {"none"}
  PROVE  RoutingInv'
  <1>1. PendingIsUnrouted'
    BY DEF RoutingInv, PendingIsUnrouted
  <1>2. LinesRoutedOnce'
    BY DEF RoutingInv, LinesRoutedOnce
  <1>3. QED
    BY <1>1, <1>2 DEF RoutingInv

\* Lines ls that are on no ticket are sent to their stations.
LEMMA LinesAreSent ==
  ASSUME RoutingInv,
         NEW o \in OrderIds, NEW ls \in SUBSET ItemIds, NEW its \in [ItemIds -> ItemRow],
         \A i \in ls, k \in TicketIds : i \notin tickets[k].lines,
         \A i \in ItemIds \ ls : its[i] = items[i],
         items' = Sent(ls, its),
         tickets' = Ticketed(o, ls, its),
         UNCHANGED kitchenTx
  PROVE  RoutingInv'
  <1>1. items' \in [ItemIds -> ItemRow]
    BY DEF Sent, ItemRow
  <1>2. tickets' \in [TicketIds -> Ticket]
    BY DEF RoutingInv, Ticketed, Ticket, At, TicketStatus
  <1>3. \A k \in TicketIds : \A i \in tickets'[k].lines :
          /\ i \in ItemIds
          /\ \/ i \in tickets[k].lines /\ i \notin ls
             \/ i \in ls /\ its[i].station = k[2] /\ k[1] = o /\ k[3] = Batch(o, k[2])
    BY DEF RoutingInv, Ticketed, Ticket, At
  <1>4. /\ \A i \in ls : items'[i].station = its[i].station /\ items'[i].status = "ACCEPTED"
        /\ \A i \in ItemIds \ ls : items'[i] = items[i]
    BY DEF Sent, ItemRow
  <1>5. PendingIsUnrouted'
    BY <1>3, <1>4 DEF RoutingInv, PendingIsUnrouted
  <1>6. ASSUME NEW i \in ItemIds, NEW k \in TicketIds, i \in tickets'[k].lines
        PROVE  items'[i].station = k[2] /\ \A j \in TicketIds : i \in tickets'[j].lines => j = k
    <2>1. CASE i \notin ls
      BY <1>3, <1>4, <1>6, <2>1 DEF RoutingInv, LinesRoutedOnce
    <2>2. CASE i \in ls
      <3>1. \A j \in TicketIds : i \in tickets'[j].lines =>
              its[i].station = j[2] /\ j[1] = o /\ j[3] = Batch(o, j[2])
        BY <1>3, <2>2
      <3>2. \A j \in TicketIds : i \in tickets'[j].lines =>
              j[1] = k[1] /\ j[2] = k[2] /\ j[3] = k[3]
        BY <1>6, <3>1
      <3>3. \A j \in TicketIds : j = <<j[1], j[2], j[3]>>
        BY DEF TicketIds
      <3>4. QED
        BY <1>4, <1>6, <2>2, <3>1, <3>2, <3>3
    <2>3. QED
      BY <2>1, <2>2
  <1>7. LinesRoutedOnce'
    BY <1>6 DEF LinesRoutedOnce
  <1>8. QED
    BY <1>1, <1>2, <1>5, <1>7 DEF RoutingInv, UpdatesAdvance

\* A change of lines by a handler that writes no ticket: every line that it changes is a
\* new row, or keeps its station and does not become pending.
LEMMA LinesEdited ==
  ASSUME RoutingInv,
         items' \in [ItemIds -> ItemRow],
         UNCHANGED <<tickets, kitchenTx>>,
         \A i \in ItemIds : \/ items'[i] = items[i]
                            \/ items[i].status \in PendingStatus \cup {"none"}
                            \/ /\ items'[i].station = items[i].station
                               /\ items'[i].status \notin PendingStatus \cup {"none"}
  PROVE  RoutingInv'
  <1>1. \A i \in ItemIds, k \in TicketIds : i \in tickets[k].lines =>
            /\ items'[i].station = items[i].station
            /\ items'[i].status \notin PendingStatus \cup {"none"}
    BY DEF RoutingInv, PendingIsUnrouted
  <1>2. QED
    BY <1>1, LinesChange DEF RoutingInv, UpdatesAdvance

\* Most requests leave lines and tickets alone.
LEMMA LinesUntouched ==
  ASSUME RoutingInv, UNCHANGED <<items, tickets, kitchenTx>>
  PROVE  RoutingInv'
  BY DEF RoutingInv, UpdatesAdvance, PendingIsUnrouted, LinesRoutedOnce

----------------------------------------------------------------------------
(* Intake. *)

\* A new line, sent at once or not.
LEMMA NewLine ==
  ASSUME RoutingInv, NEW o \in OrderIds, NEW i \in FreshItem,
         NEW m \in Menu, NEW q \in Quantities, NEW its,
         its = [items EXCEPT ![i] = Line(o, m, q, "SUBMITTED")],
         UNCHANGED kitchenTx,
         \/ items' = Sent({i}, its) /\ tickets' = Ticketed(o, {i}, its)
         \/ items' = its /\ UNCHANGED tickets
  PROVE  RoutingInv'
  <1>1. i \in ItemIds /\ items[i].status = "none"
    BY DEF FreshItem, Fresh
  <1>2. m.price \in Int /\ m.station \in Stations \cup {NoStation} /\ q \in Int
    BY MenuAssumption, RowBounds DEF Quantities
  <1>3. m.price * q \in Int
    BY <1>2
  <1>4. Line(o, m, q, "SUBMITTED") \in ItemRow
    BY <1>2, <1>3 DEF Line, ItemRow
  <1>5. its \in [ItemIds -> ItemRow]
    BY <1>1, <1>4 DEF RoutingInv
  <1>6. CASE items' = Sent({i}, its) /\ tickets' = Ticketed(o, {i}, its)
    <2>1. \A l \in {i}, k \in TicketIds : l \notin tickets[k].lines
      BY <1>1 DEF RoutingInv, PendingIsUnrouted
    <2>2. \A l \in ItemIds \ {i} : its[l] = items[l]
      BY <1>1 DEF RoutingInv
    <2>3. {i} \in SUBSET ItemIds
      BY <1>1
    <2>4. QED
      BY <1>5, <1>6, <2>1, <2>2, <2>3, LinesAreSent, ZenonT(60)
  <1>7. CASE items' = its /\ UNCHANGED tickets
    BY <1>1, <1>5, <1>7, LinesEdited DEF RoutingInv
  <1>8. QED
    BY <1>6, <1>7

LEMMA AppendRoutes ==
  ASSUME RoutingInv, NEW o \in OrderIds, NEW m \in Menu, NEW q \in Quantities, NEW auto \in BOOLEAN,
         Append(o, m, q, auto)
  PROVE  RoutingInv'
  <1>1. PICK i \in FreshItem :
          LET its == [items EXCEPT ![i] = Line(o, m, q, "SUBMITTED")] IN
          \/ items' = Sent({i}, its) /\ tickets' = Ticketed(o, {i}, its)
          \/ items' = its /\ UNCHANGED tickets
    BY Zenon DEF Append
  <1>2. UNCHANGED kitchenTx
    BY DEF Append
  <1>3. QED
    BY <1>1, <1>2, NewLine

LEMMA OpenRoutes ==
  ASSUME RoutingInv, NEW t, NEW s, NEW m \in Menu, NEW q \in Quantities, NEW auto \in BOOLEAN,
         Open(t, s, m, q, auto), UNCHANGED kitchenTx
  PROVE  RoutingInv'
  <1>1. PICK o \in FreshOrder, i \in FreshItem :
          LET its == [items EXCEPT ![i] = Line(o, m, q, "SUBMITTED")] IN
          \/ items' = Sent({i}, its) /\ tickets' = Ticketed(o, {i}, its)
          \/ items' = its /\ UNCHANGED tickets
    BY Zenon DEF Open
  <1>2. o \in OrderIds
    BY DEF FreshOrder, Fresh
  <1>3. QED
    BY <1>1, <1>2, NewLine

LEMMA IntakeRoutes == ASSUME RoutingInv, Intake PROVE RoutingInv'
  <1>1. PICK m \in Menu, q \in Quantities, auto \in BOOLEAN :
          \/ \E t \in Tables : CreateAtTable(t, m, q, auto)
          \/ CreateTakeaway(m, q, auto)
          \/ \E o \in OrderIds : Append(o, m, q, auto)
    BY DEF Intake
  <1>2. ASSUME NEW t \in Tables, CreateAtTable(t, m, q, auto)
        PROVE  RoutingInv'
    <2>1. CASE \E o \in LastCheck(t) : Append(o, m, q, auto)
      <3>1. LastCheck(t) \subseteq OrderIds
        BY DEF LastCheck, OpenChecks, ChecksOn
      <3>2. QED
        BY <2>1, <3>1, AppendRoutes
    <2>2. CASE /\ \E s \in SessionFor(t) : Open(t, s, m, q, auto)
               /\ UNCHANGED kitchenTx
      BY <2>2, OpenRoutes
    <2>3. QED
      BY <1>2, <2>1, <2>2 DEF CreateAtTable
  <1>3. CASE CreateTakeaway(m, q, auto)
    BY <1>3, OpenRoutes DEF CreateTakeaway
  <1>4. QED
    BY <1>1, <1>2, <1>3, AppendRoutes

LEMMA ServiceRoutes == ASSUME RoutingInv, Service PROVE RoutingInv'
  <1>1. PICK o \in OrderIds : AcceptOrder(o) \/ RequestBill(o)
    BY DEF Service
  <1>2. CASE AcceptOrder(o)
    <2> DEFINE pending == {i \in LinesOf(o) : items[i].status \in PendingStatus}
    <2>1. /\ items' = Sent(pending, items) /\ tickets' = Ticketed(o, pending, items)
          /\ UNCHANGED kitchenTx
      BY <1>2 DEF AcceptOrder
    <2>2. /\ pending \in SUBSET ItemIds
          /\ \A i \in pending, k \in TicketIds : i \notin tickets[k].lines
      BY DEF LinesOf, RoutingInv, PendingIsUnrouted
    <2> HIDE DEF pending
    <2>3. QED
      BY <2>1, <2>2, LinesAreSent DEF RoutingInv
  <1>3. CASE RequestBill(o)
    BY <1>3, LinesUntouched DEF RequestBill
  <1>4. QED
    BY <1>1, <1>2, <1>3

----------------------------------------------------------------------------
(* Settlement, edits and approvals. *)

LEMMA SettlementRoutes == ASSUME RoutingInv, Settlement PROVE RoutingInv'
  <1>1. UNCHANGED <<items, tickets, kitchenTx>>
    BY DEF Settlement, LookAround, GiveUp, AddPayment, RefundPayment, rows
  <1>2. QED
    BY <1>1, LinesUntouched

\* A line is rewritten.
LEMMA RowChanges ==
  ASSUME RoutingInv, NEW i \in ItemIds, NEW r \in ItemRow,
         items' = [items EXCEPT ![i] = r],
         UNCHANGED <<tickets, kitchenTx>>,
         \/ items[i].status \in PendingStatus \cup {"none"}
         \/ r.station = items[i].station /\ r.status \notin PendingStatus \cup {"none"}
  PROVE  RoutingInv'
  <1>1. /\ items' \in [ItemIds -> ItemRow]
        /\ items'[i] = r /\ \A l \in ItemIds \ {i} : items'[l] = items[l]
    BY DEF RoutingInv
  <1>2. QED
    BY <1>1, LinesEdited

\* What the edits do to a row.
LEMMA Resized ==
  ASSUME NEW r \in ItemRow, NEW q \in Int, NEW n \in Int
  PROVE  LET s == [r EXCEPT !.quantity = q, !.line = n] IN
         s \in ItemRow /\ s.station = r.station /\ s.status = r.status
  BY DEF ItemRow
LEMMA Restated ==
  ASSUME NEW r \in ItemRow, NEW st \in ItemStatus
  PROVE  LET s == [r EXCEPT !.status = st] IN
         s \in ItemRow /\ s.station = r.station /\ s.status = st
  BY DEF ItemRow
LEMMA Gifted ==
  ASSUME NEW r \in ItemRow, NEW c \in BOOLEAN, NEW n \in Int
  PROVE  LET s == [r EXCEPT !.comp = c, !.line = n] IN
         s \in ItemRow /\ s.station = r.station /\ s.status = r.status
  BY DEF ItemRow
LEMMA Struck ==
  ASSUME NEW r \in ItemRow, NEW st \in ItemStatus, NEW n \in Int
  PROVE  LET s == [r EXCEPT !.status = st, !.line = n] IN
         s \in ItemRow /\ s.station = r.station /\ s.status = st
  BY DEF ItemRow

LEMMA EditingRoutes == ASSUME RoutingInv, Editing PROVE RoutingInv'
  <1>1. PICK i \in ItemIds : \/ Increase(i) \/ Decrease(i)
                            \/ SetComplimentary(i) \/ RemoveComplimentary(i)
                            \/ RemoveUnprinted(i)
    BY DEF Editing
  <1> DEFINE r == items[i]
  <1>2. r \in ItemRow
    BY DEF RoutingInv
  <1>3. /\ r.price \in Int /\ r.quantity \in Int /\ r.line \in Int /\ r.comp \in BOOLEAN
        /\ r.order \in OrderIds \cup {0} /\ r.station \in Stations \cup {NoStation}
        /\ r.price * r.quantity \in Int
        /\ r.price * (r.quantity + 1) \in Int
        /\ r.price * (r.quantity - 1) \in Int
        /\ r.price * 1 \in Int
    BY <1>2 DEF ItemRow
  <1> DEFINE one  == IF r.comp THEN 0 ELSE r.price
             more == IF r.comp THEN r.line ELSE r.price * (r.quantity + 1)
             less == IF r.comp THEN r.line ELSE r.price * (r.quantity - 1)
             full == r.price * r.quantity
             up   == r.quantity + 1
             down == r.quantity - 1
  <1>4. /\ one \in Int /\ more \in Int /\ less \in Int /\ full \in Int
        /\ up \in Int /\ down \in Int
    BY <1>3
  <1>5. ASSUME NEW s \in ItemRow, s.station = r.station,
               \/ s.status = r.status
               \/ s.status = "VOIDED",
               items' = [items EXCEPT ![i] = s],
               UNCHANGED <<tickets, kitchenTx>>
        PROVE  RoutingInv'
    BY <1>5, RowChanges
  <1> HIDE DEF one, more, less, full, up, down
  <1>6. CASE Increase(i)
    <2>1. UNCHANGED <<tickets, kitchenTx>>
      BY <1>6 DEF Increase
    <2> DEFINE new     == Line(r.order, r, 1, "SUBMITTED")
               portion == [new EXCEPT !.comp = r.comp, !.line = one]
               bigger  == [r EXCEPT !.quantity = up, !.line = more]
    <2>2. \/ \E n \in FreshItem : items' = [items EXCEPT ![n] = portion]
          \/ items' = [items EXCEPT ![i] = bigger]
      BY <1>6, ZenonT(60) DEF Increase, one, more, up
    <2>3. new \in ItemRow
      BY <1>3 DEF Line, ItemRow
    <2> HIDE DEF new
    <2>4. portion \in ItemRow
      BY <1>3, <1>4, <2>3, Gifted, ZenonT(60)
    <2> HIDE DEF portion
    <2>5. ASSUME NEW n \in FreshItem, items' = [items EXCEPT ![n] = portion]
          PROVE  RoutingInv'
      <3>1. n \in ItemIds /\ items[n].status = "none"
        BY DEF FreshItem, Fresh
      <3>2. QED
        BY <2>1, <2>4, <2>5, <3>1, RowChanges
    <2>6. CASE items' = [items EXCEPT ![i] = bigger]
      <3>1. up \in Int /\ more \in Int
        BY <1>4
      <3>2. bigger \in ItemRow /\ bigger.station = r.station /\ bigger.status = r.status
        BY <1>2, <3>1, Resized, ZenonT(60)
      <3>3. QED
        BY <1>5, <2>1, <2>6, <3>2, ZenonT(60)
    <2>7. QED
      BY <2>2, <2>5, <2>6
  <1>7. CASE Decrease(i)
    <2> DEFINE s == [r EXCEPT !.quantity = down, !.line = less]
    <2>1. items' = [items EXCEPT ![i] = s] /\ UNCHANGED <<tickets, kitchenTx>>
      BY <1>7, ZenonT(60) DEF Decrease, less, down
    <2>2. down \in Int /\ less \in Int
      BY <1>4
    <2>3. s \in ItemRow /\ s.station = r.station /\ s.status = r.status
      BY <1>2, <2>2, Resized, ZenonT(60)
    <2>4. QED
      BY <1>5, <2>1, <2>3, ZenonT(60)
  <1>8. CASE SetComplimentary(i)
    <2> DEFINE s == [r EXCEPT !.comp = TRUE, !.line = 0]
    <2>1. items' = [items EXCEPT ![i] = s] /\ UNCHANGED <<tickets, kitchenTx>>
      BY <1>8, ZenonT(60) DEF SetComplimentary
    <2>2. 0 \in Int /\ TRUE \in BOOLEAN
      OBVIOUS
    <2>3. s \in ItemRow /\ s.station = r.station /\ s.status = r.status
      BY <1>2, <2>2, Gifted, ZenonT(60)
    <2>4. QED
      BY <1>5, <2>1, <2>3, ZenonT(60)
  <1>9. CASE RemoveComplimentary(i)
    <2> DEFINE s == [r EXCEPT !.comp = FALSE, !.line = full]
    <2>1. items' = [items EXCEPT ![i] = s] /\ UNCHANGED <<tickets, kitchenTx>>
      BY <1>9, ZenonT(60) DEF RemoveComplimentary, full
    <2>2. s \in ItemRow /\ s.station = r.station /\ s.status = r.status
      BY <1>2, <1>4, Gifted, ZenonT(60)
    <2>3. QED
      BY <1>5, <2>1, <2>2, ZenonT(60)
  <1>10. CASE RemoveUnprinted(i)
    <2> DEFINE s == [r EXCEPT !.status = "VOIDED", !.line = 0]
    <2>1. items' = [items EXCEPT ![i] = s] /\ UNCHANGED <<tickets, kitchenTx>>
      BY <1>10, ZenonT(60) DEF RemoveUnprinted
    <2>2. 0 \in Int /\ "VOIDED" \in ItemStatus
      OBVIOUS
    <2>3. s \in ItemRow /\ s.station = r.station /\ s.status = "VOIDED"
      BY <1>2, <2>2, Struck, ZenonT(60)
    <2>4. QED
      BY <1>5, <2>1, <2>3, ZenonT(60)
  <1>11. QED
    BY <1>1, <1>6, <1>7, <1>8, <1>9, <1>10

\* Lines that are cancelled or voided keep their station.
LEMMA WithdrawnRoutes ==
  ASSUME RoutingInv, NEW ls \in SUBSET ItemIds, NEW status \in DeadStatus,
         items' = Withdrawn(ls, status), UNCHANGED <<tickets, kitchenTx>>
  PROVE  RoutingInv'
  <1>1. \A i \in ItemIds : items[i] \in ItemRow
    BY DEF RoutingInv
  <1>2. status \in ItemStatus /\ status \notin PendingStatus \cup {"none"}
    OBVIOUS
  <1>3. ASSUME NEW i \in ItemIds
        PROVE  /\ items'[i] \in ItemRow
               /\ \/ items'[i] = items[i]
                  \/ items'[i].station = items[i].station /\ items'[i].status = status
    <2> DEFINE s == [items[i] EXCEPT !.status = status]
    <2>1. s \in ItemRow /\ s.station = items[i].station /\ s.status = status
      BY <1>1, <1>2, Restated, ZenonT(60)
    <2>2. items'[i] = IF i \in ls THEN s ELSE items[i]
      BY DEF Withdrawn
    <2> HIDE DEF s
    <2>3. QED
      BY <1>1, <2>1, <2>2
  <1>4. items' \in [ItemIds -> ItemRow]
    BY <1>3 DEF Withdrawn
  <1>5. QED
    BY <1>2, <1>3, <1>4, LinesEdited

LEMMA ApprovalRoutes == ASSUME RoutingInv, Asking \/ Resolving PROVE RoutingInv'
  <1>1. CASE Asking
    BY <1>1, LinesUntouched DEF Asking, RequestCancellation, RequestDiscount, Request
  <1>2. CASE Resolving
    <2>1. PICK a \in ApprovalIds : \/ Reject(a) \/ ApproveDiscount(a)
                                  \/ ApproveVoid(a) \/ ApproveItemCancellation(a)
      BY <1>2 DEF Resolving
    <2>2. CASE Reject(a) \/ ApproveDiscount(a)
      BY <2>2, LinesUntouched DEF Reject, ApproveDiscount
    <2>3. CASE ApproveVoid(a)
      <3>1. LiveLines(approvals[a].order) \in SUBSET ItemIds
        BY DEF LiveLines, LinesOf
      <3>2. QED
        BY <2>3, <3>1, WithdrawnRoutes DEF ApproveVoid
    <2>4. CASE ApproveItemCancellation(a)
      <3>1. {approvals[a].item} \cap LinesOf(approvals[a].order) \in SUBSET ItemIds
        BY DEF LinesOf
      <3>2. QED
        BY <2>4, <3>1, WithdrawnRoutes DEF ApproveItemCancellation
    <2>5. QED
      BY <2>1, <2>2, <2>3, <2>4
  <1>3. QED
    BY <1>1, <1>2

----------------------------------------------------------------------------
(* Moves. *)

\* A line that goes to another check.
LEMMA Redirected ==
  ASSUME NEW r \in ItemRow, NEW d \in OrderIds
  PROVE  LET s == [r EXCEPT !.order = d] IN
         s \in ItemRow /\ s.station = r.station /\ s.status = r.status
  BY DEF ItemRow
LEMMA Copied ==
  ASSUME NEW r \in ItemRow, NEW d \in OrderIds
  PROVE  [r EXCEPT !.order = d, !.comp = FALSE] \in ItemRow
  BY DEF ItemRow

\* Merging: the originals keep their tickets, the copies are new rows on none.
LEMMA MergedRoutes ==
  ASSUME RoutingInv, NEW o \in OrderIds, NEW d \in OrderIds, NEW t, Merged(o, d, t)
  PROVE  RoutingInv'
  <1> DEFINE ls == LiveLines(o)
  <1>1. items' = Copies(ls, d) /\ UNCHANGED <<tickets, kitchenTx>>
    BY DEF Merged
  <1>2. ls \subseteq ItemIds
    BY DEF LiveLines, LinesOf
  <1> HIDE DEF ls
  <1>3. \A i \in ItemIds : items[i] \in ItemRow
    BY DEF RoutingInv
  <1>4. ASSUME NEW i \in ItemIds
        PROVE  /\ items'[i] \in ItemRow
               /\ \/ items'[i] = items[i]
                  \/ items[i].status = "none"
                  \/ items'[i].station = items[i].station /\ items'[i].status = "VOIDED"
    <2>1. CASE i \in ls
      <3> DEFINE s == [items[i] EXCEPT !.status = "VOIDED"]
      <3>1. items'[i] = s
        BY <1>1, <2>1 DEF Copies
      <3>2. "VOIDED" \in ItemStatus
        OBVIOUS
      <3>3. s \in ItemRow /\ s.station = items[i].station /\ s.status = "VOIDED"
        BY <1>3, <3>2, Restated, ZenonT(60)
      <3> HIDE DEF s
      <3>4. QED
        BY <3>1, <3>3
    <2>2. CASE i \notin ls /\ \E l \in ls : i \in RowFor(l, ls)
      <3> DEFINE l == CHOOSE l \in ls : i \in RowFor(l, ls)
                 s == [items[l] EXCEPT !.order = d, !.comp = FALSE]
      <3>1. l \in ItemIds
        BY <1>2, <2>2
      <3>2. items'[i] = s
        BY <1>1, <2>2, ZenonT(60) DEF Copies
      <3> HIDE DEF l
      <3>3. s \in ItemRow
        BY <1>3, <3>1, Copied, ZenonT(60)
      <3> HIDE DEF s
      <3>4. items[i].status = "none"
        BY <2>2 DEF RowFor, FreeRows
      <3>5. QED
        BY <3>2, <3>3, <3>4
    <2>3. CASE i \notin ls /\ ~ \E l \in ls : i \in RowFor(l, ls)
      BY <1>1, <1>3, <2>3 DEF Copies
    <2>4. QED
      BY <2>1, <2>2, <2>3
  <1>5. items' \in [ItemIds -> ItemRow]
    BY <1>1, <1>4 DEF Copies
  <1>6. QED
    BY <1>1, <1>4, <1>5, LinesEdited

\* Splitting a check: its lines stay on their tickets.
LEMMA SplitRoutes ==
  ASSUME RoutingInv, NEW o \in OrderIds, NEW ls, SplitCheck(o, ls)
  PROVE  RoutingInv'
  <1>1. PICK n \in FreshOrder :
          items' = [i \in ItemIds |-> IF i \in ls THEN [items[i] EXCEPT !.order = n] ELSE items[i]]
    BY Zenon DEF SplitCheck
  <1>2. n \in OrderIds /\ UNCHANGED <<tickets, kitchenTx>>
    BY DEF FreshOrder, Fresh, SplitCheck
  <1>3. \A i \in ItemIds : items[i] \in ItemRow
    BY DEF RoutingInv
  <1>4. ASSUME NEW i \in ItemIds
        PROVE  /\ items'[i] \in ItemRow
               /\ items'[i].station = items[i].station /\ items'[i].status = items[i].status
    <2> DEFINE s == [items[i] EXCEPT !.order = n]
    <2>1. s \in ItemRow /\ s.station = items[i].station /\ s.status = items[i].status
      BY <1>2, <1>3, Redirected, ZenonT(60)
    <2>2. items'[i] = IF i \in ls THEN s ELSE items[i]
      BY <1>1
    <2> HIDE DEF s
    <2>3. QED
      BY <1>3, <2>1, <2>2
  <1>5. items' \in [ItemIds -> ItemRow]
    BY <1>1, <1>4
  <1>6. QED
    BY <1>2, <1>4, <1>5, LinesEdited

\* A partial transfer: the portions that go are a new row, which no ticket holds.
LEMMA TransferRoutes ==
  ASSUME RoutingInv, NEW i \in ItemIds, NEW t \in Tables, NEW q \in Quantities, TransferItems(i, t, q)
  PROVE  RoutingInv'
  <1>1. PICK n \in FreshItem, d \in IF LastCheck(t) = {} THEN FreshOrder ELSE LastCheck(t) :
          items' = Moved(i, d, n, q)
    BY Zenon DEF TransferItems
  <1>2. /\ d \in OrderIds
        /\ n \in ItemIds /\ items[n].status = "none"
        /\ q \in Int
    BY DEF FreshOrder, FreshItem, Fresh, LastCheck, OpenChecks, ChecksOn, Quantities
  <1>3. UNCHANGED <<tickets, kitchenTx>>
    BY DEF TransferItems
  <1> DEFINE r == items[i]
             rest == r.quantity - q
             gone == IF r.comp THEN 0 ELSE r.price * q
             left == IF r.comp THEN 0 ELSE r.price * rest
             new  == Line(d, r, q, r.status)
             A == [new EXCEPT !.comp = r.comp, !.line = gone]
             Z == [r EXCEPT !.status = "VOIDED"]
             R == [r EXCEPT !.quantity = rest, !.line = left]
  <1>4. items' = [items EXCEPT ![n] = A, ![i] = IF rest = 0 THEN Z ELSE R]
    BY <1>1 DEF Moved
  <1>5. r \in ItemRow
    BY DEF RoutingInv
  <1>6. r.quantity \in Int /\ r.price \in Int /\ r.comp \in BOOLEAN
        /\ r.status \in ItemStatus \cup {"none"} /\ r.station \in Stations \cup {NoStation}
    BY <1>5 DEF ItemRow
  <1>7. rest \in Int
    BY <1>2, <1>6
  <1> HIDE DEF rest
  <1>8. gone \in Int /\ left \in Int /\ r.price * q \in Int
    BY <1>2, <1>6, <1>7
  <1>9. new \in ItemRow
    BY <1>2, <1>6, <1>8 DEF Line, ItemRow
  <1> HIDE DEF new, gone, left
  <1>10. A \in ItemRow
    BY <1>6, <1>8, <1>9, Gifted, ZenonT(60)
  <1>11. "VOIDED" \in ItemStatus
    OBVIOUS
  <1>12. Z \in ItemRow /\ Z.station = r.station /\ Z.status = "VOIDED"
    BY <1>5, <1>11, Restated, ZenonT(60)
  <1>13. R \in ItemRow /\ R.station = r.station /\ R.status = r.status
    BY <1>5, <1>7, <1>8, Resized, ZenonT(60)
  <1> HIDE DEF A, Z, R
  <1>14. /\ items' \in [ItemIds -> ItemRow]
         /\ items'[i] \in {Z, R}
         /\ \A l \in ItemIds \ {i, n} : items'[l] = items[l]
    BY <1>2, <1>4, <1>10, <1>12, <1>13 DEF RoutingInv
  <1>15. QED
    BY <1>2, <1>3, <1>12, <1>13, <1>14, LinesEdited

LEMMA MovingRoutes == ASSUME RoutingInv, MovingLines PROVE RoutingInv'
  <1>1. ASSUME NEW o \in OrderIds, NEW t \in Tables, TransferTable(o, t) \/ MergeTable(o, t)
        PROVE  RoutingInv'
    <2>1. CASE Transferred(o, t)
      BY <2>1, LinesUntouched DEF Transferred
    <2>2. CASE \E d \in LastCheck(t) : Merged(o, d, t)
      <3>1. LastCheck(t) \subseteq OrderIds
        BY DEF LastCheck, OpenChecks, ChecksOn
      <3>2. QED
        BY <2>2, <3>1, MergedRoutes
    <2>3. QED
      BY <1>1, <2>1, <2>2 DEF TransferTable, MergeTable
  <1>2. QED
    BY <1>1, SplitRoutes, TransferRoutes DEF MovingLines

----------------------------------------------------------------------------
(* The stations and the closing of tables. *)

LEMMA PreparationRoutes == ASSUME RoutingInv, Preparation PROVE RoutingInv'
  <1>1. PICK k \in TicketIds : \/ \E status \in TicketStatus : BeginTicket(k, status)
                              \/ CommitTicket(k)
    BY DEF Preparation
  <1>2. CASE \E status \in TicketStatus : BeginTicket(k, status)
    <2>1. PICK status \in TicketStatus :
            /\ status \in Transitions(tickets[k].status)
            /\ kitchenTx' = [kitchenTx EXCEPT ![k] = Update(k, status)]
      BY <1>2 DEF BeginTicket
    <2>2. status # "NEW"
      BY <2>1 DEF Transitions
    <2>3. Update(k, status).status = status
      BY DEF Update
    <2>4. kitchenTx' = [j \in TicketIds |-> kitchenTx'[j]] /\ UpdatesAdvance'
      BY <2>1, <2>2, <2>3 DEF RoutingInv, UpdatesAdvance
    <2>5. UNCHANGED <<items, tickets>>
      BY <1>2 DEF BeginTicket, rows
    <2>6. QED
      BY <2>4, <2>5 DEF RoutingInv, PendingIsUnrouted, LinesRoutedOnce
  <1>3. CASE CommitTicket(k)
    <2> DEFINE st == LineStatus(kitchenTx[k].status)
    <2>1. kitchenTx[k].status \in TicketStatus \ {"NEW"}
      BY <1>3 DEF CommitTicket, RoutingInv, UpdatesAdvance
    <2>2. st \in ItemStatus /\ st \notin PendingStatus \cup {"none"}
      BY <2>1 DEF LineStatus, TicketStatus
    <2> HIDE DEF st
    <2>3. /\ tickets' = [tickets EXCEPT ![k].status = kitchenTx[k].status]
          /\ items' = [i \in ItemIds |-> IF i \in kitchenTx[k].lines
                                         THEN [items[i] EXCEPT !.status = st] ELSE items[i]]
          /\ kitchenTx' = [kitchenTx EXCEPT ![k] = NoTx]
      BY <1>3, ZenonT(60) DEF CommitTicket, st
    <2>4. \A i \in ItemIds : items[i] \in ItemRow
      BY DEF RoutingInv
    <2>5. ASSUME NEW i \in ItemIds
          PROVE  /\ items'[i] \in ItemRow
                 /\ items'[i].station = items[i].station
                 /\ items'[i] = items[i] \/ items'[i].status = st
      <3> DEFINE s == [items[i] EXCEPT !.status = st]
      <3>1. s \in ItemRow /\ s.station = items[i].station /\ s.status = st
        BY <2>2, <2>4, Restated, ZenonT(60)
      <3>2. items'[i] = IF i \in kitchenTx[k].lines THEN s ELSE items[i]
        BY <2>3
      <3> HIDE DEF s
      <3>3. QED
        BY <2>4, <3>1, <3>2
    <2>6. items' \in [ItemIds -> ItemRow]
      BY <2>3, <2>5
    <2>7. /\ tickets' \in [TicketIds -> Ticket]
          /\ \A j \in TicketIds : tickets'[j].lines = tickets[j].lines
      BY <2>1, <2>3 DEF RoutingInv, Ticket
    <2>8. kitchenTx' = [j \in TicketIds |-> kitchenTx'[j]] /\ UpdatesAdvance'
      BY <2>3 DEF RoutingInv, UpdatesAdvance
    <2>9. \A i \in ItemIds, j \in TicketIds : i \in tickets[j].lines =>
            /\ items'[i].station = items[i].station
            /\ items'[i].status \notin PendingStatus \cup {"none"}
      BY <2>2, <2>5 DEF RoutingInv, PendingIsUnrouted
    <2>10. QED
      BY <2>6, <2>7, <2>8, <2>9, LinesChange
  <1>4. QED
    BY <1>1, <1>2, <1>3

LEMMA ClosingRoutes == ASSUME RoutingInv, Closing PROVE RoutingInv'
  <1>1. UNCHANGED <<items, tickets, kitchenTx>>
    BY DEF Closing, BeginClose, CommitClose, RepeatClose, rows
  <1>2. QED
    BY <1>1, LinesUntouched

----------------------------------------------------------------------------
LEMMA RoutingInductive == FloorSpec => []RoutingInv
  <1>1. RoutingInv /\ [FloorNext]_floorVars => RoutingInv'
    <2> SUFFICES ASSUME RoutingInv, [FloorNext]_floorVars PROVE RoutingInv'
      OBVIOUS
    <2>1. CASE UNCHANGED floorVars
      BY <2>1, LinesUntouched DEF floorVars, rows
    <2>2. CASE FloorNext
      BY <2>2, IntakeRoutes, ServiceRoutes, SettlementRoutes, EditingRoutes, ApprovalRoutes,
         MovingRoutes, PreparationRoutes, ClosingRoutes DEF FloorNext
    <2>3. QED
      BY <2>1, <2>2
  <1>2. QED
    BY <1>1, RoutingInit, PTL DEF FloorSpec

\* No line is ever routed twice, and a routed one is at its own station: for any number
\* of tables, stations and rows, whatever accept_order, append_order_items, the edits,
\* merges, splits, transfers and the stations' own updates do in whatever order.
THEOREM LinesAreRoutedOnce == FloorSpec => []LinesRoutedOnce
  <1>1. RoutingInv => LinesRoutedOnce
    BY DEF RoutingInv
  <1>2. QED
    BY <1>1, RoutingInductive, PTL

HIDE DEF DeadStatus, PendingStatus, ItemStatus

-----------------------------------------------------------------------------
(* What the rows hold. *)

Order    == [status : OrderStatus \cup {"none"}, session : SessionIds \cup {0},
             subtotal : Nat, discount : Nat, total : Nat]
Item     == [order : OrderIds \cup {0}, status : ItemStatus \cup {"none"}, price : Nat,
             station : Stations \cup {NoStation}, quantity : 0..MaxQuantity, line : Nat, comp : BOOLEAN]
Payment  == [order : OrderIds \cup {0}, amount : Nat, status : {"none", "COMPLETED", "REFUNDED"}]
Approval == [order : OrderIds \cup {0}, item : ItemIds \cup {0},
             type : {"none", "DISCOUNT", "ORDER_VOID", "ITEM_CANCELLATION"},
             discount : Discounts \cup {NoDiscount}, status : {"none", "PENDING", "APPROVED", "REJECTED"}]

\* A line costs its portions at most, and a gift nothing.
Lines == {r \in Item : /\ r.line <= r.price * r.quantity
                       /\ r.comp => r.line = 0
                       /\ r.order # 0 => r.quantity > 0
                       /\ r.status = "none" <=> r.order = 0}
\* The total of an order is what its subtotal and discounts give.
Checks == {r \in Order : r.total = Floored(r.subtotal - r.discount)}

Known(book, o) == o \in OrderIds /\ book[o].status # "none"

\* The inductive invariant: the types, and that what a line, a payment, a request, an
\* update or a closing refers to exists.
OrdersPart    == /\ orders \in [OrderIds -> Checks]
                 /\ \A o \in 2..MaxOrders : Exists(o) => Exists(o - 1)
                 /\ \A o \in OrderIds : Exists(o) \/ orders[o] = NoOrder
ItemsPart     == /\ items \in [ItemIds -> Lines]
                 /\ \A i \in ItemIds : items[i].status # "none" => Known(orders, items[i].order)
PaymentsPart  == /\ payments \in [PaymentIds -> Payment]
                 /\ \A p \in PaymentIds : payments[p].status = "COMPLETED" => Known(orders, payments[p].order)
ApprovalsPart == /\ approvals \in [ApprovalIds -> Approval]
                 /\ \A a \in ApprovalIds : approvals[a].status = "PENDING" => Known(orders, approvals[a].order)
KitchenPart   == /\ kitchenTx \in [TicketIds -> KitchenUpdate \cup {NoTx}]
                 /\ \A k \in TicketIds : kitchenTx[k] # NoTx =>
                      /\ kitchenTx[k].status # "NEW"
                      /\ \A i \in kitchenTx[k].lines : items[i].status # "none"
                      /\ kitchenTx[k].order # "keep" => Known(orders, k[1])
ClosingPart   == /\ closeTx \in [Tables -> Closure \cup {NoTx}]
                 /\ \A t \in Tables : closeTx[t] # NoTx => \A o \in closeTx[t].zero : Known(orders, o)
PlacesPart    == /\ sessions \in [SessionIds -> Session]
                 /\ tables \in [Tables -> TableState]
CountsPart    == edits \in Nat /\ moves \in Nat /\ retries \in Nat
FloorTyped ==
  /\ OrdersPart /\ ItemsPart /\ PaymentsPart /\ ApprovalsPart /\ KitchenPart /\ ClosingPart
  /\ PlacesPart /\ CountsPart
  /\ tickets \in [TicketIds -> Ticket]

----------------------------------------------------------------------------
(* Records. *)

LEMMA FlooredIsNat ==
  ASSUME NEW n \in Int PROVE Floored(n) \in Nat /\ (n <= 0 => Floored(n) = 0) /\ (n >= 0 => Floored(n) = n)
BY DEF Floored

LEMMA OrderFields ==
  ASSUME NEW r \in Order
  PROVE  /\ r.subtotal \in Nat /\ r.discount \in Nat /\ r.total \in Nat
         /\ r.status \in OrderStatus \cup {"none"} /\ r.session \in SessionIds \cup {0}
BY DEF Order
LEMMA CheckFields ==
  ASSUME NEW r \in Checks
  PROVE  /\ r \in Order /\ r.total = Floored(r.subtotal - r.discount)
         /\ r.subtotal \in Nat /\ r.discount \in Nat /\ r.total \in Nat
         /\ r.status \in OrderStatus \cup {"none"} /\ r.session \in SessionIds \cup {0}
BY DEF Checks, Order

LEMMA OrderSums ==
  ASSUME NEW r \in Order, NEW n \in Nat
  PROVE  LET s == [r EXCEPT !.subtotal = n] IN
         s \in Order /\ s.subtotal = n /\ s.discount = r.discount /\ s.status = r.status /\ s.session = r.session
BY DEF Order
LEMMA OrderTotals ==
  ASSUME NEW r \in Order, NEW n \in Nat
  PROVE  LET s == [r EXCEPT !.total = n] IN
         /\ s \in Order /\ s.total = n /\ s.subtotal = r.subtotal /\ s.discount = r.discount
         /\ s.status = r.status /\ s.session = r.session
BY DEF Order
LEMMA OrderRecalculated ==
  ASSUME NEW r \in Order
  PROVE  LET s == Recalculated(r) IN
         s \in Checks /\ s.subtotal = r.subtotal /\ s.discount = r.discount /\ s.status = r.status /\ s.session = r.session
<1>1. r.subtotal - r.discount \in Int
  BY OrderFields
<1>2. Floored(r.subtotal - r.discount) \in Nat
  BY <1>1, FlooredIsNat
<1> DEFINE s == [r EXCEPT !.total = Floored(r.subtotal - r.discount)]
<1>3. /\ s \in Order /\ s.total = Floored(r.subtotal - r.discount) /\ s.subtotal = r.subtotal
      /\ s.discount = r.discount /\ s.status = r.status /\ s.session = r.session
  BY <1>2, OrderTotals, Zenon
<1>4. Recalculated(r) = s
  BY DEF Recalculated
<1> HIDE DEF s
<1> QED BY <1>3, <1>4 DEF Checks
LEMMA OrderCharged ==
  ASSUME NEW r \in Order, NEW n \in Nat
  PROVE  LET s == Charged(r, n) IN
         s \in Checks /\ s.subtotal = r.subtotal + n /\ s.discount = r.discount /\ s.status = r.status /\ s.session = r.session
<1>1. r.subtotal + n \in Nat
  BY OrderFields
<1> DEFINE m == r.subtotal + n
           s == [r EXCEPT !.subtotal = m]
<1>2. m \in Nat /\ m = r.subtotal + n /\ Charged(r, n) = Recalculated(s)
  BY <1>1 DEF Charged
<1> HIDE DEF m
<1>3. s \in Order /\ s.subtotal = m /\ s.discount = r.discount /\ s.status = r.status /\ s.session = r.session
  BY <1>2, OrderSums, Zenon
<1> HIDE DEF s
<1> QED BY <1>2, <1>3, OrderRecalculated
LEMMA OrderRelieved ==
  ASSUME NEW r \in Order, NEW n \in Nat
  PROVE  LET s == Relieved(r, n) IN
         s \in Checks /\ s.subtotal = Floored(r.subtotal - n) /\ s.discount = r.discount /\ s.status = r.status /\ s.session = r.session
<1>1. r.subtotal - n \in Int
  BY OrderFields
<1> DEFINE m == Floored(r.subtotal - n)
           s == [r EXCEPT !.subtotal = m]
<1>2. m \in Nat /\ m = Floored(r.subtotal - n) /\ Relieved(r, n) = Recalculated(s)
  BY <1>1, FlooredIsNat DEF Relieved
<1> HIDE DEF m
<1>3. s \in Order /\ s.subtotal = m /\ s.discount = r.discount /\ s.status = r.status /\ s.session = r.session
  BY <1>2, OrderSums, Zenon
<1> HIDE DEF s
<1> QED BY <1>2, <1>3, OrderRecalculated
LEMMA OrderMarked ==
  ASSUME NEW r \in Checks, NEW st \in OrderStatus
  PROVE  LET s == [r EXCEPT !.status = st] IN
         /\ s \in Checks /\ s.subtotal = r.subtotal /\ s.discount = r.discount /\ s.total = r.total
         /\ s.status = st /\ s.session = r.session
BY DEF Checks, Order
LEMMA OrderDiscounted ==
  ASSUME NEW r \in Order, NEW n \in Nat
  PROVE  LET s == [r EXCEPT !.discount = n] IN
         s \in Order /\ s.subtotal = r.subtotal /\ s.discount = n /\ s.status = r.status /\ s.session = r.session
BY DEF Order
\* The total follows the subtotal and the discount.
LEMMA TotalsFollow ==
  ASSUME NEW r \in Checks, NEW s \in Checks, s.subtotal <= r.subtotal, s.discount >= r.discount
  PROVE  s.total <= r.total
<1>1. /\ r.subtotal \in Nat /\ r.discount \in Nat /\ s.subtotal \in Nat /\ s.discount \in Nat
      /\ r.total = Floored(r.subtotal - r.discount) /\ s.total = Floored(s.subtotal - s.discount)
  BY CheckFields
<1> QED BY <1>1 DEF Floored

LEMMA LineFields ==
  ASSUME NEW r \in Lines
  PROVE  /\ r \in Item /\ r.price \in Nat /\ r.quantity \in Nat /\ r.quantity <= MaxQuantity /\ r.line \in Nat
         /\ r.comp \in BOOLEAN /\ r.order \in OrderIds \cup {0} /\ r.station \in Stations \cup {NoStation}
         /\ r.status \in ItemStatus \cup {"none"} /\ MaxQuantity \in Nat
         /\ r.line <= r.price * r.quantity /\ (r.comp => r.line = 0) /\ (r.status = "none" <=> r.order = 0)
         /\ (r.order # 0 => r.quantity > 0)
         /\ r.price * r.quantity \in Nat /\ r.price * (r.quantity + 1) = r.price * r.quantity + r.price
<1>1. /\ r.price \in Nat /\ r.quantity \in 0..MaxQuantity /\ MaxQuantity \in Nat
  BY RowBounds DEF Lines, Item
<1>2. \A p, q \in Nat : p * q \in Nat /\ p * (q + 1) = p * q + p
  OBVIOUS
<1> QED BY <1>1, <1>2 DEF Lines, Item
\* Line r as s, with other portions, another price and as a gift or not.
Rewrites(s, r, q, n, c) ==
  /\ s \in Lines /\ s.quantity = q /\ s.line = n /\ (s.comp <=> c)
  /\ s.price = r.price /\ s.order = r.order /\ s.status = r.status /\ s.station = r.station
LEMMA LineResized ==
  ASSUME NEW r \in Lines, NEW q \in Nat, 0 < q, q <= MaxQuantity, NEW n \in Nat, n <= r.price * q, r.comp => n = 0,
         NEW s, s = [r EXCEPT !.quantity = q, !.line = n]
  PROVE  Rewrites(s, r, q, n, r.comp)
<1>1. q \in 0..MaxQuantity /\ r \in Item /\ (r.status = "none" <=> r.order = 0)
  BY RowBounds DEF Lines
<1>2. /\ s \in Item /\ s.quantity = q /\ s.line = n /\ s.price = r.price /\ s.order = r.order
      /\ s.status = r.status /\ s.comp = r.comp /\ s.station = r.station
  BY <1>1 DEF Item
<1>3. s.line <= s.price * s.quantity
  BY <1>2
<1>4. s \in Lines
  BY <1>1, <1>2, <1>3 DEF Lines
<1> QED BY <1>2, <1>4 DEF Rewrites
LEMMA LineGifted ==
  ASSUME NEW r \in Lines, NEW c \in BOOLEAN, NEW n \in Nat, n <= r.price * r.quantity, c => n = 0,
         NEW s, s = [r EXCEPT !.comp = c, !.line = n]
  PROVE  Rewrites(s, r, r.quantity, n, c)
<1>1. r \in Item /\ (r.status = "none" <=> r.order = 0) /\ (r.order # 0 => r.quantity > 0)
  BY DEF Lines
<1>2. /\ s \in Item /\ s.quantity = r.quantity /\ s.line = n /\ s.price = r.price /\ s.order = r.order
      /\ s.status = r.status /\ s.station = r.station
  BY <1>1 DEF Item
<1>3. s.comp = c
  BY <1>1, Zenon DEF Item
<1>4. s.comp => s.line = 0
  BY <1>2, <1>3
<1>5. s.line <= s.price * s.quantity
  BY <1>2
<1>6. s \in Lines
  BY <1>1, <1>2, <1>4, <1>5 DEF Lines
<1> QED BY <1>2, <1>3, <1>6 DEF Rewrites
LEMMA LineMarked ==
  ASSUME NEW r \in Lines, r.status # "none", NEW st \in ItemStatus
  PROVE  LET s == [r EXCEPT !.status = st] IN
         /\ s \in Lines /\ s.quantity = r.quantity /\ s.line = r.line /\ s.price = r.price /\ s.order = r.order
         /\ s.status = st /\ s.comp = r.comp /\ s.station = r.station
BY DEF Lines, Item, ItemStatus, DeadStatus, PendingStatus
LEMMA LineStruck ==
  ASSUME NEW r \in Lines, r.status # "none", NEW st \in ItemStatus
  PROVE  LET s == [r EXCEPT !.status = st, !.line = 0] IN
         /\ s \in Lines /\ s.quantity = r.quantity /\ s.line = 0 /\ s.price = r.price /\ s.order = r.order
         /\ s.status = st /\ s.comp = r.comp /\ s.station = r.station
<1>1. r.price * r.quantity \in Nat
  BY LineFields
<1>2. st # "none" /\ r.order # 0
  BY DEF Lines, ItemStatus, DeadStatus, PendingStatus
<1> DEFINE s == [r EXCEPT !.status = st, !.line = 0]
<1>3. /\ s \in Item /\ s.quantity = r.quantity /\ s.line = 0 /\ s.price = r.price /\ s.order = r.order
      /\ s.status = st /\ s.comp = r.comp /\ s.station = r.station
  BY DEF Lines, Item
<1> HIDE DEF s
<1>4. s \in Lines
  BY <1>1, <1>2, <1>3 DEF Lines
<1> QED BY <1>3, <1>4 DEF s
LEMMA LineRedirected ==
  ASSUME NEW r \in Lines, r.status # "none", NEW o \in OrderIds
  PROVE  LET s == [r EXCEPT !.order = o] IN
         /\ s \in Lines /\ s.quantity = r.quantity /\ s.line = r.line /\ s.price = r.price /\ s.order = o
         /\ s.status = r.status /\ s.comp = r.comp /\ s.station = r.station
BY RowBounds DEF Lines, Item, OrderIds
LEMMA LineCopied ==
  ASSUME NEW r \in Lines, r.status # "none", NEW o \in OrderIds
  PROVE  LET s == [r EXCEPT !.order = o, !.comp = FALSE] IN
         /\ s \in Lines /\ s.quantity = r.quantity /\ s.line = r.line /\ s.price = r.price /\ s.order = o
         /\ s.status = r.status /\ ~s.comp /\ s.station = r.station
<1> DEFINE s == [r EXCEPT !.order = o, !.comp = FALSE]
<1>1. /\ s \in Item /\ s.quantity = r.quantity /\ s.line = r.line /\ s.price = r.price /\ s.order = o
      /\ s.status = r.status /\ ~s.comp /\ s.station = r.station
  BY DEF Lines, Item
<1>2. o # 0
  BY RowBounds DEF OrderIds
<1> HIDE DEF s
<1>3. s \in Lines
  BY <1>1, <1>2 DEF Lines
<1> QED BY <1>1, <1>3 DEF s
LEMMA LineMade ==
  ASSUME NEW o \in OrderIds, NEW m, m.price \in Nat, m.station \in Stations \cup {NoStation},
         NEW q \in Nat, 0 < q, q <= MaxQuantity, NEW st \in ItemStatus
  PROVE  LET r == Line(o, m, q, st) IN
         /\ r \in Lines /\ r.quantity = q /\ r.line = m.price * q /\ r.price = m.price /\ r.order = o
         /\ r.status = st /\ ~r.comp /\ r.station = m.station
<1>1. m.price * q \in Nat /\ o # 0 /\ st # "none" /\ MaxQuantity \in Nat
  BY RowBounds DEF OrderIds, ItemStatus, DeadStatus, PendingStatus
<1> QED BY <1>1 DEF Line, Lines, Item

LEMMA InitTyped == FloorInit => FloorTyped
<1> SUFFICES ASSUME FloorInit PROVE FloorTyped
  OBVIOUS
<1>0. /\ orders = [o \in OrderIds |-> NoOrder] /\ items = [i \in ItemIds |-> NoItem]
      /\ tickets = [k \in TicketIds |-> NoTicket] /\ payments = [p \in PaymentIds |-> NoPayment]
      /\ approvals = [a \in ApprovalIds |-> NoApproval] /\ sessions = [s \in SessionIds |-> NoSession]
      /\ tables = [t \in Tables |-> "AVAILABLE"] /\ kitchenTx = [k \in TicketIds |-> NoTx]
      /\ closeTx = [t \in Tables |-> NoTx] /\ edits = 0 /\ moves = 0 /\ retries = 0
  BY DEF FloorInit
<1>1. OrdersPart
  <2>1. NoOrder \in Checks
    BY DEF NoOrder, Checks, Order, Floored
  <2>2. 2..MaxOrders \subseteq OrderIds
    BY RowBounds DEF OrderIds
  <2> QED BY <1>0, <2>1, <2>2 DEF OrdersPart, Exists, NoOrder
<1>2. ItemsPart
  <2>1. NoItem \in Lines
    BY RowBounds DEF NoItem, Lines, Item
  <2> QED BY <1>0, <2>1 DEF ItemsPart, NoItem
<1>3. PaymentsPart
  BY <1>0 DEF PaymentsPart, NoPayment, Payment
<1>4. ApprovalsPart
  BY <1>0 DEF ApprovalsPart, NoApproval, Approval
<1>5. KitchenPart /\ ClosingPart
  BY <1>0 DEF KitchenPart, ClosingPart
<1>6. PlacesPart
  BY <1>0 DEF PlacesPart, NoSession, Session, TableState
<1>7. CountsPart /\ tickets \in [TicketIds -> Ticket]
  BY <1>0 DEF CountsPart, NoTicket, Ticket
<1> QED BY <1>1, <1>2, <1>3, <1>4, <1>5, <1>6, <1>7 DEF FloorTyped

----------------------------------------------------------------------------
(* Steps, told by their effect on orders and lines. *)

\* Orders are changed or made, and none ceases to exist.
OrdersGo ==
  /\ orders' \in [OrderIds -> Checks]
  /\ \A o \in OrderIds : \/ orders'[o] = orders[o]
                         \/ orders'[o].status # "none" /\ (Exists(o) \/ o \in FreshOrder)

LEMMA OrdersGone ==
  ASSUME FloorTyped, OrdersGo
  PROVE  OrdersPart' /\ \A o : Known(orders, o) => Known(orders', o)
<1>1. ASSUME NEW o \in 2..MaxOrders, Exists(o)' PROVE Exists(o - 1)'
  <2>1. o \in OrderIds /\ o - 1 \in OrderIds /\ o - 1 < o
    BY RowBounds DEF OrderIds
  <2>2. Exists(o - 1)
    <3>1. CASE Exists(o)
      BY <3>1 DEF FloorTyped, OrdersPart
    <3>2. CASE o \in FreshOrder
      <4>1. ~(o <= o - 1)
        BY <2>1 DEF OrderIds
      <4> QED BY <2>1, <3>2, <4>1 DEF FreshOrder, Fresh
    <3> QED BY <1>1, <2>1, <3>1, <3>2 DEF OrdersGo, Exists
  <2> QED BY <2>1, <2>2 DEF OrdersGo, Exists
<1>2. \A o : Known(orders, o) => Known(orders', o)
  BY DEF Known, OrdersGo
<1>3. \A o \in OrderIds : Exists(o)' \/ orders'[o] = NoOrder
  BY DEF OrdersGo, Exists, FloorTyped, OrdersPart
<1> QED BY <1>1, <1>2, <1>3 DEF OrdersPart, OrdersGo

LEMMA OrdersStay == ASSUME FloorTyped, UNCHANGED orders PROVE OrdersGo
BY DEF FloorTyped, OrdersPart, OrdersGo

LEMMA OrderPut ==
  ASSUME FloorTyped, NEW o \in OrderIds, NEW s \in Checks, s.status # "none", Exists(o) \/ o \in FreshOrder,
         orders' = [orders EXCEPT ![o] = s]
  PROVE  OrdersGo
BY DEF FloorTyped, OrdersPart, OrdersGo

\* Lines that exist do not cease to.
LinesLast == \A i \in ItemIds : items[i].status # "none" => items'[i].status # "none"

\* What refers to orders and does not change still refers to them.
LEMMA PartsStay ==
  ASSUME FloorTyped, OrdersGo
  PROVE  /\ UNCHANGED items => ItemsPart' /\ LinesLast
         /\ UNCHANGED payments => PaymentsPart'
         /\ UNCHANGED approvals => ApprovalsPart'
         /\ UNCHANGED kitchenTx /\ LinesLast => KitchenPart'
         /\ UNCHANGED closeTx => ClosingPart'
<1>1. \A o : Known(orders, o) => Known(orders', o)
  BY OrdersGone
<1>2. ASSUME UNCHANGED items PROVE ItemsPart' /\ LinesLast
  BY <1>1, <1>2 DEF FloorTyped, ItemsPart, LinesLast
<1>3. ASSUME UNCHANGED payments PROVE PaymentsPart'
  BY <1>1, <1>3 DEF FloorTyped, PaymentsPart
<1>4. ASSUME UNCHANGED approvals PROVE ApprovalsPart'
  BY <1>1, <1>4 DEF FloorTyped, ApprovalsPart
<1>5. ASSUME UNCHANGED kitchenTx, LinesLast PROVE KitchenPart'
  BY <1>1, <1>5 DEF FloorTyped, KitchenPart, LinesLast, KitchenUpdate
<1>6. ASSUME UNCHANGED closeTx PROVE ClosingPart'
  BY <1>1, <1>6 DEF FloorTyped, ClosingPart
<1> QED BY <1>2, <1>3, <1>4, <1>5, <1>6

\* Lines are changed, and made for orders that exist.
LEMMA LinesGo ==
  ASSUME FloorTyped, OrdersGo, items' \in [ItemIds -> Lines],
         \A i \in ItemIds : \/ items'[i] = items[i]
                            \/ items'[i].order = items[i].order /\ items[i].status # "none"
                            \/ items'[i].order \in OrderIds /\ orders'[items'[i].order].status # "none"
  PROVE  ItemsPart' /\ LinesLast
<1>1. \A o : Known(orders, o) => Known(orders', o)
  BY OrdersGone
<1>2. ASSUME NEW i \in ItemIds, items'[i].status # "none" PROVE Known(orders', items'[i].order)
  BY <1>1, <1>2 DEF Known, FloorTyped, ItemsPart
<1>3. ASSUME NEW i \in ItemIds, items[i].status # "none" PROVE items'[i].status # "none"
  <2>1. /\ items[i].status = "none" <=> items[i].order = 0
        /\ items'[i].status = "none" <=> items'[i].order = 0
    BY LineFields DEF FloorTyped, ItemsPart
  <2>2. 0 \notin OrderIds
    BY DEF OrderIds
  <2> QED BY <1>3, <2>1, <2>2
<1> QED BY <1>2, <1>3 DEF ItemsPart, LinesLast

\* Of tables only the state changes, to one of the states there are.
LEMMA ShownTyped ==
  ASSUME FloorTyped, NEW s \in TableState, NEW t, UNCHANGED sessions, tables' = Shown(t, s) \/ tables' = tables
  PROVE  PlacesPart'
BY DEF FloorTyped, PlacesPart, Shown
LEMMA ReleasedTyped ==
  ASSUME FloorTyped, NEW o, UNCHANGED sessions, tables' = Released(o) \/ tables' = tables
  PROVE  PlacesPart'
<1>1. "CLEANING" \in TableState
  BY DEF TableState
<1> QED BY <1>1, ShownTyped DEF Released

\* One line and its order are rewritten.
RowStep(i, r, o, s) ==
  /\ i \in ItemIds /\ o \in OrderIds /\ r \in Lines /\ s \in Checks
  /\ items' = [items EXCEPT ![i] = r] /\ orders' = [orders EXCEPT ![o] = s]
  /\ r.order = o /\ r.status # "none"
  /\ items[i].order \in {0, o} /\ (items[i].status = "none" \/ r.station = items[i].station)
  /\ s.status # "none" /\ s.discount = orders[o].discount
  /\ Exists(o) \/ o \in FreshOrder
LEMMA RowStepTyped ==
  ASSUME FloorTyped, NEW i, NEW r, NEW o, NEW s, RowStep(i, r, o, s)
  PROVE  OrdersGo /\ ItemsPart' /\ LinesLast
<1>1. OrdersGo
  BY OrderPut DEF RowStep
<1>2. /\ items' \in [ItemIds -> Lines] /\ items'[i] = r /\ \A j \in ItemIds \ {i} : items'[j] = items[j]
      /\ orders'[o].status # "none"
  BY DEF RowStep, FloorTyped, ItemsPart, OrdersPart
<1>3. ItemsPart' /\ LinesLast
  BY <1>1, <1>2, LinesGo DEF RowStep
<1> QED BY <1>1, <1>3

\* What a line adds to the subtotal of its order.
Worth(r) == IF r.order # 0 /\ r.status \notin DeadStatus THEN r.line ELSE 0
MoneyStep(i, r, o, s) == RowStep(i, r, o, s) /\ s.subtotal = Floored(orders[o].subtotal + Worth(r) - Worth(items[i]))
\* A line that is not a gift costs its portions, unless it was merged.
Priced(r) == r.status \notin DeadStatus /\ ~r.comp => r.line = r.price * r.quantity

LEMMA FreshRows ==
  ASSUME FloorTyped
  PROVE  /\ \A i \in FreshItem : i \in ItemIds /\ items[i].status = "none" /\ items[i].order = 0 /\ Worth(items[i]) = 0
         /\ \A o \in FreshOrder : o \in OrderIds /\ ~Exists(o) /\ o # 0
         /\ \A p \in FreshPayment : p \in PaymentIds
         /\ \A a \in FreshApproval : a \in ApprovalIds
         /\ \A s \in FreshSession : s \in SessionIds
<1>1. \A i \in ItemIds : items[i].status = "none" => items[i].order = 0
  BY LineFields DEF FloorTyped, ItemsPart
<1> QED BY <1>1 DEF FreshItem, FreshOrder, FreshPayment, FreshApproval, FreshSession, Fresh, Worth, OrderIds

\* A new line, sent at once or not.
NewRow(o, m, q, auto) ==
  LET r == Line(o, m, q, "SUBMITTED") IN IF auto THEN [r EXCEPT !.status = "ACCEPTED"] ELSE r
LEMMA NewRowMade ==
  ASSUME NEW o \in OrderIds, NEW m \in Menu, NEW q \in Quantities, NEW auto \in BOOLEAN
  PROVE  LET r == NewRow(o, m, q, auto) IN
         /\ r \in Lines /\ r.line = m.price * q /\ r.line \in Nat /\ r.order = o /\ ~r.comp
         /\ r.status \in {"SUBMITTED", "ACCEPTED"} /\ r.status \notin DeadStatus /\ r.status # "none"
         /\ Priced(r) /\ Worth(r) = r.line /\ r.station = m.station
         /\ r.line = Line(o, m, q, "SUBMITTED").line
<1>1. m.price \in Nat /\ m.station \in Stations \cup {NoStation} /\ q \in Nat /\ 0 < q /\ q <= MaxQuantity
  BY MenuAssumption, RowBounds DEF Quantities
<1> DEFINE l == Line(o, m, q, "SUBMITTED")
           r == NewRow(o, m, q, auto)
<1>2. /\ l \in Lines /\ l.quantity = q /\ l.line = m.price * q /\ l.price = m.price /\ l.order = o
      /\ l.status = "SUBMITTED" /\ ~l.comp /\ l.station = m.station
  <2>1. "SUBMITTED" \in ItemStatus
    BY DEF ItemStatus, PendingStatus
  <2> QED BY <1>1, <2>1, LineMade
<1> HIDE DEF l
<1>3. /\ r \in Lines /\ r.quantity = l.quantity /\ r.line = l.line /\ r.price = l.price /\ r.order = l.order
      /\ r.status \in {"SUBMITTED", "ACCEPTED"} /\ r.comp = l.comp /\ r.station = l.station
  <2>1. CASE auto
    <3>1. r = [l EXCEPT !.status = "ACCEPTED"]
      BY <2>1 DEF NewRow, l
    <3> QED BY <1>2, <3>1, LineMarked DEF ItemStatus
  <2>2. CASE ~auto
    <3>1. r = l
      BY <2>2 DEF NewRow, l
    <3> QED BY <1>2, <3>1
  <2> QED BY <2>1, <2>2
<1> HIDE DEF r
<1>4. r.status \notin DeadStatus /\ r.status # "none" /\ r.line \in Nat /\ o # 0
  BY <1>3, LineFields DEF DeadStatus, OrderIds
<1>5. Priced(r) /\ Worth(r) = r.line
  BY <1>2, <1>3, <1>4 DEF Priced, Worth
<1> QED BY <1>2, <1>3, <1>4, <1>5 DEF l, r

-----------------------------------------------------------------------------
(* Commands on orders, told by their effect. *)

LEMMA OrderRows == ASSUME FloorTyped, NEW o \in OrderIds PROVE orders[o] \in Checks /\ orders[o] \in Order
BY CheckFields DEF FloorTyped, OrdersPart

\* Charging a new line.
LEMMA AddingRow ==
  ASSUME FloorTyped, NEW i \in FreshItem, NEW r \in Lines, NEW o \in OrderIds, r.order = o, r.status # "none",
         r.status \notin DeadStatus, NEW s \in Checks, s.status # "none", Exists(o) \/ o \in FreshOrder,
         s.discount = orders[o].discount, s.subtotal = orders[o].subtotal + r.line,
         items' = [items EXCEPT ![i] = r], orders' = [orders EXCEPT ![o] = s]
  PROVE  MoneyStep(i, r, o, s)
<1>1. i \in ItemIds /\ items[i].status = "none" /\ items[i].order = 0 /\ Worth(items[i]) = 0
  BY FreshRows
<1>2. RowStep(i, r, o, s)
  BY <1>1 DEF RowStep
<1>3. Worth(r) = r.line /\ r.line \in Nat /\ orders[o].subtotal \in Nat
  BY LineFields, OrderRows, OrderFields DEF Worth, OrderIds
<1> QED BY <1>1, <1>2, <1>3, FlooredIsNat DEF MoneyStep

\* Lines are appended to open checks that no money was received for.
TakesLines(o) == Exists(o) /\ IsOpen(o) /\ Completed(o) = {}
LEMMA AppendDoes ==
  ASSUME FloorTyped, NEW o \in OrderIds, NEW m \in Menu, NEW q \in Quantities, NEW auto \in BOOLEAN, Append(o, m, q, auto)
  PROVE  /\ TakesLines(o)
         /\ \E i \in FreshItem, s \in Checks :
              /\ MoneyStep(i, NewRow(o, m, q, auto), o, s)
              /\ s.session = orders[o].session /\ s.status \in OrderStatus \ ClosedStatus
         /\ tables' = Shown(TableOf(o), "PREPARING") \/ tables' = Shown(TableOf(o), "ORDER_PENDING")
<1>1. orders[o].status \in (FollowsKitchen \ {"AWAITING_APPROVAL"}) \cup {"BILL_REQUESTED"} /\ Completed(o) = {}
  BY DEF Append
<1>2. TakesLines(o)
  BY <1>1 DEF TakesLines, Exists, IsOpen, FollowsKitchen, ClosedStatus
<1> DEFINE r == NewRow(o, m, q, auto)
           line == Line(o, m, q, "SUBMITTED")
           working == [orders[o] EXCEPT !.status = IF @ = "BILL_REQUESTED" THEN "ACCEPTED" ELSE @]
           charged == Charged(working, line.line)
           s == IF auto THEN Accepted(charged) ELSE charged
<1>3. /\ r \in Lines /\ r.line \in Nat /\ r.line = line.line /\ r.order = o
      /\ r.status \notin DeadStatus /\ r.status # "none"
  BY NewRowMade
<1>4. PICK i \in FreshItem : /\ items' = [items EXCEPT ![i] = r]
                             /\ orders' = [orders EXCEPT ![o] = s]
  <2>1. PICK i \in FreshItem :
          LET its == [items EXCEPT ![i] = line]
              c == Charged(working, its[i].line) IN
          IF auto THEN items' = Sent({i}, its) /\ orders' = [orders EXCEPT ![o] = Accepted(c)]
                  ELSE items' = its /\ orders' = [orders EXCEPT ![o] = c]
    BY Zenon DEF Append
  <2>2. i \in ItemIds
    BY FreshRows
  <2> DEFINE its == [items EXCEPT ![i] = line]
  <2>3. its[i] = line /\ its \in [ItemIds -> Lines \cup {line}] /\ \A j \in ItemIds \ {i} : its[j] = items[j]
    BY <2>2 DEF FloorTyped, ItemsPart
  <2>4. CASE auto
    <3>1. items' = Sent({i}, its) /\ orders' = [orders EXCEPT ![o] = Accepted(Charged(working, its[i].line))]
      BY <2>1, <2>4
    <3>2. r = [line EXCEPT !.status = "ACCEPTED"]
      BY <2>4 DEF NewRow
    <3>3. s = Accepted(charged)
      BY <2>4
    <3> HIDE DEF its, working, line, r, s
    <3>4. items' = [items EXCEPT ![i] = r]
      BY <2>2, <2>3, <3>1, <3>2 DEF Sent, its, FloorTyped, ItemsPart
    <3> QED BY <2>3, <3>1, <3>3, <3>4
  <2>5. CASE ~auto
    <3>1. items' = its /\ orders' = [orders EXCEPT ![o] = Charged(working, its[i].line)]
      BY <2>1, <2>5
    <3>2. r = line
      BY <2>5 DEF NewRow
    <3>3. s = charged
      BY <2>5
    <3> HIDE DEF working, line, r, s
    <3> QED BY <2>3, <3>1, <3>2, <3>3
  <2> QED BY <2>4, <2>5
<1>5. /\ s \in Checks /\ s.subtotal = orders[o].subtotal + r.line /\ s.discount = orders[o].discount
      /\ s.session = orders[o].session /\ s.status \in OrderStatus \ ClosedStatus
  <2>1. /\ working \in Checks /\ working.subtotal = orders[o].subtotal /\ working.discount = orders[o].discount
        /\ working.session = orders[o].session /\ working.status \in FollowsKitchen
    <3> DEFINE st == IF orders[o].status = "BILL_REQUESTED" THEN "ACCEPTED" ELSE orders[o].status
    <3>1. st \in OrderStatus /\ st \in FollowsKitchen
      BY <1>1 DEF OrderStatus, FollowsKitchen
    <3>2. working = [orders[o] EXCEPT !.status = st]
      BY OrderRows DEF Order
    <3> HIDE DEF st, working
    <3> QED BY <3>1, <3>2, OrderMarked, OrderRows
  <2> HIDE DEF working, line
  <2>2. /\ charged \in Checks /\ charged.subtotal = orders[o].subtotal + r.line /\ charged.discount = orders[o].discount
        /\ charged.session = orders[o].session /\ charged.status \in FollowsKitchen
    <3>1. working \in Order /\ r.line \in Nat /\ charged = Charged(working, r.line)
      BY <1>3, <2>1, CheckFields
    <3> HIDE DEF charged, r
    <3>2. /\ charged \in Checks /\ charged.subtotal = working.subtotal + r.line /\ charged.discount = working.discount
          /\ charged.status = working.status /\ charged.session = working.session
      BY <3>1, OrderCharged
    <3> QED BY <2>1, <3>2
  <2> HIDE DEF charged
  <2>3. /\ Accepted(charged) \in Checks /\ Accepted(charged).subtotal = charged.subtotal
        /\ Accepted(charged).discount = charged.discount /\ Accepted(charged).session = charged.session
        /\ Accepted(charged).status \in FollowsKitchen
    <3> DEFINE st == IF charged.status \in {"PREPARING", "PARTIALLY_READY"} THEN "PREPARING" ELSE "ACCEPTED"
    <3>1. st \in OrderStatus /\ st \in FollowsKitchen
      BY DEF OrderStatus, FollowsKitchen
    <3>2. Accepted(charged) = [charged EXCEPT !.status = st]
      BY DEF Accepted
    <3> HIDE DEF st
    <3> QED BY <2>2, <3>1, <3>2, OrderMarked
  <2>4. FollowsKitchen \subseteq OrderStatus \ ClosedStatus
    BY DEF FollowsKitchen, OrderStatus, ClosedStatus
  <2> QED BY <2>2, <2>3, <2>4
<1> HIDE DEF r, s
<1>6. MoneyStep(i, r, o, s)
  <2>1. s.status # "none" /\ Exists(o)
    BY <1>2, <1>5 DEF OrderStatus, FollowsKitchen, ClosedStatus, TakesLines
  <2> QED BY <1>3, <1>4, <1>5, <2>1, AddingRow
<1>7. tables' = Shown(TableOf(o), "PREPARING") \/ tables' = Shown(TableOf(o), "ORDER_PENDING")
  BY Zenon DEF Append
<1> QED BY <1>2, <1>5, <1>6, <1>7 DEF r

LEMMA AcceptedCheck ==
  ASSUME NEW c \in Checks
  PROVE  LET s == Accepted(c) IN
         /\ s \in Checks /\ s.subtotal = c.subtotal /\ s.discount = c.discount /\ s.total = c.total
         /\ s.session = c.session /\ s.status \in {"ACCEPTED", "PREPARING"} /\ s.status \in OrderStatus \ ClosedStatus
         /\ s.status # "none"
<1> DEFINE st == IF c.status \in {"PREPARING", "PARTIALLY_READY"} THEN "PREPARING" ELSE "ACCEPTED"
<1>1. st \in OrderStatus /\ st \in {"ACCEPTED", "PREPARING"} /\ st \in OrderStatus \ ClosedStatus /\ st # "none"
  BY DEF OrderStatus, FollowsKitchen, ClosedStatus
<1>2. Accepted(c) = [c EXCEPT !.status = st]
  BY DEF Accepted
<1> HIDE DEF st
<1> QED BY <1>1, <1>2, OrderMarked

\* A check of its own for a new line.
LEMMA OpenDoes ==
  ASSUME FloorTyped, NEW t, NEW ss \in SessionIds \cup {0}, NEW m \in Menu, NEW q \in Quantities, NEW auto \in BOOLEAN,
         Open(t, ss, m, q, auto)
  PROVE  /\ \E o \in FreshOrder, i \in FreshItem, s \in Checks :
              /\ MoneyStep(i, NewRow(o, m, q, auto), o, s)
              /\ s.session = ss /\ s.status \in OrderStatus \ ClosedStatus
         /\ tables' = Shown(t, "PREPARING") \/ tables' = Shown(t, "ORDER_PENDING")
<1> DEFINE line(o) == Line(o, m, q, "SUBMITTED")
           fresh(o) == Charged([NoOrder EXCEPT !.status = "SUBMITTED", !.session = ss], line(o).line)
<1>1. PICK o \in FreshOrder, i \in FreshItem :
        LET its == [items EXCEPT ![i] = line(o)]
            c   == Charged([NoOrder EXCEPT !.status = "SUBMITTED", !.session = ss], its[i].line) IN
        IF auto THEN items' = Sent({i}, its) /\ orders' = [orders EXCEPT ![o] = Accepted(c)]
                ELSE items' = its /\ orders' = [orders EXCEPT ![o] = c]
  BY Zenon DEF Open
<1>2. o \in OrderIds /\ ~Exists(o) /\ orders[o] = NoOrder /\ i \in ItemIds
  BY FreshRows DEF FloorTyped, OrdersPart
<1> DEFINE r == NewRow(o, m, q, auto)
           s == IF auto THEN Accepted(fresh(o)) ELSE fresh(o)
           its == [items EXCEPT ![i] = line(o)]
<1>3. /\ r \in Lines /\ r.line \in Nat /\ r.line = line(o).line /\ r.order = o
      /\ r.status \notin DeadStatus /\ r.status # "none"
  BY <1>2, NewRowMade
<1>4. its[i] = line(o) /\ its \in [ItemIds -> Lines \cup {line(o)}] /\ \A j \in ItemIds \ {i} : its[j] = items[j]
  BY <1>2 DEF FloorTyped, ItemsPart
<1>5. items' = [items EXCEPT ![i] = r] /\ orders' = [orders EXCEPT ![o] = s]
  <2>4. CASE auto
    <3>1. items' = Sent({i}, its) /\ orders' = [orders EXCEPT ![o] = Accepted(fresh(o))]
      BY <1>1, <1>4, <2>4
    <3>2. r = [line(o) EXCEPT !.status = "ACCEPTED"]
      BY <2>4 DEF NewRow
    <3>3. s = Accepted(fresh(o))
      BY <2>4
    <3> HIDE DEF its, fresh, line, r, s
    <3>4. items' = [items EXCEPT ![i] = r]
      BY <1>2, <1>4, <3>1, <3>2 DEF Sent, its, FloorTyped, ItemsPart
    <3> QED BY <3>1, <3>3, <3>4
  <2>5. CASE ~auto
    <3>1. items' = its /\ orders' = [orders EXCEPT ![o] = fresh(o)]
      BY <1>1, <1>4, <2>5
    <3>2. r = line(o)
      BY <2>5 DEF NewRow
    <3>3. s = fresh(o)
      BY <2>5
    <3> HIDE DEF fresh, line, r, s
    <3> QED BY <3>1, <3>2, <3>3
  <2> QED BY <2>4, <2>5
<1>6. /\ s \in Checks /\ s.subtotal = r.line /\ s.discount = 0
      /\ s.session = ss /\ s.status \in OrderStatus \ ClosedStatus /\ s.status # "none"
  <2> DEFINE base == [NoOrder EXCEPT !.status = "SUBMITTED", !.session = ss]
  <2>1. base \in Order /\ base.subtotal = 0 /\ base.discount = 0 /\ base.session = ss /\ base.status = "SUBMITTED"
    BY DEF Order, NoOrder, OrderStatus, FollowsKitchen
  <2>2. fresh(o) = Charged(base, r.line) /\ r.line \in Nat
    BY <1>3
  <2> HIDE DEF base, r, fresh
  <2>3. /\ fresh(o) \in Checks /\ fresh(o).subtotal = 0 + r.line /\ fresh(o).discount = 0
        /\ fresh(o).session = ss /\ fresh(o).status = "SUBMITTED"
    BY <2>1, <2>2, OrderCharged
  <2>4. "SUBMITTED" \in OrderStatus \ ClosedStatus
    BY DEF OrderStatus, FollowsKitchen, ClosedStatus
  <2>5. 0 + r.line = r.line
    BY <2>2
  <2> QED BY <2>3, <2>4, <2>5, AcceptedCheck
<1> HIDE DEF r, s
<1>7. s.subtotal = orders[o].subtotal + r.line /\ s.discount = orders[o].discount
  BY <1>2, <1>3, <1>6 DEF NoOrder
<1>8. MoneyStep(i, r, o, s)
  BY <1>2, <1>3, <1>5, <1>6, <1>7, AddingRow
<1>9. tables' = Shown(t, "PREPARING") \/ tables' = Shown(t, "ORDER_PENDING")
  BY Zenon DEF Open
<1> QED BY <1>6, <1>8, <1>9 DEF r

-----------------------------------------------------------------------------
(* Every step keeps what the rows hold. *)

LEMMA TicketsTyped ==
  ASSUME FloorTyped, NEW o, NEW ls \in SUBSET ItemIds, NEW its
  PROVE  Ticketed(o, ls, its) \in [TicketIds -> Ticket]
BY DEF FloorTyped, Ticket, Ticketed, At, TicketStatus

LEMMA MoneyStepTyped ==
  ASSUME FloorTyped, NEW i, NEW r, NEW o, NEW s, MoneyStep(i, r, o, s), PlacesPart', CountsPart',
         tickets' \in [TicketIds -> Ticket], UNCHANGED <<payments, approvals, kitchenTx, closeTx>>
  PROVE  FloorTyped'
<1>1. OrdersGo /\ ItemsPart' /\ LinesLast
  BY RowStepTyped DEF MoneyStep
<1> QED BY <1>1, OrdersGone, PartsStay DEF FloorTyped

LEMMA CountsStay == ASSUME FloorTyped, UNCHANGED <<edits, moves, retries>> PROVE CountsPart'
BY DEF FloorTyped, CountsPart

LEMMA AppendTyped ==
  ASSUME FloorTyped, NEW o \in OrderIds, NEW m \in Menu, NEW q \in Quantities, NEW auto \in BOOLEAN, Append(o, m, q, auto)
  PROVE  FloorTyped'
<1>1. PICK i \in FreshItem, s \in Checks : MoneyStep(i, NewRow(o, m, q, auto), o, s)
  BY AppendDoes
<1>2. UNCHANGED <<payments, approvals, sessions, kitchenTx, closeTx, edits, moves, retries>>
  BY Zenon DEF Append
<1>3. PlacesPart'
  <2>1. tables' = Shown(TableOf(o), "PREPARING") \/ tables' = Shown(TableOf(o), "ORDER_PENDING")
    BY AppendDoes
  <2> QED BY <1>2, <2>1, ShownTyped DEF TableState
<1>4. tickets' \in [TicketIds -> Ticket]
  <2>1. \/ tickets' = tickets
        \/ \E j \in FreshItem : \E its : tickets' = Ticketed(o, {j}, its)
    BY Zenon DEF Append
  <2>2. \A j \in FreshItem : \A its : Ticketed(o, {j}, its) \in [TicketIds -> Ticket]
    BY TicketsTyped, FreshRows
  <2>3. tickets \in [TicketIds -> Ticket]
    BY DEF FloorTyped
  <2> QED BY <2>1, <2>2, <2>3, Zenon
<1> QED BY <1>1, <1>2, <1>3, <1>4, CountsStay, MoneyStepTyped

LEMMA OpenTyped ==
  ASSUME FloorTyped, NEW t, NEW ss \in SessionIds \cup {0}, NEW m \in Menu, NEW q \in Quantities, NEW auto \in BOOLEAN,
         Open(t, ss, m, q, auto), UNCHANGED <<payments, approvals, kitchenTx, closeTx, edits, moves, retries>>,
         sessions' = sessions \/ (ss # 0 /\ t \in Tables /\ sessions' = [sessions EXCEPT ![ss] = [table |-> t, status |-> "OPEN"]])
  PROVE  FloorTyped'
<1>0. \E o \in FreshOrder, i \in FreshItem, s \in Checks :
         /\ MoneyStep(i, NewRow(o, m, q, auto), o, s)
         /\ s.session = ss /\ s.status \in OrderStatus \ ClosedStatus
  <2>1. \A x : Open(x, ss, m, q, auto) =>
         \E o \in FreshOrder, i \in FreshItem, s \in Checks :
         /\ MoneyStep(i, NewRow(o, m, q, auto), o, s)
         /\ s.session = ss /\ s.status \in OrderStatus \ ClosedStatus
    BY OpenDoes, SMTT(30)
  <2> QED BY <2>1
<1>1. PICK o \in FreshOrder, i \in FreshItem, s \in Checks : MoneyStep(i, NewRow(o, m, q, auto), o, s)
  BY <1>0
<1>3. PlacesPart'
  <2>1. tables' = Shown(t, "PREPARING") \/ tables' = Shown(t, "ORDER_PENDING")
    BY OpenDoes
  <2>2. tables' \in [Tables -> TableState]
    BY <2>1 DEF FloorTyped, PlacesPart, Shown, TableState
  <2>3. sessions' \in [SessionIds -> Session]
    BY DEF FloorTyped, PlacesPart, Session
  <2> QED BY <2>2, <2>3 DEF PlacesPart
<1>4. tickets' \in [TicketIds -> Ticket]
  <2>1. \/ tickets' = tickets
        \/ \E p \in FreshOrder, j \in FreshItem : \E its : tickets' = Ticketed(p, {j}, its)
    BY Zenon DEF Open
  <2>2. \A p \in FreshOrder, j \in FreshItem : \A its : Ticketed(p, {j}, its) \in [TicketIds -> Ticket]
    BY TicketsTyped, FreshRows
  <2>3. tickets \in [TicketIds -> Ticket]
    BY DEF FloorTyped
  <2>4. CASE \E p \in FreshOrder, j \in FreshItem : \E its : tickets' = Ticketed(p, {j}, its)
    <3>1. PICK p \in FreshOrder, j \in FreshItem : \E its : tickets' = Ticketed(p, {j}, its)
      BY <2>4
    <3>2. PICK its : tickets' = Ticketed(p, {j}, its)
      BY <3>1
    <3>3. Ticketed(p, {j}, its) \in [TicketIds -> Ticket]
      BY <2>2
    <3> QED BY <3>2, <3>3
  <2> QED BY <2>1, <2>3, <2>4
<1> QED BY <1>1, <1>3, <1>4, CountsStay, MoneyStepTyped

LEMMA IntakeTyped == ASSUME FloorTyped, Intake PROVE FloorTyped'
<1>1. PICK m \in Menu, q \in Quantities, auto \in BOOLEAN :
        \/ \E t \in Tables : CreateAtTable(t, m, q, auto)
        \/ CreateTakeaway(m, q, auto)
        \/ \E o \in OrderIds : Append(o, m, q, auto)
  BY Zenon DEF Intake
<1>2. ASSUME NEW t \in Tables, CreateAtTable(t, m, q, auto) PROVE FloorTyped'
  <2>1. \/ \E o \in LastCheck(t) : Append(o, m, q, auto)
        \/ /\ \E s \in SessionFor(t) :
                /\ sessions' = [sessions EXCEPT ![s] = [table |-> t, status |-> "OPEN"]]
                /\ Open(t, s, m, q, auto)
           /\ UNCHANGED <<payments, approvals, kitchenTx, closeTx, edits, moves, retries>>
    BY <1>2, Zenon DEF CreateAtTable
  <2>2. ASSUME NEW o \in LastCheck(t), Append(o, m, q, auto) PROVE FloorTyped'
    <3>1. o \in OrderIds
      BY DEF LastCheck, OpenChecks, ChecksOn
    <3> QED BY <2>2, <3>1, AppendTyped
  <2>3. ASSUME NEW s \in SessionFor(t), sessions' = [sessions EXCEPT ![s] = [table |-> t, status |-> "OPEN"]],
               Open(t, s, m, q, auto), UNCHANGED <<payments, approvals, kitchenTx, closeTx, edits, moves, retries>>
        PROVE  FloorTyped'
    <3>1. s \in SessionIds /\ s # 0
      BY FreshRows, RowBounds DEF SessionFor, OpenSessions, SessionIds
    <3> QED BY <2>3, <3>1, OpenTyped
  <2> QED BY <2>1, <2>2, <2>3
<1>3. ASSUME CreateTakeaway(m, q, auto) PROVE FloorTyped'
  <2>1. /\ Open(0, 0, m, q, auto)
        /\ UNCHANGED <<payments, approvals, sessions, kitchenTx, closeTx, edits, moves, retries>>
    BY <1>3 DEF CreateTakeaway
  <2> QED BY <2>1, OpenTyped
<1> QED BY <1>1, <1>2, <1>3, AppendTyped

LEMMA ServiceTyped == ASSUME FloorTyped, Service PROVE FloorTyped'
<1>1. PICK o \in OrderIds : AcceptOrder(o) \/ RequestBill(o)
  BY DEF Service
<1>2. CASE AcceptOrder(o)
  <2> DEFINE pending == {i \in LinesOf(o) : items[i].status \in PendingStatus}
  <2>1. /\ orders[o].status \in FollowsKitchen
        /\ items' = Sent(pending, items) /\ tickets' = Ticketed(o, pending, items)
        /\ orders' = [orders EXCEPT ![o] = Accepted(@)]
        /\ tables' = Shown(TableOf(o), "PREPARING")
        /\ UNCHANGED <<payments, approvals, sessions, kitchenTx, closeTx, edits, moves, retries>>
    BY <1>2 DEF AcceptOrder
  <2>2. Exists(o) /\ orders[o] \in Checks /\ orders' = [orders EXCEPT ![o] = Accepted(orders[o])]
    BY <2>1 DEF Exists, FollowsKitchen, FloorTyped, OrdersPart
  <2>3. OrdersGo
    BY <2>2, AcceptedCheck, OrderPut
  <2>4. ItemsPart' /\ LinesLast
    <3>1. \A i \in ItemIds : /\ items'[i] \in Lines
                             /\ items'[i] = items[i] \/ (items'[i].order = items[i].order /\ items[i].status # "none")
      <4> SUFFICES ASSUME NEW i \in ItemIds
                   PROVE  /\ items'[i] \in Lines
                          /\ items'[i] = items[i] \/ (items'[i].order = items[i].order /\ items[i].status # "none")
        OBVIOUS
      <4>0. items[i] \in Lines
        BY DEF FloorTyped, ItemsPart
      <4>1. CASE i \in pending
        <5>1. items'[i] = [items[i] EXCEPT !.status = "ACCEPTED"] /\ items[i].status # "none" /\ "ACCEPTED" \in ItemStatus
          BY <2>1, <4>1 DEF Sent, PendingStatus, ItemStatus
        <5> QED BY <4>0, <5>1, LineMarked
      <4>2. CASE i \notin pending
        BY <2>1, <4>0, <4>2 DEF Sent
      <4> QED BY <4>1, <4>2
    <3>2. DOMAIN items' = ItemIds /\ items' = [i \in ItemIds |-> items'[i]]
      BY <2>1 DEF Sent
    <3> QED BY <2>3, <3>1, <3>2, LinesGo
  <2>5. tickets' \in [TicketIds -> Ticket]
    <3>1. pending \in SUBSET ItemIds
      BY DEF LinesOf
    <3> HIDE DEF pending
    <3> QED BY <2>1, <3>1, TicketsTyped
  <2>6. PlacesPart'
    BY <2>1, ShownTyped DEF TableState
  <2> QED BY <2>1, <2>3, <2>4, <2>5, <2>6, CountsStay, OrdersGone, PartsStay DEF FloorTyped
<1>3. CASE RequestBill(o)
  <2>1. /\ orders[o].status \in FollowsKitchen
        /\ orders' = [orders EXCEPT ![o].status = "BILL_REQUESTED"]
        /\ tables' = Shown(TableOf(o), "BILL_REQUESTED")
        /\ UNCHANGED <<items, tickets, payments, approvals, sessions, kitchenTx, closeTx, edits, moves, retries>>
    BY <1>3 DEF RequestBill
  <2>2. Exists(o) /\ orders[o] \in Checks /\ orders' = [orders EXCEPT ![o] = [orders[o] EXCEPT !.status = "BILL_REQUESTED"]]
        /\ "BILL_REQUESTED" \in OrderStatus /\ "BILL_REQUESTED" # "none"
    BY <2>1 DEF Exists, FollowsKitchen, FloorTyped, OrdersPart, OrderStatus
  <2>3. OrdersGo
    BY <2>2, OrderMarked, OrderPut
  <2>6. PlacesPart'
    BY <2>1, ShownTyped DEF TableState
  <2> QED BY <2>1, <2>3, <2>6, CountsStay, OrdersGone, PartsStay DEF FloorTyped
<1> QED BY <1>1, <1>2, <1>3

LEMMA OpenRow ==
  ASSUME FloorTyped, NEW o \in OrderIds, IsOpen(o)
  PROVE  /\ Exists(o) /\ orders[o].status # "none" /\ orders[o].status \in OrderStatus \ ClosedStatus
         /\ orders[o] \in Checks /\ orders[o] \in Order
         /\ orders[o].subtotal \in Nat /\ orders[o].discount \in Nat
<1>1. orders[o] \in Checks
  BY DEF FloorTyped, OrdersPart
<1> QED BY <1>1, CheckFields DEF IsOpen, Exists

LEMMA ReopenedCheck ==
  ASSUME NEW r \in Checks, r.status \in OrderStatus \ ClosedStatus
  PROVE  LET s == Reopened(r) IN
         /\ s \in Checks /\ s.subtotal = r.subtotal /\ s.discount = r.discount /\ s.total = r.total
         /\ s.session = r.session /\ s.status \in OrderStatus \ ClosedStatus
<1> DEFINE st == IF r.status = "BILL_REQUESTED" THEN "ACCEPTED" ELSE r.status
<1>1. st \in OrderStatus /\ st \in OrderStatus \ ClosedStatus
  BY DEF OrderStatus, FollowsKitchen, ClosedStatus
<1>2. Reopened(r) = [r EXCEPT !.status = st]
  BY DEF Reopened, Checks, Order
<1> HIDE DEF st
<1> QED BY <1>1, <1>2, OrderMarked

LEMMA NotClosed == ASSUME NEW st \in OrderStatus \ ClosedStatus PROVE st \in OrderStatus /\ st # "none"
BY DEF OrderStatus, FollowsKitchen, ClosedStatus

LEMMA EditTarget ==
  ASSUME FloorTyped, NEW i \in ItemIds, Editable(i)
  PROVE  LET o == items[i].order IN
         /\ o \in OrderIds /\ o # 0 /\ IsOpen(o) /\ Exists(o) /\ Completed(o) = {} /\ ~Dead(i)
         /\ items[i] \in Lines /\ items[i].status # "none" /\ items[i].status \in ItemStatus
         /\ items[i].status \notin DeadStatus
         /\ Worth(items[i]) = items[i].line
<1>1. items[i] \in Lines /\ items[i].order # 0 /\ IsOpen(items[i].order) /\ Completed(items[i].order) = {} /\ ~Dead(i)
  BY DEF Editable, FloorTyped, ItemsPart
<1>2. items[i].order \in OrderIds /\ items[i].status # "none" /\ items[i].status \in ItemStatus
  BY <1>1, LineFields
<1> QED BY <1>1, <1>2 DEF Worth, Dead, IsOpen

\* What an edit of line i of order o does: it writes line j, which is i or a new one.
Edits(i, o, j, r, s) ==
  /\ RowStep(j, r, o, s)
  /\ Priced(items[i]) => MoneyStep(j, r, o, s) /\ Priced(r)
  /\ s.session = orders[o].session /\ s.status \in OrderStatus \ ClosedStatus
  /\ r.status \notin DeadStatus
  /\ \/ j = i /\ r.status = items[i].status
     \/ j \in FreshItem /\ r.status = "SUBMITTED"

LEMMA EditWritten ==
  ASSUME FloorTyped, NEW i \in ItemIds, Editable(i), NEW o, o = items[i].order,
         NEW r \in Lines, r.order = o, r.status = items[i].status, r.station = items[i].station,
         items' = [items EXCEPT ![i] = r],
         NEW s \in Checks, s.discount = orders[o].discount, s.session = orders[o].session,
         s.status \in OrderStatus \ ClosedStatus, orders' = [orders EXCEPT ![o] = s],
         Priced(items[i]) => /\ s.subtotal = Floored(orders[o].subtotal + r.line - items[i].line)
                             /\ Priced(r)
  PROVE  Edits(i, o, i, r, s)
<1>1. /\ o \in OrderIds /\ o # 0 /\ Exists(o) /\ items[i].status # "none" /\ items[i].status \notin DeadStatus
      /\ Worth(items[i]) = items[i].line
  BY EditTarget
<1>2. RowStep(i, r, o, s)
  BY <1>1, NotClosed DEF RowStep
<1>3. Worth(r) = r.line
  BY <1>1 DEF Worth
<1>4. Priced(items[i]) => MoneyStep(i, r, o, s) /\ Priced(r)
  BY <1>1, <1>2, <1>3 DEF MoneyStep
<1> QED BY <1>1, <1>2, <1>4 DEF Edits

LEMMA IncreaseEdits ==
  ASSUME FloorTyped, NEW i \in ItemIds, Increase(i), NEW o, o = items[i].order
  PROVE  \E j \in ItemIds, r \in Lines, s \in Checks : Edits(i, o, j, r, s)
<1>1. Editable(i)
  BY DEF Increase
<1>2. /\ o \in OrderIds /\ o # 0 /\ IsOpen(o) /\ Exists(o) /\ items[i] \in Lines /\ items[i].status \in ItemStatus
      /\ items[i].status \notin DeadStatus /\ items[i].status # "none" /\ Worth(items[i]) = items[i].line
  BY <1>1, EditTarget
<1>3. /\ orders[o].subtotal \in Nat /\ orders[o] \in Checks /\ orders[o].status \in OrderStatus \ ClosedStatus
  BY <1>2, OpenRow
<1>4. /\ items[i].price \in Nat /\ items[i].quantity \in Nat /\ items[i].quantity <= MaxQuantity /\ items[i].line \in Nat
      /\ items[i].line <= items[i].price * items[i].quantity /\ (items[i].comp => items[i].line = 0)
      /\ items[i].comp \in BOOLEAN /\ items[i].station \in Stations \cup {NoStation} /\ MaxQuantity \in Nat
      /\ items[i].price * (items[i].quantity + 1) = items[i].price * items[i].quantity + items[i].price
      /\ items[i].price * items[i].quantity \in Nat /\ items[i].quantity > 0
  BY <1>2, LineFields
<1> DEFINE one  == IF items[i].comp THEN 0 ELSE items[i].price
           more == IF items[i].comp THEN items[i].line ELSE items[i].price * (items[i].quantity + 1)
           new  == [Line(o, items[i], 1, "SUBMITTED") EXCEPT !.comp = items[i].comp, !.line = one]
           grown == [items[i] EXCEPT !.quantity = items[i].quantity + 1, !.line = more]
           back == Reopened(orders[o])
<1>5. back \in Checks /\ back \in Order /\ back.subtotal = orders[o].subtotal /\ back.discount = orders[o].discount
      /\ back.session = orders[o].session /\ back.status \in OrderStatus \ ClosedStatus
  BY <1>3, ReopenedCheck, CheckFields
<1> HIDE DEF back
<1>6. CASE /\ items[i].status \notin PendingStatus
           /\ \E n \in FreshItem : items' = [items EXCEPT ![n] = new]
           /\ orders' = [orders EXCEPT ![o] = Charged(back, one)]
  <2>1. one \in Nat /\ one <= items[i].price /\ (items[i].comp => one = 0) /\ (~items[i].comp => one = items[i].price)
    BY <1>4
  <2>2. PICK n \in FreshItem : items' = [items EXCEPT ![n] = new]
    BY <1>6
  <2>3. n \in ItemIds /\ items[n].status = "none" /\ items[n].order = 0 /\ Worth(items[n]) = 0
    BY FreshRows
  <2>4. /\ new \in Lines /\ new.quantity = 1 /\ new.line = one /\ new.price = items[i].price /\ new.order = o
        /\ new.status = "SUBMITTED" /\ (new.comp <=> items[i].comp)
    <3> DEFINE l == Line(o, items[i], 1, "SUBMITTED")
    <3>1. "SUBMITTED" \in ItemStatus /\ 1 \in Nat /\ 1 <= MaxQuantity
      BY <1>4 DEF ItemStatus, PendingStatus
    <3>2. /\ l \in Lines /\ l.quantity = 1 /\ l.price = items[i].price /\ l.order = o
          /\ l.status = "SUBMITTED" /\ l.station = items[i].station
      BY <1>2, <1>4, <3>1, LineMade
    <3>3. items[i].price * 1 = items[i].price
      BY <1>4
    <3>4. new = [l EXCEPT !.comp = items[i].comp, !.line = one]
      OBVIOUS
    <3> HIDE DEF l, new, one
    <3>5. one <= l.price * l.quantity
      BY <2>1, <3>2, <3>3
    <3>6. items[i].comp \in BOOLEAN /\ one \in Nat /\ (items[i].comp => one = 0)
      BY <1>4, <2>1
    <3>7. Rewrites(new, l, l.quantity, one, items[i].comp)
      BY <3>2, <3>4, <3>5, <3>6, LineGifted, Zenon
    <3> QED BY <3>2, <3>7 DEF Rewrites
  <2> DEFINE s == Charged(back, one)
  <2>5. /\ s \in Checks /\ s.subtotal = orders[o].subtotal + one /\ s.discount = orders[o].discount
        /\ s.session = orders[o].session /\ s.status \in OrderStatus \ ClosedStatus
    <3> HIDE DEF one
    <3> QED BY <1>5, <2>1, OrderCharged
  <2>6. orders' = [orders EXCEPT ![o] = s]
    BY <1>6
  <2> HIDE DEF s, new, one
  <2>7. RowStep(n, new, o, s)
    BY <1>2, <2>2, <2>3, <2>4, <2>5, <2>6, NotClosed DEF RowStep
  <2>8. new.status \notin DeadStatus
    BY <2>4 DEF DeadStatus
  <2>9. MoneyStep(n, new, o, s)
    <3>1. Worth(new) = one
      BY <1>2, <2>4, <2>8 DEF Worth
    <3>2. s.subtotal = Floored(orders[o].subtotal + Worth(new) - Worth(items[n]))
      BY <1>3, <2>1, <2>3, <2>5, <3>1 DEF Floored
    <3> QED BY <2>7, <3>2 DEF MoneyStep
  <2>10. Priced(new)
    <3>1. new.price * new.quantity = items[i].price
      BY <1>4, <2>4
    <3>2. ~new.comp => new.line = items[i].price
      BY <2>1, <2>4
    <3> QED BY <3>1, <3>2 DEF Priced
  <2> QED BY <2>3, <2>4, <2>5, <2>7, <2>8, <2>9, <2>10 DEF Edits
<1>7. CASE /\ items[i].status \in PendingStatus
           /\ items[i].quantity < MaxQuantity
           /\ items' = [items EXCEPT ![i] = grown]
           /\ orders' = [orders EXCEPT ![o] = Charged(back, more - items[i].line)]
  <2>1. /\ more \in Nat /\ more - items[i].line \in Nat /\ more <= items[i].price * (items[i].quantity + 1)
        /\ (items[i].comp => more = 0)
    BY <1>4
  <2>2. /\ grown \in Lines /\ grown.quantity = items[i].quantity + 1 /\ grown.line = more
        /\ grown.price = items[i].price /\ grown.order = o /\ grown.status = items[i].status
        /\ (grown.comp <=> items[i].comp) /\ grown.station = items[i].station
    <3> HIDE DEF more
    <3> DEFINE k == items[i].quantity + 1
    <3>1. k \in Nat /\ 0 < k /\ k <= MaxQuantity /\ k = items[i].quantity + 1
      BY <1>4, <1>7
    <3> HIDE DEF k
    <3>2. grown = [items[i] EXCEPT !.quantity = k, !.line = more] /\ more <= items[i].price * k
      BY <2>1, <3>1
    <3> HIDE DEF grown
    <3>3. items[i].order = o
      OBVIOUS
    <3>4. items[i] \in Lines /\ more \in Nat /\ (items[i].comp => more = 0)
      BY <1>2, <2>1
    <3>5. Rewrites(grown, items[i], k, more, items[i].comp)
      BY <3>1, <3>2, <3>4, LineResized, Zenon
    <3> QED BY <3>1, <3>3, <3>5 DEF Rewrites
  <2> DEFINE s == Charged(back, more - items[i].line)
  <2>5. /\ s \in Checks /\ s.subtotal = orders[o].subtotal + (more - items[i].line) /\ s.discount = orders[o].discount
        /\ s.session = orders[o].session /\ s.status \in OrderStatus \ ClosedStatus
    <3> HIDE DEF more
    <3> QED BY <1>5, <2>1, OrderCharged
  <2>6. orders' = [orders EXCEPT ![o] = s]
    BY <1>7
  <2>7. ~items[i].comp => more = items[i].price * (items[i].quantity + 1)
    OBVIOUS
  <2> HIDE DEF s, grown, more
  <2>8. s.subtotal = Floored(orders[o].subtotal + grown.line - items[i].line)
    <3> DEFINE a == orders[o].subtotal
               b == items[i].line
               c == s.subtotal
    <3>1. a \in Nat /\ b \in Nat /\ more \in Nat /\ more - b \in Nat /\ c = a + (more - b) /\ grown.line = more
      BY <1>3, <1>4, <2>1, <2>2, <2>5
    <3> HIDE DEF a, b, c
    <3>2. c = Floored(a + more - b)
      BY <3>1 DEF Floored
    <3> QED BY <3>1, <3>2 DEF a, b, c
  <2>9. Priced(grown)
    <3>1. grown.price * grown.quantity = items[i].price * (items[i].quantity + 1)
      BY <2>2
    <3>2. ~grown.comp => grown.line = items[i].price * (items[i].quantity + 1)
      BY <2>2, <2>7
    <3> QED BY <3>1, <3>2 DEF Priced
  <2>10. Edits(i, o, i, grown, s)
    BY <1>1, <1>7, <2>2, <2>5, <2>6, <2>8, <2>9, EditWritten
  <2> QED BY <2>2, <2>5, <2>10
<1>8. \/ /\ items[i].status \notin PendingStatus
         /\ \E n \in FreshItem : items' = [items EXCEPT ![n] = new]
         /\ orders' = [orders EXCEPT ![o] = Charged(back, one)]
      \/ /\ items[i].status \in PendingStatus
         /\ items[i].quantity < MaxQuantity
         /\ items' = [items EXCEPT ![i] = grown]
         /\ orders' = [orders EXCEPT ![o] = Charged(back, more - items[i].line)]
  <2>1. orders[o] = [orders EXCEPT ![o] = orders[o]][o]
    BY <1>2 DEF FloorTyped, OrdersPart
  <2> QED BY <1>2 DEF Increase, back, FloorTyped, OrdersPart
<1> QED BY <1>6, <1>7, <1>8

\* What is known of a line and its order when the line is edited.
EditFacts(i, o) ==
  /\ o \in OrderIds /\ items[i] \in Lines /\ orders[o] \in Checks /\ orders[o] \in Order
  /\ orders[o].status \in OrderStatus \ ClosedStatus /\ orders[o].subtotal \in Nat
  /\ items[i].price \in Nat /\ items[i].quantity \in Nat /\ items[i].quantity <= MaxQuantity /\ MaxQuantity \in Nat
  /\ items[i].line \in Nat /\ items[i].comp \in BOOLEAN /\ items[i].quantity > 0
  /\ items[i].price * items[i].quantity \in Nat
  /\ items[i].line <= items[i].price * items[i].quantity /\ (items[i].comp => items[i].line = 0)
  /\ ~items[i].comp /\ Priced(items[i]) => items[i].line = items[i].price * items[i].quantity
LEMMA EditKnown ==
  ASSUME FloorTyped, NEW i \in ItemIds, Editable(i), NEW o, o = items[i].order
  PROVE  EditFacts(i, o)
<1>1. o \in OrderIds /\ o # 0 /\ IsOpen(o) /\ items[i] \in Lines /\ items[i].status \notin DeadStatus
  BY EditTarget
<1>2. orders[o].subtotal \in Nat /\ orders[o] \in Checks /\ orders[o] \in Order /\ orders[o].status \in OrderStatus \ ClosedStatus
  BY <1>1, OpenRow
<1>3. /\ items[i].price \in Nat /\ items[i].quantity \in Nat /\ items[i].quantity <= MaxQuantity /\ items[i].line \in Nat
      /\ items[i].line <= items[i].price * items[i].quantity /\ (items[i].comp => items[i].line = 0)
      /\ items[i].comp \in BOOLEAN /\ MaxQuantity \in Nat
      /\ items[i].price * items[i].quantity \in Nat /\ items[i].quantity > 0
  BY <1>1, LineFields
<1>4. ~items[i].comp /\ Priced(items[i]) => items[i].line = items[i].price * items[i].quantity
  BY <1>1 DEF Priced
<1> QED BY <1>1, <1>2, <1>3, <1>4 DEF EditFacts

LEMMA DecreaseEdits ==
  ASSUME FloorTyped, NEW i \in ItemIds, Decrease(i), NEW o, o = items[i].order
  PROVE  \E j \in ItemIds, r \in Lines, s \in Checks : Edits(i, o, j, r, s)
<1> DEFINE k == items[i].quantity - 1
           less == IF items[i].comp THEN items[i].line ELSE items[i].price * (items[i].quantity - 1)
           r == [items[i] EXCEPT !.quantity = k, !.line = less]
           s == IF items[i].comp THEN Recalculated(orders[o]) ELSE Relieved(orders[o], items[i].price)
<1>1. /\ Editable(i) /\ items[i].quantity > 1
      /\ items' = [items EXCEPT ![i] = r] /\ orders' = [orders EXCEPT ![o] = s]
  BY DEF Decrease
<1>2. EditFacts(i, o)
  BY <1>1, EditKnown
<1>3. /\ k \in Nat /\ 0 < k /\ k <= MaxQuantity /\ items[i].price * k \in Nat
      /\ items[i].price * k = items[i].price * items[i].quantity - items[i].price
  <2>1. k \in Nat /\ 0 < k /\ k <= MaxQuantity /\ items[i].quantity = k + 1
    BY <1>1, <1>2 DEF EditFacts
  <2>2. \A p, n \in Nat : p * n \in Nat /\ p * n = p * (n + 1) - p
    OBVIOUS
  <2> HIDE DEF k
  <2> QED BY <1>2, <2>1, <2>2 DEF EditFacts
<1>4. less \in Nat /\ less <= items[i].price * k /\ (items[i].comp => less = 0) /\ (~items[i].comp => less = items[i].price * k)
  BY <1>2, <1>3 DEF EditFacts
<1> HIDE DEF k, less
<1>5. Rewrites(r, items[i], k, less, items[i].comp)
  <2>1. items[i] \in Lines
    BY <1>2 DEF EditFacts
  <2> QED BY <1>3, <1>4, <2>1, LineResized, Zenon
<1> HIDE DEF r
<1>6. /\ s \in Checks /\ s.discount = orders[o].discount /\ s.session = orders[o].session
      /\ s.status \in OrderStatus \ ClosedStatus
      /\ s.subtotal = IF items[i].comp THEN orders[o].subtotal ELSE Floored(orders[o].subtotal - items[i].price)
  <2>1. CASE items[i].comp
    BY <1>2, <2>1, OrderRecalculated DEF EditFacts
  <2>2. CASE ~items[i].comp
    BY <1>2, <2>2, OrderRelieved DEF EditFacts
  <2> QED BY <2>1, <2>2
<1> HIDE DEF s
<1>7. ASSUME Priced(items[i]) PROVE s.subtotal = Floored(orders[o].subtotal + r.line - items[i].line) /\ Priced(r)
  <2>0. r.line = less /\ r.quantity = k /\ r.price = items[i].price /\ (r.comp <=> items[i].comp)
    BY <1>5 DEF Rewrites
  <2>1. s.subtotal = Floored(orders[o].subtotal + r.line - items[i].line)
    <3> DEFINE a == orders[o].subtotal
               b == items[i].line
               c == s.subtotal
               p == items[i].price
    <3>1. a \in Nat /\ b \in Nat /\ less \in Nat /\ p \in Nat
      BY <1>2, <1>4 DEF EditFacts
    <3>2. CASE items[i].comp
      <4>1. b = 0 /\ less = 0 /\ c = a
        BY <1>2, <1>4, <1>6, <3>2 DEF EditFacts
      <4> HIDE DEF a, b, c, p
      <4>2. c = Floored(a + less - b)
        BY <3>1, <4>1 DEF Floored
      <4> QED BY <2>0, <4>2 DEF a, b, c, p
    <3>3. CASE ~items[i].comp
      <4>1. b - less = p /\ c = Floored(a - p)
        BY <1>2, <1>3, <1>4, <1>6, <1>7, <3>3 DEF EditFacts
      <4> HIDE DEF a, b, c, p
      <4>2. c = Floored(a + less - b)
        BY <3>1, <4>1 DEF Floored
      <4> QED BY <2>0, <4>2 DEF a, b, c, p
    <3> QED BY <3>2, <3>3
  <2>2. Priced(r)
    <3>1. ~r.comp => r.line = r.price * r.quantity
      BY <1>4, <2>0
    <3> QED BY <3>1 DEF Priced
  <2> QED BY <2>1, <2>2
<1>8. Edits(i, o, i, r, s)
  <2>1. r \in Lines /\ r.order = o /\ r.status = items[i].status /\ r.station = items[i].station
    BY <1>5 DEF Rewrites
  <2> QED BY <1>1, <1>6, <1>7, <2>1, EditWritten
<1> QED BY <1>5, <1>6, <1>8 DEF Rewrites

LEMMA GiftEdits ==
  ASSUME FloorTyped, NEW i \in ItemIds, SetComplimentary(i), NEW o, o = items[i].order
  PROVE  \E j \in ItemIds, r \in Lines, s \in Checks : Edits(i, o, j, r, s)
<1> DEFINE r == [items[i] EXCEPT !.comp = TRUE, !.line = 0]
           s == Relieved(orders[o], items[i].line)
<1>1. /\ Editable(i)
      /\ items' = [items EXCEPT ![i] = r] /\ orders' = [orders EXCEPT ![o] = s]
  BY DEF SetComplimentary
<1>2. EditFacts(i, o)
  BY <1>1, EditKnown
<1>5. Rewrites(r, items[i], items[i].quantity, 0, TRUE)
  <2>1. items[i] \in Lines /\ 0 <= items[i].price * items[i].quantity /\ TRUE \in BOOLEAN /\ 0 \in Nat
    BY <1>2 DEF EditFacts
  <2> QED BY <2>1, LineGifted, Zenon
<1> HIDE DEF r
<1>6. /\ s \in Checks /\ s.discount = orders[o].discount /\ s.session = orders[o].session
      /\ s.status \in OrderStatus \ ClosedStatus
      /\ s.subtotal = Floored(orders[o].subtotal - items[i].line)
  BY <1>2, OrderRelieved DEF EditFacts
<1> HIDE DEF s
<1>7. s.subtotal = Floored(orders[o].subtotal + r.line - items[i].line) /\ Priced(r)
  <2>1. r.line = 0 /\ r.comp
    BY <1>5 DEF Rewrites
  <2>2. orders[o].subtotal + 0 - items[i].line = orders[o].subtotal - items[i].line
    BY <1>2 DEF EditFacts
  <2> QED BY <1>6, <2>1, <2>2 DEF Priced
<1>8. Edits(i, o, i, r, s)
  <2>1. r \in Lines /\ r.order = o /\ r.status = items[i].status /\ r.station = items[i].station
    BY <1>5 DEF Rewrites
  <2> QED BY <1>1, <1>6, <1>7, <2>1, EditWritten
<1> QED BY <1>5, <1>6, <1>8 DEF Rewrites

LEMMA ChargeEdits ==
  ASSUME FloorTyped, NEW i \in ItemIds, RemoveComplimentary(i), NEW o, o = items[i].order
  PROVE  \E j \in ItemIds, r \in Lines, s \in Checks : Edits(i, o, j, r, s)
<1> DEFINE price == items[i].price * items[i].quantity
           r == [items[i] EXCEPT !.comp = FALSE, !.line = price]
           s == Charged(orders[o], price)
<1>1. /\ Editable(i) /\ items[i].comp
      /\ items' = [items EXCEPT ![i] = r] /\ orders' = [orders EXCEPT ![o] = s]
  BY DEF RemoveComplimentary
<1>2. EditFacts(i, o)
  BY <1>1, EditKnown
<1>3. price \in Nat
  BY <1>2 DEF EditFacts
<1>5. Rewrites(r, items[i], items[i].quantity, price, FALSE)
  <2>1. items[i] \in Lines /\ FALSE \in BOOLEAN /\ price <= items[i].price * items[i].quantity
    BY <1>2, <1>3 DEF EditFacts
  <2> QED BY <1>3, <2>1, LineGifted, Zenon
<1>6. /\ s \in Checks /\ s.discount = orders[o].discount /\ s.session = orders[o].session
      /\ s.status \in OrderStatus \ ClosedStatus
      /\ s.subtotal = orders[o].subtotal + price
  <2> HIDE DEF price
  <2> QED BY <1>2, <1>3, OrderCharged DEF EditFacts
<1> HIDE DEF r, s
<1>7. s.subtotal = Floored(orders[o].subtotal + r.line - items[i].line) /\ Priced(r)
  <2>1. r.line = price /\ ~r.comp /\ r.price = items[i].price /\ r.quantity = items[i].quantity
    BY <1>5 DEF Rewrites
  <2>2. items[i].line = 0
    BY <1>1, <1>2 DEF EditFacts
  <2>3. Priced(r)
    BY <2>1 DEF Priced
  <2>4. orders[o].subtotal \in Nat
    BY <1>2 DEF EditFacts
  <2> HIDE DEF price
  <2>5. s.subtotal = Floored(orders[o].subtotal + price - 0)
    BY <1>3, <1>6, <2>4 DEF Floored
  <2> QED BY <2>1, <2>2, <2>3, <2>5
<1>8. Edits(i, o, i, r, s)
  <2>1. r \in Lines /\ r.order = o /\ r.status = items[i].status /\ r.station = items[i].station
    BY <1>5 DEF Rewrites
  <2> QED BY <1>1, <1>6, <1>7, <2>1, EditWritten
<1> QED BY <1>5, <1>6, <1>8 DEF Rewrites

LEMMA RemoveDoes ==
  ASSUME FloorTyped, NEW i \in ItemIds, RemoveUnprinted(i), NEW o, o = items[i].order
  PROVE  /\ o \in OrderIds /\ Exists(o) /\ ~Dead(i) /\ items[i].status # "none"
         /\ \E r \in Lines, s \in Checks :
              /\ MoneyStep(i, r, o, s)
              /\ r.status = "VOIDED" /\ r.line = 0
              /\ s.session = orders[o].session
              /\ s.subtotal <= orders[o].subtotal
              /\ s.status = IF LiveLines(o) \subseteq {i} THEN "VOIDED" ELSE orders[o].status
<1> DEFINE r == [items[i] EXCEPT !.status = "VOIDED", !.line = 0]
           empty == LiveLines(o) \subseteq {i}
           less == Relieved(orders[o], items[i].line)
           s == IF empty THEN [less EXCEPT !.status = "VOIDED"] ELSE less
<1>1. /\ o # 0 /\ ~Dead(i) /\ items' = [items EXCEPT ![i] = r] /\ orders' = [orders EXCEPT ![o] = s]
  BY DEF RemoveUnprinted
<1>2. items[i] \in Lines
  BY DEF FloorTyped, ItemsPart
<1>3. /\ o \in OrderIds /\ items[i].status # "none" /\ items[i].status \notin DeadStatus /\ items[i].line \in Nat
  BY <1>1, <1>2, LineFields DEF Dead
<1>4. Exists(o) /\ orders[o] \in Checks /\ orders[o] \in Order /\ orders[o].subtotal \in Nat
      /\ orders[o].status # "none"
  BY <1>3, OrderRows, CheckFields DEF FloorTyped, ItemsPart, Known, Exists
<1>5. /\ r \in Lines /\ r.line = 0 /\ r.order = o /\ r.status = "VOIDED" /\ r.station = items[i].station
  <2>1. "VOIDED" \in ItemStatus
    BY DEF ItemStatus, DeadStatus
  <2> QED BY <1>2, <1>3, <2>1, LineStruck
<1>6. /\ s \in Checks /\ s.subtotal = Floored(orders[o].subtotal - items[i].line) /\ s.discount = orders[o].discount
      /\ s.session = orders[o].session /\ s.status = IF empty THEN "VOIDED" ELSE orders[o].status
  <2>1. /\ less \in Checks /\ less.subtotal = Floored(orders[o].subtotal - items[i].line)
        /\ less.discount = orders[o].discount /\ less.session = orders[o].session /\ less.status = orders[o].status
    BY <1>3, <1>4, OrderRelieved
  <2>2. "VOIDED" \in OrderStatus
    BY DEF OrderStatus, ClosedStatus
  <2> HIDE DEF less, empty
  <2>3. CASE empty
    BY <2>1, <2>2, <2>3, OrderMarked
  <2>4. CASE ~empty
    BY <2>1, <2>4
  <2> QED BY <2>3, <2>4
<1> HIDE DEF r, s
<1>7. s.status # "none"
  BY <1>4, <1>6
<1>8. RowStep(i, r, o, s)
  BY <1>1, <1>3, <1>4, <1>5, <1>6, <1>7 DEF RowStep
<1>9. Worth(r) = 0 /\ Worth(items[i]) = items[i].line
  BY <1>1, <1>3, <1>5 DEF Worth, DeadStatus
<1>10. s.subtotal = Floored(orders[o].subtotal + 0 - items[i].line) /\ s.subtotal <= orders[o].subtotal
  BY <1>3, <1>4, <1>6 DEF Floored
<1>11. MoneyStep(i, r, o, s)
  BY <1>8, <1>9, <1>10 DEF MoneyStep
<1> QED BY <1>1, <1>3, <1>4, <1>5, <1>6, <1>10, <1>11

LEMMA EditDoes ==
  ASSUME FloorTyped, NEW i \in ItemIds, Increase(i) \/ Decrease(i) \/ SetComplimentary(i) \/ RemoveComplimentary(i)
  PROVE  /\ Editable(i) /\ (Counted \/ UNCHANGED edits)
         /\ \E j \in ItemIds, r \in Lines, s \in Checks : Edits(i, items[i].order, j, r, s)
         /\ UNCHANGED <<tickets, payments, approvals, sessions, tables, kitchenTx, closeTx, endings, moves, retries>>
<1>1. CASE Increase(i)
  BY <1>1, IncreaseEdits DEF Increase
<1>2. CASE Decrease(i)
  BY <1>2, DecreaseEdits DEF Decrease
<1>3. CASE SetComplimentary(i)
  BY <1>3, GiftEdits DEF SetComplimentary
<1>4. CASE RemoveComplimentary(i)
  BY <1>4, ChargeEdits DEF RemoveComplimentary
<1> QED BY <1>1, <1>2, <1>3, <1>4

LEMMA RowTyped ==
  ASSUME FloorTyped, NEW i, NEW r, NEW o, NEW s, RowStep(i, r, o, s), PlacesPart', CountsPart',
         UNCHANGED <<tickets, payments, approvals, kitchenTx, closeTx>>
  PROVE  FloorTyped'
<1>1. OrdersGo /\ ItemsPart' /\ LinesLast
  BY RowStepTyped
<1> QED BY <1>1, OrdersGone, PartsStay DEF FloorTyped

LEMMA EditingTyped == ASSUME FloorTyped, Editing PROVE FloorTyped'
<1>1. PICK i \in ItemIds : \/ Increase(i) \/ Decrease(i) \/ SetComplimentary(i) \/ RemoveComplimentary(i)
                           \/ RemoveUnprinted(i)
  BY DEF Editing
<1>2. CASE Increase(i) \/ Decrease(i) \/ SetComplimentary(i) \/ RemoveComplimentary(i)
  <2>1. PICK j \in ItemIds, r \in Lines, s \in Checks : Edits(i, items[i].order, j, r, s)
    BY <1>2, EditDoes
  <2>2. /\ Counted \/ UNCHANGED edits
        /\ UNCHANGED <<tickets, payments, approvals, sessions, tables, kitchenTx, closeTx, moves, retries>>
    BY <1>2, EditDoes
  <2>3. PlacesPart' /\ CountsPart'
    BY <2>2 DEF FloorTyped, PlacesPart, CountsPart, Counted
  <2> QED BY <2>1, <2>2, <2>3, RowTyped DEF Edits
<1>3. CASE RemoveUnprinted(i)
  <2>1. PICK r \in Lines, s \in Checks : MoneyStep(i, r, items[i].order, s)
    BY <1>3, RemoveDoes
  <2>2. /\ UNCHANGED <<tickets, payments, approvals, sessions, kitchenTx, closeTx, edits, moves, retries>>
        /\ tables' = Released(items[i].order) \/ tables' = tables
    BY <1>3 DEF RemoveUnprinted
  <2>3. PlacesPart' /\ CountsPart'
    BY <2>2, CountsStay, ReleasedTyped
  <2> QED BY <2>1, <2>2, <2>3, RowTyped DEF MoneyStep
<1> QED BY <1>1, <1>2, <1>3

LEMMA SumsAreNumbers ==
  ASSUME FloorTyped
  PROVE  /\ \A o : Paid(o) \in Nat
         /\ \A ls \in SUBSET ItemIds : LineTotal(ls) \in Nat
<1>1. ASSUME NEW o PROVE Paid(o) \in Nat
  <2> DEFINE f == [p \in PaymentIds |-> payments[p].amount]
  <2>1. IsFiniteSet(PaymentIds)
    BY FS_Interval, RowBounds DEF PaymentIds
  <2>2. IsFiniteSet(Completed(o)) /\ Completed(o) \subseteq PaymentIds
    BY <2>1, FS_Subset DEF Completed
  <2>3. \A p \in Completed(o) : f[p] \in Nat
    BY <2>2 DEF FloorTyped, PaymentsPart, Payment
  <2> HIDE DEF f
  <2>4. SumFunctionOnSet(f, Completed(o)) \in Nat
    BY <2>2, <2>3, SumNumber
  <2> QED BY <2>4 DEF Paid, f
<1>2. ASSUME NEW ls \in SUBSET ItemIds PROVE LineTotal(ls) \in Nat
  <2> DEFINE f == [i \in ItemIds |-> items[i].line]
  <2>1. IsFiniteSet(ItemIds)
    BY FS_Interval, RowBounds DEF ItemIds
  <2>2. IsFiniteSet(ls)
    BY <2>1, FS_Subset
  <2>3. \A i \in ls : f[i] \in Nat
    BY LineFields DEF FloorTyped, ItemsPart
  <2> HIDE DEF f
  <2>4. SumFunctionOnSet(f, ls) \in Nat
    BY <2>2, <2>3, SumNumber
  <2> QED BY <2>4 DEF LineTotal, f
<1> QED BY <1>1, <1>2

\* Only the status of an order changes.
StatusOnly(o, st) == o \in OrderIds /\ Exists(o) /\ st \in OrderStatus /\ orders' = [orders EXCEPT ![o] = [orders[o] EXCEPT !.status = st]]
LEMMA StatusGoes == ASSUME FloorTyped, NEW o, NEW st, StatusOnly(o, st) PROVE OrdersGo
<1>1. orders[o] \in Checks /\ st # "none" /\ st \in OrderStatus /\ o \in OrderIds /\ Exists(o)
  BY OrderRows DEF StatusOnly, OrderStatus, FollowsKitchen, ClosedStatus
<1> DEFINE s == [orders[o] EXCEPT !.status = st]
<1>2. s \in Checks /\ s.status # "none"
  BY <1>1, OrderMarked
<1>3. orders' = [orders EXCEPT ![o] = s]
  BY DEF StatusOnly
<1> HIDE DEF s
<1> QED BY <1>1, <1>2, <1>3, OrderPut

LEMMA PaymentDoes ==
  ASSUME FloorTyped, NEW o \in OrderIds, NEW amount \in 1..Remaining(o), AddPayment(o, amount)
  PROVE  /\ amount \in Nat /\ 0 < amount /\ amount + Paid(o) <= orders[o].total
         /\ StatusOnly(o, IF Settles(o, amount) THEN "PAID" ELSE "PAYMENT_PENDING")
         /\ \E p \in FreshPayment :
              payments' = [payments EXCEPT ![p] = [order |-> o, amount |-> amount, status |-> "COMPLETED"]]
         /\ UNCHANGED <<items, tickets, approvals, sessions, kitchenTx, closeTx, edits, moves, retries>>
<1>1. orders[o].total \in Nat /\ Paid(o) \in Nat
  BY SumsAreNumbers, OrderRows, CheckFields
<1>2. amount \in Nat /\ 0 < amount /\ amount + Paid(o) <= orders[o].total
  BY <1>1 DEF Remaining
<1>3. StatusOnly(o, IF Settles(o, amount) THEN "PAID" ELSE "PAYMENT_PENDING")
  BY DEF StatusOnly, AddPayment, OrderStatus, ClosedStatus
<1> QED BY <1>2, <1>3 DEF AddPayment

LEMMA SettlementTyped == ASSUME FloorTyped, Settlement PROVE FloorTyped'
<1>1. ASSUME NEW o \in OrderIds, NEW amount \in 1..Remaining(o), AddPayment(o, amount) PROVE FloorTyped'
  <2>1. /\ amount \in Nat /\ StatusOnly(o, IF Settles(o, amount) THEN "PAID" ELSE "PAYMENT_PENDING")
        /\ UNCHANGED <<items, tickets, approvals, sessions, kitchenTx, closeTx, edits, moves, retries>>
    BY <1>1, PaymentDoes
  <2>2. OrdersGo
    BY <2>1, StatusGoes
  <2>3. PaymentsPart'
    <3>1. PICK p \in FreshPayment :
            payments' = [payments EXCEPT ![p] = [order |-> o, amount |-> amount, status |-> "COMPLETED"]]
      BY <1>1, PaymentDoes
    <3>2. Known(orders, o)
      BY <2>1 DEF StatusOnly, Known, Exists
    <3>3. \A x : Known(orders, x) => Known(orders', x)
      BY <2>2, OrdersGone
    <3>4. [order |-> o, amount |-> amount, status |-> "COMPLETED"] \in Payment
      BY <2>1 DEF Payment
    <3> QED BY <3>1, <3>2, <3>3, <3>4 DEF FloorTyped, PaymentsPart
  <2>4. PlacesPart'
    <3>1. tables' = tables \/ tables' = Shown(TableOf(o), "PAYMENT_PENDING") \/ tables' = Shown(Seen(o).table, "CLEANING")
      BY <1>1 DEF AddPayment
    <3> QED BY <2>1, <3>1, ShownTyped DEF TableState
  <2> QED BY <2>1, <2>2, <2>3, <2>4, OrdersGone, PartsStay, CountsStay DEF FloorTyped
<1>2. ASSUME NEW p \in PaymentIds, RefundPayment(p) PROVE FloorTyped'
  <2>1. /\ payments' = [payments EXCEPT ![p] = [payments[p] EXCEPT !.status = "REFUNDED"]]
        /\ UNCHANGED <<orders, items, tickets, approvals, sessions, tables, kitchenTx, closeTx, edits, moves, retries>>
    BY <1>2 DEF RefundPayment
  <2>2. PaymentsPart'
    BY <2>1 DEF FloorTyped, PaymentsPart, Payment
  <2>3. PlacesPart'
    BY <2>1 DEF FloorTyped, PlacesPart
  <2> QED BY <2>1, <2>2, <2>3, OrdersStay, OrdersGone, PartsStay, CountsStay DEF FloorTyped
<1>3. ASSUME NEW o \in OrderIds, LookAround(o) \/ GiveUp(o) PROVE FloorTyped'
  <2>1. UNCHANGED <<orders, items, tickets, payments, approvals, sessions, tables, kitchenTx, closeTx, edits, moves, retries>>
    BY <1>3 DEF LookAround, GiveUp, rows
  <2>2. PlacesPart'
    BY <2>1 DEF FloorTyped, PlacesPart
  <2> QED BY <2>1, <2>2, OrdersStay, OrdersGone, PartsStay, CountsStay DEF FloorTyped
<1> QED BY <1>1, <1>2, <1>3 DEF Settlement

LEMMA AskingTyped == ASSUME FloorTyped, Asking PROVE FloorTyped'
<1>1. PICK o \in OrderIds, i \in ItemIds \cup {0}, d \in Discounts \cup {NoDiscount},
           type \in {"DISCOUNT", "ORDER_VOID", "ITEM_CANCELLATION"} : Request(o, i, type, d)
  BY DEF Asking, RequestDiscount, RequestCancellation
<1>2. PICK a \in FreshApproval :
        approvals' = [approvals EXCEPT ![a] = [order |-> o, item |-> i, type |-> type, discount |-> d, status |-> "PENDING"]]
  BY <1>1 DEF Request
<1>3. /\ Exists(o)
      /\ UNCHANGED <<orders, items, tickets, payments, sessions, tables, kitchenTx, closeTx, edits, moves, retries>>
  BY <1>1 DEF Request
<1>4. ApprovalsPart'
  <2>1. [order |-> o, item |-> i, type |-> type, discount |-> d, status |-> "PENDING"] \in Approval
    BY DEF Approval
  <2>2. Known(orders, o) /\ orders' = orders
    BY <1>3 DEF Known, Exists
  <2> QED BY <1>2, <2>1, <2>2 DEF FloorTyped, ApprovalsPart
<1>5. PlacesPart'
  BY <1>3 DEF FloorTyped, PlacesPart
<1> QED BY <1>3, <1>4, <1>5, OrdersStay, OrdersGone, PartsStay, CountsStay DEF FloorTyped

\* An order is changed by an approval.
Approves(a, status) ==
  /\ a \in ApprovalIds /\ Pending(a) /\ Resolve(a, status)
  /\ UNCHANGED <<tickets, payments, sessions, kitchenTx, closeTx, edits, moves, retries>>
LEMMA ApprovalResolved ==
  ASSUME FloorTyped, OrdersGo, NEW a, NEW status \in {"APPROVED", "REJECTED"}, Approves(a, status)
  PROVE  ApprovalsPart'
<1>1. \A o : Known(orders, o) => Known(orders', o)
  BY OrdersGone
<1>2. /\ approvals' = [approvals EXCEPT ![a] = [approvals[a] EXCEPT !.status = status]] /\ a \in ApprovalIds
  BY DEF Approves, Resolve
<1>3. [approvals[a] EXCEPT !.status = status] \in Approval
  BY <1>2 DEF FloorTyped, ApprovalsPart, Approval
<1>4. [approvals[a] EXCEPT !.status = status].status # "PENDING"
  BY <1>2 DEF FloorTyped, ApprovalsPart, Approval
<1> QED BY <1>1, <1>2, <1>3, <1>4 DEF FloorTyped, ApprovalsPart

LEMMA ReductionIsNat ==
  ASSUME NEW base \in Nat, NEW d \in Discounts \cup {NoDiscount}
  PROVE  Reduction(base, d) \in Nat
<1>1. d.value \in Nat
  BY DiscountAssumption DEF NoDiscount
<1>2. \A m, n \in Nat : m * n \in Nat
  OBVIOUS
<1>3. Percent(base, d.value) \in Nat
  <2>1. 2 * base \in Nat
    OBVIOUS
  <2>2. 2 * base * d.value \in Nat
    BY <1>1, <1>2, <2>1
  <2> DEFINE n == 2 * base * d.value
  <2>3. n \in Nat
    BY <2>2
  <2> HIDE DEF n
  <2>4. (n + 100) \div 200 \in Nat
    BY <2>3
  <2> QED BY <2>4 DEF Percent, n
<1> QED BY <1>1, <1>3 DEF Reduction

LEMMA DiscountDoes ==
  ASSUME FloorTyped, NEW a \in ApprovalIds, ApproveDiscount(a), NEW o, o = approvals[a].order
  PROVE  /\ o \in OrderIds /\ Exists(o)
         /\ \E s \in Checks :
              /\ orders' = [orders EXCEPT ![o] = s] /\ s.status = orders[o].status /\ s.session = orders[o].session
              /\ s.subtotal = orders[o].subtotal /\ s.discount >= orders[o].discount /\ s.total <= orders[o].total
         /\ Approves(a, "APPROVED") /\ UNCHANGED <<items, tables>>
<1> DEFINE i == approvals[a].item
           base == IF i = 0 THEN orders[o].subtotal ELSE items[i].line
           n == orders[o].discount + Reduction(base, approvals[a].discount)
           s == Recalculated([orders[o] EXCEPT !.discount = n])
<1>1. o \in OrderIds /\ Exists(o)
  BY DEF ApproveDiscount, Pending, FloorTyped, ApprovalsPart, Known, Exists
<1>2. orders[o] \in Checks /\ orders[o] \in Order /\ orders[o].subtotal \in Nat /\ orders[o].discount \in Nat
  BY <1>1, OrderRows, CheckFields
<1>3. approvals[a].discount \in Discounts \cup {NoDiscount} /\ i \in ItemIds \cup {0}
  BY DEF FloorTyped, ApprovalsPart, Approval
<1>4. base \in Nat
  <2>1. CASE i = 0
    BY <1>2, <2>1
  <2>2. CASE i # 0
    BY <1>3, <2>2, LineFields DEF FloorTyped, ItemsPart
  <2> QED BY <2>1, <2>2
<1> HIDE DEF base
<1>5. Reduction(base, approvals[a].discount) \in Nat
  BY <1>3, <1>4, ReductionIsNat
<1>6. n \in Nat /\ n >= orders[o].discount
  BY <1>2, <1>5
<1>7. orders' = [orders EXCEPT ![o] = s]
  BY DEF ApproveDiscount, base
<1> HIDE DEF n
<1>8. /\ s \in Checks /\ s.status = orders[o].status /\ s.session = orders[o].session
      /\ s.subtotal = orders[o].subtotal /\ s.discount = n
  <2> DEFINE m == [orders[o] EXCEPT !.discount = n]
  <2>1. /\ m \in Order /\ m.subtotal = orders[o].subtotal /\ m.discount = n /\ m.status = orders[o].status
        /\ m.session = orders[o].session
    BY <1>2, <1>6, OrderDiscounted
  <2> HIDE DEF m
  <2>2. /\ Recalculated(m) \in Checks /\ Recalculated(m).subtotal = m.subtotal /\ Recalculated(m).discount = m.discount
        /\ Recalculated(m).status = m.status /\ Recalculated(m).session = m.session
    BY <2>1, OrderRecalculated
  <2> QED BY <2>1, <2>2 DEF m
<1> HIDE DEF s
<1>9. s.total <= orders[o].total
  <2>1. s.subtotal <= orders[o].subtotal
    BY <1>2, <1>8
  <2> QED BY <1>2, <1>6, <1>8, <2>1, TotalsFollow
<1>10. Approves(a, "APPROVED") /\ UNCHANGED <<items, tables>>
  BY DEF ApproveDiscount, Approves
<1> QED BY <1>1, <1>6, <1>7, <1>8, <1>9, <1>10

LEMMA WithdrawnTyped ==
  ASSUME FloorTyped, OrdersGo, NEW ls, NEW o, ls \subseteq LinesOf(o), NEW st \in DeadStatus, o # 0,
         items' = Withdrawn(ls, st)
  PROVE  ItemsPart' /\ LinesLast
<1>1. \A i \in ItemIds : /\ items'[i] \in Lines
                         /\ items'[i] = items[i] \/ (items'[i].order = items[i].order /\ items[i].status # "none")
  <2> SUFFICES ASSUME NEW i \in ItemIds
               PROVE  /\ items'[i] \in Lines
                      /\ items'[i] = items[i] \/ (items'[i].order = items[i].order /\ items[i].status # "none")
    OBVIOUS
  <2>0. items[i] \in Lines
    BY DEF FloorTyped, ItemsPart
  <2>1. CASE i \in ls
    <3>1. items'[i] = [items[i] EXCEPT !.status = st] /\ items[i].status # "none" /\ st \in ItemStatus
      BY <2>0, <2>1, LineFields DEF Withdrawn, LinesOf, ItemStatus
    <3> QED BY <2>0, <3>1, LineMarked
  <2>2. CASE i \notin ls
    BY <2>0, <2>2 DEF Withdrawn
  <2> QED BY <2>1, <2>2
<1>2. items' = [i \in ItemIds |-> items'[i]]
  BY DEF Withdrawn
<1> QED BY <1>1, <1>2, LinesGo

LEMMA VoidDoes ==
  ASSUME FloorTyped, NEW a \in ApprovalIds, ApproveVoid(a), NEW o, o = approvals[a].order
  PROVE  /\ Completed(o) = {} /\ StatusOnly(o, "VOIDED") /\ o # 0
         /\ items' = Withdrawn(LiveLines(o), "VOIDED") /\ tables' = Released(o) /\ Approves(a, "APPROVED")
<1>1. o \in OrderIds /\ Exists(o)
  BY DEF ApproveVoid, Pending, FloorTyped, ApprovalsPart, Known, Exists
<1> QED BY <1>1 DEF ApproveVoid, Approves, StatusOnly, OrderStatus, ClosedStatus, OrderIds

LEMMA CancelDoes ==
  ASSUME FloorTyped, NEW a \in ApprovalIds, ApproveItemCancellation(a), NEW o, o = approvals[a].order,
         NEW ls, ls = {approvals[a].item} \cap LinesOf(o)
  PROVE  /\ o \in OrderIds /\ o # 0 /\ Exists(o) /\ Completed(o) = {} /\ Approves(a, "APPROVED")
         /\ items' = Withdrawn(ls, "CANCELLED")
         /\ \E s \in Checks :
              /\ orders' = [orders EXCEPT ![o] = s] /\ s.session = orders[o].session /\ s.discount = orders[o].discount
              /\ s.subtotal = Floored(orders[o].subtotal - LineTotal(ls)) /\ s.subtotal <= orders[o].subtotal
              /\ s.status = IF LiveLines(o) \subseteq ls THEN "CANCELLED" ELSE orders[o].status
         /\ tables' = IF LiveLines(o) \subseteq ls THEN Released(o) ELSE tables
<1>1. o \in OrderIds /\ Exists(o) /\ o # 0
  BY DEF ApproveItemCancellation, Pending, FloorTyped, ApprovalsPart, Known, Exists, OrderIds
<1>2. orders[o] \in Checks /\ orders[o] \in Order /\ orders[o].subtotal \in Nat
  BY <1>1, OrderRows, CheckFields
<1>3. LineTotal(ls) \in Nat
  BY SumsAreNumbers DEF LinesOf
<1> DEFINE last == LiveLines(o) \subseteq ls
           less == Relieved(orders[o], LineTotal(ls))
           s == IF last THEN [less EXCEPT !.status = "CANCELLED"] ELSE less
<1>4. orders' = [orders EXCEPT ![o] = s]
  BY DEF ApproveItemCancellation
<1>6. /\ s \in Checks /\ s.subtotal = Floored(orders[o].subtotal - LineTotal(ls)) /\ s.discount = orders[o].discount
      /\ s.session = orders[o].session /\ s.status = IF last THEN "CANCELLED" ELSE orders[o].status
  <2>1. /\ less \in Checks /\ less.subtotal = Floored(orders[o].subtotal - LineTotal(ls))
        /\ less.discount = orders[o].discount /\ less.session = orders[o].session /\ less.status = orders[o].status
    BY <1>2, <1>3, OrderRelieved
  <2>2. "CANCELLED" \in OrderStatus
    BY DEF OrderStatus, ClosedStatus
  <2> HIDE DEF less, last
  <2>3. CASE last
    BY <2>1, <2>2, <2>3, OrderMarked
  <2>4. CASE ~last
    BY <2>1, <2>4
  <2> QED BY <2>3, <2>4
<1>7. Floored(orders[o].subtotal - LineTotal(ls)) <= orders[o].subtotal
  BY <1>2, <1>3 DEF Floored
<1>8. /\ Completed(o) = {} /\ Approves(a, "APPROVED") /\ items' = Withdrawn(ls, "CANCELLED")
      /\ tables' = IF last THEN Released(o) ELSE tables
  BY DEF ApproveItemCancellation, Approves
<1> HIDE DEF s
<1> QED BY <1>1, <1>4, <1>6, <1>7, <1>8

LEMMA ResolvingTyped == ASSUME FloorTyped, Resolving PROVE FloorTyped'
<1>1. PICK a \in ApprovalIds : Reject(a) \/ ApproveDiscount(a) \/ ApproveVoid(a) \/ ApproveItemCancellation(a)
  BY DEF Resolving
<1> DEFINE o == approvals[a].order
<1>2. CASE Reject(a)
  <2>1. Approves(a, "REJECTED") /\ UNCHANGED <<orders, items, tables>>
    BY <1>2 DEF Reject, Approves
  <2>2. PlacesPart'
    BY <2>1 DEF FloorTyped, PlacesPart, Approves
  <2>3. OrdersGo
    BY <2>1, OrdersStay
  <2> QED BY <2>1, <2>2, <2>3, ApprovalResolved, OrdersGone, PartsStay, CountsStay DEF FloorTyped, Approves
<1>3. CASE ApproveDiscount(a)
  <2>1. /\ o \in OrderIds /\ Exists(o) /\ Approves(a, "APPROVED") /\ UNCHANGED <<items, tables>>
        /\ \E s \in Checks : orders' = [orders EXCEPT ![o] = s] /\ s.status = orders[o].status
    BY <1>3, DiscountDoes
  <2>2. PlacesPart'
    BY <2>1 DEF FloorTyped, PlacesPart, Approves
  <2>3. OrdersGo
    BY <2>1, OrderPut DEF Exists
  <2> QED BY <2>1, <2>2, <2>3, ApprovalResolved, OrdersGone, PartsStay, CountsStay DEF FloorTyped, Approves
<1>4. CASE ApproveVoid(a)
  <2>1. /\ StatusOnly(o, "VOIDED") /\ o # 0
        /\ items' = Withdrawn(LiveLines(o), "VOIDED") /\ tables' = Released(o) /\ Approves(a, "APPROVED")
    BY <1>4, VoidDoes
  <2>2. PlacesPart'
    BY <2>1, ReleasedTyped DEF Approves
  <2>3. OrdersGo
    BY <2>1, StatusGoes
  <2>4. ItemsPart' /\ LinesLast
    <3>1. LiveLines(o) \subseteq LinesOf(o) /\ "VOIDED" \in DeadStatus
      BY DEF LiveLines, DeadStatus
    <3> QED BY <2>1, <2>3, <3>1, WithdrawnTyped
  <2> QED BY <2>1, <2>2, <2>3, <2>4, ApprovalResolved, OrdersGone, PartsStay, CountsStay DEF FloorTyped, Approves
<1>5. CASE ApproveItemCancellation(a)
  <2> DEFINE ls == {approvals[a].item} \cap LinesOf(o)
  <2>1. /\ o \in OrderIds /\ Exists(o) /\ o # 0 /\ Approves(a, "APPROVED") /\ items' = Withdrawn(ls, "CANCELLED")
        /\ tables' = IF LiveLines(o) \subseteq ls THEN Released(o) ELSE tables
        /\ \E s \in Checks : /\ orders' = [orders EXCEPT ![o] = s]
                             /\ s.status = IF LiveLines(o) \subseteq ls THEN "CANCELLED" ELSE orders[o].status
    BY <1>5, CancelDoes
  <2>2. PlacesPart'
    BY <2>1, ReleasedTyped DEF Approves
  <2>3. OrdersGo
    BY <2>1, OrderPut DEF Exists
  <2>4. ItemsPart' /\ LinesLast
    <3>1. ls \subseteq LinesOf(o) /\ "CANCELLED" \in DeadStatus
      BY DEF DeadStatus
    <3> HIDE DEF ls
    <3> QED BY <2>1, <2>3, <3>1, WithdrawnTyped
  <2> QED BY <2>1, <2>2, <2>3, <2>4, ApprovalResolved, OrdersGone, PartsStay, CountsStay DEF FloorTyped, Approves
<1> QED BY <1>1, <1>2, <1>3, <1>4, <1>5

LEMMA StatusesKnown ==
  ASSUME FloorTyped, NEW k \in TicketIds, NEW status \in TicketStatus, status # "NEW",
         orders[k[1]].status \in OrderStatus
  PROVE  Progress(Statuses(k, status), orders[k[1]].status) \in OrderStatus
BY DEF Progress, OrderStatus, FollowsKitchen

LEMMA PreparationTyped == ASSUME FloorTyped, RoutingInv, Preparation PROVE FloorTyped'
<1>1. ASSUME NEW k \in TicketIds, NEW status \in TicketStatus, BeginTicket(k, status) PROVE FloorTyped'
  <2> DEFINE o == k[1]
             u == Update(k, status)
  <2>1. /\ status \in Transitions(tickets[k].status) /\ kitchenTx' = [kitchenTx EXCEPT ![k] = u]
        /\ UNCHANGED <<orders, items, tickets, payments, approvals, sessions, tables, closeTx, edits, moves, retries>>
    BY <1>1 DEF BeginTicket, rows
  <2>2. status # "NEW" /\ o \in OrderIds
    BY <2>1 DEF Transitions, TicketIds
  <2>3. u.status = status /\ u \in KitchenUpdate /\ (u.order # "keep" => Known(orders, o))
    <3> DEFINE follows == orders[o].status \in FollowsKitchen
               p == Progress(Statuses(k, status), orders[o].status)
               seen == {i \in tickets[k].lines : items[i].status # LineStatus(status)}
               t == TableOf(o)
               becomes == IF follows THEN Changed(p, orders[o].status) ELSE "keep"
               shown == IF follows /\ t # 0
                        THEN Changed(IF p = "READY" /\ Statuses(k, status) \subseteq {"READY", "COMPLETED"}
                                     THEN "READY" ELSE "PREPARING", tables[t])
                        ELSE "keep"
    <3>1. u = [status |-> status, lines |-> seen, order |-> becomes, table |-> IF follows THEN t ELSE 0, shown |-> shown]
      BY DEF Update
    <3>2. follows => p \in OrderStatus
      BY <2>2, StatusesKnown DEF OrderStatus
    <3>3. seen \in SUBSET ItemIds
      BY DEF FloorTyped, Ticket
    <3>4. t \in Tables \cup {0}
      BY <2>2, OrderRows, CheckFields DEF TableOf, FloorTyped, PlacesPart, Session
    <3>5. shown \in TableState \cup {"keep"}
      BY DEF Changed, TableState
    <3> HIDE DEF p, seen, t, shown
    <3>6. becomes \in OrderStatus \cup {"keep"} /\ (becomes # "keep" => Known(orders, o))
      BY <2>2, <3>2 DEF Changed, Known, FollowsKitchen
    <3> HIDE DEF follows, becomes, u
    <3> QED BY <3>1, <3>3, <3>4, <3>5, <3>6 DEF KitchenUpdate
  <2>6. \A i \in u.lines : items[i].status # "none"
    <3>1. u.lines \subseteq tickets[k].lines /\ tickets[k].lines \subseteq ItemIds
      BY DEF Update, FloorTyped, Ticket
    <3>2. \A i \in ItemIds : i \in tickets[k].lines => items[i].status # "none"
      BY DEF RoutingInv, PendingIsUnrouted
    <3> QED BY <3>1, <3>2
  <2> HIDE DEF u
  <2>4. KitchenPart'
    BY <2>1, <2>2, <2>3, <2>6 DEF FloorTyped, KitchenPart
  <2>5. PlacesPart'
    BY <2>1 DEF FloorTyped, PlacesPart
  <2> QED BY <2>1, <2>4, <2>5, OrdersStay, OrdersGone, PartsStay, CountsStay DEF FloorTyped
<1>2. ASSUME NEW k \in TicketIds, CommitTicket(k) PROVE FloorTyped'
  <2> DEFINE u == kitchenTx[k]
  <2>1. /\ u # NoTx
        /\ tickets' = [tickets EXCEPT ![k].status = u.status]
        /\ items' = [i \in ItemIds |-> IF i \in u.lines THEN [items[i] EXCEPT !.status = LineStatus(u.status)]
                                                        ELSE items[i]]
        /\ orders' = IF u.order = "keep" THEN orders ELSE [orders EXCEPT ![k[1]].status = u.order]
        /\ tables' = IF u.shown = "keep" THEN tables ELSE Shown(u.table, u.shown)
        /\ kitchenTx' = [kitchenTx EXCEPT ![k] = NoTx]
        /\ UNCHANGED <<payments, approvals, sessions, closeTx, edits, moves, retries>>
    BY <1>2 DEF CommitTicket
  <2>2. /\ u \in KitchenUpdate /\ u.status \in TicketStatus /\ u.status # "NEW" /\ u.lines \subseteq ItemIds
        /\ u.order \in OrderStatus \cup {"keep"} /\ u.shown \in TableState \cup {"keep"}
        /\ (u.order # "keep" => Known(orders, k[1])) /\ \A i \in u.lines : items[i].status # "none"
    BY <2>1 DEF FloorTyped, KitchenPart, KitchenUpdate
  <2>3. OrdersGo
    <3>1. CASE u.order = "keep"
      BY <2>1, <3>1, OrdersStay
    <3>2. CASE u.order # "keep"
      <4>1. StatusOnly(k[1], u.order)
        BY <2>1, <2>2, <3>2 DEF StatusOnly, Known, Exists
      <4> QED BY <4>1, StatusGoes
    <3> QED BY <3>1, <3>2
  <2>4. PlacesPart'
    <3>1. CASE u.shown = "keep"
      BY <2>1, <3>1 DEF FloorTyped, PlacesPart
    <3>2. CASE u.shown # "keep"
      BY <2>1, <2>2, <3>2, ShownTyped
    <3> QED BY <3>1, <3>2
  <2>7. ItemsPart' /\ LinesLast
    <3>1. \A i \in ItemIds : /\ items'[i] \in Lines
                             /\ items'[i] = items[i] \/ (items'[i].order = items[i].order /\ items[i].status # "none")
      <4> SUFFICES ASSUME NEW i \in ItemIds
                   PROVE  /\ items'[i] \in Lines
                          /\ items'[i] = items[i] \/ (items'[i].order = items[i].order /\ items[i].status # "none")
        OBVIOUS
      <4>0. items[i] \in Lines
        BY DEF FloorTyped, ItemsPart
      <4>1. CASE i \in u.lines
        <5>1. items'[i] = [items[i] EXCEPT !.status = LineStatus(u.status)] /\ items[i].status # "none"
          BY <2>1, <2>2, <4>1
        <5>2. LineStatus(u.status) \in ItemStatus
          BY <2>2 DEF LineStatus, TicketStatus, ItemStatus, DeadStatus, PendingStatus
        <5> QED BY <4>0, <5>1, <5>2, LineMarked
      <4>2. CASE i \notin u.lines
        BY <2>1, <4>0, <4>2
      <4> QED BY <4>1, <4>2
    <3>2. items' = [i \in ItemIds |-> items'[i]]
      BY <2>1
    <3> QED BY <2>3, <3>1, <3>2, LinesGo
  <2>5. KitchenPart'
    <3>1. \A o : Known(orders, o) => Known(orders', o)
      BY <2>3, OrdersGone
    <3> QED BY <2>1, <2>7, <3>1 DEF FloorTyped, KitchenPart, LinesLast, KitchenUpdate
  <2>6. tickets' \in [TicketIds -> Ticket]
    BY <2>1, <2>2 DEF FloorTyped, Ticket
  <2> QED BY <2>1, <2>3, <2>4, <2>5, <2>6, <2>7, OrdersGone, PartsStay, CountsStay DEF FloorTyped
<1> QED BY <1>1, <1>2 DEF Preparation

LEMMA ClosingTyped == ASSUME FloorTyped, Closing PROVE FloorTyped'
<1>1. ASSUME NEW t \in Tables, NEW s \in SessionIds, BeginClose(t, s) PROVE FloorTyped'
  <2>1. /\ closeTx' = [closeTx EXCEPT ![t] = [session |-> s, zero |-> {o \in ChecksOn(s) : ZeroTotal(o)}]]
        /\ UNCHANGED <<orders, items, tickets, payments, approvals, sessions, tables, kitchenTx, edits, moves, retries>>
    BY <1>1 DEF BeginClose, rows
  <2>2. ClosingPart'
    <3> DEFINE z == {o \in ChecksOn(s) : ZeroTotal(o)}
    <3>1. z \in SUBSET OrderIds /\ \A o \in z : Known(orders, o)
      BY DEF ChecksOn, ZeroTotal, Known
    <3> HIDE DEF z
    <3>2. [session |-> s, zero |-> z] \in Closure
      BY <3>1 DEF Closure
    <3> QED BY <2>1, <3>1, <3>2 DEF FloorTyped, ClosingPart, z
  <2>3. PlacesPart'
    BY <2>1 DEF FloorTyped, PlacesPart
  <2> QED BY <2>1, <2>2, <2>3, OrdersStay, OrdersGone, PartsStay, CountsStay DEF FloorTyped
<1>2. ASSUME NEW t \in Tables, NEW s \in SessionIds, RepeatClose(t, s) PROVE FloorTyped'
  <2>1. /\ tables' = Shown(t, "AVAILABLE") /\ retries' = retries + 1
        /\ UNCHANGED <<orders, items, tickets, payments, approvals, sessions, kitchenTx, closeTx, edits, moves>>
    BY <1>2 DEF RepeatClose
  <2>2. PlacesPart' /\ CountsPart'
    BY <2>1, ShownTyped DEF TableState, FloorTyped, CountsPart
  <2> QED BY <2>1, <2>2, OrdersStay, OrdersGone, PartsStay DEF FloorTyped
<1>3. ASSUME NEW t \in Tables, CommitClose(t) PROVE FloorTyped'
  <2> DEFINE tx == closeTx[t]
  <2>1. /\ tx # NoTx
        /\ orders' = [o \in OrderIds |-> IF o \in tx.zero THEN [orders[o] EXCEPT !.status = "PAID"] ELSE orders[o]]
        /\ sessions' = [sessions EXCEPT ![tx.session].status = "CLOSED"]
        /\ tables' = Shown(t, "AVAILABLE")
        /\ closeTx' = [closeTx EXCEPT ![t] = NoTx]
        /\ UNCHANGED <<items, tickets, payments, approvals, kitchenTx, edits, moves, retries>>
    BY <1>3 DEF CommitClose
  <2>2. tx \in Closure /\ \A o \in tx.zero : Known(orders, o)
    BY <2>1 DEF FloorTyped, ClosingPart
  <2>3. OrdersGo
    <3>1. ASSUME NEW o \in OrderIds
          PROVE  /\ orders'[o] \in Checks
                 /\ orders'[o] = orders[o] \/ (orders'[o].status # "none" /\ Exists(o))
      <4>0. orders[o] \in Checks
        BY OrderRows
      <4>1. CASE o \in tx.zero
        <5>1. orders'[o] = [orders[o] EXCEPT !.status = "PAID"] /\ Exists(o) /\ "PAID" \in OrderStatus
          BY <2>1, <2>2, <4>1 DEF Known, Exists, OrderStatus, ClosedStatus
        <5> QED BY <4>0, <5>1, OrderMarked
      <4>2. CASE o \notin tx.zero
        BY <2>1, <4>0, <4>2
      <4> QED BY <4>1, <4>2
    <3>2. orders' = [o \in OrderIds |-> orders'[o]]
      BY <2>1
    <3> QED BY <3>1, <3>2 DEF OrdersGo
  <2>4. PlacesPart'
    BY <2>1, <2>2 DEF FloorTyped, PlacesPart, Shown, TableState, Session, Closure
  <2>5. ClosingPart'
    <3>1. \A o : Known(orders, o) => Known(orders', o)
      BY <2>3, OrdersGone
    <3> QED BY <2>1, <3>1 DEF FloorTyped, ClosingPart
  <2> QED BY <2>1, <2>3, <2>4, <2>5, OrdersGone, PartsStay, CountsStay DEF FloorTyped
<1> QED BY <1>1, <1>2, <1>3 DEF Closing

\* Two orders are written.
PutTwo(o, s, d, u) ==
  /\ o \in OrderIds /\ d \in OrderIds /\ o # d /\ s \in Checks /\ u \in Checks
  /\ s.status # "none" /\ u.status # "none"
  /\ Exists(o) /\ (Exists(d) \/ d \in FreshOrder)
  /\ orders' = [orders EXCEPT ![o] = s, ![d] = u]
LEMMA TwoPut ==
  ASSUME FloorTyped, NEW o, NEW s, NEW d, NEW u, PutTwo(o, s, d, u)
  PROVE  /\ OrdersGo /\ orders'[o] = s /\ orders'[d] = u /\ orders'[d].status # "none"
         /\ \A x \in OrderIds \ {o, d} : orders'[x] = orders[x]
BY DEF FloorTyped, OrdersPart, OrdersGo, PutTwo

LEMMA LastChecks ==
  ASSUME FloorTyped, NEW t, NEW d \in LastCheck(t)
  PROVE  d \in OrderIds /\ IsOpen(d) /\ Exists(d)
BY DEF LastCheck, OpenChecks, ChecksOn, IsOpen

\* Rows written by a merge.
IsVoided(i, r)  == r = [items[i] EXCEPT !.status = "VOIDED"]
IsCopy(l, d, r) == r = [items[l] EXCEPT !.order = d, !.comp = FALSE]
LEMMA CopiesDo ==
  ASSUME NEW ls, NEW d, NEW i \in ItemIds
  PROVE  \/ i \in ls /\ IsVoided(i, Copies(ls, d)[i])
         \/ i \notin ls /\ items[i].status = "none" /\ \E l \in ls : i \in RowFor(l, ls) /\ IsCopy(l, d, Copies(ls, d)[i])
         \/ i \notin ls /\ (\A l \in ls : i \notin RowFor(l, ls)) /\ Copies(ls, d)[i] = items[i]
<1>1. CASE i \in ls
  BY <1>1 DEF Copies, IsVoided
<1>2. CASE i \notin ls /\ \E l \in ls : i \in RowFor(l, ls)
  <2>1. (CHOOSE l \in ls : i \in RowFor(l, ls)) \in ls /\ i \in RowFor(CHOOSE l \in ls : i \in RowFor(l, ls), ls)
    BY <1>2
  <2>2. Copies(ls, d)[i] = [items[CHOOSE l \in ls : i \in RowFor(l, ls)] EXCEPT !.order = d, !.comp = FALSE]
    BY <1>2 DEF Copies
  <2>3. items[i].status = "none"
    BY <1>2 DEF RowFor, FreeRows
  <2> QED BY <1>2, <2>1, <2>2, <2>3 DEF IsCopy
<1>3. CASE i \notin ls /\ \A l \in ls : i \notin RowFor(l, ls)
  BY <1>3 DEF Copies
<1> QED BY <1>1, <1>2, <1>3

LEMMA MergedDoes ==
  ASSUME FloorTyped, NEW o \in OrderIds, Exists(o), NEW t \in Tables, NEW d \in LastCheck(t), Merged(o, d, t), Moving
  PROVE  /\ d \in OrderIds /\ d # o /\ IsOpen(d) /\ Exists(d) /\ d # 0
         /\ Completed(o) = {} /\ orders[o].discount = 0 /\ Completed(d) = {}
         /\ \A l \in LiveLines(o) : RowFor(l, LiveLines(o)) # {}
         /\ items' = Copies(LiveLines(o), d)
         /\ \E s, u \in Checks :
              /\ PutTwo(o, s, d, u)
              /\ s.status = "VOIDED" /\ s.session = orders[o].session /\ s.total = orders[o].total
              /\ u.status = orders[d].status /\ u.session = orders[d].session
              /\ u.discount = orders[d].discount /\ u.subtotal = orders[d].subtotal + LineTotal(LiveLines(o))
         /\ UNCHANGED <<tickets, payments, approvals, kitchenTx, closeTx, edits>>
<1>1. d \in OrderIds /\ IsOpen(d) /\ Exists(d) /\ d # 0 /\ d # o
  BY LastChecks DEF Merged, OrderIds
<1>2. LiveLines(o) \in SUBSET ItemIds /\ LineTotal(LiveLines(o)) \in Nat
  BY SumsAreNumbers DEF LiveLines, LinesOf
<1>3. orders[o] \in Checks /\ orders[d] \in Checks /\ orders[d] \in Order /\ orders[d].status # "none"
  BY <1>1, OrderRows DEF Exists
<1> DEFINE n == LineTotal(LiveLines(o))
           s == [orders[o] EXCEPT !.status = "VOIDED"]
           u == Charged(orders[d], n)
<1>4. orders' = [orders EXCEPT ![d] = u, ![o] = s]
  BY <1>1 DEF Merged, FloorTyped, OrdersPart
<1>5. s \in Checks /\ s.status = "VOIDED" /\ s.session = orders[o].session /\ s.total = orders[o].total
  <2>1. "VOIDED" \in OrderStatus
    BY DEF OrderStatus, ClosedStatus
  <2> QED BY <1>3, <2>1, OrderMarked
<1>6. /\ u \in Checks /\ u.status = orders[d].status /\ u.session = orders[d].session
      /\ u.discount = orders[d].discount /\ u.subtotal = orders[d].subtotal + n
  <2> HIDE DEF n
  <2> QED BY <1>2, <1>3, OrderCharged DEF n
<1> HIDE DEF s, u
<1>7. orders' = [orders EXCEPT ![o] = s, ![d] = u]
  BY <1>1, <1>4 DEF FloorTyped, OrdersPart
<1>8. PutTwo(o, s, d, u)
  BY <1>1, <1>3, <1>5, <1>6, <1>7 DEF PutTwo
<1>9. /\ Completed(o) = {} /\ orders[o].discount = 0 /\ Completed(d) = {}
      /\ \A l \in LiveLines(o) : RowFor(l, LiveLines(o)) # {}
      /\ items' = Copies(LiveLines(o), d)
      /\ UNCHANGED <<tickets, payments, approvals, kitchenTx, closeTx, edits>>
  BY DEF Merged, Unbound
<1> QED BY <1>1, <1>5, <1>6, <1>8, <1>9

LEMMA SplitDoes ==
  ASSUME FloorTyped, NEW o \in OrderIds, NEW ls \in SUBSET LinesOf(o), SplitCheck(o, ls)
  PROVE  /\ ls \in SUBSET ItemIds /\ Exists(o) /\ o # 0 /\ Completed(o) = {} /\ orders[o].discount = 0
         /\ LineTotal(ls) \in Nat /\ LineTotal(ls) <= orders[o].subtotal
         /\ \E n \in FreshOrder :
              /\ items' = [i \in ItemIds |-> IF i \in ls THEN [items[i] EXCEPT !.order = n] ELSE items[i]]
              /\ \E s, u \in Checks :
                   /\ PutTwo(o, s, n, u)
                   /\ s.status = orders[o].status /\ s.session = orders[o].session
                   /\ s.discount = orders[o].discount /\ s.subtotal = orders[o].subtotal - LineTotal(ls)
                   /\ u.status = orders[o].status /\ u.session = orders[o].session
                   /\ u.discount = 0 /\ u.subtotal = LineTotal(ls)
         /\ UNCHANGED <<tickets, payments, approvals, sessions, tables, kitchenTx, closeTx, edits, retries>>
<1>1. ls \in SUBSET ItemIds /\ Exists(o) /\ o # 0 /\ Completed(o) = {} /\ orders[o].discount = 0
  BY DEF SplitCheck, LinesOf, Unbound, OrderIds
<1> DEFINE k == LineTotal(ls)
<1>2. k \in Nat /\ k <= orders[o].subtotal
  BY <1>1, SumsAreNumbers DEF SplitCheck
<1>3. orders[o] \in Checks /\ orders[o] \in Order /\ orders[o].subtotal \in Nat /\ orders[o].status # "none"
      /\ orders[o].status \in OrderStatus /\ orders[o].session \in SessionIds \cup {0}
  BY <1>1, OrderRows, CheckFields DEF Exists
<1> DEFINE base == [NoOrder EXCEPT !.status = orders[o].status, !.session = orders[o].session]
           s == Relieved(orders[o], k)
           u == Charged(base, k)
<1>4. PICK n \in FreshOrder :
        /\ orders' = [orders EXCEPT ![n] = u, ![o] = s]
        /\ items' = [i \in ItemIds |-> IF i \in ls THEN [items[i] EXCEPT !.order = n] ELSE items[i]]
  <2>1. PICK n \in FreshOrder :
          /\ orders' = [orders EXCEPT ![n] = u, ![o] = Relieved(@, LineTotal(ls))]
          /\ items' = [i \in ItemIds |-> IF i \in ls THEN [items[i] EXCEPT !.order = n] ELSE items[i]]
    BY Zenon DEF SplitCheck
  <2>2. n \in OrderIds /\ n # o
    BY <1>1, FreshRows
  <2>3. orders' = [orders EXCEPT ![n] = u, ![o] = s]
    BY <2>1, <2>2 DEF FloorTyped, OrdersPart
  <2> QED BY <2>1, <2>3
<1>5. n \in OrderIds /\ n # o
  BY <1>1, FreshRows
<1>6. /\ s \in Checks /\ s.status = orders[o].status /\ s.session = orders[o].session
      /\ s.discount = orders[o].discount /\ s.subtotal = orders[o].subtotal - k
  <2> HIDE DEF k
  <2>1. /\ s \in Checks /\ s.status = orders[o].status /\ s.session = orders[o].session
        /\ s.discount = orders[o].discount /\ s.subtotal = Floored(orders[o].subtotal - k)
    BY <1>2, <1>3, OrderRelieved
  <2> HIDE DEF s
  <2>2. Floored(orders[o].subtotal - k) = orders[o].subtotal - k
    BY <1>2, <1>3 DEF Floored
  <2> QED BY <2>1, <2>2
<1>7. /\ u \in Checks /\ u.status = orders[o].status /\ u.session = orders[o].session
      /\ u.discount = 0 /\ u.subtotal = k
  <2>1. base \in Order /\ base.subtotal = 0 /\ base.discount = 0 /\ base.session = orders[o].session
        /\ base.status = orders[o].status
    BY <1>3 DEF Order, NoOrder
  <2> HIDE DEF base, k
  <2>2. /\ u \in Checks /\ u.status = base.status /\ u.session = base.session
        /\ u.discount = base.discount /\ u.subtotal = 0 + k
    BY <1>2, <2>1, OrderCharged
  <2> QED BY <1>2, <2>1, <2>2
<1> HIDE DEF s, u, k
<1>8. orders' = [orders EXCEPT ![o] = s, ![n] = u]
  BY <1>4, <1>5 DEF FloorTyped, OrdersPart
<1>9. PutTwo(o, s, n, u)
  BY <1>1, <1>3, <1>5, <1>6, <1>7, <1>8 DEF PutTwo
<1>10. UNCHANGED <<tickets, payments, approvals, sessions, tables, kitchenTx, closeTx, edits, retries>>
  BY DEF SplitCheck
<1> QED BY <1>1, <1>2, <1>4, <1>6, <1>7, <1>9, <1>10 DEF k

\* Where q portions of line i go, and what they cost.
MovedCost(i, k) == IF items[i].comp THEN 0 ELSE items[i].price * k
LEMMA CostsAreNat ==
  ASSUME FloorTyped, NEW i \in ItemIds, NEW k \in Nat
  PROVE  /\ MovedCost(i, k) \in Nat /\ MovedCost(i, k) <= items[i].price * k
         /\ (items[i].comp => MovedCost(i, k) = 0)
<1>1. items[i].price \in Nat
  BY LineFields DEF FloorTyped, ItemsPart
<1>2. \A p, n \in Nat : p * n \in Nat
  OBVIOUS
<1>3. items[i].price * k \in Nat
  BY <1>1, <1>2
<1> QED BY <1>3 DEF MovedCost

\* The row n for the moved portions, and what is left in row i.
MovedRows(i, d, q, a, b) ==
  LET rest == items[i].quantity - q IN
  /\ a \in Lines /\ a.order = d /\ a.status = items[i].status /\ a.quantity = q /\ a.line = MovedCost(i, q)
  /\ a.price = items[i].price /\ (a.comp <=> items[i].comp) /\ a.station = items[i].station
  /\ b \in Lines /\ b.order = items[i].order /\ b.station = items[i].station
  /\ \/ rest = 0 /\ b.status = "VOIDED"
     \/ /\ rest # 0 /\ b.status = items[i].status /\ b.quantity = rest /\ b.line = MovedCost(i, rest)
        /\ b.price = items[i].price /\ (b.comp <=> items[i].comp)

LEMMA RowsMoved ==
  ASSUME FloorTyped, NEW i \in ItemIds, items[i].order # 0, NEW d \in OrderIds, NEW q \in Quantities, q <= items[i].quantity,
         NEW n \in FreshItem, items' = Moved(i, d, n, q)
  PROVE  /\ n \in ItemIds /\ n # i
         /\ \E a, b \in Lines : MovedRows(i, d, q, a, b) /\ items' = [items EXCEPT ![n] = a, ![i] = b]
<1>1. /\ items[i] \in Lines /\ items[i].status # "none" /\ items[i].price \in Nat /\ items[i].quantity \in Nat
      /\ items[i].quantity <= MaxQuantity /\ items[i].station \in Stations \cup {NoStation} /\ items[i].comp \in BOOLEAN
      /\ MaxQuantity \in Nat /\ items[i].status \in ItemStatus
  BY LineFields DEF FloorTyped, ItemsPart
<1>2. q \in Nat /\ 0 < q /\ q <= MaxQuantity
  BY <1>1 DEF Quantities
<1>3. n \in ItemIds /\ items[n].status = "none" /\ n # i
  BY <1>1, FreshRows
<1> DEFINE rest == items[i].quantity - q
           l == Line(d, items[i], q, items[i].status)
           a == [l EXCEPT !.comp = items[i].comp, !.line = MovedCost(i, q)]
           b == IF rest = 0 THEN [items[i] EXCEPT !.status = "VOIDED"]
                ELSE [items[i] EXCEPT !.quantity = rest, !.line = MovedCost(i, rest)]
<1>4. rest \in Nat /\ rest <= MaxQuantity
  BY <1>1, <1>2
<1>5. items' = [items EXCEPT ![n] = a, ![i] = b]
  BY DEF Moved, MovedCost
<1>6. /\ a \in Lines /\ a.order = d /\ a.status = items[i].status /\ a.quantity = q /\ a.line = MovedCost(i, q)
      /\ a.price = items[i].price /\ (a.comp <=> items[i].comp) /\ a.station = items[i].station
  <2>1. /\ l \in Lines /\ l.quantity = q /\ l.price = items[i].price /\ l.order = d
        /\ l.status = items[i].status /\ l.station = items[i].station
    BY <1>1, <1>2, LineMade
  <2>2. MovedCost(i, q) \in Nat /\ MovedCost(i, q) <= items[i].price * q /\ (items[i].comp => MovedCost(i, q) = 0)
    BY <1>2, CostsAreNat
  <2> HIDE DEF l
  <2>3. MovedCost(i, q) <= l.price * l.quantity
    BY <2>1, <2>2
  <2>4. items[i].comp \in BOOLEAN
    BY <1>1
  <2> HIDE DEF a
  <2>5. a = [l EXCEPT !.comp = items[i].comp, !.line = MovedCost(i, q)]
    BY DEF a
  <2>6. Rewrites(a, l, l.quantity, MovedCost(i, q), items[i].comp)
    BY <2>1, <2>2, <2>3, <2>4, <2>5, LineGifted, Zenon
  <2> QED BY <2>1, <2>6 DEF Rewrites
<1> HIDE DEF a, l
<1>7. /\ b \in Lines /\ b.order = items[i].order /\ b.station = items[i].station
      /\ \/ rest = 0 /\ b.status = "VOIDED"
         \/ /\ rest # 0 /\ b.status = items[i].status /\ b.quantity = rest /\ b.line = MovedCost(i, rest)
            /\ b.price = items[i].price /\ (b.comp <=> items[i].comp)
  <2>1. CASE rest = 0
    <3>1. "VOIDED" \in ItemStatus
      BY DEF ItemStatus, DeadStatus
    <3>2. b = [items[i] EXCEPT !.status = "VOIDED"]
      BY <2>1
    <3> HIDE DEF b
    <3> QED BY <1>1, <2>1, <3>1, <3>2, LineMarked
  <2>2. CASE rest # 0
    <3>1. MovedCost(i, rest) \in Nat /\ MovedCost(i, rest) <= items[i].price * rest /\ (items[i].comp => MovedCost(i, rest) = 0)
      BY <1>4, CostsAreNat
    <3>2. b = [items[i] EXCEPT !.quantity = rest, !.line = MovedCost(i, rest)]
      BY <2>2
    <3>3. rest \in Nat /\ 0 < rest /\ rest <= MaxQuantity
      BY <1>4, <2>2
    <3> HIDE DEF b, rest
    <3>4. Rewrites(b, items[i], rest, MovedCost(i, rest), items[i].comp)
      BY <1>1, <3>1, <3>2, <3>3, LineResized, Zenon
    <3> QED BY <2>2, <3>4 DEF Rewrites
  <2> QED BY <2>1, <2>2
<1> HIDE DEF b
<1>8. MovedRows(i, d, q, a, b)
  BY <1>6, <1>7 DEF MovedRows
<1> QED BY <1>3, <1>5, <1>6, <1>7, <1>8

\* q portions of line i of order o become line n of check d, in session ss at table t.
TransferOf(i, t, q, o, n, ss, d, a, b, s, u) ==
  /\ sessions' = [sessions EXCEPT ![ss] = [table |-> t, status |-> "OPEN"]]
  /\ MovedRows(i, d, q, a, b) /\ n # i /\ items' = [items EXCEPT ![n] = a, ![i] = b]
  /\ PutTwo(o, s, d, u)
  /\ s.subtotal <= orders[o].subtotal /\ s.discount = orders[o].discount
  /\ s.session = orders[o].session
  /\ s.status = IF LiveLines(o) \subseteq {i} /\ q = items[i].quantity THEN "VOIDED" ELSE orders[o].status
  /\ (d \in LastCheck(t) \/ d \in FreshOrder)
  /\ d \in LastCheck(t) => /\ Completed(d) = {} /\ u.status = orders[d].status
                           /\ u.session = orders[d].session
  /\ d \notin LastCheck(t) => u.status = orders[o].status /\ u.session = ss

LEMMA TransferDoes ==
  ASSUME FloorTyped, NEW i \in ItemIds, NEW t \in Tables, NEW q \in Quantities, TransferItems(i, t, q),
         NEW o, o = items[i].order
  PROVE  /\ o \in OrderIds /\ o # 0 /\ IsOpen(o) /\ Exists(o) /\ Completed(o) = {} /\ ~Dead(i) /\ q <= items[i].quantity
         /\ \E n \in FreshItem, ss \in SessionFor(t), d \in OrderIds : \E a, b \in Lines : \E s, u \in Checks :
              TransferOf(i, t, q, o, n, ss, d, a, b, s, u)
         /\ UNCHANGED <<tickets, payments, approvals, kitchenTx, closeTx, edits, retries>>
<1>1. /\ o # 0 /\ IsOpen(o) /\ orders[o].session # 0 /\ TableOf(o) # t /\ ~Dead(i) /\ q <= items[i].quantity
      /\ Unbound(o) /\ \A d \in LastCheck(t) : Unbound(d)
      /\ UNCHANGED <<tickets, payments, approvals, kitchenTx, closeTx, edits, retries>>
  BY DEF TransferItems
<1>2. o \in OrderIds
  BY <1>1, LineFields DEF FloorTyped, ItemsPart
<1>3. /\ orders[o] \in Checks /\ orders[o] \in Order /\ orders[o].subtotal \in Nat /\ Exists(o)
      /\ orders[o].status \in OrderStatus /\ orders[o].status # "none" /\ orders[o].session \in SessionIds \cup {0}
  BY <1>1, <1>2, OpenRow, CheckFields
<1> DEFINE cost == MovedCost(i, q)
           empty == LiveLines(o) \subseteq {i} /\ q = items[i].quantity
           left == Relieved(orders[o], cost)
           s == IF empty THEN [left EXCEPT !.status = "VOIDED"] ELSE left
           base(ss) == [NoOrder EXCEPT !.status = orders[o].status, !.session = ss]
           u(d, ss) == IF d \in LastCheck(t) THEN Charged(orders[d], cost) ELSE Charged(base(ss), cost)
<1>4. cost \in Nat
  BY CostsAreNat DEF Quantities
<1>5. PICK n \in FreshItem, ss \in SessionFor(t), d \in IF LastCheck(t) = {} THEN FreshOrder ELSE LastCheck(t) :
        /\ sessions' = [sessions EXCEPT ![ss] = [table |-> t, status |-> "OPEN"]]
        /\ items' = Moved(i, d, n, q)
        /\ orders' = [orders EXCEPT ![o] = s,
                                    ![d] = IF d \in LastCheck(t) THEN Charged(@, cost) ELSE Charged(base(ss), cost)]
  BY DEF TransferItems, MovedCost
<1>6. /\ d \in OrderIds /\ (Exists(d) \/ d \in FreshOrder) /\ (d \in LastCheck(t) \/ d \in FreshOrder) /\ d # o
      /\ (d \notin LastCheck(t) => d \in FreshOrder)
  <2>1. CASE d \in FreshOrder
    BY <1>3, <1>5, <2>1, FreshRows
  <2>2. CASE d \in LastCheck(t)
    <3>1. PICK x \in OpenSessions(t) : d \in OpenChecks(x)
      BY <2>2 DEF LastCheck
    <3>2. orders[d].session = x /\ x # 0 /\ sessions[x].table = t
      BY <3>1 DEF OpenChecks, ChecksOn, OpenSessions
    <3>3. d # o
      BY <1>1, <3>2 DEF TableOf
    <3> QED BY <2>2, <3>3, LastChecks
  <2> QED BY <1>5, <2>1, <2>2
<1>7. /\ s \in Checks /\ s.subtotal <= orders[o].subtotal /\ s.discount = orders[o].discount
      /\ s.session = orders[o].session /\ s.status = IF empty THEN "VOIDED" ELSE orders[o].status
  <2> HIDE DEF cost
  <2>1. /\ left \in Checks /\ left.subtotal = Floored(orders[o].subtotal - cost) /\ left.discount = orders[o].discount
        /\ left.session = orders[o].session /\ left.status = orders[o].status
    BY <1>3, <1>4, OrderRelieved
  <2>2. "VOIDED" \in OrderStatus
    BY DEF OrderStatus, ClosedStatus
  <2>3. Floored(orders[o].subtotal - cost) <= orders[o].subtotal
    BY <1>3, <1>4 DEF Floored
  <2> HIDE DEF left, empty
  <2>4. CASE empty
    BY <2>1, <2>2, <2>3, <2>4, OrderMarked
  <2>5. CASE ~empty
    BY <2>1, <2>3, <2>5
  <2> QED BY <2>4, <2>5
<1>8. ss \in SessionIds
  BY FreshRows DEF SessionFor, OpenSessions
<1>9. /\ u(d, ss) \in Checks /\ u(d, ss).status # "none"
      /\ d \in LastCheck(t) => u(d, ss).status = orders[d].status /\ u(d, ss).session = orders[d].session
      /\ d \notin LastCheck(t) => u(d, ss).status = orders[o].status /\ u(d, ss).session = ss
  <2> HIDE DEF cost
  <2>1. CASE d \in LastCheck(t)
    <3>1. u(d, ss) = Charged(orders[d], cost)
      BY <2>1
    <3>2. orders[d] \in Order /\ orders[d].status # "none"
      BY <1>6, <2>1, LastChecks, OrderRows DEF Exists
    <3> HIDE DEF u
    <3> QED BY <1>4, <2>1, <3>1, <3>2, OrderCharged
  <2>2. CASE d \notin LastCheck(t)
    <3>1. u(d, ss) = Charged(base(ss), cost)
      BY <2>2
    <3>2. base(ss) \in Order /\ base(ss).status = orders[o].status /\ base(ss).session = ss
      BY <1>3, <1>8 DEF Order, NoOrder
    <3> HIDE DEF u, base
    <3> QED BY <1>3, <1>4, <2>2, <3>1, <3>2, OrderCharged
  <2> QED BY <2>1, <2>2
<1>10. orders' = [orders EXCEPT ![o] = s, ![d] = u(d, ss)]
  BY <1>2, <1>5, <1>6 DEF FloorTyped, OrdersPart
<1>11. s.status # "none"
  BY <1>3, <1>7
<1> HIDE DEF s, u, cost
<1>12. PutTwo(o, s, d, u(d, ss))
  BY <1>2, <1>3, <1>6, <1>7, <1>9, <1>10, <1>11 DEF PutTwo
<1>13. n # i /\ \E a, b \in Lines : MovedRows(i, d, q, a, b) /\ items' = [items EXCEPT ![n] = a, ![i] = b]
  BY <1>1, <1>5, <1>6, RowsMoved
<1>14. d \in LastCheck(t) => Completed(d) = {}
  BY <1>1 DEF Unbound
<1>15. Completed(o) = {}
  BY <1>1 DEF Unbound
<1> DEFINE w == u(d, ss)
<1>16. /\ w \in Checks /\ PutTwo(o, s, d, w)
       /\ d \in LastCheck(t) => w.status = orders[d].status /\ w.session = orders[d].session
       /\ d \notin LastCheck(t) => w.status = orders[o].status /\ w.session = ss
  BY <1>9, <1>12
<1> HIDE DEF w
<1>17. PICK a \in Lines, b \in Lines : MovedRows(i, d, q, a, b) /\ items' = [items EXCEPT ![n] = a, ![i] = b]
  BY <1>13
<1>18. TransferOf(i, t, q, o, n, ss, d, a, b, s, w)
  <2>1. s.status = IF LiveLines(o) \subseteq {i} /\ q = items[i].quantity THEN "VOIDED" ELSE orders[o].status
    BY <1>7
  <2>2. s.subtotal <= orders[o].subtotal /\ s.discount = orders[o].discount /\ s.session = orders[o].session
    BY <1>7
  <2>3. sessions' = [sessions EXCEPT ![ss] = [table |-> t, status |-> "OPEN"]]
    BY <1>5
  <2>4. (d \in LastCheck(t) \/ d \in FreshOrder)
    BY <1>6
  <2>5. d \in LastCheck(t) => /\ Completed(d) = {} /\ w.status = orders[d].status
                             /\ w.session = orders[d].session
    BY <1>14, <1>16
  <2>6. (d \notin LastCheck(t) => w.status = orders[o].status /\ w.session = ss) /\ PutTwo(o, s, d, w)
    BY <1>16
  <2>7. MovedRows(i, d, q, a, b) /\ n # i /\ items' = [items EXCEPT ![n] = a, ![i] = b]
    BY <1>13, <1>17
  <2> HIDE DEF empty
  <2> QED BY <2>1, <2>2, <2>3, <2>4, <2>5, <2>6, <2>7, Zenon DEF TransferOf
<1> HIDE DEF empty
<1>19. /\ o \in OrderIds /\ o # 0 /\ IsOpen(o) /\ Exists(o) /\ Completed(o) = {} /\ ~Dead(i) /\ q <= items[i].quantity
       /\ UNCHANGED <<tickets, payments, approvals, kitchenTx, closeTx, edits, retries>>
  BY <1>1, <1>2, <1>3, <1>15
<1>20. n \in FreshItem /\ ss \in SessionFor(t) /\ d \in OrderIds /\ a \in Lines /\ b \in Lines /\ s \in Checks /\ w \in Checks
  <2>1. n \in FreshItem /\ ss \in SessionFor(t)
    OBVIOUS
  <2>2. a \in Lines /\ b \in Lines
    OBVIOUS
  <2>3. w \in Checks
    BY <1>16
  <2>4. d \in OrderIds
    BY <1>6
  <2>5. s \in Checks
    BY <1>7
  <2> QED BY <2>1, <2>2, <2>3, <2>4, <2>5
<1> QED BY <1>18, <1>19, <1>20

LEMMA MovesCounted == ASSUME FloorTyped, Moving, UNCHANGED edits, UNCHANGED retries \/ retries' = retries + 1 PROVE CountsPart'
BY DEF FloorTyped, CountsPart, Moving

LEMMA TransferredTyped ==
  ASSUME FloorTyped, NEW o \in OrderIds, NEW t \in Tables, Transferred(o, t), Moving
  PROVE  FloorTyped' /\ UNCHANGED <<orders, items, payments>>
<1>1. /\ sessions' = [sessions EXCEPT ![orders[o].session] = [sessions[orders[o].session] EXCEPT !.table = t]]
      /\ UNCHANGED <<orders, items, tickets, payments, approvals, kitchenTx, closeTx, edits, retries>>
      /\ \E a, b \in TableState : tables' = [tables EXCEPT ![TableOf(o)] = a, ![t] = b]
  BY DEF Transferred, TableState
<1>2. PlacesPart'
  BY <1>1 DEF FloorTyped, PlacesPart, Session
<1> QED BY <1>1, <1>2, MovesCounted, OrdersStay, OrdersGone, PartsStay DEF FloorTyped

LEMMA MergedTyped ==
  ASSUME FloorTyped, NEW o \in OrderIds, Exists(o), NEW t \in Tables, NEW d \in LastCheck(t), Merged(o, d, t), Moving
  PROVE  FloorTyped'
<1> DEFINE ls == LiveLines(o)
<1>1. /\ d \in OrderIds /\ Exists(d) /\ items' = Copies(ls, d)
      /\ UNCHANGED <<tickets, payments, approvals, kitchenTx, closeTx, edits>>
  BY MergedDoes
<1>2. PICK s \in Checks, u \in Checks : PutTwo(o, s, d, u) /\ s.status = "VOIDED"
  BY MergedDoes
<1>3. OrdersGo /\ orders'[d].status # "none"
  BY <1>2, TwoPut
<1>4. ls \in SUBSET ItemIds /\ \A l \in ls : items[l] \in Lines /\ items[l].status # "none"
  BY LineFields DEF LiveLines, LinesOf, FloorTyped, ItemsPart, OrderIds
<1> HIDE DEF ls
<1>5. ItemsPart' /\ LinesLast
  <2>1. ASSUME NEW i \in ItemIds
        PROVE  /\ items'[i] \in Lines
               /\ \/ items'[i] = items[i]
                  \/ items'[i].order = items[i].order /\ items[i].status # "none"
                  \/ items'[i].order \in OrderIds /\ orders'[items'[i].order].status # "none"
    <3>0. items[i] \in Lines
      BY DEF FloorTyped, ItemsPart
    <3>1. CASE i \in ls /\ IsVoided(i, Copies(ls, d)[i])
      <4>1. "VOIDED" \in ItemStatus
        BY DEF ItemStatus, DeadStatus
      <4> QED BY <1>1, <1>4, <3>1, <4>1, LineMarked DEF IsVoided
    <3>2. CASE \E l \in ls : IsCopy(l, d, Copies(ls, d)[i])
      <4>1. PICK l \in ls : items'[i] = [items[l] EXCEPT !.order = d, !.comp = FALSE]
        BY <1>1, <3>2 DEF IsCopy
      <4>2. items'[i] \in Lines /\ items'[i].order = d
        <5>1. items[l] \in Lines /\ items[l].status # "none" /\ d \in OrderIds
          BY <1>1, <1>4
        <5>2. [items[l] EXCEPT !.order = d, !.comp = FALSE] \in Lines
          BY <5>1, LineCopied, Zenon
        <5>3. items'[i].order = d
          BY <4>1, <5>1 DEF Lines, Item
        <5> QED BY <4>1, <5>2, <5>3
      <4> QED BY <1>1, <1>3, <4>2
    <3>3. CASE Copies(ls, d)[i] = items[i]
      BY <1>1, <3>0, <3>3
    <3>4. \/ i \in ls /\ IsVoided(i, Copies(ls, d)[i])
          \/ \E l \in ls : IsCopy(l, d, Copies(ls, d)[i])
          \/ Copies(ls, d)[i] = items[i]
      BY CopiesDo
    <3> QED BY <3>1, <3>2, <3>3, <3>4
  <2>2. items' = [i \in ItemIds |-> items'[i]]
    BY <1>1 DEF Copies
  <2> QED BY <1>3, <2>1, <2>2, LinesGo
<1>6. /\ sessions' = IF orders[o].session = 0 THEN sessions
                     ELSE [sessions EXCEPT ![orders[o].session] = [sessions[orders[o].session] EXCEPT !.status = "CLOSED"]]
      /\ tables' = [Shown(TableOf(o), "AVAILABLE") EXCEPT ![t] = "PREPARING"]
      /\ UNCHANGED retries \/ retries' = retries + 1
  BY DEF Merged
<1>7. PlacesPart'
  <2>1. tables' \in [Tables -> TableState]
    BY <1>6 DEF FloorTyped, PlacesPart, Shown, TableState
  <2>2. sessions' \in [SessionIds -> Session]
    <3>1. CASE orders[o].session = 0
      BY <1>6, <3>1 DEF FloorTyped, PlacesPart
    <3>2. CASE orders[o].session # 0
      BY <1>6, <3>2 DEF FloorTyped, PlacesPart, Session
    <3> QED BY <3>1, <3>2
  <2> QED BY <2>1, <2>2 DEF PlacesPart
<1> QED BY <1>1, <1>3, <1>5, <1>6, <1>7, MovesCounted, OrdersGone, PartsStay DEF FloorTyped

LEMMA SplitTyped ==
  ASSUME FloorTyped, NEW o \in OrderIds, NEW ls \in SUBSET LinesOf(o), SplitCheck(o, ls)
  PROVE  FloorTyped'
<1>1. /\ ls \in SUBSET ItemIds /\ o # 0 /\ Moving
      /\ UNCHANGED <<tickets, payments, approvals, sessions, tables, kitchenTx, closeTx, edits, retries>>
  BY SplitDoes DEF SplitCheck
<1>2. PICK n \in FreshOrder :
        /\ items' = [i \in ItemIds |-> IF i \in ls THEN [items[i] EXCEPT !.order = n] ELSE items[i]]
        /\ \E s, u \in Checks : PutTwo(o, s, n, u)
  BY SplitDoes
<1>3. n \in OrderIds /\ OrdersGo /\ orders'[n].status # "none"
  BY <1>2, TwoPut, FreshRows
<1>5. ItemsPart' /\ LinesLast
  <2>1. ASSUME NEW i \in ItemIds
        PROVE  /\ items'[i] \in Lines
               /\ \/ items'[i] = items[i]
                  \/ items'[i].order \in OrderIds /\ orders'[items'[i].order].status # "none"
    <3>0. items[i] \in Lines
      BY DEF FloorTyped, ItemsPart
    <3>1. CASE i \in ls
      <4>1. items'[i] = [items[i] EXCEPT !.order = n] /\ items[i].status # "none"
        BY <1>1, <1>2, <3>0, <3>1, LineFields DEF LinesOf
      <4>2. items'[i] \in Lines /\ items'[i].order = n
        BY <1>3, <3>0, <4>1, LineRedirected
      <4> QED BY <1>3, <4>2
    <3>2. CASE i \notin ls
      BY <1>2, <3>0, <3>2
    <3> QED BY <3>1, <3>2
  <2>2. items' = [i \in ItemIds |-> items'[i]]
    BY <1>2
  <2> QED BY <1>3, <2>1, <2>2, LinesGo
<1>7. PlacesPart'
  BY <1>1 DEF FloorTyped, PlacesPart
<1> QED BY <1>1, <1>3, <1>5, <1>7, MovesCounted, OrdersGone, PartsStay DEF FloorTyped

LEMMA TransferTyped ==
  ASSUME FloorTyped, NEW i \in ItemIds, NEW t \in Tables, NEW q \in Quantities, TransferItems(i, t, q)
  PROVE  FloorTyped'
<1> DEFINE o == items[i].order
<1>1. /\ o \in OrderIds /\ o # 0 /\ IsOpen(o) /\ Exists(o) /\ ~Dead(i)
      /\ UNCHANGED <<tickets, payments, approvals, kitchenTx, closeTx, edits, retries>>
  BY TransferDoes
<1>2. \E n \in FreshItem, ss \in SessionFor(t), d \in OrderIds : \E a, b \in Lines : \E s, u \in Checks :
        TransferOf(i, t, q, o, n, ss, d, a, b, s, u)
  BY TransferDoes
<1> HIDE DEF o
<1>3. PICK n \in FreshItem, ss \in SessionFor(t), d \in OrderIds : \E a, b \in Lines : \E s, u \in Checks :
        TransferOf(i, t, q, o, n, ss, d, a, b, s, u)
  BY <1>2
<1>4. PICK a \in Lines, b \in Lines, s \in Checks, u \in Checks : TransferOf(i, t, q, o, n, ss, d, a, b, s, u)
  BY <1>3
<1>5. OrdersGo /\ orders'[d].status # "none"
  <2>1. PutTwo(o, s, d, u)
    BY <1>4 DEF TransferOf
  <2> QED BY <2>1, TwoPut
<1>6. ItemsPart' /\ LinesLast
  <2>1. a \in Lines /\ b \in Lines /\ n \in ItemIds /\ n # i /\ items' = [items EXCEPT ![n] = a, ![i] = b]
        /\ a.order = d /\ b.order = items[i].order
    BY <1>4, FreshRows DEF TransferOf, MovedRows
  <2>2. items[i].status # "none"
    BY <1>1, LineFields DEF o, FloorTyped, ItemsPart
  <2>3. /\ items' \in [ItemIds -> Lines] /\ items'[n] = a /\ items'[i] = b /\ \A j \in ItemIds \ {n, i} : items'[j] = items[j]
    BY <2>1 DEF FloorTyped, ItemsPart
  <2> QED BY <1>5, <2>1, <2>2, <2>3, LinesGo
<1>7. PlacesPart'
  <2>1. sessions' = [sessions EXCEPT ![ss] = [table |-> t, status |-> "OPEN"]] /\ ss \in SessionIds
    BY <1>4, FreshRows DEF TransferOf, SessionFor, OpenSessions
  <2>2. sessions' \in [SessionIds -> Session]
    BY <2>1 DEF FloorTyped, PlacesPart, Session
  <2>3. \E x \in {tables, Released(o)}, y \in TableState : tables' = [x EXCEPT ![t] = y]
    BY DEF TransferItems, TableState, o
  <2>4. Released(o) \in [Tables -> TableState] /\ tables \in [Tables -> TableState]
    BY DEF FloorTyped, PlacesPart, Released, Shown, TableState
  <2>5. tables' \in [Tables -> TableState]
    BY <2>3, <2>4
  <2> QED BY <2>2, <2>5 DEF PlacesPart
<1>8. Moving
  BY DEF TransferItems
<1> QED BY <1>1, <1>5, <1>6, <1>7, <1>8, MovesCounted, OrdersGone, PartsStay DEF FloorTyped

LEMMA MovingTyped == ASSUME FloorTyped, MovingLines PROVE FloorTyped'
<1>1. ASSUME NEW o \in OrderIds, NEW t \in Tables, TransferTable(o, t) PROVE FloorTyped'
  BY <1>1, TransferredTyped DEF TransferTable
<1>2. ASSUME NEW o \in OrderIds, NEW t \in Tables, MergeTable(o, t) PROVE FloorTyped'
  <2>1. Moving /\ Exists(o) /\ (Transferred(o, t) \/ \E d \in LastCheck(t) : Merged(o, d, t))
    BY <1>2 DEF MergeTable
  <2> QED BY <2>1, TransferredTyped, MergedTyped
<1> QED BY <1>1, <1>2, SplitTyped, TransferTyped DEF MovingLines

LEMMA FloorTypedInductive == FloorSpec => []FloorTyped
<1>1. FloorTyped /\ RoutingInv /\ [FloorNext]_floorVars => FloorTyped'
  <2> SUFFICES ASSUME FloorTyped, RoutingInv, [FloorNext]_floorVars PROVE FloorTyped'
    OBVIOUS
  <2>1. CASE UNCHANGED floorVars
    <3>1. UNCHANGED <<orders, items, tickets, payments, approvals, sessions, tables, kitchenTx, closeTx, edits, moves, retries>>
      BY <2>1 DEF floorVars, rows
    <3>2. PlacesPart'
      BY <3>1 DEF FloorTyped, PlacesPart
    <3> QED BY <3>1, <3>2, OrdersStay, OrdersGone, PartsStay, CountsStay DEF FloorTyped
  <2>2. CASE FloorNext
    BY <2>2, IntakeTyped, ServiceTyped, SettlementTyped, EditingTyped, AskingTyped, ResolvingTyped, MovingTyped,
       PreparationTyped, ClosingTyped DEF FloorNext
  <2> QED BY <2>1, <2>2
<1> QED BY <1>1, InitTyped, RoutingInductive, PTL DEF FloorSpec

\* What the commands that may end a check have read, and the sessions that lost two at once.
EndingsTyped == endTx \in [OrderIds -> Reading \cup {NoTx}] /\ atOnce \subseteq SessionIds

LEMMA LookTyped == ASSUME FloorTyped, NEW o \in OrderIds PROVE Look(o) \in Reading
<1>1. TableOf(o) \in Tables \cup {0}
  <2>1. orders[o].session \in SessionIds \cup {0} /\ \A s \in SessionIds : sessions[s].table \in Tables \cup {0}
    BY OrderRows, CheckFields DEF FloorTyped, PlacesPart, Session
  <2> QED BY <2>1 DEF TableOf
<1> QED BY <1>1 DEF Look, Reading

LEMMA EndingTyped ==
  ASSUME FloorTyped, EndingsTyped, NEW o \in OrderIds, NEW ends, Ending(o, ends)
  PROVE  EndingsTyped'
<1>1. CASE UNCHANGED endings
  BY <1>1 DEF EndingsTyped, endings
<1>2. CASE /\ orders[o].session # 0
           /\ endTx' = [p \in OrderIds |->
                          IF p = o THEN NoTx
                          ELSE IF p \in ChecksOn(orders[o].session) /\ endTx[p] # NoTx
                          THEN [endTx[p] EXCEPT !.overtaken = TRUE]
                          ELSE endTx[p]]
           /\ atOnce' = IF endTx[o].overtaken THEN atOnce \cup {orders[o].session} ELSE atOnce
  <2>1. orders[o].session \in SessionIds
    BY <1>2, OrderRows, CheckFields
  <2>2. \A r \in Reading : [r EXCEPT !.overtaken = TRUE] \in Reading
    BY DEF Reading
  <2>3. \A p \in OrderIds : endTx[p] \in Reading \cup {NoTx}
    BY DEF EndingsTyped
  <2>4. endTx' \in [OrderIds -> Reading \cup {NoTx}]
    BY <1>2, <2>2, <2>3
  <2>5. atOnce' \subseteq SessionIds
    BY <1>2, <2>1 DEF EndingsTyped
  <2> QED BY <2>4, <2>5 DEF EndingsTyped
<1> QED BY <1>1, <1>2 DEF Ending

LEMMA EndingsTypedInductive == FloorSpec => []EndingsTyped
<1>1. FloorInit => EndingsTyped
  BY DEF FloorInit, EndingsTyped
<1>2. EndingsTyped /\ FloorTyped /\ [FloorNext]_floorVars => EndingsTyped'
  <2> SUFFICES ASSUME EndingsTyped, FloorTyped, [FloorNext]_floorVars PROVE EndingsTyped'
    OBVIOUS
  <2>1. ASSUME UNCHANGED endings PROVE EndingsTyped'
    BY <2>1 DEF EndingsTyped, endings
  <2>2. CASE Intake
    <3>1. ASSUME NEW o, NEW m, NEW q, NEW auto, Append(o, m, q, auto) PROVE UNCHANGED endings
      BY <3>1 DEF Append
    <3>2. ASSUME NEW m, NEW q, NEW auto, CreateTakeaway(m, q, auto) PROVE UNCHANGED endings
      BY <3>2 DEF CreateTakeaway
    <3>3. ASSUME NEW t, NEW m, NEW q, NEW auto, CreateAtTable(t, m, q, auto) PROVE UNCHANGED endings
      BY <3>1, <3>3 DEF CreateAtTable
    <3> QED BY <2>1, <2>2, <3>1, <3>2, <3>3 DEF Intake
  <2>3. CASE Service
    BY <2>1, <2>3 DEF Service, AcceptOrder, RequestBill
  <2>4. CASE Settlement
    <3>1. ASSUME NEW o \in OrderIds, LookAround(o) \/ GiveUp(o) PROVE EndingsTyped'
      <4>1. UNCHANGED atOnce /\ \E r \in Reading \cup {NoTx} : endTx' = [endTx EXCEPT ![o] = r]
        BY <3>1, LookTyped DEF LookAround, GiveUp
      <4> QED BY <4>1 DEF EndingsTyped
    <3>2. ASSUME NEW o \in OrderIds, NEW amount, AddPayment(o, amount) PROVE EndingsTyped'
      BY <3>2, EndingTyped DEF AddPayment
    <3>3. ASSUME NEW p \in PaymentIds, RefundPayment(p) PROVE EndingsTyped'
      BY <2>1, <3>3 DEF RefundPayment
    <3> QED BY <2>4, <3>1, <3>2, <3>3 DEF Settlement
  <2>5. CASE Editing
    <3>1. PICK i \in ItemIds : \/ Increase(i) \/ Decrease(i) \/ SetComplimentary(i) \/ RemoveComplimentary(i)
                               \/ RemoveUnprinted(i)
      BY <2>5 DEF Editing
    <3>2. CASE RemoveUnprinted(i)
      <4>1. items[i].order \in OrderIds
        BY <3>2, RemoveDoes
      <4> QED BY <3>2, <4>1, EndingTyped DEF RemoveUnprinted
    <3>3. CASE ~RemoveUnprinted(i)
      BY <2>1, <3>1, <3>3, EditDoes
    <3> QED BY <3>2, <3>3
  <2>6. CASE Asking
    BY <2>1, <2>6 DEF Asking, RequestCancellation, RequestDiscount, Request
  <2>7. CASE Resolving
    <3>1. PICK a \in ApprovalIds : Reject(a) \/ ApproveDiscount(a) \/ ApproveVoid(a) \/ ApproveItemCancellation(a)
      BY <2>7 DEF Resolving
    <3>2. CASE Reject(a) \/ ApproveDiscount(a)
      BY <2>1, <3>2 DEF Reject, ApproveDiscount
    <3>3. CASE ApproveVoid(a) \/ ApproveItemCancellation(a)
      <4>1. approvals[a].order \in OrderIds
        BY <3>3 DEF ApproveVoid, ApproveItemCancellation, Pending, FloorTyped, ApprovalsPart, Known
      <4>2. \E ends : Ending(approvals[a].order, ends)
        BY <3>3 DEF ApproveVoid, ApproveItemCancellation
      <4> QED BY <4>1, <4>2, EndingTyped
    <3> QED BY <3>1, <3>2, <3>3
  <2>8. CASE MovingLines
    <3>1. ASSUME NEW o \in OrderIds, NEW t \in Tables, TransferTable(o, t) \/ MergeTable(o, t) PROVE EndingsTyped'
      BY <2>1, <3>1 DEF TransferTable, MergeTable, Transferred, Merged
    <3>2. ASSUME NEW o \in OrderIds, NEW ls, SplitCheck(o, ls) PROVE EndingsTyped'
      BY <2>1, <3>2 DEF SplitCheck
    <3>3. ASSUME NEW i \in ItemIds, NEW t \in Tables, NEW q \in Quantities, TransferItems(i, t, q) PROVE EndingsTyped'
      <4>1. items[i].order \in OrderIds
        BY <3>3, TransferDoes
      <4>2. \E ends : Ending(items[i].order, ends)
        BY <3>3 DEF TransferItems
      <4> QED BY <4>1, <4>2, EndingTyped
    <3> QED BY <2>8, <3>1, <3>2, <3>3 DEF MovingLines
  <2>9. CASE Preparation
    BY <2>1, <2>9 DEF Preparation, BeginTicket, CommitTicket
  <2>10. CASE Closing
    BY <2>1, <2>10 DEF Closing, BeginClose, RepeatClose, CommitClose
  <2>11. CASE UNCHANGED floorVars
    BY <2>1, <2>11 DEF floorVars
  <2> QED BY <2>2, <2>3, <2>4, <2>5, <2>6, <2>7, <2>8, <2>9, <2>10, <2>11 DEF FloorNext
<1> QED BY <1>1, <1>2, FloorTypedInductive, PTL DEF FloorSpec

\* The rows are well typed, and orders are made in the order of their numbers, whatever
\* the requests of a branch do to each other: subtotals, totals and lines never go below zero.
THEOREM FloorTypeCorrect == FloorSpec => []FloorTypeOK
<1>1. FloorTyped /\ EndingsTyped => FloorTypeOK
  <2> SUFFICES ASSUME FloorTyped, EndingsTyped PROVE FloorTypeOK
    OBVIOUS
  <2>1. \A a \in ApprovalIds : /\ approvals[a].order \in OrderIds \cup {0}
                               /\ approvals[a].item \in ItemIds \cup {0}
                               /\ approvals[a].discount \in Discounts \cup {NoDiscount}
                               /\ approvals[a].status \in {"none", "PENDING", "APPROVED", "REJECTED"}
    BY DEF FloorTyped, ApprovalsPart, Approval
  <2>2. orders \in [OrderIds -> Order] /\ items \in [ItemIds -> Item]
    BY DEF FloorTyped, OrdersPart, ItemsPart, Checks, Lines
  <2>3. /\ payments \in [PaymentIds -> Payment]
        /\ sessions \in [SessionIds -> Session]
        /\ tables \in [Tables -> TableState]
        /\ tickets \in [TicketIds -> Ticket]
        /\ kitchenTx \in [TicketIds -> KitchenUpdate \cup {NoTx}]
        /\ closeTx \in [Tables -> Closure \cup {NoTx}]
        /\ \A o \in 2..MaxOrders : Exists(o) => Exists(o - 1)
    BY DEF FloorTyped, OrdersPart, PaymentsPart, PlacesPart, KitchenPart, ClosingPart
  <2>4. /\ orders \in [OrderIds -> [status : OrderStatus \cup {"none"}, session : SessionIds \cup {0},
                                   subtotal : Nat, discount : Nat, total : Nat]]
        /\ items \in [ItemIds -> [order : OrderIds \cup {0}, status : ItemStatus \cup {"none"},
                                 price : Nat, station : Stations \cup {NoStation},
                                 quantity : 0..MaxQuantity, line : Nat, comp : BOOLEAN]]
    BY <2>2 DEF Order, Item
  <2>5. /\ payments \in [PaymentIds -> [order : OrderIds \cup {0}, amount : Nat,
                                       status : {"none", "COMPLETED", "REFUNDED"}]]
        /\ sessions \in [SessionIds -> [table : Tables \cup {0}, status : {"none", "OPEN", "CLOSED"}]]
        /\ tickets \in [TicketIds -> [status : TicketStatus \cup {"none"}, lines : SUBSET ItemIds]]
    BY <2>3 DEF Payment, Session, Ticket
  <2>6. endTx \in [OrderIds -> Reading \cup {NoTx}] /\ atOnce \subseteq SessionIds
    BY DEF EndingsTyped
  <2> QED BY <2>1, <2>3, <2>4, <2>5, <2>6, Zenon DEF FloorTypeOK
<1> QED BY <1>1, FloorTypedInductive, EndingsTypedInductive, PTL

-----------------------------------------------------------------------------
(* Money received binds a check. *)

NoneGrows == \A o \in OrderIds : Completed(o) # {} => orders'[o].total <= orders[o].total

LEMMA OneWritten ==
  ASSUME FloorTyped, NEW o, NEW s, orders' = [orders EXCEPT ![o] = s],
         o \in OrderIds => Completed(o) = {} \/ s.total <= orders[o].total
  PROVE  NoneGrows
<1>1. \A x \in OrderIds : orders[x].total \in Nat /\ (x # o => orders'[x] = orders[x])
  BY OrderRows, CheckFields DEF FloorTyped, OrdersPart
<1>2. o \in OrderIds => orders'[o] = s
  BY DEF FloorTyped, OrdersPart
<1> QED BY <1>1, <1>2 DEF NoneGrows

LEMMA NothingWritten ==
  ASSUME FloorTyped, \A o \in OrderIds : orders'[o] = orders[o] \/ orders'[o].total = orders[o].total
  PROVE  NoneGrows
BY OrderRows, CheckFields DEF NoneGrows

\* A lower subtotal under the same discounts, or a higher discount, is a lower total.
LEMMA LessCosts ==
  ASSUME NEW r \in Checks, NEW s \in Checks, s.subtotal <= r.subtotal, s.discount >= r.discount
  PROVE  s.total <= r.total
BY CheckFields DEF Floored

LEMMA NewIsUnpaid == ASSUME FloorTyped, NEW o \in FreshOrder PROVE Completed(o) = {}
<1>1. ~Exists(o) /\ o \in OrderIds
  BY FreshRows
<1> QED BY <1>1 DEF FloorTyped, PaymentsPart, Completed, Known, Exists

LEMMA RowGrows ==
  ASSUME FloorTyped, NEW i, NEW r, NEW o, NEW s, RowStep(i, r, o, s), Completed(o) = {} \/ s.subtotal <= orders[o].subtotal
  PROVE  NoneGrows
<1>1. /\ o \in OrderIds /\ s \in Checks /\ orders' = [orders EXCEPT ![o] = s]
      /\ s.discount = orders[o].discount
  BY DEF RowStep
<1>2. Completed(o) = {} \/ s.total <= orders[o].total
  BY <1>1, OrderRows, CheckFields, LessCosts
<1> QED BY <1>1, <1>2, OneWritten

LEMMA StatusKeepsTotal == ASSUME FloorTyped, NEW o, NEW st, StatusOnly(o, st) PROVE NoneGrows
<1>1. o \in OrderIds /\ orders[o] \in Order /\ orders' = [orders EXCEPT ![o] = [orders[o] EXCEPT !.status = st]]
  BY OrderRows DEF StatusOnly
<1> DEFINE s == [orders[o] EXCEPT !.status = st]
<1>2. s.total = orders[o].total /\ orders[o].total \in Nat
  BY <1>1 DEF Order
<1>3. orders' = [orders EXCEPT ![o] = s]
  BY <1>1
<1> HIDE DEF s
<1>4. s.total <= orders[o].total
  BY <1>2
<1> QED BY <1>1, <1>3, <1>4, OneWritten

LEMMA AppendGrows ==
  ASSUME FloorTyped, NEW o \in OrderIds, NEW m \in Menu, NEW q \in Quantities, NEW auto \in BOOLEAN, Append(o, m, q, auto)
  PROVE  NoneGrows
<1>1. PICK i \in FreshItem, s \in Checks : MoneyStep(i, NewRow(o, m, q, auto), o, s)
  BY AppendDoes
<1>2. Completed(o) = {}
  BY AppendDoes DEF TakesLines
<1> QED BY <1>1, <1>2, RowGrows DEF MoneyStep

LEMMA OpenGrows ==
  ASSUME FloorTyped, NEW t, NEW ss \in SessionIds \cup {0}, NEW m \in Menu, NEW q \in Quantities, NEW auto \in BOOLEAN,
         Open(t, ss, m, q, auto)
  PROVE  NoneGrows
<1>1. PICK o \in FreshOrder, i \in FreshItem, s \in Checks : MoneyStep(i, NewRow(o, m, q, auto), o, s)
  BY OpenDoes
<1> QED BY <1>1, NewIsUnpaid, RowGrows DEF MoneyStep

LEMMA IntakeGrows == ASSUME FloorTyped, Intake PROVE NoneGrows
<1>1. PICK m \in Menu, q \in Quantities, auto \in BOOLEAN :
        \/ \E t \in Tables : CreateAtTable(t, m, q, auto)
        \/ CreateTakeaway(m, q, auto)
        \/ \E o \in OrderIds : Append(o, m, q, auto)
  BY Zenon DEF Intake
<1>2. ASSUME NEW t \in Tables, CreateAtTable(t, m, q, auto) PROVE NoneGrows
  <2>1. \/ \E o \in LastCheck(t) : Append(o, m, q, auto)
        \/ \E s \in SessionFor(t) : Open(t, s, m, q, auto)
    BY <1>2, Zenon DEF CreateAtTable
  <2>2. \A o \in LastCheck(t) : o \in OrderIds
    BY DEF LastCheck, OpenChecks, ChecksOn
  <2>3. \A s \in SessionFor(t) : s \in SessionIds \cup {0}
    BY FreshRows DEF SessionFor, OpenSessions
  <2> QED BY <2>1, <2>2, <2>3, AppendGrows, OpenGrows
<1>3. ASSUME CreateTakeaway(m, q, auto) PROVE NoneGrows
  <2>1. Open(0, 0, m, q, auto)
    BY <1>3 DEF CreateTakeaway
  <2> QED BY <2>1, OpenGrows
<1> QED BY <1>1, <1>2, <1>3, AppendGrows

LEMMA ServiceGrows == ASSUME FloorTyped, Service PROVE NoneGrows
<1>1. PICK o \in OrderIds : AcceptOrder(o) \/ RequestBill(o)
  BY DEF Service
<1>2. CASE AcceptOrder(o)
  <2> DEFINE s == Accepted(orders[o])
  <2>1. orders[o].total \in Nat /\ s.total = orders[o].total
    BY OrderRows, CheckFields, AcceptedCheck
  <2>2. orders' = [orders EXCEPT ![o] = s]
    BY <1>2 DEF AcceptOrder
  <2> HIDE DEF s
  <2>3. s.total <= orders[o].total
    BY <2>1
  <2> QED BY <2>2, <2>3, OneWritten
<1>3. CASE RequestBill(o)
  <2>1. StatusOnly(o, "BILL_REQUESTED")
    BY <1>3 DEF RequestBill, StatusOnly, FollowsKitchen, Exists, OrderStatus
  <2> QED BY <2>1, StatusKeepsTotal
<1> QED BY <1>1, <1>2, <1>3

LEMMA SettlementGrows == ASSUME FloorTyped, Settlement PROVE NoneGrows
<1>1. ASSUME NEW o \in OrderIds, NEW amount \in 1..Remaining(o), AddPayment(o, amount) PROVE NoneGrows
  BY <1>1, PaymentDoes, StatusKeepsTotal
<1>2. ASSUME NEW p \in PaymentIds, RefundPayment(p) PROVE NoneGrows
  <2>1. orders' = orders
    BY <1>2 DEF RefundPayment
  <2> QED BY <2>1, NothingWritten
<1>3. ASSUME NEW o \in OrderIds, LookAround(o) \/ GiveUp(o) PROVE NoneGrows
  <2>1. orders' = orders
    BY <1>3 DEF LookAround, GiveUp, rows
  <2> QED BY <2>1, NothingWritten
<1> QED BY <1>1, <1>2, <1>3 DEF Settlement

LEMMA EditingGrows == ASSUME FloorTyped, Editing PROVE NoneGrows
<1>1. PICK i \in ItemIds : \/ Increase(i) \/ Decrease(i) \/ SetComplimentary(i) \/ RemoveComplimentary(i)
                           \/ RemoveUnprinted(i)
  BY DEF Editing
<1>2. CASE Increase(i) \/ Decrease(i) \/ SetComplimentary(i) \/ RemoveComplimentary(i)
  <2>1. PICK j \in ItemIds, r \in Lines, s \in Checks : Edits(i, items[i].order, j, r, s)
    BY <1>2, EditDoes
  <2>2. Editable(i)
    BY <1>2, EditDoes
  <2>3. Completed(items[i].order) = {}
    BY <2>2, EditTarget
  <2> QED BY <2>1, <2>3, RowGrows DEF Edits
<1>3. CASE RemoveUnprinted(i)
  <2>1. PICK r \in Lines, s \in Checks : MoneyStep(i, r, items[i].order, s) /\ s.subtotal <= orders[items[i].order].subtotal
    BY <1>3, RemoveDoes
  <2> QED BY <2>1, RowGrows DEF MoneyStep
<1> QED BY <1>1, <1>2, <1>3

LEMMA ResolvingGrows == ASSUME FloorTyped, Resolving PROVE NoneGrows
<1>1. PICK a \in ApprovalIds : Reject(a) \/ ApproveDiscount(a) \/ ApproveVoid(a) \/ ApproveItemCancellation(a)
  BY DEF Resolving
<1> DEFINE o == approvals[a].order
<1>2. CASE Reject(a)
  <2>1. orders' = orders
    BY <1>2 DEF Reject
  <2> QED BY <2>1, NothingWritten
<1>3. CASE ApproveDiscount(a)
  <2>1. PICK s \in Checks : orders' = [orders EXCEPT ![o] = s] /\ s.total <= orders[o].total
    BY <1>3, DiscountDoes
  <2> QED BY <2>1, OneWritten
<1>4. CASE ApproveVoid(a)
  BY <1>4, VoidDoes, StatusKeepsTotal
<1>5. CASE ApproveItemCancellation(a)
  <2>1. \A x, ls : x = approvals[a].order /\ ls = {approvals[a].item} \cap LinesOf(x) =>
                   Completed(x) = {} /\ \E s \in Checks : orders' = [orders EXCEPT ![x] = s]
    BY <1>5, CancelDoes
  <2>2. Completed(o) = {} /\ \E s \in Checks : orders' = [orders EXCEPT ![o] = s]
    BY <2>1
  <2> QED BY <2>2, OneWritten
<1> QED BY <1>1, <1>2, <1>3, <1>4, <1>5

LEMMA TwoWritten ==
  ASSUME FloorTyped, NEW o, NEW s, NEW d, NEW u, PutTwo(o, s, d, u), Completed(o) = {}, Completed(d) = {}
  PROVE  NoneGrows
<1>1. \A x \in OrderIds : orders[x].total \in Nat /\ (x \notin {o, d} => orders'[x] = orders[x])
  BY TwoPut, OrderRows, CheckFields
<1> QED BY <1>1 DEF NoneGrows

LEMMA MovingGrows == ASSUME FloorTyped, MovingLines PROVE NoneGrows
<1>1. ASSUME NEW o \in OrderIds, NEW t \in Tables, Transferred(o, t) PROVE NoneGrows
  <2>1. orders' = orders
    BY <1>1 DEF Transferred
  <2> QED BY <2>1, NothingWritten
<1>2. ASSUME NEW o \in OrderIds, NEW t \in Tables, MergeTable(o, t) PROVE NoneGrows
  <2>1. Moving /\ Exists(o) /\ (Transferred(o, t) \/ \E d \in LastCheck(t) : Merged(o, d, t))
    BY <1>2 DEF MergeTable
  <2>2. ASSUME NEW d \in LastCheck(t), Merged(o, d, t) PROVE NoneGrows
    <3>1. Completed(o) = {} /\ Completed(d) = {} /\ \E s, u \in Checks : PutTwo(o, s, d, u)
      BY <2>1, <2>2, MergedDoes
    <3> QED BY <3>1, TwoWritten
  <2> QED BY <1>1, <2>1, <2>2
<1>3. ASSUME NEW o \in OrderIds, NEW ls \in SUBSET LinesOf(o), SplitCheck(o, ls) PROVE NoneGrows
  <2>1. Completed(o) = {} /\ \E n \in FreshOrder : \E s, u \in Checks : PutTwo(o, s, n, u)
    BY <1>3, SplitDoes
  <2> QED BY <2>1, TwoWritten, NewIsUnpaid
<1>4. ASSUME NEW i \in ItemIds, NEW t \in Tables, NEW q \in Quantities, TransferItems(i, t, q) PROVE NoneGrows
  <2>1. /\ Completed(items[i].order) = {}
        /\ \E n \in FreshItem, ss \in SessionFor(t), d \in OrderIds : \E a, b \in Lines : \E s, u \in Checks :
             TransferOf(i, t, q, items[i].order, n, ss, d, a, b, s, u)
    BY <1>4, TransferDoes
  <2>2. PICK n \in FreshItem, ss \in SessionFor(t), d \in OrderIds : \E a, b \in Lines : \E s, u \in Checks :
             TransferOf(i, t, q, items[i].order, n, ss, d, a, b, s, u)
    BY <2>1
  <2>3. PICK s, u \in Checks : /\ PutTwo(items[i].order, s, d, u)
                               /\ d \in LastCheck(t) \/ d \in FreshOrder
                               /\ d \in LastCheck(t) => Completed(d) = {}
    BY <2>2 DEF TransferOf
  <2> QED BY <2>1, <2>3, TwoWritten, NewIsUnpaid
<1> QED BY <1>1, <1>2, <1>3, <1>4 DEF MovingLines, TransferTable

LEMMA PreparationGrows == ASSUME FloorTyped, Preparation PROVE NoneGrows
<1>1. PICK k \in TicketIds : (\E status \in TicketStatus : BeginTicket(k, status)) \/ CommitTicket(k)
  BY DEF Preparation
<1>2. \/ orders' = orders
      \/ \E st : orders' = [orders EXCEPT ![k[1]].status = st]
  BY <1>1 DEF BeginTicket, CommitTicket, rows
<1>3. \A o \in OrderIds : orders'[o] = orders[o] \/ orders'[o].total = orders[o].total
  <2> SUFFICES ASSUME NEW st, orders' = [orders EXCEPT ![k[1]].status = st], NEW o \in OrderIds
               PROVE  orders'[o] = orders[o] \/ orders'[o].total = orders[o].total
    BY <1>2
  <2>1. orders[o] \in Order /\ orders \in [OrderIds -> Checks]
    BY OrderRows DEF FloorTyped, OrdersPart
  <2>2. CASE o = k[1]
    <3>1. orders'[o] = [orders[o] EXCEPT !.status = st]
      BY <2>1, <2>2
    <3> QED BY <2>1, <3>1 DEF Order
  <2>3. CASE o # k[1]
    BY <2>1, <2>3
  <2> QED BY <2>2, <2>3
<1> QED BY <1>3, NothingWritten

LEMMA ClosingGrows == ASSUME FloorTyped, Closing PROVE NoneGrows
<1>1. \/ orders' = orders
      \/ \E z : orders' = [o \in OrderIds |-> IF o \in z THEN [orders[o] EXCEPT !.status = "PAID"] ELSE orders[o]]
  BY Zenon DEF Closing, BeginClose, CommitClose, RepeatClose, rows
<1>2. \A o \in OrderIds : orders'[o].total = orders[o].total
  BY <1>1, OrderRows DEF Order
<1> QED BY <1>2, NothingWritten

\* A check that money was received for never costs more afterwards, for any number of
\* orders and payments: append_order_items, mutate_order_item, merge_table_order,
\* split_check_by_items and transfer_order_items all look at the payments of every check
\* they add to, and what is done without looking at them takes lines away or gives a discount.
THEOREM PaidChecksNeverGrow == FloorSpec => PaidCheckNeverGrows
<1>1. FloorTyped /\ [FloorNext]_floorVars =>
        [\A o \in OrderIds : Completed(o) # {} => orders'[o].total <= orders[o].total]_floorVars
  <2> SUFFICES ASSUME FloorTyped, FloorNext PROVE NoneGrows
    BY DEF NoneGrows
  <2>1. CASE Asking
    <3>1. orders' = orders
      BY <2>1, Zenon DEF Asking, RequestCancellation, RequestDiscount, Request
    <3> QED BY <3>1, NothingWritten
  <2> QED BY <2>1, IntakeGrows, ServiceGrows, SettlementGrows, EditingGrows, ResolvingGrows, MovingGrows,
             PreparationGrows, ClosingGrows DEF FloorNext
<1> QED BY <1>1, FloorTypedInductive, PTL DEF FloorSpec, PaidCheckNeverGrows

-----------------------------------------------------------------------------
(* Lines reach the kitchen. *)

\* The batches of an order at a station that have a ticket.
Used(o, st) == {b \in 1..MaxBatches : tickets[<<o, st, b>>].status # "none"}

\* Tickets are numbered without gaps, so that a new one never takes the place of another;
\* an update in flight writes lines of its own ticket only.
BatchesInARow == \A o \in OrderIds, st \in Stations : \E n \in Nat : Used(o, st) = 1..n
NoTicketNoLines == \A k \in TicketIds : tickets[k].status = "none" => tickets[k].lines = {}
UpdatesStayHome == \A k \in TicketIds : kitchenTx[k] # NoTx => /\ kitchenTx[k].lines \subseteq tickets[k].lines
                                                               /\ tickets[k].status # "none"

\* The inductive invariant, with RoutingInv and FloorTyped.
KitchenInv == BatchesInARow /\ NoTicketNoLines /\ UpdatesStayHome /\ AcceptedLinesReachKitchen

\* What RoutingInv and FloorTyped give it to rest on.
KitchenFacts ==
  /\ items \in [ItemIds -> Lines] /\ tickets \in [TicketIds -> Ticket]
  /\ kitchenTx = [k \in TicketIds |-> kitchenTx[k]]
  /\ \A k \in TicketIds : kitchenTx[k] # NoTx => kitchenTx[k].status \in TicketStatus
  /\ moves \in Nat

LEMMA KitchenKnown == ASSUME FloorTyped, RoutingInv PROVE KitchenFacts
BY DEF FloorTyped, RoutingInv, KitchenFacts, ItemsPart, CountsPart, UpdatesAdvance

LEMMA KitchenInit == FloorInit => KitchenInv
<1> SUFFICES ASSUME FloorInit PROVE KitchenInv
  OBVIOUS
<1>1. \A k \in TicketIds : tickets[k].status = "none" /\ tickets[k].lines = {} /\ kitchenTx[k] = NoTx
  BY DEF FloorInit, NoTicket
<1>2. \A o \in OrderIds, st \in Stations, b \in 1..MaxBatches : <<o, st, b>> \in TicketIds
  BY DEF TicketIds
<1>3. BatchesInARow
  <2>1. \A o \in OrderIds, st \in Stations : Used(o, st) = {}
    BY <1>1, <1>2 DEF Used
  <2>2. 1..0 = {} /\ 0 \in Nat
    OBVIOUS
  <2> QED BY <2>1, <2>2 DEF BatchesInARow
<1>4. AcceptedLinesReachKitchen
  BY DEF FloorInit, NoItem, AcceptedLinesReachKitchen, ItemStatus, PendingStatus, DeadStatus
<1> QED BY <1>1, <1>3, <1>4 DEF KitchenInv, NoTicketNoLines, UpdatesStayHome

\* A line is not waiting for a ticket: it is dead, pending or unmade, or has no station.
Idle(r) == r.status \in DeadStatus \cup PendingStatus \cup {"none"} \/ r.station = NoStation

\* Handlers that write no ticket and accept no line.
LEMMA NothingAccepted ==
  ASSUME KitchenInv, KitchenFacts, UNCHANGED <<tickets, kitchenTx>>,
         \/ moves' = moves /\ \A i \in ItemIds : \/ items'[i] = items[i] \/ Idle(items'[i])
                                                 \/ /\ items'[i].status = items[i].status
                                                    /\ items'[i].station = items[i].station
         \/ moves' # 0
  PROVE  KitchenInv'
<1>1. BatchesInARow' /\ NoTicketNoLines' /\ UpdatesStayHome'
  BY DEF KitchenInv, BatchesInARow, NoTicketNoLines, UpdatesStayHome, Used
<1>2. AcceptedLinesReachKitchen'
  <2> SUFFICES ASSUME moves' = 0, NEW i \in ItemIds, items'[i].status \in ItemStatus \ (DeadStatus \cup PendingStatus),
                      items'[i].station # NoStation
               PROVE  OnTicket(i)'
    BY DEF AcceptedLinesReachKitchen
  <2>1. items'[i].status \notin DeadStatus \cup PendingStatus \cup {"none"}
    BY DEF ItemStatus
  <2>2. moves = 0 /\ items[i].status = items'[i].status /\ items[i].station = items'[i].station
    BY <2>1 DEF Idle
  <2>3. OnTicket(i)
    BY <2>2 DEF KitchenInv, AcceptedLinesReachKitchen
  <2> QED BY <2>3 DEF OnTicket
<1> QED BY <1>1, <1>2 DEF KitchenInv

\* The ticket that the lines for station st get is a new one.
LEMMA NextBatch ==
  ASSUME KitchenInv, NEW o \in OrderIds, NEW st \in Stations
  PROVE  /\ Batch(o, st) \in Nat /\ Batch(o, st) > 0
         /\ Used(o, st) = 1..(Batch(o, st) - 1)
<1>1. PICK n \in Nat : Used(o, st) = 1..n
  BY DEF KitchenInv, BatchesInARow
<1>2. Cardinality(1..n) = n
  BY FS_Interval
<1>3. Batch(o, st) = Cardinality(Used(o, st)) + 1
  BY DEF Batch, Used
<1> QED BY <1>1, <1>2, <1>3

\* Routing makes tickets where there were none, and leaves the others.
TicketMade(k, o, ls, its) == k[1] = o /\ k[3] = Batch(o, k[2]) /\ At(ls, its, k[2]) # {}
LEMMA TicketsMade ==
  ASSUME KitchenInv, NEW o \in OrderIds, NEW ls, NEW its, tickets' = Ticketed(o, ls, its), NEW k \in TicketIds
  PROVE  /\ TicketMade(k, o, ls, its) => /\ tickets'[k] = [status |-> "NEW", lines |-> At(ls, its, k[2])]
                                         /\ tickets[k].status = "none" /\ tickets[k].lines = {}
         /\ ~TicketMade(k, o, ls, its) => tickets'[k] = tickets[k]
<1>1. /\ TicketMade(k, o, ls, its) => tickets'[k] = [status |-> "NEW", lines |-> At(ls, its, k[2])]
      /\ ~TicketMade(k, o, ls, its) => tickets'[k] = tickets[k]
  BY DEF Ticketed, TicketMade
<1>2. ASSUME TicketMade(k, o, ls, its) PROVE tickets[k].status = "none"
  <2>1. k[2] \in Stations /\ k[3] \in 1..MaxBatches /\ k = <<k[1], k[2], k[3]>>
    BY DEF TicketIds
  <2>2. k[3] \notin Used(o, k[2])
    BY <1>2, <2>1, NextBatch DEF TicketMade
  <2> QED BY <1>2, <2>1, <2>2 DEF Used, TicketMade
<1> QED BY <1>1, <1>2 DEF KitchenInv, NoTicketNoLines

\* Lines ls are sent to their stations.
LEMMA LinesReach ==
  ASSUME KitchenInv, KitchenFacts,
         NEW o \in OrderIds, NEW ls \in SUBSET ItemIds, NEW its \in [ItemIds -> Lines],
         \A i \in ItemIds \ ls : its[i] = items[i],
         Routable(o, ls, its), items' = Sent(ls, its), tickets' = Ticketed(o, ls, its),
         UNCHANGED <<kitchenTx, moves>>
  PROVE  KitchenInv'
<1> DEFINE new(k) == TicketMade(k, o, ls, its)
<1>1. \A k \in TicketIds :
         /\ new(k) => /\ tickets'[k] = [status |-> "NEW", lines |-> At(ls, its, k[2])]
                      /\ tickets[k].status = "none" /\ tickets[k].lines = {}
         /\ ~new(k) => tickets'[k] = tickets[k]
  BY TicketsMade
<1>2. \A k \in TicketIds : /\ tickets[k].lines \subseteq tickets'[k].lines
                           /\ tickets[k].status # "none" => tickets'[k] = tickets[k]
                           /\ new(k) => tickets'[k].status # "none"
  <2> SUFFICES ASSUME NEW k \in TicketIds
               PROVE  /\ tickets[k].lines \subseteq tickets'[k].lines
                      /\ tickets[k].status # "none" => tickets'[k] = tickets[k]
                      /\ new(k) => tickets'[k].status # "none"
    OBVIOUS
  <2>1. CASE new(k)
    <3>1. /\ tickets'[k] = [status |-> "NEW", lines |-> At(ls, its, k[2])]
          /\ tickets[k].status = "none" /\ tickets[k].lines = {}
      BY <1>1, <2>1
    <3> HIDE DEF new
    <3> QED BY <3>1
  <2>2. CASE ~new(k)
    BY <1>1, <2>2
  <2> QED BY <2>1, <2>2
<1>3. NoTicketNoLines' /\ UpdatesStayHome'
  BY <1>1, <1>2 DEF KitchenInv, NoTicketNoLines, UpdatesStayHome
<1>4. BatchesInARow'
  <2> SUFFICES ASSUME NEW p \in OrderIds, NEW st \in Stations PROVE \E n \in Nat : Used(p, st)' = 1..n
    BY DEF BatchesInARow
  <2>1. \A b \in 1..MaxBatches : <<p, st, b>> \in TicketIds
    BY DEF TicketIds
  <2>2. CASE p = o /\ At(ls, its, st) # {}
    <3>1. Batch(o, st) \in 1..MaxBatches
      BY <2>2, NextBatch DEF Routable
    <3>2. \A b \in 1..MaxBatches : new(<<p, st, b>>) <=> b = Batch(o, st)
      BY <2>2 DEF TicketMade
    <3>3. \A b \in 1..MaxBatches : b \in Used(p, st)' <=> b \in Used(p, st) \/ b = Batch(o, st)
      BY <1>1, <1>2, <2>1, <3>2 DEF Used
    <3>4. Used(p, st)' \subseteq 1..MaxBatches /\ Used(p, st) = 1..(Batch(o, st) - 1) /\ Batch(o, st) \in Nat
      BY <2>2, NextBatch DEF Used
    <3>5. \A b \in 1..MaxBatches : b \in Used(p, st)' <=> b \in 1..Batch(o, st)
      BY <2>2, <3>1, <3>3, <3>4, RowBounds
    <3>6. Used(p, st)' = 1..Batch(o, st)
      <4>1. MaxBatches \in Nat
        BY RowBounds
      <4>2. 1..Batch(o, st) \subseteq 1..MaxBatches
        BY <3>1, <4>1
      <4> QED BY <3>4, <3>5, <4>2
    <3> QED BY <3>4, <3>6
  <2>3. CASE ~(p = o /\ At(ls, its, st) # {})
    <3>1. \A b \in 1..MaxBatches : tickets'[<<p, st, b>>] = tickets[<<p, st, b>>]
      BY <1>1, <2>1, <2>3 DEF TicketMade
    <3>2. Used(p, st)' = Used(p, st)
      BY <3>1 DEF Used
    <3> QED BY <3>2 DEF KitchenInv, BatchesInARow
  <2> QED BY <2>2, <2>3
<1>5. AcceptedLinesReachKitchen'
  <2> SUFFICES ASSUME moves' = 0, NEW i \in ItemIds, items'[i].status \in ItemStatus \ (DeadStatus \cup PendingStatus),
                      items'[i].station # NoStation
               PROVE  OnTicket(i)'
    BY DEF AcceptedLinesReachKitchen
  <2>1. CASE i \in ls
    <3>1. items'[i] = [its[i] EXCEPT !.status = "ACCEPTED"] /\ its[i] \in Lines
      BY <2>1 DEF Sent
    <3>2. items'[i].station = its[i].station /\ its[i].station \in Stations \cup {NoStation}
      BY <3>1, LineMarked, LineFields DEF ItemStatus
    <3> DEFINE st == its[i].station
               k == <<o, st, Batch(o, st)>>
    <3>3. st \in Stations /\ i \in At(ls, its, st)
      BY <2>1, <3>2 DEF At
    <3>4. Batch(o, st) \in 1..MaxBatches
      BY <3>3, NextBatch DEF Routable
    <3>5. k \in TicketIds /\ new(k) /\ k[2] = st
      BY <3>3, <3>4 DEF TicketIds, TicketMade
    <3>6. tickets'[k] = [status |-> "NEW", lines |-> At(ls, its, st)]
      BY <1>1, <3>5
    <3> QED BY <3>3, <3>5, <3>6 DEF OnTicket
  <2>2. CASE i \notin ls
    <3>1. items'[i] = items[i]
      BY <2>2 DEF Sent
    <3>2. OnTicket(i)
      BY <3>1 DEF KitchenInv, AcceptedLinesReachKitchen
    <3> QED BY <1>2, <3>2 DEF OnTicket
  <2> QED BY <2>1, <2>2
<1> QED BY <1>3, <1>4, <1>5 DEF KitchenInv

\* A new line, sent at once or not.
LEMMA NewLineReaches ==
  ASSUME KitchenInv, KitchenFacts, FloorTyped, NEW o \in OrderIds, NEW i \in FreshItem,
         NEW m \in Menu, NEW q \in Quantities,
         LET its == [items EXCEPT ![i] = Line(o, m, q, "SUBMITTED")] IN
         \/ Routable(o, {i}, its) /\ items' = Sent({i}, its) /\ tickets' = Ticketed(o, {i}, its)
         \/ items' = its /\ UNCHANGED tickets,
         UNCHANGED <<kitchenTx, moves>>
  PROVE  KitchenInv'
<1> DEFINE r == Line(o, m, q, "SUBMITTED")
           its == [items EXCEPT ![i] = r]
<1>1. i \in ItemIds
  BY FreshRows
<1>2. r \in Lines /\ r.status = "SUBMITTED"
  <2>1. NewRow(o, m, q, FALSE) \in Lines
    BY NewRowMade
  <2>2. NewRow(o, m, q, FALSE) = r
    BY DEF NewRow
  <2>3. r.status = "SUBMITTED"
    BY DEF Line
  <2> QED BY <2>1, <2>2, <2>3
<1> HIDE DEF r
<1>3. its \in [ItemIds -> Lines] /\ its[i] = r /\ \A l \in ItemIds \ {i} : its[l] = items[l]
  BY <1>1, <1>2 DEF KitchenFacts
<1>4. \/ Routable(o, {i}, its) /\ items' = Sent({i}, its) /\ tickets' = Ticketed(o, {i}, its)
      \/ items' = its /\ UNCHANGED tickets
  BY DEF r
<1> HIDE DEF its
<1>5. CASE Routable(o, {i}, its) /\ items' = Sent({i}, its) /\ tickets' = Ticketed(o, {i}, its)
  <2>1. {i} \in SUBSET ItemIds
    BY <1>1
  <2> QED BY <1>3, <1>5, <2>1, LinesReach
<1>6. CASE items' = its /\ UNCHANGED tickets
  <2>1. Idle(r)
    BY <1>2 DEF Idle, PendingStatus
  <2>2. \A l \in ItemIds : items'[l] = items[l] \/ Idle(items'[l])
    BY <1>3, <1>6, <2>1
  <2> QED BY <1>6, <2>2, NothingAccepted
<1> QED BY <1>4, <1>5, <1>6

LEMMA AppendReaches ==
  ASSUME KitchenInv, KitchenFacts, FloorTyped, NEW o \in OrderIds, NEW m \in Menu, NEW q \in Quantities, NEW auto \in BOOLEAN,
         Append(o, m, q, auto)
  PROVE  KitchenInv'
<1>1. PICK i \in FreshItem :
        LET its == [items EXCEPT ![i] = Line(o, m, q, "SUBMITTED")] IN
        \/ Routable(o, {i}, its) /\ items' = Sent({i}, its) /\ tickets' = Ticketed(o, {i}, its)
        \/ items' = its /\ UNCHANGED tickets
  BY Zenon DEF Append
<1>2. UNCHANGED <<kitchenTx, moves>>
  BY DEF Append
<1> QED BY <1>1, <1>2, NewLineReaches

LEMMA OpenReaches ==
  ASSUME KitchenInv, KitchenFacts, FloorTyped, NEW t, NEW s, NEW m \in Menu, NEW q \in Quantities, NEW auto \in BOOLEAN,
         Open(t, s, m, q, auto), UNCHANGED <<kitchenTx, moves>>
  PROVE  KitchenInv'
<1>1. PICK o \in FreshOrder, i \in FreshItem :
        LET its == [items EXCEPT ![i] = Line(o, m, q, "SUBMITTED")] IN
        \/ Routable(o, {i}, its) /\ items' = Sent({i}, its) /\ tickets' = Ticketed(o, {i}, its)
        \/ items' = its /\ UNCHANGED tickets
  BY Zenon DEF Open
<1>2. o \in OrderIds
  BY FreshRows
<1> QED BY <1>1, <1>2, NewLineReaches

LEMMA IntakeReaches == ASSUME KitchenInv, KitchenFacts, FloorTyped, Intake PROVE KitchenInv'
<1>1. PICK m \in Menu, q \in Quantities, auto \in BOOLEAN :
        \/ \E t \in Tables : CreateAtTable(t, m, q, auto)
        \/ CreateTakeaway(m, q, auto)
        \/ \E o \in OrderIds : Append(o, m, q, auto)
  BY DEF Intake
<1>2. ASSUME NEW t \in Tables, CreateAtTable(t, m, q, auto) PROVE KitchenInv'
  <2>1. CASE \E o \in LastCheck(t) : Append(o, m, q, auto)
    BY <2>1, LastChecks, AppendReaches
  <2>2. CASE (\E s \in SessionFor(t) : Open(t, s, m, q, auto)) /\ UNCHANGED <<kitchenTx, moves>>
    BY <2>2, OpenReaches
  <2> QED BY <1>2, <2>1, <2>2 DEF CreateAtTable
<1>3. CASE CreateTakeaway(m, q, auto)
  BY <1>3, OpenReaches DEF CreateTakeaway
<1> QED BY <1>1, <1>2, <1>3, AppendReaches

LEMMA ServiceReaches == ASSUME KitchenInv, KitchenFacts, Service PROVE KitchenInv'
<1>1. PICK o \in OrderIds : AcceptOrder(o) \/ RequestBill(o)
  BY DEF Service
<1>2. CASE AcceptOrder(o)
  <2> DEFINE pending == {i \in LinesOf(o) : items[i].status \in PendingStatus}
  <2>1. /\ Routable(o, pending, items) /\ items' = Sent(pending, items) /\ tickets' = Ticketed(o, pending, items)
        /\ UNCHANGED <<kitchenTx, moves>>
    BY <1>2 DEF AcceptOrder
  <2>2. pending \in SUBSET ItemIds /\ items \in [ItemIds -> Lines]
    BY DEF LinesOf, KitchenFacts
  <2> HIDE DEF pending
  <2> QED BY <2>1, <2>2, LinesReach
<1>3. CASE RequestBill(o)
  BY <1>3, NothingAccepted DEF RequestBill
<1> QED BY <1>1, <1>2, <1>3

LEMMA EditingReaches == ASSUME KitchenInv, KitchenFacts, FloorTyped, Editing PROVE KitchenInv'
<1>1. PICK i \in ItemIds : \/ Increase(i) \/ Decrease(i) \/ SetComplimentary(i) \/ RemoveComplimentary(i)
                           \/ RemoveUnprinted(i)
  BY DEF Editing
<1>2. ASSUME NEW j \in ItemIds, NEW r, items' = [items EXCEPT ![j] = r],
             Idle(r) \/ (r.status = items[j].status /\ r.station = items[j].station),
             UNCHANGED <<tickets, kitchenTx, moves>>
      PROVE  KitchenInv'
  <2>1. items'[j] = r /\ \A l \in ItemIds \ {j} : items'[l] = items[l]
    BY <1>2 DEF KitchenFacts
  <2> QED BY <1>2, <2>1, NothingAccepted
<1>3. CASE Increase(i) \/ Decrease(i) \/ SetComplimentary(i) \/ RemoveComplimentary(i)
  <2>1. UNCHANGED <<tickets, kitchenTx, moves>>
    BY <1>3, EditDoes
  <2>2. PICK j \in ItemIds, r \in Lines, s \in Checks : Edits(i, items[i].order, j, r, s)
    BY <1>3, EditDoes
  <2>3. /\ items' = [items EXCEPT ![j] = r] /\ (items[j].status = "none" \/ r.station = items[j].station)
        /\ (j = i /\ r.status = items[i].status) \/ (j \in FreshItem /\ r.status = "SUBMITTED")
        /\ r.status # "none"
    BY <2>2 DEF Edits, RowStep
  <2>4. Idle(r) \/ (r.status = items[j].status /\ r.station = items[j].station)
    BY <2>3 DEF Idle, PendingStatus
  <2> QED BY <1>2, <2>1, <2>3, <2>4
<1>4. CASE RemoveUnprinted(i)
  <2>1. UNCHANGED <<tickets, kitchenTx, moves>>
    BY <1>4 DEF RemoveUnprinted
  <2>2. PICK r \in Lines, s \in Checks : MoneyStep(i, r, items[i].order, s) /\ r.status = "VOIDED"
    BY <1>4, RemoveDoes
  <2>3. items' = [items EXCEPT ![i] = r] /\ Idle(r)
    BY <2>2 DEF MoneyStep, RowStep, Idle, DeadStatus
  <2> QED BY <1>2, <2>1, <2>3
<1> QED BY <1>1, <1>3, <1>4

LEMMA WithdrawnReach ==
  ASSUME KitchenInv, KitchenFacts, NEW ls, NEW status \in DeadStatus,
         items' = Withdrawn(ls, status), UNCHANGED <<tickets, kitchenTx, moves>>
  PROVE  KitchenInv'
<1>1. ASSUME NEW i \in ItemIds PROVE items'[i] = items[i] \/ Idle(items'[i])
  <2>1. CASE i \in ls
    <3>1. items'[i] = [items[i] EXCEPT !.status = status] /\ items[i] \in Lines
      BY <2>1 DEF Withdrawn, KitchenFacts
    <3>2. items'[i].status = status
      BY <3>1, LineMarked DEF ItemStatus
    <3> QED BY <3>2 DEF Idle
  <2>2. CASE i \notin ls
    BY <2>2 DEF Withdrawn
  <2> QED BY <2>1, <2>2
<1> QED BY <1>1, NothingAccepted

LEMMA ResolvingReaches == ASSUME KitchenInv, KitchenFacts, Resolving PROVE KitchenInv'
<1>1. PICK a \in ApprovalIds : \/ Reject(a) \/ ApproveDiscount(a)
                               \/ ApproveVoid(a) \/ ApproveItemCancellation(a)
  BY DEF Resolving
<1>2. CASE Reject(a) \/ ApproveDiscount(a)
  BY <1>2, NothingAccepted DEF Reject, ApproveDiscount
<1>3. CASE ApproveVoid(a) \/ ApproveItemCancellation(a)
  <2>1. \E ls : \E st \in DeadStatus : items' = Withdrawn(ls, st)
    BY <1>3 DEF ApproveVoid, ApproveItemCancellation, DeadStatus
  <2>2. UNCHANGED <<tickets, kitchenTx, moves>>
    BY <1>3 DEF ApproveVoid, ApproveItemCancellation
  <2> QED BY <2>1, <2>2, WithdrawnReach
<1> QED BY <1>1, <1>2, <1>3

LEMMA MovingReaches == ASSUME KitchenInv, KitchenFacts, MovingLines PROVE KitchenInv'
<1> DEFINE Quiet == Moving /\ UNCHANGED <<tickets, kitchenTx>>
<1>1. ASSUME NEW o \in OrderIds, NEW t \in Tables, TransferTable(o, t) \/ MergeTable(o, t) PROVE Quiet
  BY <1>1 DEF TransferTable, MergeTable, Transferred, Merged
<1>2. ASSUME NEW o \in OrderIds, NEW ls \in SUBSET LinesOf(o), SplitCheck(o, ls) PROVE Quiet
  BY <1>2 DEF SplitCheck
<1>3. ASSUME NEW i \in ItemIds, NEW t \in Tables, NEW q \in Quantities, TransferItems(i, t, q) PROVE Quiet
  BY <1>3 DEF TransferItems
<1>4. Quiet
  <2> HIDE DEF Quiet
  <2> QED BY <1>1, <1>2, <1>3 DEF MovingLines
<1>5. moves' # 0
  BY <1>4 DEF Moving, KitchenFacts
<1> QED BY <1>4, <1>5, NothingAccepted

LEMMA PreparationReaches == ASSUME KitchenInv, KitchenFacts, Preparation PROVE KitchenInv'
<1>1. PICK k \in TicketIds : \/ \E status \in TicketStatus : BeginTicket(k, status)
                             \/ CommitTicket(k)
  BY DEF Preparation
<1>2. CASE \E status \in TicketStatus : BeginTicket(k, status)
  <2>1. PICK status \in TicketStatus : /\ status \in Transitions(tickets[k].status)
                                       /\ kitchenTx' = [kitchenTx EXCEPT ![k] = Update(k, status)]
    BY <1>2 DEF BeginTicket
  <2>2. UNCHANGED <<items, tickets, moves>>
    BY <1>2 DEF BeginTicket, rows
  <2>3. tickets[k].status # "none"
    BY <2>1 DEF Transitions
  <2>4. Update(k, status).lines \subseteq tickets[k].lines
    BY DEF Update
  <2>5. UpdatesStayHome'
    BY <2>1, <2>2, <2>3, <2>4 DEF KitchenInv, KitchenFacts, UpdatesStayHome
  <2>6. BatchesInARow' /\ NoTicketNoLines' /\ AcceptedLinesReachKitchen'
    BY <2>2 DEF KitchenInv, BatchesInARow, NoTicketNoLines, AcceptedLinesReachKitchen, Used, OnTicket
  <2> QED BY <2>5, <2>6 DEF KitchenInv
<1>3. CASE CommitTicket(k)
  <2> DEFINE tx == kitchenTx[k]
  <2>1. /\ tx # NoTx /\ tickets' = [tickets EXCEPT ![k].status = tx.status]
        /\ items' = [i \in ItemIds |-> IF i \in tx.lines THEN [items[i] EXCEPT !.status = LineStatus(tx.status)] ELSE items[i]]
        /\ kitchenTx' = [kitchenTx EXCEPT ![k] = NoTx] /\ UNCHANGED moves
    BY <1>3 DEF CommitTicket
  <2>2. tx.lines \subseteq tickets[k].lines /\ tickets[k].status # "none" /\ tx.status \in TicketStatus
    BY <2>1 DEF KitchenInv, UpdatesStayHome, KitchenFacts
  <2>3. tx.status # "none"
    BY <2>2 DEF TicketStatus
  <2> HIDE DEF tx
  <2>4. \A j \in TicketIds : /\ tickets'[j].lines = tickets[j].lines
                             /\ tickets'[j].status = "none" <=> tickets[j].status = "none"
    <3>1. tickets'[k] = [tickets[k] EXCEPT !.status = tx.status] /\ tickets[k] \in Ticket
          /\ \A j \in TicketIds \ {k} : tickets'[j] = tickets[j]
      BY <2>1 DEF KitchenFacts
    <3>2. tickets'[k].lines = tickets[k].lines /\ tickets'[k].status = tx.status
      BY <3>1 DEF Ticket
    <3> QED BY <2>2, <2>3, <3>1, <3>2
  <2>5. NoTicketNoLines'
    BY <2>4 DEF KitchenInv, NoTicketNoLines
  <2>6. UpdatesStayHome'
    <3> SUFFICES ASSUME NEW j \in TicketIds, kitchenTx'[j] # NoTx
                 PROVE  kitchenTx'[j].lines \subseteq tickets'[j].lines /\ tickets'[j].status # "none"
      BY DEF UpdatesStayHome
    <3>1. kitchenTx'[j] = kitchenTx[j]
      BY <2>1 DEF KitchenFacts
    <3> QED BY <2>4, <3>1 DEF KitchenInv, UpdatesStayHome
  <2>7. BatchesInARow'
    <3> SUFFICES ASSUME NEW o \in OrderIds, NEW st \in Stations PROVE \E n \in Nat : Used(o, st)' = 1..n
      BY DEF BatchesInARow
    <3>1. \A b \in 1..MaxBatches : <<o, st, b>> \in TicketIds
      BY DEF TicketIds
    <3>2. Used(o, st)' = Used(o, st)
      BY <2>4, <3>1 DEF Used
    <3> QED BY <3>2 DEF KitchenInv, BatchesInARow
  <2>8. AcceptedLinesReachKitchen'
    <3> SUFFICES ASSUME moves' = 0, NEW i \in ItemIds, items'[i].status \in ItemStatus \ (DeadStatus \cup PendingStatus),
                        items'[i].station # NoStation
                 PROVE  \E j \in TicketIds : i \in tickets'[j].lines
      BY DEF AcceptedLinesReachKitchen, OnTicket
    <3>1. CASE i \in tx.lines
      BY <2>2, <2>4, <3>1
    <3>2. CASE i \notin tx.lines
      <4>1. items'[i] = items[i] /\ moves = 0
        BY <2>1, <3>2
      <4>2. OnTicket(i)
        BY <4>1 DEF KitchenInv, AcceptedLinesReachKitchen
      <4> QED BY <2>4, <4>2 DEF OnTicket
    <3> QED BY <3>1, <3>2
  <2> QED BY <2>5, <2>6, <2>7, <2>8 DEF KitchenInv
<1> QED BY <1>1, <1>2, <1>3

LEMMA OthersReach ==
  ASSUME KitchenInv, KitchenFacts, Settlement \/ Asking \/ Closing \/ UNCHANGED floorVars
  PROVE  KitchenInv'
<1>1. UNCHANGED <<items, tickets, kitchenTx, moves>>
  <2>1. CASE Settlement
    BY <2>1 DEF Settlement, LookAround, GiveUp, AddPayment, RefundPayment, rows
  <2>2. CASE Asking
    BY <2>2 DEF Asking, RequestCancellation, RequestDiscount, Request
  <2>3. CASE Closing
    BY <2>3 DEF Closing, BeginClose, CommitClose, RepeatClose, rows
  <2>4. CASE UNCHANGED floorVars
    BY <2>4 DEF floorVars, rows
  <2> QED BY <2>1, <2>2, <2>3, <2>4
<1> QED BY <1>1, NothingAccepted

LEMMA KitchenInductive == FloorSpec => []KitchenInv
<1>1. KitchenInv /\ FloorTyped /\ RoutingInv /\ [FloorNext]_floorVars => KitchenInv'
  <2> SUFFICES ASSUME KitchenInv, FloorTyped, RoutingInv, [FloorNext]_floorVars PROVE KitchenInv'
    OBVIOUS
  <2>1. KitchenFacts
    BY KitchenKnown
  <2> QED BY <2>1, IntakeReaches, ServiceReaches, EditingReaches, ResolvingReaches, MovingReaches,
             PreparationReaches, OthersReach DEF FloorNext
<1> QED BY <1>1, KitchenInit, FloorTypedInductive, RoutingInductive, PTL DEF FloorSpec

\* No line is lost between the waiter and the kitchen: for any number of stations, orders
\* and batches, whatever is appended, accepted, edited, cancelled and prepared at once, every
\* accepted line of a station is on a ticket, as long as no line was moved between checks.
THEOREM LinesReachTheKitchen == FloorSpec => []AcceptedLinesReachKitchen
<1>1. KitchenInv => AcceptedLinesReachKitchen
  BY DEF KitchenInv
<1> QED BY <1>1, KitchenInductive, PTL

-----------------------------------------------------------------------------
(* The bill is the sum of its lines. *)

\* A dead line costs nothing, or its cancellation or the voiding of its check was approved.
Accounted(i) ==
  \/ items[i].line = 0
  \/ \E a \in ApprovalIds : Cancelled(a) /\ approvals[a].item = i /\ approvals[a].order = items[i].order
  \/ Revoked(items[i].order)
Billed(o) == Drift(o) = 0 \/ CancelledAgain(o) \/ Revoked(o)

\* The inductive invariant. That subtotals are sums needs that an edit finds the line at its
\* price, and that a line which is cancelled once more was cancelled before.
BillInv ==
  /\ \A i \in ItemIds : Priced(items[i])
  /\ \A i \in ItemIds : Dead(i) => Accounted(i)
  /\ \A o \in OrderIds : Billed(o)

LEMMA BillInit == FloorInit => BillInv
<1> SUFFICES ASSUME FloorInit PROVE BillInv
  OBVIOUS
<1>1. \A i \in ItemIds : items[i].status = "none" /\ items[i].price = 0 /\ items[i].quantity = 0 /\ items[i].line = 0
                         /\ items[i].order = 0
  BY DEF FloorInit, NoItem
<1>2. \A o \in OrderIds : orders[o].subtotal = 0 /\ LiveLines(o) = {}
  BY <1>1 DEF FloorInit, NoOrder, LiveLines, LinesOf, OrderIds
<1>3. ASSUME NEW o \in OrderIds PROVE Drift(o) = 0
  <2>1. LineTotal({}) = 0
    BY SumEmpty DEF LineTotal
  <2> QED BY <1>2, <2>1 DEF Drift
<1>4. \A i \in ItemIds : Priced(items[i]) /\ Accounted(i)
  BY <1>1 DEF Priced, Accounted
<1> QED BY <1>3, <1>4 DEF BillInv, Billed

----------------------------------------------------------------------------
(* Sums of lines. *)

LEMMA RowsAreFinite == IsFiniteSet(ItemIds)
<1>1. MaxItems \in Int
  BY RowBounds
<1> QED BY <1>1, FS_Interval DEF ItemIds

LEMMA LinesAreFinite ==
  ASSUME FloorTyped
  PROVE  /\ \A ls \in SUBSET ItemIds : IsFiniteSet(ls)
         /\ \A i \in ItemIds : items[i].line \in Nat /\ [j \in ItemIds |-> items[j].line][i] = items[i].line
<1>1. IsFiniteSet(ItemIds)
  BY RowsAreFinite
<1>2. \A i \in ItemIds : items[i].line \in Nat
  BY LineFields DEF FloorTyped, ItemsPart
<1>3. \A ls \in SUBSET ItemIds : IsFiniteSet(ls)
  BY <1>1, FS_Subset
<1> QED BY <1>2, <1>3

\* The lines of an order that a step leaves as they are come to the same.
LEMMA BillKept ==
  ASSUME FloorTyped, NEW o, LiveLines(o)' = LiveLines(o), \A i \in LiveLines(o) : items'[i].line = items[i].line
  PROVE  LineTotal(LiveLines(o))' = LineTotal(LiveLines(o))
<1> DEFINE f == [i \in ItemIds |-> items[i].line]
           h == [i \in ItemIds |-> items'[i].line]
           ls == LiveLines(o)
<1>1. ls \in SUBSET ItemIds /\ IsFiniteSet(ls)
  BY LinesAreFinite DEF LiveLines, LinesOf
<1>2. \A i \in ls : h[i] = f[i]
  BY <1>1
<1>3. LineTotal(LiveLines(o))' = SumFunctionOnSet(h, ls) /\ LineTotal(LiveLines(o)) = SumFunctionOnSet(f, ls)
  BY DEF LineTotal
<1> HIDE DEF f, h, ls
<1> QED BY <1>1, <1>2, <1>3, SumAgrees

\* A line adds its worth to those of its order.
LEMMA LineAdds ==
  ASSUME NEW f \in [ItemIds -> Nat], NEW ls \in SUBSET ItemIds, NEW i \in ItemIds, NEW live
  PROVE  live = (IF i \in ls THEN ls ELSE ls \ {i}) =>
           SumFunctionOnSet(f, live) = SumFunctionOnSet(f, ls \ {i}) + (IF i \in ls THEN f[i] ELSE 0)
<1>1. IsFiniteSet(ItemIds)
  BY RowsAreFinite
<1>2. IsFiniteSet(ls) /\ IsFiniteSet(ls \ {i}) /\ (\A x \in ls : f[x] \in Int) /\ \A x \in ls \ {i} : f[x] \in Int
  BY <1>1, FS_Subset
<1>3. SumFunctionOnSet(f, ls \ {i}) \in Int
  BY <1>2, SumNumber
<1>4. i \in ls => SumFunctionOnSet(f, ls) = f[i] + SumFunctionOnSet(f, ls \ {i})
  BY <1>2, SumWithout
<1>5. CASE i \in ls
  <2>1. f[i] \in Int
    OBVIOUS
  <2> QED BY <1>3, <1>4, <1>5, <2>1
<1>6. CASE i \notin ls
  BY <1>3, <1>6
<1> QED BY <1>5, <1>6

LEMMA RowBill ==
  ASSUME FloorTyped, NEW i, NEW r, NEW o, NEW s, RowStep(i, r, o, s)
  PROVE  /\ \E rest \in Nat : /\ LineTotal(LiveLines(o)) = rest + Worth(items[i])
                              /\ LineTotal(LiveLines(o))' = rest + Worth(r)
         /\ \A x \in OrderIds \ {o} : LineTotal(LiveLines(x))' = LineTotal(LiveLines(x))
<1>1. /\ i \in ItemIds /\ o \in OrderIds /\ r \in Lines /\ r.order = o /\ r.status # "none"
      /\ items[i].order \in {0, o} /\ items[i] \in Lines
      /\ items'[i] = r /\ \A j \in ItemIds \ {i} : items'[j] = items[j]
  BY DEF RowStep, FloorTyped, ItemsPart
<1>2. 0 \notin OrderIds
  BY DEF OrderIds
<1>3. ASSUME NEW x \in OrderIds \ {o} PROVE LineTotal(LiveLines(x))' = LineTotal(LiveLines(x))
  <2>1. LiveLines(x)' = LiveLines(x) /\ i \notin LiveLines(x) /\ LiveLines(x) \subseteq ItemIds
    BY <1>1, <1>2 DEF LiveLines, LinesOf, Dead
  <2>2. \A j \in LiveLines(x) : items'[j].line = items[j].line
    BY <1>1, <2>1
  <2> QED BY <2>1, <2>2, BillKept
<1> DEFINE f == [j \in ItemIds |-> items[j].line]
           h == [j \in ItemIds |-> items'[j].line]
           ls == LiveLines(o)
           ms == LiveLines(o)'
           rest == SumFunctionOnSet(f, ls \ {i})
<1>4. /\ f \in [ItemIds -> Nat] /\ h \in [ItemIds -> Nat] /\ ls \in SUBSET ItemIds /\ ms \in SUBSET ItemIds
      /\ \A j \in ItemIds \ {i} : f[j] = h[j] /\ (j \in ls <=> j \in ms)
      /\ f[i] = items[i].line /\ h[i] = r.line
      /\ (i \in ls <=> items[i].order = o /\ items[i].status \notin DeadStatus)
      /\ (i \in ms <=> r.status \notin DeadStatus)
  <2>1. f \in [ItemIds -> Nat] /\ f[i] = items[i].line
    BY <1>1, LinesAreFinite
  <2>2. \A j \in ItemIds : items'[j].line \in Nat
    BY <1>1, LinesAreFinite, LineFields
  <2>3. h \in [ItemIds -> Nat] /\ h[i] = r.line
    BY <1>1, <2>2
  <2>4. /\ ls \in SUBSET ItemIds /\ ms \in SUBSET ItemIds
        /\ \A j \in ItemIds \ {i} : j \in ls <=> j \in ms
        /\ (i \in ls <=> items[i].order = o /\ items[i].status \notin DeadStatus)
        /\ (i \in ms <=> r.status \notin DeadStatus)
    BY <1>1 DEF LiveLines, LinesOf, Dead
  <2>5. \A j \in ItemIds \ {i} : f[j] = h[j]
    BY <1>1
  <2> QED BY <2>1, <2>3, <2>4, <2>5
<1>5. LineTotal(LiveLines(o)) = SumFunctionOnSet(f, ls) /\ LineTotal(LiveLines(o))' = SumFunctionOnSet(h, ms)
  BY DEF LineTotal
<1> HIDE DEF f, h, ls, ms
<1>6. ls \ {i} = ms \ {i} /\ IsFiniteSet(ls \ {i}) /\ ls \ {i} \subseteq ItemIds
  BY <1>4, LinesAreFinite
<1>7. SumFunctionOnSet(h, ms \ {i}) = rest
  <2>1. \A j \in ls \ {i} : f[j] = h[j]
    BY <1>4, <1>6
  <2> QED BY <1>6, <2>1, SumAgrees
<1>8. rest \in Nat
  <2>1. \A j \in ls \ {i} : f[j] \in Nat
    BY <1>4, <1>6
  <2> QED BY <1>6, <2>1, SumNumber
<1>9. SumFunctionOnSet(f, ls) = rest + Worth(items[i])
  <2>1. SumFunctionOnSet(f, ls) = rest + (IF i \in ls THEN f[i] ELSE 0)
    <3>1. ls = (IF i \in ls THEN ls ELSE ls \ {i})
      OBVIOUS
    <3> QED BY <1>1, <1>4, <3>1, LineAdds
  <2>2. Worth(items[i]) = IF i \in ls THEN f[i] ELSE 0
    BY <1>1, <1>2, <1>4 DEF Worth
  <2> QED BY <2>1, <2>2
<1>10. SumFunctionOnSet(h, ms) = rest + Worth(r)
  <2>1. SumFunctionOnSet(h, ms) = SumFunctionOnSet(h, ms \ {i}) + (IF i \in ms THEN h[i] ELSE 0)
    <3>1. ms = (IF i \in ms THEN ms ELSE ms \ {i})
      OBVIOUS
    <3> QED BY <1>1, <1>4, <3>1, LineAdds
  <2>2. Worth(r) = IF i \in ms THEN h[i] ELSE 0
    BY <1>1, <1>2, <1>4 DEF Worth
  <2> QED BY <1>7, <2>1, <2>2
<1> QED BY <1>3, <1>5, <1>8, <1>9, <1>10

----------------------------------------------------------------------------
(* What the steps do to the bill. *)

\* What was approved stays so.
ApprovalsLast == \A a \in ApprovalIds : approvals[a].status = "APPROVED" => approvals'[a] = approvals[a]

LEMMA ApprovedLasts ==
  ASSUME ApprovalsLast
  PROVE  /\ \A o : CancelledAgain(o) => CancelledAgain(o)'
         /\ \A o : Revoked(o) => Revoked(o)'
         /\ \A i \in ItemIds : /\ Accounted(i) /\ items'[i].line = items[i].line /\ items'[i].order = items[i].order
                               => Accounted(i)'
<1>1. \A a \in ApprovalIds : Cancelled(a) => Cancelled(a)' /\ approvals'[a] = approvals[a]
  BY DEF ApprovalsLast, Cancelled
<1>2. \A o : CancelledAgain(o) => CancelledAgain(o)'
  BY <1>1 DEF CancelledAgain
<1>3. \A o : Revoked(o) => Revoked(o)'
  BY DEF Revoked, ApprovalsLast
<1>4. ASSUME NEW i \in ItemIds, Accounted(i), items'[i].line = items[i].line, items'[i].order = items[i].order
      PROVE  Accounted(i)'
  <2>1. CASE items[i].line = 0
    BY <1>4, <2>1 DEF Accounted
  <2>2. CASE \E a \in ApprovalIds : Cancelled(a) /\ approvals[a].item = i /\ approvals[a].order = items[i].order
    BY <1>1, <1>4, <2>2 DEF Accounted
  <2>3. CASE Revoked(items[i].order)
    BY <1>3, <1>4, <2>3 DEF Accounted
  <2> QED BY <1>4, <2>1, <2>2, <2>3 DEF Accounted
<1> QED BY <1>2, <1>3, <1>4

\* The bill's view of a line.
SameLine(r, s) == /\ r.order = s.order /\ r.line = s.line /\ r.price = s.price /\ r.quantity = s.quantity
                  /\ (r.comp <=> s.comp) /\ (r.status \in DeadStatus <=> s.status \in DeadStatus)

LEMMA BillsUntouched ==
  ASSUME FloorTyped, BillInv, ApprovalsLast,
         \A i \in ItemIds : items'[i] = items[i] \/ SameLine(items'[i], items[i]),
         \A o \in OrderIds : orders'[o].subtotal = orders[o].subtotal
  PROVE  BillInv'
<1>1. \A i \in ItemIds : SameLine(items'[i], items[i])
  BY DEF SameLine
<1>2. ASSUME NEW i \in ItemIds PROVE Priced(items[i])' /\ (Dead(i)' => Accounted(i)')
  BY <1>1, ApprovedLasts DEF BillInv, SameLine, Priced, Dead
<1>3. ASSUME NEW o \in OrderIds PROVE Billed(o)'
  <2>1. LiveLines(o)' = LiveLines(o) /\ LiveLines(o) \subseteq ItemIds
    BY <1>1 DEF SameLine, LiveLines, LinesOf, Dead
  <2>2. LineTotal(LiveLines(o))' = LineTotal(LiveLines(o))
    BY <1>1, <2>1, BillKept DEF SameLine
  <2>3. Drift(o)' = Drift(o)
    BY <2>2 DEF Drift
  <2> QED BY <2>3, ApprovedLasts DEF BillInv, Billed
<1> QED BY <1>2, <1>3 DEF BillInv

\* One line and its order.
LEMMA BillRow ==
  ASSUME FloorTyped, BillInv, ApprovalsLast, NEW i, NEW r, NEW o, NEW s, RowStep(i, r, o, s), Priced(r),
         r.status \in DeadStatus => Accounted(i)',
         s.subtotal = Floored(orders[o].subtotal + Worth(r) - Worth(items[i])) \/ CancelledAgain(o)' \/ Revoked(o)'
  PROVE  BillInv'
<1>1. /\ i \in ItemIds /\ o \in OrderIds /\ r \in Lines /\ r.order = o
      /\ items'[i] = r /\ \A j \in ItemIds \ {i} : items'[j] = items[j]
      /\ orders'[o] = s /\ \A x \in OrderIds \ {o} : orders'[x] = orders[x]
  BY DEF RowStep, FloorTyped, ItemsPart, OrdersPart
<1>2. ASSUME NEW j \in ItemIds PROVE Priced(items[j])' /\ (Dead(j)' => Accounted(j)')
  <2>1. CASE j = i
    BY <1>1, <2>1 DEF Dead
  <2>2. CASE j # i
    BY <1>1, <2>2, ApprovedLasts DEF BillInv, Dead
  <2> QED BY <2>1, <2>2
<1>3. ASSUME NEW x \in OrderIds PROVE Billed(x)'
  <2>1. CASE x = o
    <3>1. PICK rest \in Nat : LineTotal(LiveLines(o)) = rest + Worth(items[i]) /\ LineTotal(LiveLines(o))' = rest + Worth(r)
      BY RowBill
    <3>2. Worth(r) \in Nat /\ Worth(items[i]) \in Nat /\ orders[o].subtotal \in Nat
      BY <1>1, LineFields, OrderRows, CheckFields DEF Worth, FloorTyped, ItemsPart
    <3>3. CASE CancelledAgain(o)' \/ Revoked(o)'
      BY <2>1, <3>3 DEF Billed
    <3>4. CASE CancelledAgain(o) \/ Revoked(o)
      BY <2>1, <3>4, ApprovedLasts DEF Billed
    <3>5. CASE Drift(o) = 0 /\ s.subtotal = Floored(orders[o].subtotal + Worth(r) - Worth(items[i]))
      <4>1. orders[o].subtotal = rest + Worth(items[i])
        <5>1. orders[o].subtotal - LineTotal(LiveLines(o)) = 0 /\ LineTotal(LiveLines(o)) \in Int
          BY <3>1, <3>2, <3>5 DEF Drift
        <5> QED BY <3>1, <3>2, <5>1
      <4>2. s.subtotal = rest + Worth(r)
        BY <3>2, <3>5, <4>1 DEF Floored
      <4>3. Drift(o)' = 0
        BY <1>1, <3>1, <3>2, <4>2 DEF Drift
      <4> QED BY <2>1, <4>3 DEF Billed
    <3>6. Billed(o)
      BY <1>1 DEF BillInv
    <3> QED BY <3>3, <3>4, <3>5, <3>6 DEF Billed
  <2>2. CASE x # o
    <3>1. LineTotal(LiveLines(x))' = LineTotal(LiveLines(x)) /\ orders'[x] = orders[x]
      BY <1>1, <2>2, RowBill
    <3>2. Drift(x)' = Drift(x)
      BY <3>1 DEF Drift
    <3> QED BY <3>2, ApprovedLasts DEF BillInv, Billed
  <2> QED BY <2>1, <2>2
<1> QED BY <1>2, <1>3 DEF BillInv

----------------------------------------------------------------------------
(* What has not been disturbed never was. *)

\* Everything but a report of a station leaves the tickets there are.
TicketsStand == \A k \in TicketIds : tickets[k].status # "none" => tickets'[k] = tickets[k]

LEMMA RoutedStand ==
  ASSUME KitchenInv, NEW o \in OrderIds, NEW ls, NEW its, tickets' = Ticketed(o, ls, its) \/ UNCHANGED tickets
  PROVE  TicketsStand
<1>1. CASE tickets' = Ticketed(o, ls, its)
  BY <1>1, TicketsMade DEF TicketsStand
<1>2. CASE UNCHANGED tickets
  BY <1>2 DEF TicketsStand
<1> QED BY <1>1, <1>2

LEMMA IntakeStands == ASSUME FloorTyped, KitchenInv, Intake PROVE TicketsStand /\ UNCHANGED <<moves, approvals, kitchenTx, closeTx, retries>>
<1>1. PICK m \in Menu, q \in Quantities, auto \in BOOLEAN :
        \/ \E t \in Tables : CreateAtTable(t, m, q, auto)
        \/ CreateTakeaway(m, q, auto)
        \/ \E o \in OrderIds : Append(o, m, q, auto)
  BY DEF Intake
<1>2. ASSUME NEW o \in OrderIds, Append(o, m, q, auto)
      PROVE  TicketsStand /\ UNCHANGED <<moves, approvals, kitchenTx, closeTx, retries>>
  <2>1. \E i, its : tickets' = Ticketed(o, {i}, its) \/ UNCHANGED tickets
    BY <1>2, Zenon DEF Append
  <2> QED BY <1>2, <2>1, RoutedStand DEF Append
<1>3. ASSUME NEW t, NEW ss, Open(t, ss, m, q, auto) PROVE TicketsStand
  <2>1. \E o \in FreshOrder : \E i, its : tickets' = Ticketed(o, {i}, its) \/ UNCHANGED tickets
    BY <1>3, Zenon DEF Open
  <2> QED BY <2>1, FreshRows, RoutedStand
<1>4. CASE CreateTakeaway(m, q, auto)
  BY <1>3, <1>4 DEF CreateTakeaway
<1>5. ASSUME NEW t \in Tables, CreateAtTable(t, m, q, auto)
      PROVE  TicketsStand /\ UNCHANGED <<moves, approvals, kitchenTx, closeTx, retries>>
  <2>1. CASE \E o \in LastCheck(t) : Append(o, m, q, auto)
    BY <1>2, <2>1, LastChecks
  <2>2. CASE (\E ss \in SessionFor(t) : Open(t, ss, m, q, auto)) /\ UNCHANGED <<moves, approvals, kitchenTx, closeTx, retries>>
    BY <1>3, <2>2
  <2> QED BY <1>5, <2>1, <2>2 DEF CreateAtTable
<1> QED BY <1>1, <1>2, <1>4, <1>5

LEMMA ServiceStands == ASSUME KitchenInv, Service PROVE TicketsStand /\ UNCHANGED <<moves, approvals, kitchenTx, closeTx, retries>>
<1>1. PICK o \in OrderIds : AcceptOrder(o) \/ RequestBill(o)
  BY DEF Service
<1>2. CASE AcceptOrder(o)
  <2>1. \E ls : tickets' = Ticketed(o, ls, items)
    BY <1>2 DEF AcceptOrder
  <2> QED BY <1>2, <2>1, RoutedStand DEF AcceptOrder
<1>3. CASE RequestBill(o)
  BY <1>3 DEF RequestBill, TicketsStand
<1> QED BY <1>1, <1>2, <1>3

LEMMA OthersStand ==
  ASSUME Settlement \/ Editing \/ Asking \/ Resolving \/ Closing \/ UNCHANGED floorVars
  PROVE  UNCHANGED <<tickets, moves, kitchenTx>>
<1>1. CASE Settlement
  BY <1>1 DEF Settlement, LookAround, GiveUp, AddPayment, RefundPayment, rows
<1>2. CASE Editing
  BY <1>2 DEF Editing, Increase, Decrease, SetComplimentary, RemoveComplimentary, RemoveUnprinted
<1>3. CASE Asking
  BY <1>3 DEF Asking, RequestCancellation, RequestDiscount, Request
<1>4. CASE Resolving
  BY <1>4 DEF Resolving, Reject, ApproveDiscount, ApproveVoid, ApproveItemCancellation
<1>5. CASE Closing
  BY <1>5 DEF Closing, BeginClose, CommitClose, RepeatClose, rows
<1>6. CASE UNCHANGED floorVars
  BY <1>6 DEF floorVars, rows
<1> QED BY <1>1, <1>2, <1>3, <1>4, <1>5, <1>6

LEMMA ReportsShow == ASSUME FloorTyped, NEW k \in TicketIds, CommitTicket(k) PROVE ~Undisturbed'
<1>1. kitchenTx[k].status \in TicketStatus /\ kitchenTx[k].status # "NEW"
  BY DEF CommitTicket, FloorTyped, KitchenPart, KitchenUpdate
<1>2. tickets' = [tickets EXCEPT ![k].status = kitchenTx[k].status] /\ tickets[k] \in Ticket
  BY DEF CommitTicket, FloorTyped
<1>3. tickets'[k].status = kitchenTx[k].status
  BY <1>2 DEF FloorTyped, Ticket
<1> QED BY <1>1, <1>3 DEF Undisturbed, Unworked, TicketStatus

LEMMA MovesShow == ASSUME FloorTyped, MovingLines PROVE ~Undisturbed'
<1>1. ASSUME NEW o \in OrderIds, NEW t \in Tables, TransferTable(o, t) \/ MergeTable(o, t) PROVE Moving
  BY <1>1 DEF TransferTable, MergeTable
<1>2. ASSUME NEW o \in OrderIds, NEW ls \in SUBSET LinesOf(o), SplitCheck(o, ls) PROVE Moving
  BY <1>2 DEF SplitCheck
<1>3. ASSUME NEW i \in ItemIds, NEW t \in Tables, NEW q \in Quantities, TransferItems(i, t, q) PROVE Moving
  BY <1>3 DEF TransferItems
<1>4. Moving
  BY <1>1, <1>2, <1>3 DEF MovingLines
<1> QED BY <1>4 DEF Moving, FloorTyped, CountsPart, Undisturbed

\* The steps that are left once nothing is disturbed.
CalmNext == \/ Intake \/ Service \/ Settlement \/ Editing \/ Asking \/ Resolving \/ Closing \/ UNCHANGED floorVars
            \/ \E k \in TicketIds, status \in TicketStatus : BeginTicket(k, status)

LEMMA UndisturbedBefore ==
  ASSUME FloorTyped, KitchenInv, [FloorNext]_floorVars, Undisturbed'
  PROVE  Undisturbed /\ CalmNext
<1>1. CalmNext
  BY ReportsShow, MovesShow DEF FloorNext, Preparation, CalmNext
<1>2. TicketsStand /\ UNCHANGED moves
  <2>1. CASE Intake \/ Service
    BY <2>1, IntakeStands, ServiceStands
  <2>2. CASE Settlement \/ Editing \/ Asking \/ Resolving \/ Closing \/ UNCHANGED floorVars
    BY <2>2, OthersStand DEF TicketsStand
  <2>3. CASE \E k \in TicketIds, status \in TicketStatus : BeginTicket(k, status)
    BY <2>3 DEF BeginTicket, rows, TicketsStand
  <2> QED BY <1>1, <2>1, <2>2, <2>3 DEF CalmNext
<1> QED BY <1>1, <1>2 DEF Undisturbed, Unworked, TicketsStand

----------------------------------------------------------------------------
(* Every calm step keeps the bill. *)

LEMMA MoneyBill ==
  ASSUME FloorTyped, BillInv, UNCHANGED approvals, NEW i, NEW r, NEW o, NEW s, MoneyStep(i, r, o, s), Priced(r),
         r.status \notin DeadStatus \/ r.line = 0
  PROVE  BillInv'
<1>1. ApprovalsLast
  BY DEF ApprovalsLast
<1>2. RowStep(i, r, o, s) /\ s.subtotal = Floored(orders[o].subtotal + Worth(r) - Worth(items[i]))
  BY DEF MoneyStep
<1>3. items'[i] = r
  BY <1>2 DEF RowStep, FloorTyped, ItemsPart
<1>4. r.status \in DeadStatus => Accounted(i)'
  BY <1>3 DEF Accounted
<1> QED BY <1>1, <1>2, <1>4, BillRow

LEMMA IntakeBills == ASSUME FloorTyped, KitchenInv, BillInv, Intake PROVE BillInv'
<1>1. PICK m \in Menu, q \in Quantities, auto \in BOOLEAN :
        \/ \E t \in Tables : CreateAtTable(t, m, q, auto)
        \/ CreateTakeaway(m, q, auto)
        \/ \E o \in OrderIds : Append(o, m, q, auto)
  BY DEF Intake
<1>2. UNCHANGED approvals
  BY IntakeStands
<1>3. ASSUME NEW o \in OrderIds, NEW i, NEW s, MoneyStep(i, NewRow(o, m, q, auto), o, s) PROVE BillInv'
  <2> DEFINE r == NewRow(o, m, q, auto)
  <2>1. Priced(r) /\ r.status \notin DeadStatus
    BY NewRowMade
  <2> HIDE DEF r
  <2>2. MoneyStep(i, r, o, s)
    BY <1>3 DEF r
  <2> QED BY <1>2, <2>1, <2>2, MoneyBill
<1>4. ASSUME NEW o \in OrderIds, Append(o, m, q, auto) PROVE BillInv'
  BY <1>3, <1>4, AppendDoes
<1>5. ASSUME NEW t, NEW ss \in SessionIds \cup {0}, Open(t, ss, m, q, auto) PROVE BillInv'
  <2>1. PICK o \in FreshOrder, i \in FreshItem, s \in Checks : MoneyStep(i, NewRow(o, m, q, auto), o, s)
    <3>1. \A x : Open(x, ss, m, q, auto) =>
           \E o \in FreshOrder, i \in FreshItem, s \in Checks :
           /\ MoneyStep(i, NewRow(o, m, q, auto), o, s)
           /\ s.session = ss /\ s.status \in OrderStatus \ ClosedStatus
      BY OpenDoes
    <3> QED BY <1>5, <3>1
  <2>2. o \in OrderIds
    BY FreshRows
  <2> QED BY <1>3, <2>1, <2>2
<1>6. CASE CreateTakeaway(m, q, auto)
  BY <1>5, <1>6 DEF CreateTakeaway
<1>7. ASSUME NEW t \in Tables, CreateAtTable(t, m, q, auto) PROVE BillInv'
  <2>1. CASE \E o \in LastCheck(t) : Append(o, m, q, auto)
    BY <1>4, <2>1, LastChecks
  <2>2. CASE \E ss \in SessionFor(t) : Open(t, ss, m, q, auto)
    <3>1. SessionFor(t) \subseteq SessionIds \cup {0}
      BY DEF SessionFor, OpenSessions, FreshSession, Fresh
    <3> QED BY <1>5, <2>2, <3>1
  <2> QED BY <1>7, <2>1, <2>2 DEF CreateAtTable
<1> QED BY <1>1, <1>4, <1>6, <1>7

\* An order whose subtotal stays.
LEMMA SubtotalsStay ==
  ASSUME FloorTyped, NEW o \in OrderIds, NEW s, s.subtotal = orders[o].subtotal, orders' = [orders EXCEPT ![o] = s]
  PROVE  \A x \in OrderIds : orders'[x].subtotal = orders[x].subtotal
BY DEF FloorTyped, OrdersPart

LEMMA StatusStays ==
  ASSUME FloorTyped, NEW o, NEW st, StatusOnly(o, st)
  PROVE  \A x \in OrderIds : orders'[x].subtotal = orders[x].subtotal
<1>1. orders[o] \in Order /\ st \in OrderStatus
  BY OrderRows DEF StatusOnly
<1>2. [orders[o] EXCEPT !.status = st].subtotal = orders[o].subtotal
  BY <1>1 DEF Order
<1> QED BY <1>2, SubtotalsStay DEF StatusOnly

LEMMA ServiceBills == ASSUME FloorTyped, KitchenInv, BillInv, Service PROVE BillInv'
<1>1. PICK o \in OrderIds : AcceptOrder(o) \/ RequestBill(o)
  BY DEF Service
<1>2. ApprovalsLast
  BY ServiceStands DEF ApprovalsLast
<1>3. CASE AcceptOrder(o)
  <2>1. /\ orders[o].status \in FollowsKitchen /\ orders' = [orders EXCEPT ![o] = Accepted(@)]
        /\ items' = Sent({i \in LinesOf(o) : items[i].status \in PendingStatus}, items)
    BY <1>3 DEF AcceptOrder
  <2>2. orders' = [orders EXCEPT ![o] = Accepted(orders[o])] /\ orders[o] \in Checks /\ Exists(o)
    BY <2>1, OrderRows DEF Exists, FollowsKitchen, FloorTyped, OrdersPart
  <2>3. Accepted(orders[o]).subtotal = orders[o].subtotal
    BY <2>2 DEF Accepted, Checks, Order
  <2>4. \A x \in OrderIds : orders'[x].subtotal = orders[x].subtotal
    BY <2>2, <2>3, SubtotalsStay
  <2>5. ASSUME NEW i \in ItemIds PROVE items'[i] = items[i] \/ SameLine(items'[i], items[i])
    <3>1. items[i] \in Lines
      BY DEF FloorTyped, ItemsPart
    <3>2. CASE i \in LinesOf(o) /\ items[i].status \in PendingStatus
      <4>1. items'[i] = [items[i] EXCEPT !.status = "ACCEPTED"]
        BY <2>1, <3>2 DEF Sent
      <4>2. "ACCEPTED" \in ItemStatus /\ items[i].status # "none" /\ items[i].status \notin DeadStatus /\ "ACCEPTED" \notin DeadStatus
        BY <3>2 DEF ItemStatus, PendingStatus, DeadStatus
      <4>3. /\ items'[i].quantity = items[i].quantity /\ items'[i].line = items[i].line /\ items'[i].price = items[i].price
            /\ items'[i].order = items[i].order /\ items'[i].comp = items[i].comp /\ items'[i].status = "ACCEPTED"
        BY <3>1, <4>1, <4>2, LineMarked
      <4> QED BY <4>2, <4>3 DEF SameLine
    <3>3. CASE ~(i \in LinesOf(o) /\ items[i].status \in PendingStatus)
      BY <2>1, <3>3 DEF Sent
    <3> QED BY <3>2, <3>3
  <2> QED BY <1>2, <2>4, <2>5, BillsUntouched
<1>4. CASE RequestBill(o)
  <2>1. StatusOnly(o, "BILL_REQUESTED") /\ UNCHANGED items
    BY <1>4 DEF RequestBill, StatusOnly, Exists, FollowsKitchen, OrderStatus, FloorTyped, OrdersPart
  <2> QED BY <1>2, <2>1, StatusStays, BillsUntouched
<1> QED BY <1>1, <1>3, <1>4

LEMMA SettlementBills == ASSUME FloorTyped, BillInv, Settlement PROVE BillInv'
<1>1. ApprovalsLast /\ UNCHANGED items
  BY DEF Settlement, LookAround, GiveUp, AddPayment, RefundPayment, ApprovalsLast, rows
<1>2. ASSUME NEW o \in OrderIds, NEW amount \in 1..Remaining(o), AddPayment(o, amount) PROVE BillInv'
  BY <1>1, <1>2, PaymentDoes, StatusStays, BillsUntouched
<1>3. CASE \E p \in PaymentIds : RefundPayment(p)
  BY <1>1, <1>3, BillsUntouched DEF RefundPayment
<1>4. CASE \E o \in OrderIds : LookAround(o) \/ GiveUp(o)
  BY <1>1, <1>4, BillsUntouched DEF LookAround, GiveUp, rows
<1> QED BY <1>2, <1>3, <1>4 DEF Settlement

LEMMA EditingBills == ASSUME FloorTyped, BillInv, Editing PROVE BillInv'
<1>1. PICK i \in ItemIds : \/ Increase(i) \/ Decrease(i) \/ SetComplimentary(i) \/ RemoveComplimentary(i)
                           \/ RemoveUnprinted(i)
  BY DEF Editing
<1>2. CASE Increase(i) \/ Decrease(i) \/ SetComplimentary(i) \/ RemoveComplimentary(i)
  <2>1. PICK j \in ItemIds, r \in Lines, s \in Checks : Edits(i, items[i].order, j, r, s)
    BY <1>2, EditDoes
  <2>2. Priced(items[i]) /\ UNCHANGED approvals
    BY <1>2, EditDoes DEF BillInv
  <2>3. MoneyStep(j, r, items[i].order, s) /\ Priced(r) /\ r.status \notin DeadStatus
    BY <2>1, <2>2 DEF Edits
  <2> QED BY <2>2, <2>3, MoneyBill
<1>3. CASE RemoveUnprinted(i)
  <2>1. PICK r \in Lines, s \in Checks : MoneyStep(i, r, items[i].order, s) /\ r.status = "VOIDED" /\ r.line = 0
    BY <1>3, RemoveDoes
  <2>2. UNCHANGED approvals /\ Priced(r)
    BY <1>3, <2>1 DEF RemoveUnprinted, Priced, DeadStatus
  <2> QED BY <2>1, <2>2, MoneyBill
<1> QED BY <1>1, <1>2, <1>3

LEMMA AskingBills == ASSUME FloorTyped, BillInv, Asking PROVE BillInv'
<1>1. UNCHANGED <<orders, items>>
  BY DEF Asking, RequestCancellation, RequestDiscount, Request
<1>2. PICK a \in FreshApproval : \E x : approvals' = [approvals EXCEPT ![a] = x]
  BY Zenon DEF Asking, RequestCancellation, RequestDiscount, Request
<1>3. a \in ApprovalIds /\ approvals[a].status = "none"
  BY <1>2 DEF FreshApproval, Fresh
<1>4. ApprovalsLast
  BY <1>2, <1>3 DEF ApprovalsLast, FloorTyped, ApprovalsPart
<1> QED BY <1>1, <1>4, BillsUntouched

LEMMA ApprovedThen ==
  ASSUME FloorTyped, NEW a, NEW status, Approves(a, status)
  PROVE  /\ a \in ApprovalIds /\ ApprovalsLast /\ approvals[a].status = "PENDING"
         /\ approvals'[a].status = status /\ approvals'[a].type = approvals[a].type
         /\ approvals'[a].item = approvals[a].item /\ approvals'[a].order = approvals[a].order
<1>1. /\ a \in ApprovalIds /\ approvals[a].status = "PENDING"
      /\ approvals' = [approvals EXCEPT ![a] = [approvals[a] EXCEPT !.status = status]]
  BY DEF Approves, Resolve, Pending
<1>2. approvals'[a] = [approvals[a] EXCEPT !.status = status] /\ approvals[a] \in Approval
      /\ \A b \in ApprovalIds \ {a} : approvals'[b] = approvals[b]
  BY <1>1 DEF FloorTyped, ApprovalsPart
<1>3. ApprovalsLast
  BY <1>1, <1>2 DEF ApprovalsLast
<1> QED BY <1>1, <1>2, <1>3 DEF Approval

LEMMA ClosingBills == ASSUME FloorTyped, BillInv, Closing PROVE BillInv'
<1>1. UNCHANGED <<items, approvals>>
  BY DEF Closing, BeginClose, CommitClose, RepeatClose, rows
<1>2. ApprovalsLast
  BY <1>1 DEF ApprovalsLast
<1>3. \A x \in OrderIds : orders'[x].subtotal = orders[x].subtotal
  <2>1. CASE UNCHANGED orders
    BY <2>1
  <2>2. CASE \E t \in Tables : CommitClose(t)
    <3>1. PICK zero : orders' = [o \in OrderIds |-> IF o \in zero THEN [orders[o] EXCEPT !.status = "PAID"] ELSE orders[o]]
      BY <2>2 DEF CommitClose
    <3>2. \A x \in OrderIds : orders[x] \in Order
      BY OrderRows
    <3> QED BY <3>1, <3>2 DEF Order
  <2> QED BY <2>1, <2>2 DEF Closing, BeginClose, RepeatClose, rows
<1> QED BY <1>1, <1>2, <1>3, BillsUntouched

LEMMA StillBills ==
  ASSUME FloorTyped, BillInv, UNCHANGED <<orders, items, approvals>>
  PROVE  BillInv'
BY BillsUntouched DEF ApprovalsLast

\* A line that is withdrawn, and one that is not.
LEMMA WithdrawnLine ==
  ASSUME FloorTyped, NEW ls, NEW o, ls \subseteq LinesOf(o), o # 0, NEW st \in DeadStatus, items' = Withdrawn(ls, st), NEW i \in ItemIds
  PROVE  /\ i \in ls => /\ items'[i] \in Lines /\ items[i].order = o
                        /\ items'[i].line = items[i].line /\ items'[i].order = o /\ items'[i].status = st
                        /\ items'[i].station = items[i].station
         /\ i \notin ls => items'[i] = items[i]
<1>1. items[i] \in Lines
  BY DEF FloorTyped, ItemsPart
<1>2. CASE i \in ls
  <2>1. items'[i] = [items[i] EXCEPT !.status = st] /\ items[i].order = o /\ st \in ItemStatus
    BY <1>2 DEF Withdrawn, LinesOf, ItemStatus
  <2>2. items[i].status # "none"
    BY <1>1, <2>1, LineFields
  <2>3. items'[i] \in Lines /\ items'[i].line = items[i].line /\ items'[i].order = items[i].order /\ items'[i].status = st
        /\ items'[i].station = items[i].station
    BY <1>1, <2>1, <2>2, LineMarked
  <2> QED BY <1>2, <2>1, <2>3
<1>3. CASE i \notin ls
  BY <1>3 DEF Withdrawn
<1> QED BY <1>2, <1>3

LEMMA VoidBills ==
  ASSUME FloorTyped, BillInv, NEW a \in ApprovalIds, ApproveVoid(a), NEW o, o = approvals[a].order, NEW ls, ls = LiveLines(o)
  PROVE  BillInv'
<1>1. /\ StatusOnly(o, "VOIDED") /\ o # 0 /\ items' = Withdrawn(ls, "VOIDED") /\ Approves(a, "APPROVED")
      /\ ls \subseteq LinesOf(o) /\ "VOIDED" \in DeadStatus
  BY VoidDoes DEF LiveLines, DeadStatus
<1>2. ApprovalsLast /\ approvals'[a].status = "APPROVED" /\ approvals'[a].type = "ORDER_VOID" /\ approvals'[a].order = o
  BY <1>1, ApprovedThen DEF ApproveVoid
<1>3. Revoked(o)'
  BY <1>2 DEF Revoked
<1>4. \A x \in OrderIds : orders'[x].subtotal = orders[x].subtotal
  BY <1>1, StatusStays
<1>5. ASSUME NEW i \in ItemIds PROVE Priced(items[i])' /\ (Dead(i)' => Accounted(i)')
  <2>1. CASE i \in ls
    <3>1. items'[i].status \in DeadStatus /\ items'[i].order = o
      BY <1>1, <2>1, WithdrawnLine
    <3> QED BY <1>3, <3>1 DEF Priced, Accounted
  <2>2. CASE i \notin ls
    <3>1. items'[i] = items[i]
      BY <1>1, <2>2, WithdrawnLine
    <3> QED BY <1>2, <3>1, ApprovedLasts DEF BillInv, Dead
  <2> QED BY <2>1, <2>2
<1>6. ASSUME NEW x \in OrderIds PROVE Billed(x)'
  <2>1. CASE x = o
    BY <1>3, <2>1 DEF Billed
  <2>2. CASE x # o
    <3>1. ASSUME NEW i \in ItemIds PROVE /\ i \in LiveLines(x)' <=> i \in LiveLines(x)
                                         /\ i \in LiveLines(x) => items'[i].line = items[i].line
      <4>1. CASE i \in ls
        <5>1. items'[i].order = o /\ items[i].order = o
          BY <1>1, <4>1, WithdrawnLine
        <5> QED BY <2>2, <5>1 DEF LiveLines, LinesOf
      <4>2. CASE i \notin ls
        <5>1. items'[i] = items[i]
          BY <1>1, <4>2, WithdrawnLine
        <5> QED BY <5>1 DEF LiveLines, LinesOf, Dead
      <4> QED BY <4>1, <4>2
    <3>2. LiveLines(x)' = LiveLines(x) /\ LiveLines(x) \subseteq ItemIds
      <4>1. LiveLines(x)' \subseteq ItemIds /\ LiveLines(x) \subseteq ItemIds
        BY DEF LiveLines, LinesOf
      <4> QED BY <3>1, <4>1
    <3>3. LineTotal(LiveLines(x))' = LineTotal(LiveLines(x))
      BY <3>1, <3>2, BillKept
    <3>4. Drift(x)' = Drift(x)
      BY <1>4, <3>3 DEF Drift
    <3> QED BY <1>2, <3>4, ApprovedLasts DEF BillInv, Billed
  <2> QED BY <2>1, <2>2
<1> QED BY <1>5, <1>6 DEF BillInv

\* The price of one line.
LEMMA OneLineTotal == ASSUME FloorTyped, NEW i \in ItemIds PROVE LineTotal({i}) = items[i].line
<1> DEFINE f == [j \in ItemIds |-> items[j].line]
<1>1. f \in [ItemIds -> Nat] /\ f[i] = items[i].line /\ {i} \in SUBSET ItemIds /\ i \in {i} /\ {i} \ {i} = {}
  BY LinesAreFinite
<1>2. LineTotal({i}) = SumFunctionOnSet(f, {i})
  BY DEF LineTotal
<1>3. SumFunctionOnSet(f, {}) = 0
  BY SumEmpty
<1> HIDE DEF f
<1>4. SumFunctionOnSet(f, {i}) = SumFunctionOnSet(f, {i} \ {i}) + f[i]
  BY <1>1, LineAdds
<1> QED BY <1>1, <1>2, <1>3, <1>4

LEMMA CancelBills ==
  ASSUME FloorTyped, BillInv, NEW a \in ApprovalIds, ApproveItemCancellation(a),
         NEW o, o = approvals[a].order, NEW i, i = approvals[a].item, NEW ls, ls = {i} \cap LinesOf(o)
  PROVE  BillInv'
<1>0. \A x, xs : x = approvals[a].order /\ xs = {approvals[a].item} \cap LinesOf(x) =>
         /\ x \in OrderIds /\ x # 0 /\ Exists(x) /\ Approves(a, "APPROVED") /\ items' = Withdrawn(xs, "CANCELLED")
         /\ \E s \in Checks : /\ orders' = [orders EXCEPT ![x] = s] /\ s.session = orders[x].session
                              /\ s.discount = orders[x].discount
                              /\ s.subtotal = Floored(orders[x].subtotal - LineTotal(xs))
                              /\ s.status = IF LiveLines(x) \subseteq xs THEN "CANCELLED" ELSE orders[x].status
  BY CancelDoes
<1>1. /\ o \in OrderIds /\ o # 0 /\ Exists(o) /\ Approves(a, "APPROVED") /\ items' = Withdrawn(ls, "CANCELLED")
      /\ ls \subseteq LinesOf(o) /\ "CANCELLED" \in DeadStatus
  BY <1>0 DEF DeadStatus
<1>2. PICK s \in Checks : /\ orders' = [orders EXCEPT ![o] = s] /\ s.session = orders[o].session /\ s.discount = orders[o].discount
                          /\ s.subtotal = Floored(orders[o].subtotal - LineTotal(ls))
                          /\ s.status = IF LiveLines(o) \subseteq ls THEN "CANCELLED" ELSE orders[o].status
  BY <1>0
<1>3. /\ ApprovalsLast /\ approvals[a].status = "PENDING"
      /\ approvals'[a].status = "APPROVED" /\ approvals'[a].type = "ITEM_CANCELLATION" /\ approvals'[a].order = o
      /\ approvals'[a].item = i
  BY <1>1, ApprovedThen DEF ApproveItemCancellation
<1>4. Cancelled(a)'
  BY <1>3 DEF Cancelled
<1>5. orders[o].subtotal \in Nat /\ orders[o] \in Checks /\ orders[o].status # "none" /\ s.status # "none"
  BY <1>1, <1>2, OrderRows, CheckFields DEF Exists
<1>8. \A j \in ls : /\ items'[j] \in Lines /\ items[j].order = o
                   /\ items'[j].line = items[j].line /\ items'[j].order = o /\ items'[j].status = "CANCELLED"
                   /\ items'[j].station = items[j].station
  <2> SUFFICES ASSUME NEW j \in ls
               PROVE  /\ items'[j] \in Lines /\ items[j].order = o
                      /\ items'[j].line = items[j].line /\ items'[j].order = o /\ items'[j].status = "CANCELLED"
                      /\ items'[j].station = items[j].station
    OBVIOUS
  <2>1. j \in ItemIds
    BY DEF LinesOf
  <2>2. ls \subseteq LinesOf(o) /\ o # 0 /\ "CANCELLED" \in DeadStatus /\ items' = Withdrawn(ls, "CANCELLED")
    BY <1>1
  <2> QED BY <2>1, <2>2, WithdrawnLine
<1>9. \A j \in ItemIds \ ls : items'[j] = items[j]
  BY <1>1 DEF Withdrawn
<1>6. CASE i \notin LinesOf(o)
  <2>1. ls = {} /\ UNCHANGED items
    <3>1. ls = {}
      BY <1>6
    <3>2. items' = [j \in ItemIds |-> items[j]]
      BY <1>1, <3>1 DEF Withdrawn
    <3> QED BY <3>1, <3>2 DEF FloorTyped, ItemsPart
  <2>2. LineTotal(ls) = 0
    BY <2>1, SumEmpty DEF LineTotal
  <2>3. s.subtotal = orders[o].subtotal
    BY <1>2, <1>5, <2>2 DEF Floored
  <2>4. \A x \in OrderIds : orders'[x].subtotal = orders[x].subtotal
    BY <1>1, <1>2, <2>3, SubtotalsStay
  <2> QED BY <1>3, <2>1, <2>4, BillsUntouched
<1>7. CASE i \in LinesOf(o)
  <2> DEFINE r == items'[i]
  <2>1. i \in ItemIds /\ i \in ls /\ ls = {i}
    BY <1>7 DEF LinesOf
  <2>2. /\ r \in Lines /\ items[i].order = o /\ r.line = items[i].line /\ r.order = o /\ r.status = "CANCELLED"
        /\ r.station = items[i].station
        /\ \A j \in ItemIds \ {i} : items'[j] = items[j]
    <3>1. /\ r \in Lines /\ items[i].order = o /\ r.line = items[i].line /\ r.order = o /\ r.status = "CANCELLED"
          /\ r.station = items[i].station
      BY <1>8, <2>1
    <3>2. \A j \in ItemIds \ {i} : items'[j] = items[j]
      BY <1>9, <2>1
    <3> HIDE DEF r
    <3> QED BY <3>1, <3>2
  <2>3. items' = [items EXCEPT ![i] = r]
    <3>1. items' = [j \in ItemIds |-> items'[j]] /\ items = [j \in ItemIds |-> items[j]]
      BY <1>1 DEF Withdrawn, FloorTyped, ItemsPart
    <3> QED BY <2>1, <2>2, <3>1
  <2>4. RowStep(i, r, o, s)
    <3>1. r.status # "none"
      BY <2>2
    <3> HIDE DEF r
    <3> QED BY <1>1, <1>2, <1>5, <2>1, <2>2, <2>3, <3>1 DEF RowStep
  <2>5. Priced(r)
    BY <1>1, <2>2 DEF Priced
  <2>6. Accounted(i)'
    <3>1. items'[i].order = o
      BY <2>2
    <3> QED BY <1>3, <1>4, <3>1 DEF Accounted
  <2>7. LineTotal(ls) = items[i].line /\ items[i].line \in Nat
    BY <2>1, OneLineTotal, LinesAreFinite
  <2>8. Worth(r) = 0
    BY <1>1, <2>2 DEF Worth
  <2>9. s.subtotal = Floored(orders[o].subtotal + Worth(r) - Worth(items[i])) \/ CancelledAgain(o)' \/ Revoked(o)'
    <3>1. CASE ~Dead(i) \/ items[i].line = 0
      <4>1. Worth(items[i]) = items[i].line
        BY <1>1, <2>2, <3>1 DEF Worth, Dead
      <4>2. orders[o].subtotal + 0 - items[i].line = orders[o].subtotal - items[i].line
        BY <1>5, <2>7
      <4> QED BY <1>2, <2>7, <2>8, <4>1, <4>2
    <3>2. CASE Dead(i) /\ items[i].line # 0
      <4>1. Accounted(i)
        BY <2>1, <3>2 DEF BillInv
      <4>2. CASE Revoked(o)
        BY <1>3, <4>2, ApprovedLasts
      <4>3. CASE \E b \in ApprovalIds : Cancelled(b) /\ approvals[b].item = i /\ approvals[b].order = o
        <5>1. PICK b \in ApprovalIds : Cancelled(b) /\ approvals[b].item = i /\ approvals[b].order = o
          BY <4>3
        <5>2. b # a /\ approvals'[b] = approvals[b]
          BY <1>3, <5>1 DEF Cancelled, ApprovalsLast
        <5>3. Cancelled(b)' /\ approvals'[b].item = i
          BY <5>1, <5>2 DEF Cancelled
        <5> QED BY <1>3, <1>4, <5>2, <5>3 DEF CancelledAgain
      <4> QED BY <2>2, <3>2, <4>1, <4>2, <4>3 DEF Accounted
    <3> QED BY <3>1, <3>2
  <2> HIDE DEF r
  <2> QED BY <1>3, <2>4, <2>5, <2>6, <2>9, BillRow
<1> QED BY <1>6, <1>7

LEMMA ResolvingBills == ASSUME FloorTyped, BillInv, Resolving PROVE BillInv'
<1>1. PICK a \in ApprovalIds : Reject(a) \/ ApproveDiscount(a) \/ ApproveVoid(a) \/ ApproveItemCancellation(a)
  BY DEF Resolving
<1>2. CASE Reject(a)
  <2>1. Approves(a, "REJECTED") /\ UNCHANGED <<orders, items>>
    BY <1>2 DEF Reject, Approves
  <2> QED BY <2>1, ApprovedThen, BillsUntouched
<1>3. CASE ApproveDiscount(a)
  <2>1. Approves(a, "APPROVED") /\ UNCHANGED items /\ approvals[a].order \in OrderIds
    BY <1>3, DiscountDoes
  <2>2. PICK s \in Checks : orders' = [orders EXCEPT ![approvals[a].order] = s] /\ s.subtotal = orders[approvals[a].order].subtotal
    BY <1>3, DiscountDoes
  <2> QED BY <2>1, <2>2, ApprovedThen, SubtotalsStay, BillsUntouched
<1>4. CASE ApproveVoid(a)
  BY <1>4, VoidBills
<1>5. CASE ApproveItemCancellation(a)
  BY <1>5, CancelBills
<1> QED BY <1>1, <1>2, <1>3, <1>4, <1>5

\* The bill is the sum of its lines, for any number of orders, lines, payments and requests
\* and any discounts, in whatever order they are added, changed, given away, removed, paid
\* for, closed and approved, as long as nothing was moved and no station has reported.
THEOREM TotalsAreTheLines == FloorSpec => []TotalsFollowLines
<1> DEFINE Inv == Undisturbed => BillInv
<1>1. FloorInit => Inv
  BY BillInit
<1>2. Inv /\ FloorTyped /\ KitchenInv /\ [FloorNext]_floorVars => Inv'
  <2> SUFFICES ASSUME Inv, FloorTyped, KitchenInv, [FloorNext]_floorVars, Undisturbed' PROVE BillInv'
    OBVIOUS
  <2>1. BillInv /\ CalmNext
    BY UndisturbedBefore
  <2>2. ASSUME NEW k \in TicketIds, NEW status \in TicketStatus, BeginTicket(k, status) PROVE BillInv'
    BY <2>1, <2>2, StillBills DEF BeginTicket, rows
  <2>3. CASE UNCHANGED floorVars
    BY <2>1, <2>3, StillBills DEF floorVars, rows
  <2> QED BY <2>1, <2>2, <2>3, IntakeBills, ServiceBills, SettlementBills, EditingBills, AskingBills, ResolvingBills,
             ClosingBills DEF CalmNext
<1>3. FloorTyped /\ Inv => TotalsFollowLines
  <2> SUFFICES ASSUME FloorTyped, Inv, NEW o \in OrderIds
               PROVE  /\ orders[o] = Recalculated(orders[o])
                      /\ Undisturbed => Drift(o) = 0 \/ CancelledAgain(o) \/ Revoked(o)
    BY DEF TotalsFollowLines
  <2>1. orders[o] \in Order /\ orders[o].total = Floored(orders[o].subtotal - orders[o].discount)
    BY OrderRows, CheckFields
  <2>2. orders[o] = Recalculated(orders[o])
    BY <2>1 DEF Recalculated, Order
  <2> QED BY <2>2 DEF BillInv, Billed
<1> QED BY <1>1, <1>2, <1>3, FloorTypedInductive, KitchenInductive, PTL DEF FloorSpec

-----------------------------------------------------------------------------
(* No phantom guests. *)

\* What a check that is settled, or taken off the bill, can be: a payment that comes later
\* opens it again.
LeftStatus == ClosedStatus \cup {"PAYMENT_PENDING"}

\* The inductive invariant. A command that shows a table as busy must find the check's
\* session open, so no check of a closed session may be one that the kitchen works for; and
\* a closing closes nothing but what it has read.
Unopened == \A s \in SessionIds : sessions[s].status = "none" => ChecksOn(s) = {}
ClosedAreLeft ==
  \A s \in SessionIds : sessions[s].status = "CLOSED" => \A o \in ChecksOn(s) : orders[o].status \in LeftStatus
ClosingIsSettled ==
  \A t \in Tables : closeTx[t] # NoTx =>
    /\ closeTx[t].zero \subseteq ChecksOn(closeTx[t].session)
    /\ \A o \in ChecksOn(closeTx[t].session) \ closeTx[t].zero : orders[o].status \in LeftStatus
GuestsAreSeen ==
  \A t \in Tables : \A s \in OpenSessions(t) \ atOnce : OpenChecks(s) = {} => tables[t] = "CLEANING"
\* A command that has not been overtaken knows of its check that it is the last one.
LooksHold ==
  \A o \in OrderIds : endTx[o] # NoTx =>
    /\ orders[o].session # 0
    /\ ~endTx[o].overtaken /\ LastOpen(o)
       => endTx[o].table = TableOf(o) /\ (TableOf(o) \in Tables => ~endTx[o].vacant)
GuestsInv == Unopened /\ ClosedAreLeft /\ ClosingIsSettled /\ GuestsAreSeen /\ LooksHold

\* TablesInv while no command has come late.
Prompt == TablesInv /\ retries = 0

LEMMA PromptTables ==
  ASSUME Prompt
  PROVE  /\ DOMAIN orders = OrderIds /\ sessions \in [SessionIds -> Session]
         /\ DOMAIN tables = Tables /\ DOMAIN closeTx = Tables
         /\ \A t \in Tables : \A s1, s2 \in OpenSessions(t) : s1 = s2
         /\ \A t \in Tables : tables[t] = "AVAILABLE" => OpenSessions(t) = {}
         /\ \A t \in Tables : closeTx[t] # NoTx => OpenSessions(t) = {closeTx[t].session}
         /\ \A o \in OrderIds : orders[o].session \in SessionIds \cup {0}
BY DEF Prompt, TablesInv, OneOpenSession, OneSession, FreeTableIsFree, ClosingIsAlone, IsCheck

LEMMA GuestsInit == FloorInit => GuestsInv
<1> SUFFICES ASSUME FloorInit PROVE GuestsInv
  OBVIOUS
<1>1. \A s \in SessionIds : sessions[s].status = "none" /\ ChecksOn(s) = {}
  BY DEF FloorInit, NoSession, NoOrder, ChecksOn
<1>2. \A t \in Tables : closeTx[t] = NoTx /\ OpenSessions(t) = {}
  BY <1>1 DEF FloorInit, OpenSessions
<1>3. LooksHold
  BY DEF FloorInit, LooksHold
<1> QED BY <1>1, <1>2, <1>3 DEF GuestsInv, Unopened, ClosedAreLeft, ClosingIsSettled, GuestsAreSeen

\* What a command has read of its check still holds where no check has ended but one that
\* others count as ended too.
LEMMA LooksStay ==
  ASSUME LooksHold,
         \A x \in OrderIds : endTx'[x] # NoTx =>
           /\ endTx[x] # NoTx /\ orders'[x].session = orders[x].session
           /\ ~endTx'[x].overtaken => /\ endTx'[x] = endTx[x]
                                      /\ LastOpen(x)' => LastOpen(x) /\ TableOf(x)' = TableOf(x)
  PROVE  LooksHold'
BY DEF LooksHold

\* One check is rewritten at its session.
CheckGoes(o, s) ==
  /\ o \in OrderIds /\ orders' = [orders EXCEPT ![o] = s] /\ s.session = orders[o].session /\ s.status # "none"
  /\ orders[o].status \in LeftStatus => s.status \in LeftStatus
  /\ UNCHANGED <<sessions, closeTx>>

LEMMA ChecksGo ==
  ASSUME Prompt, GuestsInv, NEW o, NEW s, CheckGoes(o, s)
  PROVE  /\ Unopened' /\ ClosedAreLeft' /\ ClosingIsSettled'
         /\ \A x : ChecksOn(x)' = ChecksOn(x)
         /\ \A x : OpenSessions(x)' = OpenSessions(x)
         /\ orders'[o] = s /\ \A x \in OrderIds \ {o} : orders'[x] = orders[x]
         /\ \A x \in OrderIds : /\ orders'[x].session = orders[x].session
                                /\ OnOpenSession(x)' = OnOpenSession(x) /\ TableOf(x)' = TableOf(x)
<1>1. orders'[o] = s /\ \A x \in OrderIds \ {o} : orders'[x] = orders[x]
  BY PromptTables DEF CheckGoes
<1>2. \A x \in OrderIds : /\ orders'[x].session = orders[x].session
                          /\ orders[x].status \in LeftStatus => orders'[x].status \in LeftStatus
  BY <1>1 DEF CheckGoes
<1>3. \A x : ChecksOn(x)' = ChecksOn(x)
  BY <1>2 DEF ChecksOn
<1>4. \A x : OpenSessions(x)' = OpenSessions(x)
  BY DEF CheckGoes, OpenSessions
<1>5. Unopened'
  BY <1>3 DEF CheckGoes, GuestsInv, Unopened
<1>6. ClosedAreLeft'
  <2> SUFFICES ASSUME NEW y \in SessionIds, sessions'[y].status = "CLOSED", NEW x \in ChecksOn(y)'
               PROVE  orders'[x].status \in LeftStatus
    BY DEF ClosedAreLeft
  <2>1. x \in ChecksOn(y) /\ x \in OrderIds /\ sessions[y].status = "CLOSED"
    BY <1>3 DEF ChecksOn, CheckGoes
  <2> QED BY <1>2, <2>1 DEF GuestsInv, ClosedAreLeft
<1>7. ClosingIsSettled'
  <2>1. ASSUME NEW t \in Tables, closeTx'[t] # NoTx, NEW y, y = closeTx'[t].session, NEW zero, zero = closeTx'[t].zero
        PROVE  zero \subseteq ChecksOn(y)' /\ \A x \in ChecksOn(y)' \ zero : orders'[x].status \in LeftStatus
    <3>1. closeTx'[t] = closeTx[t]
      BY DEF CheckGoes
    <3>2. zero \subseteq ChecksOn(y) /\ \A x \in ChecksOn(y) \ zero : orders[x].status \in LeftStatus
      BY <2>1, <3>1 DEF GuestsInv, ClosingIsSettled
    <3>3. \A x \in ChecksOn(y) : x \in OrderIds
      BY DEF ChecksOn
    <3> QED BY <1>2, <1>3, <3>2, <3>3
  <2>2. \A t \in Tables : closeTx'[t] # NoTx =>
          /\ closeTx'[t].zero \subseteq ChecksOn(closeTx[t].session)'
          /\ \A x \in ChecksOn(closeTx[t].session)' \ closeTx'[t].zero : orders'[x].status \in LeftStatus
    BY <2>1
  <2> QED BY <2>2 DEF ClosingIsSettled
<1>8. \A x \in OrderIds : /\ orders'[x].session = orders[x].session
                          /\ OnOpenSession(x)' = OnOpenSession(x) /\ TableOf(x)' = TableOf(x)
  BY <1>2 DEF CheckGoes, OnOpenSession, TableOf
<1> QED BY <1>1, <1>3, <1>4, <1>5, <1>6, <1>7, <1>8

\* If no check of any session ends, what was read holds.
LEMMA NoneEnds ==
  ASSUME Prompt, GuestsInv, NEW o, NEW s, CheckGoes(o, s), UNCHANGED endTx,
         \A y : OpenChecks(y) \subseteq OpenChecks(y)'
  PROVE  LooksHold'
<1>1. \A x \in OrderIds : /\ orders'[x].session = orders[x].session
                          /\ OnOpenSession(x)' = OnOpenSession(x) /\ TableOf(x)' = TableOf(x)
  BY ChecksGo
<1>2. ASSUME NEW x \in OrderIds, LastOpen(x)' PROVE LastOpen(x)
  <2>1. OpenChecks(orders[x].session)' \subseteq {x}
    BY <1>1, <1>2 DEF LastOpen
  <2> QED BY <1>1, <1>2, <2>1 DEF LastOpen
<1> QED BY <1>1, <1>2, LooksStay DEF GuestsInv

\* A check that stays open, shown or not; one that keeps its status; and one that is done with.
LEMMA OpenCheckGoes ==
  ASSUME Prompt, GuestsInv, NEW o, NEW s, CheckGoes(o, s), s.status \notin ClosedStatus,
         \/ tables' = tables
         \/ (OnOpenSession(o) \/ orders[o].session = 0) /\ (\E x : tables' = Shown(TableOf(o), x)),
         UNCHANGED endings
  PROVE  GuestsInv'
<1>1. /\ Unopened' /\ ClosedAreLeft' /\ ClosingIsSettled'
      /\ \A x : ChecksOn(x)' = ChecksOn(x)
      /\ \A x : OpenSessions(x)' = OpenSessions(x)
      /\ orders'[o] = s /\ \A x \in OrderIds \ {o} : orders'[x] = orders[x]
  BY ChecksGo
<1>3. UNCHANGED <<endTx, atOnce>>
  BY DEF endings
<1>2. ASSUME NEW t \in Tables, NEW y \in OpenSessions(t)' \ atOnce', OpenChecks(y)' = {}
      PROVE  tables'[t] = "CLEANING"
  <2>1. y \in OpenSessions(t) /\ y \in SessionIds /\ y # 0 /\ sessions[y].table = t /\ sessions[y].status = "OPEN"
    BY <1>1 DEF OpenSessions, SessionIds
  <2>2. y # orders[o].session
    <3>1. orders'[o].status \notin ClosedStatus \cup {"none"} /\ orders'[o].session = orders[o].session /\ o \in OrderIds
      BY <1>1 DEF CheckGoes
    <3>2. y = orders[o].session => o \in OpenChecks(y)'
      BY <2>1, <3>1 DEF OpenChecks, ChecksOn, IsOpen, Exists
    <3> QED BY <1>2, <3>2
  <2>3. OpenChecks(y) \subseteq OpenChecks(y)'
    <3>1. \A x \in ChecksOn(y) : x \in OrderIds \ {o} /\ x \in ChecksOn(y)'
      BY <1>1, <2>2 DEF ChecksOn
    <3> QED BY <1>1, <3>1 DEF OpenChecks, IsOpen, Exists
  <2>4. tables[t] = "CLEANING"
    BY <1>2, <1>3, <2>1, <2>3 DEF GuestsInv, GuestsAreSeen
  <2>5. tables' = tables \/ TableOf(o) # t
    <3>1. CASE orders[o].session = 0
      BY <3>1, TableAssumption DEF TableOf, Shown
    <3>2. CASE OnOpenSession(o) /\ TableOf(o) = t
      <4>1. orders[o].session \in OpenSessions(t)
        BY <3>2, PromptTables DEF OnOpenSession, TableOf, OpenSessions, CheckGoes
      <4> QED BY <2>1, <2>2, <4>1, PromptTables
    <3> QED BY <3>1, <3>2
  <2>6. \A x : TableOf(o) # t => Shown(TableOf(o), x)[t] = tables[t]
    BY PromptTables DEF Shown
  <2> QED BY <2>4, <2>5, <2>6
<1>4. LooksHold'
  <2>1. \A x \in OrderIds : x # o => orders'[x] = orders[x]
    BY <1>1
  <2>2. orders'[o].status \notin ClosedStatus \cup {"none"}
    BY <1>1 DEF CheckGoes
  <2>3. \A y : OpenChecks(y) \subseteq OpenChecks(y)'
    BY <1>1, <2>1, <2>2 DEF OpenChecks, ChecksOn, IsOpen, Exists
  <2> QED BY <1>3, <2>3, NoneEnds
<1> QED BY <1>1, <1>2, <1>4 DEF GuestsInv, GuestsAreSeen

LEMMA SameCheckGoes ==
  ASSUME Prompt, GuestsInv, NEW o, NEW s, CheckGoes(o, s), s.status = orders[o].status,
         UNCHANGED <<tables, endings>>
  PROVE  GuestsInv'
<1>1. /\ Unopened' /\ ClosedAreLeft' /\ ClosingIsSettled'
      /\ \A x : ChecksOn(x)' = ChecksOn(x)
      /\ \A x : OpenSessions(x)' = OpenSessions(x)
      /\ orders'[o] = s /\ \A x \in OrderIds \ {o} : orders'[x] = orders[x]
  BY ChecksGo
<1>2. \A x \in OrderIds : orders'[x].status = orders[x].status
  BY <1>1
<1>3. \A y : OpenChecks(y)' = OpenChecks(y)
  <2>1. \A y : \A x \in ChecksOn(y) : x \in OrderIds
    BY DEF ChecksOn
  <2> QED BY <1>1, <1>2, <2>1 DEF OpenChecks, IsOpen, Exists
<1>4. UNCHANGED <<endTx, atOnce>>
  BY DEF endings
<1>5. LooksHold'
  BY <1>3, <1>4, NoneEnds
<1> QED BY <1>1, <1>3, <1>4, <1>5 DEF GuestsInv, GuestsAreSeen

\* What the end of a check does to what the commands in flight have read.
LEMMA EndingDoes ==
  ASSUME NEW o \in OrderIds, Ending(o, TRUE), NEW y, y = orders[o].session
  PROVE  /\ atOnce \subseteq atOnce'
         /\ \A x \in OrderIds : endTx'[x] # NoTx =>
              /\ endTx[x] # NoTx
              /\ ~endTx'[x].overtaken => endTx'[x] = endTx[x] /\ (y # 0 => x # o /\ x \notin ChecksOn(y))
         /\ y # 0 => endTx[o] # NoTx /\ (endTx[o].overtaken => y \in atOnce')
<1>1. CASE y = 0
  BY <1>1 DEF Ending, endings
<1>2. CASE y # 0
  <2>1. /\ endTx[o] # NoTx
        /\ endTx' = [p \in OrderIds |->
                       IF p = o THEN NoTx
                       ELSE IF p \in ChecksOn(y) /\ endTx[p] # NoTx
                       THEN [endTx[p] EXCEPT !.overtaken = TRUE]
                       ELSE endTx[p]]
        /\ atOnce' = IF endTx[o].overtaken THEN atOnce \cup {y} ELSE atOnce
    BY <1>2 DEF Ending
  <2> QED BY <1>2, <2>1
<1> QED BY <1>1, <1>2

LEMMA Ended ==
  ASSUME NEW o, NEW ends, Ending(o, ends)
  PROVE  (ends => Ending(o, TRUE)) /\ (~ends => UNCHANGED endings)
BY DEF Ending

LEMMA LastCheckGoes ==
  ASSUME Prompt, GuestsInv, FloorTyped, NEW o, NEW s, CheckGoes(o, s), s.status \in ClosedStatus, Ending(o, TRUE),
         tables' = Shown(Seen(o).table, "CLEANING") \/ tables' = Released(o)
  PROVE  GuestsInv'
<1>1. /\ Unopened' /\ ClosedAreLeft' /\ ClosingIsSettled'
      /\ \A x : ChecksOn(x)' = ChecksOn(x)
      /\ \A x : OpenSessions(x)' = OpenSessions(x)
      /\ orders'[o] = s /\ \A x \in OrderIds \ {o} : orders'[x] = orders[x]
      /\ \A x \in OrderIds : /\ orders'[x].session = orders[x].session
                             /\ OnOpenSession(x)' = OnOpenSession(x) /\ TableOf(x)' = TableOf(x)
  BY ChecksGo
<1>3. o \in OrderIds
  BY DEF CheckGoes
<1>4. /\ atOnce \subseteq atOnce'
      /\ \A x \in OrderIds : endTx'[x] # NoTx =>
           /\ endTx[x] # NoTx
           /\ ~endTx'[x].overtaken =>
                endTx'[x] = endTx[x] /\ (orders[o].session # 0 => x # o /\ x \notin ChecksOn(orders[o].session))
      /\ orders[o].session # 0 => endTx[o] # NoTx /\ (endTx[o].overtaken => orders[o].session \in atOnce')
  BY <1>3, EndingDoes
<1>5. \E x : tables' = Shown(x, "CLEANING")
  BY DEF Released
<1>2. ASSUME NEW t \in Tables, NEW y \in OpenSessions(t)' \ atOnce', OpenChecks(y)' = {}
      PROVE  tables'[t] = "CLEANING"
  <2>1. y \in OpenSessions(t) /\ y \in SessionIds /\ y # 0 /\ sessions[y].table = t /\ sessions[y].status = "OPEN"
    BY <1>1 DEF OpenSessions, SessionIds
  <2>2. OpenChecks(y) \subseteq {o}
    <3>1. \A x \in ChecksOn(y) : x \in OrderIds /\ x \in ChecksOn(y)'
      BY <1>1 DEF ChecksOn
    <3>2. \A x \in OpenChecks(y) : x # o => x \in OpenChecks(y)'
      BY <1>1, <3>1 DEF OpenChecks, IsOpen, Exists
    <3> QED BY <1>2, <3>2
  <2>3. CASE OpenChecks(y) = {}
    <3>1. tables[t] = "CLEANING"
      BY <1>2, <1>4, <2>1, <2>3 DEF GuestsInv, GuestsAreSeen
    <3> QED BY <1>5, <3>1, PromptTables DEF Shown
  <2>4. CASE o \in OpenChecks(y)
    <3>1. orders[o].session = y
      BY <2>4 DEF OpenChecks, ChecksOn
    <3>2. OnOpenSession(o) /\ TableOf(o) = t
      BY <2>1, <3>1 DEF OnOpenSession, TableOf
    <3>3. LastOpen(o)
      BY <2>2, <3>1, <3>2 DEF LastOpen
    <3>4. endTx[o] # NoTx /\ ~endTx[o].overtaken
      BY <1>2, <1>4, <2>1, <3>1
    <3>5. endTx[o].table = t /\ ~endTx[o].vacant
      BY <1>3, <3>2, <3>3, <3>4 DEF GuestsInv, LooksHold
    <3>6. Seen(o) = endTx[o]
      BY <2>1, <3>1 DEF Seen
    <3>7. tables' = Shown(t, "CLEANING")
      BY <3>5, <3>6 DEF Released, ToRelease
    <3> QED BY <3>7, PromptTables DEF Shown
  <2> QED BY <2>2, <2>3, <2>4
<1>6. LooksHold'
  <2>1. ASSUME NEW x \in OrderIds, endTx'[x] # NoTx, ~endTx'[x].overtaken, LastOpen(x)' PROVE LastOpen(x)
    <3> DEFINE y == orders[x].session
    <3>0. orders'[x].session = y /\ ChecksOn(y)' = ChecksOn(y)
      BY <1>1
    <3>1. /\ OnOpenSession(x)' /\ OnOpenSession(x) /\ y # 0
          /\ OpenChecks(y)' \subseteq {x} /\ ChecksOn(y)' = ChecksOn(y)
      <4>1. LastOpen(x)' <=> OnOpenSession(x)' /\ OpenChecks(orders[x].session)' \subseteq {x}
        BY <3>0 DEF LastOpen
      <4>2. OnOpenSession(x)' = OnOpenSession(x)
        BY <1>1
      <4> QED BY <2>1, <3>0, <4>1, <4>2 DEF OnOpenSession
    <3>2. o \notin ChecksOn(y)
      <4>1. x \in ChecksOn(y)
        BY <3>1 DEF ChecksOn
      <4> QED BY <1>4, <2>1, <3>1, <4>1 DEF ChecksOn
    <3>3. OpenChecks(y) \subseteq OpenChecks(y)'
      <4>1. \A z \in ChecksOn(y) : z \in OrderIds \ {o}
        BY <3>2 DEF ChecksOn
      <4> QED BY <1>1, <3>1, <4>1 DEF OpenChecks, IsOpen, Exists
    <3> QED BY <3>1, <3>3 DEF LastOpen
  <2> QED BY <1>1, <1>4, <2>1, LooksStay DEF GuestsInv
<1> QED BY <1>1, <1>2, <1>6 DEF GuestsInv, GuestsAreSeen

LEMMA NoCheckGoes ==
  ASSUME GuestsInv, UNCHANGED <<orders, sessions, tables, closeTx>>
  PROVE  /\ Unopened' /\ ClosedAreLeft' /\ ClosingIsSettled'
         /\ UNCHANGED atOnce => GuestsAreSeen'
         /\ \A x : LastOpen(x)' = LastOpen(x) /\ TableOf(x)' = TableOf(x)
         /\ UNCHANGED endings => LooksHold' /\ GuestsInv'
<1>1. /\ Unopened' /\ ClosedAreLeft' /\ ClosingIsSettled'
      /\ UNCHANGED atOnce => GuestsAreSeen'
  BY DEF GuestsInv, Unopened, ClosedAreLeft, ClosingIsSettled, GuestsAreSeen, ChecksOn, OpenChecks, OpenSessions,
         IsOpen, Exists
<1>2. \A x : LastOpen(x)' = LastOpen(x) /\ TableOf(x)' = TableOf(x)
  BY DEF LastOpen, TableOf, OnOpenSession, ChecksOn, OpenChecks, IsOpen, Exists
<1>3. UNCHANGED endings => LooksHold'
  BY <1>2, LooksStay DEF GuestsInv, endings
<1> QED BY <1>1, <1>2, <1>3 DEF GuestsInv, endings

\* A command looks around, or gives up.
LEMMA LooksSeen ==
  ASSUME Prompt, GuestsInv, EndingsTyped, NEW o \in OrderIds, LookAround(o) \/ GiveUp(o)
  PROVE  GuestsInv'
<1>1. UNCHANGED <<orders, sessions, tables, closeTx, atOnce>>
  BY DEF LookAround, GiveUp, rows
<1>2. \A x \in OrderIds \ {o} : endTx'[x] = endTx[x]
  BY DEF LookAround, GiveUp, EndingsTyped
<1>3. endTx'[o] = NoTx \/ endTx'[o] = Look(o)
  BY DEF LookAround, GiveUp, EndingsTyped
<1>4. \A x : LastOpen(x)' = LastOpen(x) /\ TableOf(x)' = TableOf(x)
  BY <1>1, NoCheckGoes
<1>5. LastOpen(o) => Look(o).table = TableOf(o) /\ (TableOf(o) \in Tables => ~Look(o).vacant)
  <2> SUFFICES ASSUME LastOpen(o) PROVE Look(o).table = TableOf(o) /\ (TableOf(o) \in Tables => ~Look(o).vacant)
    OBVIOUS
  <2> DEFINE y == orders[o].session
  <2>1. y \in SessionIds /\ sessions[y].status = "OPEN" /\ TableOf(o) = sessions[y].table
    BY PromptTables DEF LastOpen, OnOpenSession, TableOf
  <2>2. TableOf(o) \in Tables => y \in OpenSessions(TableOf(o))
    BY <2>1 DEF OpenSessions
  <2>3. TableOf(o) \in Tables => tables[TableOf(o)] # "AVAILABLE"
    BY <2>2, PromptTables
  <2> QED BY <2>3 DEF Look
<1>6. endTx'[o] # NoTx => orders[o].session # 0
  BY <1>3 DEF LookAround, GiveUp, EndingsTyped
<1>7. LooksHold'
  BY <1>1, <1>2, <1>3, <1>4, <1>5, <1>6 DEF GuestsInv, LooksHold
<1> QED BY <1>1, <1>7, NoCheckGoes DEF GuestsInv

\* A check that the kitchen works for is at an open session, or at none.
LEMMA ServedAtTable ==
  ASSUME Prompt, GuestsInv, NEW o \in OrderIds, orders[o].status \notin LeftStatus
  PROVE  OnOpenSession(o) \/ orders[o].session = 0
<1>1. CASE orders[o].session \in SessionIds
  <2> DEFINE y == orders[o].session
  <2>1. o \in ChecksOn(y) /\ sessions[y] \in Session /\ y # 0
    BY <1>1, PromptTables DEF ChecksOn, SessionIds
  <2>2. sessions[y].status # "none" /\ sessions[y].status # "CLOSED"
    BY <1>1, <2>1 DEF GuestsInv, Unopened, ClosedAreLeft
  <2> QED BY <2>1, <2>2 DEF OnOpenSession, Session
<1> QED BY <1>1, PromptTables

LEMMA AppendSeen ==
  ASSUME Prompt, GuestsInv, FloorTyped, NEW o \in OrderIds, NEW m \in Menu, NEW q \in Quantities, NEW auto \in BOOLEAN,
         Append(o, m, q, auto)
  PROVE  GuestsInv'
<1>1. PICK i \in FreshItem, s \in Checks :
        /\ MoneyStep(i, NewRow(o, m, q, auto), o, s)
        /\ s.session = orders[o].session /\ s.status \in OrderStatus \ ClosedStatus
  BY AppendDoes
<1>2. orders[o].status \notin LeftStatus
  BY DEF Append, LeftStatus, ClosedStatus, FollowsKitchen
<1>3. CheckGoes(o, s)
  BY <1>1, <1>2 DEF CheckGoes, MoneyStep, RowStep, Append
<1>4. (\E x : tables' = Shown(TableOf(o), x)) /\ UNCHANGED endings
  BY AppendDoes DEF Append
<1> QED BY <1>1, <1>2, <1>3, <1>4, ServedAtTable, OpenCheckGoes

LEMMA ServiceSeen == ASSUME Prompt, GuestsInv, FloorTyped, Service PROVE GuestsInv'
<1>1. PICK o \in OrderIds : AcceptOrder(o) \/ RequestBill(o)
  BY DEF Service
<1>2. orders[o].status \notin LeftStatus
  BY <1>1 DEF AcceptOrder, RequestBill, LeftStatus, ClosedStatus, FollowsKitchen
<1>3. CASE AcceptOrder(o)
  <2> DEFINE s == Accepted(orders[o])
  <2>1. orders' = [orders EXCEPT ![o] = s] /\ tables' = Shown(TableOf(o), "PREPARING") /\ UNCHANGED <<sessions, closeTx, endings>>
    BY <1>3 DEF AcceptOrder
  <2>2. s.session = orders[o].session /\ s.status \in OrderStatus \ ClosedStatus /\ s.status # "none"
    BY OrderRows, AcceptedCheck
  <2> HIDE DEF s
  <2>3. CheckGoes(o, s)
    BY <1>2, <2>1, <2>2 DEF CheckGoes
  <2>4. s.status \notin ClosedStatus /\ (\E x : tables' = Shown(TableOf(o), x)) /\ UNCHANGED endings
    BY <2>1, <2>2
  <2> QED BY <1>2, <2>3, <2>4, ServedAtTable, OpenCheckGoes
<1>4. CASE RequestBill(o)
  <2> DEFINE s == [orders[o] EXCEPT !.status = "BILL_REQUESTED"]
  <2>1. orders' = [orders EXCEPT ![o] = s] /\ tables' = Shown(TableOf(o), "BILL_REQUESTED") /\ UNCHANGED <<sessions, closeTx, endings>>
    BY <1>4 DEF RequestBill
  <2>2. s.session = orders[o].session /\ s.status = "BILL_REQUESTED"
    BY OrderRows DEF Order
  <2> HIDE DEF s
  <2>3. CheckGoes(o, s)
    BY <1>2, <2>1, <2>2 DEF CheckGoes
  <2>4. s.status \notin ClosedStatus /\ (\E x : tables' = Shown(TableOf(o), x)) /\ UNCHANGED endings
    BY <2>1, <2>2 DEF ClosedStatus
  <2> QED BY <1>2, <2>3, <2>4, ServedAtTable, OpenCheckGoes
<1> QED BY <1>1, <1>3, <1>4

LEMMA SettlementSeen == ASSUME Prompt, GuestsInv, FloorTyped, EndingsTyped, Settlement PROVE GuestsInv'
<1>1. ASSUME NEW o \in OrderIds, NEW amount \in 1..Remaining(o), AddPayment(o, amount) PROVE GuestsInv'
  <2> DEFINE s == [orders[o] EXCEPT !.status = IF Settles(o, amount) THEN "PAID" ELSE "PAYMENT_PENDING"]
  <2>1. orders' = [orders EXCEPT ![o] = s] /\ UNCHANGED <<sessions, closeTx>>
    BY <1>1 DEF AddPayment
  <2>2. s.session = orders[o].session /\ s.status = IF Settles(o, amount) THEN "PAID" ELSE "PAYMENT_PENDING"
    BY OrderRows DEF Order
  <2> HIDE DEF s
  <2>3. CheckGoes(o, s)
    BY <2>1, <2>2 DEF CheckGoes, LeftStatus, ClosedStatus
  <2>4. CASE Settles(o, amount)
    <3>1. tables' = Shown(Seen(o).table, "CLEANING")
      BY <1>1, <2>4 DEF AddPayment
    <3>2. s.status \in ClosedStatus
      BY <2>2, <2>4 DEF ClosedStatus
    <3>3. Ending(o, TRUE)
      BY <1>1, <2>4 DEF AddPayment, Ending
    <3> QED BY <2>3, <3>1, <3>2, <3>3, LastCheckGoes
  <2>5. CASE ~Settles(o, amount)
    <3>1. tables' = tables \/ (OnOpenSession(o) /\ tables' = Shown(TableOf(o), "PAYMENT_PENDING"))
      <4>1. CASE OnOpenSession(o)
        BY <1>1, <2>5, <4>1 DEF AddPayment
      <4>2. CASE ~OnOpenSession(o)
        BY <1>1, <2>5, <4>2 DEF AddPayment
      <4> QED BY <4>1, <4>2
    <3>2. s.status \notin ClosedStatus
      BY <2>2, <2>5 DEF ClosedStatus
    <3>3. UNCHANGED endings
      BY <1>1, <2>5 DEF AddPayment, Ending
    <3> QED BY <2>3, <3>1, <3>2, <3>3, OpenCheckGoes
  <2> QED BY <2>4, <2>5
<1>2. ASSUME NEW p \in PaymentIds, RefundPayment(p) PROVE GuestsInv'
  BY <1>2, NoCheckGoes DEF RefundPayment
<1> QED BY <1>1, <1>2, LooksSeen DEF Settlement

\* An edit that is no addition leaves a check that waits for its payment waiting.
LEMMA EditKeepsLeft ==
  ASSUME FloorTyped, NEW i \in ItemIds, Increase(i) \/ Decrease(i) \/ SetComplimentary(i) \/ RemoveComplimentary(i),
         NEW o, o = items[i].order, o \in OrderIds, orders[o].status = "PAYMENT_PENDING"
  PROVE  orders'[o].status = "PAYMENT_PENDING"
<1> DEFINE Waits(r) == r.status = "PAYMENT_PENDING"
<1>1. \A r \in Order : \A n : Waits(r) => Waits(Charged(r, n)) /\ Waits(Relieved(r, n)) /\ Waits(Recalculated(r))
  BY DEF Charged, Relieved, Recalculated, Order
<1>2. orders[o] \in Order /\ Reopened(orders[o]) = orders[o] /\ Waits(orders[o])
  BY OrderRows DEF Reopened, Order
<1> HIDE DEF Waits
<1>3. \E s : orders' = [orders EXCEPT ![o] = s] /\ Waits(s)
  <2>1. CASE Increase(i)
    <3>1. \E n : orders' = [orders EXCEPT ![o] = Charged(Reopened(orders[o]), n)]
      BY <2>1 DEF Increase
    <3> QED BY <1>1, <1>2, <3>1
  <2>2. CASE Decrease(i)
    <3>1. \E n : orders' = [orders EXCEPT ![o] = Recalculated(orders[o])]
                 \/ orders' = [orders EXCEPT ![o] = Relieved(orders[o], n)]
      BY <2>2 DEF Decrease
    <3> QED BY <1>1, <1>2, <3>1
  <2>3. CASE SetComplimentary(i)
    <3>1. \E n : orders' = [orders EXCEPT ![o] = Relieved(orders[o], n)]
      BY <2>3 DEF SetComplimentary
    <3> QED BY <1>1, <1>2, <3>1
  <2>4. CASE RemoveComplimentary(i)
    <3>1. \E n : orders' = [orders EXCEPT ![o] = Charged(orders[o], n)]
      BY <2>4 DEF RemoveComplimentary
    <3> QED BY <1>1, <1>2, <3>1
  <2> QED BY <2>1, <2>2, <2>3, <2>4
<1> QED BY <1>3 DEF FloorTyped, OrdersPart, Waits

LEMMA EditingSeen == ASSUME Prompt, GuestsInv, FloorTyped, Editing PROVE GuestsInv'
<1>1. PICK i \in ItemIds : \/ Increase(i) \/ Decrease(i) \/ SetComplimentary(i) \/ RemoveComplimentary(i)
                           \/ RemoveUnprinted(i)
  BY DEF Editing
<1>2. CASE Increase(i) \/ Decrease(i) \/ SetComplimentary(i) \/ RemoveComplimentary(i)
  <2> DEFINE o == items[i].order
  <2>1. PICK j \in ItemIds, r \in Lines, s \in Checks : Edits(i, o, j, r, s)
    BY <1>2, EditDoes
  <2>2. UNCHANGED <<sessions, tables, closeTx, endings>> /\ Editable(i)
    BY <1>2, EditDoes
  <2>3. /\ o \in OrderIds /\ orders' = [orders EXCEPT ![o] = s] /\ s.session = orders[o].session /\ s.status # "none"
        /\ s.status \notin ClosedStatus
    BY <2>1 DEF Edits, RowStep
  <2>4. orders[o].status \in LeftStatus => orders[o].status = "PAYMENT_PENDING"
    BY <2>2 DEF Editable, IsOpen, LeftStatus
  <2>5. orders'[o] = s
    BY <2>3 DEF FloorTyped, OrdersPart
  <2> HIDE DEF o
  <2>6. orders[o].status = "PAYMENT_PENDING" => s.status = "PAYMENT_PENDING"
    BY <1>2, <2>3, <2>5, EditKeepsLeft DEF o
  <2>7. CheckGoes(o, s)
    BY <2>2, <2>3, <2>4, <2>6 DEF CheckGoes, LeftStatus
  <2>8. tables' = tables /\ s.status \notin ClosedStatus /\ UNCHANGED endings
    BY <2>2, <2>3
  <2> QED BY <2>7, <2>8, OpenCheckGoes
<1>3. CASE RemoveUnprinted(i)
  <2> DEFINE o == items[i].order
             empty == LiveLines(o) \subseteq {i}
  <2>1. PICK r \in Lines, s \in Checks :
              /\ MoneyStep(i, r, o, s)
              /\ s.session = orders[o].session
              /\ s.status = IF empty THEN "VOIDED" ELSE orders[o].status
    BY <1>3, RemoveDoes
  <2>2. /\ o \in OrderIds /\ orders' = [orders EXCEPT ![o] = s] /\ s.status # "none"
        /\ UNCHANGED <<sessions, closeTx>>
    BY <1>3, <2>1 DEF MoneyStep, RowStep, RemoveUnprinted
  <2>3. tables' = (IF empty THEN Released(o) ELSE tables) /\ Ending(o, empty)
    BY <1>3 DEF RemoveUnprinted
  <2> HIDE DEF o, empty
  <2>4. CheckGoes(o, s)
    BY <2>1, <2>2 DEF CheckGoes, LeftStatus, ClosedStatus
  <2>5. CASE empty
    BY <2>1, <2>3, <2>4, <2>5, Ended, LastCheckGoes DEF ClosedStatus
  <2>6. CASE ~empty
    <3>1. s.status = orders[o].status /\ UNCHANGED <<tables, endings>>
      <4>1. UNCHANGED endings
        BY <2>3, <2>6 DEF Ending
      <4> QED BY <2>1, <2>3, <2>6, <4>1
    <3> QED BY <2>4, <3>1, SameCheckGoes
  <2> QED BY <2>5, <2>6
<1> QED BY <1>1, <1>2, <1>3

LEMMA ResolvingSeen == ASSUME Prompt, GuestsInv, FloorTyped, Resolving PROVE GuestsInv'
<1>1. PICK a \in ApprovalIds : Reject(a) \/ ApproveDiscount(a) \/ ApproveVoid(a) \/ ApproveItemCancellation(a)
  BY DEF Resolving
<1>2. CASE Reject(a)
  BY <1>2, NoCheckGoes DEF Reject
<1>3. ASSUME NEW o, o = approvals[a].order, ApproveDiscount(a) PROVE GuestsInv'
  <2>1. PICK s \in Checks : /\ orders' = [orders EXCEPT ![o] = s] /\ s.status = orders[o].status /\ s.session = orders[o].session
    BY <1>3, DiscountDoes
  <2>2. o \in OrderIds /\ Exists(o) /\ UNCHANGED <<sessions, closeTx, tables>>
    BY <1>3, DiscountDoes DEF Approves
  <2>4. UNCHANGED endings
    BY <1>3 DEF ApproveDiscount
  <2>3. CheckGoes(o, s)
    BY <2>1, <2>2 DEF CheckGoes, Exists
  <2> QED BY <2>1, <2>2, <2>3, <2>4, SameCheckGoes
<1>4. ASSUME NEW o, o = approvals[a].order, ApproveVoid(a) PROVE GuestsInv'
  <2> DEFINE s == [orders[o] EXCEPT !.status = "VOIDED"]
  <2>1. o \in OrderIds /\ orders' = [orders EXCEPT ![o] = s] /\ tables' = Released(o) /\ UNCHANGED <<sessions, closeTx>>
    BY <1>4, VoidDoes DEF StatusOnly, Approves
  <2>2. s.session = orders[o].session /\ s.status = "VOIDED"
    BY <2>1, OrderRows DEF Order
  <2> HIDE DEF s
  <2>3. CheckGoes(o, s)
    BY <2>1, <2>2 DEF CheckGoes, LeftStatus, ClosedStatus
  <2>4. Ending(o, TRUE)
    BY <1>4 DEF ApproveVoid
  <2> QED BY <2>1, <2>2, <2>3, <2>4, LastCheckGoes DEF ClosedStatus
<1>6. ASSUME ApproveItemCancellation(a)
      PROVE  \A x, xs : x = approvals[a].order /\ xs = {approvals[a].item} \cap LinesOf(x) =>
          /\ x \in OrderIds /\ Exists(x) /\ Approves(a, "APPROVED")
          /\ \E s \in Checks : /\ orders' = [orders EXCEPT ![x] = s] /\ s.session = orders[x].session
                               /\ s.status = IF LiveLines(x) \subseteq xs THEN "CANCELLED" ELSE orders[x].status
          /\ tables' = IF LiveLines(x) \subseteq xs THEN Released(x) ELSE tables
  BY <1>6, CancelDoes, SMTT(60)
<1>5. ASSUME NEW o, o = approvals[a].order, NEW ls, ls = {approvals[a].item} \cap LinesOf(o), ApproveItemCancellation(a)
      PROVE  GuestsInv'
  <2> DEFINE last == LiveLines(o) \subseteq ls
  <2>1. PICK s \in Checks : /\ orders' = [orders EXCEPT ![o] = s] /\ s.session = orders[o].session
                            /\ s.status = IF last THEN "CANCELLED" ELSE orders[o].status
    BY <1>5, <1>6
  <2>2. o \in OrderIds /\ Exists(o) /\ UNCHANGED <<sessions, closeTx>>
    BY <1>5, <1>6 DEF Approves
  <2>3. tables' = IF last THEN Released(o) ELSE tables
    BY <1>5, <1>6
  <2>7. Ending(o, last)
    BY <1>5 DEF ApproveItemCancellation
  <2> HIDE DEF last
  <2>4. CheckGoes(o, s)
    BY <2>1, <2>2 DEF CheckGoes, LeftStatus, ClosedStatus, Exists
  <2>5. CASE last
    BY <2>1, <2>3, <2>4, <2>5, <2>7, Ended, LastCheckGoes DEF ClosedStatus
  <2>6. CASE ~last
    <3>1. s.status = orders[o].status /\ UNCHANGED <<tables, endings>>
      <4>1. UNCHANGED endings
        BY <2>6, <2>7 DEF Ending
      <4> QED BY <2>1, <2>3, <2>6, <4>1
    <3> QED BY <2>4, <3>1, SameCheckGoes
  <2> QED BY <2>5, <2>6
<1> QED BY <1>1, <1>2, <1>3, <1>4, <1>5

\* A new check at a session, or at none.
LEMMA NewCheckSeen ==
  ASSUME FloorTyped, NEW t, NEW ss \in SessionIds \cup {0}, NEW m \in Menu, NEW q \in Quantities, NEW auto \in BOOLEAN,
         Open(t, ss, m, q, auto)
  PROVE  \E o \in OrderIds : /\ orders'[o].session = ss /\ orders'[o].status \notin ClosedStatus \cup {"none"}
                             /\ orders[o].session = 0
                             /\ \A x \in OrderIds \ {o} : orders'[x] = orders[x]
<1>1. PICK o \in FreshOrder, i \in FreshItem, s \in Checks :
        /\ MoneyStep(i, NewRow(o, m, q, auto), o, s)
        /\ s.session = ss /\ s.status \in OrderStatus \ ClosedStatus
  BY OpenDoes
<1>2. o \in OrderIds /\ orders[o] = NoOrder
  BY FreshRows DEF FloorTyped, OrdersPart
<1>3. orders' = [orders EXCEPT ![o] = s] /\ s.status # "none"
  BY <1>1 DEF MoneyStep, RowStep
<1>4. orders'[o] = s /\ \A x \in OrderIds \ {o} : orders'[x] = orders[x]
  BY <1>2, <1>3 DEF FloorTyped, OrdersPart
<1> QED BY <1>1, <1>2, <1>3, <1>4 DEF NoOrder

LEMMA TakeawaySeen ==
  ASSUME Prompt, GuestsInv, FloorTyped, NEW m \in Menu, NEW q \in Quantities, NEW auto \in BOOLEAN, CreateTakeaway(m, q, auto)
  PROVE  GuestsInv'
<1>1. PICK o \in OrderIds : /\ orders'[o].session = 0 /\ orders[o].session = 0
                            /\ \A x \in OrderIds \ {o} : orders'[x] = orders[x]
  BY NewCheckSeen DEF CreateTakeaway
<1>2. UNCHANGED <<tables, sessions, closeTx>>
  <2>1. tables' = Shown(0, "PREPARING") \/ tables' = Shown(0, "ORDER_PENDING")
    BY OpenDoes DEF CreateTakeaway
  <2> QED BY <2>1, TableAssumption DEF Shown, CreateTakeaway
<1>3. \A y : ChecksOn(y)' = ChecksOn(y)
  BY <1>1 DEF ChecksOn
<1>4. \A y : \A x \in ChecksOn(y) : orders'[x] = orders[x]
  BY <1>1 DEF ChecksOn
<1>5. \A y : OpenChecks(y)' = OpenChecks(y)
  BY <1>3, <1>4 DEF OpenChecks, IsOpen, Exists
<1>6. \A x : OpenSessions(x)' = OpenSessions(x)
  BY <1>2 DEF OpenSessions
<1>10. UNCHANGED atOnce
  BY DEF CreateTakeaway, endings
<1>7. Unopened' /\ ClosedAreLeft' /\ GuestsAreSeen'
  BY <1>2, <1>3, <1>4, <1>5, <1>6, <1>10 DEF GuestsInv, Unopened, ClosedAreLeft, GuestsAreSeen
<1>8. ClosingIsSettled'
  BY <1>2, <1>3, <1>4 DEF GuestsInv, ClosingIsSettled
<1>9. LooksHold'
  <2>1. UNCHANGED endTx
    BY DEF CreateTakeaway, endings
  <2>2. ASSUME NEW x \in OrderIds, endTx'[x] # NoTx
        PROVE  /\ orders'[x].session = orders[x].session
               /\ LastOpen(x)' => LastOpen(x) /\ TableOf(x)' = TableOf(x)
    <3>1. x # o
      BY <1>1, <2>1, <2>2 DEF GuestsInv, LooksHold
    <3>2. orders'[x] = orders[x]
      BY <1>1, <3>1
    <3> QED BY <1>2, <1>5, <3>2 DEF LastOpen, OnOpenSession, TableOf
  <2> QED BY <2>1, <2>2, LooksStay DEF GuestsInv
<1> QED BY <1>7, <1>8, <1>9 DEF GuestsInv

\* The first check of a session, which is opened or found at a table that is not being closed.
LEMMA FirstCheckSeen ==
  ASSUME Prompt, GuestsInv, FloorTyped, NEW t \in Tables, Unlocked(t), NEW m \in Menu, NEW q \in Quantities,
         NEW auto \in BOOLEAN, NEW ss \in SessionFor(t), sessions' = [sessions EXCEPT ![ss] = [table |-> t, status |-> "OPEN"]],
         Open(t, ss, m, q, auto), UNCHANGED <<closeTx, endings>>
  PROVE  GuestsInv'
<1>1. ss \in SessionIds /\ ss # 0 /\ (ss \in OpenSessions(t) \/ sessions[ss].status = "none")
  BY DEF SessionFor, OpenSessions, FreshSession, Fresh, SessionIds
<1>2. PICK o \in OrderIds : /\ orders'[o].session = ss /\ orders'[o].status \notin ClosedStatus \cup {"none"}
                            /\ orders[o].session = 0
                            /\ \A x \in OrderIds \ {o} : orders'[x] = orders[x]
  BY <1>1, NewCheckSeen
<1>3. /\ sessions'[ss] = [table |-> t, status |-> "OPEN"]
      /\ \A y \in SessionIds \ {ss} : sessions'[y] = sessions[y]
  BY <1>1, PromptTables
<1>4. \A y : y # ss => ChecksOn(y)' = ChecksOn(y)
  BY <1>2 DEF ChecksOn
<1>5. \A y : \A x \in ChecksOn(y) : orders'[x] = orders[x]
  BY <1>2 DEF ChecksOn
<1>6. \A y : y # ss => OpenChecks(y)' = OpenChecks(y)
  BY <1>4, <1>5 DEF OpenChecks, IsOpen, Exists
<1>7. o \in OpenChecks(ss)'
  BY <1>1, <1>2 DEF OpenChecks, ChecksOn, IsOpen, Exists
<1>8. Unopened'
  BY <1>3, <1>4 DEF GuestsInv, Unopened
<1>9. ClosedAreLeft'
  <2> SUFFICES ASSUME NEW y \in SessionIds, sessions'[y].status = "CLOSED", NEW x \in ChecksOn(y)'
               PROVE  orders'[x].status \in LeftStatus
    BY DEF ClosedAreLeft
  <2>1. y # ss /\ sessions[y].status = "CLOSED"
    BY <1>3
  <2>2. x \in ChecksOn(y)
    BY <1>4, <2>1
  <2> QED BY <1>5, <2>1, <2>2 DEF GuestsInv, ClosedAreLeft
<1>10. ClosingIsSettled'
  <2>1. ASSUME NEW u \in Tables, closeTx'[u] # NoTx, NEW y, y = closeTx'[u].session, NEW zero, zero = closeTx'[u].zero
        PROVE  zero \subseteq ChecksOn(y)' /\ \A x \in ChecksOn(y)' \ zero : orders'[x].status \in LeftStatus
    <3>1. u # t /\ OpenSessions(u) = {y}
      BY <2>1, PromptTables DEF Unlocked
    <3>2. y # ss
      BY <1>1, <3>1 DEF OpenSessions
    <3>3. zero \subseteq ChecksOn(y) /\ \A x \in ChecksOn(y) \ zero : orders[x].status \in LeftStatus
      BY <2>1 DEF GuestsInv, ClosingIsSettled
    <3> QED BY <1>4, <1>5, <3>2, <3>3
  <2>2. \A u \in Tables : closeTx'[u] # NoTx =>
          /\ closeTx'[u].zero \subseteq ChecksOn(closeTx[u].session)'
          /\ \A x \in ChecksOn(closeTx[u].session)' \ closeTx'[u].zero : orders'[x].status \in LeftStatus
    BY <2>1
  <2> QED BY <2>2 DEF ClosingIsSettled
<1>12. UNCHANGED <<endTx, atOnce>>
  BY DEF endings
<1>11. ASSUME NEW u \in Tables, NEW y \in OpenSessions(u)' \ atOnce', OpenChecks(y)' = {} PROVE tables'[u] = "CLEANING"
  <2>1. y # ss /\ y \in SessionIds /\ sessions'[y].table = u /\ sessions'[y].status = "OPEN"
    BY <1>7, <1>11 DEF OpenSessions
  <2>2. y \in OpenSessions(u)
    BY <1>3, <2>1 DEF OpenSessions
  <2>3. u # t
    <3>1. CASE ss \in OpenSessions(t)
      BY <2>1, <2>2, <3>1, PromptTables
    <3>2. CASE ss \notin OpenSessions(t)
      <4>1. OpenSessions(t) = {}
        BY <3>2 DEF SessionFor
      <4> QED BY <2>2, <4>1
    <3> QED BY <3>1, <3>2
  <2>4. tables[u] = "CLEANING"
    BY <1>6, <1>11, <1>12, <2>1, <2>2 DEF GuestsInv, GuestsAreSeen
  <2>5. tables' = Shown(t, "PREPARING") \/ tables' = Shown(t, "ORDER_PENDING")
    BY <1>1, OpenDoes
  <2> QED BY <2>3, <2>4, <2>5, PromptTables DEF Shown
<1>13. LooksHold'
  <2>1. ASSUME NEW x \in OrderIds, endTx'[x] # NoTx
        PROVE  /\ orders'[x].session = orders[x].session
               /\ LastOpen(x)' => LastOpen(x) /\ TableOf(x)' = TableOf(x)
    <3> DEFINE y == orders[x].session
    <3>1. x # o /\ y # 0
      BY <1>2, <1>12, <2>1 DEF GuestsInv, LooksHold
    <3>2. orders'[x] = orders[x]
      BY <1>2, <3>1
    <3>3. CASE y = ss
      <4>1. ~LastOpen(x)'
        BY <1>7, <3>1, <3>2, <3>3 DEF LastOpen
      <4> QED BY <3>2, <4>1
    <3>4. CASE y # ss
      <4>1. y \in SessionIds /\ sessions'[y] = sessions[y]
        BY <1>3, <3>1, <3>4, PromptTables
      <4> QED BY <1>6, <3>2, <3>4, <4>1 DEF LastOpen, OnOpenSession, TableOf
    <3> QED BY <3>3, <3>4
  <2> QED BY <1>12, <2>1, LooksStay DEF GuestsInv
<1> QED BY <1>8, <1>9, <1>10, <1>11, <1>13 DEF GuestsInv, GuestsAreSeen

LEMMA IntakeSeen == ASSUME Prompt, GuestsInv, FloorTyped, Intake PROVE GuestsInv'
<1>1. PICK m \in Menu, q \in Quantities, auto \in BOOLEAN :
        \/ \E t \in Tables : CreateAtTable(t, m, q, auto)
        \/ CreateTakeaway(m, q, auto)
        \/ \E o \in OrderIds : Append(o, m, q, auto)
  BY DEF Intake
<1>2. ASSUME NEW t \in Tables, CreateAtTable(t, m, q, auto) PROVE GuestsInv'
  <2>1. CASE \E o \in LastCheck(t) : Append(o, m, q, auto)
    BY <2>1, LastChecks, AppendSeen
  <2>2. CASE /\ \E ss \in SessionFor(t) :
                  /\ sessions' = [sessions EXCEPT ![ss] = [table |-> t, status |-> "OPEN"]]
                  /\ Open(t, ss, m, q, auto)
             /\ UNCHANGED <<closeTx, endings>>
    BY <1>2, <2>2, FirstCheckSeen DEF CreateAtTable
  <2> QED BY <1>2, <2>1, <2>2 DEF CreateAtTable
<1> QED BY <1>1, <1>2, TakeawaySeen, AppendSeen

LEMMA BeginCloseSeen ==
  ASSUME Prompt, GuestsInv, FloorTyped, NEW t \in Tables, NEW s \in SessionIds, BeginClose(t, s)
  PROVE  GuestsInv'
<1> DEFINE zero == {o \in ChecksOn(s) : ZeroTotal(o)}
<1>1. /\ UNCHANGED <<orders, sessions, tables, endTx, atOnce>>
      /\ closeTx' = [closeTx EXCEPT ![t] = [session |-> s, zero |-> zero]]
      /\ \A o \in ChecksOn(s) : Settled(o)
  BY DEF BeginClose, rows, endings
<1>2. \A o \in ChecksOn(s) \ zero : orders[o].status \in LeftStatus
  BY <1>1 DEF Settled, LeftStatus, ClosedStatus, DeadStatus
<1>3. \A y : ChecksOn(y)' = ChecksOn(y)
  BY <1>1 DEF ChecksOn
<1>4. zero \subseteq ChecksOn(s)
  OBVIOUS
<1> HIDE DEF zero
<1>5. \A u \in Tables : closeTx'[u] = IF u = t THEN [session |-> s, zero |-> zero] ELSE closeTx[u]
  BY <1>1, PromptTables
<1>6. ASSUME NEW u \in Tables, closeTx'[u] # NoTx, NEW y, y = closeTx'[u].session, NEW z, z = closeTx'[u].zero
      PROVE  z \subseteq ChecksOn(y)' /\ \A x \in ChecksOn(y)' \ z : orders'[x].status \in LeftStatus
  <2>1. CASE u = t
    BY <1>1, <1>2, <1>3, <1>4, <1>5, <1>6, <2>1
  <2>2. CASE u # t
    BY <1>1, <1>3, <1>5, <1>6, <2>2 DEF GuestsInv, ClosingIsSettled
  <2> QED BY <2>1, <2>2
<1>7. ClosingIsSettled'
  <2>1. \A u \in Tables : closeTx'[u] # NoTx =>
          /\ closeTx'[u].zero \subseteq ChecksOn(closeTx[u].session)'
          /\ \A x \in ChecksOn(closeTx[u].session)' \ closeTx'[u].zero : orders'[x].status \in LeftStatus
    BY <1>6
  <2> QED BY <2>1 DEF ClosingIsSettled
<1>8. Unopened' /\ ClosedAreLeft' /\ GuestsAreSeen'
  BY <1>1 DEF GuestsInv, Unopened, ClosedAreLeft, GuestsAreSeen, ChecksOn, OpenChecks, OpenSessions, IsOpen, Exists
<1>9. LooksHold'
  <2>1. \A x : LastOpen(x)' = LastOpen(x) /\ TableOf(x)' = TableOf(x)
    BY <1>1 DEF LastOpen, TableOf, OnOpenSession, ChecksOn, OpenChecks, IsOpen, Exists
  <2> QED BY <1>1, <2>1, LooksStay DEF GuestsInv
<1> QED BY <1>7, <1>8, <1>9 DEF GuestsInv

LEMMA CommitCloseSeen ==
  ASSUME Prompt, GuestsInv, FloorTyped, NEW t \in Tables, CommitClose(t), NEW s, s = closeTx[t].session
  PROVE  GuestsInv'
<1> DEFINE zero == closeTx[t].zero
<1>1. /\ closeTx[t] # NoTx /\ closeTx' = [closeTx EXCEPT ![t] = NoTx] /\ tables' = Shown(t, "AVAILABLE")
      /\ orders' = [o \in OrderIds |-> IF o \in zero THEN [orders[o] EXCEPT !.status = "PAID"] ELSE orders[o]]
      /\ sessions' = [sessions EXCEPT ![s] = [sessions[s] EXCEPT !.status = "CLOSED"]]
  BY DEF CommitClose
<1>13. UNCHANGED <<endTx, atOnce>>
  BY DEF CommitClose, endings
<1>2. OpenSessions(t) = {s} /\ zero \subseteq ChecksOn(s) /\ \A x \in ChecksOn(s) \ zero : orders[x].status \in LeftStatus
  BY <1>1, PromptTables DEF GuestsInv, ClosingIsSettled
<1>3. s \in SessionIds /\ sessions[s].table = t /\ sessions[s].status = "OPEN"
  BY <1>2 DEF OpenSessions
<1>4. sessions'[s].status = "CLOSED" /\ \A y \in SessionIds \ {s} : sessions'[y] = sessions[y]
  BY <1>1, <1>3, PromptTables DEF Session
<1> HIDE DEF zero
<1>5. \A x \in OrderIds : /\ orders'[x].session = orders[x].session
                          /\ x \in zero => orders'[x].status = "PAID"
                          /\ x \notin zero => orders'[x] = orders[x]
  <2> SUFFICES ASSUME NEW x \in OrderIds
               PROVE  /\ orders'[x].session = orders[x].session
                      /\ x \in zero => orders'[x].status = "PAID"
                      /\ x \notin zero => orders'[x] = orders[x]
    OBVIOUS
  <2>1. orders[x] \in Order
    BY OrderRows
  <2> QED BY <1>1, <2>1 DEF Order
<1>6. \A y : ChecksOn(y)' = ChecksOn(y)
  BY <1>5 DEF ChecksOn
<1>7. \A y : y # s => \A x \in ChecksOn(y) : orders'[x] = orders[x]
  BY <1>2, <1>5 DEF ChecksOn
<1>8. \A y : y # s => OpenChecks(y)' = OpenChecks(y)
  BY <1>6, <1>7 DEF OpenChecks, IsOpen, Exists
<1>9. Unopened'
  BY <1>4, <1>6 DEF GuestsInv, Unopened
<1>10. ClosedAreLeft'
  <2> SUFFICES ASSUME NEW y \in SessionIds, sessions'[y].status = "CLOSED", NEW x \in ChecksOn(y)'
               PROVE  orders'[x].status \in LeftStatus
    BY DEF ClosedAreLeft
  <2>1. x \in ChecksOn(y) /\ x \in OrderIds
    BY <1>6 DEF ChecksOn
  <2>2. CASE y = s
    BY <1>2, <1>5, <2>1, <2>2 DEF LeftStatus, ClosedStatus
  <2>3. CASE y # s
    BY <1>4, <1>7, <2>1, <2>3 DEF GuestsInv, ClosedAreLeft
  <2> QED BY <2>2, <2>3
<1>11. ClosingIsSettled'
  <2>1. ASSUME NEW u \in Tables, closeTx'[u] # NoTx, NEW y, y = closeTx'[u].session, NEW z, z = closeTx'[u].zero
        PROVE  z \subseteq ChecksOn(y)' /\ \A x \in ChecksOn(y)' \ z : orders'[x].status \in LeftStatus
    <3>1. u # t /\ closeTx'[u] = closeTx[u]
      BY <1>1, <2>1, PromptTables
    <3>2. OpenSessions(u) = {y}
      BY <2>1, <3>1, PromptTables
    <3>3. y # s
      BY <1>3, <3>1, <3>2 DEF OpenSessions
    <3>4. z \subseteq ChecksOn(y) /\ \A x \in ChecksOn(y) \ z : orders[x].status \in LeftStatus
      BY <2>1, <3>1 DEF GuestsInv, ClosingIsSettled
    <3> QED BY <1>6, <1>7, <3>3, <3>4
  <2>2. \A u \in Tables : closeTx'[u] # NoTx =>
          /\ closeTx'[u].zero \subseteq ChecksOn(closeTx[u].session)'
          /\ \A x \in ChecksOn(closeTx[u].session)' \ closeTx'[u].zero : orders'[x].status \in LeftStatus
    BY <2>1
  <2> QED BY <2>2 DEF ClosingIsSettled
<1>12. ASSUME NEW u \in Tables, NEW y \in OpenSessions(u)' \ atOnce', OpenChecks(y)' = {} PROVE tables'[u] = "CLEANING"
  <2>1. y # s /\ y \in SessionIds /\ sessions'[y].table = u /\ sessions'[y].status = "OPEN"
    BY <1>4 DEF OpenSessions
  <2>2. y \in OpenSessions(u)
    BY <1>4, <2>1 DEF OpenSessions
  <2>3. u # t
    BY <1>2, <2>1, <2>2
  <2>4. tables[u] = "CLEANING"
    BY <1>8, <1>12, <1>13, <2>1, <2>2 DEF GuestsInv, GuestsAreSeen
  <2> QED BY <1>1, <2>3, <2>4, PromptTables DEF Shown
<1>14. LooksHold'
  <2>1. ASSUME NEW x \in OrderIds, LastOpen(x)' PROVE LastOpen(x) /\ TableOf(x)' = TableOf(x)
    <3> DEFINE y == orders[x].session
    <3>1. orders'[x].session = y /\ y # 0 /\ sessions'[y].status = "OPEN"
      BY <1>5, <2>1 DEF LastOpen, OnOpenSession
    <3>2. y # s /\ y \in SessionIds
      BY <1>4, <3>1, PromptTables
    <3>3. sessions'[y] = sessions[y] /\ OpenChecks(y)' = OpenChecks(y)
      <4>1. OpenChecks(y)' = OpenChecks(y)
        <5>1. \A z : z # s => OpenChecks(z)' = OpenChecks(z)
          BY <1>8
        <5> QED BY <3>1, <3>2, <5>1
      <4> QED BY <1>4, <3>2, <4>1
    <3> QED BY <2>1, <3>1, <3>3 DEF LastOpen, OnOpenSession, TableOf
  <2> QED BY <1>5, <1>13, <2>1, LooksStay DEF GuestsInv
<1> QED BY <1>9, <1>10, <1>11, <1>12, <1>14 DEF GuestsInv, GuestsAreSeen

\* Nobody waits at a table unseen: for any number of tables, sessions, orders and payments,
\* where every check of an open session has ended, its table shows that it is to be cleaned,
\* unless two of its checks were ended at once, each by a command that had found the other
\* open; as long as nothing was moved, no station has reported and no command has come late.
THEOREM GuestsAreNoPhantoms == FloorSpec => []NoPhantomTable
<1> DEFINE Inv == Undisturbed /\ retries = 0 => GuestsInv
<1>1. FloorInit => Inv
  BY GuestsInit
<1>2. Inv /\ FloorTyped /\ EndingsTyped /\ TablesInv /\ KitchenInv /\ [FloorNext]_floorVars => Inv'
  <2> SUFFICES ASSUME Inv, FloorTyped, EndingsTyped, TablesInv, KitchenInv, [FloorNext]_floorVars, Undisturbed', retries' = 0
               PROVE  GuestsInv'
    OBVIOUS
  <2>1. Undisturbed /\ CalmNext
    BY UndisturbedBefore
  <2>2. ASSUME retries = 0, Intake \/ Service \/ Settlement \/ Editing \/ Resolving PROVE GuestsInv'
    <3>1. Prompt /\ GuestsInv
      BY <2>1, <2>2 DEF Prompt
    <3> QED BY <2>2, <3>1, IntakeSeen, ServiceSeen, SettlementSeen, EditingSeen, ResolvingSeen
  <2>3. CASE Intake \/ Service
    <3>1. retries = 0
      BY <2>3, IntakeStands, ServiceStands
    <3> QED BY <2>2, <2>3, <3>1
  <2>4. CASE Settlement
    <3>1. retries = 0
      BY <2>4 DEF Settlement, LookAround, GiveUp, AddPayment, RefundPayment
    <3> QED BY <2>2, <2>4, <3>1
  <2>5. CASE Editing
    <3>1. retries = 0
      BY <2>5 DEF Editing, Increase, Decrease, SetComplimentary, RemoveComplimentary, RemoveUnprinted
    <3> QED BY <2>2, <2>5, <3>1
  <2>6. CASE Resolving
    <3>1. retries = 0
      BY <2>6 DEF Resolving, Reject, ApproveDiscount, ApproveVoid, ApproveItemCancellation
    <3> QED BY <2>2, <2>6, <3>1
  <2>7. CASE Asking
    <3>1. UNCHANGED <<orders, sessions, tables, closeTx, endings, retries>>
      BY <2>7 DEF Asking, RequestCancellation, RequestDiscount, Request
    <3> QED BY <2>1, <3>1, NoCheckGoes
  <2>8. CASE UNCHANGED floorVars \/ \E k \in TicketIds, status \in TicketStatus : BeginTicket(k, status)
    <3>1. UNCHANGED <<orders, sessions, tables, closeTx, endings, retries>>
      BY <2>8 DEF BeginTicket, floorVars, rows
    <3> QED BY <2>1, <3>1, NoCheckGoes
  <2>9. ASSUME NEW t \in Tables, NEW s \in SessionIds, BeginClose(t, s) PROVE GuestsInv'
    <3>1. Prompt /\ GuestsInv
      BY <2>1, <2>9 DEF Prompt, BeginClose
    <3> QED BY <2>9, <3>1, BeginCloseSeen
  <2>10. ASSUME NEW t \in Tables, CommitClose(t) PROVE GuestsInv'
    <3>1. Prompt /\ GuestsInv
      BY <2>1, <2>10 DEF Prompt, CommitClose
    <3> QED BY <2>10, <3>1, CommitCloseSeen
  <2>11. ASSUME NEW t \in Tables, NEW s \in SessionIds, RepeatClose(t, s) PROVE FALSE
    <3>1. retries \in Nat /\ retries' = retries + 1
      BY <2>11 DEF RepeatClose, FloorTyped, CountsPart
    <3> QED BY <3>1
  <2>12. CASE Closing
    BY <2>9, <2>10, <2>11, <2>12 DEF Closing
  <2> QED BY <2>1, <2>3, <2>4, <2>5, <2>6, <2>7, <2>8, <2>12 DEF CalmNext
<1>3. Inv => NoPhantomTable
  BY DEF GuestsInv, GuestsAreSeen, NoPhantomTable
<1> QED BY <1>1, <1>2, <1>3, FloorTypedInductive, EndingsTypedInductive, TablesInductive, KitchenInductive, PTL
        DEF FloorSpec

-----------------------------------------------------------------------------
(* Moves create and lose nothing. *)

\* What a line holds, and what it costs.
Quantity == [i \in ItemIds |-> items[i].quantity]
Cost     == [i \in ItemIds |-> items[i].line]
Conserved == Portions' = Portions /\ LineTotal(Live)' = LineTotal(Live)

LEMMA LiveRows ==
  ASSUME FloorTyped
  PROVE  /\ Live \subseteq ItemIds /\ IsFiniteSet(Live)
         /\ \A i \in ItemIds : Quantity[i] = items[i].quantity /\ Cost[i] = items[i].line
         /\ \A i \in ItemIds : Quantity[i] \in Int /\ Cost[i] \in Int
<1>1. Live \subseteq ItemIds /\ IsFiniteSet(Live)
  BY RowsAreFinite, FS_Subset DEF Live
<1>2. \A i \in ItemIds : items[i].quantity \in Int /\ items[i].line \in Int
  BY LineFields DEF FloorTyped, ItemsPart
<1> QED BY <1>1, <1>2 DEF Quantity, Cost

\* Lines A give way to lines B that hold and cost as much.
LEMMA Conserving ==
  ASSUME FloorTyped, FloorTyped', NEW A, NEW B, A \subseteq Live, B \subseteq ItemIds, B \cap (Live \ A) = {},
         Live' = (Live \ A) \cup B, \A i \in Live \ A : items'[i].quantity = items[i].quantity /\ items'[i].line = items[i].line,
         SumFunctionOnSet(Quantity', B) = SumFunctionOnSet(Quantity, A),
         SumFunctionOnSet(Cost', B) = SumFunctionOnSet(Cost, A)
  PROVE  Conserved
<1>1. /\ Live \subseteq ItemIds /\ IsFiniteSet(Live) /\ IsFiniteSet(B)
      /\ \A i \in Live : Quantity[i] \in Int /\ Cost[i] \in Int
  BY LiveRows, RowsAreFinite, FS_Subset
<1>2. \A i \in ItemIds : (Quantity')[i] = items'[i].quantity /\ (Cost')[i] = items'[i].line
  BY DEF Quantity, Cost
<1>3. \A i \in ItemIds : items'[i].quantity \in Int /\ items'[i].line \in Int
  BY LineFields DEF FloorTyped, ItemsPart
<1>4. \A i \in B : (Quantity')[i] \in Int /\ (Cost')[i] \in Int
  BY <1>2, <1>3
<1>5. \A i \in Live \ A : (Quantity')[i] = Quantity[i] /\ (Cost')[i] = Cost[i]
  BY <1>1, <1>2, LiveRows
<1> DEFINE q1 == Quantity'
           c1 == Cost'
<1>6. SumFunctionOnSet(q1, (Live \ A) \cup B) = SumFunctionOnSet(Quantity, Live)
  <2>1. \A x \in B : q1[x] \in Int
    BY <1>4
  <2>2. \A x \in Live \ A : q1[x] = Quantity[x]
    BY <1>5
  <2> HIDE DEF q1
  <2> QED BY <1>1, <2>1, <2>2, SumExchanged DEF q1
<1>7. SumFunctionOnSet(c1, (Live \ A) \cup B) = SumFunctionOnSet(Cost, Live)
  <2>1. \A x \in B : c1[x] \in Int
    BY <1>4
  <2>2. \A x \in Live \ A : c1[x] = Cost[x]
    BY <1>5
  <2> HIDE DEF c1
  <2> QED BY <1>1, <2>1, <2>2, SumExchanged DEF c1
<1>8. Portions' = SumFunctionOnSet(q1, Live') /\ LineTotal(Live)' = SumFunctionOnSet(c1, Live')
  BY DEF Portions, LineTotal, Quantity, Cost
<1>9. Portions = SumFunctionOnSet(Quantity, Live) /\ LineTotal(Live) = SumFunctionOnSet(Cost, Live)
  BY DEF Portions, LineTotal, Quantity, Cost
<1> QED BY <1>6, <1>7, <1>8, <1>9 DEF Conserved

\* Nothing about the lines changes but whose they are.
LEMMA SameLines ==
  ASSUME FloorTyped, FloorTyped',
         \A i \in ItemIds : /\ items'[i].quantity = items[i].quantity /\ items'[i].line = items[i].line
                            /\ items'[i].status = items[i].status /\ (items'[i].order # 0 <=> items[i].order # 0)
  PROVE  Conserved
<1>1. Live' = (Live \ {}) \cup {}
  BY DEF Live, Dead
<1>2. \A i \in Live \ {} : items'[i].quantity = items[i].quantity /\ items'[i].line = items[i].line
  BY DEF Live
<1>3. /\ SumFunctionOnSet(Quantity', {}) = SumFunctionOnSet(Quantity, {})
      /\ SumFunctionOnSet(Cost', {}) = SumFunctionOnSet(Cost, {})
  BY SumEmpty
<1> QED BY <1>1, <1>2, <1>3, Conserving

LEMMA SplitConserves ==
  ASSUME FloorTyped, FloorTyped', NEW o \in OrderIds, NEW ls \in SUBSET LinesOf(o), SplitCheck(o, ls)
  PROVE  Conserved
<1>1. PICK n \in FreshOrder : items' = [i \in ItemIds |-> IF i \in ls THEN [items[i] EXCEPT !.order = n] ELSE items[i]]
  BY SplitDoes
<1>2. n # 0
  BY DEF FreshOrder, Fresh, OrderIds
<1>3. ASSUME NEW i \in ItemIds
      PROVE  /\ items'[i].quantity = items[i].quantity /\ items'[i].line = items[i].line
             /\ items'[i].status = items[i].status /\ (items'[i].order # 0 <=> items[i].order # 0)
  <2>1. items[i] \in Lines
    BY DEF FloorTyped, ItemsPart
  <2>2. i \in ls => items[i].order = o /\ o # 0
    BY DEF LinesOf, OrderIds
  <2>3. CASE i \in ls
    <3>1. items'[i] = [items[i] EXCEPT !.order = n]
      BY <1>1, <2>3
    <3> QED BY <1>2, <2>1, <2>2, <2>3, <3>1 DEF Lines, Item
  <2>4. CASE i \notin ls
    BY <1>1, <2>4
  <2> QED BY <2>3, <2>4
<1> QED BY <1>3, SameLines

LEMMA TransferConserves ==
  ASSUME FloorTyped, FloorTyped', NEW i \in ItemIds, NEW t \in Tables, NEW q \in Quantities, TransferItems(i, t, q),
         \A j \in Live : CostsItsPortions(j)
  PROVE  Conserved
<1> DEFINE o == items[i].order
           rest == items[i].quantity - q
<1>1. /\ o \in OrderIds /\ o # 0 /\ ~Dead(i) /\ q <= items[i].quantity
      /\ \E n \in FreshItem, ss \in SessionFor(t), d \in OrderIds : \E a, b \in Lines : \E x, y \in Checks :
           TransferOf(i, t, q, o, n, ss, d, a, b, x, y)
  BY TransferDoes
<1>2. PICK n \in FreshItem, ss \in SessionFor(t), d \in OrderIds : \E a, b \in Lines : \E x, y \in Checks :
        TransferOf(i, t, q, o, n, ss, d, a, b, x, y)
  BY <1>1
<1>3. PICK a \in Lines, b \in Lines :
        MovedRows(i, d, q, a, b) /\ n # i /\ items' = [items EXCEPT ![n] = a, ![i] = b]
  BY <1>2 DEF TransferOf
<1>4. n \in ItemIds /\ items[n].order = 0 /\ n # i /\ n \notin Live /\ i \in Live /\ d # 0
  BY <1>1, <1>3, FreshRows DEF Live, OrderIds
<1>5. items'[n] = a /\ items'[i] = b /\ \A j \in ItemIds \ {n, i} : items'[j] = items[j]
  BY <1>3, <1>4 DEF FloorTyped, ItemsPart
<1>6. /\ items[i].price \in Nat /\ items[i].quantity \in Nat /\ items[i].line \in Nat /\ (items[i].comp => items[i].line = 0)
      /\ q \in Nat /\ rest \in Nat /\ items[i].status \in ItemStatus
  <2>1. items[i] \in Lines
    BY DEF FloorTyped, ItemsPart
  <2>2. items[i].status # "none"
    BY <1>1, <2>1, LineFields
  <2> QED BY <1>1, <2>1, <2>2, LineFields DEF Quantities
<1>7. /\ a.order = d /\ a.status = items[i].status /\ a.quantity = q /\ a.line = MovedCost(i, q)
      /\ b.order = o
      /\ \/ rest = 0 /\ b.status = "VOIDED"
         \/ rest # 0 /\ b.status = items[i].status /\ b.quantity = rest /\ b.line = MovedCost(i, rest)
  BY <1>3 DEF MovedRows
<1>8. MovedCost(i, q) \in Nat /\ MovedCost(i, rest) \in Nat /\ items[i].line = MovedCost(i, q) + MovedCost(i, rest)
  <2>1. \A x, y, z \in Nat : x * y \in Nat /\ x * z \in Nat /\ x * (y + z) = x * y + x * z
    OBVIOUS
  <2>2. q + rest = items[i].quantity
    BY <1>6
  <2>3. items[i].price * (q + rest) = items[i].price * q + items[i].price * rest
    BY <1>6, <2>1
  <2>4. CASE items[i].comp
    BY <1>6, <2>4 DEF MovedCost
  <2>5. CASE ~items[i].comp
    <3>1. items[i].line = items[i].price * (q + rest)
      BY <1>4, <2>2, <2>5 DEF CostsItsPortions
    <3>2. items[i].price * q \in Nat /\ items[i].price * rest \in Nat
      BY <1>6, <2>1
    <3> QED BY <2>3, <2>5, <3>1, <3>2 DEF MovedCost
  <2> QED BY <2>4, <2>5
<1> DEFINE A == {i}
           B == IF rest = 0 THEN {n} ELSE {i, n}
<1>9. /\ SumFunctionOnSet(Quantity, A) = items[i].quantity /\ SumFunctionOnSet(Cost, A) = items[i].line
  <2>1. Quantity[i] \in Int /\ Cost[i] \in Int /\ Quantity[i] = items[i].quantity /\ Cost[i] = items[i].line
    BY LiveRows
  <2> QED BY <2>1, SumOne
<1>10. /\ (Quantity')[n] = q /\ (Cost')[n] = MovedCost(i, q)
       /\ rest # 0 => (Quantity')[i] = rest /\ (Cost')[i] = MovedCost(i, rest)
  <2>1. \A j \in ItemIds : (Quantity')[j] = items'[j].quantity /\ (Cost')[j] = items'[j].line
    BY DEF Quantity, Cost
  <2> QED BY <1>4, <1>5, <1>7, <2>1
<1>11. Live' = (Live \ A) \cup B
  <2>1. \A j \in ItemIds \ {n, i} : j \in Live' <=> j \in Live
    BY <1>5 DEF Live, Dead
  <2>2. n \in Live'
    BY <1>1, <1>4, <1>5, <1>7 DEF Live, Dead
  <2>3. i \in Live' <=> rest # 0
    BY <1>1, <1>4, <1>5, <1>7 DEF Live, Dead, DeadStatus
  <2>4. Live \subseteq ItemIds /\ Live' \subseteq ItemIds
    BY DEF Live
  <2> QED BY <1>4, <2>1, <2>2, <2>3, <2>4
<1>12. SumFunctionOnSet(Quantity', B) = items[i].quantity /\ SumFunctionOnSet(Cost', B) = items[i].line
  <2> DEFINE q1 == Quantity'
             c1 == Cost'
  <2>1. /\ q1[n] = q /\ c1[n] = MovedCost(i, q)
        /\ rest # 0 => q1[i] = rest /\ c1[i] = MovedCost(i, rest)
    BY <1>10
  <2> HIDE DEF q1, c1
  <2>2. CASE rest = 0
    <3>1. B = {n} /\ q1[n] \in Int /\ c1[n] \in Int
      BY <1>6, <1>8, <2>1, <2>2
    <3>2. SumFunctionOnSet(q1, B) = q1[n] /\ SumFunctionOnSet(c1, B) = c1[n]
      BY <3>1, SumOne
    <3>3. q = items[i].quantity
      BY <1>6, <2>2
    <3>4. MovedCost(i, q) = items[i].line
      <4>1. MovedCost(i, 0) = 0
        BY <1>6 DEF MovedCost
      <4> QED BY <1>6, <1>8, <2>2, <4>1
    <3> QED BY <2>1, <3>2, <3>3, <3>4 DEF q1, c1
  <2>3. CASE rest # 0
    <3>1. B = {i, n} /\ q1[n] \in Int /\ c1[n] \in Int /\ q1[i] \in Int /\ c1[i] \in Int
      BY <1>6, <1>8, <2>1, <2>3
    <3>2. SumFunctionOnSet(q1, B) = q1[i] + q1[n] /\ SumFunctionOnSet(c1, B) = c1[i] + c1[n]
      BY <1>4, <3>1, SumTwo
    <3>3. rest + q = items[i].quantity
      BY <1>6
    <3>4. MovedCost(i, rest) + MovedCost(i, q) = items[i].line
      BY <1>8
    <3> QED BY <2>1, <2>3, <3>2, <3>3, <3>4 DEF q1, c1
  <2> QED BY <2>2, <2>3
<1>13. /\ A \subseteq Live /\ B \subseteq ItemIds /\ B \cap (Live \ A) = {}
       /\ \A j \in Live \ A : items'[j].quantity = items[j].quantity /\ items'[j].line = items[j].line
  BY <1>4, <1>5 DEF Live
<1> HIDE DEF A, B
<1> QED BY <1>9, <1>11, <1>12, <1>13, Conserving

\* The rows of a merge: each copied line has one of its own.
LEMMA RowsForLines ==
  ASSUME NEW ls \in SUBSET ItemIds, NEW l \in ls, NEW i \in RowFor(l, ls)
  PROVE  /\ \A j \in RowFor(l, ls) : j = i
         /\ \A k \in ls : i \in RowFor(k, ls) => k = l
<1>1. FreeRows \subseteq ItemIds /\ ItemIds \subseteq Int /\ IsFiniteSet(FreeRows) /\ IsFiniteSet(ls)
  <2>1. FreeRows \in SUBSET ItemIds
    BY DEF FreeRows
  <2>2. IsFiniteSet(FreeRows) /\ IsFiniteSet(ls)
    BY <2>1, RowsAreFinite, FS_Subset
  <2>3. ItemIds \subseteq Int
    BY DEF ItemIds
  <2> QED BY <2>1, <2>2, <2>3
<1> DEFINE rank(j) == Cardinality({x \in FreeRows : x < j})
           turn(k) == Cardinality({x \in ls : x < k})
<1>2. \A x, y \in FreeRows : x < y => rank(x) < rank(y)
  BY <1>1, RankGrows
<1>3. \A x, y \in ls : x < y => turn(x) < turn(y)
  BY <1>1, RankGrows
<1>4. /\ \A x \in FreeRows : rank(x) \in Int /\ x \in Int
      /\ \A x \in ls : turn(x) \in Int /\ x \in Int
  <2>1. \A x : {y \in FreeRows : y < x} \in SUBSET FreeRows /\ {y \in ls : y < x} \in SUBSET ls
    OBVIOUS
  <2>2. \A x : IsFiniteSet({y \in FreeRows : y < x}) /\ IsFiniteSet({y \in ls : y < x})
    BY <1>1, <2>1, FS_Subset
  <2>3. \A x : rank(x) \in Nat /\ turn(x) \in Nat
    BY <2>2, FS_CardinalityType
  <2>4. \A n \in Nat : n \in Int
    OBVIOUS
  <2>5. (\A x \in FreeRows : x \in Int) /\ (\A x \in ls : x \in Int)
    BY <1>1
  <2> HIDE DEF rank, turn
  <2> QED BY <2>3, <2>4, <2>5
<1>5. \A j, k : j \in RowFor(k, ls) <=> j \in FreeRows /\ rank(j) = turn(k)
  BY DEF RowFor
<1> HIDE DEF rank, turn
<1>6. i \in FreeRows /\ rank(i) = turn(l)
  BY <1>5
<1>7. ASSUME NEW j \in RowFor(l, ls) PROVE j = i
  <2>1. j \in FreeRows /\ rank(j) = rank(i)
    BY <1>5, <1>6, <1>7
  <2> QED BY <1>2, <1>4, <1>6, <2>1
<1>8. ASSUME NEW k \in ls, i \in RowFor(k, ls) PROVE k = l
  <2>1. turn(k) = turn(l)
    BY <1>5, <1>6, <1>8
  <2> QED BY <1>3, <1>4, <2>1
<1> QED BY <1>7, <1>8

LEMMA MergeConserves ==
  ASSUME FloorTyped, FloorTyped', NEW d, d # 0, NEW o, o # 0, NEW ls, ls = LiveLines(o),
         \A l \in ls : RowFor(l, ls) # {}, items' = Copies(ls, d)
  PROVE  Conserved
<1> DEFINE b == [l \in ls |-> CHOOSE i \in ItemIds : i \in RowFor(l, ls)]
           R == {b[l] : l \in ls}
<1>1. ls \in SUBSET ItemIds /\ ls \subseteq Live /\ IsFiniteSet(ls)
  <2>1. ls \subseteq Live /\ Live \subseteq ItemIds
    BY DEF LiveLines, LinesOf, Live
  <2> QED BY <2>1, RowsAreFinite, FS_Subset
<1>2. ASSUME NEW l \in ls PROVE b[l] \in ItemIds /\ b[l] \in RowFor(l, ls) /\ b[l] \in FreeRows
  BY DEF RowFor, FreeRows
<1> HIDE DEF b
<1>3. \A l, k \in ls : b[l] = b[k] => l = k
  BY <1>1, <1>2, RowsForLines
<1>4. R \subseteq ItemIds /\ IsFiniteSet(R)
  <2>1. R \subseteq ItemIds
    BY <1>2
  <2> HIDE DEF R
  <2> QED BY <2>1, RowsAreFinite, FS_Subset
<1>5. ASSUME NEW l \in ls
      PROVE  /\ items'[b[l]].quantity = items[l].quantity /\ items'[b[l]].line = items[l].line
             /\ b[l] \in Live'
  <2>1. b[l] \in FreeRows /\ items[l] \in Lines /\ ~Dead(l) /\ items[l].status # "none"
    <3>1. items[l] \in Lines /\ l \in ItemIds /\ items[l].order = o /\ ~Dead(l)
      BY <1>1 DEF LiveLines, LinesOf, FloorTyped, ItemsPart
    <3> QED BY <1>2, <3>1, LineFields
  <2>2. b[l] \notin ls /\ b[l] \in ItemIds
    <3>1. items[b[l]].status = "none" /\ items[b[l]] \in Lines
      BY <1>2 DEF FreeRows, FloorTyped, ItemsPart
    <3>2. items[b[l]].order = 0
      BY <3>1, LineFields
    <3> QED BY <1>2, <3>2 DEF LiveLines, LinesOf
  <2>3. PICK k \in ls : b[l] \in RowFor(k, ls) /\ IsCopy(k, d, Copies(ls, d)[b[l]])
    BY <1>2, <2>2, CopiesDo
  <2>4. k = l
    BY <1>1, <1>2, <2>3, RowsForLines
  <2>5. items'[b[l]] = [items[l] EXCEPT !.order = d, !.comp = FALSE]
    BY <2>3, <2>4 DEF IsCopy
  <2>6. /\ items'[b[l]].quantity = items[l].quantity /\ items'[b[l]].line = items[l].line
        /\ items'[b[l]].order = d /\ items'[b[l]].status = items[l].status
    BY <2>1, <2>5 DEF Lines, Item
  <2> QED BY <2>1, <2>2, <2>6 DEF Live, Dead
<1>6. ASSUME NEW i \in ItemIds, i \notin ls, i \notin R PROVE items'[i] = items[i]
  <2>1. \A l \in ls : i \notin RowFor(l, ls)
    <3>1. ASSUME NEW l \in ls, i \in RowFor(l, ls) PROVE FALSE
      <4>1. b[l] = i
        BY <1>1, <1>2, <3>1, RowsForLines
      <4> QED BY <1>6, <4>1
    <3> QED BY <3>1
  <2> QED BY <1>6, <2>1, CopiesDo
<1>7. ASSUME NEW i \in ls PROVE i \notin Live'
  <2>1. items'[i] = [items[i] EXCEPT !.status = "VOIDED"] /\ items[i] \in Lines
    BY <1>1, <1>7, CopiesDo DEF IsVoided, FloorTyped, ItemsPart
  <2> QED BY <2>1 DEF Live, Dead, DeadStatus, Lines, Item
<1>8. R \cap Live = {}
  <2>1. \A l \in ls : items[b[l]].order = 0
    <3>1. \A i \in FreeRows : items[i] \in Lines /\ items[i].status = "none"
      BY DEF FreeRows, FloorTyped, ItemsPart
    <3> QED BY <1>2, <3>1, LineFields
  <2> QED BY <2>1 DEF Live
<1>9. Live' = (Live \ ls) \cup R
  <2>1. \A i \in R : i \in Live'
    BY <1>5
  <2>2. \A i \in ItemIds \ (ls \cup R) : i \in Live' <=> i \in Live
    BY <1>6 DEF Live, Dead
  <2>3. Live \subseteq ItemIds /\ Live' \subseteq ItemIds
    BY DEF Live
  <2> HIDE DEF R
  <2> QED BY <1>4, <1>7, <1>8, <2>1, <2>2, <2>3
<1>10. \A i \in Live \ ls : items'[i].quantity = items[i].quantity /\ items'[i].line = items[i].line
  BY <1>6, <1>8 DEF Live
<1>11. /\ \A l \in ls : Quantity[l] \in Int /\ (Quantity')[b[l]] = Quantity[l]
       /\ \A l \in ls : Cost[l] \in Int /\ (Cost')[b[l]] = Cost[l]
  <2>1. \A j \in ItemIds : (Quantity')[j] = items'[j].quantity /\ (Cost')[j] = items'[j].line
    BY DEF Quantity, Cost
  <2> QED BY <1>1, <1>2, <1>5, <2>1, LiveRows
<1>12. SumFunctionOnSet(Quantity', R) = SumFunctionOnSet(Quantity, ls)
  BY <1>1, <1>3, <1>4, <1>11, SumRenamed
<1>13. SumFunctionOnSet(Cost', R) = SumFunctionOnSet(Cost, ls)
  BY <1>1, <1>3, <1>4, <1>11, SumRenamed
<1>14. R \cap (Live \ ls) = {}
  BY <1>8
<1> HIDE DEF R
<1> QED BY <1>1, <1>4, <1>9, <1>10, <1>12, <1>13, <1>14, Conserving

\* Moving lines between checks and checks between tables creates and loses no portion and no
\* money, for any number of orders, lines and tables and whatever the station, the waiters
\* and the managers do in between, where each line costs its portions or is a gift.
THEOREM MovesConserve == FloorSpec => MovesConserveLines
<1> DEFINE Priceable == moves' # moves /\ (\A i \in Live : CostsItsPortions(i))
<1>1. FloorTyped /\ FloorTyped' /\ KitchenInv /\ [FloorNext]_floorVars => [Priceable => Conserved]_floorVars
  <2> SUFFICES ASSUME FloorTyped, FloorTyped', KitchenInv, FloorNext, Priceable PROVE Conserved
    OBVIOUS
  <2>1. moves' # moves /\ \A i \in Live : CostsItsPortions(i)
    OBVIOUS
  <2>2. CASE MovingLines
    <3>1. ASSUME NEW o \in OrderIds, NEW t, Transferred(o, t) PROVE Conserved
      BY <3>1, SameLines DEF Transferred
    <3>2. ASSUME NEW o \in OrderIds, NEW t \in Tables, MergeTable(o, t) PROVE Conserved
      <4>1. Moving /\ Exists(o) /\ (Transferred(o, t) \/ \E d \in LastCheck(t) : Merged(o, d, t))
        BY <3>2 DEF MergeTable
      <4>2. ASSUME NEW d \in LastCheck(t), Merged(o, d, t) PROVE Conserved
        <5>1. /\ d # 0 /\ o # 0 /\ \A l \in LiveLines(o) : RowFor(l, LiveLines(o)) # {}
              /\ items' = Copies(LiveLines(o), d)
          BY <4>1, <4>2, MergedDoes DEF OrderIds
        <5> QED BY <5>1, MergeConserves
      <4> QED BY <3>1, <4>1, <4>2
    <3>3. ASSUME NEW o \in OrderIds, NEW t \in Tables, TransferTable(o, t) PROVE Conserved
      BY <3>1, <3>3 DEF TransferTable
    <3> QED BY <2>1, <2>2, <3>2, <3>3, SplitConserves, TransferConserves DEF MovingLines
  <2>3. CASE Preparation
    BY <2>1, <2>3 DEF Preparation, BeginTicket, CommitTicket
  <2>4. CASE Intake \/ Service
    BY <2>1, <2>4, IntakeStands, ServiceStands
  <2>5. CASE Settlement \/ Editing \/ Asking \/ Resolving \/ Closing
    BY <2>1, <2>5, OthersStand
  <2> QED BY <2>2, <2>3, <2>4, <2>5 DEF FloorNext
<1> QED BY <1>1, FloorTypedInductive, KitchenInductive, PTL DEF FloorSpec, MovesConserveLines, Conserved
=============================================================================
