----------------------------- MODULE CommandApi -----------------------------
(***************************************************************************)
(* The API side of ordering at one table, as far as repeated commands tell  *)
(* it apart: which idempotency keys were executed, on which check, with     *)
(* which body (apps/api services/orders.py, services/delivery.py,           *)
(* api/qr.py), and the requests that travel to it. Every handler runs in    *)
(* one transaction under the advisory lock of its key, so it is one step.   *)
(***************************************************************************)
EXTENDS Integers, Sequences, FiniteSets, FiniteSetsExt

CONSTANTS Waiter, Guest, Desk,       \* ordering devices; Desk takes delivery orders
          Till, Cash,                \* the till's product list and its payment dialog
          Products, MaxWishes,       \* things wanted, one unit each, in the order they come up
          ProductOf(_),              \* the product each of them is
          Amounts,                   \* sums tendered at the till
          MaxChecks, MaxKeys,        \* bounds: checks opened at the table, keys minted
          PendingLimit               \* live guest requests of a table (3 in the code)

Devices == {Waiter, Guest, Desk, Till, Cash}
Wishes  == 1..MaxWishes
KeyIds  == 1..MaxKeys

ASSUME DeviceAssumption == Cardinality(Devices) = 5
ASSUME BoundAssumption  == /\ MaxWishes \in Nat /\ MaxKeys \in Nat /\ MaxChecks \in Nat
                           /\ PendingLimit \in Nat /\ Amounts \subseteq Nat \ {0}
ASSUME ProductAssumption == \A w \in Wishes : ProductOf(w) \in Products

\* A key made by a device, or by the API for guest request a (f"qr:{id}").
DeviceKey(n) == <<"key", n>>
RequestKey(a) == <<"qr", a>>
DeviceKeys == {DeviceKey(n) : n \in KeyIds}
Keys == DeviceKeys \cup {RequestKey(a) : a \in KeyIds}

VARIABLES
  checks,     \* orders at the table, oldest first: "open" | "paid" | "closed" (session closed)
  rows,       \* executed commands, oldest first: orders, order_operations and payments rows
  asks,       \* qr_order_requests
  rejecting,  \* requests read as PENDING by a rejection that has not committed
  wire,       \* HTTP requests on their way; open: the device still waits for the answer
  answers     \* what the device's open call has been answered

apiVars == <<checks, rows, asks, rejecting, wire, answers>>

\* An order as a list of orders or an answer shows it.
NoView   == [check |-> 0, state |-> "none", due |-> 0]
Views    == [check: 0..MaxChecks, due: Int, state: {"none", "open", "paid", "closed"}]
NoAnswer == [ok |-> FALSE, come |-> FALSE, view |-> NoView]
Command == [from: Devices, to: {"orders", "items", "payments", "requests", "delivery"},
            check: 0..MaxChecks, key: Keys, items: SUBSET Wishes,
            amount: Amounts \cup {0}, open: BOOLEAN]
Row == [kind: {"order", "append", "payment"}, key: Keys, from: Devices, check: 0..MaxChecks,
        items: SUBSET Wishes, amount: Amounts \cup {0}, nested: BOOLEAN]
Ask == [key: Keys, items: SUBSET Wishes, check: 0..MaxChecks, stale: BOOLEAN,
        status: {"PENDING", "APPROVED", "REJECTED", "EXPIRED"}]

ApiTypeOK ==
  /\ checks \in Seq({"open", "paid", "closed"}) /\ Len(checks) <= MaxChecks
  /\ rows \in Seq(Row) /\ \A i \in DOMAIN rows : rows[i].check <= Len(checks)
  /\ asks \in Seq(Ask) /\ Len(asks) <= MaxKeys
  /\ rejecting \subseteq DOMAIN asks
  /\ wire \subseteq Command
  /\ answers \in [Devices -> [ok: BOOLEAN, come: BOOLEAN, view: Views]]

ApiInit ==
  /\ checks = <<>> /\ rows = <<>> /\ asks = <<>>
  /\ rejecting = {} /\ wire = {}
  /\ answers = [d \in Devices |-> NoAnswer]

-----------------------------------------------------------------------------
Recorded == {rows[i] : i \in DOMAIN rows}
Under(kinds, key) == {r \in Recorded : r.kind \in kinds /\ r.key = key}

\* request_fingerprint of a list of lines: how many of each product.
Body(items) == [p \in Products |-> Cardinality({w \in items : ProductOf(w) = p})]

\* The active order of the table's open session, 0 when there is none.
Active == IF \E c \in DOMAIN checks : checks[c] = "open"
          THEN CHOOSE c \in DOMAIN checks : checks[c] = "open" ELSE 0

PaidIn(book, c)  == SumFunction([i \in DOMAIN book |->
                                   IF book[i].check = c THEN book[i].amount ELSE 0])
TotalIn(book, c) == SumFunction([i \in DOMAIN book |->
                                   IF book[i].check = c THEN Cardinality(book[i].items) ELSE 0])
PaidOn(c)  == PaidIn(rows, c)
TotalOf(c) == TotalIn(rows, c)

View(states, book, c) ==
  IF c = 0 THEN NoView
  ELSE [check |-> c, state |-> states[c], due |-> TotalIn(book, c) - PaidIn(book, c)]

\* The answer carries the order; only the till looks at it.
Answer(m, ok, c) ==
  /\ wire' = wire \ {m}
  /\ answers' = IF m.open
                THEN [answers EXCEPT ![m.from] =
                        [ok |-> ok, come |-> TRUE,
                         view |-> IF m.from = Till THEN View(checks', rows', c) ELSE NoView]]
                ELSE answers

\* Mutant: a refusal is answered like a success.
RefuseKindly(m) == UNCHANGED <<checks, rows, asks, rejecting>> /\ Answer(m, TRUE, 0)

Refuse(m) == UNCHANGED <<checks, rows, asks, rejecting>> /\ Answer(m, FALSE, 0)
Replay(m, c) == UNCHANGED <<checks, rows, asks, rejecting>> /\ Answer(m, TRUE, c)

NewRow(kind, m, c, nested) ==
  rows' = Append(rows, [kind |-> kind, key |-> m.key, from |-> m.from, check |-> c,
                        items |-> m.items, amount |-> m.amount, nested |-> nested])

\* append_order_items: the key is looked up among the operations only.
MayAppend(c) == c \in DOMAIN checks /\ checks[c] = "open" /\ PaidOn(c) = 0
AppendItems(m, c, nested) ==
  /\ MayAppend(c)
  /\ NewRow("append", m, c, nested)
  /\ UNCHANGED <<checks, rejecting>>

\* Mutant: the lines are booked on the check after the new one.
OpenCheckBeside(m) ==
  /\ Active = 0 /\ Len(checks) < MaxChecks
  /\ checks' = Append(checks, "open")
  /\ NewRow("order", m, Len(checks) + 2, FALSE)
  /\ UNCHANGED rejecting

\* create_order past its lookups: the table's active order takes the lines,
\* or a new order is made under the key.
OpenCheck(m) ==
  /\ Active = 0 /\ Len(checks) < MaxChecks
  /\ checks' = Append(checks, "open")
  /\ NewRow("order", m, Len(checks) + 1, FALSE)
  /\ UNCHANGED rejecting
PlaceAtTable(m) == OpenCheck(m) \/ AppendItems(m, Active, TRUE)

\* A create command whose key was seen before: as an order, or as the append
\* that a create at an occupied table became.
SeenByCreate(key) == Under({"order", "append"}, key)
CreateMatches(m) == LET made == Under({"order"}, m.key) IN
  \E r \in (IF made # {} THEN made ELSE {o \in Under({"append"}, m.key) : o.nested}) :
    Body(r.items) = Body(m.items)
Receipt(key) == IF Under({"order"}, key) # {} THEN (CHOOSE r \in Under({"order"}, key) : TRUE).check
                ELSE (CHOOSE r \in Under({"append"}, key) : TRUE).check

ServeCreate(m) ==
  /\ m.to = "orders"
  /\ \/ /\ SeenByCreate(m.key) # {} /\ CreateMatches(m)
        /\ Replay(m, Receipt(m.key))
     \/ /\ SeenByCreate(m.key) # {} /\ ~CreateMatches(m)
        /\ Refuse(m)
     \/ /\ SeenByCreate(m.key) = {}
        /\ PlaceAtTable(m) /\ UNCHANGED asks
        /\ Answer(m, TRUE, Active')
     \/ /\ SeenByCreate(m.key) = {}
        /\ Active # 0 /\ ~MayAppend(Active)
        /\ Refuse(m)

AppendMatches(m) == \E r \in Under({"append"}, m.key) :
                       r.check = m.check /\ Body(r.items) = Body(m.items)
ServeAppend(m) ==
  /\ m.to = "items"
  /\ \/ /\ AppendMatches(m)
        /\ Replay(m, m.check)
     \/ /\ Under({"append"}, m.key) = {}
        /\ AppendItems(m, m.check, FALSE) /\ UNCHANGED asks
        /\ Answer(m, TRUE, m.check)
     \/ /\ ~AppendMatches(m)
        /\ Under({"append"}, m.key) # {} \/ ~MayAppend(m.check)
        /\ Refuse(m)

\* add_payment: the last one settles the check, an earlier one only freezes it.
PaymentMatches(m) == \E r \in Under({"payment"}, m.key) :
                        r.check = m.check /\ r.amount = m.amount
\* Mutant: earlier payments are not looked at.
MayPayAgain(m) == m.amount <= TotalOf(m.check)
MayPay(m) == m.amount <= TotalOf(m.check) - PaidOn(m.check)
ServePayment(m) ==
  /\ m.to = "payments"
  /\ \/ /\ PaymentMatches(m)
        /\ Replay(m, m.check)
     \/ /\ Under({"payment"}, m.key) = {} /\ MayPay(m)
        /\ NewRow("payment", m, m.check, FALSE)
        /\ checks' = [checks EXCEPT ![m.check] =
                        IF PaidOn(m.check) + m.amount >= TotalOf(m.check) THEN "paid" ELSE @]
        /\ UNCHANGED <<asks, rejecting>>
        /\ Answer(m, TRUE, m.check)
     \/ /\ ~PaymentMatches(m)
        /\ Under({"payment"}, m.key) # {} \/ ~MayPay(m)
        /\ Refuse(m)

\* create_delivery_order: an order of no table; its row keeps the whole body.
ServeDelivery(m) ==
  /\ m.to = "delivery"
  /\ \/ /\ Under({"order"}, m.key) # {} /\ CreateMatches(m)
        /\ Replay(m, 0)
     \/ /\ Under({"order"}, m.key) # {} /\ ~CreateMatches(m)
        /\ Refuse(m)
     \/ /\ Under({"order"}, m.key) = {}
        /\ NewRow("order", m, 0, FALSE)
        /\ UNCHANGED <<checks, asks, rejecting>>
        /\ Answer(m, TRUE, 0)

-----------------------------------------------------------------------------
(* Guest requests (api/qr.py, WAITER_APPROVAL mode).                         *)

AsksUnder(key) == {a \in DOMAIN asks : asks[a].key = key}
Waiting == {a \in DOMAIN asks : asks[a].status = "PENDING" /\ ~asks[a].stale}

ServeRequest(m) ==
  /\ m.to = "requests"
  /\ \/ /\ \E a \in AsksUnder(m.key) : Body(asks[a].items) = Body(m.items)
        /\ Replay(m, 0)
     \/ /\ AsksUnder(m.key) = {} /\ Cardinality(Waiting) < PendingLimit
        /\ asks' = Append(asks, [key |-> m.key, items |-> m.items, check |-> 0,
                                 stale |-> FALSE, status |-> "PENDING"])
        /\ UNCHANGED <<checks, rows, rejecting>>
        /\ Answer(m, TRUE, 0)
     \/ /\ \/ \E a \in AsksUnder(m.key) : Body(asks[a].items) # Body(m.items)
           \/ AsksUnder(m.key) = {} /\ Cardinality(Waiting) >= PendingLimit
        /\ Refuse(m)

\* Thirty minutes pass.
Age(a) ==
  /\ asks[a].status = "PENDING" /\ ~asks[a].stale
  /\ asks' = [asks EXCEPT ![a].stale = TRUE]
  /\ UNCHANGED <<checks, rows, rejecting, wire, answers>>

Ordered(a) == [key |-> RequestKey(a), from |-> Guest, items |-> asks[a].items, amount |-> 0]

\* Mutant: a rejected request can be approved, and the key is not looked up.
ApproveAgain(a) ==
  /\ UNCHANGED <<rejecting, wire, answers>>
  /\ asks[a].status \in {"PENDING", "REJECTED"} /\ ~asks[a].stale
  /\ PlaceAtTable(Ordered(a))
  /\ asks' = [asks EXCEPT ![a].status = "APPROVED", ![a].check = Active']

\* approve_qr_request locks the row. What it finds resolved or too old it
\* stamps EXPIRED, whatever it was before; create_order looks the key up first.
ApproveRequest(a) ==
  /\ UNCHANGED <<rejecting, wire, answers>>
  /\ \/ /\ asks[a].status = "PENDING" /\ ~asks[a].stale
        /\ SeenByCreate(RequestKey(a)) = {}
        /\ PlaceAtTable(Ordered(a))
        /\ asks' = [asks EXCEPT ![a].status = "APPROVED", ![a].check = Active']
     \/ /\ asks[a].status = "REJECTED" \/ (asks[a].status = "PENDING" /\ asks[a].stale)
        /\ asks' = [asks EXCEPT ![a].status = "EXPIRED"]
        /\ UNCHANGED <<checks, rows>>

\* reject_qr_request reads the row without a lock and writes it at its commit,
\* so an approval can come between.
BeginReject(a) ==
  /\ asks[a].status = "PENDING" /\ a \notin rejecting
  /\ rejecting' = rejecting \cup {a}
  /\ UNCHANGED <<checks, rows, asks, wire, answers>>
CommitReject(a) ==
  /\ a \in rejecting
  /\ rejecting' = rejecting \ {a}
  /\ asks' = [asks EXCEPT ![a].status = "REJECTED"]
  /\ UNCHANGED <<checks, rows, wire, answers>>

\* close_table_session: a settled table is closed and free for the next party.
CloseTable ==
  /\ Active = 0 /\ \E c \in DOMAIN checks : checks[c] = "paid"
  /\ checks' = [c \in DOMAIN checks |-> "closed"]
  /\ UNCHANGED <<rows, asks, rejecting, wire, answers>>

ApiNext ==
  \/ \E m \in wire : ServeCreate(m) \/ ServeAppend(m) \/ ServePayment(m)
                     \/ ServeDelivery(m) \/ ServeRequest(m)
  \/ \E a \in DOMAIN asks : Age(a) \/ ApproveRequest(a) \/ BeginReject(a) \/ CommitReject(a)
  \/ CloseTable
=============================================================================
