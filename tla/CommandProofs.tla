--------------------------- MODULE CommandProofs ----------------------------
(***************************************************************************)
(* Ordering at one table, for any number of wishes, keys, checks, requests, *)
(* failed calls and reloads: what the screens announce is on record, no     *)
(* repeat books or collects twice, and a guest request becomes one order.   *)
(***************************************************************************)
EXTENDS Commands, SumProofs

KeysUpTo(n) == {DeviceKey(k) : k \in 1..n}
Routes == {<<Waiter, "orders">>, <<Waiter, "items">>, <<Till, "orders">>, <<Till, "items">>,
           <<Guest, "requests">>, <<Desk, "delivery">>, <<Cash, "payments">>}

\* A command as a screen makes it, with n keys drawn and c checks opened.
Fits(m, n, c) ==
  /\ m \in Command
  /\ m.key \in KeysUpTo(n)
  /\ m.check <= c
  /\ <<m.from, m.to>> \in Routes
  /\ IF m.to = "payments" THEN m.check # 0 /\ m.amount # 0 /\ m.items = {} ELSE m.amount = 0
Shows(v, c) == v.check <= c /\ (v.state # "none" => v.check # 0)

\* A row is booked under its command's key, or under its guest request's.
Traced(r, requests, n) ==
  IF r.from = Guest
  THEN /\ r.kind # "payment"
       /\ \E a \in DOMAIN requests : r.key = RequestKey(a) /\ r.items = requests[a].items
  ELSE r.key \in KeysUpTo(n)

Typed ==
  /\ ApiTypeOK /\ ClientTypeOK
  /\ \A m \in wire : Fits(m, minted, Len(checks))
  /\ \A d \in {Till, Cash, Desk} : \A m \in retained[d] :
       Fits(m, minted, Len(checks)) /\ m.from = d /\ m.open
  /\ \A d \in Devices :
       calling[d] # NoCommand =>
         Fits(calling[d], minted, Len(checks)) /\ calling[d].from = d /\ calling[d].open
  /\ \A d \in {Waiter, Till} : Shows(seen[d], Len(checks))
  /\ \A d \in Devices : Shows(answers[d].view, Len(checks))
  /\ \A d \in {Waiter, Guest} : draftKey[d] \in KeysUpTo(minted) \cup {NoKey}
  /\ \A a \in DOMAIN asks : asks[a].key \in KeysUpTo(minted)
  /\ \A a, b \in DOMAIN asks : asks[a].key = asks[b].key => a = b
  /\ \A i \in DOMAIN rows : Traced(rows[i], asks, minted)
  /\ \A n \in KeyIds : n > minted => announced[DeviceKey(n)] = 0

\* What the announcements rest on.
DeviceFor(key) == {d \in Devices :
    \/ calling[d] # NoCommand /\ calling[d].key = key
    \/ d \in {Waiter, Guest} /\ draftKey[d] = key /\ key # NoKey
    \/ d \in {Till, Cash, Desk} /\ \E m \in retained[d] : m.key = key}
Filed(book, requests, key) == \/ \E i \in DOMAIN book : book[i].key = key
                              \/ \E a \in DOMAIN requests : requests[a].key = key
OnFile(key) == Filed(rows, asks, key)
Answered ==
  /\ \A m \in wire : m.open => calling[m.from] = m /\ ~answers[m.from].come
  /\ \A d \in Devices : answers[d].ok =>
       answers[d].come /\ calling[d] # NoCommand /\ Filed(rows, asks, calling[d].key)
  /\ \A k \in DeviceKeys : \A d, e \in DeviceFor(k) : d = e /\ announced[k] = 0
  /\ \A d \in {Till, Cash, Desk} :
       /\ calling[d] # NoCommand => calling[d] \in retained[d]
       /\ \A m, n \in retained[d] : m.key = n.key => m = n

\* What the records of the till and the desk rest on.
KindsOf(to) == CASE to = "orders"   -> {"order", "append"}
                 [] to = "items"    -> {"append"}
                 [] to = "payments" -> {"payment"}
                 [] to = "delivery" -> {"order"}
                 [] to = "requests" -> {}
CommandsOf(d) == {m \in wire : m.from = d} \cup (IF d \in {Till, Cash, Desk} THEN retained[d] ELSE {})
Filing(d) ==
  /\ \A m, n \in CommandsOf(d) : m.key = n.key => m.to = n.to
  /\ \A m \in CommandsOf(d), i \in Of(d) : rows[i].key = m.key => rows[i].kind \in KindsOf(m.to)
  /\ \A i, j \in Of(d) : rows[i].key = rows[j].key => i = j
Told(d, key) == announced[key] = 1 \/ key \in Outstanding(d)
Kept ==
  /\ \A d \in {Till, Cash, Desk} : Filing(d)
  /\ \A d \in {Till, Cash} :
       /\ \A m, n \in retained[d] : Intent(m) = Intent(n) => m = n
       /\ reloads = 0 => /\ \A m \in CommandsOf(d) : Told(d, m.key)
                         /\ \A i \in Of(d) : Told(d, rows[i].key)

\* What the wishes rest on: whose a wish is, and the keys the guest asked for it under.
Has(d, w) == \/ \E m \in CommandsOf(d) : w \in m.items
             \/ \E i \in Of(d) : w \in rows[i].items
             \/ d \in {Waiter, Guest, Desk} /\ w \in draft[d]
             \/ d = Guest /\ Asked(w) # {}
Spent(w) == {m.key : m \in {n \in wire : n.from = Guest /\ w \in n.items}}
            \cup {asks[a].key : a \in Asked(w)}
Owned == \A d \in Devices, w \in Wishes : Has(d, w) => /\ w <= wanted
                                                       /\ \A e \in Devices : Has(e, w) => d = e
Spare == /\ \A w \in Wishes : Cardinality(Spent(w)) <= 1 + reloads
         /\ \A w \in draft[Guest] : Cardinality(Spent(w) \ {draftKey[Guest]}) <= reloads
Alone == \A d \in {Till, Cash, Desk} : \A w \in Wishes :
           /\ \A m, n \in CommandsOf(d) : w \in m.items /\ w \in n.items => m.key = n.key
           /\ \A m \in CommandsOf(d), i \in Of(d) : w \in m.items /\ w \in rows[i].items => m.key = rows[i].key
           /\ \A i, j \in Of(d) : w \in rows[i].items /\ w \in rows[j].items => rows[j].key = rows[i].key
Repeated == \A w \in draft[Desk] :
              /\ \A m \in CommandsOf(Desk) : w \in m.items => m.key \in Outstanding(Desk)
              /\ \A i \in Of(Desk) : w \in rows[i].items => rows[i].key \in Outstanding(Desk)
Smooth == faults = 0 /\ reloads = 0 =>
  /\ \A m \in wire : m.from = Waiter => m.open /\ \A i \in Of(Waiter) : m.items \cap rows[i].items = {}
  /\ \A i \in Of(Waiter) : draft[Waiter] \cap rows[i].items # {} => answers[Waiter].ok
  /\ \A i, j \in Of(Waiter) : rows[i].items \cap rows[j].items # {} => i = j
Wished == Owned /\ Spare /\ Alone /\ Repeated /\ Smooth

-----------------------------------------------------------------------------
(* Constants, records and sums.                                              *)

LEMMA OneMore ==
  ASSUME NEW S, IsFiniteSet(S), NEW x, NEW n \in Nat, Cardinality(S) <= n
  PROVE  IsFiniteSet(S \cup {x}) /\ Cardinality(S \cup {x}) <= n + 1
<1>1. Cardinality(S) \in Nat
  BY FS_CardinalityType
<1>2. /\ IsFiniteSet(S \cup {x})
      /\ Cardinality(S \cup {x}) = Cardinality(S) \/ Cardinality(S \cup {x}) = Cardinality(S) + 1
  BY FS_AddElement
<1> QED BY <1>1, <1>2

LEMMA DeviceNames ==
  /\ Waiter # Guest /\ Waiter # Desk /\ Waiter # Till /\ Waiter # Cash
  /\ Guest # Desk /\ Guest # Till /\ Guest # Cash
  /\ Desk # Till /\ Desk # Cash /\ Till # Cash
<1>1. \A a, b, c, d : Cardinality({a, b, c, d}) <= 4
  <2> SUFFICES ASSUME NEW a, NEW b, NEW c, NEW d PROVE Cardinality({a, b, c, d}) <= 4
    OBVIOUS
  <2>1. IsFiniteSet({a}) /\ Cardinality({a}) <= 1
    <3>1. IsFiniteSet({a}) /\ Cardinality({a}) = 1
      BY FS_Singleton, Zenon
    <3> QED BY <3>1
  <2>2. IsFiniteSet({a} \cup {b}) /\ Cardinality({a} \cup {b}) <= 2
    <3>1. Cardinality({a} \cup {b}) <= 1 + 1 /\ IsFiniteSet({a} \cup {b})
      BY <2>1, OneMore
    <3> QED BY <3>1
  <2> DEFINE U == {a} \cup {b}
             V == U \cup {c}
  <2>3. IsFiniteSet(V) /\ Cardinality(V) <= 3
    <3> HIDE DEF U
    <3>1. Cardinality(V) <= 2 + 1 /\ IsFiniteSet(V)
      BY <2>2, OneMore DEF U
    <3> QED BY <3>1
  <2>4. Cardinality(V \cup {d}) <= 4
    <3> HIDE DEF V
    <3>1. Cardinality(V \cup {d}) <= 3 + 1
      BY <2>3, OneMore
    <3> QED BY <3>1
  <2>5. V \cup {d} = {a, b, c, d}
    OBVIOUS
  <2> QED BY <2>4, <2>5
<1>2. \A a, b, c, d : Devices # {a, b, c, d}
  <2> SUFFICES ASSUME NEW a, NEW b, NEW c, NEW d, Devices = {a, b, c, d} PROVE FALSE
    OBVIOUS
  <2>1. Cardinality({a, b, c, d}) = 5
    BY DeviceAssumption
  <2>2. Cardinality({a, b, c, d}) <= 4
    BY <1>1
  <2> QED BY <2>1, <2>2
<1>3. Waiter # Guest /\ Waiter # Desk /\ Waiter # Till /\ Waiter # Cash
  <2>1. Waiter = Guest => Devices = {Waiter, Desk, Till, Cash}
    BY DEF Devices
  <2>2. Waiter = Desk => Devices = {Waiter, Guest, Till, Cash}
    BY DEF Devices
  <2>3. Waiter = Till => Devices = {Waiter, Guest, Desk, Cash}
    BY DEF Devices
  <2>4. Waiter = Cash => Devices = {Waiter, Guest, Desk, Till}
    BY DEF Devices
  <2> QED BY <1>2, <2>1, <2>2, <2>3, <2>4
<1>4. Guest # Desk /\ Guest # Till /\ Guest # Cash
  <2>1. Guest = Desk => Devices = {Waiter, Guest, Till, Cash}
    BY DEF Devices
  <2>2. Guest = Till => Devices = {Waiter, Guest, Desk, Cash}
    BY DEF Devices
  <2>3. Guest = Cash => Devices = {Waiter, Guest, Desk, Till}
    BY DEF Devices
  <2> QED BY <1>2, <2>1, <2>2, <2>3
<1>5. Desk # Till /\ Desk # Cash /\ Till # Cash
  <2>1. Desk = Till => Devices = {Waiter, Guest, Desk, Cash}
    BY DEF Devices
  <2>2. Desk = Cash => Devices = {Waiter, Guest, Desk, Till}
    BY DEF Devices
  <2>3. Till = Cash => Devices = {Waiter, Guest, Desk, Till}
    BY DEF Devices
  <2> QED BY <1>2, <2>1, <2>2, <2>3
<1> QED BY <1>3, <1>4, <1>5

\* Keys are told apart by their numbers, and guest requests' keys from devices'.
LEMMA KeyNames ==
  /\ \A k, n \in Nat : DeviceKey(k) = DeviceKey(n) => k = n
  /\ \A a, b \in Nat : RequestKey(a) = RequestKey(b) => a = b
  /\ \A a, n \in Nat : RequestKey(a) # DeviceKey(n)
  /\ \A n \in 0..MaxKeys : KeysUpTo(n) \subseteq DeviceKeys
  /\ NoKey \notin DeviceKeys
BY BoundAssumption DEF DeviceKey, RequestKey, KeysUpTo, DeviceKeys, KeyIds, NoKey

LEMMA NoCommandIsNone == NoCommand \notin Command
BY KeyNames DEF NoCommand, Command, Keys, DeviceKeys, KeyIds, DeviceKey, RequestKey

\* More keys and checks do not make a command or a view wrong.
LEMMA FitsOn ==
  ASSUME NEW n \in Nat, NEW k \in Nat, n <= k, NEW c \in Nat, NEW e \in Nat, c <= e
  PROVE  /\ \A m : Fits(m, n, c) => Fits(m, k, e)
         /\ \A v \in Views : Shows(v, c) => Shows(v, e)
         /\ KeysUpTo(n) \subseteq KeysUpTo(k)
<1>1. KeysUpTo(n) \subseteq KeysUpTo(k)
  BY DEF KeysUpTo
<1>2. \A m : Fits(m, n, c) => Fits(m, k, e)
  <2> SUFFICES ASSUME NEW m, Fits(m, n, c) PROVE Fits(m, k, e)
    OBVIOUS
  <2>1. m.check \in Nat
    BY BoundAssumption DEF Fits, Command
  <2> QED BY <1>1, <2>1 DEF Fits
<1>3. \A v \in Views : Shows(v, c) => Shows(v, e)
  BY BoundAssumption DEF Views, Shows
<1> QED BY <1>1, <1>2, <1>3

\* A command that its sender no longer waits for.
Same(m, n) == /\ m.from = n.from /\ m.to = n.to /\ m.check = n.check
              /\ m.key = n.key /\ m.items = n.items /\ m.amount = n.amount
LEMMA Closed ==
  ASSUME NEW m \in Command
  PROVE  LET q == [m EXCEPT !.open = FALSE] IN q \in Command /\ Same(q, m) /\ ~q.open
BY DEF Command, Same

LEMMA Alike ==
  ASSUME NEW m \in Command, NEW q, NEW n, NEW c, Same(m, q), Fits(q, n, c)
  PROVE  Fits(m, n, c)
BY DEF Same, Fits

LEMMA ItemsCounted == ASSUME NEW s \in SUBSET Wishes PROVE IsFiniteSet(s) /\ Cardinality(s) \in Nat
<1>1. IsFiniteSet(Wishes)
  BY BoundAssumption, FS_Interval DEF Wishes
<1> QED BY <1>1, FS_Subset, FS_CardinalityType

LEMMA RowFields ==
  \A r \in Row : /\ r.amount \in Nat /\ Cardinality(r.items) \in Nat /\ r.items \subseteq Wishes
               /\ r.check \in Nat /\ r.from \in Devices /\ r.key \in Keys
               /\ r.kind \in {"order", "append", "payment"}
<1>1. \A r \in Row : /\ r.amount \in Nat /\ r.items \in SUBSET Wishes
                   /\ r.check \in Nat /\ r.from \in Devices /\ r.key \in Keys
                   /\ r.kind \in {"order", "append", "payment"}
  <2> SUFFICES ASSUME NEW r \in Row
               PROVE  /\ r.amount \in Nat /\ r.items \in SUBSET Wishes
                      /\ r.check \in Nat /\ r.from \in Devices /\ r.key \in Keys
                      /\ r.kind \in {"order", "append", "payment"}
    OBVIOUS
  <2>1. r.amount \in Amounts \cup {0} /\ r.items \in SUBSET Wishes /\ r.check \in 0..MaxChecks
    BY DEF Row
  <2>2. r.from \in Devices /\ r.key \in Keys /\ r.kind \in {"order", "append", "payment"}
    BY DEF Row
  <2>3. r.amount \in Nat
    <3>1. \A x \in Amounts \cup {0} : x \in Nat
      BY BoundAssumption
    <3> QED BY <2>1, <3>1
  <2>4. r.check \in Nat
    BY <2>1
  <2> QED BY <2>1, <2>2, <2>3, <2>4
<1> QED BY <1>1, ItemsCounted

\* What is paid on a check, and what it comes to.
LEMMA Sums ==
  ASSUME NEW book \in Seq(Row), NEW c
  PROVE  PaidIn(book, c) \in Nat /\ TotalIn(book, c) \in Nat
<1> DEFINE f == [i \in DOMAIN book |-> IF book[i].check = c THEN book[i].amount ELSE 0]
           g == [i \in DOMAIN book |-> IF book[i].check = c THEN Cardinality(book[i].items) ELSE 0]
<1>1. IsFiniteSet(DOMAIN book) /\ DOMAIN f = DOMAIN book /\ DOMAIN g = DOMAIN book
  BY FS_Interval
<1>2. \A i \in DOMAIN book : f[i] \in Nat /\ g[i] \in Nat
  <2>1. \A i \in DOMAIN book : book[i] \in Row
    OBVIOUS
  <2> QED BY <2>1, RowFields
<1>4. SumFunctionOnSet(f, DOMAIN f) \in Nat /\ SumFunctionOnSet(g, DOMAIN g) \in Nat
  <2> HIDE DEF f, g
  <2> QED BY <1>1, <1>2, SumNumber
<1> QED BY <1>4 DEF PaidIn, TotalIn, SumFunction

LEMMA SumsGrow ==
  ASSUME NEW book \in Seq(Row), NEW r \in Row, NEW c
  PROVE  /\ PaidIn(Append(book, r), c) = PaidIn(book, c) + (IF r.check = c THEN r.amount ELSE 0)
         /\ TotalIn(Append(book, r), c) =
              TotalIn(book, c) + (IF r.check = c THEN Cardinality(r.items) ELSE 0)
<1> DEFINE more == Append(book, r)
           n == Len(book) + 1
           f(b) == [i \in DOMAIN b |-> IF b[i].check = c THEN b[i].amount ELSE 0]
           g(b) == [i \in DOMAIN b |-> IF b[i].check = c THEN Cardinality(b[i].items) ELSE 0]
<1>1. /\ IsFiniteSet(DOMAIN book) /\ n \notin DOMAIN book
      /\ DOMAIN more = (DOMAIN book) \cup {n}
      /\ more[n] = r /\ \A i \in DOMAIN book : more[i] = book[i]
  <2>1. IsFiniteSet(DOMAIN book)
    BY FS_Interval
  <2> QED BY <2>1
<1>2. \A i \in DOMAIN book : book[i] \in Row
  OBVIOUS
<1>3. \A q \in Row : q.amount \in Int /\ Cardinality(q.items) \in Int
  BY RowFields
<1> HIDE DEF more, n
<1>4. SumFunctionOnSet(f(more), DOMAIN more) = f(more)[n] + SumFunctionOnSet(f(book), DOMAIN book)
  <2> DEFINE ff == f(book)
             hh == f(more)
             S == DOMAIN book
  <2>1. \A i \in S : hh[i] \in Int /\ hh[i] = ff[i]
    BY <1>1, <1>2, <1>3
  <2>2. hh[n] \in Int
    BY <1>1, <1>3
  <2> HIDE DEF ff, hh, S
  <2>3. IsFiniteSet(S) /\ n \notin S
    BY <1>1 DEF S
  <2>4. SumFunctionOnSet(hh, S \cup {n}) = hh[n] + SumFunctionOnSet(ff, S)
    BY <2>1, <2>2, <2>3, SumExtend
  <2> QED BY <1>1, <2>4 DEF ff, hh, S
<1>5. SumFunctionOnSet(g(more), DOMAIN more) = g(more)[n] + SumFunctionOnSet(g(book), DOMAIN book)
  <2> DEFINE ff == g(book)
             hh == g(more)
             S == DOMAIN book
  <2>1. \A i \in S : hh[i] \in Int /\ hh[i] = ff[i]
    BY <1>1, <1>2, <1>3
  <2>2. hh[n] \in Int
    BY <1>1, <1>3
  <2> HIDE DEF ff, hh, S
  <2>3. IsFiniteSet(S) /\ n \notin S
    BY <1>1 DEF S
  <2>4. SumFunctionOnSet(hh, S \cup {n}) = hh[n] + SumFunctionOnSet(ff, S)
    BY <2>1, <2>2, <2>3, SumExtend
  <2> QED BY <1>1, <2>4 DEF ff, hh, S
<1>6. /\ PaidIn(more, c) = SumFunctionOnSet(f(more), DOMAIN more)
      /\ PaidIn(book, c) = SumFunctionOnSet(f(book), DOMAIN book)
      /\ TotalIn(more, c) = SumFunctionOnSet(g(more), DOMAIN more)
      /\ TotalIn(book, c) = SumFunctionOnSet(g(book), DOMAIN book)
  BY DEF PaidIn, TotalIn, SumFunction
<1>7. f(more)[n] = (IF r.check = c THEN r.amount ELSE 0)
  BY <1>1
<1>8. g(more)[n] = (IF r.check = c THEN Cardinality(r.items) ELSE 0)
  BY <1>1
<1> HIDE DEF f, g
<1>9. PaidIn(more, c) = PaidIn(book, c) + (IF r.check = c THEN r.amount ELSE 0)
  <2>1. PaidIn(book, c) \in Nat /\ r.amount \in Int
    BY <1>3, Sums
  <2> QED BY <1>4, <1>6, <1>7, <2>1
<1>10. TotalIn(more, c) = TotalIn(book, c) + (IF r.check = c THEN Cardinality(r.items) ELSE 0)
  <2>1. TotalIn(book, c) \in Nat /\ Cardinality(r.items) \in Int
    BY <1>3, Sums
  <2> QED BY <1>5, <1>6, <1>8, <2>1
<1> QED BY <1>9, <1>10 DEF more

\* A check that no row names.
LEMMA SumsNone ==
  ASSUME NEW book \in Seq(Row), NEW c, \A i \in DOMAIN book : book[i].check # c
  PROVE  PaidIn(book, c) = 0 /\ TotalIn(book, c) = 0
<1> DEFINE f == [i \in DOMAIN book |-> IF book[i].check = c THEN book[i].amount ELSE 0]
           g == [i \in DOMAIN book |-> IF book[i].check = c THEN Cardinality(book[i].items) ELSE 0]
<1>1. IsFiniteSet(DOMAIN book) /\ DOMAIN f = DOMAIN book /\ DOMAIN g = DOMAIN book
  BY FS_Interval
<1>2. \A i \in DOMAIN book : f[i] = 0 /\ g[i] = 0
  OBVIOUS
<1>3. SumFunctionOnSet(f, DOMAIN f) = 0 /\ SumFunctionOnSet(g, DOMAIN g) = 0
  <2> HIDE DEF f, g
  <2> QED BY <1>1, <1>2, SumZero
<1> QED BY <1>3 DEF PaidIn, TotalIn, SumFunction

-----------------------------------------------------------------------------
(* What a step of the API does, told by its effect.                          *)

Opens(c) == Active = 0 /\ c = Len(checks) + 1 /\ c <= MaxChecks /\ checks' = Append(checks, "open")
Joins(c) == MayAppend(c) /\ UNCHANGED checks
Pays(m)  == /\ MayPay(m)
            /\ checks' = [checks EXCEPT ![m.check] =
                            IF PaidOn(m.check) + m.amount >= TotalOf(m.check) THEN "paid" ELSE @]

\* An answer and nothing more.
Echoes(m) == /\ UNCHANGED <<checks, rows, asks, rejecting>>
             /\ \E ok \in BOOLEAN, c \in 0..Len(checks) : Answer(m, ok, c) /\ (ok => OnFile(m.key))

\* A row under a key that has none of its kind.
Books(m) ==
  \E kind \in KindsOf(m.to), c \in 0..MaxChecks, nested \in BOOLEAN :
    /\ Under(KindsOf(m.to), m.key) = {}
    /\ \/ kind = "order" /\ Opens(c)
       \/ kind = "append" /\ Joins(c)
       \/ kind = "order" /\ c = 0 /\ UNCHANGED checks
       \/ kind = "payment" /\ c = m.check /\ Pays(m)
    /\ NewRow(kind, m, c, nested)
    /\ UNCHANGED <<asks, rejecting>>
    /\ \E shown \in 0..Len(checks') : Answer(m, TRUE, shown)

Requests(m) ==
  /\ m.to = "requests" /\ AsksUnder(m.key) = {}
  /\ asks' = Append(asks, [key |-> m.key, items |-> m.items, check |-> 0,
                           stale |-> FALSE, status |-> "PENDING"])
  /\ UNCHANGED <<checks, rows, rejecting>>
  /\ Answer(m, TRUE, 0)

Approves(a) ==
  \E kind \in {"order", "append"}, c \in 1..MaxChecks, nested \in BOOLEAN :
    /\ Under({"order", "append"}, RequestKey(a)) = {}
    /\ (kind = "order" /\ Opens(c)) \/ (kind = "append" /\ Joins(c))
    /\ rows' = Append(rows, [kind |-> kind, key |-> RequestKey(a), from |-> Guest, check |-> c,
                             items |-> asks[a].items, amount |-> 0, nested |-> nested])
    /\ asks' = [asks EXCEPT ![a].status = "APPROVED", ![a].check = c]
    /\ UNCHANGED <<rejecting, wire, answers>>

\* A request is aged, expired or rejected; a rejection begins.
Marks(a) ==
  /\ \/ asks' = asks
     \/ asks' = [asks EXCEPT ![a].stale = TRUE]
     \/ asks' = [asks EXCEPT ![a].status = "EXPIRED"]
     \/ asks' = [asks EXCEPT ![a].status = "REJECTED"]
  /\ rejecting' \subseteq rejecting \cup {a}
  /\ UNCHANGED <<checks, rows, wire, answers>>

LEMMA ActiveCheck ==
  ASSUME checks \in Seq({"open", "paid", "closed"})
  PROVE  /\ Active \in 0..Len(checks)
         /\ Active # 0 => Active \in DOMAIN checks /\ checks[Active] = "open"
         /\ Active = 0 => \A c \in DOMAIN checks : checks[c] # "open"
BY DEF Active

LEMMA OpenedIsActive ==
  ASSUME checks \in Seq({"open", "paid", "closed"}), NEW c, Opens(c)
  PROVE  Active' = c
<1>1. \A k \in DOMAIN checks : checks[k] # "open"
  BY ActiveCheck DEF Opens
<1>2. /\ DOMAIN checks' = 1..(Len(checks) + 1) /\ checks'[Len(checks) + 1] = "open"
      /\ \A k \in DOMAIN checks : checks'[k] = checks[k]
  BY DEF Opens
<1>3. \A k \in DOMAIN checks' : checks'[k] = "open" <=> k = c
  BY <1>1, <1>2 DEF Opens
<1>4. c \in DOMAIN checks'
  BY <1>2 DEF Opens
<1> QED BY <1>3, <1>4 DEF Active

LEMMA Placing ==
  ASSUME ApiTypeOK, NEW m, PlaceAtTable(m)
  PROVE  \E kind \in {"order", "append"}, c \in 1..MaxChecks, nested \in BOOLEAN :
           /\ (kind = "order" /\ Opens(c)) \/ (kind = "append" /\ Joins(c))
           /\ NewRow(kind, m, c, nested)
           /\ Active' = c
           /\ UNCHANGED rejecting
<1>1. CASE OpenCheck(m)
  <2> DEFINE c == Len(checks) + 1
  <2>1. c \in 1..MaxChecks /\ Opens(c) /\ NewRow("order", m, c, FALSE) /\ UNCHANGED rejecting
    <3>1. Len(checks) \in Nat /\ Len(checks) < MaxChecks
      BY <1>1 DEF OpenCheck, ApiTypeOK
    <3>2. c \in 1..MaxChecks /\ c <= MaxChecks
      BY <3>1, BoundAssumption
    <3> QED BY <1>1, <3>2, Zenon DEF OpenCheck, Opens
  <2>2. Active' = c
    BY <2>1, OpenedIsActive DEF ApiTypeOK
  <2>3. FALSE \in BOOLEAN
    OBVIOUS
  <2> HIDE DEF c
  <2> QED BY <2>1, <2>2, <2>3
<1>2. CASE AppendItems(m, Active, TRUE)
  <2> DEFINE c == Active
  <2>1. Joins(c) /\ NewRow("append", m, c, TRUE) /\ UNCHANGED rejecting /\ UNCHANGED checks
    BY <1>2 DEF AppendItems, Joins
  <2>2. Active' = c
    BY <2>1 DEF Active
  <2>3. c \in 1..MaxChecks
    BY <2>1, BoundAssumption DEF Joins, MayAppend, ApiTypeOK
  <2> HIDE DEF c
  <2> QED BY <2>1, <2>2, <2>3
<1> QED BY <1>1, <1>2 DEF PlaceAtTable

LEMMA FitsCheck ==
  ASSUME Typed, NEW m \in wire
  PROVE  m.check \in 0..Len(checks) /\ m.check \in 0..MaxChecks
<1>1. m \in Command /\ m.check <= Len(checks)
  BY DEF Typed, Fits
<1>2. m.check \in 0..MaxChecks
  BY <1>1 DEF Command
<1> QED BY <1>1, <1>2 DEF Typed, ApiTypeOK

LEMMA PaysKeeps ==
  ASSUME checks \in Seq({"open", "paid", "closed"}), NEW m, Pays(m)
  PROVE  /\ checks' \in Seq({"open", "paid", "closed"}) /\ Len(checks') = Len(checks)
         /\ \A c \in DOMAIN checks : c # m.check => checks'[c] = checks[c]
<1> DEFINE States == {"open", "paid", "closed"}
<1>1. PICK v : checks' = [checks EXCEPT ![m.check] = v] /\ (m.check \in DOMAIN checks => v \in States)
  <2>1. m.check \in DOMAIN checks => checks[m.check] \in States
    OBVIOUS
  <2> QED BY <2>1 DEF Pays
<1>2. DOMAIN checks' = DOMAIN checks /\ DOMAIN checks = 1..Len(checks)
  BY <1>1
<1>3. \A c \in DOMAIN checks : checks'[c] \in States /\ (c # m.check => checks'[c] = checks[c])
  BY <1>1
<1>4. checks' \in [1..Len(checks) -> States]
  BY <1>1, <1>2, <1>3
<1> QED BY <1>2, <1>3, <1>4

LEMMA Refused ==
  ASSUME Typed, NEW m \in wire, Refuse(m)
  PROVE  Echoes(m)
<1>1. 0 \in 0..Len(checks)
  BY DEF Typed, ApiTypeOK
<1>2. FALSE \in BOOLEAN
  OBVIOUS
<1> QED BY <1>1, <1>2 DEF Refuse, Echoes

LEMMA CreateServed ==
  ASSUME Typed, NEW m \in wire, ServeCreate(m)
  PROVE  Echoes(m) \/ Books(m)
<1>1. CASE SeenByCreate(m.key) # {} /\ CreateMatches(m) /\ Replay(m, Receipt(m.key))
  <2>1. Receipt(m.key) \in 0..Len(checks)
    <3>1. \A r \in Recorded : r.check \in 0..Len(checks)
      <4>1. \A i \in DOMAIN rows : rows[i] \in Row /\ rows[i].check <= Len(checks)
        BY DEF Typed, ApiTypeOK
      <4> QED BY <4>1, RowFields DEF Recorded
    <3>2. PICK r \in Under({"order", "append"}, m.key) : TRUE
      BY <1>1 DEF SeenByCreate
    <3>3. Under({"order"}, m.key) = {} => Under({"append"}, m.key) # {}
      BY <3>2 DEF Under
    <3>4. Under({"order"}, m.key) \subseteq Recorded /\ Under({"append"}, m.key) \subseteq Recorded
      BY DEF Under
    <3> QED BY <3>1, <3>3, <3>4 DEF Receipt
  <2>2. OnFile(m.key)
    BY <1>1 DEF SeenByCreate, OnFile, Filed, Under, Recorded
  <2>3. TRUE \in BOOLEAN
    OBVIOUS
  <2> QED BY <1>1, <2>1, <2>2, <2>3 DEF Replay, Echoes
<1>2. CASE Refuse(m)
  BY <1>2, Refused
<1>3. CASE m.to = "orders" /\ SeenByCreate(m.key) = {} /\ PlaceAtTable(m) /\ UNCHANGED asks /\ Answer(m, TRUE, Active')
  <2>1. PICK kind \in {"order", "append"}, c \in 1..MaxChecks, nested \in BOOLEAN :
           /\ (kind = "order" /\ Opens(c)) \/ (kind = "append" /\ Joins(c))
           /\ NewRow(kind, m, c, nested)
           /\ Active' = c
           /\ UNCHANGED rejecting
    BY <1>3, Placing DEF Typed
  <2>2. KindsOf(m.to) = {"order", "append"}
    BY <1>3 DEF KindsOf
  <2>3. c \in 0..Len(checks')
    BY <2>1 DEF Opens, Joins, MayAppend, Typed, ApiTypeOK
  <2>4. c \in 0..MaxChecks /\ kind \in KindsOf(m.to) /\ Under(KindsOf(m.to), m.key) = {}
    BY <1>3, <2>1, <2>2 DEF SeenByCreate
  <2>5. Answer(m, TRUE, c) /\ UNCHANGED <<asks, rejecting>>
    BY <1>3, <2>1
  <2> QED BY <2>1, <2>3, <2>4, <2>5, Zenon DEF Books
<1> QED BY <1>1, <1>2, <1>3 DEF ServeCreate

LEMMA AppendServed ==
  ASSUME Typed, NEW m \in wire, ServeAppend(m)
  PROVE  Echoes(m) \/ Books(m)
<1>1. CASE AppendMatches(m) /\ Replay(m, m.check)
  <2>1. m.check \in 0..Len(checks)
    BY FitsCheck
  <2>2. OnFile(m.key)
    BY <1>1 DEF AppendMatches, OnFile, Filed, Under, Recorded
  <2>3. TRUE \in BOOLEAN
    OBVIOUS
  <2> QED BY <1>1, <2>1, <2>2, <2>3 DEF Replay, Echoes
<1>2. CASE Refuse(m)
  BY <1>2, Refused
<1>3. CASE /\ m.to = "items" /\ Under({"append"}, m.key) = {}
           /\ AppendItems(m, m.check, FALSE) /\ UNCHANGED asks /\ Answer(m, TRUE, m.check)
  <2>1. m.check \in 0..Len(checks) /\ m.check \in 0..MaxChecks
    BY FitsCheck
  <2>2. Joins(m.check) /\ NewRow("append", m, m.check, FALSE) /\ UNCHANGED <<asks, rejecting>>
    BY <1>3 DEF AppendItems, Joins
  <2>3. KindsOf(m.to) = {"append"}
    BY <1>3 DEF KindsOf
  <2>4. m.check \in 0..Len(checks')
    BY <2>1, <2>2 DEF Joins
  <2>5. FALSE \in BOOLEAN /\ "append" \in KindsOf(m.to) /\ Under(KindsOf(m.to), m.key) = {}
    BY <1>3, <2>3
  <2> QED BY <1>3, <2>1, <2>2, <2>4, <2>5, Zenon DEF Books
<1> QED BY <1>1, <1>2, <1>3 DEF ServeAppend

LEMMA PaymentServed ==
  ASSUME Typed, NEW m \in wire, ServePayment(m)
  PROVE  Echoes(m) \/ Books(m)
<1>1. CASE PaymentMatches(m) /\ Replay(m, m.check)
  <2>1. m.check \in 0..Len(checks)
    BY FitsCheck
  <2>2. OnFile(m.key)
    BY <1>1 DEF PaymentMatches, OnFile, Filed, Under, Recorded
  <2>3. TRUE \in BOOLEAN
    OBVIOUS
  <2> QED BY <1>1, <2>1, <2>2, <2>3 DEF Replay, Echoes
<1>2. CASE Refuse(m)
  BY <1>2, Refused
<1>3. CASE /\ m.to = "payments" /\ Under({"payment"}, m.key) = {} /\ MayPay(m)
           /\ NewRow("payment", m, m.check, FALSE)
           /\ checks' = [checks EXCEPT ![m.check] =
                           IF PaidOn(m.check) + m.amount >= TotalOf(m.check) THEN "paid" ELSE @]
           /\ UNCHANGED <<asks, rejecting>>
           /\ Answer(m, TRUE, m.check)
  <2>1. m.check \in 0..Len(checks) /\ m.check \in 0..MaxChecks
    BY FitsCheck
  <2>2. Pays(m)
    BY <1>3 DEF Pays
  <2>3. KindsOf(m.to) = {"payment"}
    BY <1>3 DEF KindsOf
  <2>4. m.check \in 0..Len(checks')
    <3>1. checks \in Seq({"open", "paid", "closed"})
      BY DEF Typed, ApiTypeOK
    <3>2. Len(checks') = Len(checks)
      BY <3>1, <2>2, PaysKeeps
    <3> QED BY <2>1, <3>2
  <2>5. FALSE \in BOOLEAN /\ "payment" \in KindsOf(m.to) /\ Under(KindsOf(m.to), m.key) = {}
    BY <1>3, <2>3
  <2> QED BY <1>3, <2>1, <2>2, <2>4, <2>5, Zenon DEF Books
<1> QED BY <1>1, <1>2, <1>3 DEF ServePayment

LEMMA DeliveryServed ==
  ASSUME Typed, NEW m \in wire, ServeDelivery(m)
  PROVE  Echoes(m) \/ Books(m)
<1>0. 0 \in 0..Len(checks) /\ 0 \in 0..MaxChecks
  BY BoundAssumption DEF Typed, ApiTypeOK
<1>1. CASE Under({"order"}, m.key) # {} /\ Replay(m, 0)
  <2>2. OnFile(m.key)
    BY <1>1 DEF OnFile, Filed, Under, Recorded
  <2>3. TRUE \in BOOLEAN
    OBVIOUS
  <2> QED BY <1>0, <1>1, <2>2, <2>3 DEF Replay, Echoes
<1>2. CASE Refuse(m)
  BY <1>2, Refused
<1>3. CASE /\ m.to = "delivery" /\ Under({"order"}, m.key) = {}
           /\ NewRow("order", m, 0, FALSE)
           /\ UNCHANGED <<checks, asks, rejecting>>
           /\ Answer(m, TRUE, 0)
  <2>3. KindsOf(m.to) = {"order"}
    BY <1>3 DEF KindsOf
  <2>4. 0 \in 0..Len(checks')
    BY <1>0, <1>3
  <2>5. FALSE \in BOOLEAN /\ "order" \in KindsOf(m.to) /\ Under(KindsOf(m.to), m.key) = {}
    BY <1>3, <2>3
  <2>6. UNCHANGED checks /\ UNCHANGED <<asks, rejecting>> /\ 0 = 0
    BY <1>3
  <2> QED BY <1>0, <1>3, <2>4, <2>5, <2>6, Zenon DEF Books
<1> QED BY <1>1, <1>2, <1>3 DEF ServeDelivery

LEMMA RequestServed ==
  ASSUME Typed, NEW m \in wire, ServeRequest(m)
  PROVE  Echoes(m) \/ Requests(m)
<1>0. 0 \in 0..Len(checks)
  BY DEF Typed, ApiTypeOK
<1>1. CASE (\E a \in AsksUnder(m.key) : Body(asks[a].items) = Body(m.items)) /\ Replay(m, 0)
  <2>2. OnFile(m.key)
    BY <1>1 DEF OnFile, Filed, AsksUnder
  <2>3. TRUE \in BOOLEAN
    OBVIOUS
  <2> QED BY <1>0, <1>1, <2>2, <2>3 DEF Replay, Echoes
<1>2. CASE Refuse(m)
  BY <1>2, Refused
<1>3. CASE /\ m.to = "requests" /\ AsksUnder(m.key) = {}
           /\ asks' = Append(asks, [key |-> m.key, items |-> m.items, check |-> 0,
                                    stale |-> FALSE, status |-> "PENDING"])
           /\ UNCHANGED <<checks, rows, rejecting>>
           /\ Answer(m, TRUE, 0)
  BY <1>3, Zenon DEF Requests
<1> QED BY <1>1, <1>2, <1>3 DEF ServeRequest

LEMMA Approving ==
  ASSUME Typed, NEW a \in DOMAIN asks, ApproveRequest(a)
  PROVE  Approves(a) \/ Marks(a)
<1>1. CASE /\ SeenByCreate(RequestKey(a)) = {}
           /\ PlaceAtTable(Ordered(a))
           /\ asks' = [asks EXCEPT ![a].status = "APPROVED", ![a].check = Active']
           /\ UNCHANGED <<rejecting, wire, answers>>
  <2>1. PICK g : g = Ordered(a)
    OBVIOUS
  <2>2. PlaceAtTable(g)
    BY <1>1, <2>1
  <2>3. PICK kind \in {"order", "append"}, c \in 1..MaxChecks, nested \in BOOLEAN :
           /\ (kind = "order" /\ Opens(c)) \/ (kind = "append" /\ Joins(c))
           /\ NewRow(kind, g, c, nested)
           /\ Active' = c
           /\ UNCHANGED rejecting
    BY <2>2, Placing DEF Typed
  <2>4. rows' = Append(rows, [kind |-> kind, key |-> RequestKey(a), from |-> Guest, check |-> c,
                             items |-> asks[a].items, amount |-> 0, nested |-> nested])
    BY <2>1, <2>3 DEF NewRow, Ordered
  <2>5. asks' = [asks EXCEPT ![a].status = "APPROVED", ![a].check = c]
    BY <1>1, <2>3
  <2>6. Under({"order", "append"}, RequestKey(a)) = {}
    BY <1>1 DEF SeenByCreate
  <2> QED BY <1>1, <2>3, <2>4, <2>5, <2>6, Zenon DEF Approves
<1>2. CASE /\ asks' = [asks EXCEPT ![a].status = "EXPIRED"]
           /\ UNCHANGED <<checks, rows, rejecting, wire, answers>>
  <2>1. rejecting' \subseteq rejecting \cup {a}
    BY <1>2
  <2> QED BY <1>2, <2>1 DEF Marks
<1> QED BY <1>1, <1>2 DEF ApproveRequest

\* Every step of the API is one of these.
LEMMA ApiSteps ==
  ASSUME Typed, ApiNext
  PROVE  \/ \E m \in wire : Echoes(m) \/ Books(m) \/ Requests(m)
         \/ \E a \in DOMAIN asks : Approves(a) \/ Marks(a)
         \/ CloseTable
<1>1. ASSUME NEW m \in wire, \/ ServeCreate(m) \/ ServeAppend(m) \/ ServePayment(m)
                             \/ ServeDelivery(m) \/ ServeRequest(m)
      PROVE  Echoes(m) \/ Books(m) \/ Requests(m)
  BY <1>1, CreateServed, AppendServed, PaymentServed, DeliveryServed, RequestServed
<1>2. ASSUME NEW a \in DOMAIN asks,
             Age(a) \/ ApproveRequest(a) \/ BeginReject(a) \/ CommitReject(a)
      PROVE  Approves(a) \/ Marks(a)
  <2>1. CASE Age(a)
    <3>1. asks' = [asks EXCEPT ![a].stale = TRUE] /\ UNCHANGED <<checks, rows, wire, answers>>
      BY <2>1 DEF Age
    <3>2. rejecting' \subseteq rejecting \cup {a}
      BY <2>1 DEF Age
    <3> QED BY <3>1, <3>2 DEF Marks
  <2>2. CASE BeginReject(a)
    BY <2>2 DEF BeginReject, Marks
  <2>3. CASE CommitReject(a)
    BY <2>3 DEF CommitReject, Marks
  <2> QED BY <1>2, <2>1, <2>2, <2>3, Approving
<1> QED BY <1>1, <1>2 DEF ApiNext

-----------------------------------------------------------------------------
(* Types: the steps of the API.                                              *)

LEMMA ViewTyped ==
  ASSUME NEW states \in Seq({"open", "paid", "closed"}), Len(states) <= MaxChecks,
         NEW book \in Seq(Row), NEW c \in 0..Len(states)
  PROVE  View(states, book, c) \in Views /\ Shows(View(states, book, c), Len(states))
<1>1. CASE c = 0
  BY <1>1, BoundAssumption DEF View, NoView, Views, Shows
<1>2. CASE c # 0
  <2> DEFINE due == TotalIn(book, c) - PaidIn(book, c)
  <2>1. due \in Int
    BY Sums
  <2>2. c \in 0..MaxChecks /\ states[c] \in {"none", "open", "paid", "closed"}
    BY <1>2, BoundAssumption
  <2>3. View(states, book, c) = [check |-> c, state |-> states[c], due |-> due]
    BY <1>2 DEF View
  <2> HIDE DEF due
  <2>4. c <= Len(states)
    OBVIOUS
  <2> QED BY <1>2, <2>1, <2>2, <2>3, <2>4 DEF Views, Shows
<1> QED BY <1>1, <1>2

LEMMA NoAnswerTyped ==
  /\ NoAnswer \in [ok: BOOLEAN, come: BOOLEAN, view: Views]
  /\ \A c \in Nat : Shows(NoAnswer.view, c)
  /\ NoAnswer.ok = FALSE /\ NoAnswer.come = FALSE
<1>1. NoView \in Views /\ \A c \in Nat : Shows(NoView, c)
  BY BoundAssumption DEF NoView, Views, Shows
<1> QED BY <1>1 DEF NoAnswer

LEMMA Answering ==
  ASSUME Typed, NEW m \in wire, NEW ok \in BOOLEAN, NEW c \in 0..Len(checks'), Answer(m, ok, c),
         checks' \in Seq({"open", "paid", "closed"}), Len(checks') <= MaxChecks,
         Len(checks) <= Len(checks'), rows' \in Seq(Row)
  PROVE  /\ wire' \subseteq wire
         /\ answers' \in [Devices -> [ok: BOOLEAN, come: BOOLEAN, view: Views]]
         /\ \A d \in Devices : Shows(answers'[d].view, Len(checks'))
<1> DEFINE v == IF m.from = Till THEN View(checks', rows', c) ELSE NoView
           reply == [ok |-> ok, come |-> TRUE, view |-> v]
<1>1. v \in Views /\ Shows(v, Len(checks'))
  <2>1. NoView \in Views /\ Shows(NoView, Len(checks'))
    BY BoundAssumption DEF NoView, Views, Shows
  <2> QED BY <2>1, ViewTyped
<1> HIDE DEF v
<1>2. reply \in [ok: BOOLEAN, come: BOOLEAN, view: Views] /\ reply.view = v
  BY <1>1
<1>3. wire' \subseteq wire
  BY DEF Answer
<1>4. answers' = IF m.open THEN [answers EXCEPT ![m.from] = reply] ELSE answers
  BY DEF Answer, v
<1> HIDE DEF reply
<1>5. answers \in [Devices -> [ok: BOOLEAN, come: BOOLEAN, view: Views]]
  BY DEF Typed, ApiTypeOK
<1>6. \A d \in Devices : Shows(answers[d].view, Len(checks'))
  <2>1. \A d \in Devices : Shows(answers[d].view, Len(checks)) /\ answers[d].view \in Views
    BY <1>5 DEF Typed
  <2>2. Len(checks) \in Nat /\ Len(checks') \in Nat
    BY DEF Typed, ApiTypeOK
  <2> QED BY <2>1, <2>2, FitsOn
<1>7. answers' \in [Devices -> [ok: BOOLEAN, come: BOOLEAN, view: Views]]
  BY <1>2, <1>4, <1>5
<1>8. \A d \in Devices : answers'[d] = answers[d] \/ answers'[d] = reply
  BY <1>4, <1>5
<1> QED BY <1>1, <1>2, <1>3, <1>6, <1>7, <1>8

LEMMA TracedOn ==
  ASSUME NEW p, NEW q, NEW n \in Nat, NEW k \in Nat, n <= k,
         \A a \in DOMAIN p : a \in DOMAIN q /\ q[a].items = p[a].items
  PROVE  \A r : Traced(r, p, n) => Traced(r, q, k)
<1>1. KeysUpTo(n) \subseteq KeysUpTo(k)
  BY DEF KeysUpTo
<1> QED BY <1>1 DEF Traced

\* What is left of the types when the screens stand still.
LEMMA ApiCarries ==
  ASSUME Typed, UNCHANGED clientVars, ApiTypeOK', wire' \subseteq wire, Len(checks) <= Len(checks'),
         \A d \in Devices : Shows(answers'[d].view, Len(checks')),
         \A a \in DOMAIN asks' : asks'[a].key \in KeysUpTo(minted),
         \A a, b \in DOMAIN asks' : asks'[a].key = asks'[b].key => a = b,
         \A i \in DOMAIN rows' : Traced(rows'[i], asks', minted)
  PROVE  Typed'
<1>1. /\ minted \in Nat /\ minted' = minted
      /\ Len(checks) \in Nat /\ Len(checks') \in Nat
  BY DEF Typed, ApiTypeOK, ClientTypeOK, clientVars
<1>2. /\ \A m : Fits(m, minted, Len(checks)) => Fits(m, minted', Len(checks'))
      /\ \A v \in Views : Shows(v, Len(checks)) => Shows(v, Len(checks'))
  BY <1>1, FitsOn
<1>3. ClientTypeOK'
  BY DEF Typed, ClientTypeOK, clientVars
<1>4. \A m \in wire' : Fits(m, minted', Len(checks'))
  BY <1>2 DEF Typed
<1>5. \A d \in {Till, Cash, Desk} : \A m \in retained'[d] :
        Fits(m, minted', Len(checks')) /\ m.from = d /\ m.open
  BY <1>2 DEF Typed, clientVars
<1>6. \A d \in Devices : calling'[d] # NoCommand =>
        Fits(calling'[d], minted', Len(checks')) /\ calling'[d].from = d /\ calling'[d].open
  BY <1>2 DEF Typed, clientVars
<1>7. \A d \in {Waiter, Till} : Shows(seen'[d], Len(checks'))
  <2>1. \A d \in {Waiter, Till} : seen[d] \in Views /\ Shows(seen[d], Len(checks)) /\ seen' = seen
    BY DEF Typed, ClientTypeOK, clientVars
  <2> QED BY <1>2, <2>1
<1>8. \A d \in {Waiter, Guest} : draftKey'[d] \in KeysUpTo(minted') \cup {NoKey}
  BY <1>1 DEF Typed, clientVars
<1>9. \A n \in KeyIds : n > minted' => announced'[DeviceKey(n)] = 0
  BY <1>1 DEF Typed, clientVars
<1> QED BY <1>1, <1>3, <1>4, <1>5, <1>6, <1>7, <1>8, <1>9, Zenon DEF Typed

LEMMA Fewer ==
  ASSUME NEW S, NEW T, IsFiniteSet(T), NEW f \in [S -> T], \A x, y \in S : f[x] = f[y] => x = y
  PROVE  IsFiniteSet(S) /\ Cardinality(S) <= Cardinality(T)
<1>1. f \in Injection(S, T)
  BY DEF Injection, IsInjective
<1> QED BY <1>1, FS_Injection

\* The answers and the wire, whatever else was done.
LEMMA AskFields == \A a \in Ask : /\ a.key \in Keys /\ a.items \in SUBSET Wishes
                                  /\ a.check \in 0..MaxChecks /\ a.stale \in BOOLEAN
                                  /\ a.status \in {"PENDING", "APPROVED", "REJECTED", "EXPIRED"}
BY DEF Ask

LEMMA AskAged ==
  ASSUME NEW a \in Ask
  PROVE  LET q == [a EXCEPT !.stale = TRUE] IN
           q \in Ask /\ q.key = a.key /\ q.items = a.items /\ q.check = a.check /\ q.status = a.status
BY DEF Ask
LEMMA AskMarked ==
  ASSUME NEW a \in Ask, NEW s \in {"EXPIRED", "REJECTED"}
  PROVE  LET q == [a EXCEPT !.status = s] IN
           q \in Ask /\ q.key = a.key /\ q.items = a.items /\ q.check = a.check /\ q.status = s
BY DEF Ask
LEMMA AskApproved ==
  ASSUME NEW a \in Ask, NEW c \in 0..MaxChecks
  PROVE  LET q == [a EXCEPT !.status = "APPROVED", !.check = c] IN
           q \in Ask /\ q.key = a.key /\ q.items = a.items /\ q.check = c
BY DEF Ask

LEMMA ChecksOn ==
  ASSUME Typed, NEW m, NEW c, Opens(c) \/ Joins(c) \/ Pays(m) \/ UNCHANGED checks
  PROVE  /\ checks' \in Seq({"open", "paid", "closed"}) /\ Len(checks') <= MaxChecks
         /\ Len(checks) <= Len(checks') /\ Len(checks) \in Nat /\ Len(checks') \in Nat
         /\ Opens(c) \/ Joins(c) => c <= Len(checks')
<1>1. checks \in Seq({"open", "paid", "closed"}) /\ Len(checks) <= MaxChecks
  BY DEF Typed, ApiTypeOK
<1>2. CASE Opens(c)
  <2>1. checks' \in Seq({"open", "paid", "closed"}) /\ Len(checks') = Len(checks) + 1 /\ Len(checks) + 1 <= MaxChecks
    BY <1>1, <1>2 DEF Opens
  <2>2. c = Len(checks) + 1
    BY <1>2 DEF Opens
  <2> QED BY <1>1, <2>1, <2>2
<1>3. CASE Joins(c)
  BY <1>1, <1>3 DEF Joins, MayAppend
<1>4. CASE Pays(m) /\ ~Opens(c) /\ ~Joins(c)
  BY <1>1, <1>4, PaysKeeps
<1>5. CASE UNCHANGED checks /\ ~Opens(c) /\ ~Joins(c)
  BY <1>1, <1>5
<1> QED BY <1>2, <1>3, <1>4, <1>5

LEMMA RowsOn ==
  ASSUME Typed, NEW r \in Row, rows' = Append(rows, r), r.check <= Len(checks'),
         Len(checks) <= Len(checks'), Len(checks') \in Nat
  PROVE  /\ rows' \in Seq(Row) /\ \A i \in DOMAIN rows' : rows'[i].check <= Len(checks')
         /\ DOMAIN rows' = (DOMAIN rows) \cup {Len(rows) + 1}
         /\ rows'[Len(rows) + 1] = r /\ \A i \in DOMAIN rows : rows'[i] = rows[i]
         /\ Len(rows) + 1 \notin DOMAIN rows
<1>1. rows \in Seq(Row) /\ \A i \in DOMAIN rows : rows[i].check <= Len(checks)
  BY DEF Typed, ApiTypeOK
<1>2. Len(checks) \in Nat
  BY DEF Typed, ApiTypeOK
<1>3. \A i \in DOMAIN rows : rows[i].check \in Nat
  BY <1>1, RowFields
<1>4. /\ rows' \in Seq(Row)
      /\ DOMAIN rows' = (DOMAIN rows) \cup {Len(rows) + 1}
      /\ rows'[Len(rows) + 1] = r /\ \A i \in DOMAIN rows : rows'[i] = rows[i]
      /\ Len(rows) + 1 \notin DOMAIN rows
  BY <1>1
<1> QED BY <1>1, <1>2, <1>3, <1>4

LEMMA EchoesTyped ==
  ASSUME Typed, UNCHANGED clientVars, NEW m \in wire, Echoes(m) PROVE Typed'
<1>1. PICK ok \in BOOLEAN, c \in 0..Len(checks) : Answer(m, ok, c)
  BY Zenon DEF Echoes
<1>2. UNCHANGED <<checks, rows, asks, rejecting>>
  BY Zenon DEF Echoes
<1>3. /\ checks' \in Seq({"open", "paid", "closed"}) /\ Len(checks') <= MaxChecks
      /\ Len(checks) <= Len(checks') /\ rows' \in Seq(Row) /\ c \in 0..Len(checks')
      /\ \A i \in DOMAIN rows' : rows'[i].check <= Len(checks')
      /\ asks' \in Seq(Ask) /\ Len(asks') <= MaxKeys /\ rejecting' \subseteq DOMAIN asks'
  BY <1>2 DEF Typed, ApiTypeOK
<1>4. /\ wire' \subseteq wire
      /\ answers' \in [Devices -> [ok: BOOLEAN, come: BOOLEAN, view: Views]]
      /\ \A d \in Devices : Shows(answers'[d].view, Len(checks'))
  BY <1>1, <1>3, Answering
<1>5. ApiTypeOK'
  BY <1>3, <1>4 DEF ApiTypeOK, Typed
<1>6. /\ \A a \in DOMAIN asks' : asks'[a].key \in KeysUpTo(minted)
      /\ \A a, b \in DOMAIN asks' : asks'[a].key = asks'[b].key => a = b
      /\ \A i \in DOMAIN rows' : Traced(rows'[i], asks', minted)
  BY <1>2 DEF Typed
<1> QED BY <1>3, <1>4, <1>5, <1>6, ApiCarries

LEMMA BookedTyped ==
  ASSUME Typed, NEW m \in wire, Books(m)
  PROVE  \E kind \in KindsOf(m.to), c \in 0..MaxChecks, r \in Row :
           /\ r.kind = kind /\ r.key = m.key /\ r.from = m.from /\ r.check = c
           /\ r.items = m.items /\ r.amount = m.amount
           /\ rows' = Append(rows, r)
           /\ Under(KindsOf(m.to), m.key) = {}
           /\ \/ kind = "order" /\ Opens(c)
              \/ kind = "append" /\ Joins(c)
              \/ kind = "order" /\ c = 0 /\ UNCHANGED checks
              \/ kind = "payment" /\ c = m.check /\ Pays(m)
           /\ \E shown \in 0..Len(checks') : Answer(m, TRUE, shown)
           /\ UNCHANGED <<asks, rejecting>>
           /\ c <= Len(checks')
           /\ m.from # Guest
<1>1. PICK kind \in KindsOf(m.to), c \in 0..MaxChecks, nested \in BOOLEAN :
        /\ Under(KindsOf(m.to), m.key) = {}
        /\ \/ kind = "order" /\ Opens(c)
           \/ kind = "append" /\ Joins(c)
           \/ kind = "order" /\ c = 0 /\ UNCHANGED checks
           \/ kind = "payment" /\ c = m.check /\ Pays(m)
        /\ NewRow(kind, m, c, nested)
        /\ UNCHANGED <<asks, rejecting>>
        /\ \E shown \in 0..Len(checks') : Answer(m, TRUE, shown)
  BY Zenon DEF Books
<1> DEFINE r == [kind |-> kind, key |-> m.key, from |-> m.from, check |-> c,
                 items |-> m.items, amount |-> m.amount, nested |-> nested]
<1>2. Fits(m, minted, Len(checks))
  BY DEF Typed
<1>3. r \in Row
  <2>1. m.key \in Keys /\ m.from \in Devices /\ m.items \in SUBSET Wishes /\ m.amount \in Amounts \cup {0}
    BY <1>2 DEF Fits, Command
  <2>2. kind \in {"order", "append", "payment"}
    BY <1>1
  <2> QED BY <2>1, <2>2, Zenon DEF Row
<1>4. /\ r.kind = kind /\ r.key = m.key /\ r.from = m.from /\ r.check = c
      /\ r.items = m.items /\ r.amount = m.amount
  OBVIOUS
<1>5. rows' = Append(rows, r)
  BY <1>1 DEF NewRow
<1> HIDE DEF r
<1>6. c <= Len(checks')
  <2>1. m.check <= Len(checks)
    BY <1>2 DEF Fits
  <2>2. CASE Opens(c) \/ Joins(c)
    BY <2>2, ChecksOn
  <2>3. CASE c = 0 /\ UNCHANGED checks
    BY <2>3, ChecksOn
  <2>4. CASE c = m.check /\ Pays(m)
    BY <2>1, <2>4, ChecksOn
  <2> QED BY <1>1, <2>2, <2>3, <2>4
<1>7. m.from # Guest
  <2>1. m.from = Guest => m.to = "requests"
    BY <1>2, DeviceNames DEF Fits, Routes
  <2>2. m.to # "requests"
    BY <1>1 DEF KindsOf
  <2> QED BY <2>1, <2>2
<1> QED BY <1>1, <1>3, <1>4, <1>5, <1>6, <1>7

LEMMA BooksTyped ==
  ASSUME Typed, UNCHANGED clientVars, NEW m \in wire, Books(m) PROVE Typed'
<1>1. PICK kind \in KindsOf(m.to), c \in 0..MaxChecks, r \in Row :
           /\ r.kind = kind /\ r.key = m.key /\ r.from = m.from /\ r.check = c
           /\ r.items = m.items /\ r.amount = m.amount
           /\ rows' = Append(rows, r)
           /\ Under(KindsOf(m.to), m.key) = {}
           /\ \/ kind = "order" /\ Opens(c)
              \/ kind = "append" /\ Joins(c)
              \/ kind = "order" /\ c = 0 /\ UNCHANGED checks
              \/ kind = "payment" /\ c = m.check /\ Pays(m)
           /\ \E shown \in 0..Len(checks') : Answer(m, TRUE, shown)
           /\ UNCHANGED <<asks, rejecting>>
           /\ c <= Len(checks')
           /\ m.from # Guest
  BY BookedTyped
<1>2. /\ checks' \in Seq({"open", "paid", "closed"}) /\ Len(checks') <= MaxChecks
      /\ Len(checks) <= Len(checks') /\ Len(checks') \in Nat
  BY <1>1, ChecksOn
<1>3. /\ rows' \in Seq(Row) /\ \A i \in DOMAIN rows' : rows'[i].check <= Len(checks')
      /\ DOMAIN rows' = (DOMAIN rows) \cup {Len(rows) + 1}
      /\ rows'[Len(rows) + 1] = r /\ \A i \in DOMAIN rows : rows'[i] = rows[i]
  BY <1>1, <1>2, RowsOn
<1>4. /\ wire' \subseteq wire
      /\ answers' \in [Devices -> [ok: BOOLEAN, come: BOOLEAN, view: Views]]
      /\ \A d \in Devices : Shows(answers'[d].view, Len(checks'))
  <2>1. TRUE \in BOOLEAN
    OBVIOUS
  <2> QED BY <1>1, <1>2, <1>3, <2>1, Answering
<1>5. ApiTypeOK'
  <2>1. asks' \in Seq(Ask) /\ Len(asks') <= MaxKeys /\ rejecting' \subseteq DOMAIN asks'
    BY <1>1 DEF Typed, ApiTypeOK
  <2> QED BY <1>2, <1>3, <1>4, <2>1 DEF ApiTypeOK, Typed
<1>6. /\ \A a \in DOMAIN asks' : asks'[a].key \in KeysUpTo(minted)
      /\ \A a, b \in DOMAIN asks' : asks'[a].key = asks'[b].key => a = b
  BY <1>1 DEF Typed
<1>7. \A i \in DOMAIN rows' : Traced(rows'[i], asks', minted)
  <2>1. Traced(r, asks, minted)
    BY <1>1 DEF Traced, Typed, Fits
  <2> QED BY <1>1, <1>3, <2>1 DEF Typed
<1> QED BY <1>2, <1>4, <1>5, <1>6, <1>7, ApiCarries

\* A request more: its key is new, and there are only so many keys.
LEMMA RequestAdded ==
  ASSUME Typed, NEW m \in wire, Requests(m)
  PROVE  /\ asks' \in Seq(Ask) /\ Len(asks') = Len(asks) + 1 /\ Len(asks') <= MaxKeys
         /\ \A a \in DOMAIN asks : a \in DOMAIN asks' /\ asks'[a] = asks[a]
         /\ Len(asks) + 1 \notin DOMAIN asks
         /\ DOMAIN asks' = (DOMAIN asks) \cup {Len(asks) + 1}
         /\ asks'[Len(asks) + 1].key = m.key /\ asks'[Len(asks) + 1].items = m.items
         /\ asks'[Len(asks) + 1].status = "PENDING"
         /\ \A a \in DOMAIN asks' : asks'[a].key \in KeysUpTo(minted)
         /\ \A a, b \in DOMAIN asks' : asks'[a].key = asks'[b].key => a = b
<1> DEFINE r == [key |-> m.key, items |-> m.items, check |-> 0, stale |-> FALSE, status |-> "PENDING"]
           n == Len(asks) + 1
<1>1. Fits(m, minted, Len(checks))
  BY DEF Typed
<1>2. r \in Ask /\ r.key = m.key /\ r.items = m.items /\ r.status = "PENDING"
  <2>1. m.key \in Keys /\ m.items \in SUBSET Wishes /\ 0 \in 0..MaxChecks
    BY <1>1, BoundAssumption DEF Fits, Command
  <2>2. FALSE \in BOOLEAN
    OBVIOUS
  <2> QED BY <2>1, <2>2, Zenon DEF Ask
<1>3. asks' = Append(asks, r) /\ asks \in Seq(Ask)
  BY DEF Requests, Typed, ApiTypeOK
<1> HIDE DEF r
<1>4. /\ asks' \in Seq(Ask) /\ Len(asks') = n /\ DOMAIN asks' = (DOMAIN asks) \cup {n}
      /\ n \notin DOMAIN asks /\ asks'[n] = r /\ \A a \in DOMAIN asks : asks'[a] = asks[a]
  BY <1>2, <1>3
<1>5. \A a \in DOMAIN asks' : asks'[a].key \in KeysUpTo(minted)
  BY <1>1, <1>2, <1>4 DEF Typed, Fits
<1>6. \A a, b \in DOMAIN asks' : asks'[a].key = asks'[b].key => a = b
  <2>1. \A a \in DOMAIN asks : asks[a].key # m.key
    BY DEF Requests, AsksUnder
  <2> QED BY <1>2, <1>4, <2>1 DEF Typed
<1>7. n <= MaxKeys
  <2> DEFINE number == [a \in 1..n |-> CHOOSE k \in 1..minted : asks'[a].key = DeviceKey(k)]
  <2>1. DOMAIN asks' = 1..n /\ minted \in 0..MaxKeys
    <3>1. DOMAIN asks' = 1..Len(asks') /\ Len(asks') = n
      BY <1>4
    <3>2. minted \in 0..MaxKeys
      BY DEF Typed, ClientTypeOK
    <3> QED BY <3>1, <3>2
  <2>2. \A a \in 1..n : number[a] \in 1..minted /\ asks'[a].key = DeviceKey(number[a])
    BY <1>5, <2>1 DEF KeysUpTo
  <2>3. number \in [1..n -> 1..minted]
    BY <2>2
  <2>4. \A a, b \in 1..n : number[a] = number[b] => a = b
    BY <1>6, <2>1, <2>2
  <2>5. IsFiniteSet(1..minted) /\ Cardinality(1..minted) = minted
    BY <2>1, FS_Interval
  <2>6. n \in Nat /\ n # 0
    BY <1>3
  <2>7. Cardinality(1..n) = n
    BY <2>6, FS_Interval
  <2> HIDE DEF number
  <2>8. Cardinality(1..n) <= Cardinality(1..minted)
    BY <2>3, <2>4, <2>5, Fewer
  <2> HIDE DEF n
  <2> QED BY <2>1, <2>5, <2>6, <2>7, <2>8, BoundAssumption
<1> QED BY <1>2, <1>4, <1>5, <1>6, <1>7

LEMMA RequestsTyped ==
  ASSUME Typed, UNCHANGED clientVars, NEW m \in wire, Requests(m) PROVE Typed'
<1>1. /\ asks' \in Seq(Ask) /\ Len(asks') <= MaxKeys
      /\ \A a \in DOMAIN asks : a \in DOMAIN asks' /\ asks'[a] = asks[a]
      /\ \A a \in DOMAIN asks' : asks'[a].key \in KeysUpTo(minted)
      /\ \A a, b \in DOMAIN asks' : asks'[a].key = asks'[b].key => a = b
  BY RequestAdded
<1>2. UNCHANGED <<checks, rows, rejecting>> /\ Answer(m, TRUE, 0) /\ 0 \in 0..Len(checks')
  <2>1. UNCHANGED <<checks, rows, rejecting>> /\ Answer(m, TRUE, 0)
    BY DEF Requests
  <2>2. 0 \in 0..Len(checks')
    BY <2>1 DEF Typed, ApiTypeOK
  <2> QED BY <2>1, <2>2
<1>3. /\ checks' \in Seq({"open", "paid", "closed"}) /\ Len(checks') <= MaxChecks
      /\ Len(checks) <= Len(checks') /\ rows' \in Seq(Row)
      /\ \A i \in DOMAIN rows' : rows'[i].check <= Len(checks')
  BY <1>2 DEF Typed, ApiTypeOK
<1>4. /\ wire' \subseteq wire
      /\ answers' \in [Devices -> [ok: BOOLEAN, come: BOOLEAN, view: Views]]
      /\ \A d \in Devices : Shows(answers'[d].view, Len(checks'))
  <2>1. TRUE \in BOOLEAN
    OBVIOUS
  <2> QED BY <1>2, <1>3, <2>1, Answering
<1>5. ApiTypeOK'
  <2>1. rejecting' \subseteq DOMAIN asks'
    BY <1>1, <1>2 DEF Typed, ApiTypeOK
  <2> QED BY <1>1, <1>3, <1>4, <2>1 DEF ApiTypeOK, Typed
<1>6. \A i \in DOMAIN rows' : Traced(rows'[i], asks', minted)
  <2>1. minted \in Nat
    BY DEF Typed, ClientTypeOK
  <2>2. \A r : Traced(r, asks, minted) => Traced(r, asks', minted)
    BY <1>1, <2>1, TracedOn
  <2> QED BY <1>2, <2>2 DEF Typed
<1> QED BY <1>1, <1>3, <1>4, <1>5, <1>6, ApiCarries

\* What an approval does to the requests and the rows.
LEMMA Approved ==
  ASSUME Typed, NEW a \in DOMAIN asks, Approves(a)
  PROVE  \E kind \in {"order", "append"}, c \in 1..MaxChecks, r \in Row :
           /\ r.kind = kind /\ r.key = RequestKey(a) /\ r.from = Guest /\ r.check = c
           /\ r.items = asks[a].items /\ r.amount = 0
           /\ rows' = Append(rows, r)
           /\ Under({"order", "append"}, RequestKey(a)) = {}
           /\ (kind = "order" /\ Opens(c)) \/ (kind = "append" /\ Joins(c))
           /\ c <= Len(checks')
           /\ UNCHANGED <<rejecting, wire, answers>>
           /\ asks' \in Seq(Ask) /\ DOMAIN asks' = DOMAIN asks
           /\ \A b \in DOMAIN asks : asks'[b].key = asks[b].key /\ asks'[b].items = asks[b].items
           /\ \A b \in DOMAIN asks : b # a => asks'[b] = asks[b]
           /\ asks'[a].check = c
<1>1. PICK kind \in {"order", "append"}, c \in 1..MaxChecks, nested \in BOOLEAN :
        /\ Under({"order", "append"}, RequestKey(a)) = {}
        /\ (kind = "order" /\ Opens(c)) \/ (kind = "append" /\ Joins(c))
        /\ rows' = Append(rows, [kind |-> kind, key |-> RequestKey(a), from |-> Guest, check |-> c,
                                 items |-> asks[a].items, amount |-> 0, nested |-> nested])
        /\ asks' = [asks EXCEPT ![a].status = "APPROVED", ![a].check = c]
        /\ UNCHANGED <<rejecting, wire, answers>>
  BY Zenon DEF Approves
<1> DEFINE r == [kind |-> kind, key |-> RequestKey(a), from |-> Guest, check |-> c,
                 items |-> asks[a].items, amount |-> 0, nested |-> nested]
<1>2. asks \in Seq(Ask) /\ asks[a] \in Ask /\ DOMAIN asks = 1..Len(asks) /\ Len(asks) <= MaxKeys
  BY DEF Typed, ApiTypeOK
<1>3. r \in Row
  <2>1. RequestKey(a) \in Keys
    BY <1>2, BoundAssumption DEF Keys, KeyIds
  <2>2. asks[a].items \in SUBSET Wishes /\ 0 \in Amounts \cup {0} /\ Guest \in Devices
    BY <1>2, AskFields DEF Devices
  <2>3. c \in 0..MaxChecks
    BY <1>1
  <2>4. kind \in {"order", "append", "payment"}
    BY <1>1
  <2> QED BY <2>1, <2>2, <2>3, <2>4, Zenon DEF Row
<1>4. /\ r.kind = kind /\ r.key = RequestKey(a) /\ r.from = Guest /\ r.check = c
      /\ r.items = asks[a].items /\ r.amount = 0
  OBVIOUS
<1>5. rows' = Append(rows, r)
  BY <1>1
<1> HIDE DEF r
<1>6. c <= Len(checks')
  BY <1>1, ChecksOn
<1> DEFINE q == [asks[a] EXCEPT !.status = "APPROVED", !.check = c]
<1>7. q \in Ask /\ q.key = asks[a].key /\ q.items = asks[a].items /\ q.check = c
  <2>1. c \in 0..MaxChecks
    BY <1>1
  <2> QED BY <1>2, <2>1, AskApproved
<1>8. asks' = [asks EXCEPT ![a] = q]
  BY <1>1
<1> HIDE DEF q
<1>9. /\ asks' \in Seq(Ask) /\ DOMAIN asks' = DOMAIN asks
      /\ asks'[a] = q /\ \A b \in DOMAIN asks : b # a => asks'[b] = asks[b]
  BY <1>2, <1>7, <1>8
<1>10. \A b \in DOMAIN asks : asks'[b].key = asks[b].key /\ asks'[b].items = asks[b].items
  BY <1>7, <1>9
<1> QED BY <1>1, <1>3, <1>4, <1>5, <1>6, <1>7, <1>9, <1>10

LEMMA ApprovesTyped ==
  ASSUME Typed, UNCHANGED clientVars, NEW a \in DOMAIN asks, Approves(a) PROVE Typed'
<1>1. PICK kind \in {"order", "append"}, c \in 1..MaxChecks, r \in Row :
           /\ r.kind = kind /\ r.key = RequestKey(a) /\ r.from = Guest /\ r.check = c
           /\ r.items = asks[a].items /\ r.amount = 0
           /\ rows' = Append(rows, r)
           /\ Under({"order", "append"}, RequestKey(a)) = {}
           /\ (kind = "order" /\ Opens(c)) \/ (kind = "append" /\ Joins(c))
           /\ c <= Len(checks')
           /\ UNCHANGED <<rejecting, wire, answers>>
           /\ asks' \in Seq(Ask) /\ DOMAIN asks' = DOMAIN asks
           /\ \A b \in DOMAIN asks : asks'[b].key = asks[b].key /\ asks'[b].items = asks[b].items
           /\ \A b \in DOMAIN asks : b # a => asks'[b] = asks[b]
           /\ asks'[a].check = c
  BY Approved
<1>2. /\ checks' \in Seq({"open", "paid", "closed"}) /\ Len(checks') <= MaxChecks
      /\ Len(checks) <= Len(checks') /\ Len(checks') \in Nat /\ Len(checks) \in Nat
  BY <1>1, ChecksOn
<1>3. /\ rows' \in Seq(Row) /\ \A i \in DOMAIN rows' : rows'[i].check <= Len(checks')
      /\ DOMAIN rows' = (DOMAIN rows) \cup {Len(rows) + 1}
      /\ rows'[Len(rows) + 1] = r /\ \A i \in DOMAIN rows : rows'[i] = rows[i]
  BY <1>1, <1>2, RowsOn
<1>4. /\ wire' \subseteq wire /\ answers' = answers
      /\ \A d \in Devices : Shows(answers'[d].view, Len(checks'))
  <2>1. \A d \in Devices : answers[d].view \in Views /\ Shows(answers[d].view, Len(checks))
    BY DEF Typed, ApiTypeOK
  <2> QED BY <1>1, <1>2, <2>1, FitsOn
<1>5. ApiTypeOK'
  <2>1. rejecting' \subseteq DOMAIN asks' /\ Len(asks') <= MaxKeys /\ wire' \subseteq Command
    <3>1. Len(asks') = Len(asks)
      BY <1>1 DEF Typed, ApiTypeOK
    <3> QED BY <1>1, <3>1 DEF Typed, ApiTypeOK
  <2> QED BY <1>1, <1>2, <1>3, <1>4, <2>1 DEF ApiTypeOK, Typed
<1>6. /\ \A b \in DOMAIN asks' : asks'[b].key \in KeysUpTo(minted)
      /\ \A b, e \in DOMAIN asks' : asks'[b].key = asks'[e].key => b = e
  BY <1>1 DEF Typed
<1>7. \A i \in DOMAIN rows' : Traced(rows'[i], asks', minted)
  <2>1. minted \in Nat
    BY DEF Typed, ClientTypeOK
  <2>2. \A p : Traced(p, asks, minted) => Traced(p, asks', minted)
    <3>1. \A b \in DOMAIN asks : b \in DOMAIN asks' /\ asks'[b].items = asks[b].items
      BY <1>1
    <3> HIDE <1>1
    <3> QED BY <2>1, <3>1, TracedOn
  <2>3. Traced(r, asks', minted)
    BY <1>1 DEF Traced
  <2> QED BY <1>3, <2>2, <2>3 DEF Typed
<1> QED BY <1>2, <1>4, <1>5, <1>6, <1>7, ApiCarries

\* A request that is marked stays the request it was, and none becomes approved.
LEMMA Marked ==
  ASSUME Typed, NEW a \in DOMAIN asks, Marks(a)
  PROVE  /\ asks' \in Seq(Ask) /\ DOMAIN asks' = DOMAIN asks
         /\ \A b \in DOMAIN asks :
              /\ asks'[b].key = asks[b].key /\ asks'[b].items = asks[b].items
              /\ asks'[b].status = "APPROVED" => asks[b].status = "APPROVED" /\ asks'[b].check = asks[b].check
         /\ UNCHANGED <<checks, rows, wire, answers>>
<1>1. asks \in Seq(Ask) /\ asks[a] \in Ask
  BY DEF Typed, ApiTypeOK
<1>2. UNCHANGED <<checks, rows, wire, answers>>
  BY DEF Marks
<1>3. PICK q \in Ask : /\ asks' = [asks EXCEPT ![a] = q]
                       /\ q.key = asks[a].key /\ q.items = asks[a].items /\ q.check = asks[a].check
                       /\ q.status = "APPROVED" => asks[a].status = "APPROVED"
  <2>1. CASE asks' = asks
    <3>1. asks' = [asks EXCEPT ![a] = asks[a]]
      BY <1>1, <2>1
    <3> QED BY <1>1, <3>1
  <2>2. CASE asks' = [asks EXCEPT ![a].stale = TRUE]
    <3> DEFINE q == [asks[a] EXCEPT !.stale = TRUE]
    <3>1. /\ q \in Ask /\ q.key = asks[a].key /\ q.items = asks[a].items
          /\ q.check = asks[a].check /\ q.status = asks[a].status
      BY <1>1, AskAged
    <3>2. asks' = [asks EXCEPT ![a] = q]
      BY <2>2
    <3> HIDE DEF q
    <3> QED BY <3>1, <3>2
  <2>3. CASE asks' = [asks EXCEPT ![a].status = "EXPIRED"]
    <3> DEFINE q == [asks[a] EXCEPT !.status = "EXPIRED"]
    <3>1. /\ q \in Ask /\ q.key = asks[a].key /\ q.items = asks[a].items
          /\ q.check = asks[a].check /\ q.status = "EXPIRED"
      BY <1>1, AskMarked
    <3>2. asks' = [asks EXCEPT ![a] = q]
      BY <2>3
    <3> HIDE DEF q
    <3> QED BY <3>1, <3>2
  <2>4. CASE asks' = [asks EXCEPT ![a].status = "REJECTED"]
    <3> DEFINE q == [asks[a] EXCEPT !.status = "REJECTED"]
    <3>1. /\ q \in Ask /\ q.key = asks[a].key /\ q.items = asks[a].items
          /\ q.check = asks[a].check /\ q.status = "REJECTED"
      BY <1>1, AskMarked
    <3>2. asks' = [asks EXCEPT ![a] = q]
      BY <2>4
    <3> HIDE DEF q
    <3> QED BY <3>1, <3>2
  <2> QED BY <2>1, <2>2, <2>3, <2>4 DEF Marks
<1>4. asks' \in Seq(Ask) /\ DOMAIN asks' = DOMAIN asks
  BY <1>1, <1>3
<1>5. asks'[a] = q /\ \A b \in DOMAIN asks : b # a => asks'[b] = asks[b]
  BY <1>1, <1>3
<1> QED BY <1>2, <1>3, <1>4, <1>5

LEMMA MarksTyped ==
  ASSUME Typed, UNCHANGED clientVars, NEW a \in DOMAIN asks, Marks(a) PROVE Typed'
<1>1. /\ asks' \in Seq(Ask) /\ DOMAIN asks' = DOMAIN asks
      /\ \A b \in DOMAIN asks : asks'[b].key = asks[b].key /\ asks'[b].items = asks[b].items
      /\ UNCHANGED <<checks, rows, wire, answers>>
  BY Marked
<1>2. Len(checks) <= Len(checks')
  BY <1>1 DEF Typed, ApiTypeOK
<1>3. ApiTypeOK'
  <2>1. Len(asks') = Len(asks)
    BY <1>1 DEF Typed, ApiTypeOK
  <2>2. rejecting' \subseteq DOMAIN asks'
    BY <1>1 DEF Marks, Typed, ApiTypeOK
  <2> QED BY <1>1, <2>1, <2>2 DEF ApiTypeOK, Typed
<1>4. /\ \A d \in Devices : Shows(answers'[d].view, Len(checks'))
      /\ \A b \in DOMAIN asks' : asks'[b].key \in KeysUpTo(minted)
      /\ \A b, e \in DOMAIN asks' : asks'[b].key = asks'[e].key => b = e
  BY <1>1 DEF Typed
<1>5. \A i \in DOMAIN rows' : Traced(rows'[i], asks', minted)
  <2>1. minted \in Nat
    BY DEF Typed, ClientTypeOK
  <2>2. \A p : Traced(p, asks, minted) => Traced(p, asks', minted)
    BY <1>1, <2>1, TracedOn
  <2> QED BY <1>1, <2>2 DEF Typed
<1> QED BY <1>1, <1>2, <1>3, <1>4, <1>5, ApiCarries

LEMMA CloseTyped ==
  ASSUME Typed, UNCHANGED clientVars, CloseTable PROVE Typed'
<1>1. checks' = [c \in DOMAIN checks |-> "closed"] /\ UNCHANGED <<rows, asks, rejecting, wire, answers>>
  BY DEF CloseTable
<1>2. checks \in Seq({"open", "paid", "closed"})
  BY DEF Typed, ApiTypeOK
<1>3. checks' \in Seq({"open", "paid", "closed"}) /\ Len(checks') = Len(checks) /\ Len(checks) \in Nat
  <2>1. checks' \in [1..Len(checks) -> {"open", "paid", "closed"}]
    BY <1>1, <1>2
  <2> QED BY <1>2, <2>1
<1>4. ApiTypeOK'
  BY <1>1, <1>3 DEF Typed, ApiTypeOK
<1>5. /\ \A d \in Devices : Shows(answers'[d].view, Len(checks'))
      /\ \A b \in DOMAIN asks' : asks'[b].key \in KeysUpTo(minted)
      /\ \A b, e \in DOMAIN asks' : asks'[b].key = asks'[e].key => b = e
      /\ \A i \in DOMAIN rows' : Traced(rows'[i], asks', minted)
  BY <1>1, <1>3 DEF Typed
<1>6. wire' \subseteq wire /\ Len(checks) <= Len(checks')
  BY <1>1, <1>3
<1> QED BY <1>4, <1>5, <1>6, ApiCarries

LEMMA ApiTyped == ASSUME Typed, ApiNext, UNCHANGED clientVars PROVE Typed'
BY ApiSteps, EchoesTyped, BooksTyped, RequestsTyped, ApprovesTyped, MarksTyped, CloseTyped

-----------------------------------------------------------------------------
(* What a step of the screens does, told by its effect.                      *)

\* A draft is added to or taken from.
Edits(d) ==
  /\ \E items : /\ Draft(d, items)
                /\ \/ items \subseteq draft[d] /\ UNCHANGED wanted
                   \/ /\ wanted < MaxWishes /\ wanted' = wanted + 1
                      /\ items = draft[d] \cup {wanted + 1}
  /\ UNCHANGED draftKey \/ (d = Waiter /\ KeepKey(Waiter, NoKey))
  /\ EditFrame

\* A command under a key of its own.
Fresh(m) ==
  /\ minted < MaxKeys /\ minted' = minted + 1 /\ m.key = DeviceKey(minted + 1)
  /\ \/ /\ m.from \in {Waiter, Guest} /\ draftKey[m.from] = NoKey /\ KeepKey(m.from, m.key)
        /\ m.items = draft[m.from]
        /\ UNCHANGED <<wanted, retained>>
     \/ /\ m.from \in {Till, Cash, Desk} /\ retained' = [retained EXCEPT ![m.from] = @ \cup {m}]
        /\ UNCHANGED draftKey
        /\ \/ /\ m.from = Desk /\ retained[Desk] = {} /\ m.items = draft[Desk] /\ UNCHANGED wanted
           \/ /\ m.from # Desk /\ \A kept \in retained[m.from] : Intent(kept) # Intent(m)
              /\ \/ m.items = {} /\ UNCHANGED wanted
                 \/ wanted < MaxWishes /\ wanted' = wanted + 1 /\ m.items = {wanted + 1}

\* A command under the key of an earlier one.
Again(m) ==
  /\ UNCHANGED <<wanted, minted, retained, draftKey>>
  /\ \/ /\ m.from \in {Waiter, Guest} /\ m.key = draftKey[m.from] /\ m.key # NoKey
        /\ m.items = draft[m.from]
     \/ m.from \in {Till, Cash, Desk} /\ m \in retained[m.from]

Sends(m) ==
  /\ Dispatch(m) /\ m.open /\ Fits(m, minted', Len(checks))
  /\ UNCHANGED <<seen, draft, faults, reloads, announced>>
  /\ Fresh(m) \/ Again(m)

Succeeds(d) ==
  /\ Succeeded(d)
  /\ \/ d \in {Waiter, Guest} /\ Draft(d, {}) /\ KeepKey(d, NoKey) /\ UNCHANGED <<seen, retained>>
     \/ /\ d \in {Till, Cash}
        /\ retained' = [retained EXCEPT ![d] = {m \in @ : Intent(m) # Intent(calling[d])}]
        /\ seen' = [seen EXCEPT ![Till] = IF d = Till THEN Shown(answers[d].view) ELSE @]
        /\ UNCHANGED <<draft, draftKey>>
     \/ /\ d = Desk /\ Draft(d, {}) /\ retained' = [retained EXCEPT ![d] = {}]
        /\ UNCHANGED <<seen, draftKey>>

LEMMA CommandMade ==
  ASSUME NEW d \in Devices, NEW to, NEW c \in 0..MaxChecks, NEW n \in KeyIds, NEW items \in SUBSET Wishes,
         NEW amount \in Amounts \cup {0}, <<d, to>> \in Routes, NEW e, c <= e,
         IF to = "payments" THEN c # 0 /\ amount # 0 /\ items = {} ELSE amount = 0
  PROVE  LET m == [from |-> d, to |-> to, check |-> c, key |-> DeviceKey(n), items |-> items,
                   amount |-> amount, open |-> TRUE]
         IN  /\ \A k \in Nat : n <= k => Fits(m, k, e)
             /\ m.open /\ m.from = d /\ m.to = to /\ m.key = DeviceKey(n) /\ m.items = items
<1> DEFINE m == [from |-> d, to |-> to, check |-> c, key |-> DeviceKey(n), items |-> items,
                 amount |-> amount, open |-> TRUE]
<1>1. m \in Command
  <2>1. to \in {"orders", "items", "payments", "requests", "delivery"}
    BY DEF Routes
  <2>2. DeviceKey(n) \in Keys
    BY DEF Keys, DeviceKeys
  <2>3. TRUE \in BOOLEAN
    OBVIOUS
  <2> QED BY <2>1, <2>2, <2>3, Zenon DEF Command
<1>2. /\ m.open /\ m.from = d /\ m.to = to /\ m.key = DeviceKey(n) /\ m.items = items
      /\ m.check = c /\ m.amount = amount
  OBVIOUS
<1> HIDE DEF m
<1>3. ASSUME NEW k \in Nat, n <= k PROVE Fits(m, k, e)
  <2>1. DeviceKey(n) \in KeysUpTo(k)
    BY <1>3, BoundAssumption DEF KeysUpTo, KeyIds
  <2> QED BY <1>1, <1>2, <2>1 DEF Fits
<1> QED BY <1>2, <1>3 DEF m

LEMMA WaiterSending ==
  ASSUME Typed, WaiterSends PROVE \E m : Sends(m)
<1> DEFINE c == seen[Waiter].check
           to == IF c = 0 THEN "orders" ELSE "items"
           M(k) == [from |-> Waiter, to |-> to, check |-> c, key |-> k,
                    items |-> draft[Waiter], amount |-> 0, open |-> TRUE]
<1>1. PICK m : m = M(draftKey'[Waiter]) /\ Dispatch(m)
  BY DEF WaiterSends
<1>2. UNCHANGED <<wanted, seen, draft, retained, faults, reloads, announced>>
  BY DEF WaiterSends
<1>3. c \in 0..MaxChecks /\ c <= Len(checks) /\ draft[Waiter] \in SUBSET Wishes /\ minted \in 0..MaxKeys
  BY DEF Typed, ClientTypeOK, Views, Shows
<1>4. <<Waiter, to>> \in Routes /\ to # "payments" /\ Waiter \in Devices /\ 0 \in Amounts \cup {0}
  BY DEF Routes, Devices
<1>5. draftKey \in [{Waiter, Guest} -> DeviceKeys \cup {NoKey}]
  BY DEF Typed, ClientTypeOK
<1>6. ASSUME NEW n \in KeyIds, NEW k \in Nat, n <= k, m = M(DeviceKey(n))
      PROVE  Fits(m, k, Len(checks)) /\ m.open /\ m.from = Waiter /\ m.key = DeviceKey(n) /\ m.items = draft[Waiter]
  <2> DEFINE items == draft[Waiter]
             e == Len(checks)
  <2>1. items \in SUBSET Wishes /\ c <= e
    BY <1>3
  <2> HIDE DEF c, to, items, e
  <2>2. LET q == [from |-> Waiter, to |-> to, check |-> c, key |-> DeviceKey(n), items |-> items,
                   amount |-> 0, open |-> TRUE]
         IN  /\ \A j \in Nat : n <= j => Fits(q, j, e)
             /\ q.open /\ q.from = Waiter /\ q.to = to /\ q.key = DeviceKey(n) /\ q.items = items
    BY <1>3, <1>4, <2>1, CommandMade
  <2> QED BY <1>6, <2>2 DEF items, e
<1> HIDE DEF c, to, M
<1>7. CASE draftKey[Waiter] = NoKey /\ Mint /\ KeepKey(Waiter, DeviceKey(minted + 1))
  <2>1. minted < MaxKeys /\ minted' = minted + 1 /\ minted + 1 \in KeyIds /\ minted + 1 \in Nat /\ minted + 1 <= minted + 1
    BY <1>3, <1>7, BoundAssumption DEF Mint, KeyIds
  <2>2. draftKey'[Waiter] = DeviceKey(minted + 1)
    BY <1>5, <1>7 DEF KeepKey
  <2>3. /\ Fits(m, minted + 1, Len(checks)) /\ m.open /\ m.from = Waiter
        /\ m.key = DeviceKey(minted + 1) /\ m.items = draft[Waiter]
    BY <1>1, <1>6, <2>1, <2>2
  <2>4. Fresh(m)
    BY <1>2, <1>7, <2>1, <2>3 DEF Fresh
  <2> QED BY <1>1, <1>2, <2>1, <2>3, <2>4 DEF Sends
<1>8. CASE draftKey[Waiter] # NoKey /\ UNCHANGED <<minted, draftKey>>
  <2>1. PICK n \in 1..minted : draftKey[Waiter] = DeviceKey(n)
    BY <1>8 DEF Typed, KeysUpTo
  <2>2. n \in KeyIds /\ n <= minted /\ minted \in Nat
    BY <1>3, <2>1, BoundAssumption DEF KeyIds
  <2>3. /\ Fits(m, minted, Len(checks)) /\ m.open /\ m.from = Waiter
        /\ m.key = DeviceKey(n) /\ m.items = draft[Waiter]
    BY <1>1, <1>6, <1>8, <2>1, <2>2
  <2>4. Again(m)
    BY <1>2, <1>8, <2>1, <2>3 DEF Again
  <2> QED BY <1>1, <1>2, <1>8, <2>3, <2>4 DEF Sends
<1> QED BY <1>7, <1>8 DEF WaiterSends

LEMMA GuestSending ==
  ASSUME Typed, GuestSends PROVE \E m : Sends(m)
<1> DEFINE M(k) == [from |-> Guest, to |-> "requests", check |-> 0, key |-> k,
                    items |-> draft[Guest], amount |-> 0, open |-> TRUE]
<1>1. PICK m : m = M(draftKey'[Guest]) /\ Dispatch(m)
  BY DEF GuestSends
<1>2. UNCHANGED <<wanted, seen, draft, retained, faults, reloads, announced>>
  BY DEF GuestSends
<1>3. 0 \in 0..MaxChecks /\ 0 <= Len(checks) /\ draft[Guest] \in SUBSET Wishes /\ minted \in 0..MaxKeys
  BY BoundAssumption DEF Typed, ClientTypeOK, ApiTypeOK
<1>4. <<Guest, "requests">> \in Routes /\ "requests" # "payments" /\ Guest \in Devices /\ 0 \in Amounts \cup {0}
  BY DEF Routes, Devices
<1>5. draftKey \in [{Waiter, Guest} -> DeviceKeys \cup {NoKey}]
  BY DEF Typed, ClientTypeOK
<1>6. ASSUME NEW n \in KeyIds, NEW k \in Nat, n <= k, m = M(DeviceKey(n))
      PROVE  Fits(m, k, Len(checks)) /\ m.open /\ m.from = Guest /\ m.key = DeviceKey(n) /\ m.items = draft[Guest]
  <2> DEFINE items == draft[Guest]
             e == Len(checks)
             to == "requests"
  <2>1. items \in SUBSET Wishes /\ 0 <= e /\ <<Guest, to>> \in Routes /\ to # "payments"
    BY <1>3, <1>4
  <2> HIDE DEF items, e, to
  <2>2. LET q == [from |-> Guest, to |-> to, check |-> 0, key |-> DeviceKey(n), items |-> items,
                   amount |-> 0, open |-> TRUE]
         IN  /\ \A j \in Nat : n <= j => Fits(q, j, e)
             /\ q.open /\ q.from = Guest /\ q.to = to /\ q.key = DeviceKey(n) /\ q.items = items
    BY <1>3, <1>4, <2>1, CommandMade
  <2> QED BY <1>6, <2>2 DEF items, e, to
<1> HIDE DEF M
<1>7. CASE draftKey[Guest] = NoKey /\ Mint /\ KeepKey(Guest, DeviceKey(minted + 1))
  <2>1. minted < MaxKeys /\ minted' = minted + 1 /\ minted + 1 \in KeyIds /\ minted + 1 \in Nat /\ minted + 1 <= minted + 1
    BY <1>3, <1>7, BoundAssumption DEF Mint, KeyIds
  <2>2. draftKey'[Guest] = DeviceKey(minted + 1)
    BY <1>5, <1>7 DEF KeepKey
  <2>3. /\ Fits(m, minted + 1, Len(checks)) /\ m.open /\ m.from = Guest
        /\ m.key = DeviceKey(minted + 1) /\ m.items = draft[Guest]
    BY <1>1, <1>6, <2>1, <2>2
  <2>4. Fresh(m)
    BY <1>2, <1>7, <2>1, <2>3 DEF Fresh
  <2> QED BY <1>1, <1>2, <2>1, <2>3, <2>4 DEF Sends
<1>8. CASE draftKey[Guest] # NoKey /\ UNCHANGED <<minted, draftKey>>
  <2>1. PICK n \in 1..minted : draftKey[Guest] = DeviceKey(n)
    BY <1>8 DEF Typed, KeysUpTo
  <2>2. n \in KeyIds /\ n <= minted /\ minted \in Nat
    BY <1>3, <2>1, BoundAssumption DEF KeyIds
  <2>3. /\ Fits(m, minted, Len(checks)) /\ m.open /\ m.from = Guest
        /\ m.key = DeviceKey(n) /\ m.items = draft[Guest]
    BY <1>1, <1>6, <1>8, <2>1, <2>2
  <2>4. Again(m)
    BY <1>2, <1>8, <2>1, <2>3 DEF Again
  <2> QED BY <1>1, <1>2, <1>8, <2>3, <2>4 DEF Sends
<1> QED BY <1>7, <1>8 DEF GuestSends

\* A retained command goes out again as it is.
LEMMA Repeating ==
  ASSUME Typed, NEW d \in {Till, Cash, Desk}, NEW m \in retained[d], Dispatch(m),
         UNCHANGED <<wanted, minted, retained>>,
         UNCHANGED <<seen, draft, draftKey, faults, reloads, announced>>
  PROVE  Sends(m)
<1>1. Fits(m, minted, Len(checks)) /\ m.from = d /\ m.open
  BY DEF Typed
<1>2. Again(m)
  BY <1>1 DEF Again
<1>3. minted' = minted /\ UNCHANGED <<seen, draft, faults, reloads, announced>>
  OBVIOUS
<1> QED BY <1>1, <1>2, <1>3 DEF Sends

LEMMA ProductSending ==
  ASSUME Typed, TillAddsProduct PROVE \E m : Sends(m)
<1> DEFINE c == seen[Till].check
           to == IF c = 0 THEN "orders" ELSE "items"
           product == [from |-> Till, to |-> to, check |-> c, key |-> DeviceKey(minted + 1),
                       items |-> {wanted + 1}, amount |-> 0, open |-> TRUE]
<1>0. UNCHANGED <<seen, draft, draftKey, faults, reloads, announced>>
  BY DEF TillAddsProduct
<1>1. CASE wanted < MaxWishes /\ wanted' = wanted + 1 /\ TillPrepares(Till, product)
  <2>1. PICK m : m = product
    OBVIOUS
  <2>2. /\ \A kept \in retained[Till] : Intent(kept) # Intent(m)
        /\ Mint /\ Dispatch(m)
        /\ retained' = [retained EXCEPT ![Till] = @ \cup {m}]
    BY <1>1, <2>1 DEF TillPrepares
  <2>3. /\ c \in 0..MaxChecks /\ c <= Len(checks) /\ minted \in 0..MaxKeys /\ wanted \in 0..MaxWishes
    BY DEF Typed, ClientTypeOK, Views, Shows
  <2>4. <<Till, to>> \in Routes /\ to # "payments" /\ Till \in Devices /\ 0 \in Amounts \cup {0}
    BY DEF Routes, Devices
  <2>5. minted < MaxKeys /\ minted' = minted + 1 /\ minted + 1 \in KeyIds /\ minted + 1 \in Nat /\ minted + 1 <= minted + 1
    BY <2>2, <2>3, BoundAssumption DEF Mint, KeyIds
  <2>6. {wanted + 1} \in SUBSET Wishes
    BY <1>1, <2>3, BoundAssumption DEF Wishes
  <2>7. /\ Fits(m, minted + 1, Len(checks)) /\ m.open /\ m.from = Till
        /\ m.key = DeviceKey(minted + 1) /\ m.items = {wanted + 1}
    <3> DEFINE items == {wanted + 1}
               e == Len(checks)
               n == minted + 1
    <3> HIDE DEF c, to, items, e, n
    <3>1. LET q == [from |-> Till, to |-> to, check |-> c, key |-> DeviceKey(n), items |-> items,
                     amount |-> 0, open |-> TRUE]
           IN  /\ \A j \in Nat : n <= j => Fits(q, j, e)
               /\ q.open /\ q.from = Till /\ q.to = to /\ q.key = DeviceKey(n) /\ q.items = items
      BY <2>3, <2>4, <2>5, <2>6, CommandMade DEF items, e, n
    <3>2. m = [from |-> Till, to |-> to, check |-> c, key |-> DeviceKey(n), items |-> items,
                     amount |-> 0, open |-> TRUE]
      BY <2>1 DEF items, n
    <3>3. n \in Nat /\ n <= n
      BY <2>5 DEF n
    <3> QED BY <3>1, <3>2, <3>3 DEF items, e, n
  <2> HIDE DEF product, c, to
  <2>8. Fresh(m)
    BY <1>0, <1>1, <2>2, <2>5, <2>7, DeviceNames DEF Fresh
  <2> QED BY <1>0, <2>2, <2>5, <2>7, <2>8 DEF Sends
<1>2. CASE \E kept \in retained[Till] : TillRepeats(Till, kept)
  BY <1>0, <1>2, Repeating DEF TillRepeats
<1> QED BY <1>1, <1>2 DEF TillAddsProduct

LEMMA PaymentSending ==
  ASSUME Typed, TillCollects PROVE \E m : Sends(m)
<1> DEFINE c == seen[Till].check
           payment(amount) == [from |-> Cash, to |-> "payments", check |-> c,
                               key |-> DeviceKey(minted + 1), items |-> {},
                               amount |-> amount, open |-> TRUE]
<1>0. UNCHANGED <<seen, draft, draftKey, faults, reloads, announced>> /\ seen[Till].state = "open"
  BY DEF TillCollects
<1>1. ASSUME NEW amount \in Amounts, TillPrepares(Cash, payment(amount)), UNCHANGED wanted
      PROVE  \E m : Sends(m)
  <2>1. PICK m : m = payment(amount)
    OBVIOUS
  <2>2. /\ \A kept \in retained[Cash] : Intent(kept) # Intent(m)
        /\ Mint /\ Dispatch(m)
        /\ retained' = [retained EXCEPT ![Cash] = @ \cup {m}]
    BY <1>1, <2>1 DEF TillPrepares
  <2>3. /\ c \in 0..MaxChecks /\ c <= Len(checks) /\ c # 0 /\ minted \in 0..MaxKeys
    BY <1>0 DEF Typed, ClientTypeOK, Views, Shows
  <2>4. /\ <<Cash, "payments">> \in Routes /\ Cash \in Devices
        /\ amount \in Amounts \cup {0} /\ amount # 0 /\ {} \in SUBSET Wishes
    BY BoundAssumption DEF Routes, Devices
  <2>5. minted < MaxKeys /\ minted' = minted + 1 /\ minted + 1 \in KeyIds /\ minted + 1 \in Nat /\ minted + 1 <= minted + 1
    BY <2>2, <2>3, BoundAssumption DEF Mint, KeyIds
  <2>7. /\ Fits(m, minted + 1, Len(checks)) /\ m.open /\ m.from = Cash
        /\ m.key = DeviceKey(minted + 1) /\ m.items = {}
    <3> DEFINE items == {}
               to == "payments"
               e == Len(checks)
               n == minted + 1
    <3>0. items \in SUBSET Wishes /\ items = {} /\ <<Cash, to>> \in Routes
      BY <2>4
    <3> HIDE DEF c, to, items, e, n
    <3>1. LET q == [from |-> Cash, to |-> to, check |-> c, key |-> DeviceKey(n), items |-> items,
                     amount |-> amount, open |-> TRUE]
           IN  /\ \A j \in Nat : n <= j => Fits(q, j, e)
               /\ q.open /\ q.from = Cash /\ q.to = to /\ q.key = DeviceKey(n) /\ q.items = items
      BY <2>3, <2>4, <2>5, <3>0, CommandMade DEF e, n, to
    <3>2. m = [from |-> Cash, to |-> to, check |-> c, key |-> DeviceKey(n), items |-> items,
                     amount |-> amount, open |-> TRUE]
      BY <2>1 DEF items, n, to
    <3>3. n \in Nat /\ n <= n
      BY <2>5 DEF n
    <3> QED BY <3>1, <3>2, <3>3 DEF items, e, n
  <2> HIDE DEF payment, c
  <2>8. Fresh(m)
    BY <1>0, <1>1, <2>2, <2>5, <2>7, DeviceNames DEF Fresh
  <2> QED BY <1>0, <2>2, <2>5, <2>7, <2>8 DEF Sends
<1>2. ASSUME NEW kept \in retained[Cash], TillRepeats(Cash, kept) PROVE Sends(kept)
  BY <1>0, <1>2, Repeating DEF TillRepeats
<1>3. \E amount \in Amounts :
        \/ /\ TillPrepares(Cash, [from |-> Cash, to |-> "payments", check |-> seen[Till].check,
                                  key |-> DeviceKey(minted + 1), items |-> {},
                                  amount |-> amount, open |-> TRUE])
           /\ UNCHANGED wanted
        \/ \E kept \in retained[Cash] : TillRepeats(Cash, kept)
  <2> HIDE DEF payment, c
  <2> QED BY Zenon DEF TillCollects
<1> QED BY <1>1, <1>2, <1>3, Zenon

LEMMA DeskSending ==
  ASSUME Typed, DeskSends PROVE \E m : Sends(m)
<1> DEFINE order == [from |-> Desk, to |-> "delivery", check |-> 0, key |-> DeviceKey(minted + 1),
                     items |-> draft[Desk], amount |-> 0, open |-> TRUE]
<1>0. UNCHANGED <<wanted, seen, draft, draftKey, faults, reloads, announced>>
  BY DEF DeskSends
<1>1. CASE /\ retained[Desk] = {} /\ Mint
           /\ retained' = [retained EXCEPT ![Desk] = {order}] /\ Dispatch(order)
  <2>1. PICK m : m = order
    OBVIOUS
  <2>2. Mint /\ Dispatch(m) /\ retained' = [retained EXCEPT ![Desk] = @ \cup {m}]
    BY <1>1, <2>1
  <2>3. 0 \in 0..MaxChecks /\ 0 <= Len(checks) /\ minted \in 0..MaxKeys /\ draft[Desk] \in SUBSET Wishes
    BY BoundAssumption DEF Typed, ClientTypeOK, ApiTypeOK
  <2>4. <<Desk, "delivery">> \in Routes /\ Desk \in Devices /\ 0 \in Amounts \cup {0}
    BY DEF Routes, Devices
  <2>5. minted < MaxKeys /\ minted' = minted + 1 /\ minted + 1 \in KeyIds /\ minted + 1 \in Nat /\ minted + 1 <= minted + 1
    BY <2>2, <2>3, BoundAssumption DEF Mint, KeyIds
  <2>7. /\ Fits(m, minted + 1, Len(checks)) /\ m.open /\ m.from = Desk
        /\ m.key = DeviceKey(minted + 1) /\ m.items = draft[Desk]
    <3> DEFINE items == draft[Desk]
               to == "delivery"
               e == Len(checks)
               n == minted + 1
    <3>0. items \in SUBSET Wishes /\ <<Desk, to>> \in Routes /\ to # "payments" /\ 0 <= e
      BY <2>3, <2>4
    <3> HIDE DEF to, items, e, n
    <3>1. LET q == [from |-> Desk, to |-> to, check |-> 0, key |-> DeviceKey(n), items |-> items,
                     amount |-> 0, open |-> TRUE]
           IN  /\ \A j \in Nat : n <= j => Fits(q, j, e)
               /\ q.open /\ q.from = Desk /\ q.to = to /\ q.key = DeviceKey(n) /\ q.items = items
      BY <2>3, <2>4, <2>5, <3>0, CommandMade DEF n
    <3>2. m = [from |-> Desk, to |-> to, check |-> 0, key |-> DeviceKey(n), items |-> items,
                     amount |-> 0, open |-> TRUE]
      BY <2>1 DEF items, n, to
    <3>3. n \in Nat /\ n <= n
      BY <2>5 DEF n
    <3> QED BY <3>1, <3>2, <3>3 DEF items, e, n
  <2> HIDE DEF order
  <2>8. Fresh(m)
    BY <1>0, <1>1, <2>2, <2>5, <2>7, DeviceNames DEF Fresh
  <2> QED BY <1>0, <2>2, <2>5, <2>7, <2>8 DEF Sends
<1>2. ASSUME NEW m \in retained[Desk], Dispatch(m), UNCHANGED <<minted, retained>> PROVE Sends(m)
  <2>1. UNCHANGED <<wanted, minted, retained>>
    BY <1>0, <1>2
  <2> QED BY <1>0, <1>2, <2>1, Repeating
<1> QED BY <1>1, <1>2 DEF DeskSends

\* Every step of the screens is one of these.
LEMMA ClientSteps ==
  ASSUME Typed, ClientNext
  PROVE  \/ \E d \in {Waiter, Guest, Desk} : Edits(d)
         \/ \E m : Sends(m)
         \/ \E d \in Devices : Succeeds(d) \/ Failed(d)
         \/ \E d \in {Waiter, Till} : Refresh(d)
         \/ \E page \in Pages : Reload(page)
<1>1. ASSUME NEW d \in {Waiter, Guest, Desk}, Want(d) PROVE
        \E items : /\ Draft(d, items)
                   /\ wanted < MaxWishes /\ wanted' = wanted + 1
                   /\ items = draft[d] \cup {wanted + 1}
  BY <1>1 DEF Want
<1>2. ASSUME NEW d \in {Waiter, Guest, Desk}, NEW w \in draft[d], TakeOut(d, w), UNCHANGED wanted PROVE
        \E items : Draft(d, items) /\ items \subseteq draft[d] /\ UNCHANGED wanted
  BY <1>2 DEF TakeOut
<1>3. CASE WaiterTaps
  BY <1>1, <1>3 DEF WaiterTaps, Edits
<1>4. CASE WaiterCounts
  <2>1. UNCHANGED draftKey /\ EditFrame
    BY <1>4 DEF WaiterCounts
  <2>2. Want(Waiter) \/ \E w \in draft[Waiter] : TakeOut(Waiter, w) /\ UNCHANGED wanted
    BY <1>4 DEF WaiterCounts
  <2> QED BY <1>1, <1>2, <2>1, <2>2 DEF Edits
<1>5. CASE GuestEdits
  <2>1. UNCHANGED draftKey /\ EditFrame
    BY <1>5 DEF GuestEdits
  <2>2. Want(Guest) \/ \E w \in draft[Guest] : TakeOut(Guest, w) /\ UNCHANGED wanted
    BY <1>5 DEF GuestEdits
  <2> QED BY <1>1, <1>2, <2>1, <2>2 DEF Edits
<1>6. CASE DeskEdits
  <2>1. UNCHANGED draftKey /\ EditFrame
    BY <1>6 DEF DeskEdits
  <2>2. Want(Desk) \/ \E w \in draft[Desk] : TakeOut(Desk, w) /\ UNCHANGED wanted
    BY <1>6 DEF DeskEdits
  <2> QED BY <1>1, <1>2, <2>1, <2>2 DEF Edits
<1>7. CASE DeskCloses
  <2>1. {} \subseteq draft[Desk] /\ Draft(Desk, {}) /\ UNCHANGED <<wanted, draftKey>> /\ EditFrame
    BY <1>7 DEF DeskCloses
  <2> QED BY <2>1 DEF Edits
<1>8. CASE WaiterSent
  BY <1>8 DEF WaiterSent, Succeeds, Devices
<1>9. CASE GuestSent
  BY <1>9 DEF GuestSent, Succeeds, Devices
<1>10. CASE DeskSent
  BY <1>10 DEF DeskSent, Succeeds, Devices
<1>11. ASSUME NEW d \in {Till, Cash}, TillSucceeds(d) PROVE d \in Devices /\ Succeeds(d)
  BY <1>11 DEF TillSucceeds, Succeeds, Devices
<1> QED BY <1>3, <1>4, <1>5, <1>6, <1>7, <1>8, <1>9, <1>10, <1>11, WaiterSending, GuestSending,
           ProductSending, PaymentSending, DeskSending DEF ClientNext

-----------------------------------------------------------------------------
(* Types: the steps of the screens.                                          *)

\* What is left of the types when the API stands still.
LEMMA ClientCarries ==
  ASSUME Typed, UNCHANGED <<checks, rows, asks, rejecting>>, ClientTypeOK', minted <= minted',
         answers' \in [Devices -> [ok: BOOLEAN, come: BOOLEAN, view: Views]],
         \A d \in Devices : Shows(answers'[d].view, Len(checks)),
         \A m \in wire' : Fits(m, minted', Len(checks)),
         \A d \in {Till, Cash, Desk} : \A m \in retained'[d] :
           Fits(m, minted', Len(checks)) /\ m.from = d /\ m.open,
         \A d \in Devices : calling'[d] # NoCommand =>
           Fits(calling'[d], minted', Len(checks)) /\ calling'[d].from = d /\ calling'[d].open,
         \A d \in {Waiter, Till} : Shows(seen'[d], Len(checks)),
         \A d \in {Waiter, Guest} : draftKey'[d] \in KeysUpTo(minted') \cup {NoKey},
         \A n \in KeyIds : n > minted' => announced'[DeviceKey(n)] = 0
  PROVE  Typed'
<1>1. minted \in Nat /\ minted' \in Nat
  BY DEF Typed, ClientTypeOK
<1>2. KeysUpTo(minted) \subseteq KeysUpTo(minted')
  BY <1>1 DEF KeysUpTo
<1>3. \A r : Traced(r, asks, minted) => Traced(r, asks, minted')
  BY <1>1, TracedOn
<1>4. ApiTypeOK'
  <2>1. wire' \subseteq Command
    BY DEF Fits
  <2> QED BY <2>1 DEF Typed, ApiTypeOK
<1>5. /\ \A a \in DOMAIN asks' : asks'[a].key \in KeysUpTo(minted')
      /\ \A a, b \in DOMAIN asks' : asks'[a].key = asks'[b].key => a = b
      /\ \A i \in DOMAIN rows' : Traced(rows'[i], asks', minted')
  BY <1>2, <1>3 DEF Typed
<1>6. Len(checks') = Len(checks)
  OBVIOUS
<1> QED BY <1>4, <1>5, <1>6 DEF Typed

LEMMA EditsTyped == ASSUME Typed, NEW d \in {Waiter, Guest, Desk}, Edits(d) PROVE Typed'
<1>1. UNCHANGED <<checks, rows, asks, rejecting, wire, answers, minted, calling, seen, retained,
                  faults, reloads, announced>>
  BY DEF Edits, EditFrame, apiVars
<1>2. PICK items : /\ draft' = [draft EXCEPT ![d] = items]
                   /\ \/ items \subseteq draft[d] /\ UNCHANGED wanted
                      \/ /\ wanted < MaxWishes /\ wanted' = wanted + 1
                         /\ items = draft[d] \cup {wanted + 1}
  BY DEF Edits, Draft
<1>3. ClientTypeOK
  BY DEF Typed
<1>4. wanted' \in 0..MaxWishes /\ items \in SUBSET Wishes
  <2>1. wanted \in 0..MaxWishes /\ draft[d] \in SUBSET Wishes
    BY <1>3 DEF ClientTypeOK
  <2> QED BY <1>2, <2>1, BoundAssumption DEF Wishes
<1>5. draft' \in [{Waiter, Guest, Desk} -> SUBSET Wishes]
  BY <1>2, <1>3, <1>4 DEF ClientTypeOK
<1>6. /\ draftKey' \in [{Waiter, Guest} -> DeviceKeys \cup {NoKey}]
      /\ \A e \in {Waiter, Guest} : draftKey'[e] \in KeysUpTo(minted) \cup {NoKey}
  BY <1>3 DEF Edits, KeepKey, ClientTypeOK, Typed
<1>7. ClientTypeOK'
  BY <1>1, <1>3, <1>4, <1>5, <1>6 DEF ClientTypeOK
<1>8. minted <= minted'
  BY <1>1, <1>3 DEF ClientTypeOK
<1>9. answers' \in [Devices -> [ok: BOOLEAN, come: BOOLEAN, view: Views]]
  BY <1>1 DEF Typed, ApiTypeOK
<1> QED BY <1>1, <1>6, <1>7, <1>8, <1>9, ClientCarries DEF Typed

LEMMA SendsTyped == ASSUME Typed, NEW m, Sends(m) PROVE Typed'
<1>1. /\ UNCHANGED <<checks, rows, asks, rejecting, seen, draft, faults, reloads, announced>>
      /\ wire' = wire \cup {m} /\ calling' = [calling EXCEPT ![m.from] = m]
      /\ answers' = [answers EXCEPT ![m.from] = NoAnswer]
      /\ m.open /\ Fits(m, minted', Len(checks))
  BY DEF Sends, Dispatch
<1>2. ClientTypeOK /\ ApiTypeOK
  BY DEF Typed
<1>3. m \in Command /\ m.from \in Devices /\ m.key \in KeysUpTo(minted')
  BY <1>1 DEF Fits, Command
<1>4. minted' \in 0..MaxKeys /\ minted \in 0..MaxKeys /\ minted <= minted'
  BY <1>2, BoundAssumption DEF Sends, Fresh, Again, ClientTypeOK
<1>5. \A q : Fits(q, minted, Len(checks)) => Fits(q, minted', Len(checks))
  <2>1. Len(checks) \in Nat /\ Len(checks) <= Len(checks) /\ minted \in Nat /\ minted' \in Nat
    BY <1>2, <1>4 DEF ApiTypeOK
  <2> QED BY <1>4, <2>1, FitsOn
<1>6. wanted' \in 0..MaxWishes
  BY <1>2, BoundAssumption DEF Sends, Fresh, Again, ClientTypeOK
<1>7. /\ retained' \in [{Till, Cash, Desk} -> SUBSET Command]
      /\ \A d \in {Till, Cash, Desk} : \A q \in retained'[d] :
            Fits(q, minted', Len(checks)) /\ q.from = d /\ q.open
  <2>1. \A d \in {Till, Cash, Desk} : \A q \in retained[d] :
            Fits(q, minted', Len(checks)) /\ q.from = d /\ q.open
    BY <1>5 DEF Typed
  <2>2. retained \in [{Till, Cash, Desk} -> SUBSET Command]
    BY <1>2 DEF ClientTypeOK
  <2>3. retained' = retained \/ (/\ m.from \in {Till, Cash, Desk}
                                 /\ retained' = [retained EXCEPT ![m.from] = @ \cup {m}])
    BY DEF Sends, Fresh, Again
  <2> QED BY <1>1, <1>3, <2>1, <2>2, <2>3
<1>8. /\ draftKey' \in [{Waiter, Guest} -> DeviceKeys \cup {NoKey}]
      /\ \A e \in {Waiter, Guest} : draftKey'[e] \in KeysUpTo(minted') \cup {NoKey}
  <2>1. draftKey \in [{Waiter, Guest} -> DeviceKeys \cup {NoKey}]
    BY <1>2 DEF ClientTypeOK
  <2>2. KeysUpTo(minted) \subseteq KeysUpTo(minted') /\ KeysUpTo(minted') \subseteq DeviceKeys
    BY <1>4, KeyNames DEF KeysUpTo
  <2>3. draftKey' = draftKey \/ (m.from \in {Waiter, Guest} /\ draftKey' = [draftKey EXCEPT ![m.from] = m.key])
    BY DEF Sends, Fresh, Again, KeepKey
  <2>4. \A e \in {Waiter, Guest} : draftKey[e] \in KeysUpTo(minted) \cup {NoKey}
    BY DEF Typed
  <2> QED BY <1>3, <2>1, <2>2, <2>3, <2>4
<1>9. /\ calling' \in [Devices -> Command \cup {NoCommand}]
      /\ \A d \in Devices : calling'[d] # NoCommand =>
           Fits(calling'[d], minted', Len(checks)) /\ calling'[d].from = d /\ calling'[d].open
  <2>1. calling \in [Devices -> Command \cup {NoCommand}]
    BY <1>2 DEF ClientTypeOK
  <2>2. \A d \in Devices : calling[d] # NoCommand =>
           Fits(calling[d], minted', Len(checks)) /\ calling[d].from = d /\ calling[d].open
    BY <1>5 DEF Typed
  <2>3. calling'[m.from] = m /\ \A d \in Devices : d # m.from => calling'[d] = calling[d]
    BY <1>1, <1>3, <2>1
  <2> QED BY <1>1, <1>3, <2>1, <2>2, <2>3
<1>10. /\ answers' \in [Devices -> [ok: BOOLEAN, come: BOOLEAN, view: Views]]
       /\ \A d \in Devices : Shows(answers'[d].view, Len(checks))
  <2>1. answers \in [Devices -> [ok: BOOLEAN, come: BOOLEAN, view: Views]] /\ Len(checks) \in Nat
    BY <1>2 DEF ApiTypeOK
  <2> QED BY <1>1, <1>3, <2>1, NoAnswerTyped DEF Typed
<1>11. ClientTypeOK'
  BY <1>1, <1>2, <1>4, <1>6, <1>7, <1>8, <1>9 DEF ClientTypeOK
<1>12. \A q \in wire' : Fits(q, minted', Len(checks))
  BY <1>1, <1>5 DEF Typed
<1>13. \A n \in KeyIds : n > minted' => announced'[DeviceKey(n)] = 0
  <2>1. \A n \in KeyIds : n > minted' => n > minted
    BY <1>4 DEF KeyIds
  <2> QED BY <1>1, <2>1 DEF Typed
<1> QED BY <1>1, <1>4, <1>7, <1>8, <1>9, <1>10, <1>11, <1>12, <1>13, ClientCarries DEF Typed

LEMMA SucceedsTyped == ASSUME Typed, NEW d \in Devices, Succeeds(d) PROVE Typed'
<1>1. /\ UNCHANGED <<checks, rows, asks, rejecting, wire, wanted, minted, faults, reloads>>
      /\ calling[d] # NoCommand /\ calling' = [calling EXCEPT ![d] = NoCommand]
      /\ announced' = [announced EXCEPT ![calling[d].key] = @ + 1]
      /\ answers' = [answers EXCEPT ![d] = NoAnswer]
  BY DEF Succeeds, Succeeded, Idle, HangUp
<1>2. ClientTypeOK /\ ApiTypeOK /\ minted \in 0..MaxKeys
  BY DEF Typed, ClientTypeOK
<1>3. calling[d].key \in KeysUpTo(minted) /\ KeysUpTo(minted) \subseteq DeviceKeys
  BY <1>1, <1>2, KeyNames DEF Typed, Fits
<1>4. /\ announced' \in [DeviceKeys -> Nat]
      /\ \A n \in KeyIds : n > minted' => announced'[DeviceKey(n)] = 0
  <2>1. announced \in [DeviceKeys -> Nat]
    BY <1>2 DEF ClientTypeOK
  <2>2. \A n \in KeyIds : n > minted => DeviceKey(n) # calling[d].key
    <3>1. PICK k \in 1..minted : calling[d].key = DeviceKey(k)
      BY <1>3 DEF KeysUpTo
    <3> QED BY <1>2, <3>1, KeyNames DEF KeyIds
  <2>3. \A n \in KeyIds : DeviceKey(n) \in DeviceKeys
    BY DEF DeviceKeys
  <2> QED BY <1>1, <1>3, <2>1, <2>2, <2>3 DEF Typed
<1>5. /\ calling' \in [Devices -> Command \cup {NoCommand}]
      /\ \A e \in Devices : calling'[e] # NoCommand => calling'[e] = calling[e]
  BY <1>1, <1>2 DEF ClientTypeOK
<1>6. /\ answers' \in [Devices -> [ok: BOOLEAN, come: BOOLEAN, view: Views]]
      /\ \A e \in Devices : Shows(answers'[e].view, Len(checks))
  <2>1. answers \in [Devices -> [ok: BOOLEAN, come: BOOLEAN, view: Views]] /\ Len(checks) \in Nat
    BY <1>2 DEF ApiTypeOK
  <2> QED BY <1>1, <2>1, NoAnswerTyped DEF Typed
<1>7. draft' \in [{Waiter, Guest, Desk} -> SUBSET Wishes]
  BY <1>2 DEF Succeeds, Draft, ClientTypeOK
<1>8. /\ draftKey' \in [{Waiter, Guest} -> DeviceKeys \cup {NoKey}]
      /\ \A e \in {Waiter, Guest} : draftKey'[e] \in KeysUpTo(minted) \cup {NoKey}
  BY <1>2 DEF Succeeds, KeepKey, ClientTypeOK, Typed
<1>9. /\ retained' \in [{Till, Cash, Desk} -> SUBSET Command]
      /\ \A e \in {Till, Cash, Desk} : retained'[e] \subseteq retained[e]
  <2>1. retained \in [{Till, Cash, Desk} -> SUBSET Command]
    BY <1>2 DEF ClientTypeOK
  <2>2. PICK kept : \/ retained' = retained
                    \/ d \in {Till, Cash, Desk} /\ retained' = [retained EXCEPT ![d] = kept] /\ kept \subseteq retained[d]
    BY DEF Succeeds
  <2> QED BY <2>1, <2>2
<1>10. /\ seen' \in [{Waiter, Till} -> Views]
       /\ \A e \in {Waiter, Till} : Shows(seen'[e], Len(checks))
  <2>1. seen \in [{Waiter, Till} -> Views] /\ answers[d].view \in Views /\ Shows(answers[d].view, Len(checks))
    BY <1>2 DEF ClientTypeOK, ApiTypeOK, Typed
  <2>2. Shown(answers[d].view) = seen[Till] \/ Shown(answers[d].view) = answers[d].view
    BY DEF Shown
  <2>3. seen' = seen \/ seen' = [seen EXCEPT ![Till] = answers[d].view]
    <3>1. seen' = seen \/ seen' = [seen EXCEPT ![Till] = Shown(answers[d].view)] \/ seen' = [seen EXCEPT ![Till] = seen[Till]]
      BY DEF Succeeds
    <3>2. [seen EXCEPT ![Till] = seen[Till]] = seen
      BY <2>1
    <3> QED BY <2>2, <3>1, <3>2
  <2> QED BY <2>1, <2>3 DEF Typed
<1>11. ClientTypeOK'
  BY <1>1, <1>2, <1>4, <1>5, <1>7, <1>8, <1>9, <1>10 DEF ClientTypeOK
<1>12. /\ minted <= minted' /\ minted' = minted
       /\ \A m \in wire' : Fits(m, minted', Len(checks))
       /\ \A e \in {Till, Cash, Desk} : \A m \in retained'[e] :
            Fits(m, minted', Len(checks)) /\ m.from = e /\ m.open
       /\ \A e \in Devices : calling'[e] # NoCommand =>
            Fits(calling'[e], minted', Len(checks)) /\ calling'[e].from = e /\ calling'[e].open
  BY <1>1, <1>2, <1>5, <1>9 DEF Typed
<1> QED BY <1>1, <1>4, <1>6, <1>8, <1>10, <1>11, <1>12, ClientCarries

LEMMA RefreshTyped == ASSUME Typed, NEW d \in {Waiter, Till}, Refresh(d) PROVE Typed'
<1>1. /\ UNCHANGED <<checks, rows, asks, rejecting, wire, answers, wanted, minted, calling, draft,
                     draftKey, retained, faults, reloads, announced>>
      /\ seen' = [seen EXCEPT ![d] = OnScreen(d)]
  BY DEF Refresh, apiVars
<1>2. ClientTypeOK /\ ApiTypeOK
  BY DEF Typed
<1>3. OnScreen(d) \in Views /\ Shows(OnScreen(d), Len(checks))
  <2> DEFINE paid == {c \in DOMAIN checks : checks[c] = "paid"}
             c == IF Active # 0 \/ d = Waiter \/ paid = {} THEN Active ELSE CHOOSE p \in paid : TRUE
  <2>1. c \in 0..Len(checks)
    BY <1>2, ActiveCheck DEF ApiTypeOK
  <2>2. OnScreen(d) = View(checks, rows, c)
    BY DEF OnScreen
  <2> HIDE DEF c
  <2> QED BY <1>2, <2>1, <2>2, ViewTyped DEF ApiTypeOK
<1>4. /\ seen' \in [{Waiter, Till} -> Views]
      /\ \A e \in {Waiter, Till} : Shows(seen'[e], Len(checks))
  BY <1>1, <1>2, <1>3 DEF ClientTypeOK, Typed
<1>5. ClientTypeOK' /\ minted <= minted' /\ minted' = minted
  BY <1>1, <1>2, <1>4 DEF ClientTypeOK
<1>6. /\ answers' \in [Devices -> [ok: BOOLEAN, come: BOOLEAN, view: Views]]
      /\ \A e \in Devices : Shows(answers'[e].view, Len(checks))
  BY <1>1, <1>2 DEF ApiTypeOK, Typed
<1>7. /\ \A m \in wire' : Fits(m, minted', Len(checks))
      /\ \A e \in {Till, Cash, Desk} : \A m \in retained'[e] :
            Fits(m, minted', Len(checks)) /\ m.from = e /\ m.open
      /\ \A e \in Devices : calling'[e] # NoCommand =>
            Fits(calling'[e], minted', Len(checks)) /\ calling'[e].from = e /\ calling'[e].open
      /\ \A e \in {Waiter, Guest} : draftKey'[e] \in KeysUpTo(minted') \cup {NoKey}
      /\ \A n \in KeyIds : n > minted' => announced'[DeviceKey(n)] = 0
  BY <1>1 DEF Typed
<1> QED BY <1>1, <1>4, <1>5, <1>6, <1>7, ClientCarries

\* Requests on the wire whose sender has given up are the same requests.
Sent(m, n) == Same(m, n) /\ (m = n \/ ~m.open)
LEMMA ClosedFits ==
  ASSUME Typed, NEW m, NEW n \in wire, m \in Command, Sent(m, n)
  PROVE  Fits(m, minted, Len(checks))
BY Alike DEF Typed, Sent

LEMMA Abandoned ==
  ASSUME Typed, NEW d, Abandon(d), calling[d] # NoCommand, d \in Devices
  PROVE  /\ \A m \in wire' : \E n \in wire : m \in Command /\ Sent(m, n) /\ (m.open => n # calling[d])
         /\ \A n \in wire : \E m \in wire' : Sent(m, n)
<1>1. wire \subseteq Command
  BY DEF Typed, ApiTypeOK
<1> DEFINE after(n) == IF n = calling[d] THEN [n EXCEPT !.open = FALSE] ELSE n
<1>2. ASSUME NEW n \in wire
      PROVE  after(n) \in Command /\ Sent(after(n), n) /\ (after(n).open => n # calling[d])
  <2>1. CASE n = calling[d]
    <3> DEFINE q == [n EXCEPT !.open = FALSE]
    <3>1. q \in Command /\ Same(q, n) /\ ~q.open
      BY <1>1, Closed
    <3>2. after(n) = q
      BY <2>1
    <3> HIDE DEF q, after
    <3> QED BY <3>1, <3>2 DEF Sent
  <2>2. CASE n # calling[d]
    BY <1>1, <2>2 DEF Sent, Same
  <2> QED BY <2>1, <2>2
<1>3. wire' = {after(n) : n \in wire}
  BY DEF Abandon
<1> HIDE DEF after
<1> QED BY <1>2, <1>3

LEMMA WireCleared ==
  ASSUME Typed, NEW page, wire' = {IF m.from \in page THEN [m EXCEPT !.open = FALSE] ELSE m : m \in wire}
  PROVE  /\ \A m \in wire' : \E n \in wire : m \in Command /\ Sent(m, n) /\ (m.open => m.from \notin page)
         /\ \A n \in wire : \E m \in wire' : Sent(m, n)
<1>1. wire \subseteq Command
  BY DEF Typed, ApiTypeOK
<1> DEFINE after(n) == IF n.from \in page THEN [n EXCEPT !.open = FALSE] ELSE n
<1>2. ASSUME NEW n \in wire
      PROVE  after(n) \in Command /\ Sent(after(n), n) /\ (after(n).open => after(n).from \notin page)
  <2>1. CASE n.from \in page
    <3> DEFINE q == [n EXCEPT !.open = FALSE]
    <3>1. q \in Command /\ Same(q, n) /\ ~q.open
      BY <1>1, Closed
    <3>2. after(n) = q
      BY <2>1
    <3> HIDE DEF q, after
    <3> QED BY <3>1, <3>2 DEF Sent
  <2>2. CASE n.from \notin page
    BY <1>1, <2>2 DEF Sent, Same
  <2> QED BY <2>1, <2>2
<1>3. wire' = {after(n) : n \in wire}
  OBVIOUS
<1> HIDE DEF after
<1> QED BY <1>2, <1>3

LEMMA FailedTyped == ASSUME Typed, NEW d \in Devices, Failed(d) PROVE Typed'
<1>1. /\ UNCHANGED <<checks, rows, asks, rejecting, wanted, minted, seen, draft, draftKey,
                     retained, reloads, announced>>
      /\ calling[d] # NoCommand /\ calling' = [calling EXCEPT ![d] = NoCommand]
      /\ answers' = [answers EXCEPT ![d] = NoAnswer]
  BY DEF Failed, Idle, HangUp
<1>2. ClientTypeOK /\ ApiTypeOK
  BY DEF Typed
<1>3. \A m \in wire' : Fits(m, minted, Len(checks))
  <2>1. CASE UNCHANGED wire
    BY <2>1 DEF Typed
  <2>2. CASE Abandon(d)
    BY <1>1, <2>2, Abandoned, ClosedFits
  <2> QED BY <2>1, <2>2 DEF Failed
<1>4. faults' \in Nat /\ faults' + reloads <= MaxTroubles
  BY <1>2, TroubleAssumption DEF Failed, ClientTypeOK
<1>5. /\ calling' \in [Devices -> Command \cup {NoCommand}]
      /\ \A e \in Devices : calling'[e] # NoCommand => calling'[e] = calling[e]
  BY <1>1, <1>2 DEF ClientTypeOK
<1>6. /\ answers' \in [Devices -> [ok: BOOLEAN, come: BOOLEAN, view: Views]]
      /\ \A e \in Devices : Shows(answers'[e].view, Len(checks))
  <2>1. answers \in [Devices -> [ok: BOOLEAN, come: BOOLEAN, view: Views]] /\ Len(checks) \in Nat
    BY <1>2 DEF ApiTypeOK
  <2> QED BY <1>1, <2>1, NoAnswerTyped DEF Typed
<1>7. ClientTypeOK' /\ minted <= minted' /\ minted' = minted
  BY <1>1, <1>2, <1>4, <1>5 DEF ClientTypeOK
<1>8. /\ \A e \in {Till, Cash, Desk} : \A m \in retained'[e] :
            Fits(m, minted', Len(checks)) /\ m.from = e /\ m.open
      /\ \A e \in Devices : calling'[e] # NoCommand =>
            Fits(calling'[e], minted', Len(checks)) /\ calling'[e].from = e /\ calling'[e].open
      /\ \A e \in {Waiter, Till} : Shows(seen'[e], Len(checks))
      /\ \A e \in {Waiter, Guest} : draftKey'[e] \in KeysUpTo(minted') \cup {NoKey}
      /\ \A n \in KeyIds : n > minted' => announced'[DeviceKey(n)] = 0
  BY <1>1, <1>5 DEF Typed
<1> QED BY <1>1, <1>3, <1>6, <1>7, <1>8, ClientCarries

LEMMA ReloadTyped == ASSUME Typed, NEW page \in Pages, Reload(page) PROVE Typed'
<1>1. /\ UNCHANGED <<checks, rows, asks, rejecting, wanted, minted, seen, faults, announced>>
      /\ wire' = {IF m.from \in page THEN [m EXCEPT !.open = FALSE] ELSE m : m \in wire}
      /\ calling' = Forgets(calling, page, NoCommand)
      /\ answers' = Forgets(answers, page, NoAnswer)
      /\ draft' = Forgets(draft, page \ {Guest}, {})
      /\ draftKey' = Forgets(draftKey, page, NoKey)
      /\ retained' = Forgets(retained, page, {})
  BY DEF Reload
<1>2. ClientTypeOK /\ ApiTypeOK
  BY DEF Typed
<1>3. \A m \in wire' : Fits(m, minted, Len(checks))
  BY <1>1, WireCleared, ClosedFits
<1>4. reloads' \in Nat /\ faults + reloads' <= MaxTroubles
  BY <1>2, TroubleAssumption DEF Reload, ClientTypeOK
<1>5. /\ calling' \in [Devices -> Command \cup {NoCommand}]
      /\ \A e \in Devices : calling'[e] # NoCommand => calling'[e] = calling[e]
  BY <1>1, <1>2 DEF ClientTypeOK, Forgets
<1>6. /\ answers' \in [Devices -> [ok: BOOLEAN, come: BOOLEAN, view: Views]]
      /\ \A e \in Devices : Shows(answers'[e].view, Len(checks))
  <2>1. answers \in [Devices -> [ok: BOOLEAN, come: BOOLEAN, view: Views]] /\ Len(checks) \in Nat
    BY <1>2 DEF ApiTypeOK
  <2> QED BY <1>1, <2>1, NoAnswerTyped DEF Typed, Forgets
<1>7. draft' \in [{Waiter, Guest, Desk} -> SUBSET Wishes]
  BY <1>1, <1>2 DEF ClientTypeOK, Forgets
<1>8. /\ draftKey' \in [{Waiter, Guest} -> DeviceKeys \cup {NoKey}]
      /\ \A e \in {Waiter, Guest} : draftKey'[e] \in KeysUpTo(minted) \cup {NoKey}
  BY <1>1, <1>2 DEF ClientTypeOK, Forgets, Typed
<1>9. /\ retained' \in [{Till, Cash, Desk} -> SUBSET Command]
      /\ \A e \in {Till, Cash, Desk} : retained'[e] \subseteq retained[e]
  BY <1>1, <1>2 DEF ClientTypeOK, Forgets
<1>10. ClientTypeOK' /\ minted <= minted' /\ minted' = minted
  <2>1. minted <= minted' /\ minted' = minted
    BY <1>1, <1>2 DEF ClientTypeOK
  <2>2. faults' = faults
    BY <1>1
  <2> QED BY <1>1, <1>2, <1>4, <1>5, <1>7, <1>8, <1>9, <2>1, <2>2, Zenon DEF ClientTypeOK
<1>11. /\ \A e \in {Till, Cash, Desk} : \A m \in retained'[e] :
            Fits(m, minted', Len(checks)) /\ m.from = e /\ m.open
       /\ \A e \in Devices : calling'[e] # NoCommand =>
            Fits(calling'[e], minted', Len(checks)) /\ calling'[e].from = e /\ calling'[e].open
       /\ \A e \in {Waiter, Till} : Shows(seen'[e], Len(checks))
       /\ \A n \in KeyIds : n > minted' => announced'[DeviceKey(n)] = 0
  BY <1>1, <1>5, <1>9 DEF Typed
<1> QED BY <1>1, <1>3, <1>6, <1>8, <1>10, <1>11, ClientCarries

LEMMA InitTyped == ASSUME Init PROVE Typed
<1>1. NoView \in Views /\ NoAnswer \in [ok: BOOLEAN, come: BOOLEAN, view: Views]
  BY NoAnswerTyped, BoundAssumption DEF NoView, Views
<1>2. ApiTypeOK
  BY <1>1, BoundAssumption DEF Init, ApiInit, ApiTypeOK
<1>3. ClientTypeOK
  BY <1>1, BoundAssumption, TroubleAssumption DEF Init, ClientInit, ClientTypeOK
<1>4. \A d \in Devices : calling[d] = NoCommand /\ answers[d] = NoAnswer
  BY DEF Init, ApiInit, ClientInit
<1>5. Len(checks) = 0 /\ DOMAIN asks = {} /\ DOMAIN rows = {} /\ wire = {}
  BY DEF Init, ApiInit
<1>6. \A d \in {Waiter, Till} : Shows(seen[d], 0)
  BY DEF Init, ClientInit, Shows, NoView
<1>7. \A d \in {Till, Cash, Desk} : retained[d] = {}
  BY DEF Init, ClientInit
<1>8. \A d \in {Waiter, Guest} : draftKey[d] = NoKey
  BY DEF Init, ClientInit
<1>9. \A n \in KeyIds : announced[DeviceKey(n)] = 0
  BY DEF Init, ClientInit, DeviceKeys
<1> QED BY <1>2, <1>3, <1>4, <1>5, <1>6, <1>7, <1>8, <1>9, NoAnswerTyped DEF Typed

LEMMA NextTyped == Typed /\ [Next]_vars => Typed'
<1> SUFFICES ASSUME Typed, [Next]_vars PROVE Typed'
  OBVIOUS
<1>1. CASE ApiNext /\ UNCHANGED clientVars
  BY <1>1, ApiTyped
<1>2. CASE ClientNext
  BY <1>2, ClientSteps, EditsTyped, SendsTyped, SucceedsTyped, RefreshTyped, FailedTyped, ReloadTyped
<1>3. CASE UNCHANGED vars
  BY <1>3 DEF vars, apiVars, clientVars, Typed, ApiTypeOK, ClientTypeOK
<1> QED BY <1>1, <1>2, <1>3 DEF Next

LEMMA AlwaysTyped == Spec => []Typed
<1>1. Init => Typed
  BY InitTyped
<1> QED BY <1>1, NextTyped, PTL DEF Spec

\* The ordering screens and the API keep their types, whatever is lost or
\* repeated on the way between them.
THEOREM CommandTypeCorrect == Spec => []CommandsTypeOK
<1>1. Typed => CommandsTypeOK
  BY DEF Typed, CommandsTypeOK
<1> QED BY <1>1, AlwaysTyped, PTL

-----------------------------------------------------------------------------
(* One order for a guest request, and no check collected beyond its worth.   *)

LEMMA ScreensWriteNothing ==
  ASSUME Typed, ClientNext PROVE UNCHANGED <<checks, rows, asks, rejecting>>
BY ClientSteps DEF Edits, EditFrame, apiVars, Sends, Dispatch, Succeeds, Succeeded, Failed, Refresh, Reload

LEMMA AtMostOne ==
  ASSUME NEW S, \A x, y \in S : x = y
  PROVE  IsFiniteSet(S) /\ Cardinality(S) <= 1
<1>1. CASE S = {}
  <2>1. Cardinality(S) = 0 /\ IsFiniteSet(S)
    BY <1>1, FS_EmptySet
  <2> QED BY <2>1
<1>2. CASE S # {}
  <2>1. PICK x \in S : S = {x}
    BY <1>2
  <2>2. Cardinality(S) = 1 /\ IsFiniteSet(S)
    BY <2>1, FS_Singleton
  <2> QED BY <2>2
<1> QED BY <1>1, <1>2

\* One row for a guest request, and one on its check for an approved request.
Once ==
  \A a \in DOMAIN asks :
    /\ \A i, j \in DOMAIN rows : rows[i].key = RequestKey(a) /\ rows[j].key = RequestKey(a) => i = j
    /\ asks[a].status = "APPROVED" =>
         \E i \in DOMAIN rows : rows[i].key = RequestKey(a) /\ rows[i].check = asks[a].check

\* The lookup before the booking sees every row of the request.
LEMMA RequestRows ==
  ASSUME Typed, NEW a \in Nat, Under({"order", "append"}, RequestKey(a)) = {}
  PROVE  \A i \in DOMAIN rows : rows[i].key # RequestKey(a)
<1> SUFFICES ASSUME NEW i \in DOMAIN rows, rows[i].key = RequestKey(a) PROVE FALSE
  OBVIOUS
<1>1. rows[i] \in Row /\ Traced(rows[i], asks, minted) /\ minted \in 0..MaxKeys
  BY DEF Typed, ApiTypeOK, ClientTypeOK
<1>2. rows[i].from = Guest
  <2>1. \A n \in 1..minted : RequestKey(a) # DeviceKey(n)
    BY <1>1, KeyNames
  <2> QED BY <1>1, <2>1 DEF Traced, KeysUpTo
<1>3. rows[i].kind \in {"order", "append"}
  BY <1>1, <1>2, RowFields DEF Traced
<1> QED BY <1>3 DEF Under, Recorded

\* A device's command is booked under no request's key.
LEMMA DeviceRows ==
  ASSUME Typed, NEW m \in wire, NEW a \in Nat PROVE m.key # RequestKey(a)
<1>1. m.key \in KeysUpTo(minted) /\ minted \in 0..MaxKeys
  BY DEF Typed, Fits, ClientTypeOK
<1>2. \A n \in 1..minted : RequestKey(a) # DeviceKey(n)
  BY <1>1, KeyNames
<1> QED BY <1>1, <1>2 DEF KeysUpTo

LEMMA BooksOnce == ASSUME Typed, Once, NEW m \in wire, Books(m) PROVE Once'
<1>1. PICK r \in Row : rows' = Append(rows, r) /\ r.key = m.key /\ UNCHANGED asks
  BY BookedTyped
<1>2. rows \in Seq(Row) /\ DOMAIN asks \subseteq Nat
  BY DEF Typed, ApiTypeOK
<1>3. /\ DOMAIN rows' = (DOMAIN rows) \cup {Len(rows) + 1}
      /\ rows'[Len(rows) + 1] = r /\ \A i \in DOMAIN rows : rows'[i] = rows[i]
  BY <1>1, <1>2
<1>4. \A a \in DOMAIN asks : r.key # RequestKey(a)
  BY <1>1, <1>2, DeviceRows
<1> QED BY <1>1, <1>3, <1>4 DEF Once

LEMMA RequestsOnce == ASSUME Typed, Once, NEW m \in wire, Requests(m) PROVE Once'
<1> DEFINE n == Len(asks) + 1
<1>1. /\ DOMAIN asks' = (DOMAIN asks) \cup {n} /\ asks'[n].status = "PENDING"
      /\ \A a \in DOMAIN asks : asks'[a] = asks[a]
      /\ n \notin DOMAIN asks /\ UNCHANGED rows
  BY RequestAdded DEF Requests
<1>2. n \in Nat /\ DOMAIN asks \subseteq Nat
  BY DEF Typed, ApiTypeOK
<1>3. \A i \in DOMAIN rows : rows[i].key # RequestKey(n)
  <2> SUFFICES ASSUME NEW i \in DOMAIN rows, rows[i].key = RequestKey(n) PROVE FALSE
    OBVIOUS
  <2>1. Traced(rows[i], asks, minted) /\ minted \in 0..MaxKeys
    BY DEF Typed, ClientTypeOK
  <2>2. \A k \in 1..minted : RequestKey(n) # DeviceKey(k)
    BY <1>2, <2>1, KeyNames
  <2>3. \A a \in DOMAIN asks : RequestKey(n) # RequestKey(a)
    BY <1>1, <1>2, KeyNames
  <2> QED BY <2>1, <2>2, <2>3 DEF Traced, KeysUpTo
<1> HIDE DEF n
<1> QED BY <1>1, <1>3 DEF Once

LEMMA ApprovesOnce == ASSUME Typed, Once, NEW a \in DOMAIN asks, Approves(a) PROVE Once'
<1>1. PICK c \in 1..MaxChecks, r \in Row :
        /\ rows' = Append(rows, r) /\ r.key = RequestKey(a) /\ r.check = c
        /\ Under({"order", "append"}, RequestKey(a)) = {}
        /\ DOMAIN asks' = DOMAIN asks
        /\ \A b \in DOMAIN asks : b # a => asks'[b] = asks[b]
        /\ asks'[a].check = c
  BY Approved
<1>2. rows \in Seq(Row) /\ DOMAIN asks \subseteq Nat
  BY DEF Typed, ApiTypeOK
<1>3. /\ DOMAIN rows' = (DOMAIN rows) \cup {Len(rows) + 1}
      /\ rows'[Len(rows) + 1] = r /\ \A i \in DOMAIN rows : rows'[i] = rows[i]
  BY <1>1, <1>2
<1>4. \A b \in DOMAIN asks : b # a => r.key # RequestKey(b)
  BY <1>1, <1>2, KeyNames
<1>5. \A i \in DOMAIN rows : rows[i].key # RequestKey(a)
  BY <1>1, <1>2, RequestRows
<1> QED BY <1>1, <1>3, <1>4, <1>5 DEF Once

LEMMA NextOnce == Typed /\ Once /\ [Next]_vars => Once'
<1> SUFFICES ASSUME Typed, Once, [Next]_vars PROVE Once'
  OBVIOUS
<1>1. ASSUME UNCHANGED <<rows, asks>> PROVE Once'
  BY <1>1 DEF Once
<1>2. ASSUME NEW a \in DOMAIN asks, Marks(a) PROVE Once'
  BY <1>2, Marked DEF Once
<1>3. ASSUME NEW m \in wire, Echoes(m) PROVE Once'
  BY <1>1, <1>3 DEF Echoes
<1>4. CASE CloseTable
  BY <1>1, <1>4 DEF CloseTable
<1>5. CASE ApiNext
  BY <1>2, <1>3, <1>4, <1>5, ApiSteps, BooksOnce, RequestsOnce, ApprovesOnce
<1>6. CASE ClientNext
  BY <1>1, <1>6, ScreensWriteNothing
<1>7. CASE UNCHANGED vars
  BY <1>1, <1>7 DEF vars, apiVars
<1> QED BY <1>5, <1>6, <1>7 DEF Next

\* A guest request becomes one order at most, and an approved one has its order
\* on the check it names: approvals, expiry, rejections read before an approval
\* and every other command may come in any order.
THEOREM OneOrderPerRequest == Spec => []ApprovedOnce
<1>1. Init => Once
  BY DEF Init, ApiInit, Once
<1>2. Once => ApprovedOnce
  <2> SUFFICES ASSUME Once, NEW a \in DOMAIN asks,
                      NEW made, made = {i \in DOMAIN rows : rows[i].key = RequestKey(a)}
               PROVE  /\ Cardinality(made) <= 1
                      /\ asks[a].status = "APPROVED" => \E i \in made : rows[i].check = asks[a].check
    BY DEF ApprovedOnce
  <2>1. \A i, j \in made : i = j
    BY DEF Once
  <2>2. Cardinality(made) <= 1
    BY <2>1, AtMostOne
  <2>3. asks[a].status = "APPROVED" => \E i \in made : rows[i].check = asks[a].check
    BY DEF Once
  <2> QED BY <2>2, <2>3
<1> QED BY <1>1, <1>2, NextOnce, AlwaysTyped, PTL DEF Spec

\* One more row leaves a check covered.
LEMMA WorthGrows ==
  ASSUME Typed, NEW r \in Row, rows' = Append(rows, r), NEW c, PaidOn(c) <= TotalOf(c),
         r.check = c => r.amount <= TotalOf(c) - PaidOn(c)
  PROVE  PaidIn(rows', c) <= TotalIn(rows', c)
<1>1. rows \in Seq(Row)
  BY DEF Typed, ApiTypeOK
<1>2. /\ PaidIn(rows', c) = PaidIn(rows, c) + (IF r.check = c THEN r.amount ELSE 0)
      /\ TotalIn(rows', c) = TotalIn(rows, c) + (IF r.check = c THEN Cardinality(r.items) ELSE 0)
  BY <1>1, SumsGrow
<1>3. PaidIn(rows, c) \in Nat /\ TotalIn(rows, c) \in Nat
  BY <1>1, Sums
<1>4. r.amount \in Nat /\ Cardinality(r.items) \in Nat
  BY RowFields
<1> QED BY <1>2, <1>3, <1>4 DEF PaidOn, TotalOf

\* A check that has just been opened has nothing on it.
LEMMA NewCheck ==
  ASSUME Typed, NEW c, c \notin 0..Len(checks) PROVE PaidOn(c) = 0 /\ TotalOf(c) = 0
<1>1. rows \in Seq(Row) /\ \A i \in DOMAIN rows : rows[i].check <= Len(checks)
  BY DEF Typed, ApiTypeOK
<1>2. \A i \in DOMAIN rows : rows[i].check \in 0..Len(checks)
  BY <1>1, RowFields DEF Typed, ApiTypeOK
<1> QED BY <1>1, <1>2, SumsNone DEF PaidOn, TotalOf

LEMMA CoveredOn ==
  ASSUME Typed, NeverOverpaid, NEW r \in Row, rows' = Append(rows, r),
         \/ checks' \in Seq({"open", "paid", "closed"}) /\ Len(checks') = Len(checks)
         \/ Opens(r.check),
         \/ r.amount = 0
         \/ r.amount <= TotalOf(r.check) - PaidOn(r.check)
  PROVE  NeverOverpaid'
<1>0. checks \in Seq({"open", "paid", "closed"}) /\ rows \in Seq(Row)
  BY DEF Typed, ApiTypeOK
<1> SUFFICES ASSUME NEW c \in DOMAIN checks' PROVE PaidIn(rows', c) <= TotalIn(rows', c)
  BY DEF NeverOverpaid, PaidOn, TotalOf
<1>1. PaidOn(c) <= TotalOf(c)
  <2>1. CASE c \in DOMAIN checks
    BY <2>1 DEF NeverOverpaid
  <2>2. CASE c \notin DOMAIN checks
    <3>1. c \notin 0..Len(checks)
      BY <1>0, <2>2 DEF Opens
    <3> QED BY <3>1, NewCheck
  <2> QED BY <2>1, <2>2
<1>2. PaidOn(c) \in Nat /\ TotalOf(c) \in Nat /\ r.amount \in Nat
  BY <1>0, Sums, RowFields DEF PaidOn, TotalOf
<1>3. r.check = c => r.amount <= TotalOf(c) - PaidOn(c)
  BY <1>1, <1>2
<1> QED BY <1>1, <1>3, WorthGrows

LEMMA BooksCovered == ASSUME Typed, NeverOverpaid, NEW m \in wire, Books(m) PROVE NeverOverpaid'
<1>1. PICK kind \in KindsOf(m.to), c \in 0..MaxChecks, r \in Row :
        /\ r.kind = kind /\ r.check = c /\ r.amount = m.amount /\ rows' = Append(rows, r)
        /\ \/ kind = "order" /\ Opens(c)
           \/ kind = "append" /\ Joins(c)
           \/ kind = "order" /\ c = 0 /\ UNCHANGED checks
           \/ kind = "payment" /\ c = m.check /\ Pays(m)
  BY BookedTyped
<1>2. checks \in Seq({"open", "paid", "closed"})
  BY DEF Typed, ApiTypeOK
<1>3. CASE kind = "payment" /\ c = m.check /\ Pays(m)
  <2>1. checks' \in Seq({"open", "paid", "closed"}) /\ Len(checks') = Len(checks)
    BY <1>2, <1>3, PaysKeeps
  <2>2. r.amount <= TotalOf(r.check) - PaidOn(r.check)
    BY <1>1, <1>3 DEF Pays, MayPay
  <2> QED BY <1>1, <2>1, <2>2, CoveredOn
<1>4. CASE kind # "payment"
  <2>1. Fits(m, minted, Len(checks)) /\ m.to # "payments"
    BY <1>1, <1>4 DEF Typed, KindsOf
  <2>2. r.amount = 0
    BY <1>1, <2>1 DEF Fits
  <2>3. Opens(r.check) \/ (checks' \in Seq({"open", "paid", "closed"}) /\ Len(checks') = Len(checks))
    BY <1>1, <1>2, <1>4 DEF Joins
  <2> QED BY <1>1, <2>2, <2>3, CoveredOn
<1> QED BY <1>1, <1>3, <1>4

LEMMA ApprovesCovered ==
  ASSUME Typed, NeverOverpaid, NEW a \in DOMAIN asks, Approves(a) PROVE NeverOverpaid'
<1>1. PICK kind \in {"order", "append"}, c \in 1..MaxChecks, r \in Row :
        /\ r.check = c /\ r.amount = 0 /\ rows' = Append(rows, r)
        /\ (kind = "order" /\ Opens(c)) \/ (kind = "append" /\ Joins(c))
  BY Approved
<1>2. Opens(r.check) \/ (checks' \in Seq({"open", "paid", "closed"}) /\ Len(checks') = Len(checks))
  BY <1>1 DEF Joins, Typed, ApiTypeOK
<1> QED BY <1>1, <1>2, CoveredOn

LEMMA NextCovered == Typed /\ NeverOverpaid /\ [Next]_vars => NeverOverpaid'
<1> SUFFICES ASSUME Typed, NeverOverpaid, [Next]_vars PROVE NeverOverpaid'
  OBVIOUS
<1>1. ASSUME UNCHANGED rows, DOMAIN checks' = DOMAIN checks PROVE NeverOverpaid'
  BY <1>1 DEF NeverOverpaid, PaidOn, TotalOf
<1>2. ASSUME NEW a \in DOMAIN asks, Marks(a) PROVE NeverOverpaid'
  BY <1>1, <1>2 DEF Marks
<1>3. ASSUME NEW m \in wire, Echoes(m) \/ Requests(m) PROVE NeverOverpaid'
  BY <1>1, <1>3 DEF Echoes, Requests
<1>4. CASE CloseTable
  BY <1>1, <1>4 DEF CloseTable
<1>5. CASE ApiNext
  BY <1>2, <1>3, <1>4, <1>5, ApiSteps, BooksCovered, ApprovesCovered
<1>6. CASE ClientNext
  BY <1>1, <1>6, ScreensWriteNothing
<1>7. CASE UNCHANGED vars
  BY <1>1, <1>7 DEF vars, apiVars
<1> QED BY <1>5, <1>6, <1>7 DEF Next

\* No repeated payment, and none whose amount was read before another was
\* booked, collects more on a check than the check is worth.
THEOREM NothingOverpaid == Spec => []NeverOverpaid
<1>1. Init => NeverOverpaid
  BY DEF Init, ApiInit, NeverOverpaid
<1> QED BY <1>1, NextCovered, AlwaysTyped, PTL DEF Spec

-----------------------------------------------------------------------------
(* What is announced is on record.                                           *)

\* What is on file stays there.
LEMMA FiledMore ==
  ASSUME Typed, NEW r \in Row, rows' = Append(rows, r), asks' = asks
  PROVE  /\ \A key : Filed(rows, asks, key) => Filed(rows', asks', key)
         /\ Filed(rows', asks', r.key)
<1>1. rows \in Seq(Row)
  BY DEF Typed, ApiTypeOK
<1>2. /\ DOMAIN rows' = (DOMAIN rows) \cup {Len(rows) + 1}
      /\ rows'[Len(rows) + 1] = r /\ \A i \in DOMAIN rows : rows'[i] = rows[i]
  BY <1>1
<1> QED BY <1>2 DEF Filed

LEMMA FiledOn ==
  ASSUME UNCHANGED rows, DOMAIN asks \subseteq DOMAIN asks',
         \A a \in DOMAIN asks : asks'[a].key = asks[a].key
  PROVE  \A key : Filed(rows, asks, key) => Filed(rows', asks', key)
BY DEF Filed

LEMMA HoldersStay ==
  ASSUME UNCHANGED clientVars PROVE \A k : DeviceFor(k)' = DeviceFor(k)
BY DEF DeviceFor, clientVars

LEMMA Noted ==
  ASSUME Typed, Answered, UNCHANGED clientVars, NEW m \in wire, NEW ok \in BOOLEAN, NEW c,
         Answer(m, ok, c), ok => Filed(rows', asks', m.key),
         \A key : Filed(rows, asks, key) => Filed(rows', asks', key)
  PROVE  Answered'
<1>1. /\ answers \in [Devices -> [ok: BOOLEAN, come: BOOLEAN, view: Views]]
      /\ m.from \in Devices /\ m # NoCommand
  BY NoCommandIsNone DEF Typed, ApiTypeOK, Command
<1>2. \A d \in Devices :
        answers'[d] = answers[d] \/ (m.open /\ d = m.from /\ answers'[d].ok = ok /\ answers'[d].come)
  <2> DEFINE v == IF m.from = Till THEN View(checks', rows', c) ELSE NoView
             q == [ok |-> ok, come |-> TRUE, view |-> v]
  <2>1. answers' = IF m.open THEN [answers EXCEPT ![m.from] = q] ELSE answers
    BY DEF Answer
  <2>2. q.ok = ok /\ q.come
    OBVIOUS
  <2> HIDE DEF q
  <2> QED BY <1>1, <2>1, <2>2
<1>3. m.open => calling[m.from] = m
  BY DEF Answered
<1>4. calling' = calling /\ retained' = retained /\ announced' = announced
  BY DEF clientVars
<1>5. \A n \in wire' : n.open => calling'[n.from] = n /\ ~answers'[n.from].come
  <2> SUFFICES ASSUME NEW n \in wire', n.open PROVE calling'[n.from] = n /\ ~answers'[n.from].come
    OBVIOUS
  <2>1. n \in wire /\ n # m
    BY DEF Answer
  <2>2. calling[n.from] = n /\ ~answers[n.from].come /\ n.from \in Devices
    BY <2>1 DEF Answered, Typed, ApiTypeOK, Command
  <2> QED BY <1>2, <1>3, <1>4, <2>1, <2>2
<1>6. \A d \in Devices : answers'[d].ok =>
        answers'[d].come /\ calling'[d] # NoCommand /\ Filed(rows', asks', calling[d].key)
  <2> SUFFICES ASSUME NEW d \in Devices, answers'[d].ok
               PROVE  answers'[d].come /\ calling'[d] # NoCommand /\ Filed(rows', asks', calling[d].key)
    OBVIOUS
  <2>1. CASE answers'[d] = answers[d]
    <3>1. answers[d].ok
      BY <2>1
    <3>2. answers[d].come /\ calling[d] # NoCommand /\ Filed(rows, asks, calling[d].key)
      BY <3>1 DEF Answered
    <3> QED BY <1>4, <2>1, <3>2
  <2>2. CASE m.open /\ d = m.from /\ answers'[d].ok = ok /\ answers'[d].come
    <3>1. ok
      BY <2>2
    <3> QED BY <1>1, <1>3, <1>4, <2>2, <3>1
  <2> QED BY <1>2, <2>1, <2>2
<1>7. \A k \in DeviceKeys : \A d, e \in DeviceFor(k)' : d = e /\ announced'[k] = 0
  BY <1>4, HoldersStay DEF Answered
<1>8. \A d \in {Till, Cash, Desk} :
        /\ calling'[d] # NoCommand => calling'[d] \in retained'[d]
        /\ \A x, y \in retained'[d] : x.key = y.key => x = y
  BY <1>4 DEF Answered
<1>9. \A d \in Devices : answers'[d].ok =>
        answers'[d].come /\ calling'[d] # NoCommand /\ Filed(rows', asks', calling'[d].key)
  BY <1>4, <1>6 DEF Filed
<1> QED BY <1>5, <1>7, <1>8, <1>9 DEF Answered

\* A step that answers nobody.
LEMMA Unnoted ==
  ASSUME Answered, UNCHANGED clientVars, UNCHANGED <<wire, answers>>, \A key : Filed(rows, asks, key) => Filed(rows', asks', key)
  PROVE  Answered'
<1>1. calling' = calling /\ retained' = retained /\ announced' = announced
  BY DEF clientVars
<1>2. \A d \in Devices : answers'[d].ok =>
        answers'[d].come /\ calling'[d] # NoCommand /\ Filed(rows', asks', calling'[d].key)
  <2>1. \A d \in Devices : answers[d].ok => Filed(rows', asks', calling[d].key)
    BY DEF Answered
  <2> QED BY <1>1, <2>1 DEF Answered
<1>3. \A k \in DeviceKeys : \A d, e \in DeviceFor(k)' : d = e /\ announced'[k] = 0
  BY <1>1, HoldersStay DEF Answered
<1> QED BY <1>1, <1>2, <1>3 DEF Answered

LEMMA ApiAnswered == ASSUME Typed, Answered, ApiNext, UNCHANGED clientVars PROVE Answered'
<1>0. rows \in Seq(Row)
  BY DEF Typed, ApiTypeOK
<1>1. ASSUME NEW m \in wire, Echoes(m) PROVE Answered'
  <2>1. PICK ok \in BOOLEAN, c \in 0..Len(checks) : Answer(m, ok, c) /\ (ok => Filed(rows, asks, m.key))
    BY <1>1, Zenon DEF Echoes, OnFile
  <2>2. UNCHANGED <<rows, asks>>
    BY <1>1, Zenon DEF Echoes
  <2>3. \A key : Filed(rows, asks, key) => Filed(rows', asks', key)
    BY <2>2, FiledOn
  <2> QED BY <2>1, <2>3, Noted
<1>2. ASSUME NEW m \in wire, Books(m) PROVE Answered'
  <2>1. PICK r \in Row, shown \in 0..Len(checks') :
           r.key = m.key /\ rows' = Append(rows, r) /\ Answer(m, TRUE, shown) /\ UNCHANGED asks
    BY <1>2, BookedTyped
  <2>2. (\A key : Filed(rows, asks, key) => Filed(rows', asks', key)) /\ Filed(rows', asks', m.key)
    BY <2>1, FiledMore DEF Filed
  <2>3. TRUE \in BOOLEAN
    OBVIOUS
  <2> QED BY <2>1, <2>2, <2>3, Noted
<1>3. ASSUME NEW m \in wire, Requests(m) PROVE Answered'
  <2>1. /\ DOMAIN asks' = (DOMAIN asks) \cup {Len(asks) + 1}
        /\ \A a \in DOMAIN asks : asks'[a] = asks[a]
        /\ asks'[Len(asks) + 1].key = m.key
        /\ UNCHANGED rows /\ Answer(m, TRUE, 0)
    BY <1>3, RequestAdded DEF Requests
  <2>2. \A key : Filed(rows, asks, key) => Filed(rows', asks', key)
    BY <2>1, FiledOn
  <2>3. Filed(rows', asks', m.key)
    BY <2>1 DEF Filed
  <2>4. TRUE \in BOOLEAN
    OBVIOUS
  <2> QED BY <2>1, <2>2, <2>3, <2>4, Noted
<1>4. ASSUME NEW a \in DOMAIN asks, Approves(a) PROVE Answered'
  <2>1. PICK r \in Row :
           /\ rows' = Append(rows, r) /\ UNCHANGED <<wire, answers>>
           /\ DOMAIN asks' = DOMAIN asks
           /\ \A b \in DOMAIN asks : asks'[b].key = asks[b].key
    BY <1>4, Approved
  <2>2. /\ DOMAIN rows' = (DOMAIN rows) \cup {Len(rows) + 1}
        /\ \A i \in DOMAIN rows : rows'[i] = rows[i]
    BY <1>0, <2>1
  <2>3. \A key : Filed(rows, asks, key) => Filed(rows', asks', key)
    BY <2>1, <2>2 DEF Filed
  <2> QED BY <2>1, <2>3, Unnoted
<1>5. ASSUME NEW a \in DOMAIN asks, Marks(a) PROVE Answered'
  <2>1. /\ UNCHANGED <<rows, wire, answers>> /\ DOMAIN asks' = DOMAIN asks
        /\ \A b \in DOMAIN asks : asks'[b].key = asks[b].key
    BY <1>5, Marked DEF Marks
  <2>2. \A key : Filed(rows, asks, key) => Filed(rows', asks', key)
    BY <2>1, FiledOn
  <2> QED BY <2>1, <2>2, Unnoted
<1>6. CASE CloseTable
  <2>1. UNCHANGED <<rows, asks, wire, answers>>
    BY <1>6 DEF CloseTable
  <2>2. \A key : Filed(rows, asks, key) => Filed(rows', asks', key)
    BY <2>1, FiledOn
  <2> QED BY <2>1, <2>2, Unnoted
<1> QED BY <1>1, <1>2, <1>3, <1>4, <1>5, <1>6, ApiSteps

\* A key that was never drawn is nobody's.
LEMMA Unheld ==
  ASSUME Typed, NEW n \in KeyIds, n > minted
  PROVE  DeviceFor(DeviceKey(n)) = {} /\ announced[DeviceKey(n)] = 0
<1>1. minted \in 0..MaxKeys /\ n \in Nat
  BY DEF Typed, ClientTypeOK, KeyIds
<1>2. DeviceKey(n) \notin KeysUpTo(minted) /\ DeviceKey(n) # NoKey
  <2>1. \A k \in 0..minted : DeviceKey(n) # DeviceKey(k)
    BY <1>1, KeyNames
  <2> QED BY <1>1, <2>1 DEF KeysUpTo, NoKey
<1>3. \A d \in Devices : calling[d] # NoCommand => calling[d].key \in KeysUpTo(minted)
  BY DEF Typed, Fits
<1>4. \A d \in {Till, Cash, Desk} : \A m \in retained[d] : m.key \in KeysUpTo(minted)
  BY DEF Typed, Fits
<1>5. \A d \in {Waiter, Guest} : draftKey[d] \in KeysUpTo(minted) \cup {NoKey}
  BY DEF Typed
<1>6. announced[DeviceKey(n)] = 0
  BY DEF Typed
<1> QED BY <1>2, <1>3, <1>4, <1>5, <1>6 DEF DeviceFor

\* Nothing is noted anew: a screen forgets, or edits.
LEMMA Forgetting ==
  ASSUME Answered, UNCHANGED <<rows, asks>>,
         \A m \in wire' : m.open => calling'[m.from] = m /\ ~answers'[m.from].come,
         \A d \in Devices : answers'[d].ok => answers'[d] = answers[d] /\ calling'[d] = calling[d],
         \A d \in Devices : calling'[d] # NoCommand => calling'[d] = calling[d],
         \A d \in {Waiter, Guest} : draftKey'[d] # NoKey => draftKey'[d] = draftKey[d],
         \A d \in {Till, Cash, Desk} : retained'[d] \subseteq retained[d],
         \A d \in {Till, Cash, Desk} : calling'[d] # NoCommand => calling'[d] \in retained'[d],
         \A k \in DeviceKeys : DeviceFor(k)' # {} => announced'[k] = announced[k]
  PROVE  Answered'
<1>1. \A k \in DeviceKeys : DeviceFor(k)' \subseteq DeviceFor(k)
  BY DEF DeviceFor
<1>2. \A k \in DeviceKeys : \A d, e \in DeviceFor(k)' : d = e /\ announced'[k] = 0
  BY <1>1 DEF Answered
<1>3. \A d \in Devices : answers'[d].ok =>
        answers'[d].come /\ calling'[d] # NoCommand /\ Filed(rows', asks', calling'[d].key)
  BY DEF Answered
<1>4. \A d \in {Till, Cash, Desk} :
        /\ calling'[d] # NoCommand => calling'[d] \in retained'[d]
        /\ \A m, n \in retained'[d] : m.key = n.key => m = n
  BY DEF Answered
<1> QED BY <1>2, <1>3, <1>4 DEF Answered

LEMMA EditsAnswered ==
  ASSUME Typed, Answered, NEW d \in {Waiter, Guest, Desk}, Edits(d) PROVE Answered'
<1>1. UNCHANGED <<rows, asks, wire, answers, calling, retained, announced>>
  BY DEF Edits, EditFrame, apiVars
<1>2. \A e \in {Waiter, Guest} : draftKey'[e] # NoKey => draftKey'[e] = draftKey[e]
  <2>1. draftKey' = draftKey \/ draftKey' = [draftKey EXCEPT ![Waiter] = NoKey]
    BY DEF Edits, KeepKey
  <2> QED BY <2>1 DEF Typed, ClientTypeOK
<1> QED BY <1>1, <1>2, Forgetting DEF Answered

LEMMA FailedAnswered ==
  ASSUME Typed, Answered, NEW d \in Devices, Failed(d) PROVE Answered'
<1>1. /\ UNCHANGED <<rows, asks, draftKey, retained, announced>>
      /\ calling[d] # NoCommand /\ calling' = [calling EXCEPT ![d] = NoCommand]
      /\ answers' = [answers EXCEPT ![d] = NoAnswer]
  BY DEF Failed, Idle, HangUp
<1>2. /\ calling \in [Devices -> Command \cup {NoCommand}]
      /\ answers \in [Devices -> [ok: BOOLEAN, come: BOOLEAN, view: Views]]
      /\ wire \subseteq Command
  BY DEF Typed, ApiTypeOK, ClientTypeOK
<1>3. \A m \in wire' : m.open => m \in wire /\ m.from # d
  <2>1. CASE UNCHANGED wire /\ answers[d].come
    BY <2>1 DEF Answered
  <2>2. CASE Abandon(d)
    <3> SUFFICES ASSUME NEW m \in wire', m.open PROVE m \in wire /\ m.from # d
      OBVIOUS
    <3>1. m \in wire /\ m # calling[d]
      BY <1>1, <2>2, Abandoned DEF Sent
    <3>2. calling[m.from] = m
      BY <3>1 DEF Answered
    <3> QED BY <3>1, <3>2
  <2> QED BY <2>1, <2>2 DEF Failed
<1>4. \A m \in wire' : m.open => calling'[m.from] = m /\ ~answers'[m.from].come
  <2> SUFFICES ASSUME NEW m \in wire', m.open PROVE calling'[m.from] = m /\ ~answers'[m.from].come
    OBVIOUS
  <2>1. m \in wire /\ m.from # d /\ m.from \in Devices
    BY <1>2, <1>3 DEF Command
  <2>2. calling'[m.from] = calling[m.from] /\ answers'[m.from] = answers[m.from]
    BY <1>1, <1>2, <2>1
  <2> QED BY <2>1, <2>2 DEF Answered
<1>5. \A e \in Devices : answers'[e].ok => answers'[e] = answers[e] /\ calling'[e] = calling[e]
  BY <1>1, <1>2, NoAnswerTyped
<1>6. \A e \in Devices : calling'[e] # NoCommand => calling'[e] = calling[e]
  BY <1>1, <1>2
<1>7. \A e \in {Till, Cash, Desk} : calling'[e] # NoCommand => calling'[e] \in retained'[e]
  BY <1>1, <1>6 DEF Answered, Devices
<1> QED BY <1>1, <1>4, <1>5, <1>6, <1>7, Forgetting

LEMMA ReloadAnswered ==
  ASSUME Typed, Answered, NEW page \in Pages, Reload(page) PROVE Answered'
<1>1. /\ UNCHANGED <<rows, asks, announced>>
      /\ wire' = {IF m.from \in page THEN [m EXCEPT !.open = FALSE] ELSE m : m \in wire}
      /\ calling' = Forgets(calling, page, NoCommand)
      /\ answers' = Forgets(answers, page, NoAnswer)
      /\ draftKey' = Forgets(draftKey, page, NoKey)
      /\ retained' = Forgets(retained, page, {})
  BY DEF Reload
<1>2. /\ calling \in [Devices -> Command \cup {NoCommand}]
      /\ answers \in [Devices -> [ok: BOOLEAN, come: BOOLEAN, view: Views]]
      /\ draftKey \in [{Waiter, Guest} -> DeviceKeys \cup {NoKey}]
      /\ retained \in [{Till, Cash, Desk} -> SUBSET Command]
      /\ wire \subseteq Command
  BY DEF Typed, ApiTypeOK, ClientTypeOK
<1>4. \A m \in wire' : m.open => calling'[m.from] = m /\ ~answers'[m.from].come
  <2> SUFFICES ASSUME NEW m \in wire', m.open PROVE calling'[m.from] = m /\ ~answers'[m.from].come
    OBVIOUS
  <2>1. m \in wire /\ m.from \notin page /\ m.from \in Devices
    BY <1>1, <1>2, WireCleared DEF Sent, Command
  <2>2. calling'[m.from] = calling[m.from] /\ answers'[m.from] = answers[m.from]
    BY <1>1, <1>2, <2>1 DEF Forgets
  <2> QED BY <2>1, <2>2 DEF Answered
<1>5. \A e \in Devices : answers'[e].ok => answers'[e] = answers[e] /\ calling'[e] = calling[e]
  BY <1>1, <1>2, NoAnswerTyped DEF Forgets
<1>6. \A e \in Devices : calling'[e] # NoCommand => calling'[e] = calling[e] /\ e \notin page
  BY <1>1, <1>2 DEF Forgets
<1>7. \A e \in {Till, Cash, Desk} : calling'[e] # NoCommand => calling'[e] \in retained'[e]
  BY <1>1, <1>2, <1>6 DEF Answered, Devices, Forgets
<1>8. \A e \in {Till, Cash, Desk} : retained'[e] \subseteq retained[e]
  BY <1>1, <1>2 DEF Forgets
<1>9. \A e \in {Waiter, Guest} : draftKey'[e] # NoKey => draftKey'[e] = draftKey[e]
  BY <1>1, <1>2 DEF Forgets
<1> QED BY <1>1, <1>4, <1>5, <1>6, <1>7, <1>8, <1>9, Forgetting

\* An announced key is its device's no more.
LEMMA Announcing ==
  ASSUME Typed, Answered, NEW d \in Devices, Succeeds(d)
  PROVE  \E key \in DeviceKeys :
           /\ key = calling[d].key /\ announced' = [announced EXCEPT ![key] = @ + 1]
           /\ DeviceFor(key)' = {} /\ announced[key] = 0 /\ Filed(rows, asks, key)
<1>0. PICK key : key = calling[d].key
  OBVIOUS
<1>1. /\ calling[d] # NoCommand /\ calling' = [calling EXCEPT ![d] = NoCommand] /\ answers[d].ok
  BY DEF Succeeds, Succeeded, Idle, HangUp
<1>2. calling \in [Devices -> Command \cup {NoCommand}] /\ minted \in 0..MaxKeys
  BY DEF Typed, ClientTypeOK
<1>3. key \in DeviceKeys /\ d \in DeviceFor(key)
  <2>1. key \in DeviceKeys
    BY <1>0, <1>1, <1>2, KeyNames DEF Typed, Fits
  <2> QED BY <1>0, <1>1, <2>1 DEF DeviceFor
<1>4. announced[key] = 0 /\ \A e \in DeviceFor(key) : e = d
  BY <1>3 DEF Answered
<1>5. Filed(rows, asks, key)
  BY <1>0, <1>1 DEF Answered
<1>6. \A e \in Devices : calling'[e] # NoCommand => calling'[e] = calling[e] /\ e # d
  BY <1>1, <1>2
<1>7. \A e \in {Waiter, Guest} : draftKey'[e] # NoKey => draftKey'[e] = draftKey[e] /\ e # d
  BY DeviceNames DEF Succeeds, KeepKey, Typed, ClientTypeOK
<1>8. \A e \in {Till, Cash, Desk} : \A m \in retained'[e] :
        m \in retained[e] /\ (e = d => m.key # key)
  <2>1. d \in {Till, Cash, Desk} => calling[d] \in retained[d] /\ \A m \in retained[d] : m.key = key => m = calling[d]
    BY <1>0, <1>1 DEF Answered
  <2>2. retained \in [{Till, Cash, Desk} -> SUBSET Command]
    BY DEF Typed, ClientTypeOK
  <2>3. CASE d \in {Waiter, Guest} /\ retained' = retained
    BY <2>3, DeviceNames
  <2>4. CASE d \in {Till, Cash} /\ retained' = [retained EXCEPT ![d] = {m \in @ : Intent(m) # Intent(calling[d])}]
    BY <2>1, <2>2, <2>4
  <2>5. CASE d = Desk /\ retained' = [retained EXCEPT ![d] = {}]
    BY <2>2, <2>5
  <2> QED BY <2>3, <2>4, <2>5 DEF Succeeds
<1>9. \A e : e \in DeviceFor(key)' => e \in DeviceFor(key) /\ e # d
  <2> SUFFICES ASSUME NEW e, e \in Devices,
                      \/ calling'[e] # NoCommand /\ calling'[e].key = key
                      \/ e \in {Waiter, Guest} /\ draftKey'[e] = key /\ key # NoKey
                      \/ e \in {Till, Cash, Desk} /\ \E m \in retained'[e] : m.key = key
               PROVE  e \in DeviceFor(key) /\ e # d
    BY DEF DeviceFor
  <2> QED BY <1>6, <1>7, <1>8 DEF DeviceFor
<1>10. announced' = [announced EXCEPT ![key] = @ + 1]
  BY <1>0 DEF Succeeds, Succeeded
<1> QED BY <1>0, <1>3, <1>4, <1>5, <1>9, <1>10

LEMMA SucceedsAnswered ==
  ASSUME Typed, Answered, NEW d \in Devices, Succeeds(d) PROVE Answered'
<1>1. /\ UNCHANGED <<rows, asks, wire>>
      /\ calling[d] # NoCommand /\ calling' = [calling EXCEPT ![d] = NoCommand] /\ answers[d].ok
      /\ answers' = [answers EXCEPT ![d] = NoAnswer]
  BY DEF Succeeds, Succeeded, Idle, HangUp
<1>2. /\ calling \in [Devices -> Command \cup {NoCommand}]
      /\ answers \in [Devices -> [ok: BOOLEAN, come: BOOLEAN, view: Views]]
      /\ draftKey \in [{Waiter, Guest} -> DeviceKeys \cup {NoKey}]
      /\ retained \in [{Till, Cash, Desk} -> SUBSET Command]
      /\ announced \in [DeviceKeys -> Nat] /\ wire \subseteq Command
  BY DEF Typed, ApiTypeOK, ClientTypeOK
<1>3. PICK key \in DeviceKeys :
        /\ key = calling[d].key /\ announced' = [announced EXCEPT ![key] = @ + 1]
        /\ DeviceFor(key)' = {}
  BY Announcing
<1>4. \A m \in wire' : m.open => calling'[m.from] = m /\ ~answers'[m.from].come
  <2> SUFFICES ASSUME NEW m \in wire', m.open PROVE calling'[m.from] = m /\ ~answers'[m.from].come
    OBVIOUS
  <2>1. m \in wire /\ m.from \in Devices /\ calling[m.from] = m /\ ~answers[m.from].come
    BY <1>1, <1>2 DEF Command, Answered
  <2>2. m.from # d
    <3>1. answers[d].come
      BY <1>1 DEF Answered
    <3> QED BY <2>1, <3>1
  <2> QED BY <1>1, <1>2, <2>1, <2>2
<1>5. \A e \in Devices : answers'[e].ok => answers'[e] = answers[e] /\ calling'[e] = calling[e]
  BY <1>1, <1>2, NoAnswerTyped
<1>6. \A e \in Devices : calling'[e] # NoCommand => calling'[e] = calling[e] /\ e # d
  BY <1>1, <1>2
<1>7. \A e \in {Till, Cash, Desk} :
        /\ retained'[e] \subseteq retained[e]
        /\ e # d => retained'[e] = retained[e]
  BY <1>2 DEF Succeeds
<1>8. \A e \in {Till, Cash, Desk} : calling'[e] # NoCommand => calling'[e] \in retained'[e]
  BY <1>6, <1>7 DEF Answered, Devices
<1>9. \A e \in {Waiter, Guest} : draftKey'[e] # NoKey => draftKey'[e] = draftKey[e]
  BY <1>2 DEF Succeeds, KeepKey
<1>10. \A k \in DeviceKeys : DeviceFor(k)' # {} => announced'[k] = announced[k]
  BY <1>2, <1>3
<1> QED BY <1>1, <1>4, <1>5, <1>6, <1>7, <1>8, <1>9, <1>10, Forgetting

LEMMA SendsAnswered ==
  ASSUME Typed, Answered, NEW m, Sends(m) PROVE Answered'
<1>1. /\ UNCHANGED <<checks, rows, asks, announced>>
      /\ wire' = wire \cup {m} /\ calling' = [calling EXCEPT ![m.from] = m]
      /\ answers' = [answers EXCEPT ![m.from] = NoAnswer]
      /\ m.open /\ Fits(m, minted', Len(checks)) /\ calling[m.from] = NoCommand
  BY DEF Sends, Dispatch, Idle
<1>2. /\ calling \in [Devices -> Command \cup {NoCommand}]
      /\ answers \in [Devices -> [ok: BOOLEAN, come: BOOLEAN, view: Views]]
      /\ draftKey \in [{Waiter, Guest} -> DeviceKeys \cup {NoKey}]
      /\ retained \in [{Till, Cash, Desk} -> SUBSET Command]
      /\ wire \subseteq Command /\ minted \in 0..MaxKeys
  BY DEF Typed, ApiTypeOK, ClientTypeOK
<1>3. m \in Command /\ m.from \in Devices /\ m # NoCommand
  BY <1>1, NoCommandIsNone DEF Fits, Command
<1>4. \A n \in wire' : n.open => calling'[n.from] = n /\ ~answers'[n.from].come
  <2> SUFFICES ASSUME NEW n \in wire', n.open PROVE calling'[n.from] = n /\ ~answers'[n.from].come
    OBVIOUS
  <2>1. CASE n = m
    BY <1>1, <1>2, <1>3, <2>1, NoAnswerTyped
  <2>2. CASE n \in wire
    <3>1. n.from \in Devices /\ calling[n.from] = n /\ ~answers[n.from].come /\ n # NoCommand
      BY <1>2, <2>2, NoCommandIsNone DEF Command, Answered
    <3>2. n.from # m.from
      BY <1>1, <3>1
    <3> QED BY <1>1, <1>2, <1>3, <3>1, <3>2
  <2> QED BY <1>1, <2>1, <2>2
<1>5. \A d \in Devices : answers'[d].ok =>
        answers'[d].come /\ calling'[d] # NoCommand /\ Filed(rows', asks', calling'[d].key)
  BY <1>1, <1>2, <1>3, NoAnswerTyped DEF Answered
<1>6. \A d \in {Till, Cash, Desk} :
        retained'[d] = retained[d] \/ (d = m.from /\ Fresh(m) /\ retained'[d] = retained[d] \cup {m})
  BY <1>2 DEF Sends, Fresh, Again
<1>7. Fresh(m) => m.key \in DeviceKeys /\ DeviceFor(m.key) = {} /\ announced[m.key] = 0
  <2> SUFFICES ASSUME Fresh(m) PROVE m.key \in DeviceKeys /\ DeviceFor(m.key) = {} /\ announced[m.key] = 0
    OBVIOUS
  <2>1. minted + 1 \in KeyIds /\ minted + 1 > minted /\ m.key = DeviceKey(minted + 1)
    BY <1>2, BoundAssumption DEF Fresh, KeyIds
  <2> QED BY <2>1, Unheld DEF DeviceKeys
<1>8. Again(m) => m.from \in DeviceFor(m.key)
  BY <1>3 DEF Again, DeviceFor
<1>9. \A k \in DeviceKeys : \A d \in DeviceFor(k)' : d \in DeviceFor(k) \/ (d = m.from /\ k = m.key)
  <2> SUFFICES ASSUME NEW k \in DeviceKeys, NEW d \in Devices, d # m.from \/ k # m.key,
                      \/ calling'[d] # NoCommand /\ calling'[d].key = k
                      \/ d \in {Waiter, Guest} /\ draftKey'[d] = k /\ k # NoKey
                      \/ d \in {Till, Cash, Desk} /\ \E n \in retained'[d] : n.key = k
               PROVE  d \in DeviceFor(k)
    BY DEF DeviceFor
  <2>1. CASE calling'[d] # NoCommand /\ calling'[d].key = k
    BY <1>1, <1>2, <1>3, <2>1 DEF DeviceFor
  <2>2. CASE d \in {Waiter, Guest} /\ draftKey'[d] = k /\ k # NoKey
    <3>1. draftKey'[d] = draftKey[d] \/ (d = m.from /\ draftKey'[d] = m.key)
      BY <1>2, <2>2 DEF Sends, Fresh, Again, KeepKey
    <3> QED BY <2>2, <3>1 DEF DeviceFor
  <2>3. CASE d \in {Till, Cash, Desk} /\ \E n \in retained'[d] : n.key = k
    BY <1>6, <2>3 DEF DeviceFor
  <2> QED BY <2>1, <2>2, <2>3
<1>10. \A k \in DeviceKeys : \A d, e \in DeviceFor(k)' : d = e /\ announced'[k] = 0
  BY <1>1, <1>7, <1>8, <1>9 DEF Answered, Sends
<1>11. \A d \in {Till, Cash, Desk} : calling'[d] # NoCommand => calling'[d] \in retained'[d]
  <2> SUFFICES ASSUME NEW d \in {Till, Cash, Desk}, calling'[d] # NoCommand PROVE calling'[d] \in retained'[d]
    OBVIOUS
  <2>1. CASE d = m.from
    <3>1. m \in retained'[d]
      BY <1>2, <2>1, DeviceNames DEF Sends, Fresh, Again
    <3> QED BY <1>1, <1>2, <1>3, <2>1, <3>1
  <2>2. CASE d # m.from
    BY <1>1, <1>2, <1>6, <2>2 DEF Answered, Devices
  <2> QED BY <2>1, <2>2
<1>12. \A d \in {Till, Cash, Desk} : \A x, y \in retained'[d] : x.key = y.key => x = y
  <2> SUFFICES ASSUME NEW d \in {Till, Cash, Desk}, NEW x \in retained'[d], NEW y \in retained'[d], x.key = y.key
               PROVE  x = y
    OBVIOUS
  <2>1. CASE retained'[d] = retained[d]
    BY <2>1 DEF Answered
  <2>2. CASE d = m.from /\ Fresh(m) /\ retained'[d] = retained[d] \cup {m}
    <3>1. \A n \in retained[d] : n.key # m.key
      BY <1>7, <2>2 DEF DeviceFor, Devices
    <3> QED BY <2>2, <3>1 DEF Answered
  <2> QED BY <1>6, <2>1, <2>2
<1> QED BY <1>4, <1>5, <1>10, <1>11, <1>12 DEF Answered

LEMMA NextAnswered == Typed /\ Answered /\ [Next]_vars => Answered'
<1> SUFFICES ASSUME Typed, Answered, [Next]_vars PROVE Answered'
  OBVIOUS
<1>1. CASE ApiNext /\ UNCHANGED clientVars
  BY <1>1, ApiAnswered
<1>2. ASSUME UNCHANGED <<rows, asks, wire, answers, calling, draftKey, retained, announced>> PROVE Answered'
  BY <1>2 DEF Answered, DeviceFor
<1>3. CASE ClientNext
  BY <1>2, <1>3, ClientSteps, EditsAnswered, SendsAnswered, SucceedsAnswered, FailedAnswered, ReloadAnswered
     DEF Refresh, apiVars
<1>4. CASE UNCHANGED vars
  BY <1>2, <1>4 DEF vars, apiVars, clientVars
<1> QED BY <1>1, <1>3, <1>4 DEF Next

LEMMA InitAnswered == ASSUME Init PROVE Answered
<1>1. \A d \in Devices : calling[d] = NoCommand /\ answers[d] = NoAnswer
  BY DEF Init, ApiInit, ClientInit
<1>2. wire = {} /\ (\A d \in {Till, Cash, Desk} : retained[d] = {}) /\ \A d \in {Waiter, Guest} : draftKey[d] = NoKey
  BY DEF Init, ApiInit, ClientInit
<1>3. \A k : DeviceFor(k) = {}
  BY <1>1, <1>2 DEF DeviceFor
<1> QED BY <1>1, <1>2, <1>3, NoAnswerTyped DEF Answered, Devices

LEMMA AlwaysAnswered == Spec => [](Typed /\ Answered)
<1>1. Init => Typed /\ Answered
  BY InitTyped, InitAnswered
<1> QED BY <1>1, NextTyped, NextAnswered, PTL DEF Spec

\* What is on record under a key stays on record.
Stays == \A key : Filed(rows, asks, key) => Filed(rows', asks', key)
LEMMA NextFiled == ASSUME Typed, [Next]_vars PROVE Stays
<1>1. ASSUME UNCHANGED <<rows, asks>> PROVE Stays
  BY <1>1 DEF Stays
<1>2. ASSUME NEW m \in wire, Echoes(m) PROVE Stays
  BY <1>1, <1>2 DEF Echoes
<1>3. ASSUME NEW m \in wire, Books(m) PROVE Stays
  <2>1. PICK r \in Row : rows' = Append(rows, r) /\ UNCHANGED asks
    BY <1>3, BookedTyped
  <2> QED BY <2>1, FiledMore DEF Stays
<1>4. ASSUME NEW m \in wire, Requests(m) PROVE Stays
  <2>1. /\ DOMAIN asks' = (DOMAIN asks) \cup {Len(asks) + 1} /\ UNCHANGED rows
        /\ \A a \in DOMAIN asks : asks'[a] = asks[a]
    BY <1>4, RequestAdded DEF Requests
  <2> QED BY <2>1, FiledOn DEF Stays
<1>5. ASSUME NEW a \in DOMAIN asks, Approves(a) PROVE Stays
  <2>1. PICK r \in Row :
           /\ rows' = Append(rows, r) /\ DOMAIN asks' = DOMAIN asks
           /\ \A b \in DOMAIN asks : asks'[b].key = asks[b].key
    BY <1>5, Approved
  <2>2. /\ DOMAIN rows' = (DOMAIN rows) \cup {Len(rows) + 1}
        /\ \A i \in DOMAIN rows : rows'[i] = rows[i]
    BY <2>1 DEF Typed, ApiTypeOK
  <2> QED BY <2>1, <2>2 DEF Filed, Stays
<1>6. ASSUME NEW a \in DOMAIN asks, Marks(a) PROVE Stays
  <2>1. /\ UNCHANGED rows /\ DOMAIN asks' = DOMAIN asks
        /\ \A b \in DOMAIN asks : asks'[b].key = asks[b].key
    BY <1>6, Marked DEF Marks
  <2> QED BY <2>1, FiledOn DEF Stays
<1>7. CASE CloseTable
  BY <1>1, <1>7 DEF CloseTable
<1>8. CASE ClientNext
  BY <1>1, <1>8, ScreensWriteNothing
<1>9. CASE UNCHANGED vars
  BY <1>1, <1>9 DEF vars, apiVars
<1>10. CASE ApiNext
  BY <1>2, <1>3, <1>4, <1>5, <1>6, <1>7, <1>10, ApiSteps
<1> QED BY <1>8, <1>9, <1>10 DEF Next

\* No success is announced but of a key that is on record, and none twice.
Said == \A k \in DeviceKeys : announced[k] <= 1 /\ (announced[k] = 1 => Filed(rows, asks, k))

LEMMA NextSaid == Typed /\ Answered /\ Said /\ [Next]_vars => Said'
<1> SUFFICES ASSUME Typed, Answered, Said, [Next]_vars PROVE Said'
  OBVIOUS
<1>1. \A key : Filed(rows, asks, key) => Filed(rows', asks', key)
  BY NextFiled DEF Stays
<1>2. ASSUME UNCHANGED announced PROVE Said'
  BY <1>1, <1>2 DEF Said
<1>3. ASSUME NEW d \in Devices, Succeeds(d) PROVE Said'
  <2>1. PICK key \in DeviceKeys :
          /\ announced' = [announced EXCEPT ![key] = @ + 1]
          /\ announced[key] = 0 /\ Filed(rows, asks, key)
    BY <1>3, Announcing
  <2>2. announced \in [DeviceKeys -> Nat]
    BY DEF Typed, ClientTypeOK
  <2> QED BY <1>1, <2>1, <2>2 DEF Said
<1>4. CASE ApiNext /\ UNCHANGED clientVars
  BY <1>2, <1>4 DEF clientVars
<1>5. CASE ClientNext
  BY <1>2, <1>3, <1>5, ClientSteps DEF Edits, EditFrame, Sends, Failed, Refresh, Reload
<1>6. CASE UNCHANGED vars
  BY <1>2, <1>6 DEF vars, clientVars
<1> QED BY <1>4, <1>5, <1>6 DEF Next

\* A success that a screen announces stands for a command that was executed,
\* and no screen announces a command twice, whatever failed, was sent again or
\* was reloaded before.
THEOREM AnnouncedIsOnRecord == Spec => []AnnouncedIsBooked
<1>1. Init => Said
  BY DEF Init, ClientInit, Said
<1>2. Typed /\ Said => AnnouncedIsBooked
  <2> SUFFICES ASSUME Typed, Said, NEW k \in DeviceKeys, announced[k] = 1, Filed(rows, asks, k)
               PROVE  Under({"order", "append", "payment"}, k) # {} \/ AsksUnder(k) # {}
    BY DEF Said, AnnouncedIsBooked
  <2>1. \A i \in DOMAIN rows : rows[i].kind \in {"order", "append", "payment"}
    BY RowFields DEF Typed, ApiTypeOK
  <2> QED BY <2>1 DEF Filed, Under, Recorded, AsksUnder
<1>3. Init => Typed /\ Answered
  BY InitTyped, InitAnswered
<1> QED BY <1>1, <1>2, <1>3, NextTyped, NextAnswered, NextSaid, PTL DEF Spec

-----------------------------------------------------------------------------
(* What the till books.                                                      *)

LEMMA SameIsSame == ASSUME NEW m PROVE Same(m, m)
BY DEF Same

\* A device's commands are those it had, and the one it sends.
Known(d, m) == (\E n \in CommandsOf(d) : Same(m, n)) \/ (m.from = d /\ Sends(m))
LEMMA StepCommands ==
  ASSUME Typed, [Next]_vars, NEW d \in Devices, NEW m \in CommandsOf(d)'
  PROVE  Known(d, m)
<1>1. \/ m \in wire' /\ m.from = d
      \/ d \in {Till, Cash, Desk} /\ m \in retained'[d]
  BY DEF CommandsOf
<1>2. ASSUME (m \in wire /\ m.from = d) \/ (d \in {Till, Cash, Desk} /\ m \in retained[d]) PROVE Known(d, m)
  <2>1. m \in CommandsOf(d)
    BY <1>2 DEF CommandsOf
  <2> QED BY <2>1, SameIsSame DEF Known
<1>3. ASSUME NEW n \in wire, Same(m, n), m.from = d PROVE Known(d, m)
  <2>1. n \in CommandsOf(d)
    BY <1>3 DEF CommandsOf, Same
  <2> QED BY <1>3, <2>1 DEF Known
<1>4. retained \in [{Till, Cash, Desk} -> SUBSET Command]
  BY DEF Typed, ClientTypeOK
<1>5. CASE wire' \subseteq wire /\ \A e \in {Till, Cash, Desk} : retained'[e] \subseteq retained[e]
  <2>1. (m \in wire /\ m.from = d) \/ (d \in {Till, Cash, Desk} /\ m \in retained[d])
    BY <1>1, <1>5
  <2> QED BY <1>2, <2>1
<1>6. CASE ApiNext /\ UNCHANGED clientVars
  <2>1. wire' \subseteq wire
    BY <1>6, ApiSteps DEF Echoes, Books, Requests, Approves, Marks, CloseTable, Answer
  <2> QED BY <1>5, <1>6, <2>1 DEF clientVars
<1>7. ASSUME NEW e \in {Waiter, Guest, Desk}, Edits(e) PROVE Known(d, m)
  BY <1>5, <1>7 DEF Edits, EditFrame, apiVars
<1>8. ASSUME NEW e \in {Waiter, Till}, Refresh(e) PROVE Known(d, m)
  BY <1>5, <1>8 DEF Refresh, apiVars
<1>9. ASSUME NEW e \in Devices, Succeeds(e) PROVE Known(d, m)
  BY <1>4, <1>5, <1>9 DEF Succeeds, Succeeded
<1>10. ASSUME NEW q, Sends(q) PROVE Known(d, m)
  <2>1. wire' = wire \cup {q}
    BY <1>10 DEF Sends, Dispatch
  <2>2. \A e \in {Till, Cash, Desk} : retained'[e] = retained[e] \/ (e = q.from /\ retained'[e] = retained[e] \cup {q})
    BY <1>4, <1>10 DEF Sends, Fresh, Again
  <2> QED BY <1>1, <1>2, <1>10, <2>1, <2>2 DEF Known
<1>11. ASSUME NEW e \in Devices, Failed(e) PROVE Known(d, m)
  <2>1. \A k \in {Till, Cash, Desk} : retained'[k] = retained[k]
    BY <1>11 DEF Failed
  <2>2. CASE wire' = wire
    BY <1>5, <2>1, <2>2
  <2>3. CASE Abandon(e)
    <3>1. calling[e] # NoCommand
      BY <1>11 DEF Failed, Idle
    <3>2. \A x \in wire' : \E n \in wire : Same(x, n)
      BY <2>3, <3>1, Abandoned DEF Sent
    <3> QED BY <1>1, <1>2, <1>3, <2>1, <3>2
  <2> QED BY <1>11, <2>2, <2>3 DEF Failed
<1>12. ASSUME NEW page \in Pages, Reload(page) PROVE Known(d, m)
  <2>1. \A e \in {Till, Cash, Desk} : retained'[e] \subseteq retained[e]
    BY <1>4, <1>12 DEF Reload, Forgets
  <2>2. \A x \in wire' : \E n \in wire : Same(x, n)
    BY <1>12, WireCleared DEF Reload, Sent
  <2> QED BY <1>1, <1>2, <1>3, <2>1, <2>2
<1>13. CASE UNCHANGED vars
  BY <1>5, <1>13 DEF vars, apiVars, clientVars
<1>14. CASE ClientNext
  BY <1>7, <1>8, <1>9, <1>10, <1>11, <1>12, <1>14, ClientSteps
<1> QED BY <1>6, <1>13, <1>14 DEF Next

\* A command booked, and a request approved, seen from the rows.
Booking(m, r) ==
  /\ m \in wire /\ rows' = Append(rows, r) /\ UNCHANGED asks
  /\ r.kind \in KindsOf(m.to) /\ r.key = m.key /\ r.from = m.from /\ r.items = m.items
  /\ Under(KindsOf(m.to), m.key) = {} /\ m.from # Guest
Granting(a, r) ==
  /\ a \in DOMAIN asks /\ rows' = Append(rows, r)
  /\ r.key = RequestKey(a) /\ r.from = Guest /\ r.items = asks[a].items
  /\ Under({"order", "append"}, RequestKey(a)) = {}
LEMMA StepRows ==
  ASSUME Typed, [Next]_vars
  PROVE  \/ UNCHANGED rows
         \/ UNCHANGED clientVars /\ \E r \in Row : (\E m : Booking(m, r)) \/ (\E a : Granting(a, r))
<1>1. ASSUME NEW m \in wire, Books(m) PROVE \E r \in Row : Booking(m, r)
  BY <1>1, BookedTyped DEF Booking
<1>2. ASSUME NEW a \in DOMAIN asks, Approves(a) PROVE \E r \in Row : Granting(a, r)
  BY <1>2, Approved DEF Granting
<1>3. CASE ApiNext /\ UNCHANGED clientVars
  BY <1>1, <1>2, <1>3, ApiSteps DEF Echoes, Requests, Marks, CloseTable
<1>4. CASE ClientNext
  BY <1>4, ScreensWriteNothing
<1>5. CASE UNCHANGED vars
  BY <1>5 DEF vars, apiVars
<1> QED BY <1>3, <1>4, <1>5 DEF Next

\* The rows of a device after a step.
LEMMA RowsAfter ==
  ASSUME Typed, NEW r \in Row, rows' = Append(rows, r)
  PROVE  /\ DOMAIN rows' = (DOMAIN rows) \cup {Len(rows) + 1}
         /\ Len(rows) + 1 \notin DOMAIN rows
         /\ rows'[Len(rows) + 1] = r /\ \A i \in DOMAIN rows : rows'[i] = rows[i]
         /\ \A d : Of(d)' = IF d = r.from THEN Of(d) \cup {Len(rows) + 1} ELSE Of(d)
<1>1. rows \in Seq(Row)
  BY DEF Typed, ApiTypeOK
<1>2. /\ DOMAIN rows' = (DOMAIN rows) \cup {Len(rows) + 1}
      /\ Len(rows) + 1 \notin DOMAIN rows
      /\ rows'[Len(rows) + 1] = r /\ \A i \in DOMAIN rows : rows'[i] = rows[i]
  BY <1>1
<1> QED BY <1>2 DEF Of

LEMMA CommandFacts ==
  ASSUME Typed, NEW d \in Devices, NEW m \in CommandsOf(d)
  PROVE  m \in Command /\ Fits(m, minted, Len(checks)) /\ m.from = d /\ m.key \in KeysUpTo(minted) /\ m.key \in DeviceKeys
<1>1. Fits(m, minted, Len(checks)) /\ m.from = d
  BY DEF CommandsOf, Typed
<1>2. minted \in 0..MaxKeys
  BY DEF Typed, ClientTypeOK
<1> QED BY <1>1, <1>2, KeyNames DEF Fits

LEMMA NewKey ==
  ASSUME Typed, NEW m, Fresh(m)
  PROVE  /\ m.key \in DeviceKeys /\ m.key \notin KeysUpTo(minted) /\ announced[m.key] = 0
         /\ \A a \in Nat : m.key # RequestKey(a)
<1>1. minted \in 0..MaxKeys /\ minted + 1 \in KeyIds /\ m.key = DeviceKey(minted + 1)
  BY BoundAssumption DEF Typed, ClientTypeOK, Fresh, KeyIds
<1>2. \A k \in 0..minted : DeviceKey(minted + 1) # DeviceKey(k)
  BY <1>1, KeyNames
<1>3. announced[DeviceKey(minted + 1)] = 0
  BY <1>1, Unheld
<1>4. \A a \in Nat : m.key # RequestKey(a)
  BY <1>1, KeyNames
<1> QED BY <1>1, <1>2, <1>3, <1>4 DEF KeysUpTo, DeviceKeys

\* A command a device has after a step is one it had, or is sent under a new key.
LEMMA KnownOrNew ==
  ASSUME Typed, [Next]_vars, NEW d \in Devices, NEW m \in CommandsOf(d)'
  PROVE  \/ \E n \in CommandsOf(d) : Same(m, n)
         \/ d \in {Waiter, Guest} /\ m.from = d /\ Sends(m) /\ m.items = draft[d]
         \/ d \in {Till, Cash, Desk} /\ m.from = d /\ Sends(m) /\ Fresh(m)
<1>1. Known(d, m)
  BY StepCommands
<1>2. CASE m.from = d /\ Sends(m)
  <2>1. CASE Fresh(m)
    BY <1>2, <2>1 DEF Fresh
  <2>2. CASE Again(m) /\ m.from \in {Till, Cash, Desk}
    <3>1. m \in CommandsOf(d)
      BY <1>2, <2>2, DeviceNames DEF Again, CommandsOf
    <3> QED BY <3>1, SameIsSame
  <2>3. CASE Again(m) /\ m.from \in {Waiter, Guest}
    BY <1>2, <2>3, DeviceNames DEF Again
  <2> QED BY <1>2, <2>1, <2>2, <2>3 DEF Sends, Again
<1> QED BY <1>1, <1>2 DEF Known

LEMMA OneSent ==
  ASSUME Typed, NEW m, NEW n, Sends(m), Sends(n), m.from = n.from
  PROVE  m = n
<1>1. calling \in [Devices -> Command \cup {NoCommand}]
  BY DEF Typed, ClientTypeOK
<1>2. m.from \in Devices
  BY DEF Sends, Fits, Command
<1> QED BY <1>1, <1>2 DEF Sends, Dispatch

LEMMA NextFiling ==
  ASSUME Typed, NEW d \in {Till, Cash, Desk}, Filing(d), [Next]_vars PROVE Filing(d)'
<1>0. d \in Devices /\ d # Guest
  BY DeviceNames DEF Devices
<1>1. \A m \in CommandsOf(d)' : (\E n \in CommandsOf(d) : Same(m, n)) \/ (m.from = d /\ Sends(m) /\ Fresh(m))
  BY <1>0, KnownOrNew, DeviceNames
<1>2. \A m \in CommandsOf(d) : m.key \in KeysUpTo(minted)
  BY <1>0, CommandFacts
<1>3. \A i \in Of(d) : rows[i].key \in KeysUpTo(minted)
  BY <1>0 DEF Of, Typed, Traced
<1>4. \A m, n \in CommandsOf(d)' : m.key = n.key => m.to = n.to
  <2> SUFFICES ASSUME NEW m \in CommandsOf(d)', NEW n \in CommandsOf(d)', m.key = n.key PROVE m.to = n.to
    OBVIOUS
  <2>1. CASE (\E x \in CommandsOf(d) : Same(m, x)) /\ (\E y \in CommandsOf(d) : Same(n, y))
    <3>1. PICK x \in CommandsOf(d), y \in CommandsOf(d) : Same(m, x) /\ Same(n, y)
      BY <2>1
    <3>2. x.key = y.key /\ m.to = x.to /\ n.to = y.to
      BY <3>1 DEF Same
    <3>3. \A u, v \in CommandsOf(d) : u.key = v.key => u.to = v.to
      BY DEF Filing
    <3> QED BY <3>2, <3>3
  <2>2. CASE m.from = d /\ Sends(m) /\ Fresh(m) /\ n.from = d /\ Sends(n)
    BY <2>2, OneSent
  <2>3. CASE Fresh(m) /\ \E y \in CommandsOf(d) : Same(n, y)
    BY <1>2, <2>3, NewKey DEF Same
  <2>4. CASE Fresh(n) /\ \E x \in CommandsOf(d) : Same(m, x)
    BY <1>2, <2>4, NewKey DEF Same
  <2> QED BY <1>1, <2>1, <2>2, <2>3, <2>4
<1>5. CASE UNCHANGED rows
  <2>1. Of(d)' = Of(d) /\ rows' = rows
    BY <1>5 DEF Of
  <2>2. \A m \in CommandsOf(d)', i \in Of(d) : rows[i].key = m.key => rows[i].kind \in KindsOf(m.to)
    <3> SUFFICES ASSUME NEW m \in CommandsOf(d)', NEW i \in Of(d), rows[i].key = m.key
                 PROVE  rows[i].kind \in KindsOf(m.to)
      OBVIOUS
    <3>1. CASE \E n \in CommandsOf(d) : Same(m, n)
      BY <3>1 DEF Filing, Same
    <3>2. CASE Fresh(m)
      BY <1>3, <3>2, NewKey
    <3> QED BY <1>1, <3>1, <3>2
  <2>3. \A i, j \in Of(d) : rows[i].key = rows[j].key => i = j
    BY DEF Filing
  <2> QED BY <1>4, <2>1, <2>2, <2>3 DEF Filing
<1>6. ASSUME NEW r \in Row, rows' = Append(rows, r), (\E m : Booking(m, r)) \/ (\E a : Granting(a, r))
      PROVE  Filing(d)'
  <2>1. /\ rows'[Len(rows) + 1] = r /\ \A i \in DOMAIN rows : rows'[i] = rows[i]
        /\ Of(d)' = IF d = r.from THEN Of(d) \cup {Len(rows) + 1} ELSE Of(d)
        /\ Len(rows) + 1 \in DOMAIN rows' /\ Len(rows) + 1 \notin DOMAIN rows
    BY <1>6, RowsAfter
  <2>2. \A i \in Of(d) : rows'[i] = rows[i]
    BY <2>1 DEF Of
  <2>3. \A m \in CommandsOf(d)' : \E n \in CommandsOf(d) : Same(m, n)
    <3>1. ~UNCHANGED rows
      BY <2>1
    <3>2. \A m : ~Sends(m)
      BY <3>1 DEF Sends, Dispatch
    <3> QED BY <1>1, <3>2
  <2>4. \A m \in CommandsOf(d)', i \in Of(d) : rows'[i].key = m.key => rows'[i].kind \in KindsOf(m.to)
    BY <2>2, <2>3 DEF Filing, Same
  <2>5. \A i, j \in Of(d) : rows'[i].key = rows'[j].key => i = j
    BY <2>2 DEF Filing
  <2>6. CASE d # r.from
    BY <1>4, <2>1, <2>4, <2>5, <2>6 DEF Filing
  <2>7. CASE d = r.from
    <3>1. PICK m : Booking(m, r)
      BY <1>0, <1>6, <2>7 DEF Granting
    <3>2. m \in CommandsOf(d) /\ r.key = m.key /\ r.kind \in KindsOf(m.to)
      BY <2>7, <3>1 DEF Booking, CommandsOf
    <3>3. \A i \in Of(d) : rows[i].key # m.key
      <4> SUFFICES ASSUME NEW i \in Of(d), rows[i].key = m.key PROVE FALSE
        OBVIOUS
      <4>1. rows[i].kind \in KindsOf(m.to)
        BY <3>2 DEF Filing
      <4>2. rows[i] \in Under(KindsOf(m.to), m.key)
        BY <4>1 DEF Under, Recorded, Of
      <4> QED BY <3>1, <4>2 DEF Booking
    <3>4. \A n \in CommandsOf(d)' : r.key = n.key => r.kind \in KindsOf(n.to)
      <4> SUFFICES ASSUME NEW n \in CommandsOf(d)', r.key = n.key PROVE r.kind \in KindsOf(n.to)
        OBVIOUS
      <4>1. PICK x \in CommandsOf(d) : n.key = x.key /\ n.to = x.to
        BY <2>3 DEF Same
      <4>2. x.to = m.to
        BY <3>2, <4>1 DEF Filing
      <4> QED BY <3>2, <4>1, <4>2
    <3>5. \A n \in CommandsOf(d)', i \in Of(d)' : rows'[i].key = n.key => rows'[i].kind \in KindsOf(n.to)
      BY <2>1, <2>4, <2>7, <3>4
    <3>6. \A i, j \in Of(d)' : rows'[i].key = rows'[j].key => i = j
      BY <2>1, <2>2, <2>5, <2>7, <3>2, <3>3
    <3> QED BY <1>4, <3>5, <3>6 DEF Filing
  <2> QED BY <2>6, <2>7
<1> QED BY <1>5, <1>6, StepRows DEF Booking, Granting

LEMMA StepRetained ==
  ASSUME Typed, [Next]_vars, NEW d \in {Till, Cash, Desk}
  PROVE  \/ retained'[d] \subseteq retained[d]
         \/ \E m : Sends(m) /\ Fresh(m) /\ m.from = d /\ retained'[d] = retained[d] \cup {m}
<1>1. retained \in [{Till, Cash, Desk} -> SUBSET Command]
  BY DEF Typed, ClientTypeOK
<1>2. ASSUME NEW q, Sends(q) PROVE
        \/ retained'[d] \subseteq retained[d]
        \/ Fresh(q) /\ q.from = d /\ retained'[d] = retained[d] \cup {q}
  BY <1>1, <1>2 DEF Sends, Fresh, Again
<1>3. ASSUME NEW e \in Devices, Succeeds(e) PROVE retained'[d] \subseteq retained[d]
  BY <1>1, <1>3 DEF Succeeds
<1>4. ASSUME NEW page \in Pages, Reload(page) PROVE retained'[d] \subseteq retained[d]
  BY <1>1, <1>4 DEF Reload, Forgets
<1>5. ASSUME UNCHANGED retained PROVE retained'[d] \subseteq retained[d]
  BY <1>5
<1>6. CASE ApiNext /\ UNCHANGED clientVars
  BY <1>5, <1>6 DEF clientVars
<1>7. CASE ClientNext
  BY <1>2, <1>3, <1>4, <1>5, <1>7, ClientSteps DEF Edits, EditFrame, Failed, Refresh
<1>8. CASE UNCHANGED vars
  BY <1>5, <1>8 DEF vars, clientVars
<1> QED BY <1>6, <1>7, <1>8 DEF Next

LEMMA NextIntents ==
  ASSUME Typed, [Next]_vars, NEW d \in {Till, Cash},
         \A m, n \in retained[d] : Intent(m) = Intent(n) => m = n
  PROVE  \A m, n \in retained'[d] : Intent(m) = Intent(n) => m = n
<1>1. ASSUME NEW m, Fresh(m), m.from = d PROVE \A kept \in retained[d] : Intent(kept) # Intent(m)
  BY <1>1, DeviceNames DEF Fresh
<1>2. \/ retained'[d] \subseteq retained[d]
      \/ \E m : Fresh(m) /\ m.from = d /\ retained'[d] = retained[d] \cup {m}
  BY StepRetained
<1> QED BY <1>1, <1>2

\* Until a page is reloaded, what was announced or is retained stays so.
LEMMA ToldOn ==
  ASSUME Typed, Answered, [Next]_vars, NEW d \in {Till, Cash}, reloads' = 0,
         \A m, n \in retained[d] : Intent(m) = Intent(n) => m = n
  PROVE  reloads = 0 /\ \A key \in DeviceKeys : Told(d, key) => Told(d, key)'
<1>1. retained \in [{Till, Cash, Desk} -> SUBSET Command] /\ announced \in [DeviceKeys -> Nat] /\ reloads \in Nat
  BY DEF Typed, ClientTypeOK
<1>2. ASSUME retained[d] \subseteq retained'[d], UNCHANGED announced
      PROVE  \A key \in DeviceKeys : Told(d, key) => Told(d, key)'
  BY <1>2 DEF Told, Outstanding
<1>3. ASSUME NEW e \in Devices, Succeeds(e)
      PROVE  \A key \in DeviceKeys : Told(d, key) => Told(d, key)'
  <2>1. PICK said \in DeviceKeys :
          /\ said = calling[e].key /\ announced' = [announced EXCEPT ![said] = @ + 1]
          /\ announced[said] = 0
    BY <1>3, Announcing
  <2>2. \A k \in DeviceKeys : announced[k] = 1 => announced'[k] = 1
    BY <1>1, <2>1
  <2>3. announced'[said] = 1
    BY <1>1, <2>1
  <2>4. \A m \in retained[d] : m.key # said => m \in retained'[d]
    <3>1. CASE e = d
      <4>1. calling[e] \in retained[d]
        BY <1>3, <3>1 DEF Answered, Succeeds, Succeeded, Idle
      <4>2. retained' = [retained EXCEPT ![d] = {m \in @ : Intent(m) # Intent(calling[d])}]
        BY <1>3, <3>1, DeviceNames DEF Succeeds
      <4> QED BY <1>1, <2>1, <3>1, <4>1, <4>2
    <3>2. CASE e # d
      BY <1>1, <1>3, <3>2, DeviceNames DEF Succeeds
    <3> QED BY <3>1, <3>2
  <2> QED BY <2>2, <2>3, <2>4 DEF Told, Outstanding
<1>4. ASSUME NEW q, Sends(q) PROVE retained[d] \subseteq retained'[d] /\ UNCHANGED announced
  BY <1>1, <1>4 DEF Sends, Fresh, Again
<1>5. reloads = 0 /\ \A page : ~Reload(page)
  <2>1. \A page : ~Reload(page)
    BY <1>1 DEF Reload
  <2>2. ClientNext => reloads' = reloads
    BY <2>1, ClientSteps DEF Edits, EditFrame, Sends, Succeeds, Succeeded, Failed, Refresh
  <2>3. (ApiNext /\ UNCHANGED clientVars) \/ UNCHANGED vars => reloads' = reloads
    BY DEF clientVars, vars
  <2> QED BY <2>1, <2>2, <2>3 DEF Next
<1>6. CASE UNCHANGED clientVars
  BY <1>2, <1>6 DEF clientVars
<1>7. CASE ClientNext
  BY <1>2, <1>3, <1>4, <1>5, <1>7, ClientSteps DEF Edits, EditFrame, Failed, Refresh
<1> QED BY <1>5, <1>6, <1>7 DEF Next, vars

LEMMA NextTold ==
  ASSUME Typed, Answered, [Next]_vars, NEW d \in {Till, Cash}, reloads' = 0,
         \A m, n \in retained[d] : Intent(m) = Intent(n) => m = n,
         reloads = 0 => /\ \A m \in CommandsOf(d) : Told(d, m.key)
                        /\ \A i \in Of(d) : Told(d, rows[i].key)
  PROVE  /\ \A m \in CommandsOf(d)' : Told(d, m.key)'
         /\ \A i \in Of(d)' : Told(d, rows[i].key)'
<1>0. d \in Devices /\ d # Guest /\ d # Waiter /\ d \in {Till, Cash, Desk}
  BY DeviceNames DEF Devices
<1>1. /\ \A key \in DeviceKeys : Told(d, key) => Told(d, key)'
      /\ \A m \in CommandsOf(d) : Told(d, m.key)
      /\ \A i \in Of(d) : Told(d, rows[i].key)
  BY ToldOn
<1>2. \A m \in CommandsOf(d) : m.key \in DeviceKeys
  BY <1>0, CommandFacts
<1>3. \A i \in Of(d) : rows[i].key \in DeviceKeys
  <2>1. minted \in 0..MaxKeys
    BY DEF Typed, ClientTypeOK
  <2> QED BY <1>0, <2>1, KeyNames DEF Of, Typed, Traced
<1>4. ASSUME NEW m \in CommandsOf(d)', NEW key, key = m.key PROVE Told(d, key)'
  <2>1. CASE \E n \in CommandsOf(d) : Same(m, n)
    BY <1>1, <1>2, <1>4, <2>1 DEF Same
  <2>2. CASE m.from = d /\ Sends(m) /\ Fresh(m)
    <3>1. retained \in [{Till, Cash, Desk} -> SUBSET Command]
      BY DEF Typed, ClientTypeOK
    <3>2. m \in retained'[d]
      BY <1>0, <2>2, <3>1, DeviceNames DEF Fresh
    <3> QED BY <1>4, <3>2 DEF Told, Outstanding
  <2> QED BY <1>0, <2>1, <2>2, KnownOrNew
<1>5. ASSUME NEW i \in Of(d)', NEW key, key = rows'[i].key PROVE Told(d, key)'
  <2>1. CASE UNCHANGED rows
    BY <1>1, <1>3, <1>5, <2>1 DEF Of
  <2>2. ASSUME NEW r \in Row, rows' = Append(rows, r), (\E m : Booking(m, r)) \/ (\E a : Granting(a, r))
        PROVE  Told(d, key)'
    <3>1. /\ rows'[Len(rows) + 1] = r /\ \A j \in DOMAIN rows : rows'[j] = rows[j]
          /\ Of(d)' = IF d = r.from THEN Of(d) \cup {Len(rows) + 1} ELSE Of(d)
      BY <2>2, RowsAfter
    <3>2. CASE i \in Of(d)
      BY <1>1, <1>3, <1>5, <3>1, <3>2 DEF Of
    <3>3. CASE i = Len(rows) + 1 /\ d = r.from
      <4>1. PICK m : Booking(m, r)
        BY <1>0, <2>2, <3>3 DEF Granting
      <4>2. m \in CommandsOf(d) /\ key = m.key
        BY <1>5, <3>1, <3>3, <4>1 DEF Booking, CommandsOf
      <4> QED BY <1>1, <1>2, <4>2
    <3> QED BY <1>5, <3>1, <3>2, <3>3
  <2> QED BY <2>1, <2>2, StepRows DEF Booking, Granting
<1> QED BY <1>4, <1>5

LEMMA NextKept == Typed /\ Answered /\ Kept /\ [Next]_vars => Kept'
<1> SUFFICES ASSUME Typed, Answered, Kept, [Next]_vars PROVE Kept'
  OBVIOUS
<1>1. \A d \in {Till, Cash, Desk} : Filing(d)'
  BY NextFiling DEF Kept
<1>2. \A d \in {Till, Cash} : \A m, n \in retained'[d] : Intent(m) = Intent(n) => m = n
  BY NextIntents DEF Kept
<1>3. \A d \in {Till, Cash} : reloads' = 0 =>
        /\ \A m \in CommandsOf(d)' : Told(d, m.key)'
        /\ \A i \in Of(d)' : Told(d, rows[i].key)'
  BY NextTold DEF Kept
<1> QED BY <1>1, <1>2, <1>3 DEF Kept

LEMMA InitKept == ASSUME Init PROVE Kept
<1>1. rows = <<>> /\ wire = {} /\ \A d \in {Till, Cash, Desk} : retained[d] = {}
  BY DEF Init, ApiInit, ClientInit
<1>2. \A d \in {Till, Cash, Desk} : Of(d) = {} /\ CommandsOf(d) = {}
  BY <1>1 DEF Of, CommandsOf
<1> QED BY <1>1, <1>2 DEF Kept, Filing

LEMMA AlwaysKept == Spec => [](Typed /\ Answered /\ Kept)
<1>1. Init => Typed /\ Answered /\ Kept
  BY InitTyped, InitAnswered, InitKept
<1> QED BY <1>1, NextTyped, NextAnswered, NextKept, PTL DEF Spec

\* The till books what it says: a product or a payment on record from it was
\* announced, is still retained for a repeat or was forgotten by a reload, and
\* none is on record twice, whatever was lost, repeated or on screen.
THEOREM TillKeepsItsBooks == Spec => []TillBooksWhatItSays
<1>1. Kept => TillBooksWhatItSays
  BY DEF Kept, Filing, Told, TillBooksWhatItSays
<1> QED BY <1>1, AlwaysKept, PTL

-----------------------------------------------------------------------------
(* What the wishes come to.                                                 *)

\* The guest requests after a step: those there were, and one from the wire.
LEMMA StepAsks ==
  ASSUME Typed, [Next]_vars, NEW a \in DOMAIN asks'
  PROVE  \/ a \in DOMAIN asks /\ asks'[a].key = asks[a].key /\ asks'[a].items = asks[a].items
         \/ \E m \in wire : m.from = Guest /\ asks'[a].key = m.key /\ asks'[a].items = m.items
<1>1. ASSUME NEW m \in wire, Requests(m), a \notin DOMAIN asks
      PROVE  m.from = Guest /\ asks'[a].key = m.key /\ asks'[a].items = m.items
  <2>1. m.from = Guest
    BY <1>1 DEF Typed, Fits, Routes, Requests
  <2> QED BY <1>1, <2>1, RequestAdded
<1>2. ASSUME NEW m \in wire, Requests(m), a \in DOMAIN asks PROVE asks'[a] = asks[a]
  BY <1>2, RequestAdded
<1>3. ASSUME NEW b \in DOMAIN asks, Approves(b)
      PROVE  a \in DOMAIN asks /\ asks'[a].key = asks[a].key /\ asks'[a].items = asks[a].items
  BY <1>3, Approved
<1>4. ASSUME NEW b \in DOMAIN asks, Marks(b)
      PROVE  a \in DOMAIN asks /\ asks'[a].key = asks[a].key /\ asks'[a].items = asks[a].items
  BY <1>4, Marked
<1>5. CASE UNCHANGED asks
  BY <1>5
<1>6. CASE ApiNext
  BY <1>1, <1>2, <1>3, <1>4, <1>5, <1>6, ApiSteps DEF Echoes, Books, CloseTable
<1>7. CASE ClientNext
  BY <1>5, <1>7, ScreensWriteNothing
<1>8. CASE UNCHANGED vars
  BY <1>5, <1>8 DEF vars, apiVars
<1> QED BY <1>6, <1>7, <1>8 DEF Next

\* A wish that someone has was theirs, or has just come up.
Wanting(d) == (d \in {Waiter, Guest, Desk} /\ Edits(d)) \/ \E m : Sends(m) /\ m.from = d
LEMMA HasFrom ==
  ASSUME Typed, [Next]_vars, NEW d \in Devices, NEW w \in Wishes, Has(d, w)'
  PROVE  Has(d, w) \/ (w = wanted + 1 /\ wanted' = wanted + 1 /\ Wanting(d))
<1> DEFINE New == w = wanted + 1 /\ wanted' = wanted + 1 /\ Wanting(d)
<1>1. ASSUME NEW m \in CommandsOf(d)', w \in m.items PROVE Has(d, w) \/ New
  <2>1. CASE \E n \in CommandsOf(d) : Same(m, n)
    BY <1>1, <2>1 DEF Has, Same
  <2>2. CASE d \in {Waiter, Guest} /\ m.items = draft[d]
    BY <1>1, <2>2 DEF Has
  <2>3. CASE d \in {Till, Cash, Desk} /\ m.from = d /\ Sends(m) /\ Fresh(m)
    <3>1. CASE m.items = draft[Desk] /\ m.from = Desk
      BY <1>1, <2>3, <3>1 DEF Has
    <3>2. CASE m.items = {wanted + 1} /\ wanted' = wanted + 1
      BY <1>1, <2>3, <3>2 DEF Wanting
    <3> QED BY <1>1, <2>3, <3>1, <3>2, DeviceNames DEF Fresh
  <2> QED BY <2>1, <2>2, <2>3, KnownOrNew
<1>2. ASSUME NEW i \in Of(d)', w \in rows'[i].items PROVE Has(d, w)
  <2>1. CASE UNCHANGED rows
    BY <1>2, <2>1 DEF Of, Has
  <2>2. ASSUME NEW r \in Row, rows' = Append(rows, r), (\E m : Booking(m, r)) \/ (\E a : Granting(a, r))
        PROVE  Has(d, w)
    <3>1. /\ rows'[Len(rows) + 1] = r /\ \A j \in DOMAIN rows : rows'[j] = rows[j]
          /\ Of(d)' = IF d = r.from THEN Of(d) \cup {Len(rows) + 1} ELSE Of(d)
      BY <2>2, RowsAfter
    <3>2. CASE i \in Of(d)
      BY <1>2, <3>1, <3>2 DEF Of, Has
    <3>3. CASE i = Len(rows) + 1 /\ d = r.from
      <4>1. w \in r.items
        BY <1>2, <3>1, <3>3
      <4>2. ASSUME NEW m, Booking(m, r) PROVE Has(d, w)
        <5>1. m \in CommandsOf(d) /\ w \in m.items
          BY <3>3, <4>1, <4>2 DEF Booking, CommandsOf
        <5> QED BY <5>1 DEF Has
      <4>3. ASSUME NEW a, Granting(a, r) PROVE Has(d, w)
        BY <3>3, <4>1, <4>3 DEF Granting, Has, Asked
      <4> QED BY <2>2, <4>2, <4>3
    <3> QED BY <1>2, <3>1, <3>2, <3>3
  <2> QED BY <2>1, <2>2, StepRows DEF Booking, Granting
<1>3. ASSUME d \in {Waiter, Guest, Desk}, w \in draft'[d] PROVE Has(d, w) \/ New
  <2>1. draft \in [{Waiter, Guest, Desk} -> SUBSET Wishes]
    BY DEF Typed, ClientTypeOK
  <2>2. CASE draft'[d] \subseteq draft[d]
    BY <1>3, <2>2 DEF Has
  <2>3. ASSUME NEW e \in {Waiter, Guest, Desk}, Edits(e) PROVE Has(d, w) \/ New
    <3>1. CASE e = d
      <4>1. PICK items : /\ draft' = [draft EXCEPT ![d] = items]
                         /\ \/ items \subseteq draft[d]
                            \/ wanted' = wanted + 1 /\ items = draft[d] \cup {wanted + 1}
        BY <2>3, <3>1 DEF Edits, Draft
      <4>2. draft'[d] = items
        BY <1>3, <2>1, <4>1
      <4>3. CASE w \in draft[d]
        BY <1>3, <4>3 DEF Has
      <4>4. CASE w = wanted + 1 /\ wanted' = wanted + 1
        BY <1>3, <2>3, <3>1, <4>4 DEF Wanting
      <4> QED BY <1>3, <4>1, <4>2, <4>3, <4>4
    <3>2. CASE e # d
      <4>1. draft'[d] = draft[d]
        BY <1>3, <2>1, <2>3, <3>2 DEF Edits, Draft
      <4> QED BY <2>2, <4>1
    <3> QED BY <3>1, <3>2
  <2>4. ASSUME NEW e \in Devices, Succeeds(e) PROVE draft'[d] \subseteq draft[d]
    BY <1>3, <2>1, <2>4 DEF Succeeds, Draft
  <2>5. ASSUME NEW page \in Pages, Reload(page) PROVE draft'[d] \subseteq draft[d]
    BY <1>3, <2>1, <2>5 DEF Reload, Forgets
  <2>6. CASE UNCHANGED draft
    BY <2>2, <2>6
  <2>7. CASE ClientNext
    BY <2>2, <2>3, <2>4, <2>5, <2>6, <2>7, ClientSteps DEF Sends, Failed, Refresh
  <2> QED BY <2>6, <2>7 DEF Next, vars, clientVars
<1>4. ASSUME d = Guest, NEW a \in DOMAIN asks', w \in asks'[a].items PROVE Has(d, w)
  <2>1. CASE a \in DOMAIN asks /\ asks'[a].items = asks[a].items
    BY <1>4, <2>1 DEF Has, Asked
  <2>2. ASSUME NEW m \in wire, m.from = Guest, asks'[a].items = m.items PROVE Has(d, w)
    BY <1>4, <2>2 DEF Has, CommandsOf
  <2> QED BY <2>1, <2>2, StepAsks
<1> QED BY <1>1, <1>2, <1>3, <1>4 DEF Has, Asked

LEMMA EditNoSend ==
  ASSUME Typed, NEW d, Edits(d), NEW m, Sends(m) PROVE FALSE
<1>1. calling \in [Devices -> Command \cup {NoCommand}] /\ m.from \in Devices /\ m # NoCommand
  BY NoCommandIsNone DEF Typed, ClientTypeOK, Sends, Fits, Command
<1> QED BY <1>1 DEF Edits, EditFrame, Sends, Dispatch, Idle

\* One device at a time has a new wish.
LEMMA OneWants ==
  ASSUME Typed, Owned, NEW d \in Devices, NEW e \in Devices, Wanting(d), Wanting(e), wanted' = wanted + 1
  PROVE  d = e
<1>1. /\ draft \in [{Waiter, Guest, Desk} -> SUBSET Wishes] /\ wanted \in 0..MaxWishes
      /\ calling \in [Devices -> Command \cup {NoCommand}]
  BY DEF Typed, ClientTypeOK
<1>2. CASE d \in {Waiter, Guest, Desk} /\ e \in {Waiter, Guest, Desk} /\ Edits(d) /\ Edits(e)
  <2> SUFFICES ASSUME d # e PROVE FALSE
    OBVIOUS
  <2>1. wanted + 1 \in draft'[d]
    BY <1>1, <1>2 DEF Edits, Draft
  <2>2. draft'[d] = draft[d]
    BY <1>1, <1>2 DEF Edits, Draft
  <2>3. wanted + 1 \in Wishes /\ Has(d, wanted + 1)
    BY <1>1, <1>2, <2>1, <2>2 DEF Has
  <2> QED BY <1>1, <2>3 DEF Owned
<1>3. ASSUME NEW m, NEW n, Sends(m), Sends(n), m.from = d, n.from = e PROVE d = e
  <2>1. m # NoCommand /\ n # NoCommand /\ calling[d] = NoCommand
    BY <1>3, NoCommandIsNone DEF Sends, Fits, Dispatch, Idle
  <2>2. calling' = [calling EXCEPT ![d] = m] /\ calling' = [calling EXCEPT ![e] = n]
    BY <1>3 DEF Sends, Dispatch
  <2> QED BY <1>1, <2>1, <2>2
<1> QED BY <1>2, <1>3, EditNoSend DEF Wanting

LEMMA NextOwned ==
  ASSUME Typed, Owned, [Next]_vars PROVE Owned'
<1>1. wanted \in Nat /\ wanted' \in Nat /\ wanted <= wanted'
  <2>1. wanted \in Nat
    BY DEF Typed, ClientTypeOK
  <2>2. wanted' = wanted \/ wanted' = wanted + 1
    <3>1. ClientNext => wanted' = wanted \/ wanted' = wanted + 1
      BY ClientSteps DEF Edits, EditFrame, Sends, Fresh, Again, Succeeds, Succeeded, Failed, Refresh, Reload
    <3> QED BY <3>1 DEF Next, vars, clientVars
  <2> QED BY <2>1, <2>2
<1> SUFFICES ASSUME NEW d \in Devices, NEW w \in Wishes, Has(d, w)'
             PROVE  w <= wanted' /\ \A e \in Devices : Has(e, w)' => d = e
  BY DEF Owned
<1>2. w \in Nat
  BY DEF Wishes
<1>3. CASE Has(d, w)
  <2>1. w <= wanted
    BY <1>3 DEF Owned
  <2>2. ASSUME NEW e \in Devices, Has(e, w)' PROVE d = e
    <3>1. Has(e, w)
      BY <1>1, <1>2, <2>1, <2>2, HasFrom
    <3> QED BY <1>3, <3>1 DEF Owned
  <2> QED BY <1>1, <1>2, <2>1, <2>2
<1>4. CASE w = wanted + 1 /\ wanted' = wanted + 1 /\ Wanting(d) /\ ~Has(d, w)
  <2>1. ASSUME NEW e \in Devices, Has(e, w)' PROVE d = e
    <3>1. ~Has(e, w)
      BY <1>1, <1>4 DEF Owned
    <3>2. Wanting(e)
      BY <2>1, <3>1, HasFrom
    <3> QED BY <1>4, <3>2, OneWants
  <2> QED BY <1>1, <1>4, <2>1
<1> QED BY <1>3, <1>4, HasFrom

\* The keys under which the guest has asked for a wish are few enough to count.
LEMMA SpentCounts ==
  ASSUME Typed, NEW w
  PROVE  /\ IsFiniteSet(Spent(w)) /\ Spent(w) \subseteq KeysUpTo(minted)
         /\ \A S : S \subseteq Spent(w) => IsFiniteSet(S) /\ Cardinality(S) <= Cardinality(Spent(w)) /\ Cardinality(S) \in Nat
<1>1. minted \in Nat
  BY DEF Typed, ClientTypeOK
<1>2. IsFiniteSet(1..minted)
  BY <1>1, FS_Interval
<1>3. IsFiniteSet(KeysUpTo(minted))
  <2> DEFINE number == [k \in KeysUpTo(minted) |-> CHOOSE n \in 1..minted : k = DeviceKey(n)]
  <2>1. \A k \in KeysUpTo(minted) : number[k] \in 1..minted /\ k = DeviceKey(number[k])
    BY DEF KeysUpTo
  <2>2. number \in [KeysUpTo(minted) -> 1..minted] /\ \A k, n \in KeysUpTo(minted) : number[k] = number[n] => k = n
    BY <2>1
  <2> HIDE DEF number
  <2> QED BY <1>2, <2>2, Fewer
<1>4. Spent(w) \subseteq KeysUpTo(minted)
  <2>1. \A m \in wire : m.key \in KeysUpTo(minted)
    BY DEF Typed, Fits
  <2>2. \A a \in DOMAIN asks : asks[a].key \in KeysUpTo(minted)
    BY DEF Typed
  <2> QED BY <2>1, <2>2 DEF Spent, Asked
<1>5. IsFiniteSet(Spent(w))
  BY <1>3, <1>4, FS_Subset
<1> QED BY <1>4, <1>5, FS_Subset, FS_CardinalityType

\* A step but the guest's sending spends no key.
LEMMA SpentFrom ==
  ASSUME Typed, [Next]_vars, NEW w \in Wishes, NEW k \in Spent(w)'
  PROVE  k \in Spent(w) \/ \E m : Sends(m) /\ m.from = Guest /\ k = m.key /\ w \in draft[Guest]
<1>1. ASSUME NEW m \in wire', m.from = Guest, w \in m.items, k = m.key
      PROVE  k \in Spent(w) \/ \E n : Sends(n) /\ n.from = Guest /\ k = n.key /\ w \in draft[Guest]
  <2>0. Guest \in Devices
    BY DEF Devices
  <2>1. m \in CommandsOf(Guest)'
    BY <1>1 DEF CommandsOf
  <2>2. CASE \E n \in CommandsOf(Guest) : Same(m, n)
    BY <1>1, <2>2, DeviceNames DEF Same, CommandsOf, Spent
  <2>3. CASE Sends(m) /\ m.items = draft[Guest]
    BY <1>1, <2>3
  <2> QED BY <2>0, <2>1, <2>2, <2>3, KnownOrNew, DeviceNames
<1>2. ASSUME NEW a \in DOMAIN asks', w \in asks'[a].items, k = asks'[a].key PROVE k \in Spent(w)
  <2>1. CASE a \in DOMAIN asks /\ asks'[a].key = asks[a].key /\ asks'[a].items = asks[a].items
    BY <1>2, <2>1 DEF Spent, Asked
  <2>2. ASSUME NEW m \in wire, m.from = Guest, asks'[a].key = m.key, asks'[a].items = m.items PROVE k \in Spent(w)
    BY <1>2, <2>2 DEF Spent
  <2> QED BY <2>1, <2>2, StepAsks
<1> QED BY <1>1, <1>2 DEF Spent, Asked

LEMMA TroublesOnlyGrow ==
  ASSUME Typed, [Next]_vars
  PROVE  /\ reloads \in Nat /\ faults \in Nat
         /\ reloads' = reloads \/ (reloads' = reloads + 1 /\ \E page \in Pages : Reload(page))
         /\ faults' = faults \/ (faults' = faults + 1 /\ reloads' = reloads)
<1>1. reloads \in Nat /\ faults \in Nat
  BY DEF Typed, ClientTypeOK
<1>2. CASE ClientNext
  BY <1>1, <1>2, ClientSteps DEF Edits, EditFrame, Sends, Succeeds, Succeeded, Failed, Refresh, Reload
<1> QED BY <1>1, <1>2 DEF Next, vars, clientVars

\* How a wish is in the guest's cart after a step.
LEMMA CartFrom ==
  ASSUME Typed, [Next]_vars, NEW w \in draft'[Guest]
  PROVE  \/ \E page \in Pages : Reload(page)
         \/ \E m : Sends(m) /\ m.from = Guest /\ w \in draft[Guest]
         \/ /\ \A m : Sends(m) => m.from # Guest
            /\ \/ w \in draft[Guest] /\ draftKey'[Guest] = draftKey[Guest]
               \/ w = wanted + 1 /\ wanted + 1 \in Wishes
<1>0. /\ draft \in [{Waiter, Guest, Desk} -> SUBSET Wishes] /\ wanted \in 0..MaxWishes
      /\ draftKey \in [{Waiter, Guest} -> DeviceKeys \cup {NoKey}]
      /\ calling \in [Devices -> Command \cup {NoCommand}]
  BY DEF Typed, ClientTypeOK
<1>1. ASSUME NEW m, Sends(m), m.from = Guest PROVE w \in draft[Guest]
  BY <1>1 DEF Sends
<1>2. CASE UNCHANGED <<draft, draftKey>>
  BY <1>1, <1>2
<1>3. ASSUME NEW d \in {Waiter, Guest, Desk}, Edits(d)
      PROVE  /\ \A m : Sends(m) => m.from # Guest
             /\ \/ w \in draft[Guest] /\ draftKey'[Guest] = draftKey[Guest]
                \/ w = wanted + 1 /\ wanted + 1 \in Wishes
  <2>1. draftKey'[Guest] = draftKey[Guest]
    BY <1>0, <1>3, DeviceNames DEF Edits, KeepKey
  <2>2. w \in draft[Guest] \/ (w = wanted + 1 /\ wanted < MaxWishes)
    <3>1. PICK items : /\ draft' = [draft EXCEPT ![d] = items]
                       /\ items \subseteq draft[d] \/ (wanted < MaxWishes /\ items = draft[d] \cup {wanted + 1})
      BY <1>3 DEF Edits, Draft
    <3> QED BY <1>0, <3>1
  <2>3. wanted < MaxWishes => wanted + 1 \in Wishes
    BY <1>0, BoundAssumption DEF Wishes
  <2> QED BY <1>3, <2>1, <2>2, <2>3, EditNoSend
<1>4. ASSUME NEW d \in Devices, Succeeds(d)
      PROVE  (\A m : ~Sends(m)) /\ w \in draft[Guest] /\ draftKey'[Guest] = draftKey[Guest]
  <2>1. \A m : ~Sends(m)
    <3> SUFFICES ASSUME NEW m, Sends(m) PROVE FALSE
      OBVIOUS
    <3>1. m # NoCommand /\ m.from \in Devices
      BY NoCommandIsNone DEF Sends, Fits, Command
    <3>2. calling'[m.from] = m /\ calling[m.from] = NoCommand
      BY <1>0, <3>1 DEF Sends, Dispatch, Idle
    <3> QED BY <1>0, <1>4, <3>1, <3>2 DEF Succeeds, Succeeded, HangUp
  <2>2. d # Guest
    BY <1>0, <1>4, DeviceNames DEF Succeeds, Draft
  <2> QED BY <1>0, <1>4, <2>1, <2>2 DEF Succeeds, Draft, KeepKey
<1>5. ASSUME NEW m, Sends(m), m.from # Guest
      PROVE  w \in draft[Guest] /\ draftKey'[Guest] = draftKey[Guest] /\ \A n : Sends(n) => n.from # Guest
  <2>1. draftKey'[Guest] = draftKey[Guest]
    BY <1>0, <1>5, DeviceNames DEF Sends, Fresh, Again, KeepKey
  <2>2. \A n : Sends(n) => n.from # Guest
    <3> SUFFICES ASSUME NEW n, Sends(n), n.from = Guest PROVE FALSE
      OBVIOUS
    <3>1. n # NoCommand /\ n.from \in Devices
      BY NoCommandIsNone DEF Sends, Fits, Command
    <3>2. calling'[Guest] = n /\ calling[Guest] = NoCommand
      BY <1>0, <3>1 DEF Sends, Dispatch, Idle
    <3>3. calling'[Guest] = calling[Guest]
      BY <1>0, <1>5, <3>1 DEF Sends, Dispatch
    <3> QED BY <3>1, <3>2, <3>3
  <2> QED BY <1>5, <2>1, <2>2 DEF Sends
<1>6. CASE ClientNext
  BY <1>1, <1>2, <1>3, <1>4, <1>5, <1>6, ClientSteps DEF Failed, Refresh
<1> QED BY <1>2, <1>6 DEF Next, vars, clientVars

LEMMA NextSpare ==
  ASSUME Typed, Owned, Spare, [Next]_vars PROVE Spare'
<1>0. /\ reloads \in Nat /\ reloads' \in Nat /\ reloads <= reloads'
      /\ draft[Guest] \subseteq Wishes /\ draft'[Guest] \subseteq Wishes
      /\ minted \in 0..MaxKeys /\ wanted \in Nat
      /\ draftKey \in [{Waiter, Guest} -> DeviceKeys \cup {NoKey}]
  <2>1. draft[Guest] \subseteq Wishes /\ draft'[Guest] \subseteq Wishes
    BY NextTyped DEF Typed, ClientTypeOK
  <2> QED BY <2>1, TroublesOnlyGrow DEF Typed, ClientTypeOK
<1>1. ASSUME NEW w \in Wishes, NEW S, S \subseteq Spent(w), NEW n \in Nat, Cardinality(Spent(w)) <= n
      PROVE  Cardinality(S) <= n
  <2>1. Cardinality(S) <= Cardinality(Spent(w)) /\ Cardinality(S) \in Nat /\ Cardinality(Spent(w)) \in Nat
    BY <1>1, SpentCounts
  <2> QED BY <1>1, <2>1
<1>2. ASSUME NEW w \in Wishes, \A m : Sends(m) => m.from # Guest PROVE Spent(w)' \subseteq Spent(w)
  BY <1>2, SpentFrom
\* The guest sends: with the draft's key, a wish of the draft has one key more at most.
<1>3. ASSUME NEW m, Sends(m), m.from = Guest
      PROVE  /\ reloads' = reloads /\ draftKey'[Guest] = m.key
             /\ \A w \in draft[Guest] :
                  /\ Spent(w)' \subseteq (Spent(w) \ {draftKey[Guest]}) \cup {m.key}
                  /\ Spent(w)' \ {m.key} \subseteq Spent(w) \ {draftKey[Guest]}
             /\ \A w \in Wishes \ draft[Guest] : Spent(w)' \subseteq Spent(w)
  <2>1. reloads' = reloads
    BY <1>3 DEF Sends
  <2>2. draftKey'[Guest] = m.key /\ (draftKey[Guest] = NoKey \/ draftKey[Guest] = m.key)
    BY <1>0, <1>3, DeviceNames DEF Sends, Fresh, Again, KeepKey
  <2>3. \A w \in Wishes : NoKey \notin Spent(w)
    BY <1>0, SpentCounts, KeyNames
  <2>4. \A w \in Wishes : \A k \in Spent(w)' : k \in Spent(w) \/ (k = m.key /\ w \in draft[Guest])
    BY <1>3, SpentFrom, OneSent
  <2> QED BY <1>0, <2>1, <2>2, <2>3, <2>4
<1>4. \A w \in Wishes : Cardinality(Spent(w)') <= 1 + reloads'
  <2> SUFFICES ASSUME NEW w \in Wishes PROVE Cardinality(Spent(w)') <= 1 + reloads'
    OBVIOUS
  <2>1. Cardinality(Spent(w)) <= 1 + reloads' /\ 1 + reloads' \in Nat
    <3>1. Cardinality(Spent(w)) <= 1 + reloads /\ Cardinality(Spent(w)) \in Nat
      BY SpentCounts, FS_CardinalityType DEF Spare
    <3> QED BY <1>0, <3>1
  <2>2. CASE Spent(w)' \subseteq Spent(w)
    BY <1>1, <2>1, <2>2
  <2>3. ASSUME NEW m, Sends(m), m.from = Guest, w \in draft[Guest] PROVE Cardinality(Spent(w)') <= 1 + reloads'
    <3> DEFINE R == Spent(w) \ {draftKey[Guest]}
    <3>1. IsFiniteSet(R) /\ Cardinality(R) <= reloads
      BY <2>3, SpentCounts DEF Spare
    <3>2. IsFiniteSet(R \cup {m.key}) /\ Cardinality(R \cup {m.key}) <= reloads + 1
      <4> HIDE DEF R
      <4> QED BY <1>0, <3>1, OneMore
    <3>3. Spent(w)' \subseteq R \cup {m.key} /\ reloads' = reloads
      BY <1>3, <2>3
    <3>4. Cardinality(Spent(w)') <= Cardinality(R \cup {m.key}) /\ Cardinality(Spent(w)') \in Nat /\ Cardinality(R \cup {m.key}) \in Nat
      BY <3>2, <3>3, FS_Subset, FS_CardinalityType
    <3> HIDE DEF R
    <3> QED BY <1>0, <3>2, <3>3, <3>4
  <2> QED BY <1>2, <1>3, <2>2, <2>3
<1>5. \A w \in draft'[Guest] : Cardinality(Spent(w)' \ {draftKey'[Guest]}) <= reloads'
  <2> SUFFICES ASSUME NEW w \in draft'[Guest] PROVE Cardinality(Spent(w)' \ {draftKey'[Guest]}) <= reloads'
    OBVIOUS
  <2>0. w \in Wishes
    BY <1>0
  <2>1. ASSUME NEW page \in Pages, Reload(page) PROVE Cardinality(Spent(w)' \ {draftKey'[Guest]}) <= reloads'
    <3>1. reloads' = 1 + reloads /\ Cardinality(Spent(w)) <= 1 + reloads
      BY <1>0, <2>0, <2>1 DEF Reload, Spare
    <3>2. Spent(w)' \subseteq Spent(w)
      <4>1. \A m : ~Sends(m)
        BY <1>0, <2>1 DEF Reload, Sends
      <4> QED BY <1>2, <2>0, <4>1
    <3>3. Spent(w)' \ {draftKey'[Guest]} \subseteq Spent(w)
      BY <3>2
    <3> QED BY <1>0, <1>1, <2>0, <3>1, <3>3
  <2>2. ASSUME w \in draft[Guest], Spent(w)' \ {draftKey'[Guest]} \subseteq Spent(w) \ {draftKey[Guest]}
        PROVE  Cardinality(Spent(w)' \ {draftKey'[Guest]}) <= reloads'
    <3> DEFINE R == Spent(w) \ {draftKey[Guest]}
               Q == Spent(w)' \ {draftKey'[Guest]}
    <3>1. IsFiniteSet(R) /\ Cardinality(R) <= reloads
      BY <2>2, SpentCounts DEF Spare
    <3>2. Q \subseteq R
      BY <2>2
    <3> HIDE DEF R, Q
    <3>3. Cardinality(Q) <= Cardinality(R) /\ Cardinality(Q) \in Nat /\ Cardinality(R) \in Nat
      BY <3>1, <3>2, FS_Subset, FS_CardinalityType
    <3>4. Cardinality(Q) <= reloads'
      BY <1>0, <3>1, <3>3
    <3> QED BY <3>4 DEF Q
  <2>3. ASSUME NEW m, Sends(m), m.from = Guest, w \in draft[Guest]
        PROVE  Cardinality(Spent(w)' \ {draftKey'[Guest]}) <= reloads'
    BY <1>3, <2>2, <2>3
  <2>4. ASSUME \A m : Sends(m) => m.from # Guest, w \in draft[Guest], draftKey'[Guest] = draftKey[Guest]
        PROVE  Cardinality(Spent(w)' \ {draftKey'[Guest]}) <= reloads'
    <3>1. Spent(w)' \subseteq Spent(w)
      BY <1>2, <2>0, <2>4
    <3> QED BY <2>2, <2>4, <3>1
  <2>5. ASSUME \A m : Sends(m) => m.from # Guest, w = wanted + 1
        PROVE  Cardinality(Spent(w)' \ {draftKey'[Guest]}) <= reloads'
    <3>1. Spent(w) = {}
      <4> SUFFICES ASSUME NEW k \in Spent(w) PROVE FALSE
        OBVIOUS
      <4>1. Has(Guest, w)
        BY DEF Spent, Has, CommandsOf
      <4> QED BY <1>0, <2>0, <2>5, <4>1 DEF Owned, Devices
    <3>2. Spent(w)' \ {draftKey'[Guest]} = {}
      BY <1>2, <2>0, <2>5, <3>1
    <3> QED BY <1>0, <3>2, FS_EmptySet
  <2> QED BY <2>1, <2>3, <2>4, <2>5, CartFrom
<1> QED BY <1>4, <1>5 DEF Spare

-----------------------------------------------------------------------------
(* A wish of the till or the desk is held under one key.                    *)

\* A row of a device after a step is one it had, or books one of its commands
\* (or is a guest's request).
LEMMA RowFrom ==
  ASSUME Typed, [Next]_vars, NEW d \in Devices \ {Guest}, NEW i \in Of(d)'
  PROVE  \/ i \in Of(d) /\ rows'[i] = rows[i]
         \/ i = Len(rows) + 1 /\ UNCHANGED clientVars
            /\ \E m \in CommandsOf(d) : Booking(m, rows'[i])
<1>1. CASE UNCHANGED rows
  BY <1>1 DEF Of
<1>2. ASSUME NEW r \in Row, rows' = Append(rows, r), UNCHANGED clientVars,
             (\E m : Booking(m, r)) \/ (\E a : Granting(a, r))
      PROVE  \/ i \in Of(d) /\ rows'[i] = rows[i]
             \/ i = Len(rows) + 1 /\ \E m \in CommandsOf(d) : Booking(m, rows'[i])
  <2>1. /\ rows'[Len(rows) + 1] = r /\ \A j \in DOMAIN rows : rows'[j] = rows[j]
        /\ Of(d)' = IF d = r.from THEN Of(d) \cup {Len(rows) + 1} ELSE Of(d)
    BY <1>2, RowsAfter
  <2>2. CASE i \in Of(d)
    BY <2>1, <2>2 DEF Of
  <2>3. CASE i = Len(rows) + 1 /\ d = r.from
    <3>1. PICK m : Booking(m, r)
      BY <1>2, <2>3 DEF Granting
    <3> QED BY <2>1, <2>3, <3>1 DEF Booking, CommandsOf
  <2> QED BY <2>1, <2>2, <2>3
<1> QED BY <1>1, <1>2, StepRows DEF Booking, Granting

\* Two rows that are new are the same one.
LEMMA NextAlone ==
  ASSUME Typed, Owned, Alone, Repeated, [Next]_vars PROVE Alone'
<1> SUFFICES ASSUME NEW d \in {Till, Cash, Desk}, NEW w \in Wishes
             PROVE  /\ \A m, n \in CommandsOf(d)' : w \in m.items /\ w \in n.items => m.key = n.key
                    /\ \A m \in CommandsOf(d)', i \in Of(d)' :
                         w \in m.items /\ w \in rows'[i].items => m.key = rows'[i].key
                    /\ \A i, j \in Of(d)' :
                         w \in rows'[i].items /\ w \in rows'[j].items => rows'[j].key = rows'[i].key
  BY DEF Alone
<1>0. d \in Devices \ {Guest} /\ wanted \in Nat
  BY DeviceNames DEF Devices, Typed, ClientTypeOK
\* A command sent under a new key has what no command or row had.
<1>1. ASSUME NEW m, m.from = d, Sends(m), Fresh(m), w \in m.items
      PROVE  /\ \A n \in CommandsOf(d) : w \notin n.items
             /\ \A i \in Of(d) : w \notin rows[i].items
  <2>1. CASE w = wanted + 1
    <3>1. ~Has(d, w)
      BY <1>0, <2>1 DEF Owned
    <3> QED BY <3>1 DEF Has
  <2>2. CASE d = Desk /\ retained[Desk] = {} /\ w \in draft[Desk]
    <3>1. Outstanding(Desk) = {}
      BY <2>2 DEF Outstanding
    <3> QED BY <2>2, <3>1 DEF Repeated
  <2> QED BY <1>1, <2>1, <2>2, DeviceNames DEF Fresh
\* What holds a wish after a step held it before, under the same key, or is the one command sent.
<1>2. ASSUME NEW m \in CommandsOf(d)', w \in m.items
      PROVE  \/ \E n \in CommandsOf(d) : w \in n.items /\ n.key = m.key
             \/ m.from = d /\ Sends(m) /\ Fresh(m)
  <2>1. (\E n \in CommandsOf(d) : Same(m, n)) \/ (m.from = d /\ Sends(m) /\ Fresh(m))
    BY <1>0, KnownOrNew, DeviceNames
  <2> QED BY <1>2, <2>1 DEF Same
<1>3. ASSUME NEW i \in Of(d)', w \in rows'[i].items
      PROVE  \/ i \in Of(d) /\ w \in rows[i].items /\ rows[i].key = rows'[i].key
             \/ UNCHANGED clientVars /\ \E n \in CommandsOf(d) : w \in n.items /\ n.key = rows'[i].key
  BY <1>0, <1>3, RowFrom DEF Booking
<1>4. ASSUME UNCHANGED clientVars PROVE \A m : ~Sends(m)
  <2> SUFFICES ASSUME NEW m, Sends(m) PROVE FALSE
    OBVIOUS
  <2>1. m # NoCommand /\ m.from \in Devices
    BY NoCommandIsNone DEF Sends, Fits, Command
  <2>2. calling \in [Devices -> Command \cup {NoCommand}]
    BY DEF Typed, ClientTypeOK
  <2> QED BY <1>4, <2>1, <2>2 DEF Sends, Dispatch, Idle, clientVars
<1>5. ASSUME NEW m \in CommandsOf(d)', NEW n \in CommandsOf(d)', w \in m.items, w \in n.items PROVE m.key = n.key
  <2>1. CASE (\E x \in CommandsOf(d) : w \in x.items /\ x.key = m.key) /\ (\E x \in CommandsOf(d) : w \in x.items /\ x.key = n.key)
    BY <2>1 DEF Alone
  <2>2. CASE Sends(m) /\ Sends(n) /\ m.from = d /\ n.from = d
    BY <2>2, OneSent
  <2> QED BY <1>1, <1>2, <1>5, <2>1, <2>2
<1>6. ASSUME NEW m \in CommandsOf(d)', NEW i \in Of(d)', w \in m.items, w \in rows'[i].items PROVE m.key = rows'[i].key
  <2>1. CASE \E x \in CommandsOf(d) : w \in x.items /\ x.key = m.key
    BY <1>3, <1>6, <2>1 DEF Alone
  <2>2. CASE m.from = d /\ Sends(m) /\ Fresh(m)
    BY <1>1, <1>3, <1>4, <1>6, <2>2
  <2> QED BY <1>2, <1>6, <2>1, <2>2
<1>7. ASSUME NEW i \in Of(d)', NEW j \in Of(d)', w \in rows'[i].items, w \in rows'[j].items PROVE rows'[j].key = rows'[i].key
  BY <1>3, <1>7 DEF Alone
<1> QED BY <1>5, <1>6, <1>7

\* How a wish is in the desk's dialog after a step.
LEMMA DialogFrom ==
  ASSUME Typed, [Next]_vars, NEW w \in draft'[Desk]
  PROVE  /\ Outstanding(Desk) \subseteq Outstanding(Desk)'
         /\ w \in draft[Desk] \/ (w = wanted + 1 /\ wanted' = wanted + 1 /\ w \in Wishes)
<1>0. /\ draft \in [{Waiter, Guest, Desk} -> SUBSET Wishes] /\ wanted \in 0..MaxWishes
      /\ retained \in [{Till, Cash, Desk} -> SUBSET Command]
  BY DEF Typed, ClientTypeOK
<1>1. CASE UNCHANGED <<draft, retained>>
  BY <1>1 DEF Outstanding
<1>2. ASSUME NEW d \in {Waiter, Guest, Desk}, Edits(d)
      PROVE  w \in draft[Desk] \/ (w = wanted + 1 /\ wanted' = wanted + 1 /\ w \in Wishes)
  <2>1. PICK items : /\ draft' = [draft EXCEPT ![d] = items]
                     /\ \/ items \subseteq draft[d]
                        \/ wanted < MaxWishes /\ wanted' = wanted + 1 /\ items = draft[d] \cup {wanted + 1}
    BY <1>2 DEF Edits, Draft
  <2>2. wanted < MaxWishes => wanted + 1 \in Wishes
    BY <1>0, BoundAssumption DEF Wishes
  <2> QED BY <1>0, <2>1, <2>2
<1>3. ASSUME NEW d \in Devices, Succeeds(d) PROVE w \in draft[Desk] /\ retained'[Desk] = retained[Desk]
  BY <1>0, <1>3, DeviceNames DEF Succeeds, Draft
<1>4. ASSUME NEW m, Sends(m) PROVE w \in draft[Desk] /\ retained[Desk] \subseteq retained'[Desk]
  BY <1>0, <1>4 DEF Sends, Fresh, Again
<1>5. ASSUME NEW page \in Pages, Reload(page) PROVE w \in draft[Desk] /\ retained'[Desk] = retained[Desk]
  BY <1>0, <1>5, DeviceNames DEF Reload, Forgets
<1>6. CASE ClientNext
  BY <1>1, <1>2, <1>3, <1>4, <1>5, <1>6, ClientSteps DEF Edits, EditFrame, Failed, Refresh, Outstanding
<1> QED BY <1>1, <1>6 DEF Next, vars, clientVars

LEMMA NextRepeated ==
  ASSUME Typed, Owned, Repeated, [Next]_vars PROVE Repeated'
<1> SUFFICES ASSUME NEW w \in draft'[Desk]
             PROVE  /\ \A m \in CommandsOf(Desk)' : w \in m.items => m.key \in Outstanding(Desk)'
                    /\ \A i \in Of(Desk)' : w \in rows'[i].items => rows'[i].key \in Outstanding(Desk)'
  BY DEF Repeated
<1>0. Desk \in Devices \ {Guest} /\ wanted \in Nat /\ retained \in [{Till, Cash, Desk} -> SUBSET Command]
  BY DeviceNames DEF Devices, Typed, ClientTypeOK
<1>1. /\ Outstanding(Desk) \subseteq Outstanding(Desk)'
      /\ w \in draft[Desk] \/ (w = wanted + 1 /\ w \in Wishes)
  BY DialogFrom
<1>2. /\ \A m \in CommandsOf(Desk) : w \in m.items => m.key \in Outstanding(Desk)'
      /\ \A i \in Of(Desk) : w \in rows[i].items => rows[i].key \in Outstanding(Desk)'
  <2>1. CASE w \in draft[Desk]
    BY <1>1, <2>1 DEF Repeated
  <2>2. CASE w = wanted + 1 /\ w \in Wishes
    <3>1. ~Has(Desk, w)
      BY <1>0, <2>2 DEF Owned
    <3> QED BY <3>1 DEF Has
  <2> QED BY <1>1, <2>1, <2>2
<1>3. ASSUME NEW m \in CommandsOf(Desk)', w \in m.items PROVE m.key \in Outstanding(Desk)'
  <2>1. CASE \E n \in CommandsOf(Desk) : Same(m, n)
    BY <1>2, <1>3, <2>1 DEF Same
  <2>2. CASE m.from = Desk /\ Fresh(m)
    <3>1. m \in retained'[Desk]
      BY <1>0, <2>2, DeviceNames DEF Fresh
    <3> QED BY <3>1 DEF Outstanding
  <2> QED BY <1>0, <2>1, <2>2, KnownOrNew, DeviceNames
<1>4. ASSUME NEW i \in Of(Desk)', w \in rows'[i].items PROVE rows'[i].key \in Outstanding(Desk)'
  BY <1>0, <1>2, <1>4, RowFrom DEF Booking
<1> QED BY <1>3, <1>4

-----------------------------------------------------------------------------
(* While nothing goes wrong, the waiter's lines are booked once.            *)

\* The three parts, without the condition.
Tidy(d) ==
  /\ \A m \in wire : m.from = d => m.open /\ \A i \in Of(d) : m.items \cap rows[i].items = {}
  /\ \A i \in Of(d) : draft[d] \cap rows[i].items # {} => answers[d].ok
  /\ \A i, j \in Of(d) : rows[i].items \cap rows[j].items # {} => i = j

\* While its answer has not come, or was a refusal, the ticket holds nothing on record.
LEMMA TidyOn ==
  ASSUME Typed, Tidy(Waiter), UNCHANGED rows,
         \A m \in wire' : m.from = Waiter =>
           m \in wire \/ (m.open /\ m.items = draft[Waiter] /\ ~answers[Waiter].ok),
         \A i \in Of(Waiter) : draft'[Waiter] \cap rows[i].items # {} =>
           draft[Waiter] \cap rows[i].items # {} /\ (answers[Waiter].ok => answers'[Waiter].ok)
  PROVE  Tidy(Waiter)'
<1>1. Of(Waiter)' = Of(Waiter)
  BY DEF Of
<1>2. \A m \in wire' : m.from = Waiter => m.open /\ \A i \in Of(Waiter) : m.items \cap rows[i].items = {}
  BY DEF Tidy
<1>3. \A i \in Of(Waiter) : draft'[Waiter] \cap rows[i].items # {} => answers'[Waiter].ok
  BY DEF Tidy
<1>4. \A i, j \in Of(Waiter) : rows[i].items \cap rows[j].items # {} => i = j
  BY DEF Tidy
<1> QED BY <1>1, <1>2, <1>3, <1>4 DEF Tidy

LEMMA AnswerTidy ==
  ASSUME Typed, Answered, Tidy(Waiter), UNCHANGED <<rows, draft>>, NEW m \in wire, NEW ok, NEW c, Answer(m, ok, c)
  PROVE  Tidy(Waiter)'
<1>1. wire \subseteq Command /\ answers \in [Devices -> [ok: BOOLEAN, come: BOOLEAN, view: Views]] /\ Waiter \in Devices
  BY DEF Typed, ApiTypeOK, Devices
<1>2. answers[Waiter].ok => answers'[Waiter].ok
  <2>1. CASE m.open /\ m.from = Waiter
    <3>1. ~answers[Waiter].ok
      BY <1>1, <2>1 DEF Answered
    <3> QED BY <3>1
  <2>2. CASE ~(m.open /\ m.from = Waiter)
    BY <1>1, <2>2 DEF Answer
  <2> QED BY <2>1, <2>2
<1>3. wire' \subseteq wire
  BY DEF Answer
<1> QED BY <1>2, <1>3, TidyOn

LEMMA BooksTidy ==
  ASSUME Typed, Answered, Tidy(Waiter), UNCHANGED draft, NEW m \in wire, Books(m)
  PROVE  Tidy(Waiter)'
<1>0. wire \subseteq Command /\ answers \in [Devices -> [ok: BOOLEAN, come: BOOLEAN, view: Views]] /\ Waiter \in Devices
  BY DEF Typed, ApiTypeOK, Devices
<1>1. PICK r \in Row : /\ r.from = m.from /\ r.items = m.items /\ rows' = Append(rows, r)
                       /\ \E shown : Answer(m, TRUE, shown)
  BY BookedTyped
<1>2. PICK shown : Answer(m, TRUE, shown)
  BY <1>1
<1>3. /\ rows'[Len(rows) + 1] = r /\ \A i \in DOMAIN rows : rows'[i] = rows[i]
      /\ Of(Waiter)' = IF Waiter = r.from THEN Of(Waiter) \cup {Len(rows) + 1} ELSE Of(Waiter)
      /\ Len(rows) + 1 \notin DOMAIN rows
  BY <1>1, RowsAfter
<1>4. \A i \in Of(Waiter) : rows'[i] = rows[i] /\ i # Len(rows) + 1
  BY <1>3 DEF Of
<1>5. wire' = wire \ {m}
  BY <1>2 DEF Answer
<1>6. CASE m.from = Waiter
  <2>1. m.open /\ \A i \in Of(Waiter) : m.items \cap rows[i].items = {}
    BY <1>6 DEF Tidy
  <2>2. \A n \in wire' : n.from # Waiter
    BY <1>0, <1>5, <1>6, <2>1 DEF Tidy, Answered
  <2>3. answers'[Waiter].ok
    BY <1>0, <1>2, <1>6, <2>1 DEF Answer
  <2>4. ASSUME NEW i \in Of(Waiter)', NEW j \in Of(Waiter)', rows'[i].items \cap rows'[j].items # {} PROVE i = j
    <3>1. CASE i \in Of(Waiter) /\ j \in Of(Waiter)
      BY <1>4, <2>4, <3>1 DEF Tidy
    <3>2. CASE i = Len(rows) + 1 /\ j \in Of(Waiter)
      <4>1. m.items \cap rows[j].items # {}
        BY <1>1, <1>3, <1>4, <2>4, <3>2
      <4> QED BY <2>1, <3>2, <4>1
    <3>3. CASE j = Len(rows) + 1 /\ i \in Of(Waiter)
      <4>1. rows[i].items \cap m.items # {}
        BY <1>1, <1>3, <1>4, <2>4, <3>3
      <4> QED BY <2>1, <3>3, <4>1
    <3> QED BY <1>3, <3>1, <3>2, <3>3
  <2> QED BY <2>2, <2>3, <2>4 DEF Tidy
<1>7. CASE m.from # Waiter
  <2>1. Of(Waiter)' = Of(Waiter) /\ answers'[Waiter] = answers[Waiter]
    BY <1>0, <1>1, <1>2, <1>3, <1>7 DEF Answer
  <2>2. /\ \A n \in wire' : n.from = Waiter => n.open /\ \A i \in Of(Waiter) : n.items \cap rows'[i].items = {}
        /\ \A i \in Of(Waiter) : draft'[Waiter] \cap rows'[i].items # {} => answers'[Waiter].ok
        /\ \A i, j \in Of(Waiter) : rows'[i].items \cap rows'[j].items # {} => i = j
    BY <1>4, <1>5, <2>1 DEF Tidy
  <2> QED BY <2>1, <2>2 DEF Tidy
<1> QED BY <1>6, <1>7

LEMMA ApiTidy ==
  ASSUME Typed, Answered, Tidy(Waiter), ApiNext, UNCHANGED clientVars PROVE Tidy(Waiter)'
<1>0. UNCHANGED draft
  BY DEF clientVars
<1>1. ASSUME NEW m \in wire, Echoes(m) \/ Requests(m) PROVE Tidy(Waiter)'
  <2>1. UNCHANGED rows /\ \E ok, c : Answer(m, ok, c)
    BY <1>1 DEF Echoes, Requests
  <2> QED BY <1>0, <2>1, AnswerTidy
<1>2. ASSUME NEW m \in wire, Books(m) PROVE Tidy(Waiter)'
  BY <1>0, <1>2, BooksTidy
<1>3. ASSUME UNCHANGED <<rows, wire, answers>> PROVE Tidy(Waiter)'
  BY <1>0, <1>3, TidyOn
<1>4. ASSUME NEW a \in DOMAIN asks, Approves(a) PROVE Tidy(Waiter)'
  <2>1. PICK r \in Row : r.from = Guest /\ rows' = Append(rows, r) /\ UNCHANGED <<wire, answers>>
    BY <1>4, Approved
  <2>2. (\A i \in DOMAIN rows : rows'[i] = rows[i]) /\ Of(Waiter)' = Of(Waiter)
    BY <2>1, RowsAfter, DeviceNames
  <2>3. \A i \in Of(Waiter) : rows'[i] = rows[i]
    BY <2>2 DEF Of
  <2>4. /\ \A m \in wire' : m.from = Waiter => m.open /\ \A i \in Of(Waiter) : m.items \cap rows'[i].items = {}
        /\ \A i \in Of(Waiter) : draft'[Waiter] \cap rows'[i].items # {} => answers'[Waiter].ok
        /\ \A i, j \in Of(Waiter) : rows'[i].items \cap rows'[j].items # {} => i = j
    BY <1>0, <2>1, <2>3 DEF Tidy
  <2> QED BY <2>2, <2>4 DEF Tidy
<1> QED BY <1>1, <1>2, <1>3, <1>4, ApiSteps DEF Marks, CloseTable

LEMMA ScreensTidy ==
  ASSUME Typed, Answered, Owned, Tidy(Waiter), ClientNext, faults' = faults, reloads' = reloads
  PROVE  Tidy(Waiter)'
<1>0. /\ answers \in [Devices -> [ok: BOOLEAN, come: BOOLEAN, view: Views]] /\ Waiter \in Devices
      /\ draft \in [{Waiter, Guest, Desk} -> SUBSET Wishes] /\ wanted \in Nat
      /\ faults \in Nat /\ reloads \in Nat /\ NoAnswer.ok = FALSE
      /\ rows \in Seq(Row)
  BY NoAnswerTyped DEF Typed, ApiTypeOK, ClientTypeOK, Devices
<1>00. UNCHANGED rows
  BY ScreensWriteNothing
<1>1. ASSUME NEW d \in {Waiter, Guest, Desk}, Edits(d) PROVE Tidy(Waiter)'
  <2>1. PICK items : /\ draft' = [draft EXCEPT ![d] = items]
                     /\ items \subseteq draft[d] \cup {wanted + 1}
    BY <1>1 DEF Edits, Draft
  <2>2. UNCHANGED <<wire, answers>>
    BY <1>1 DEF Edits, EditFrame, apiVars
  <2>3. \A i \in Of(Waiter) : wanted + 1 \notin rows[i].items
    <3> SUFFICES ASSUME NEW i \in Of(Waiter), wanted + 1 \in rows[i].items PROVE FALSE
      OBVIOUS
    <3>1. rows[i].items \subseteq Wishes
      BY <1>0, RowFields DEF Of
    <3>2. Has(Waiter, wanted + 1) /\ wanted + 1 \in Wishes
      BY <3>1 DEF Has
    <3> QED BY <1>0, <3>2 DEF Owned
  <2>4. \A i \in Of(Waiter) : draft'[Waiter] \cap rows[i].items # {} => draft[Waiter] \cap rows[i].items # {}
    BY <1>0, <2>1, <2>3
  <2> QED BY <1>00, <2>2, <2>4, TidyOn
<1>2. ASSUME NEW m, Sends(m) PROVE Tidy(Waiter)'
  <2>1. /\ wire' = wire \cup {m} /\ answers' = [answers EXCEPT ![m.from] = NoAnswer]
        /\ draft' = draft /\ m.open /\ calling[m.from] = NoCommand
    BY <1>2 DEF Sends, Dispatch, Idle
  <2>2. CASE m.from = Waiter
    <3>1. ~answers[Waiter].ok
      BY <1>0, <2>1, <2>2 DEF Answered
    <3>2. m.items = draft[Waiter]
      BY <1>2, <2>2, DeviceNames DEF Sends, Fresh, Again
    <3> QED BY <1>00, <2>1, <3>1, <3>2, TidyOn
  <2>3. CASE m.from # Waiter
    BY <1>0, <1>00, <2>1, <2>3, TidyOn
  <2> QED BY <2>2, <2>3
<1>3. ASSUME NEW d \in Devices, Succeeds(d) PROVE Tidy(Waiter)'
  <2>1. UNCHANGED wire /\ answers' = [answers EXCEPT ![d] = NoAnswer]
    BY <1>3 DEF Succeeds, Succeeded
  <2>2. CASE d = Waiter
    <3>1. draft'[Waiter] = {}
      BY <1>0, <1>3, <2>2, DeviceNames DEF Succeeds, Draft
    <3> QED BY <1>00, <2>1, <3>1, TidyOn
  <2>3. CASE d # Waiter
    <3>1. draft'[Waiter] = draft[Waiter] /\ answers'[Waiter] = answers[Waiter]
      BY <1>0, <1>3, <2>1, <2>3, DeviceNames DEF Succeeds, Draft
    <3> QED BY <1>00, <2>1, <3>1, TidyOn
  <2> QED BY <2>2, <2>3
<1>4. ASSUME NEW d \in Devices, Failed(d) PROVE Tidy(Waiter)'
  <2>1. UNCHANGED <<wire, draft>> /\ answers' = [answers EXCEPT ![d] = NoAnswer] /\ ~answers[d].ok
    BY <1>0, <1>4 DEF Failed
  <2> QED BY <1>0, <1>00, <2>1, TidyOn
<1>5. ASSUME NEW d \in {Waiter, Till}, Refresh(d) PROVE Tidy(Waiter)'
  BY <1>00, <1>5, TidyOn DEF Refresh, apiVars
<1>6. ASSUME NEW page \in Pages, Reload(page) PROVE FALSE
  BY <1>0, <1>6 DEF Reload
<1> QED BY <1>1, <1>2, <1>3, <1>4, <1>5, <1>6, ClientSteps

LEMMA NextSmooth ==
  ASSUME Typed, Answered, Owned, Smooth, [Next]_vars PROVE Smooth'
<1> SUFFICES ASSUME faults' = 0, reloads' = 0 PROVE Tidy(Waiter)'
  BY DEF Smooth, Tidy
<1>1. faults = 0 /\ reloads = 0
  BY TroublesOnlyGrow
<1>2. Tidy(Waiter)
  BY <1>1 DEF Smooth, Tidy
<1>3. CASE UNCHANGED vars
  <2>1. UNCHANGED <<wire, rows, draft, answers>>
    BY <1>3 DEF vars, apiVars, clientVars
  <2> QED BY <1>2, <2>1, TidyOn
<1> QED BY <1>1, <1>2, <1>3, ApiTidy, ScreensTidy DEF Next

LEMMA NextWished == Typed /\ Answered /\ Wished /\ [Next]_vars => Wished'
BY NextOwned, NextSpare, NextAlone, NextRepeated, NextSmooth DEF Wished

LEMMA InitWished == ASSUME Init PROVE Wished
<1>1. /\ wire = {} /\ rows = <<>> /\ asks = <<>> /\ reloads = 0
      /\ draft = [d \in {Waiter, Guest, Desk} |-> {}] /\ retained = [d \in {Till, Cash, Desk} |-> {}]
  BY DEF Init, ApiInit, ClientInit
<1>2. \A d : CommandsOf(d) = {} /\ Of(d) = {}
  BY <1>1 DEF CommandsOf, Of
<1>3. \A w : Asked(w) = {} /\ Spent(w) = {}
  BY <1>1 DEF Asked, Spent
<1>4. \A d \in Devices, w \in Wishes : ~Has(d, w)
  BY <1>1, <1>2, <1>3 DEF Has
<1>5. Spare
  <2>0. Cardinality({}) = 0
    BY FS_EmptySet
  <2>1. \A w \in Wishes : Cardinality(Spent(w)) <= 1 + reloads
    <3> SUFFICES ASSUME NEW w \in Wishes PROVE Cardinality(Spent(w)) <= 1
      BY <1>1
    <3>1. Spent(w) = {}
      BY <1>3
    <3> QED BY <2>0, <3>1
  <2> QED BY <1>1, <2>1 DEF Spare
<1>6. Alone /\ Repeated /\ Smooth
  BY <1>1, <1>2 DEF Alone, Repeated, Smooth
<1> QED BY <1>4, <1>5, <1>6 DEF Wished, Owned

LEMMA AlwaysWished == Spec => [](Typed /\ Answered /\ Kept /\ Once /\ Wished)
<1>1. Init => Typed /\ Answered /\ Kept /\ Once /\ Wished
  BY InitTyped, InitAnswered, InitKept, InitWished DEF Init, ApiInit, Once
<1> QED BY <1>1, NextTyped, NextAnswered, NextKept, NextOnce, NextWished, PTL DEF Spec

\* The rows that hold a wish are of one device.
LEMMA OneBooks ==
  ASSUME Typed, Owned, NEW w \in Wishes, NEW i \in Booked(w), NEW j \in Booked(w)
  PROVE  /\ rows[i].from = rows[j].from /\ rows[i].from \in Devices
         /\ i \in Of(rows[i].from) /\ w \in rows[i].items
<1>1. rows \in Seq(Row) /\ i \in DOMAIN rows /\ j \in DOMAIN rows /\ w \in rows[i].items /\ w \in rows[j].items
  BY DEF Typed, ApiTypeOK, Booked
<1>2. rows[i].from \in Devices /\ rows[j].from \in Devices
  BY <1>1, RowFields
<1>3. i \in Of(rows[i].from) /\ j \in Of(rows[j].from)
  BY <1>1 DEF Of
<1>4. Has(rows[i].from, w) /\ Has(rows[j].from, w)
  BY <1>1, <1>3 DEF Has
<1> QED BY <1>1, <1>2, <1>3, <1>4 DEF Owned

LEMMA AskedOnce ==
  ASSUME Typed, Spare, NEW w \in Wishes
  PROVE  IsFiniteSet(Asked(w)) /\ Cardinality(Asked(w)) <= 1 + reloads
<1> DEFINE f == [a \in Asked(w) |-> asks[a].key]
<1>1. f \in [Asked(w) -> Spent(w)]
  BY DEF Spent
<1>2. \A a, b \in Asked(w) : f[a] = f[b] => a = b
  BY DEF Typed, Asked
<1>3. IsFiniteSet(Spent(w))
  BY SpentCounts
<1> HIDE DEF f
<1>4. IsFiniteSet(Asked(w)) /\ Cardinality(Asked(w)) <= Cardinality(Spent(w))
  BY <1>1, <1>2, <1>3, Fewer
<1>5. Cardinality(Spent(w)) <= 1 + reloads
  BY DEF Spare
<1>6. Cardinality(Asked(w)) \in Nat /\ Cardinality(Spent(w)) \in Nat /\ reloads \in Nat
  BY <1>3, <1>4, FS_CardinalityType DEF Typed, ClientTypeOK
<1> QED BY <1>4, <1>5, <1>6

\* The guest's rows that hold a wish are as many as the requests for it at most.
LEMMA GuestBooks ==
  ASSUME Typed, Once, Spare, NEW w \in Wishes, NEW S \in SUBSET Booked(w), \A i \in S : rows[i].from = Guest
  PROVE  IsFiniteSet(S) /\ Cardinality(S) <= 1 + reloads
<1>1. ASSUME NEW i \in S
      PROVE  \E a \in Asked(w) : rows[i].key = RequestKey(a)
  <2>1. i \in DOMAIN rows /\ w \in rows[i].items /\ Traced(rows[i], asks, minted)
    BY DEF Typed, Booked
  <2> QED BY <2>1 DEF Traced, Asked
<1> DEFINE f == [i \in S |-> CHOOSE a \in Asked(w) : rows[i].key = RequestKey(a)]
<1>2. \A i \in S : f[i] \in Asked(w) /\ rows[i].key = RequestKey(f[i])
  BY <1>1
<1>3. f \in [S -> Asked(w)]
  BY <1>2
<1> HIDE DEF f
<1>4. \A i, j \in S : f[i] = f[j] => i = j
  <2> SUFFICES ASSUME NEW i \in S, NEW j \in S, f[i] = f[j] PROVE i = j
    OBVIOUS
  <2>1. rows[i].key = RequestKey(f[i]) /\ rows[j].key = RequestKey(f[i]) /\ f[i] \in DOMAIN asks
    BY <1>2 DEF Asked
  <2>2. i \in DOMAIN rows /\ j \in DOMAIN rows
    BY DEF Booked
  <2> QED BY <2>1, <2>2 DEF Once
<1>5. IsFiniteSet(Asked(w)) /\ Cardinality(Asked(w)) <= 1 + reloads
  BY AskedOnce
<1>6. IsFiniteSet(S) /\ Cardinality(S) <= Cardinality(Asked(w))
  BY <1>3, <1>4, <1>5, Fewer
<1>7. Cardinality(Asked(w)) \in Nat /\ Cardinality(S) \in Nat /\ reloads \in Nat
  BY <1>5, <1>6, FS_CardinalityType DEF Typed, ClientTypeOK
<1> QED BY <1>5, <1>6, <1>7

LEMMA BookedOnce ==
  ASSUME Typed, Once, Kept, Owned, Spare, Alone, NEW w \in Wishes, NEW S \in SUBSET Booked(w),
         \A i \in S : rows[i].from # Waiter
  PROVE  Cardinality(S) <= 1 + reloads
<1>1. CASE \A i \in S : rows[i].from = Guest
  BY <1>1, GuestBooks
<1>2. CASE \E i \in S : rows[i].from # Guest
  <2>1. PICK k \in S : rows[k].from # Guest
    BY <1>2
  <2>2. \A i, j \in S : i = j
    <3> SUFFICES ASSUME NEW i \in S, NEW j \in S PROVE i = j
      OBVIOUS
    <3>1. /\ rows[i].from = rows[k].from /\ rows[j].from = rows[k].from /\ rows[k].from \in Devices
          /\ i \in Of(rows[k].from) /\ j \in Of(rows[k].from)
          /\ w \in rows[i].items /\ w \in rows[j].items
      BY OneBooks
    <3>2. rows[k].from \in {Till, Cash, Desk}
      BY <2>1, <3>1 DEF Devices
    <3>3. rows[i].key = rows[j].key
      BY <3>1, <3>2 DEF Alone
    <3>4. Filing(rows[k].from)
      BY <3>2 DEF Kept
    <3> QED BY <3>1, <3>3, <3>4 DEF Filing
  <2>3. Cardinality(S) <= 1 /\ IsFiniteSet(S)
    BY <2>2, AtMostOne
  <2>4. Cardinality(S) \in Nat /\ reloads \in Nat
    BY <2>3, FS_CardinalityType DEF Typed, ClientTypeOK
  <2> QED BY <2>3, <2>4
<1> QED BY <1>1, <1>2

\* Nothing is asked for or made twice: a guest's product and a delivery order are
\* repeated as the same command until the page is reloaded, whatever the cart or
\* the dialog shows by then; the waiter's lines are booked once while no call fails.
THEOREM NothingAskedTwice == Spec => []NothingTwice
<1>1. Typed /\ Once /\ Kept /\ Wished => NothingTwice
  <2> SUFFICES ASSUME Typed, Once, Kept, Wished, NEW w \in Wishes
               PROVE  /\ Cardinality(Asked(w)) <= 1 + reloads
                      /\ Cardinality({i \in Booked(w) : rows[i].from # Waiter}) <= 1 + reloads
                      /\ faults = 0 /\ reloads = 0 => Cardinality(Booked(w)) <= 1
    BY DEF NothingTwice
  <2>0. Owned /\ Spare /\ Alone /\ Smooth
    BY DEF Wished
  <2>1. Cardinality(Asked(w)) <= 1 + reloads
    BY <2>0, AskedOnce
  <2>2. Cardinality({i \in Booked(w) : rows[i].from # Waiter}) <= 1 + reloads
    BY <2>0, BookedOnce
  <2>3. ASSUME faults = 0, reloads = 0 PROVE Cardinality(Booked(w)) <= 1
    <3>1. CASE \A i \in Booked(w) : rows[i].from # Waiter
      <4>1. Cardinality(Booked(w)) <= 1 + reloads
        BY <2>0, <3>1, BookedOnce
      <4> QED BY <2>3, <4>1
    <3>2. CASE \E i \in Booked(w) : rows[i].from = Waiter
      <4>1. \A i, j \in Booked(w) : i = j
        <5> SUFFICES ASSUME NEW i \in Booked(w), NEW j \in Booked(w) PROVE i = j
          OBVIOUS
        <5>1. i \in Of(Waiter) /\ j \in Of(Waiter) /\ w \in rows[i].items /\ w \in rows[j].items
          BY <2>0, <3>2, OneBooks
        <5> QED BY <2>0, <2>3, <5>1 DEF Smooth
      <4> QED BY <4>1, AtMostOne
    <3> QED BY <3>1, <3>2
  <2> QED BY <2>1, <2>2, <2>3
<1> QED BY <1>1, AlwaysWished, PTL
=============================================================================
