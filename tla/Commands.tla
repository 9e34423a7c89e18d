------------------------------ MODULE Commands ------------------------------
(***************************************************************************)
(* What the ordering screens and the API promise together about commands    *)
(* that are repeated because their outcome is unknown.                      *)
(***************************************************************************)
EXTENDS OrderingClients

CommandsTypeOK == ApiTypeOK /\ ClientTypeOK

Of(d) == {i \in DOMAIN rows : rows[i].from = d}
Outstanding(d) == {m.key : m \in retained[d]}

\* A success that a screen announced stands for an executed command, and for
\* one only: the API answers "ok" under a key only when a row (or a guest
\* request) carries it, and no screen announces a key twice.
AnnouncedIsBooked ==
  \A k \in DeviceKeys :
    /\ announced[k] <= 1
    /\ announced[k] = 1 => Under({"order", "append", "payment"}, k) # {} \/ AsksUnder(k) # {}

\* The till books what it says, neither more nor less: every product and
\* payment on record from it was announced, is still retained for a repeat, or
\* was forgotten by a reload, and none is on record twice, whatever was lost on
\* the way, whichever check was on screen and whoever else worked on the table.
TillBooksWhatItSays ==
  \A d \in {Till, Cash} :
    /\ \A i, j \in Of(d) : rows[i].key = rows[j].key => i = j
    /\ reloads = 0 => \A i \in Of(d) : \/ announced[rows[i].key] = 1
                                       \/ rows[i].key \in Outstanding(d)

Asked(w) == {a \in DOMAIN asks : w \in asks[a].items}
Booked(w) == {i \in DOMAIN rows : w \in rows[i].items}

\* Nothing is asked for or made twice. What a guest put in the cart, or the desk
\* took on the phone, is repeated as the same command until the page is reloaded,
\* even when the cart or the dialog has changed in between; only for the waiter's
\* lines is a failed call enough.
NothingTwice ==
  \A w \in Wishes :
    /\ Cardinality(Asked(w)) <= 1 + reloads
    /\ Cardinality({i \in Booked(w) : rows[i].from # Waiter}) <= 1 + reloads
    /\ faults = 0 /\ reloads = 0 => Cardinality(Booked(w)) <= 1

\* A guest request becomes one order at most, and one that counts as approved
\* has its order, although a rejection may be committed over an approval.
ApprovedOnce ==
  \A a \in DOMAIN asks : LET made == {i \in DOMAIN rows : rows[i].key = RequestKey(a)} IN
    /\ Cardinality(made) <= 1
    /\ asks[a].status = "APPROVED" => \E i \in made : rows[i].check = asks[a].check

\* No repeat, and no stale amount on the payment dialog, collects more than
\* the check is worth.
NeverOverpaid == \A c \in DOMAIN checks : PaidOn(c) <= TotalOf(c)

\* docs/order-lifecycle.md:133: "One idempotency key executes one semantic command".
OneKeyOneCommand ==
  \A i, j \in DOMAIN rows : rows[i].key = rows[j].key => i = j
=============================================================================
