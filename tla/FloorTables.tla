---------------------------- MODULE FloorTables -----------------------------
(***************************************************************************)
(* Closing a table session: close_table_session in                          *)
(* apps/api/app/api/tables.py. The handler locks the table and the session; *)
(* it reads the session's checks without a lock and writes at its commit.   *)
(* The manager's direct changes of a table (update_table, delete_table) are *)
(* left out: they may put a table into any state.                           *)
(***************************************************************************)
EXTENDS FloorData

\* Checks without anything to pay that may be settled by closing the table.
ZeroTotal(o) == /\ orders[o].status \in {"SERVED", "BILL_REQUESTED", "PAYMENT_PENDING"}
                /\ orders[o].total = 0 /\ Paid(o) = 0

\* The checks the handler reads are all settled, or will be by it.
Settled(o) == \/ ZeroTotal(o)
              \/ orders[o].status = "PAID" /\ Paid(o) >= orders[o].total
              \/ orders[o].status \in DeadStatus /\ Paid(o) = 0

BeginClose(t, s) ==
  /\ closeTx[t] = NoTx
  /\ OpenSessions(t) = {s}
  /\ \A o \in ChecksOn(s) : Settled(o)
  /\ closeTx' = [closeTx EXCEPT ![t] = [session |-> s,
                                        zero |-> {o \in ChecksOn(s) : ZeroTotal(o)}]]
  /\ UNCHANGED <<rows, kitchenTx, endings, edits, moves, retries>>

CommitClose(t) ==
  LET tx == closeTx[t] IN
  /\ tx # NoTx /\ \A o \in tx.zero : Unheld(o)
  /\ orders' = [o \in OrderIds |-> IF o \in tx.zero THEN [orders[o] EXCEPT !.status = "PAID"]
                                                    ELSE orders[o]]
  /\ sessions' = [sessions EXCEPT ![tx.session].status = "CLOSED"]
  /\ tables' = Shown(t, "AVAILABLE")
  /\ closeTx' = [closeTx EXCEPT ![t] = NoTx]
  /\ UNCHANGED <<items, tickets, payments, approvals, kitchenTx, endings, edits, moves, retries>>

\* The closing of a session that is closed already, repeated.
RepeatClose(t, s) ==
  /\ closeTx[t] = NoTx
  /\ sessions[s] = [table |-> t, status |-> "CLOSED"]
  /\ tables[t] = "CLEANING"
  /\ retries < MaxRetries
  /\ retries' = retries + 1
  /\ tables' = Shown(t, "AVAILABLE")
  /\ UNCHANGED <<orders, items, tickets, payments, approvals, sessions, kitchenTx, closeTx, endings, edits, moves>>
=============================================================================
