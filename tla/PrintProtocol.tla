--------------------------- MODULE PrintProtocol ---------------------------
(***************************************************************************)
(* What the print queue and the Print Bridge agents say to each other       *)
(* (apps/print-bridge/src/protocol.ts and api-client.ts).                   *)
(***************************************************************************)
EXTENDS Naturals

CONSTANTS Jobs,         \* print jobs, numbered in the order of created_at
          Bridges,      \* enrolled Print Bridge identities of the branch
          MaxAttempts   \* bound: claims of one job

ASSUME JobsAssumption    == Jobs \subseteq Nat
ASSUME AttemptAssumption == MaxAttempts \in Nat

Attempts == 1..MaxAttempts

\* A claim is answered with a job and the number of this attempt at it.
Grant == [job: Jobs, attempt: Attempts]

\* The agent's reports: its failures always ask for a manual retry, and each
\* status has one idempotency key per bridge, job and attempt, so a report
\* stands for its key too. The API would also take a failure that does not ask
\* for one, and hand the job out again without an operator (api/printing.py
\* 1911-1913, 1720-1724); the agent never sends it (bridge.ts, api-client.ts).
Updates == {u \in [job: Jobs, attempt: Attempts, status: {"SENT", "PRINTED", "FAILED"},
                   manual: BOOLEAN] : u.manual = (u.status = "FAILED")}

Report(g, status) == [job |-> g.job, attempt |-> g.attempt, status |-> status,
                      manual |-> (status = "FAILED")]
=============================================================================
