--------------------------- MODULE PrintPipeline ---------------------------
(***************************************************************************)
(* The print queue and the agents joined by a network that delays, loses    *)
(* and gives up on calls (PrintBridgeApiClient.request aborts after          *)
(* requestTimeoutMs, while the queue may still serve what was sent).  The   *)
(* queue serves each call in one transaction; an agent has one outstanding  *)
(* call, and calls it has given up on may arrive later, in any order.       *)
(***************************************************************************)
EXTENDS PrintServer, PrintBridge

VARIABLES lateClaims,   \* agents with an abandoned claim still on its way
          lateReports   \* abandoned reports still on their way

networkVars == <<lateClaims, lateReports>>
vars == <<serverVars, bridgeVars, networkVars>>

----------------------------------------------------------------------------
(* The queue serves a call. *)

\* The reply to the call b is waiting for; cur receives a granted job.
Answer(b, r) ==
  /\ reply' = [reply EXCEPT ![b] = r]
  /\ UNCHANGED <<pc, todo, mem, disk, paper, faults>>

ServeClaim(b, skipped) ==
  /\ pc[b] = "claim" /\ reply[b] = "none"
  /\ \/ b \notin active /\ Answer(b, "error") /\ UNCHANGED <<serverVars, cur>>
     \/ ClaimNothing(b, skipped) /\ Answer(b, "nothing") /\ UNCHANGED cur
     \/ \E j \in Jobs :
          /\ Claim(b, skipped, j)
          /\ Answer(b, "granted")
          /\ cur' = [cur EXCEPT ![b] = [job |-> j, attempt |-> jobs'[j].attempt]]
  /\ UNCHANGED networkVars

\* The repairs of a claim that is being served.
RepairForClaim(b) ==
  /\ b \in lateClaims \/ (pc[b] = "claim" /\ reply[b] = "none")
  /\ \E skipped \in SUBSET Jobs : Repair(b, skipped)
  /\ UNCHANGED <<bridgeVars, networkVars>>

ServeReport(b) ==
  /\ Awaiting(b) /\ pc[b] # "claim"
  /\ \/ b \notin active /\ Answer(b, "error") /\ UNCHANGED serverVars
     \/ /\ UpdateJob(b, Outstanding(b))
        /\ Answer(b, IF Accepted(b, Outstanding(b)) THEN "ok" ELSE "error")
  /\ UNCHANGED <<cur, networkVars>>

\* Nobody is listening any more: a late claim still takes a job.
ServeLateClaim(b) ==
  /\ b \in lateClaims
  /\ lateClaims' = lateClaims \ {b}
  /\ \/ b \notin active /\ UNCHANGED serverVars
     \/ \E skipped \in SUBSET Jobs :
          ClaimNothing(b, skipped) \/ \E j \in Jobs : Claim(b, skipped, j)
  /\ UNCHANGED <<bridgeVars, lateReports>>

ServeLateReport(l) ==
  /\ l \in lateReports
  /\ lateReports' = lateReports \ {l}
  /\ \/ l.bridge \notin active /\ UNCHANGED serverVars
     \/ UpdateJob(l.bridge, l.report)
  /\ UNCHANGED <<bridgeVars, lateClaims>>

----------------------------------------------------------------------------
(* The network and the agents' own failures. *)

\* The call leaves the agent's sight: it is lost, or arrives later.
Abandon(b) ==
  IF ~Awaiting(b) THEN UNCHANGED networkVars
  ELSE \/ UNCHANGED networkVars
       \/ pc[b] = "claim" /\ lateClaims' = lateClaims \cup {b} /\ UNCHANGED lateReports
       \/ /\ pc[b] # "claim"
          /\ lateReports' = lateReports \cup {[bridge |-> b, report |-> Outstanding(b)]}
          /\ UNCHANGED lateClaims

\* The agent times out, before the queue served the call or after.
Timeout(b) ==
  /\ pc[b] \in Calling /\ reply[b] # "error"
  /\ faults < MaxFaults
  /\ faults' = faults + 1
  /\ Abandon(b)
  /\ reply' = [reply EXCEPT ![b] = "error"]
  /\ cur' = IF pc[b] = "claim" THEN [cur EXCEPT ![b] = NoGrant] ELSE cur
  /\ UNCHANGED <<pc, todo, mem, disk, paper, serverVars>>

AgentDies(b) == Crash(b) /\ Abandon(b) /\ UNCHANGED serverVars

----------------------------------------------------------------------------

Init == ServerInit /\ BridgeInit /\ lateClaims = {} /\ lateReports = {}

Agent(b) == (Work(b) \/ Restart(b)) /\ UNCHANGED <<serverVars, networkVars>>

Server == /\ Queueing \/ Clock \/ Operator \/ Manager
          /\ UNCHANGED <<bridgeVars, networkVars>>

Next ==
  \/ Server
  \/ \E b \in Bridges :
       \/ Agent(b) \/ AgentDies(b) \/ Timeout(b)
       \/ RepairForClaim(b) \/ ServeReport(b) \/ ServeLateClaim(b)
       \/ \E skipped \in SUBSET Jobs : ServeClaim(b, skipped)
  \/ \E l \in lateReports : ServeLateReport(l)

Spec == Init /\ [][Next]_vars

\* Agents that run keep looping (run() never returns by itself), a crashed one
\* is started again, a call that is not lost is served, and time passes.  Row
\* locks are short: claims do not find rows locked every single time.  Nothing
\* is assumed of operators, of managers or of those who queue jobs.
Fairness ==
  /\ \A b \in Bridges :
       WF_vars(Agent(b)) /\ WF_vars(ServeReport(b)) /\ SF_vars(ServeClaim(b, {}))
  /\ \A j \in Jobs : WF_vars(LapseLease(j) /\ UNCHANGED <<bridgeVars, networkVars>>)

FairSpec == Spec /\ Fairness

----------------------------------------------------------------------------
(* Properties. *)

\* The types of the network.
NetworkTypeOK ==
  /\ lateClaims \subseteq Bridges
  /\ lateReports \subseteq [bridge: Bridges, report: Updates]

TypeOK == ServerTypeOK /\ BridgeTypeOK /\ NetworkTypeOK

\* No unauthorised duplicate: every ticket that leaves a printer used up a claim
\* of its own, and there are no more claims than permissions, one for queueing
\* the job and one per manual retry.  This is what leases, attempt numbers,
\* quarantine and the journal are for.
NoUnauthorisedTicket ==
  \A j \in Jobs, a \in Attempts :
    paper[j][a] > 0 => paper[j][a] = 1 /\ a <= jobs[j].attempt /\ a <= 1 + retries[j]

\* An agent forgets a journal entry only after the queue has stored its report:
\* an acknowledged entry has an acknowledgement of that or a later attempt.
AckedMeansStored ==
  \A b \in Bridges, j \in Jobs :
    \A e \in {mem[b][j], disk[b][j]} :
      e.state # "NONE" /\ e.acked =>
        \E k \in acks : k.bridge = b /\ k.job = j /\ k.attempt >= e.attempt

\* No ticket is forgotten: the queue has stored a report of that or a later
\* attempt, or the disk of some agent still holds one to be reported, through
\* every crash, failed write and lost call.
TicketIsOnRecord ==
  \A j \in Jobs, a \in Attempts : paper[j][a] > 0 =>
    \/ \E k \in acks : k.job = j /\ k.attempt >= a
    \/ \E b \in Bridges : ~disk[b][j].acked /\ disk[b][j].attempt >= a

\* The pipeline keeps its promise: queueing a job and each manual retry are
\* permissions, physical tickets are tickets, PRINTED rows are closed jobs.
Promise == INSTANCE PrintPromise WITH
             permitted <- [j \in Jobs |-> IF jobs[j].status = "ABSENT" THEN 0 ELSE 1 + retries[j]],
             tickets   <- paper,
             closed    <- {j \in Jobs : jobs[j].status = "PRINTED"}

KeepsPromise == Promise!PromiseSpec

\* A job in flight is resolved as long as some agent may still call: it is
\* printed or handed to an operator, even when its own agent is gone.
InFlightEnds ==
  \A j \in Jobs :
    jobs[j].status \in InFlight ~> jobs[j].status \notin InFlight \/ active = {}

\* A waiting job that an active agent serves does not wait for ever: neither
\* quarantined jobs nor crashed agents nor lost claims block the queue.
Deliverable(j) ==
  jobs[j].status = "PENDING" /\ \E b \in active : Claimable(Rerouted(jobs[j]), b)

QueueMoves == \A j \in Jobs : Deliverable(j) ~> ~Deliverable(j)

\* The queue takes reports of this journal entry: the agent still owns the
\* attempt, and nothing more final was reported.
Reportable(b, j) ==
  /\ b \in active
  /\ jobs[j].owner = b /\ jobs[j].attempt = mem[b][j].attempt
  /\ jobs[j].status # "PRINTED" \/ mem[b][j].state = "PRINTED"

\* An unconfirmed entry is confirmed while the queue would take its report.
ReportsGetThrough ==
  \A b \in Bridges, j \in Jobs :
    j \in Unacked(mem[b]) /\ Reportable(b, j) ~>
      ~(j \in Unacked(mem[b]) /\ Reportable(b, j))
=============================================================================
