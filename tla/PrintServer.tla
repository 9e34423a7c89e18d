---------------------------- MODULE PrintServer ----------------------------
(***************************************************************************)
(* The central print queue of one branch: apps/api/app/api/printing.py and  *)
(* the tables of apps/api/app/models/printing.py.                           *)
(*                                                                          *)
(* A handler authenticates its caller first and then works on rows it has   *)
(* locked, so one action is the locked part of one handler; calls that were *)
(* authenticated just before their bridge was revoked are kept in serving.  *)
(* Time is abstracted: a lease is live or lapsed, and may lapse at any      *)
(* moment after it was given.                                               *)
(***************************************************************************)
EXTENDS PrintProtocol

CONSTANTS Devices,      \* logical printers of the branch
          NoBridge, NoDevice,   \* the NULLs of the two foreign keys
          MaxRetries,   \* bound: manual retries of one job
          MaxServing,   \* bound: calls of one bridge in service when it is revoked
          MaxAdmin      \* bound: routing and revocation changes in all

ASSUME NullAssumption   == NoBridge \notin Bridges /\ NoDevice \notin Devices
ASSUME BoundsAssumption == MaxRetries \in Nat /\ MaxServing \in Nat /\ MaxAdmin \in Nat

VARIABLES jobs,     \* the PrintJob rows
          acks,     \* the PrintJobAcknowledgement rows
          mapping,  \* the bridge each device is mapped to: one at most
          enabled,  \* the devices with is_active
          station,  \* the device assigned to the preparation station
          active,   \* the bridges with is_active
          revoking, \* bridges whose revocation is under way, not committed yet
          doomed,   \* devices whose mapping a revocation under way has deleted
          serving,  \* calls authenticated before a revocation and not served yet
          retries,  \* history: manual retries an operator granted, per job
          admin     \* bound: routing changes so far

routing    == <<mapping, enabled, station, active, revoking, doomed>>
serverVars == <<jobs, acks, routing, serving, retries, admin>>

InFlight  == {"CLAIMED", "SENT"}
Status    == {"ABSENT", "PENDING", "CLAIMED", "SENT", "PRINTED", "FAILED", "CANCELLED"}
Job       == [status: Status, manual: BOOLEAN, owner: Bridges \cup {NoBridge},
              attempt: Nat, lease: {"none", "live", "lapsed"},
              station: BOOLEAN, device: Devices \cup {NoDevice}]

Ack     == [bridge: Bridges, job: Jobs, attempt: Attempts, status: {"SENT", "PRINTED", "FAILED"}]

Absent == [status |-> "ABSENT", manual |-> FALSE, owner |-> NoBridge, attempt |-> 0,
           lease |-> "none", station |-> FALSE, device |-> NoDevice]

----------------------------------------------------------------------------
(* Queueing a job. *)

\* _station_printer_id: the active device assigned to the station.
StationPrinter == IF station \in enabled THEN station ELSE NoDevice

Queued(onStation, d) == [Absent EXCEPT !.status = "PENDING", !.station = onStation, !.device = d]

Enqueue(j, onStation, d) ==
  /\ jobs[j].status = "ABSENT"
  /\ \A i \in Jobs : i < j => jobs[i].status # "ABSENT"
  /\ jobs' = [jobs EXCEPT ![j] = Queued(onStation, d)]
  /\ UNCHANGED <<acks, routing, serving, retries, admin>>

\* A kitchen or bar ticket goes wherever its station prints now, which may be
\* nowhere (the branch uses the kitchen display).
EnqueueStationJob(j) == Enqueue(j, TRUE, StationPrinter)

\* A bill, a courier slip or a test page names an active device.
EnqueueDeviceJob(j, d) == d \in enabled /\ Enqueue(j, FALSE, d)

----------------------------------------------------------------------------
(* Authentication (_authenticate_bridge reads is_active without a lock).      *)

\* Mutant: the token hash is looked up without is_active.
AdmittedByToken(b) == b \in Bridges
Admitted(b) == b \in active \/ serving[b] > 0

Leave(b) == IF b \in active THEN UNCHANGED serving ELSE serving' = [serving EXCEPT ![b] = @ - 1]

----------------------------------------------------------------------------
(* Claiming.  Rows locked by another transaction are skipped (SKIP LOCKED). *)

Rerouted(r) ==
  IF r.status = "PENDING" /\ r.station /\ r.device = NoDevice /\ r.attempt = 0
  THEN [r EXCEPT !.device = StationPrinter] ELSE r

\* Mutants of the sweep: back to the queue by itself; no sweep at all.
QuarantinedToQueue(r) ==
  IF r.status \in InFlight /\ r.lease = "lapsed"
  THEN [r EXCEPT !.status = "PENDING", !.lease = "none"] ELSE r
NeverQuarantined(r) == r

Quarantined(r) ==
  IF r.status \in InFlight /\ r.lease = "lapsed" /\ ~r.manual
  THEN [r EXCEPT !.status = "FAILED", !.manual = TRUE, !.lease = "none"] ELSE r

\* The table after the two repairs every claim starts with.
Housekept(skipped) ==
  [j \in Jobs |-> IF j \in skipped THEN jobs[j] ELSE Quarantined(Rerouted(jobs[j]))]

Claimable(r, b) ==
  /\ r.device \in enabled
  /\ mapping[r.device] = b
  /\ r.status = "PENDING" \/ (r.status = "FAILED" /\ r.attempt < 5)
  /\ ~r.manual

\* Mutant: the attempt is counted when the job is locked and again when claimed.
ClaimedTwice(r, b) == [r EXCEPT !.status = "CLAIMED", !.owner = b, !.attempt = r.attempt + 2,
                                !.lease = "live"]

Claimed(r, b) == [r EXCEPT !.status = "CLAIMED", !.owner = b, !.attempt = r.attempt + 1,
                           !.lease = "live"]

Open(b, skipped) == {j \in Jobs \ skipped : Claimable(Housekept(skipped)[j], b)}

\* The repairs are committed before the claim looks for a job.
Repair(b, skipped) ==
  /\ Admitted(b)
  /\ jobs' = Housekept(skipped)
  /\ UNCHANGED <<acks, routing, serving, retries, admin>>

ClaimNothing(b, skipped) ==
  /\ Admitted(b)
  /\ Open(b, skipped) = {}
  /\ jobs' = Housekept(skipped)
  /\ Leave(b)
  /\ UNCHANGED <<acks, routing, retries, admin>>

Claim(b, skipped, j) ==
  LET kept == Housekept(skipped) IN
  /\ Admitted(b)
  /\ j \in Open(b, skipped)
  /\ \A i \in Open(b, skipped) : j <= i
  /\ kept[j].attempt < MaxAttempts
  /\ jobs' = [kept EXCEPT ![j] = Claimed(kept[j], b)]
  /\ Leave(b)
  /\ UNCHANGED <<acks, routing, retries, admin>>

LapseLease(j) ==
  /\ jobs[j].lease = "live"
  /\ jobs' = [jobs EXCEPT ![j].lease = "lapsed"]
  /\ UNCHANGED <<acks, routing, serving, retries, admin>>

----------------------------------------------------------------------------
(* A bridge reports the fate of a job. *)

\* Mutant: a failure may be reported of anything, even after PRINTED.
AllowedAnyFailure(status) ==
  CASE status = "CLAIMED" -> {"CLAIMED", "SENT", "PRINTED", "FAILED"}
    [] status = "SENT"    -> {"SENT", "PRINTED", "FAILED"}
    [] OTHER              -> {status, "FAILED", "PRINTED"}

\* The transitions a report may make; repeating the present status is allowed.
Allowed(status) ==
  CASE status = "CLAIMED" -> {"CLAIMED", "SENT", "PRINTED", "FAILED"}
    [] status = "SENT"    -> {"SENT", "PRINTED", "FAILED"}
    [] status = "FAILED"  -> {"FAILED", "CLAIMED", "CANCELLED", "PRINTED"}
    [] OTHER              -> {status}

AckOf(b, u) == [bridge |-> b, job |-> u.job, attempt |-> u.attempt, status |-> u.status]

Replayed(b, u) == AckOf(b, u) \in acks

\* Mutants of the checks: attempts not compared; the attempt number taken as proof
\* of ownership.
AcceptedAnyAttempt(b, u) ==
  Replayed(b, u) \/ (jobs[u.job].owner = b /\ u.status \in Allowed(jobs[u.job].status))
AcceptedByAttempt(b, u) == jobs[u.job].attempt = u.attempt

\* The report is answered 200.  A replay only compares attempts; a first report
\* must come from the owner of the present attempt and make a legal transition.
Accepted(b, u) ==
  /\ jobs[u.job].attempt = u.attempt
  /\ \/ Replayed(b, u)
     \/ jobs[u.job].owner = b /\ u.status \in Allowed(jobs[u.job].status)

Reported(r, u) ==
  CASE u.status = "SENT"    -> [r EXCEPT !.status = "SENT", !.manual = FALSE, !.lease = "live"]
    [] u.status = "PRINTED" -> [r EXCEPT !.status = "PRINTED", !.manual = FALSE, !.lease = "none"]
    [] u.status = "FAILED"  -> [r EXCEPT !.status = "FAILED", !.manual = u.manual, !.lease = "none"]

UpdateJob(b, u) ==
  /\ Admitted(b)
  /\ Leave(b)
  /\ IF Accepted(b, u) /\ ~Replayed(b, u)
     THEN /\ jobs' = [jobs EXCEPT ![u.job] = Reported(@, u)]
          /\ acks' = acks \cup {AckOf(b, u)}
     ELSE UNCHANGED <<jobs, acks>>
  /\ UNCHANGED <<routing, retries, admin>>

----------------------------------------------------------------------------
(* The people: a manager retries a job, or changes where jobs go. *)

\* The attempt number is kept: it identifies acknowledgements.
Requeued(r) == [r EXCEPT !.status = "PENDING", !.manual = FALSE, !.owner = NoBridge,
                         !.lease = "none"]

ManualRetry(j) ==
  /\ jobs[j].status = "FAILED" /\ jobs[j].manual
  /\ retries[j] < MaxRetries
  /\ jobs' = [jobs EXCEPT ![j] = Requeued(jobs[j])]
  /\ retries' = [retries EXCEPT ![j] = @ + 1]
  /\ UNCHANGED <<acks, routing, serving, admin>>

AdminStep == admin < MaxAdmin /\ admin' = admin + 1 /\ UNCHANGED <<jobs, acks, retries>>

\* Takes the device over from whichever bridge had it; a mapping row that a
\* revocation has deleted is locked until that commits.
MapPrinter(b, d) ==
  /\ b \in active
  /\ d \notin doomed
  /\ mapping' = [mapping EXCEPT ![d] = b]
  /\ AdminStep /\ UNCHANGED <<enabled, station, active, revoking, doomed, serving>>

UnmapPrinter(d) ==
  /\ mapping[d] # NoBridge
  /\ d \notin doomed
  /\ mapping' = [mapping EXCEPT ![d] = NoBridge]
  /\ AdminStep /\ UNCHANGED <<enabled, station, active, revoking, doomed, serving>>

\* revoke_bridge deletes the mappings at once, but its session does not flush
\* is_active = False before the commit (db.py, autoflush=False): until then the
\* bridge is active for everybody else.
BeginRevoke(b) ==
  /\ b \notin revoking
  /\ revoking' = revoking \cup {b}
  /\ doomed' = doomed \cup {d \in Devices : mapping[d] = b}
  /\ AdminStep /\ UNCHANGED <<mapping, enabled, station, active, serving>>

Undone(b) == {d \in doomed : mapping[d] = b}

FinishRevoke(b) ==
  /\ b \in revoking
  /\ revoking' = revoking \ {b}
  /\ active' = active \ {b}
  /\ doomed' = doomed \ Undone(b)
  /\ mapping' = [d \in Devices |-> IF d \in Undone(b) THEN NoBridge ELSE mapping[d]]
  /\ IF b \in active THEN \E n \in 0..MaxServing : serving' = [serving EXCEPT ![b] = n]
                     ELSE UNCHANGED serving
  /\ UNCHANGED <<jobs, acks, enabled, station, retries, admin>>

UpdateDevice(d) ==
  /\ \/ enabled' \in {enabled \cup {d}, enabled \ {d}} /\ UNCHANGED station
     \/ station' \in {d, NoDevice} /\ UNCHANGED enabled
  /\ AdminStep /\ UNCHANGED <<mapping, active, revoking, doomed, serving>>

----------------------------------------------------------------------------

\* Any enrolment and routing a branch may have come to before its first job.
ServerInit ==
  /\ jobs = [j \in Jobs |-> Absent]
  /\ acks = {}
  /\ mapping \in [Devices -> Bridges \cup {NoBridge}]
  /\ enabled \in SUBSET Devices
  /\ station \in Devices \cup {NoDevice}
  /\ active = Bridges
  /\ revoking = {}
  /\ doomed = {}
  /\ serving = [b \in Bridges |-> 0]
  /\ retries = [j \in Jobs |-> 0]
  /\ admin = 0

Queueing == \E j \in Jobs : EnqueueStationJob(j) \/ \E d \in Devices : EnqueueDeviceJob(j, d)
Clock    == \E j \in Jobs : LapseLease(j)
Operator == \E j \in Jobs : ManualRetry(j)
Manager  == \/ \E d \in Devices : UnmapPrinter(d) \/ UpdateDevice(d)
            \/ \E b \in Bridges : \/ BeginRevoke(b) \/ FinishRevoke(b)
                               \/ \E d \in Devices : MapPrinter(b, d)

\* The server on its own answers bridges that may send any report at any time.
Requests ==
  \E b \in Bridges :
    \/ \E skipped \in SUBSET Jobs :
         \/ Repair(b, skipped) \/ ClaimNothing(b, skipped)
         \/ \E j \in Jobs : Claim(b, skipped, j)
    \/ \E u \in Updates : UpdateJob(b, u)

ServerNext == Queueing \/ Clock \/ Operator \/ Manager \/ Requests

ServerSpec == ServerInit /\ [][ServerNext]_serverVars

----------------------------------------------------------------------------
(* Properties. *)

\* The types of the server's tables.
ServerTypeOK ==
  /\ jobs \in [Jobs -> Job]
  /\ \A j \in Jobs : jobs[j].attempt <= MaxAttempts
  /\ acks \subseteq Ack
  /\ mapping \in [Devices -> Bridges \cup {NoBridge}]
  /\ enabled \subseteq Devices
  /\ station \in Devices \cup {NoDevice}
  /\ active \subseteq Bridges
  /\ revoking \subseteq Bridges
  /\ doomed \subseteq Devices
  /\ serving \in [Bridges -> Nat]
  /\ retries \in [Jobs -> Nat]
  /\ admin \in Nat

\* A job is handed to a bridge once for its creation and once more for each
\* retry an operator granted; a job that waits holds one unused permission.
\* Lapsed leases, late reports and remapped printers never add a permission.
ClaimsAuthorised ==
  \A j \in Jobs : jobs[j].attempt + (IF jobs[j].status = "PENDING" THEN 1 ELSE 0)
                    <= 1 + retries[j]

\* Every failure waits for an operator, and only failures do.
FailureIsQuarantined == \A j \in Jobs : jobs[j].manual <=> jobs[j].status = "FAILED"

\* A job is in flight exactly while it has a lease the sweep can find, so no
\* job is left CLAIMED or SENT without anything that ever ends it.
InFlightIsLeased == \A j \in Jobs : jobs[j].status \in InFlight <=> jobs[j].lease # "none"

\* A job is PRINTED exactly when the owner of its present attempt said so: no
\* confirmed print is forgotten, and no stale report makes one up.
PrintedIsAcknowledged ==
  \A j \in Jobs :
    jobs[j].status = "PRINTED" <=>
      \E k \in acks : k.job = j /\ k.status = "PRINTED" /\ k.attempt = jobs[j].attempt

\* Reports never run ahead of claims.
AcksFollowClaims == \A k \in acks : k.attempt <= jobs[k.job].attempt

\* A printed job never returns to the queue.
PrintedIsFinal ==
  [][\A j \in Jobs : jobs[j].status = "PRINTED" => jobs'[j].status = "PRINTED"]_serverVars

\* A waiting job leaves the queue only by a claim under a fresh attempt, so a
\* report about an earlier attempt cannot undo an operator's retry.
OnlyClaimEndsWaiting ==
  [][\A j \in Jobs : jobs[j].status = "PENDING" /\ jobs'[j].status # "PENDING" =>
       jobs'[j].status = "CLAIMED" /\ jobs'[j].attempt = jobs[j].attempt + 1]_serverVars

\* The step hands a job to b or stores a report of b.
ServesBridge(b) ==
  \/ \E j \in Jobs : jobs'[j].owner = b /\ jobs'[j].attempt # jobs[j].attempt
  \/ \E k \in acks' \ acks : k.bridge = b

\* Revoking a bridge cuts it off: each job it still gains and each report of its
\* own that is still stored use up a call that was authenticated before.
RevokedIsCutOff ==
  [][\A b \in Bridges \ active :
       ServesBridge(b) => serving[b] > 0 /\ serving'[b] = serving[b] - 1]_serverVars
=============================================================================
