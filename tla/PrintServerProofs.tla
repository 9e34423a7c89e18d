------------------------- MODULE PrintServerProofs -------------------------
(***************************************************************************)
(* Proofs about the print queue against agents that may report anything:    *)
(* its invariants are inductive together, and none depends on the bounds.   *)
(***************************************************************************)
EXTENDS PrintServer, TLAPS

\* No attempt was made at a job that is not queued yet.
AbsentIsUntouched == \A j \in Jobs : jobs[j].status = "ABSENT" => jobs[j].attempt = 0

\* The inductive invariant.  ClaimsAuthorised needs FailureIsQuarantined (or a
\* failed job could be claimed without a permission) and PrintedIsAcknowledged
\* needs AcksFollowClaims (or a claim could run into an old acknowledgement).
ServerInv ==
  /\ ServerTypeOK
  /\ AbsentIsUntouched
  /\ ClaimsAuthorised
  /\ FailureIsQuarantined
  /\ InFlightIsLeased
  /\ PrintedIsAcknowledged
  /\ AcksFollowClaims

USE DEF InFlight, routing

\* The initial tables satisfy the invariant.
LEMMA ServerInvInit == ServerInit => ServerInv
  BY BoundsAssumption, AttemptAssumption, SMT
  DEF ServerInit, ServerInv, ServerTypeOK, ClaimsAuthorised, FailureIsQuarantined, InFlightIsLeased,
      PrintedIsAcknowledged, AcksFollowClaims, AbsentIsUntouched,
      Absent, Job, Status

\* What the two repairs of a claim do to a row: they keep its attempt and its
\* type, never make it claimable without a permission, and only end a flight.
LEMMA HousekeptRow ==
  ASSUME ServerTypeOK, NEW skipped \in SUBSET Jobs, NEW j \in Jobs
  PROVE  LET r == jobs[j]
             k == Housekept(skipped)[j]
         IN  /\ k \in Job
             /\ k.attempt = r.attempt
             /\ k.owner = r.owner
             /\ \/ k.status = r.status /\ k.manual = r.manual /\ k.lease = r.lease
                \/ /\ r.status \in InFlight /\ r.lease = "lapsed"
                   /\ k.status = "FAILED" /\ k.manual /\ k.lease = "none"
  <1>1. StationPrinter \in Devices \cup {NoDevice}
    BY DEF ServerTypeOK, StationPrinter
  <1>2. jobs[j] \in Job
    BY DEF ServerTypeOK
  <1> DEFINE q == Rerouted(jobs[j])
  <1>3. /\ q \in Job /\ q.attempt = jobs[j].attempt /\ q.owner = jobs[j].owner
        /\ q.status = jobs[j].status /\ q.manual = jobs[j].manual /\ q.lease = jobs[j].lease
    <2>1. CASE q = jobs[j]
      BY <1>2, <2>1
    <2>2. CASE q = [jobs[j] EXCEPT !.device = StationPrinter]
      BY <1>1, <1>2, <2>2 DEF Job
    <2>3. QED
      BY <2>1, <2>2 DEF Rerouted
  <1> HIDE DEF q
  <1>4. /\ Quarantined(q) \in Job
        /\ Quarantined(q).attempt = q.attempt /\ Quarantined(q).owner = q.owner
        /\ \/ Quarantined(q) = q
           \/ /\ q.status \in InFlight /\ q.lease = "lapsed"
              /\ Quarantined(q).status = "FAILED" /\ Quarantined(q).manual
              /\ Quarantined(q).lease = "none"
    BY <1>3 DEF Quarantined, Job, Status
  <1>5. Housekept(skipped)[j] \in {jobs[j], Quarantined(q)}
    BY DEF Housekept, q
  <1>6. QED
    BY <1>2, <1>3, <1>4, <1>5

\* What a claim does to a row.
LEMMA ClaimedRow ==
  ASSUME NEW r \in Job, NEW b \in Bridges
  PROVE  /\ Claimed(r, b) \in Job
         /\ Claimed(r, b).status = "CLAIMED"
         /\ Claimed(r, b).manual = r.manual
         /\ Claimed(r, b).owner = b
         /\ Claimed(r, b).attempt = r.attempt + 1
         /\ Claimed(r, b).lease = "live"
  <1>1. r.attempt + 1 \in Nat
    BY DEF Job
  <1>2. QED
    BY <1>1 DEF Claimed, Job, Status

\* What a manual retry does to a row.
LEMMA RequeuedRow ==
  ASSUME NEW r \in Job
  PROVE  /\ Requeued(r) \in Job
         /\ Requeued(r).status = "PENDING"
         /\ ~Requeued(r).manual
         /\ Requeued(r).attempt = r.attempt
         /\ Requeued(r).lease = "none"
  BY DEF Requeued, Job, Status

\* What an accepted report does to a row: the reported status decides the rest.
LEMMA ReportedRow ==
  ASSUME NEW r \in Job, NEW u \in Updates
  PROVE  /\ Reported(r, u) \in Job
         /\ Reported(r, u).status = u.status
         /\ Reported(r, u).manual <=> (u.status = "FAILED")
         /\ Reported(r, u).attempt = r.attempt
         /\ Reported(r, u).owner = r.owner
         /\ Reported(r, u).lease = IF u.status = "SENT" THEN "live" ELSE "none"
  <1>1. u.status \in {"SENT", "PRINTED", "FAILED"} /\ u.manual = (u.status = "FAILED")
    BY DEF Updates
  <1>2. CASE u.status = "SENT"
    BY <1>1, <1>2 DEF Reported, Job, Status
  <1>3. CASE u.status = "PRINTED"
    BY <1>1, <1>3 DEF Reported, Job, Status
  <1>4. CASE u.status = "FAILED"
    BY <1>1, <1>4 DEF Reported, Job, Status
  <1>5. QED
    BY <1>1, <1>2, <1>3, <1>4

\* Queueing a job keeps the invariant: the new row is unattempted.
LEMMA QueueingKeepsInv == ServerInv /\ Queueing => ServerInv'
  <1> SUFFICES ASSUME ServerInv, NEW j \in Jobs, NEW on \in BOOLEAN,
                      NEW d \in Devices \cup {NoDevice}, Enqueue(j, on, d)
               PROVE  ServerInv'
    BY DEF Queueing, EnqueueStationJob, EnqueueDeviceJob, StationPrinter, ServerInv, ServerTypeOK
  <1>1. /\ jobs' = [jobs EXCEPT ![j] = Queued(on, d)] /\ jobs[j].status = "ABSENT"
        /\ UNCHANGED <<acks, routing, serving, retries, admin>>
    BY DEF Enqueue
  <1>2. /\ Queued(on, d) \in Job /\ Queued(on, d).status = "PENDING"
        /\ Queued(on, d).attempt = 0 /\ ~Queued(on, d).manual /\ Queued(on, d).lease = "none"
    BY DEF Queued, Absent, Job, Status
  <1>3. jobs \in [Jobs -> Job] /\ retries \in [Jobs -> Nat]
    BY DEF ServerInv, ServerTypeOK
  <1> HIDE DEF Job
  <1>4. jobs'[j] = Queued(on, d) /\ \A i \in Jobs \ {j} : jobs'[i] = jobs[i]
    BY <1>1, <1>3
  <1>5. ServerTypeOK'
    BY <1>1, <1>2, <1>3, <1>4, AttemptAssumption DEF ServerInv, ServerTypeOK
  <1>6. (ClaimsAuthorised /\ FailureIsQuarantined /\ InFlightIsLeased /\ AbsentIsUntouched)'
    BY <1>1, <1>2, <1>3, <1>4 DEF ServerInv, ClaimsAuthorised, FailureIsQuarantined,
                                  InFlightIsLeased, AbsentIsUntouched
  <1>7. \A k \in acks : k.job \in Jobs /\ k.attempt \in Nat \ {0}
    BY AttemptAssumption DEF ServerInv, ServerTypeOK, Ack, Attempts
  <1>8. \A k \in acks : k.job # j
    BY <1>1, <1>7 DEF ServerInv, AcksFollowClaims, AbsentIsUntouched
  <1>9. (PrintedIsAcknowledged /\ AcksFollowClaims)'
    BY <1>1, <1>2, <1>4, <1>7, <1>8 DEF ServerInv, PrintedIsAcknowledged, AcksFollowClaims
  <1>10. QED
    BY <1>1, <1>5, <1>6, <1>9 DEF ServerInv

\* A served call leaves the service, and no more calls leave than were in it.
LEMMA LeavingIsTyped ==
  ASSUME ServerTypeOK, NEW b \in Bridges, Admitted(b), Leave(b)
  PROVE  serving' \in [Bridges -> Nat]
  <1>1. serving \in [Bridges -> Nat]
    BY DEF ServerTypeOK
  <1>2. CASE b \in active
    BY <1>1, <1>2 DEF Leave
  <1>3. CASE b \notin active
    <2>1. serving[b] \in Nat /\ serving[b] > 0
      BY <1>1, <1>3 DEF Admitted
    <2>2. serving[b] - 1 \in Nat
      BY <2>1
    <2>3. QED
      BY <1>1, <1>3, <2>2 DEF Leave
  <1>4. QED
    BY <1>2, <1>3

\* The repairs of a claim keep the invariant: they only quarantine.
LEMMA HousekeepingKeepsInv ==
  ASSUME ServerInv, NEW skipped \in SUBSET Jobs, jobs' = Housekept(skipped),
         serving' \in [Bridges -> Nat], UNCHANGED <<acks, routing, retries, admin>>
  PROVE  ServerInv'
  <1>1. ASSUME NEW j \in Jobs
        PROVE  /\ jobs'[j] \in Job
               /\ jobs'[j].attempt = jobs[j].attempt
               /\ \/ /\ jobs'[j].status = jobs[j].status /\ jobs'[j].manual = jobs[j].manual
                     /\ jobs'[j].lease = jobs[j].lease
                  \/ /\ jobs[j].status \in InFlight
                     /\ jobs'[j].status = "FAILED" /\ jobs'[j].manual /\ jobs'[j].lease = "none"
    BY HousekeptRow DEF ServerInv
  <1>2. ServerTypeOK'
    <2>1. jobs' \in [Jobs -> Job]
      BY <1>1 DEF Housekept
    <2>2. QED
      BY <1>1, <2>1 DEF ServerInv, ServerTypeOK
  <1>3. (ClaimsAuthorised /\ FailureIsQuarantined /\ InFlightIsLeased /\ AbsentIsUntouched)'
    BY <1>1 DEF ServerInv, ClaimsAuthorised, FailureIsQuarantined, InFlightIsLeased,
                AbsentIsUntouched
  <1>4. \A k \in acks : k.job \in Jobs
    BY DEF ServerInv, ServerTypeOK, Ack
  <1>5. (PrintedIsAcknowledged /\ AcksFollowClaims)'
    BY <1>1, <1>4 DEF ServerInv, PrintedIsAcknowledged, AcksFollowClaims
  <1>6. QED
    BY <1>2, <1>3, <1>5 DEF ServerInv

\* A claim keeps the invariant: it spends the permission of a waiting job,
\* because a quarantined failure is never claimable.
LEMMA ClaimKeepsInv ==
  ASSUME ServerInv, NEW b \in Bridges, NEW skipped \in SUBSET Jobs, NEW j \in Jobs,
         Claim(b, skipped, j)
  PROVE  /\ ServerInv'
         /\ jobs[j].status = "PENDING"
         /\ jobs'[j].status = "CLAIMED"
         /\ jobs'[j].attempt = jobs[j].attempt + 1
         /\ jobs'[j].attempt \in Attempts
         /\ jobs'[j].owner = b
         /\ \A i \in Jobs \ {j} : jobs'[i].attempt = jobs[i].attempt /\ jobs'[i].owner = jobs[i].owner
         /\ \A i \in Jobs : /\ jobs[i].status = "PRINTED" <=> jobs'[i].status = "PRINTED"
                            /\ i # j /\ jobs[i].status = "PENDING" => jobs'[i].status = "PENDING"
         /\ UNCHANGED <<acks, retries>>
  <1> DEFINE kept == Housekept(skipped)
  <1>1. ASSUME NEW i \in Jobs
        PROVE  /\ kept[i] \in Job
               /\ kept[i].attempt = jobs[i].attempt /\ kept[i].owner = jobs[i].owner
               /\ \/ /\ kept[i].status = jobs[i].status /\ kept[i].manual = jobs[i].manual
                     /\ kept[i].lease = jobs[i].lease
                  \/ /\ jobs[i].status \in InFlight
                     /\ kept[i].status = "FAILED" /\ kept[i].manual /\ kept[i].lease = "none"
    BY HousekeptRow DEF ServerInv
  <1>2. kept \in [Jobs -> Job]
    BY <1>1 DEF Housekept
  <1>3. /\ jobs' = [kept EXCEPT ![j] = Claimed(kept[j], b)]
        /\ kept[j].attempt < MaxAttempts
        /\ Claimable(kept[j], b) /\ Admitted(b) /\ Leave(b)
        /\ UNCHANGED <<acks, routing, retries, admin>>
    BY DEF Claim, Open
  <1> HIDE DEF kept
  <1>4. kept[j].status = "PENDING" /\ ~kept[j].manual
    BY <1>1, <1>3 DEF Claimable, ServerInv, FailureIsQuarantined
  <1>5. /\ jobs'[j] = Claimed(kept[j], b)
        /\ \A i \in Jobs \ {j} : jobs'[i] = kept[i]
        /\ jobs[j].status = "PENDING"
    BY <1>1, <1>2, <1>3, <1>4
  <1>6. /\ jobs'[j].status = "CLAIMED" /\ ~jobs'[j].manual /\ jobs'[j].lease = "live"
        /\ jobs'[j].attempt = jobs[j].attempt + 1 /\ jobs'[j] \in Job
        /\ jobs[j].attempt \in Nat /\ jobs'[j].attempt <= MaxAttempts
        /\ jobs'[j].owner = b
    <2>1. kept[j] \in Job /\ kept[j].attempt \in Nat
      BY <1>1 DEF Job
    <2>2. QED
      BY <1>1, <1>3, <1>4, <1>5, <2>1, ClaimedRow, AttemptAssumption
  <1>7. ServerTypeOK'
    <2>1. jobs' \in [Jobs -> Job]
      BY <1>2, <1>3, <1>6, <1>5
    <2>2. QED
      BY <1>1, <1>3, <1>5, <1>6, <2>1, LeavingIsTyped DEF ServerInv, ServerTypeOK
  <1>8. (FailureIsQuarantined /\ InFlightIsLeased /\ AbsentIsUntouched)'
    BY <1>1, <1>5, <1>6 DEF ServerInv, FailureIsQuarantined, InFlightIsLeased, AbsentIsUntouched
  <1>9. ClaimsAuthorised'
    <2>1. \A i \in Jobs : retries[i] \in Nat
      BY DEF ServerInv, ServerTypeOK
    <2>2. QED
      BY <1>1, <1>3, <1>5, <1>6, <2>1 DEF ServerInv, ClaimsAuthorised
  <1>10. \A k \in acks : k.job \in Jobs /\ k.attempt \in Nat
    BY AttemptAssumption DEF ServerInv, ServerTypeOK, Ack, Attempts
  <1>11. AcksFollowClaims'
    BY <1>1, <1>3, <1>5, <1>6, <1>10 DEF ServerInv, AcksFollowClaims
  <1>12. PrintedIsAcknowledged'
    <2>1. \A k \in acks : k.job = j => k.attempt < jobs'[j].attempt
      BY <1>6, <1>10 DEF ServerInv, AcksFollowClaims
    <2>2. QED
      BY <1>1, <1>3, <1>5, <1>6, <1>10, <2>1 DEF ServerInv, PrintedIsAcknowledged
  <1>14. ServerInv'
    BY <1>7, <1>8, <1>9, <1>11, <1>12 DEF ServerInv
  <1>15. QED
    BY <1>1, <1>3, <1>5, <1>6, <1>14, AttemptAssumption DEF Attempts

\* A lapsing lease keeps the invariant.
LEMMA ClockKeepsInv == ServerInv /\ Clock => ServerInv'
  <1> SUFFICES ASSUME ServerInv, NEW j \in Jobs, LapseLease(j) PROVE ServerInv'
    BY DEF Clock
  <1>1. jobs \in [Jobs -> Job]
    BY DEF ServerInv, ServerTypeOK
  <1>2. /\ jobs'[j] = [jobs[j] EXCEPT !.lease = "lapsed"]
        /\ \A i \in Jobs \ {j} : jobs'[i] = jobs[i]
        /\ jobs[j].lease = "live"
        /\ UNCHANGED <<acks, routing, serving, retries, admin>>
    BY <1>1 DEF LapseLease
  <1>3. /\ jobs'[j] \in Job /\ jobs'[j].lease = "lapsed"
        /\ jobs'[j].status = jobs[j].status /\ jobs'[j].manual = jobs[j].manual
        /\ jobs'[j].attempt = jobs[j].attempt
        /\ jobs[j].lease = "live"
        /\ \A i \in Jobs \ {j} : jobs'[i] = jobs[i]
        /\ UNCHANGED <<acks, routing, serving, retries, admin>>
    BY <1>1, <1>2 DEF Job
  <1>4. ServerTypeOK'
    <2>1. jobs' \in [Jobs -> Job]
      BY <1>1, <1>2, <1>3 DEF LapseLease
    <2>2. QED
      BY <1>3, <2>1 DEF ServerInv, ServerTypeOK
  <1>5. (ClaimsAuthorised /\ FailureIsQuarantined /\ InFlightIsLeased /\ AbsentIsUntouched)'
    BY <1>3 DEF ServerInv, ClaimsAuthorised, FailureIsQuarantined, InFlightIsLeased,
                      AbsentIsUntouched
  <1>6. \A k \in acks : k.job \in Jobs
    BY DEF ServerInv, ServerTypeOK, Ack
  <1>7. (PrintedIsAcknowledged /\ AcksFollowClaims)'
    BY <1>3, <1>6 DEF ServerInv, PrintedIsAcknowledged, AcksFollowClaims
  <1>8. QED
    BY <1>3, <1>4, <1>5, <1>7 DEF ServerInv

\* A manual retry keeps the invariant: it adds the permission it hands out.
LEMMA OperatorKeepsInv == ServerInv /\ Operator => ServerInv'
  <1> SUFFICES ASSUME ServerInv, NEW j \in Jobs, ManualRetry(j) PROVE ServerInv'
    BY DEF Operator
  <1>1. jobs \in [Jobs -> Job] /\ retries \in [Jobs -> Nat]
    BY DEF ServerInv, ServerTypeOK
  <1>2. /\ jobs'[j] = Requeued(jobs[j]) /\ retries'[j] = retries[j] + 1
        /\ \A i \in Jobs \ {j} : jobs'[i] = jobs[i] /\ retries'[i] = retries[i]
        /\ jobs[j].status = "FAILED" /\ jobs[j].manual
        /\ UNCHANGED <<acks, routing, serving, admin>>
    BY <1>1 DEF ManualRetry
  <1>3. /\ jobs'[j] \in Job /\ jobs'[j].lease = "none"
        /\ jobs'[j].status = "PENDING" /\ ~jobs'[j].manual
        /\ jobs'[j].attempt = jobs[j].attempt
    BY <1>1, <1>2, RequeuedRow
  <1>4. ServerTypeOK'
    <2>1. jobs' \in [Jobs -> Job] /\ retries' \in [Jobs -> Nat]
      BY <1>1, <1>2, <1>3 DEF ManualRetry
    <2>2. QED
      BY <1>2, <1>3, <2>1 DEF ServerInv, ServerTypeOK
  <1>5. ClaimsAuthorised'
    <2>1. jobs[j].attempt \in Nat /\ \A i \in Jobs : retries[i] \in Nat
      BY <1>1 DEF Job
    <2>2. QED
      BY <1>2, <1>3, <2>1 DEF ServerInv, ClaimsAuthorised
  <1>6. (FailureIsQuarantined /\ InFlightIsLeased /\ AbsentIsUntouched)'
    BY <1>2, <1>3 DEF ServerInv, FailureIsQuarantined, InFlightIsLeased, AbsentIsUntouched
  <1>7. \A k \in acks : k.job \in Jobs
    BY DEF ServerInv, ServerTypeOK, Ack
  <1>8. (PrintedIsAcknowledged /\ AcksFollowClaims)'
    BY <1>2, <1>3, <1>7 DEF ServerInv, PrintedIsAcknowledged, AcksFollowClaims
  <1>9. QED
    BY <1>2, <1>4, <1>5, <1>6, <1>8 DEF ServerInv

\* Routing and revocation keep the invariant: they touch no job.
LEMMA ManagerKeepsInv == ServerInv /\ Manager => ServerInv'
  <1> SUFFICES ASSUME ServerInv, Manager PROVE ServerInv'
    OBVIOUS
  <1>1. UNCHANGED <<jobs, acks, retries>>
    BY DEF Manager, UnmapPrinter, UpdateDevice, BeginRevoke, FinishRevoke, MapPrinter, AdminStep
  <1>2. ServerTypeOK'
    <2> USE DEF ServerInv, ServerTypeOK, AdminStep
    <2>1. CASE \E d \in Devices : UnmapPrinter(d)
      BY <1>1, <2>1 DEF UnmapPrinter
    <2>2. CASE \E d \in Devices : UpdateDevice(d)
      BY <1>1, <2>2 DEF UpdateDevice
    <2>3. CASE \E b \in Bridges : BeginRevoke(b)
      BY <1>1, <2>3 DEF BeginRevoke
    <2>4. CASE \E b \in Bridges : FinishRevoke(b)
      <3>1. serving' \in [Bridges -> Nat]
        BY <2>4, BoundsAssumption DEF FinishRevoke
      <3>2. QED
        BY <1>1, <2>4, <3>1 DEF FinishRevoke
    <2>5. CASE \E b \in Bridges, d \in Devices : MapPrinter(b, d)
      BY <1>1, <2>5 DEF MapPrinter
    <2>6. QED
      BY <2>1, <2>2, <2>3, <2>4, <2>5 DEF Manager
  <1>3. QED
    BY <1>1, <1>2 DEF ServerInv, ClaimsAuthorised, FailureIsQuarantined, InFlightIsLeased,
                      AbsentIsUntouched, PrintedIsAcknowledged, AcksFollowClaims

\* A report keeps the invariant, whoever sends it and whenever it arrives.
LEMMA UpdateKeepsInv ==
  ASSUME ServerInv, NEW b \in Bridges, NEW u \in Updates, UpdateJob(b, u)
  PROVE  ServerInv'
  <1>1. CASE ~(Accepted(b, u) /\ ~Replayed(b, u))
    <2>1. ServerTypeOK'
      BY <1>1, LeavingIsTyped DEF UpdateJob, ServerInv, ServerTypeOK
    <2>2. QED
      BY <1>1, <2>1 DEF UpdateJob, ServerInv, ClaimsAuthorised, FailureIsQuarantined,
         InFlightIsLeased, AbsentIsUntouched, PrintedIsAcknowledged, AcksFollowClaims
  <1>2. CASE Accepted(b, u) /\ ~Replayed(b, u)
    <2> DEFINE j == u.job
    <2>1. j \in Jobs /\ u.attempt \in Attempts /\ u.status \in {"SENT", "PRINTED", "FAILED"}
      BY DEF Updates
    <2>2. jobs \in [Jobs -> Job] /\ retries \in [Jobs -> Nat]
      BY DEF ServerInv, ServerTypeOK
    <2>3. /\ jobs'[j] = Reported(jobs[j], u)
          /\ \A i \in Jobs \ {j} : jobs'[i] = jobs[i]
          /\ acks' = acks \cup {AckOf(b, u)}
          /\ jobs[j].attempt = u.attempt
          /\ u.status \in Allowed(jobs[j].status)
          /\ Admitted(b) /\ Leave(b)
          /\ UNCHANGED <<routing, retries, admin>>
      BY <1>2, <2>1, <2>2 DEF UpdateJob, Accepted
    <2>4. /\ AckOf(b, u) \in Ack /\ AckOf(b, u).job = j /\ AckOf(b, u).attempt = u.attempt
          /\ AckOf(b, u).status = u.status
      BY <2>1 DEF AckOf, Ack
    <2>5. /\ jobs'[j] \in Job /\ jobs'[j].status = u.status
          /\ jobs'[j].manual <=> (u.status = "FAILED")
          /\ jobs'[j].attempt = jobs[j].attempt
          /\ jobs'[j].lease = IF u.status = "SENT" THEN "live" ELSE "none"
      BY <2>1, <2>2, <2>3, ReportedRow
    <2>6. /\ jobs[j].status # "ABSENT" /\ jobs[j].attempt \in Nat
          /\ jobs[j].status = "PRINTED" => u.status = "PRINTED"
      BY <2>1, <2>2, <2>3, AttemptAssumption DEF Allowed, Job, Status
    <2> HIDE DEF j
    <2>7. ServerTypeOK'
      <3>1. jobs' \in [Jobs -> Job]
        BY <1>2, <2>1, <2>2, <2>3, <2>5 DEF UpdateJob, j
      <3>2. QED
        BY <2>3, <2>4, <2>5, <3>1, LeavingIsTyped DEF ServerInv, ServerTypeOK
    <2>8. (FailureIsQuarantined /\ InFlightIsLeased /\ AbsentIsUntouched)'
      <3>1. FailureIsQuarantined'
        BY <2>3, <2>5 DEF ServerInv, FailureIsQuarantined
      <3>2. InFlightIsLeased'
        BY <2>1, <2>3, <2>5 DEF ServerInv, InFlightIsLeased
      <3>3. AbsentIsUntouched'
        BY <2>1, <2>3, <2>5 DEF ServerInv, AbsentIsUntouched
      <3>4. QED
        BY <3>1, <3>2, <3>3
    <2>9. ClaimsAuthorised'
      <3>1. \A i \in Jobs : retries[i] \in Nat /\ jobs[i].attempt \in Nat
        BY <2>2 DEF Job
      <3>2. jobs'[j].status # "PENDING"
        BY <2>1, <2>5
      <3>3. QED
        BY <2>1, <2>3, <2>5, <3>1, <3>2 DEF ServerInv, ClaimsAuthorised
    <2>10. \A k \in acks : k.job \in Jobs /\ k.attempt \in Nat
      BY AttemptAssumption DEF ServerInv, ServerTypeOK, Ack, Attempts
    <2>11. AcksFollowClaims'
      BY <2>3, <2>4, <2>5, <2>6, <2>10 DEF ServerInv, AcksFollowClaims
    <2>12. PrintedIsAcknowledged'
      BY <2>1, <2>3, <2>4, <2>5, <2>6, <2>10 DEF ServerInv, PrintedIsAcknowledged
    <2>13. QED
      BY <2>3, <2>7, <2>8, <2>9, <2>11, <2>12 DEF ServerInv
  <1>3. QED
    BY <1>1, <1>2

\* Answering a bridge, whatever it asks, keeps the invariant.
LEMMA RequestsKeepInv == ServerInv /\ Requests => ServerInv'
  <1> SUFFICES ASSUME ServerInv, NEW b \in Bridges,
                      \/ \E skipped \in SUBSET Jobs :
                           \/ Repair(b, skipped) \/ ClaimNothing(b, skipped)
                           \/ \E j \in Jobs : Claim(b, skipped, j)
                      \/ \E u \in Updates : UpdateJob(b, u)
               PROVE  ServerInv'
    BY DEF Requests
  <1>1. ASSUME NEW skipped \in SUBSET Jobs, Repair(b, skipped) \/ ClaimNothing(b, skipped)
        PROVE  ServerInv'
    <2>1. jobs' = Housekept(skipped) /\ UNCHANGED <<acks, routing, retries, admin>>
      BY <1>1 DEF Repair, ClaimNothing
    <2>2. serving' \in [Bridges -> Nat]
      BY <1>1, LeavingIsTyped DEF Repair, ClaimNothing, ServerInv, ServerTypeOK
    <2>3. QED
      BY <2>1, <2>2, HousekeepingKeepsInv
  <1>2. ASSUME NEW skipped \in SUBSET Jobs, NEW j \in Jobs, Claim(b, skipped, j) PROVE ServerInv'
    BY <1>2, ClaimKeepsInv
  <1>3. ASSUME NEW u \in Updates, UpdateJob(b, u) PROVE ServerInv'
    BY <1>3, UpdateKeepsInv
  <1>4. QED
    BY <1>1, <1>2, <1>3

\* Every step of the server keeps the invariant.
LEMMA ServerStepKeepsInv == ServerInv /\ [ServerNext]_serverVars => ServerInv'
  <1> SUFFICES ASSUME ServerInv, [ServerNext]_serverVars PROVE ServerInv'
    OBVIOUS
  <1>1. CASE UNCHANGED serverVars
    BY <1>1 DEF serverVars, ServerInv, ServerTypeOK, ClaimsAuthorised, FailureIsQuarantined,
       InFlightIsLeased, AbsentIsUntouched, PrintedIsAcknowledged, AcksFollowClaims
  <1>2. QED
    BY <1>1, QueueingKeepsInv, ClockKeepsInv, OperatorKeepsInv, ManagerKeepsInv, RequestsKeepInv
    DEF ServerNext

\* The invariant holds in every reachable state of the server.
LEMMA ServerInvariant == ServerSpec => []ServerInv
  BY ServerInvInit, ServerStepKeepsInv, PTL DEF ServerSpec

\* The tables of printing.py stay well typed.
THEOREM ServerTypeCorrect == ServerSpec => []ServerTypeOK
  <1>1. ServerInv => ServerTypeOK
    BY DEF ServerInv
  <1>2. QED
    BY <1>1, ServerInvariant, PTL

\* Whatever the bridges of a branch send, and however claims, retries, lapsed
\* leases and remapped printers interleave, claim_print_job hands a job out
\* once per creation and once per retry an operator granted.
THEOREM ClaimsAreAuthorised == ServerSpec => []ClaimsAuthorised
  <1>1. ServerInv => ClaimsAuthorised
    BY DEF ServerInv
  <1>2. QED
    BY <1>1, ServerInvariant, PTL

\* The status of a job says the same as its lease, its manual flag and its
\* acknowledgements, in every reachable state.
THEOREM StatusIsTruthful ==
  ServerSpec => [](FailureIsQuarantined /\ InFlightIsLeased /\ PrintedIsAcknowledged /\ AcksFollowClaims)
  <1>1. ServerInv => FailureIsQuarantined /\ InFlightIsLeased /\ PrintedIsAcknowledged /\ AcksFollowClaims
    BY DEF ServerInv
  <1>2. QED
    BY <1>1, ServerInvariant, PTL

\* What no step does to a job: take back a print, or end a wait but by a claim.
LEMMA JobStep ==
  ASSUME ServerInv, [ServerNext]_serverVars, NEW j \in Jobs
  PROVE  /\ jobs[j].status = "PRINTED" => jobs'[j].status = "PRINTED"
         /\ jobs[j].status = "PENDING" /\ jobs'[j].status # "PENDING" =>
              jobs'[j].status = "CLAIMED" /\ jobs'[j].attempt = jobs[j].attempt + 1
  <1> DEFINE Goal == /\ jobs[j].status = "PRINTED" => jobs'[j].status = "PRINTED"
                     /\ jobs[j].status = "PENDING" /\ jobs'[j].status # "PENDING" =>
                          jobs'[j].status = "CLAIMED" /\ jobs'[j].attempt = jobs[j].attempt + 1
  <1> SUFFICES Goal
    OBVIOUS
  <1>1. jobs \in [Jobs -> Job]
    BY DEF ServerInv, ServerTypeOK
  <1>2. CASE UNCHANGED serverVars \/ Manager
    BY <1>2 DEF serverVars, Manager, UnmapPrinter, UpdateDevice, BeginRevoke, FinishRevoke, MapPrinter,
                     AdminStep
  <1>3. CASE Queueing
    BY <1>1, <1>3 DEF Queueing, EnqueueStationJob, EnqueueDeviceJob, Enqueue
  <1>4. CASE Clock
    <2>1. jobs'[j].status = jobs[j].status
      BY <1>1, <1>4 DEF Clock, LapseLease, Job
    <2>2. QED
      BY <2>1
  <1>5. CASE Operator
    BY <1>1, <1>5 DEF Operator, ManualRetry
  <1>6. CASE Requests
    <2> PICK b \in Bridges : \/ \E skipped \in SUBSET Jobs :
                                 \/ Repair(b, skipped) \/ ClaimNothing(b, skipped)
                                 \/ \E i \in Jobs : Claim(b, skipped, i)
                            \/ \E u \in Updates : UpdateJob(b, u)
      BY <1>6 DEF Requests
    <2>1. ASSUME NEW skipped \in SUBSET Jobs, Repair(b, skipped) \/ ClaimNothing(b, skipped)
          PROVE  Goal
      BY <2>1, HousekeptRow DEF Repair, ClaimNothing, ServerInv
    <2>2. ASSUME NEW skipped \in SUBSET Jobs, NEW i \in Jobs, Claim(b, skipped, i) PROVE Goal
      BY <2>2, ClaimKeepsInv
    <2>3. ASSUME NEW u \in Updates, UpdateJob(b, u) PROVE Goal
      <3>1. CASE UNCHANGED jobs
        BY <3>1
      <3>2. CASE Accepted(b, u) /\ ~Replayed(b, u)
        <4>1. /\ u.job \in Jobs /\ u.status \in {"SENT", "PRINTED", "FAILED"}
              /\ u.status \in Allowed(jobs[u.job].status)
              /\ jobs' = [jobs EXCEPT ![u.job] = Reported(jobs[u.job], u)]
          BY <2>3, <3>2 DEF Updates, UpdateJob, Accepted
        <4>2. CASE u.job # j
          BY <1>1, <4>1, <4>2
        <4>3. CASE u.job = j
          <5>1. jobs'[j].status = u.status
            BY <1>1, <4>1, <4>3, ReportedRow
          <5>2. QED
            BY <4>1, <4>3, <5>1 DEF Allowed
        <4>4. QED
          BY <4>2, <4>3
      <3>3. QED
        BY <2>3, <3>1, <3>2 DEF UpdateJob
    <2>4. QED
      BY <2>1, <2>2, <2>3
  <1>7. QED
    BY <1>2, <1>3, <1>4, <1>5, <1>6 DEF ServerNext

\* A printed job never returns to the queue.
THEOREM PrintedStaysPrinted == ServerSpec => PrintedIsFinal
  <1>1. ServerInv /\ [ServerNext]_serverVars =>
          [\A j \in Jobs : jobs[j].status = "PRINTED" => jobs'[j].status = "PRINTED"]_serverVars
    BY JobStep
  <1>2. QED
    BY <1>1, ServerInvariant, PTL DEF ServerSpec, PrintedIsFinal

\* A report about an earlier attempt cannot undo an operator's retry.
THEOREM RetriesSurviveStaleReports == ServerSpec => OnlyClaimEndsWaiting
  <1>1. ServerInv /\ [ServerNext]_serverVars =>
          [\A j \in Jobs : jobs[j].status = "PENDING" /\ jobs'[j].status # "PENDING" =>
             jobs'[j].status = "CLAIMED" /\ jobs'[j].attempt = jobs[j].attempt + 1]_serverVars
    BY JobStep
  <1>2. QED
    BY <1>1, ServerInvariant, PTL DEF ServerSpec, OnlyClaimEndsWaiting

\* What a bridge that is not active still gets from a step, it had asked before.
LEMMA RevokedStep ==
  ASSUME ServerInv, [ServerNext]_serverVars, NEW b \in Bridges \ active, ServesBridge(b)
  PROVE  serving[b] > 0 /\ serving'[b] = serving[b] - 1
  <1> DEFINE Goal == serving[b] > 0 /\ serving'[b] = serving[b] - 1
  <1>1. /\ jobs \in [Jobs -> Job] /\ NoBridge # b
        /\ serving \in [Bridges -> Nat]
    BY NullAssumption DEF ServerInv, ServerTypeOK
  <1>2. \/ \E j \in Jobs : jobs'[j].owner = b /\ jobs'[j].attempt # jobs[j].attempt
        \/ \E k \in acks' \ acks : k.bridge = b
    BY DEF ServesBridge
  <1>3. CASE UNCHANGED serverVars \/ Manager
    BY <1>2, <1>3 DEF serverVars, Manager, UnmapPrinter, UpdateDevice, BeginRevoke, FinishRevoke,
                      MapPrinter, AdminStep
  <1>4. CASE Queueing
    <2>1. PICK i \in Jobs, on \in BOOLEAN, d \in Devices \cup {NoDevice} : Enqueue(i, on, d)
      BY <1>4 DEF Queueing, EnqueueStationJob, EnqueueDeviceJob, StationPrinter, ServerInv, ServerTypeOK
    <2>2. Queued(on, d).owner = NoBridge
      BY DEF Queued, Absent
    <2>3. QED
      BY <1>1, <1>2, <2>1, <2>2 DEF Enqueue
  <1>5. CASE Clock
    <2>1. \A j \in Jobs : jobs'[j].attempt = jobs[j].attempt
      BY <1>1, <1>5 DEF Clock, LapseLease, Job
    <2>2. QED
      BY <1>2, <1>5, <2>1 DEF Clock, LapseLease
  <1>6. CASE Operator
    <2>1. PICK i \in Jobs : ManualRetry(i)
      BY <1>6 DEF Operator
    <2>2. Requeued(jobs[i]).attempt = jobs[i].attempt
      BY <1>1, RequeuedRow
    <2>3. QED
      BY <1>1, <1>2, <2>1, <2>2 DEF ManualRetry
  <1>7. CASE Requests
    <2> PICK c \in Bridges : \/ \E skipped \in SUBSET Jobs :
                                 \/ Repair(c, skipped) \/ ClaimNothing(c, skipped)
                                 \/ \E i \in Jobs : Claim(c, skipped, i)
                            \/ \E u \in Updates : UpdateJob(c, u)
      BY <1>7 DEF Requests
    <2>1. ASSUME c = b, Admitted(b), Leave(b) PROVE Goal
      <3>1. serving[b] > 0 /\ serving[b] \in Nat
        BY <1>1, <2>1 DEF Admitted
      <3>2. serving' = [serving EXCEPT ![b] = serving[b] - 1]
        BY <2>1 DEF Leave
      <3>3. QED
        BY <1>1, <3>1, <3>2
    <2>2. ASSUME NEW skipped \in SUBSET Jobs, Repair(c, skipped) \/ ClaimNothing(c, skipped)
          PROVE  Goal
      <3>1. UNCHANGED acks /\ \A j \in Jobs : jobs'[j].attempt = jobs[j].attempt
        BY <2>2, HousekeptRow DEF Repair, ClaimNothing, ServerInv
      <3>2. QED
        BY <1>2, <3>1
    <2>3. ASSUME NEW skipped \in SUBSET Jobs, NEW i \in Jobs, Claim(c, skipped, i) PROVE Goal
      <3>1. /\ UNCHANGED acks /\ jobs'[i].owner = c
            /\ \A j \in Jobs \ {i} : jobs'[j].attempt = jobs[j].attempt
        BY <2>3, ClaimKeepsInv
      <3>2. c = b
        BY <1>2, <3>1
      <3>3. QED
        BY <2>1, <2>3, <3>2 DEF Claim
    <2>4. ASSUME NEW u \in Updates, UpdateJob(c, u) PROVE Goal
      <3>1. CASE UNCHANGED <<jobs, acks>>
        BY <1>2, <3>1
      <3>2. CASE Accepted(c, u) /\ ~Replayed(c, u)
        <4>1. /\ jobs' = [jobs EXCEPT ![u.job] = Reported(jobs[u.job], u)]
              /\ acks' = acks \cup {AckOf(c, u)}
              /\ Admitted(c) /\ Leave(c)
          BY <2>4, <3>2 DEF UpdateJob
        <4>2. u.job \in Jobs
          BY DEF Updates
        <4>3. Reported(jobs[u.job], u).attempt = jobs[u.job].attempt
          BY <1>1, <4>2, ReportedRow
        <4>4. \A j \in Jobs : jobs'[j].attempt = jobs[j].attempt
          BY <1>1, <4>1, <4>2, <4>3
        <4>5. c = b
          BY <1>2, <4>1, <4>4 DEF AckOf
        <4>6. QED
          BY <2>1, <4>1, <4>5
      <3>3. QED
        BY <2>4, <3>1, <3>2 DEF UpdateJob
    <2>5. QED
      BY <2>2, <2>3, <2>4
  <1>8. QED
    BY <1>3, <1>4, <1>5, <1>6, <1>7 DEF ServerNext

\* Once revoke_bridge has committed, that bridge gains no job and stores no report
\* but by calls authenticated before.
THEOREM RevocationCutsOff == ServerSpec => RevokedIsCutOff
  <1>1. ServerInv /\ [ServerNext]_serverVars =>
          [\A b \in Bridges \ active :
             ServesBridge(b) => serving[b] > 0 /\ serving'[b] = serving[b] - 1]_serverVars
    BY RevokedStep
  <1>2. QED
    BY <1>1, ServerInvariant, PTL DEF ServerSpec, RevokedIsCutOff
=============================================================================
