--------------------------- MODULE PipelineProofs ---------------------------
(***************************************************************************)
(* The whole print pipeline, for any number of jobs, bridges and devices,   *)
(* crashes, lost and late calls: no ticket comes out without a permission   *)
(* of its own, none is forgotten, and the pipeline implements PrintPromise. *)
(* The queue's own part of the argument is PrintServerProofs; this module   *)
(* follows a grant from the queue through the agent's journal to the paper  *)
(* and back.                                                                *)
(***************************************************************************)
EXTENDS PrintPipeline, PrintServerProofs

\* A ticket of job j is out.
OnPaper(j) == \E a \in Attempts : paper[j][a] > 0

\* What the journals of agent b may say of job j: nothing ahead of the queue's
\* claims, a print only if there is paper, a confirmation only if there is an
\* acknowledgement.
EntryOK(b, j, e) ==
  /\ e.attempt <= jobs[j].attempt
  /\ e.state = "NONE" => e = NoEntry
  /\ e.state # "NONE" => e.attempt \in Attempts
  /\ e.state = "PRINTED" => OnPaper(j)
  /\ e.state # "NONE" /\ e.acked =>
       \E k \in acks : k.bridge = b /\ k.job = j /\ k.attempt >= e.attempt

JournalOK(b, m) == \A j \in Jobs : EntryOK(b, j, m[j])

\* The agent has a grant it has not printed yet and may still print.
Fresh(b) == pc[b] = "spool" \/ (pc[b] = "claim" /\ reply[b] = "granted")

\* Stages at which the journal in memory is at the attempt the agent deals with.
Journalled == {"recover", "spool", "sent", "printed", "failed"}

\* What is true of an agent wherever its loop is.
GrantOK(b) ==
  /\ cur[b] # NoGrant => /\ cur[b].attempt <= jobs[cur[b].job].attempt
                         /\ mem[b][cur[b].job].attempt <= cur[b].attempt
  /\ pc[b] \in Journalled => mem[b][cur[b].job].attempt = cur[b].attempt
  /\ pc[b] = "spool" => ~disk[b][cur[b].job].acked /\ disk[b][cur[b].job].attempt = cur[b].attempt
  /\ Fresh(b) => paper[cur[b].job][cur[b].attempt] = 0
  /\ pc[b] \in {"sent", "printed"} => paper[cur[b].job][cur[b].attempt] > 0
  /\ reply[b] = "ok" =>
       \E k \in acks : k.bridge = b /\ k.job = cur[b].job /\ k.attempt = cur[b].attempt

AgentOK(b) ==
  /\ JournalOK(b, mem[b]) /\ JournalOK(b, disk[b])
  /\ \A j \in todo[b] : mem[b][j].state # "NONE"
  /\ pc[b] # "down" => \A j \in Jobs : disk[b][j].attempt <= mem[b][j].attempt
  /\ GrantOK(b)

\* No two agents may print the same attempt.
GrantsDiffer == \A b, c \in Bridges : Fresh(b) /\ Fresh(c) /\ cur[b] = cur[c] => b = c

PaperFollowsClaims ==
  \A j \in Jobs, a \in Attempts : paper[j][a] > 0 => paper[j][a] = 1 /\ a <= jobs[j].attempt

\* A report that is still on its way tells the truth.
LateReportsOK == \A l \in lateReports : l.report.status = "PRINTED" => OnPaper(l.report.job)

AbsentIsUnretried == \A j \in Jobs : jobs[j].status = "ABSENT" => retries[j] = 0

PipeInv ==
  /\ ServerInv /\ AbsentIsUnretried
  /\ BridgeTypeOK /\ NetworkTypeOK
  /\ \A b \in Bridges : AgentOK(b)
  /\ GrantsDiffer
  /\ PaperFollowsClaims
  /\ TicketIsOnRecord
  /\ LateReportsOK

-----------------------------------------------------------------------------
(* What a step of the queue means for agents and for the promise.            *)

\* The permissions given for a job.
Permission(j) == IF jobs[j].status = "ABSENT" THEN 0 ELSE 1 + retries[j]

\* The queue takes nothing back: attempts grow, acknowledgements stay.
Onward ==
  /\ ServerInv' /\ AbsentIsUnretried'
  /\ \A j \in Jobs : jobs[j].attempt <= jobs'[j].attempt
  /\ acks \subseteq acks'

\* No permission is added to job j, and it is not closed.
Kept(j) == Permission(j)' = Permission(j) /\ (jobs'[j].status = "PRINTED" <=> jobs[j].status = "PRINTED")
\* One is added, which only happens to a job that is not closed.
Granted(j) == /\ Permission(j)' = Permission(j) + 1
              /\ jobs[j].status # "PRINTED" /\ jobs'[j].status # "PRINTED"
\* It is closed.
ClosedNow(j) == Permission(j)' = Permission(j) /\ jobs'[j].status = "PRINTED"

\* The columns of a job the pipeline's argument looks at.
LEMMA JobRows ==
  ASSUME ServerInv
  PROVE  /\ jobs \in [Jobs -> Job] /\ retries \in [Jobs -> Nat] /\ acks \subseteq Ack
         /\ \A j \in Jobs : jobs[j].attempt \in Nat /\ jobs[j].status \in Status /\ retries[j] \in Nat
BY DEF ServerInv, ServerTypeOK, Job

\* Queueing a job is its first permission.
LEMMA QueueingEffect ==
  ASSUME ServerInv, AbsentIsUnretried, Queueing
  PROVE  Onward /\ \E j \in Jobs : Granted(j) /\ \A i \in Jobs \ {j} : Kept(i)
<1>1. PICK j \in Jobs, on \in BOOLEAN, d \in Devices \cup {NoDevice} : Enqueue(j, on, d)
  BY DEF Queueing, EnqueueStationJob, EnqueueDeviceJob, StationPrinter, ServerInv, ServerTypeOK
<1>2. /\ jobs[j].status = "ABSENT" /\ jobs' = [jobs EXCEPT ![j] = Queued(on, d)]
      /\ UNCHANGED <<acks, retries>>
  BY <1>1 DEF Enqueue
<1>3. Queued(on, d).status = "PENDING" /\ Queued(on, d).attempt = 0
  BY DEF Queued, Absent
<1>4. /\ jobs'[j].status = "PENDING" /\ jobs'[j].attempt = 0 /\ jobs[j].attempt = 0 /\ retries[j] = 0
      /\ \A i \in Jobs \ {j} : jobs'[i] = jobs[i]
  BY <1>2, <1>3, JobRows DEF ServerInv, AbsentIsUntouched, AbsentIsUnretried
<1>5. ServerInv'
  BY QueueingKeepsInv
<1>6. Onward
  BY <1>2, <1>4, <1>5, JobRows DEF Onward, AbsentIsUnretried
<1>7. Granted(j) /\ \A i \in Jobs \ {j} : Kept(i)
  BY <1>2, <1>4 DEF Granted, Kept, Permission
<1> QED BY <1>6, <1>7

\* A manual retry is one more permission, for a job that is not printed.
LEMMA OperatorEffect ==
  ASSUME ServerInv, AbsentIsUnretried, Operator
  PROVE  Onward /\ \E j \in Jobs : Granted(j) /\ \A i \in Jobs \ {j} : Kept(i)
<1>1. PICK j \in Jobs : ManualRetry(j)
  BY DEF Operator
<1>2. /\ jobs[j].status = "FAILED" /\ jobs' = [jobs EXCEPT ![j] = Requeued(jobs[j])]
      /\ retries' = [retries EXCEPT ![j] = retries[j] + 1] /\ UNCHANGED acks
  BY <1>1 DEF ManualRetry
<1>3. /\ jobs'[j].status = "PENDING" /\ jobs'[j].attempt = jobs[j].attempt /\ retries'[j] = retries[j] + 1
      /\ \A i \in Jobs \ {j} : jobs'[i] = jobs[i] /\ retries'[i] = retries[i]
  BY <1>2, JobRows, RequeuedRow
<1>4. ServerInv'
  BY OperatorKeepsInv
<1>5. Onward
  BY <1>2, <1>3, <1>4, JobRows DEF Onward, AbsentIsUnretried
<1>6. Granted(j) /\ \A i \in Jobs \ {j} : Kept(i)
  BY <1>2, <1>3, JobRows DEF Granted, Kept, Permission
<1> QED BY <1>5, <1>6

\* Lapsing leases and changes of routing are nothing to the promise.
LEMMA ClockManagerEffect ==
  ASSUME ServerInv, AbsentIsUnretried, Clock \/ Manager
  PROVE  Onward /\ \A j \in Jobs : Kept(j)
<1>1. \A j \in Jobs : jobs'[j].status = jobs[j].status /\ jobs'[j].attempt = jobs[j].attempt
  <2>1. CASE Clock
    BY <2>1, JobRows DEF Clock, LapseLease, Job
  <2>2. CASE Manager
    BY <2>2 DEF Manager, UnmapPrinter, UpdateDevice, BeginRevoke, FinishRevoke, MapPrinter, AdminStep
  <2> QED BY <2>1, <2>2
<1>2. UNCHANGED <<acks, retries>>
  BY DEF Clock, LapseLease, Manager, UnmapPrinter, UpdateDevice, BeginRevoke, FinishRevoke, MapPrinter,
         AdminStep
<1>3. ServerInv'
  BY ClockKeepsInv, ManagerKeepsInv
<1> QED BY <1>1, <1>2, <1>3, JobRows DEF Onward, AbsentIsUnretried, Kept, Permission

\* Neither are the repairs every claim starts with.
LEMMA RepairEffect ==
  ASSUME ServerInv, AbsentIsUnretried, NEW b \in Bridges, NEW skipped \in SUBSET Jobs,
         Repair(b, skipped) \/ ClaimNothing(b, skipped)
  PROVE  Onward /\ \A j \in Jobs : Kept(j)
<1>1. jobs' = Housekept(skipped) /\ UNCHANGED <<acks, retries>>
  BY DEF Repair, ClaimNothing
<1>2. ASSUME NEW j \in Jobs
      PROVE  /\ jobs'[j].attempt = jobs[j].attempt
             /\ jobs'[j].status = jobs[j].status \/ (jobs[j].status \in InFlight /\ jobs'[j].status = "FAILED")
  BY <1>1, HousekeptRow DEF ServerInv
<1>3. ServerInv'
  BY RequestsKeepInv DEF Requests
<1> QED BY <1>1, <1>2, <1>3, JobRows DEF Onward, AbsentIsUnretried, Kept, Permission, InFlight

\* A claim uses a fresh attempt number and gives no permission.
LEMMA ClaimEffect ==
  ASSUME ServerInv, AbsentIsUnretried, NEW b \in Bridges, NEW skipped \in SUBSET Jobs, NEW j \in Jobs,
         Claim(b, skipped, j)
  PROVE  /\ Onward /\ \A i \in Jobs : Kept(i)
         /\ jobs'[j].attempt = jobs[j].attempt + 1 /\ jobs'[j].attempt \in Attempts
<1>1. /\ ServerInv' /\ UNCHANGED <<acks, retries>>
      /\ jobs[j].status = "PENDING" /\ jobs'[j].status = "CLAIMED"
      /\ jobs'[j].attempt = jobs[j].attempt + 1 /\ jobs'[j].attempt \in Attempts
      /\ \A i \in Jobs \ {j} : jobs'[i].attempt = jobs[i].attempt
  BY ClaimKeepsInv
<1>2. ASSUME NEW i \in Jobs \ {j}
      PROVE  jobs'[i].status = jobs[i].status \/ (jobs[i].status \in InFlight /\ jobs'[i].status = "FAILED")
  <2>1. Housekept(skipped) \in [Jobs -> Job]
    BY HousekeptRow DEF ServerInv, Housekept
  <2>2. jobs'[i] = Housekept(skipped)[i]
    BY <2>1 DEF Claim
  <2> QED BY <2>2, HousekeptRow DEF ServerInv
<1> QED BY <1>1, <1>2, JobRows DEF Onward, AbsentIsUnretried, Kept, Permission, InFlight

\* A report closes its job or changes nothing the promise sees; if it is accepted,
\* its acknowledgement is on record.
LEMMA UpdateEffect ==
  ASSUME ServerInv, AbsentIsUnretried, NEW b \in Bridges, NEW u \in Updates, UpdateJob(b, u)
  PROVE  /\ Onward /\ u.job \in Jobs
         /\ \A i \in Jobs \ {u.job} : Kept(i)
         /\ Kept(u.job) \/ (u.status = "PRINTED" /\ ClosedNow(u.job))
         /\ Accepted(b, u) => AckOf(b, u) \in acks'
<1>1. ServerInv'
  BY UpdateKeepsInv
<1>2. u.job \in Jobs /\ u.attempt \in Attempts /\ u.status \in {"SENT", "PRINTED", "FAILED"}
  BY DEF Updates
<1>3. CASE Accepted(b, u) /\ ~Replayed(b, u)
  <2>1. /\ jobs' = [jobs EXCEPT ![u.job] = Reported(jobs[u.job], u)]
        /\ acks' = acks \cup {AckOf(b, u)} /\ UNCHANGED retries
        /\ u.status \in Allowed(jobs[u.job].status)
    BY <1>3 DEF UpdateJob, Accepted
  <2>2. /\ jobs'[u.job].status = u.status /\ jobs'[u.job].attempt = jobs[u.job].attempt
        /\ \A i \in Jobs \ {u.job} : jobs'[i] = jobs[i]
    BY <1>2, <2>1, JobRows, ReportedRow
  <2>3. jobs[u.job].status # "ABSENT" /\ (jobs[u.job].status = "PRINTED" => u.status = "PRINTED")
    BY <1>2, <2>1 DEF Allowed
  <2> QED BY <1>1, <1>2, <2>1, <2>2, <2>3, JobRows
          DEF Onward, AbsentIsUnretried, Kept, ClosedNow, Permission
<1>4. CASE UNCHANGED <<jobs, acks>> /\ (Accepted(b, u) => Replayed(b, u))
  <2>1. UNCHANGED retries
    BY DEF UpdateJob
  <2> QED BY <1>1, <1>2, <1>4, <2>1, JobRows DEF Onward, AbsentIsUnretried, Kept, Permission, Replayed
<1> QED BY <1>3, <1>4 DEF UpdateJob

\* A step that leaves the queue alone.
LEMMA NothingHappens ==
  ASSUME ServerInv, AbsentIsUnretried, UNCHANGED serverVars
  PROVE  Onward /\ \A j \in Jobs : Kept(j)
<1>1. ServerInv'
  BY ServerStepKeepsInv
<1>2. UNCHANGED <<jobs, acks, retries>>
  BY DEF serverVars
<1> QED BY <1>1, <1>2, JobRows DEF Onward, AbsentIsUnretried, Kept, Permission

-----------------------------------------------------------------------------
(* What is known of an agent.                                                *)

Only(b) == \A c \in Bridges \ {b} :
  /\ pc'[c] = pc[c] /\ todo'[c] = todo[c] /\ cur'[c] = cur[c] /\ reply'[c] = reply[c]
  /\ mem'[c] = mem[c] /\ disk'[c] = disk[c]

\* Paper stays paper.
PaperStays == \A j \in Jobs, a \in Attempts : paper[j][a] > 0 => paper'[j][a] > 0

\* The types of one agent's state.
LEMMA AgentTypes ==
  ASSUME PipeInv, NEW b \in Bridges
  PROVE  /\ pc[b] \in Stages /\ todo[b] \subseteq Jobs /\ mem[b] \in [Jobs -> Entry] /\ disk[b] \in [Jobs -> Entry]
         /\ cur[b] \in Grant \cup {NoGrant} /\ AgentOK(b)
         /\ \A j \in Jobs : mem[b][j] \in Entry /\ disk[b][j] \in Entry
BY DEF PipeInv, BridgeTypeOK

\* Where it deals with a grant, it has one.
LEMMA HasGrant ==
  ASSUME PipeInv, NEW b \in Bridges, pc[b] \notin {"down", "loop"}, pc[b] = "claim" => reply[b] = "granted"
  PROVE  /\ cur[b] \in Grant /\ cur[b] # NoGrant /\ cur[b].job \in Jobs /\ cur[b].attempt \in Attempts
         /\ cur[b] = [job |-> cur[b].job, attempt |-> cur[b].attempt]
BY DEF PipeInv, BridgeTypeOK, Grant

\* The null grant is none, and attempts are positive numbers.
LEMMA NoGrantIsNone == NoGrant \notin Grant /\ Attempts \subseteq Nat /\ 0 \notin Attempts
BY AttemptAssumption DEF NoGrant, Grant, Attempts

\* Journal entries and what the agent writes into them.
LEMMA Entries ==
  /\ NoEntry \in Entry /\ EmptyJournal \in [Jobs -> Entry]
  /\ \A e \in Entry : e.attempt \in Nat /\ e.acked \in BOOLEAN
  /\ \A g \in Grant : Dispatching(g) \in Entry /\ Printed(g) \in Entry
  /\ \A e \in Entry : [e EXCEPT !.acked = TRUE] \in Entry
<1>1. NoEntry \in Entry
  BY AttemptAssumption DEF Entry, NoEntry
<1>2. EmptyJournal \in [Jobs -> Entry]
  BY <1>1 DEF EmptyJournal
<1>3. \A e \in Entry : e.attempt \in Nat /\ e.acked \in BOOLEAN
  BY AttemptAssumption DEF Entry
<1>6. \A e \in Entry : [e EXCEPT !.acked = TRUE] \in Entry
  BY DEF Entry
<1>4. \A g \in Grant : g.attempt \in 0..MaxAttempts
  BY AttemptAssumption DEF Grant, Attempts
<1>5. \A g \in Grant : Dispatching(g) \in Entry /\ Printed(g) \in Entry
  BY <1>4 DEF Dispatching, Printed, Entry
<1> QED BY <1>1, <1>2, <1>3, <1>5, <1>6

\* A journal entry that was right stays right.
LEMMA EntryLasts ==
  ASSUME ServerInv, Onward, PaperStays, NEW b \in Bridges, NEW j \in Jobs, NEW e \in Entry, EntryOK(b, j, e)
  PROVE  EntryOK(b, j, e)'
<1>1. e.attempt \in Nat /\ jobs[j].attempt \in Nat /\ jobs'[j].attempt \in Nat
  BY Entries, JobRows DEF Onward, ServerInv, ServerTypeOK, Job
<1>2. e.attempt <= jobs'[j].attempt
  BY <1>1 DEF EntryOK, Onward
<1>3. OnPaper(j) => OnPaper(j)'
  BY DEF OnPaper, PaperStays
<1> QED BY <1>2, <1>3 DEF EntryOK, Onward

\* A journal that was right stays right.
LEMMA JournalLasts ==
  ASSUME ServerInv, Onward, PaperStays, NEW b \in Bridges, NEW m \in [Jobs -> Entry], JournalOK(b, m)
  PROVE  JournalOK(b, m)'
BY EntryLasts DEF JournalOK

\* An agent that does nothing stays sound.
LEMMA OtherAgents ==
  ASSUME PipeInv, Onward, PaperStays, NEW b \in Bridges,
         pc'[b] = pc[b], todo'[b] = todo[b], cur'[b] = cur[b], reply'[b] = reply[b],
         mem'[b] = mem[b], disk'[b] = disk[b],
         Fresh(b) => paper'[cur[b].job][cur[b].attempt] = 0
  PROVE  AgentOK(b)'
<1>1. ServerInv /\ AgentOK(b) /\ mem[b] \in [Jobs -> Entry] /\ disk[b] \in [Jobs -> Entry]
  BY AgentTypes DEF PipeInv
<1>2. JournalOK(b, mem[b])' /\ JournalOK(b, disk[b])'
  <2>1. PICK m, d : m = mem[b] /\ d = disk[b]
    OBVIOUS
  <2>2. JournalOK(b, m)' /\ JournalOK(b, d)'
    BY <1>1, <2>1, JournalLasts DEF AgentOK
  <2>3. mem'[b] = m /\ disk'[b] = d
    BY <2>1
  <2> QED BY <2>2, <2>3 DEF JournalOK
<1>3. GrantOK(b)'
  <2>1. CASE cur[b] = NoGrant
    <3>1. pc[b] \in {"down", "loop"} \/ (pc[b] = "claim" /\ reply[b] # "granted")
      BY <2>1 DEF PipeInv, BridgeTypeOK
    <3>2. reply[b] = "ok" => \E k \in acks' : k.bridge = b /\ k.job = cur[b].job /\ k.attempt = cur[b].attempt
      BY <1>1 DEF AgentOK, GrantOK, Onward
    <3> QED BY <2>1, <3>1, <3>2 DEF GrantOK, Fresh, Journalled
  <2>2. CASE cur[b] # NoGrant
    <3>1. cur[b].job \in Jobs /\ cur[b].attempt \in Attempts /\ cur[b].attempt \in Nat
      BY <2>2, AgentTypes, NoGrantIsNone DEF Grant
    <3>2. cur[b].attempt <= jobs[cur[b].job].attempt /\ jobs[cur[b].job].attempt <= jobs'[cur[b].job].attempt
          /\ jobs[cur[b].job].attempt \in Nat /\ jobs'[cur[b].job].attempt \in Nat
      BY <1>1, <2>2, <3>1, JobRows DEF AgentOK, GrantOK, Onward, ServerInv, ServerTypeOK, Job
    <3>3. cur[b].attempt <= jobs'[cur[b].job].attempt
      BY <3>1, <3>2
    <3>4. pc[b] \in {"sent", "printed"} => paper'[cur[b].job][cur[b].attempt] > 0
      BY <1>1, <3>1 DEF AgentOK, GrantOK, PaperStays
    <3>5. reply[b] = "ok" => \E k \in acks' : k.bridge = b /\ k.job = cur[b].job /\ k.attempt = cur[b].attempt
      BY <1>1 DEF AgentOK, GrantOK, Onward
    <3> QED BY <1>1, <3>3, <3>4, <3>5 DEF AgentOK, GrantOK, Fresh
  <2> QED BY <2>1, <2>2
<1> QED BY <1>1, <1>2, <1>3 DEF AgentOK

\* A step that touches agent b only: what has to be shown of it.
LEMMA AgentStep ==
  ASSUME PipeInv, NEW b \in Bridges, Onward, PaperStays, Only(b),
         BridgeTypeOK', NetworkTypeOK', AgentOK(b)',
         \A c \in Bridges \ {b} : Fresh(c) => paper'[cur[c].job][cur[c].attempt] = 0,
         Fresh(b)' => \A c \in Bridges \ {b} : Fresh(c) => cur[c] # cur'[b],
         PaperFollowsClaims', TicketIsOnRecord', LateReportsOK'
  PROVE  PipeInv'
<1>1. \A c \in Bridges : AgentOK(c)'
  <2> TAKE c \in Bridges
  <2>1. CASE c = b
    BY <2>1
  <2>2. CASE c # b
    BY <2>2, OtherAgents DEF Only
  <2> QED BY <2>1, <2>2
<1>2. \A c \in Bridges \ {b} : (Fresh(c)' <=> Fresh(c)) /\ cur'[c] = cur[c]
  BY DEF Fresh, Only
<1>3. GrantsDiffer'
  BY <1>2 DEF PipeInv, GrantsDiffer
<1> QED BY <1>1, <1>3 DEF PipeInv, Onward

\* What a step without printing leaves as it is.
LEMMA PaperAtRest ==
  ASSUME PipeInv, Onward, UNCHANGED paper
  PROVE  PaperStays /\ PaperFollowsClaims' /\ \A c \in Bridges : Fresh(c) => paper'[cur[c].job][cur[c].attempt] = 0
<1>1. PaperStays
  BY DEF PaperStays
<1>2. \A c \in Bridges : Fresh(c) => paper'[cur[c].job][cur[c].attempt] = 0
  BY AgentTypes DEF AgentOK, GrantOK
<1>3. \A j \in Jobs, a \in Attempts : paper[j][a] > 0 => paper[j][a] = 1 /\ a <= jobs'[j].attempt
  <2>1. \A j \in Jobs : jobs[j].attempt \in Nat /\ jobs'[j].attempt \in Nat /\ jobs[j].attempt <= jobs'[j].attempt
    BY JobRows DEF PipeInv, Onward, ServerInv, ServerTypeOK, Job
  <2> TAKE j \in Jobs, a \in Attempts
  <2>2. a \in Nat /\ jobs[j].attempt \in Nat /\ jobs'[j].attempt \in Nat /\ jobs[j].attempt <= jobs'[j].attempt
    BY <2>1, NoGrantIsNone
  <2>3. paper[j][a] > 0 => paper[j][a] = 1 /\ a <= jobs[j].attempt
    BY DEF PipeInv, PaperFollowsClaims
  <2> QED BY <2>2, <2>3
<1> QED BY <1>1, <1>2, <1>3 DEF PaperFollowsClaims

\* Nothing is forgotten by a step that touches neither paper nor disk.
LEMMA RecordAtRest ==
  ASSUME PipeInv, Onward, UNCHANGED <<paper, disk>>
  PROVE  TicketIsOnRecord'
BY DEF PipeInv, Onward, TicketIsOnRecord

\* Late reports stay true, since paper stays paper.
LEMMA LateAtRest ==
  ASSUME PipeInv, PaperStays,
         \A l \in lateReports' : l \in lateReports \/ (l.report.status = "PRINTED" => OnPaper(l.report.job)),
         NetworkTypeOK'
  PROVE  LateReportsOK'
<1>1. \A l \in lateReports' : l.report.job \in Jobs
  BY DEF NetworkTypeOK, Updates
<1>2. \A j \in Jobs : OnPaper(j) => OnPaper(j)'
  BY DEF OnPaper, PaperStays
<1> QED BY <1>1, <1>2 DEF PipeInv, LateReportsOK

\* A step without the network.
LEMMA NetworkAtRest ==
  ASSUME PipeInv, UNCHANGED networkVars
  PROVE  NetworkTypeOK' /\ \A l \in lateReports' : l \in lateReports
BY DEF PipeInv, NetworkTypeOK, networkVars

\* A step of one agent that leaves disks and paper alone.
LEMMA QuietStep ==
  ASSUME PipeInv, NEW b \in Bridges, Onward, Only(b), UNCHANGED <<disk, paper>>,
         BridgeTypeOK', NetworkTypeOK',
         \A l \in lateReports' : l \in lateReports \/ (l.report.status = "PRINTED" => OnPaper(l.report.job)),
         JournalOK(b, mem[b])', \A j \in todo'[b] : mem'[b][j].state # "NONE",
         pc'[b] # "down" => \A j \in Jobs : disk[b][j].attempt <= mem'[b][j].attempt,
         GrantOK(b)',
         Fresh(b)' => \A c \in Bridges \ {b} : Fresh(c) => cur[c] # cur'[b]
  PROVE  PipeInv'
<1>1. /\ PaperStays /\ PaperFollowsClaims'
      /\ \A c \in Bridges : Fresh(c) => paper'[cur[c].job][cur[c].attempt] = 0
  BY PaperAtRest
<1>2. TicketIsOnRecord'
  BY RecordAtRest
<1>3. LateReportsOK'
  BY <1>1, LateAtRest
<1>4. JournalOK(b, disk[b])'
  <2>1. PICK d : d = disk[b]
    OBVIOUS
  <2>2. JournalOK(b, d)'
    BY <1>1, <2>1, AgentTypes, JournalLasts DEF PipeInv, AgentOK
  <2> QED BY <2>1, <2>2 DEF JournalOK
<1>5. AgentOK(b)'
  BY <1>4 DEF AgentOK
<1> QED BY <1>1, <1>2, <1>3, <1>5, AgentStep

\* The same when memory is left alone too.
LEMMA IdleStep ==
  ASSUME PipeInv, NEW b \in Bridges, Onward, Only(b), UNCHANGED <<mem, disk, paper>>,
         BridgeTypeOK', NetworkTypeOK',
         \A l \in lateReports' : l \in lateReports \/ (l.report.status = "PRINTED" => OnPaper(l.report.job)),
         \A j \in todo'[b] : mem[b][j].state # "NONE",
         pc[b] # "down", GrantOK(b)',
         Fresh(b)' => \A c \in Bridges \ {b} : Fresh(c) => cur[c] # cur'[b]
  PROVE  PipeInv'
<1>1. PaperStays
  BY DEF PaperStays
<1>2. JournalOK(b, mem[b])'
  <2>1. PICK m : m = mem[b]
    OBVIOUS
  <2>2. JournalOK(b, m)'
    BY <1>1, <2>1, AgentTypes, JournalLasts DEF PipeInv, AgentOK
  <2> QED BY <2>1, <2>2 DEF JournalOK
<1>3. \A j \in Jobs : disk[b][j].attempt <= mem'[b][j].attempt
  BY AgentTypes DEF AgentOK
<1>4. \A j \in todo'[b] : mem'[b][j].state # "NONE"
  OBVIOUS
<1> QED BY <1>2, <1>3, <1>4, QuietStep

-----------------------------------------------------------------------------
(* The agents' own steps.                                                    *)

\* The agent moves to another stage of its loop.
LEMMA Calls ==
  ASSUME BridgeTypeOK, NEW b \in Bridges, NEW stage \in Stages, Call(b, stage)
  PROVE  /\ pc' \in [Bridges -> Stages] /\ reply' \in [Bridges -> {"none", "ok", "error", "nothing", "granted"}]
         /\ pc'[b] = stage /\ reply'[b] = "none"
         /\ \A c \in Bridges \ {b} : pc'[c] = pc[c] /\ reply'[c] = reply[c]
BY DEF BridgeTypeOK, Call

\* The agent returns to the top of its loop, where it deals with no grant.
LEMMA Loops ==
  ASSUME BridgeTypeOK, NEW b \in Bridges, NEW m, LoopAgain(b, m)
  PROVE  /\ pc' \in [Bridges -> Stages] /\ reply' \in [Bridges -> {"none", "ok", "error", "nothing", "granted"}]
         /\ todo' \in [Bridges -> SUBSET Jobs] /\ cur' \in [Bridges -> Grant \cup {NoGrant}]
         /\ pc'[b] = "loop" /\ reply'[b] = "none" /\ cur'[b] = NoGrant /\ todo'[b] = Unacked(m)
         /\ \A c \in Bridges \ {b} :
              pc'[c] = pc[c] /\ reply'[c] = reply[c] /\ cur'[c] = cur[c] /\ todo'[c] = todo[c]
         /\ GrantOK(b)' /\ ~Fresh(b)'
<1>1. Call(b, "loop") /\ "loop" \in Stages
  BY DEF LoopAgain, Stages
<1>2. Unacked(m) \in SUBSET Jobs
  BY DEF Unacked
<1>3. /\ todo' \in [Bridges -> SUBSET Jobs] /\ cur' \in [Bridges -> Grant \cup {NoGrant}]
      /\ cur'[b] = NoGrant /\ todo'[b] = Unacked(m)
      /\ \A c \in Bridges \ {b} : cur'[c] = cur[c] /\ todo'[c] = todo[c]
  BY <1>2 DEF LoopAgain, BridgeTypeOK
<1>4. pc'[b] = "loop" /\ reply'[b] = "none"
  BY <1>1, Calls
<1>5. GrantOK(b)' /\ ~Fresh(b)'
  BY <1>3, <1>4 DEF GrantOK, Fresh, Journalled
<1> QED BY <1>1, <1>3, <1>5, Calls

\* Unconfirmed entries are entries.
LEMMA UnackedEntry ==
  ASSUME NEW b \in Bridges, NEW m, JournalOK(b, m), NEW j \in Unacked(m)
  PROVE  j \in Jobs /\ m[j].state # "NONE" /\ m[j].attempt \in Attempts /\ m[j].attempt <= jobs[j].attempt
BY DEF Unacked, JournalOK, EntryOK, NoEntry

\* With nothing but the stage changed.
LEMMA StageStep ==
  ASSUME PipeInv, NEW b \in Bridges, NEW stage \in {"claim", "reclaim", "malformed"}, Call(b, stage),
         UNCHANGED <<serverVars, networkVars, todo, cur, mem, disk, paper, faults>>,
         pc[b] \in {"loop", "claim"}, cur[b] = NoGrant => stage = "claim"
  PROVE  PipeInv'
<1>1. Onward
  BY NothingHappens DEF PipeInv
<1>2. BridgeTypeOK /\ stage \in Stages
  BY DEF PipeInv, Stages, Calling
<1>3. /\ pc' \in [Bridges -> Stages] /\ reply' \in [Bridges -> {"none", "ok", "error", "nothing", "granted"}]
      /\ pc'[b] = stage /\ reply'[b] = "none"
      /\ \A c \in Bridges \ {b} : pc'[c] = pc[c] /\ reply'[c] = reply[c]
  BY <1>2, Calls
<1>4. Only(b)
  BY <1>3 DEF Only
<1>5. BridgeTypeOK'
  BY <1>2, <1>3 DEF BridgeTypeOK
<1>6. ~Fresh(b)'
  BY <1>3 DEF Fresh
<1>7. GrantOK(b)'
  <2>1. GrantOK(b) /\ UNCHANGED jobs
    BY AgentTypes DEF AgentOK, serverVars
  <2> QED BY <1>3, <1>6, <2>1 DEF GrantOK, Journalled
<1> QED BY <1>1, <1>4, <1>5, <1>6, <1>7, NetworkAtRest, AgentTypes, IdleStep DEF AgentOK

\* A poll, and the two ways not to print a granted job.
LEMMA PollStep ==
  ASSUME PipeInv, NEW b \in Bridges, Poll(b) \/ RejectMalformed(b) \/ Reclaim(b),
         UNCHANGED <<serverVars, networkVars>>
  PROVE  PipeInv'
<1>1. CASE Poll(b)
  BY <1>1, StageStep DEF Poll
<1>2. CASE RejectMalformed(b) \/ Reclaim(b)
  <2>1. cur[b] # NoGrant
    BY <1>2, HasGrant DEF RejectMalformed, Reclaim
  <2> QED BY <1>2, <2>1, StageStep DEF RejectMalformed, Reclaim
<1> QED BY <1>1, <1>2

\* A round that ends without anything to do.
LEMMA IdleKeepsInv ==
  ASSUME PipeInv, NEW b \in Bridges, LoopAgain(b, mem[b]), pc[b] # "down",
         UNCHANGED <<serverVars, networkVars, mem, disk, paper, faults>>
  PROVE  PipeInv'
<1>1. Onward /\ BridgeTypeOK
  BY NothingHappens DEF PipeInv
<1>2. PICK m : m = mem[b]
  OBVIOUS
<1>3. LoopAgain(b, m) /\ JournalOK(b, m)
  BY <1>2, AgentTypes DEF AgentOK
<1>4. /\ pc' \in [Bridges -> Stages] /\ reply' \in [Bridges -> {"none", "ok", "error", "nothing", "granted"}]
      /\ todo' \in [Bridges -> SUBSET Jobs] /\ cur' \in [Bridges -> Grant \cup {NoGrant}]
      /\ pc'[b] = "loop" /\ reply'[b] = "none" /\ cur'[b] = NoGrant /\ todo'[b] = Unacked(m)
      /\ \A c \in Bridges \ {b} :
           pc'[c] = pc[c] /\ reply'[c] = reply[c] /\ cur'[c] = cur[c] /\ todo'[c] = todo[c]
      /\ GrantOK(b)' /\ ~Fresh(b)'
  BY <1>1, <1>3, Loops
<1>5. Only(b)
  BY <1>4 DEF Only
<1>6. BridgeTypeOK'
  BY <1>1, <1>4 DEF BridgeTypeOK
<1>7. \A j \in todo'[b] : mem[b][j].state # "NONE"
  BY <1>2, <1>3, <1>4, UnackedEntry
<1> QED BY <1>1, <1>4, <1>5, <1>6, <1>7, NetworkAtRest, IdleStep

\* An unconfirmed entry is reported once more.
LEMMA RecoverStep ==
  ASSUME PipeInv, NEW b \in Bridges, NEW j \in Jobs, Recover(b, j), UNCHANGED <<serverVars, networkVars>>
  PROVE  PipeInv'
<1>1. Onward /\ BridgeTypeOK /\ AgentOK(b) /\ UNCHANGED jobs
  BY NothingHappens, AgentTypes DEF PipeInv, serverVars
<1>2. /\ pc[b] = "loop" /\ j \in todo[b] /\ Call(b, "recover") /\ "recover" \in Stages
      /\ todo' = [todo EXCEPT ![b] = todo[b] \ {j}]
      /\ cur' = [cur EXCEPT ![b] = [job |-> j, attempt |-> mem[b][j].attempt]]
      /\ UNCHANGED <<mem, disk, paper, faults>>
  BY DEF Recover, Stages, Calling
<1>3. /\ pc' \in [Bridges -> Stages] /\ reply' \in [Bridges -> {"none", "ok", "error", "nothing", "granted"}]
      /\ pc'[b] = "recover" /\ reply'[b] = "none"
      /\ \A c \in Bridges \ {b} : pc'[c] = pc[c] /\ reply'[c] = reply[c]
  BY <1>1, <1>2, Calls
<1>4. mem[b][j].attempt \in Attempts /\ mem[b][j].attempt <= jobs[j].attempt
  <2>1. mem[b][j].state # "NONE" /\ EntryOK(b, j, mem[b][j])
    BY <1>1, <1>2 DEF AgentOK, JournalOK
  <2> QED BY <2>1 DEF EntryOK
<1>5. [job |-> j, attempt |-> mem[b][j].attempt] \in Grant
  BY <1>4 DEF Grant
<1>6. /\ todo' \in [Bridges -> SUBSET Jobs] /\ cur' \in [Bridges -> Grant \cup {NoGrant}]
      /\ cur'[b].job = j /\ cur'[b].attempt = mem[b][j].attempt /\ cur'[b] # NoGrant
      /\ todo'[b] = todo[b] \ {j}
      /\ \A c \in Bridges \ {b} : cur'[c] = cur[c] /\ todo'[c] = todo[c]
  <2>1. \A c \in Bridges : todo[c] \in SUBSET Jobs
    BY <1>1 DEF BridgeTypeOK
  <2>2. todo \in [Bridges -> SUBSET Jobs] /\ cur \in [Bridges -> Grant \cup {NoGrant}]
    BY <1>1 DEF BridgeTypeOK
  <2>3. todo' \in [Bridges -> SUBSET Jobs]
    BY <1>2, <2>1, <2>2
  <2>4. cur'[b] = [job |-> j, attempt |-> mem[b][j].attempt]
    BY <1>2, <2>2
  <2> QED BY <1>2, <1>5, <2>2, <2>3, <2>4, NoGrantIsNone
<1>7. Only(b)
  BY <1>2, <1>3, <1>6 DEF Only
<1>8. BridgeTypeOK'
  BY <1>1, <1>2, <1>3, <1>6 DEF BridgeTypeOK
<1>9. GrantOK(b)' /\ ~Fresh(b)'
  <2>1. mem[b][j].attempt \in Nat
    BY <1>4, NoGrantIsNone
  <2> QED BY <1>1, <1>2, <1>3, <1>4, <1>6, <2>1 DEF GrantOK, Fresh
<1>10. \A i \in todo'[b] : mem[b][i].state # "NONE"
  BY <1>1, <1>6 DEF AgentOK
<1> QED BY <1>1, <1>2, <1>7, <1>8, <1>9, <1>10, NetworkAtRest, IdleStep

\* Back to the loop after a report was answered.
LEMMA Resumes ==
  ASSUME PipeInv, NEW b \in Bridges, NEW m, Resume(b, m)
  PROVE  /\ pc' \in [Bridges -> Stages] /\ reply' \in [Bridges -> {"none", "ok", "error", "nothing", "granted"}]
         /\ todo' \in [Bridges -> SUBSET Jobs] /\ cur' \in [Bridges -> Grant \cup {NoGrant}]
         /\ pc'[b] = "loop" /\ reply'[b] = "none" /\ cur'[b] = NoGrant
         /\ todo'[b] \subseteq todo[b] \cup Unacked(m)
         /\ \A c \in Bridges \ {b} :
              pc'[c] = pc[c] /\ reply'[c] = reply[c] /\ cur'[c] = cur[c] /\ todo'[c] = todo[c]
         /\ GrantOK(b)' /\ ~Fresh(b)'
<1>1. BridgeTypeOK /\ "loop" \in Stages
  BY DEF PipeInv, Stages
<1>2. CASE pc[b] = "recover"
  <2>1. Call(b, "loop") /\ cur' = [cur EXCEPT ![b] = NoGrant] /\ UNCHANGED todo
    BY <1>2 DEF Resume
  <2>2. /\ todo' \in [Bridges -> SUBSET Jobs] /\ cur' \in [Bridges -> Grant \cup {NoGrant}]
        /\ cur'[b] = NoGrant /\ todo'[b] = todo[b]
        /\ \A c \in Bridges \ {b} : cur'[c] = cur[c] /\ todo'[c] = todo[c]
    BY <1>1, <2>1 DEF BridgeTypeOK
  <2>3. /\ pc' \in [Bridges -> Stages] /\ reply' \in [Bridges -> {"none", "ok", "error", "nothing", "granted"}]
        /\ pc'[b] = "loop" /\ reply'[b] = "none"
        /\ \A c \in Bridges \ {b} : pc'[c] = pc[c] /\ reply'[c] = reply[c]
    BY <1>1, <2>1, Calls
  <2>4. GrantOK(b)' /\ ~Fresh(b)'
    BY <2>2, <2>3 DEF GrantOK, Fresh, Journalled
  <2> QED BY <2>2, <2>3, <2>4
<1>3. CASE pc[b] # "recover"
  <2>1. LoopAgain(b, m)
    BY <1>3 DEF Resume
  <2> QED BY <1>1, <2>1, Loops
<1> QED BY <1>2, <1>3

\* A report that was not accepted keeps its entry.
LEMMA KeepForLaterStep ==
  ASSUME PipeInv, NEW b \in Bridges, KeepForLater(b), UNCHANGED <<serverVars, networkVars>>
  PROVE  PipeInv'
<1>1. Onward /\ BridgeTypeOK /\ pc[b] # "down" /\ UNCHANGED <<mem, disk, paper, faults>>
  BY NothingHappens DEF PipeInv, KeepForLater
<1>2. PICK m : m = mem[b]
  OBVIOUS
<1>3. Resume(b, m) /\ JournalOK(b, m) /\ \A j \in todo[b] : m[j].state # "NONE"
  BY <1>2, AgentTypes DEF AgentOK, KeepForLater
<1>4. /\ pc' \in [Bridges -> Stages] /\ reply' \in [Bridges -> {"none", "ok", "error", "nothing", "granted"}]
      /\ todo' \in [Bridges -> SUBSET Jobs] /\ cur' \in [Bridges -> Grant \cup {NoGrant}]
      /\ pc'[b] = "loop" /\ reply'[b] = "none" /\ cur'[b] = NoGrant
      /\ todo'[b] \subseteq todo[b] \cup Unacked(m)
      /\ \A c \in Bridges \ {b} :
           pc'[c] = pc[c] /\ reply'[c] = reply[c] /\ cur'[c] = cur[c] /\ todo'[c] = todo[c]
      /\ GrantOK(b)' /\ ~Fresh(b)'
  BY <1>3, Resumes
<1>5. Only(b)
  BY <1>1, <1>4 DEF Only
<1>6. BridgeTypeOK'
  BY <1>1, <1>4 DEF BridgeTypeOK
<1>7. \A j \in todo'[b] : mem[b][j].state # "NONE"
  BY <1>2, <1>3, <1>4, UnackedEntry
<1> QED BY <1>1, <1>4, <1>5, <1>6, <1>7, NetworkAtRest, IdleStep

\* After a crash the journal is what the disk holds.
LEMMA RestartStep ==
  ASSUME PipeInv, NEW b \in Bridges, Restart(b), UNCHANGED <<serverVars, networkVars>>
  PROVE  PipeInv'
<1>1. Onward /\ BridgeTypeOK /\ UNCHANGED <<disk, paper, faults>> /\ PaperStays
  BY NothingHappens DEF PipeInv, Restart, PaperStays
<1>2. PICK m : m = disk[b]
  OBVIOUS
<1>3. LoopAgain(b, m) /\ JournalOK(b, m) /\ m \in [Jobs -> Entry] /\ mem' = [mem EXCEPT ![b] = m]
  BY <1>2, AgentTypes DEF AgentOK, Restart
<1>4. /\ pc' \in [Bridges -> Stages] /\ reply' \in [Bridges -> {"none", "ok", "error", "nothing", "granted"}]
      /\ todo' \in [Bridges -> SUBSET Jobs] /\ cur' \in [Bridges -> Grant \cup {NoGrant}]
      /\ pc'[b] = "loop" /\ reply'[b] = "none" /\ cur'[b] = NoGrant /\ todo'[b] = Unacked(m)
      /\ \A c \in Bridges \ {b} :
           pc'[c] = pc[c] /\ reply'[c] = reply[c] /\ cur'[c] = cur[c] /\ todo'[c] = todo[c]
      /\ GrantOK(b)' /\ ~Fresh(b)'
  BY <1>1, <1>3, Loops
<1>5. mem' \in [Bridges -> [Jobs -> Entry]] /\ mem'[b] = m /\ \A c \in Bridges \ {b} : mem'[c] = mem[c]
  BY <1>1, <1>3 DEF BridgeTypeOK
<1>6. Only(b)
  BY <1>1, <1>4, <1>5 DEF Only
<1>7. BridgeTypeOK'
  BY <1>1, <1>4, <1>5 DEF BridgeTypeOK
<1>8. JournalOK(b, mem[b])'
  <2>1. JournalOK(b, m)'
    BY <1>1, <1>3, JournalLasts DEF PipeInv
  <2> QED BY <1>5, <2>1 DEF JournalOK
<1>9. \A j \in todo'[b] : mem'[b][j].state # "NONE"
  BY <1>3, <1>4, <1>5, UnackedEntry
<1>10. \A j \in Jobs : disk[b][j].attempt <= mem'[b][j].attempt
  <2>1. \A j \in Jobs : m[j].attempt \in Nat
    BY <1>3, Entries
  <2> QED BY <1>2, <1>5, <2>1
<1> QED BY <1>1, <1>4, <1>6, <1>7, <1>8, <1>9, <1>10, NetworkAtRest, QuietStep

\* A write of the journal, which may have failed.
LEMMA JournalWritten ==
  ASSUME NEW b \in Bridges, NEW m \in [Jobs -> Entry], NEW kept \in [Jobs -> Entry], NEW d,
         PipeInv, Onward, UNCHANGED paper, pc[b] # "down",
         JournalOK(b, m)', \A i \in Jobs : mem[b][i].attempt <= m[i].attempt,
         kept = m \/ (kept = mem[b] /\ \A i \in Jobs : m[i].attempt = mem[b][i].attempt),
         d \in {disk[b], m},
         mem' = [mem EXCEPT ![b] = kept], disk' = [disk EXCEPT ![b] = d]
  PROVE  /\ mem' \in [Bridges -> [Jobs -> Entry]] /\ disk' \in [Bridges -> [Jobs -> Entry]]
         /\ mem'[b] = kept /\ disk'[b] = d
         /\ \A c \in Bridges \ {b} : mem'[c] = mem[c] /\ disk'[c] = disk[c]
         /\ JournalOK(b, kept)' /\ JournalOK(b, d)'
         /\ \A i \in Jobs : disk'[b][i].attempt <= mem'[b][i].attempt
         /\ TicketIsOnRecord'
<1>1. /\ mem \in [Bridges -> [Jobs -> Entry]] /\ disk \in [Bridges -> [Jobs -> Entry]]
      /\ d \in [Jobs -> Entry]
  BY AgentTypes DEF PipeInv, BridgeTypeOK
<1>2. /\ mem' \in [Bridges -> [Jobs -> Entry]] /\ disk' \in [Bridges -> [Jobs -> Entry]]
      /\ mem'[b] = kept /\ disk'[b] = d
      /\ \A c \in Bridges \ {b} : mem'[c] = mem[c] /\ disk'[c] = disk[c]
  BY <1>1
<1>3. PaperStays
  BY DEF PaperStays
<1>4. JournalOK(b, kept)' /\ JournalOK(b, d)'
  <2>1. PICK m0, d0 : m0 = mem[b] /\ d0 = disk[b]
    OBVIOUS
  <2>2. JournalOK(b, m0)' /\ JournalOK(b, d0)'
    BY <1>3, <2>1, AgentTypes, JournalLasts DEF PipeInv, AgentOK
  <2>3. (kept = m \/ kept = m0) /\ (d = m \/ d = d0)
    BY <2>1
  <2> QED BY <2>2, <2>3
<1>5. ASSUME NEW i \in Jobs
      PROVE  /\ disk[b][i].attempt \in Nat /\ mem[b][i].attempt \in Nat /\ m[i].attempt \in Nat
             /\ disk[b][i].attempt <= mem[b][i].attempt /\ mem[b][i].attempt <= m[i].attempt
  BY AgentTypes, Entries DEF AgentOK
<1>6. \A i \in Jobs : disk'[b][i].attempt <= mem'[b][i].attempt
  <2> TAKE i \in Jobs
  <2>1. d[i].attempt <= kept[i].attempt
    BY <1>5
  <2> QED BY <1>2, <2>1
<1>7. TicketIsOnRecord'
  <2> SUFFICES ASSUME NEW j \in Jobs, NEW a \in Attempts, paper[j][a] > 0
               PROVE  \/ \E k \in acks' : k.job = j /\ k.attempt >= a
                      \/ \E c \in Bridges : ~disk'[c][j].acked /\ disk'[c][j].attempt >= a
    BY DEF TicketIsOnRecord
  <2>1. CASE \E k \in acks : k.job = j /\ k.attempt >= a
    BY <2>1 DEF Onward
  <2>2. CASE \E c \in Bridges : ~disk[c][j].acked /\ disk[c][j].attempt >= a
    <3>1. PICK c \in Bridges : ~disk[c][j].acked /\ disk[c][j].attempt >= a
      BY <2>2
    <3>2. CASE c # b \/ d = disk[b]
      BY <1>2, <3>1, <3>2
    <3>3. CASE c = b /\ d = m
      <4>1. m[j].attempt >= a /\ a \in Nat /\ a # 0 /\ m[j].attempt \in Nat
        BY <1>5, <3>1, <3>3, NoGrantIsNone
      <4>2. CASE ~m[j].acked
        BY <1>2, <3>3, <4>1, <4>2
      <4>3. CASE m[j].acked
        <5>1. m[j].state # "NONE"
          BY <4>1 DEF JournalOK, EntryOK, NoEntry
        <5>2. PICK k \in acks' : k.job = j /\ k.attempt >= m[j].attempt
          BY <4>3, <5>1 DEF JournalOK, EntryOK
        <5>3. k.attempt \in Nat
          BY <5>2, NoGrantIsNone DEF Onward, ServerInv, ServerTypeOK, Ack
        <5> QED BY <4>1, <5>2, <5>3
      <4> QED BY <4>2, <4>3
    <3> QED BY <3>2, <3>3
  <2> QED BY <2>1, <2>2 DEF PipeInv, TicketIsOnRecord
<1> QED BY <1>2, <1>4, <1>6, <1>7

\* A step that writes the journal: what has to be shown of it.
LEMMA WriteStep ==
  ASSUME NEW b \in Bridges, NEW m \in [Jobs -> Entry], NEW kept \in [Jobs -> Entry], NEW d,
         PipeInv, Onward, UNCHANGED paper, UNCHANGED networkVars, pc[b] # "down",
         JournalOK(b, m)', \A i \in Jobs : mem[b][i].attempt <= m[i].attempt,
         kept = m \/ (kept = mem[b] /\ \A i \in Jobs : m[i].attempt = mem[b][i].attempt),
         d \in {disk[b], m},
         mem' = [mem EXCEPT ![b] = kept], disk' = [disk EXCEPT ![b] = d], faults' \in Nat,
         pc' \in [Bridges -> Stages], reply' \in [Bridges -> {"none", "ok", "error", "nothing", "granted"}],
         todo' \in [Bridges -> SUBSET Jobs], cur' \in [Bridges -> Grant \cup {NoGrant}],
         cur'[b] = NoGrant => pc'[b] = "loop",
         \A c \in Bridges \ {b} :
           pc'[c] = pc[c] /\ reply'[c] = reply[c] /\ cur'[c] = cur[c] /\ todo'[c] = todo[c],
         \A i \in todo'[b] : kept[i].state # "NONE",
         GrantOK(b)',
         Fresh(b)' => \A c \in Bridges \ {b} : Fresh(c) => cur[c] # cur'[b]
  PROVE  PipeInv'
<1>1. /\ mem' \in [Bridges -> [Jobs -> Entry]] /\ disk' \in [Bridges -> [Jobs -> Entry]]
      /\ mem'[b] = kept /\ disk'[b] = d
      /\ \A c \in Bridges \ {b} : mem'[c] = mem[c] /\ disk'[c] = disk[c]
      /\ JournalOK(b, kept)' /\ JournalOK(b, d)'
      /\ \A i \in Jobs : disk'[b][i].attempt <= mem'[b][i].attempt
      /\ TicketIsOnRecord'
  BY JournalWritten
<1>2. Only(b)
  BY <1>1 DEF Only
<1>3. BridgeTypeOK'
  <2>1. BridgeTypeOK
    BY DEF PipeInv
  <2>2. \A c \in Bridges : cur'[c] = NoGrant =>
          pc'[c] \in {"down", "loop"} \/ (pc'[c] = "claim" /\ reply'[c] # "granted")
    BY <2>1 DEF BridgeTypeOK
  <2>3. paper' \in [Jobs -> [Attempts -> Nat]]
    BY <2>1 DEF BridgeTypeOK
  <2> QED BY <1>1, <2>2, <2>3 DEF BridgeTypeOK
<1>4. AgentOK(b)'
  <2>1. JournalOK(b, mem[b])' /\ JournalOK(b, disk[b])'
    BY <1>1 DEF JournalOK
  <2>2. \A i \in todo'[b] : mem'[b][i].state # "NONE"
    BY <1>1
  <2> QED BY <1>1, <2>1, <2>2 DEF AgentOK
<1>5. /\ PaperStays /\ PaperFollowsClaims'
      /\ \A c \in Bridges : Fresh(c) => paper'[cur[c].job][cur[c].attempt] = 0
  BY PaperAtRest
<1>6. NetworkTypeOK' /\ LateReportsOK'
  BY <1>5, NetworkAtRest, LateAtRest
<1> QED BY <1>1, <1>2, <1>3, <1>4, <1>5, <1>6, AgentStep

\* The journal with one entry replaced by one that is right too.
LEMMA JournalExtended ==
  ASSUME NEW b \in Bridges, NEW j \in Jobs, NEW e \in Entry, NEW m \in [Jobs -> Entry],
         PipeInv, Onward, PaperStays, EntryOK(b, j, e), mem[b][j].attempt <= e.attempt,
         m = [mem[b] EXCEPT ![j] = e]
  PROVE  /\ m[j] = e /\ \A i \in Jobs \ {j} : m[i] = mem[b][i]
         /\ JournalOK(b, m)' /\ \A i \in Jobs : mem[b][i].attempt <= m[i].attempt
<1>1. mem[b] \in [Jobs -> Entry] /\ JournalOK(b, mem[b])
  BY AgentTypes DEF AgentOK
<1>2. m[j] = e /\ \A i \in Jobs \ {j} : m[i] = mem[b][i]
  BY <1>1
<1>3. JournalOK(b, m)
  BY <1>1, <1>2 DEF JournalOK
<1>4. JournalOK(b, m)'
  BY <1>2, <1>3, JournalLasts DEF PipeInv
<1>5. \A i \in Jobs : mem[b][i].attempt \in Nat
  BY <1>1, Entries
<1> QED BY <1>2, <1>4, <1>5

\* The journal comes before the print.
LEMMA DispatchStep ==
  ASSUME PipeInv, NEW b \in Bridges, Dispatch(b), UNCHANGED serverVars, UNCHANGED networkVars
  PROVE  PipeInv'
<1>1. /\ Onward /\ BridgeTypeOK /\ AgentOK(b) /\ GrantsDiffer /\ UNCHANGED jobs
      /\ UNCHANGED <<todo, cur, paper>> /\ PaperStays /\ faults \in Nat
  BY NothingHappens, AgentTypes DEF PipeInv, Dispatch, PaperStays, serverVars, BridgeTypeOK
<1>2. PICK g : g = cur[b]
  OBVIOUS
<1>3. /\ pc[b] = "claim" /\ reply[b] = "granted" /\ Fresh(b)
      /\ g.job \in Jobs \ (Unacked(mem[b]) \cup Malformed)
      /\ g \in Grant /\ g # NoGrant /\ g.attempt \in Attempts /\ g.attempt \in Nat
  BY <1>2, HasGrant, NoGrantIsNone DEF Dispatch, Fresh
<1>4. PICK m : m = [mem[b] EXCEPT ![g.job] = Dispatching(g)]
  OBVIOUS
<1>5. \/ mem' = [mem EXCEPT ![b] = m] /\ disk' = [disk EXCEPT ![b] = m] /\ UNCHANGED faults /\ Call(b, "spool")
      \/ FailToPersist(b, m, m) /\ Call(b, "failed")
  BY <1>2, <1>4 DEF Dispatch, Persist
<1>6. EntryOK(b, g.job, Dispatching(g)) /\ mem[b][g.job].attempt <= Dispatching(g).attempt
      /\ Dispatching(g) \in Entry /\ ~Dispatching(g).acked /\ Dispatching(g).attempt = g.attempt
      /\ Dispatching(g).state # "NONE"
  <2>1. g.attempt <= jobs[g.job].attempt /\ mem[b][g.job].attempt <= g.attempt
    BY <1>1, <1>2, <1>3 DEF AgentOK, GrantOK
  <2>2. Dispatching(g) \in Entry
    BY <1>3, Entries
  <2> QED BY <1>3, <2>1, <2>2 DEF EntryOK, Dispatching
<1>7. /\ m \in [Jobs -> Entry] /\ m[g.job] = Dispatching(g) /\ \A i \in Jobs \ {g.job} : m[i] = mem[b][i]
      /\ JournalOK(b, m)' /\ \A i \in Jobs : mem[b][i].attempt <= m[i].attempt
  <2>1. m \in [Jobs -> Entry] /\ g.job \in Jobs
    BY <1>3, <1>4, <1>6, AgentTypes
  <2> QED BY <1>1, <1>4, <1>6, <2>1, JournalExtended
<1>8. PICK stage \in {"spool", "failed"}, d \in {disk[b], m} :
        /\ Call(b, stage) /\ mem' = [mem EXCEPT ![b] = m] /\ disk' = [disk EXCEPT ![b] = d]
        /\ stage = "spool" => d = m
        /\ faults' \in Nat
  BY <1>1, <1>5 DEF FailToPersist
<1>9. stage \in Stages
  BY DEF Stages, Calling
<1>10. /\ pc' \in [Bridges -> Stages] /\ reply' \in [Bridges -> {"none", "ok", "error", "nothing", "granted"}]
       /\ pc'[b] = stage /\ reply'[b] = "none"
       /\ \A c \in Bridges \ {b} : pc'[c] = pc[c] /\ reply'[c] = reply[c]
  BY <1>1, <1>8, <1>9, Calls
<1>11. mem'[b] = m /\ disk'[b] = d
  BY <1>1, <1>8 DEF BridgeTypeOK
<1>12. GrantOK(b)'
  <2>1. cur'[b] = g /\ paper'[g.job][g.attempt] = 0 /\ g.attempt <= jobs'[g.job].attempt
    BY <1>1, <1>2, <1>3 DEF AgentOK, GrantOK
  <2>2. mem'[b][g.job].attempt = g.attempt
    BY <1>6, <1>7, <1>11
  <2>3. pc'[b] = "spool" => ~disk'[b][g.job].acked /\ disk'[b][g.job].attempt = g.attempt
    BY <1>6, <1>7, <1>8, <1>10, <1>11
  <2>4. pc'[b] \notin {"sent", "printed"} /\ reply'[b] # "ok"
    BY <1>8, <1>10
  <2> QED BY <1>3, <2>1, <2>2, <2>3, <2>4 DEF GrantOK
<1>13. \A c \in Bridges \ {b} : Fresh(c) => cur[c] # cur'[b]
  BY <1>1, <1>3 DEF GrantsDiffer
<1>14. \A i \in todo'[b] : m[i].state # "NONE"
  BY <1>1, <1>6, <1>7, AgentTypes DEF AgentOK
<1>15. /\ todo' \in [Bridges -> SUBSET Jobs] /\ cur' \in [Bridges -> Grant \cup {NoGrant}]
       /\ cur'[b] # NoGrant
       /\ \A c \in Bridges \ {b} : cur'[c] = cur[c] /\ todo'[c] = todo[c]
  BY <1>1, <1>2, <1>3 DEF BridgeTypeOK
<1> QED BY <1>1, <1>3, <1>7, <1>8, <1>10, <1>12, <1>13, <1>14, <1>15, WriteStep

\* The print is journalled before it is reported.
LEMMA RecordPrintedStep ==
  ASSUME PipeInv, NEW b \in Bridges, RecordPrinted(b), UNCHANGED serverVars, UNCHANGED networkVars
  PROVE  PipeInv'
<1>1. /\ Onward /\ BridgeTypeOK /\ AgentOK(b) /\ UNCHANGED jobs
      /\ UNCHANGED <<todo, cur, paper>> /\ PaperStays /\ faults \in Nat
  BY NothingHappens, AgentTypes DEF PipeInv, RecordPrinted, PaperStays, serverVars, BridgeTypeOK
<1>2. PICK g : g = cur[b]
  OBVIOUS
<1>3. /\ pc[b] = "sent" /\ g.job \in Jobs
      /\ g \in Grant /\ g # NoGrant /\ g.attempt \in Attempts /\ g.attempt \in Nat
  BY <1>2, HasGrant, NoGrantIsNone DEF RecordPrinted
<1>4. PICK m : m = [mem[b] EXCEPT ![g.job] = Printed(g)]
  OBVIOUS
<1>5. \/ mem' = [mem EXCEPT ![b] = m] /\ disk' = [disk EXCEPT ![b] = m] /\ UNCHANGED faults /\ Call(b, "printed")
      \/ FailToPersist(b, m, m) /\ Call(b, "failed")
  BY <1>2, <1>4 DEF RecordPrinted, Persist
<1>6. EntryOK(b, g.job, Printed(g)) /\ mem[b][g.job].attempt <= Printed(g).attempt
      /\ Printed(g) \in Entry /\ Printed(g).attempt = g.attempt /\ Printed(g).state # "NONE"
  <2>1. /\ g.attempt <= jobs[g.job].attempt /\ mem[b][g.job].attempt <= g.attempt
        /\ paper[g.job][g.attempt] > 0
    BY <1>1, <1>2, <1>3 DEF AgentOK, GrantOK
  <2>2. Printed(g) \in Entry
    BY <1>3, Entries
  <2>3. OnPaper(g.job)
    BY <1>3, <2>1 DEF OnPaper
  <2> QED BY <1>3, <2>1, <2>2, <2>3 DEF EntryOK, Printed
<1>7. /\ m \in [Jobs -> Entry] /\ m[g.job] = Printed(g) /\ \A i \in Jobs \ {g.job} : m[i] = mem[b][i]
      /\ JournalOK(b, m)' /\ \A i \in Jobs : mem[b][i].attempt <= m[i].attempt
  <2>1. m \in [Jobs -> Entry] /\ g.job \in Jobs
    BY <1>3, <1>4, <1>6, AgentTypes
  <2> QED BY <1>1, <1>4, <1>6, <2>1, JournalExtended
<1>8. PICK stage \in {"printed", "failed"}, d \in {disk[b], m} :
        /\ Call(b, stage) /\ mem' = [mem EXCEPT ![b] = m] /\ disk' = [disk EXCEPT ![b] = d]
        /\ faults' \in Nat
  BY <1>1, <1>5 DEF FailToPersist
<1>9. stage \in Stages
  BY DEF Stages, Calling
<1>10. /\ pc' \in [Bridges -> Stages] /\ reply' \in [Bridges -> {"none", "ok", "error", "nothing", "granted"}]
       /\ pc'[b] = stage /\ reply'[b] = "none"
       /\ \A c \in Bridges \ {b} : pc'[c] = pc[c] /\ reply'[c] = reply[c]
  BY <1>1, <1>8, <1>9, Calls
<1>11. mem'[b] = m
  BY <1>1, <1>8 DEF BridgeTypeOK
<1>12. GrantOK(b)' /\ ~Fresh(b)'
  <2>1. cur'[b] = g /\ paper'[g.job][g.attempt] > 0 /\ g.attempt <= jobs'[g.job].attempt
    BY <1>1, <1>2, <1>3 DEF AgentOK, GrantOK
  <2>2. mem'[b][g.job].attempt = g.attempt
    BY <1>6, <1>7, <1>11
  <2>3. pc'[b] \notin {"spool", "claim"} /\ reply'[b] # "ok"
    BY <1>8, <1>10
  <2> QED BY <1>3, <2>1, <2>2, <2>3 DEF GrantOK, Fresh
<1>14. \A i \in todo'[b] : m[i].state # "NONE"
  BY <1>1, <1>6, <1>7, AgentTypes DEF AgentOK
<1>15. /\ todo' \in [Bridges -> SUBSET Jobs] /\ cur' \in [Bridges -> Grant \cup {NoGrant}]
       /\ cur'[b] # NoGrant
       /\ \A c \in Bridges \ {b} : cur'[c] = cur[c] /\ todo'[c] = todo[c]
  BY <1>1, <1>2, <1>3 DEF BridgeTypeOK
<1> QED BY <1>1, <1>3, <1>7, <1>8, <1>10, <1>12, <1>14, <1>15, WriteStep

\* An entry is settled on the answer that its report is stored.
LEMMA ConfirmStep ==
  ASSUME PipeInv, NEW b \in Bridges, Confirm(b), UNCHANGED serverVars, UNCHANGED networkVars
  PROVE  PipeInv'
<1>1. /\ Onward /\ BridgeTypeOK /\ AgentOK(b) /\ UNCHANGED <<paper, jobs>> /\ PaperStays /\ faults \in Nat
      /\ pc[b] # "down"
  BY NothingHappens, AgentTypes DEF PipeInv, Confirm, PaperStays, serverVars, BridgeTypeOK
<1>2. PICK j, m0 : j = cur[b].job /\ m0 = mem[b]
  OBVIOUS
<1>3. PICK e : e = [m0[j] EXCEPT !.acked = TRUE]
  OBVIOUS
<1>4. /\ pc[b] \in {"recover", "reclaim", "printed", "failed"} /\ reply[b] = "ok"
      /\ j \in Unacked(m0) /\ cur[b] # NoGrant /\ cur[b].attempt \in Nat
      /\ m0 \in [Jobs -> Entry] /\ JournalOK(b, m0) /\ j \in Jobs
  BY <1>1, <1>2, HasGrant, NoGrantIsNone, AgentTypes DEF Confirm, AgentOK
<1>5. m0[j].state # "NONE" /\ EntryOK(b, j, m0[j]) /\ m0[j] \in Entry
  BY <1>4, UnackedEntry DEF JournalOK
<1>6. e \in Entry /\ e.attempt = m0[j].attempt /\ e.state = m0[j].state /\ e.acked /\ e.attempt \in Nat
  BY <1>3, <1>5, Entries DEF Entry
<1>7. EntryOK(b, j, e)
  <2>1. PICK k \in acks : k.bridge = b /\ k.job = j /\ k.attempt = cur[b].attempt
    BY <1>1, <1>2, <1>4 DEF AgentOK, GrantOK
  <2>2. m0[j].attempt <= cur[b].attempt
    BY <1>1, <1>2, <1>4 DEF AgentOK, GrantOK
  <2> QED BY <1>4, <1>5, <1>6, <2>1, <2>2 DEF EntryOK
<1>8. PICK m : m = [mem[b] EXCEPT ![j] = e]
  OBVIOUS
<1>9. /\ m \in [Jobs -> Entry] /\ m[j] = e /\ \A i \in Jobs \ {j} : m[i] = mem[b][i]
      /\ JournalOK(b, m)' /\ \A i \in Jobs : mem[b][i].attempt <= m[i].attempt
  <2>1. mem[b][j].attempt <= e.attempt
    BY <1>2, <1>6
  <2>2. m \in [Jobs -> Entry]
    BY <1>2, <1>4, <1>6, <1>8
  <2> QED BY <1>1, <1>4, <1>6, <1>7, <1>8, <2>1, <2>2, JournalExtended
<1>10. Acked(mem[b], cur[b].job) = m
  BY <1>2, <1>3, <1>8 DEF Acked
<1>11. PICK kept \in {m, m0}, d \in {disk[b], m} :
         /\ mem' = [mem EXCEPT ![b] = kept] /\ disk' = [disk EXCEPT ![b] = d]
         /\ Resume(b, kept) /\ faults' \in Nat
  <2>1. CASE Persist(b, m) /\ Resume(b, m)
    BY <1>1, <2>1 DEF Persist
  <2>2. CASE FailToPersist(b, m, mem[b]) /\ Resume(b, mem[b])
    <3>1. PICK d \in {disk[b], m} : disk' = [disk EXCEPT ![b] = d]
      BY <2>2 DEF FailToPersist
    <3>2. mem' = [mem EXCEPT ![b] = m0] /\ Resume(b, m0) /\ faults' \in Nat
      BY <1>1, <1>2, <2>2 DEF FailToPersist
    <3> QED BY <3>1, <3>2
  <2> QED BY <1>10, <2>1, <2>2 DEF Confirm
<1>12. /\ pc' \in [Bridges -> Stages] /\ reply' \in [Bridges -> {"none", "ok", "error", "nothing", "granted"}]
       /\ todo' \in [Bridges -> SUBSET Jobs] /\ cur' \in [Bridges -> Grant \cup {NoGrant}]
       /\ pc'[b] = "loop" /\ reply'[b] = "none" /\ cur'[b] = NoGrant
       /\ todo'[b] \subseteq todo[b] \cup Unacked(kept)
       /\ \A c \in Bridges \ {b} :
            pc'[c] = pc[c] /\ reply'[c] = reply[c] /\ cur'[c] = cur[c] /\ todo'[c] = todo[c]
       /\ GrantOK(b)' /\ ~Fresh(b)'
  BY <1>11, Resumes
<1>13. \A i \in Jobs : m[i].attempt = mem[b][i].attempt /\ m[i].state = mem[b][i].state
  BY <1>2, <1>6, <1>9
<1>14. \A i \in todo'[b] : kept[i].state # "NONE"
  <2>1. \A i \in todo[b] : i \in Jobs /\ mem[b][i].state # "NONE"
    BY <1>1, AgentTypes DEF AgentOK
  <2>2. \A i \in Unacked(kept) : i \in Jobs /\ kept[i].state # "NONE"
    <3>1. CASE kept = m0
      BY <1>4, <3>1, UnackedEntry
    <3>2. CASE kept = m
      <4>1. \A i \in Unacked(m) : i \in Unacked(m0) /\ i \in Jobs
        BY <1>2, <1>6, <1>9 DEF Unacked
      <4> QED BY <1>2, <1>4, <1>13, <3>2, <4>1, UnackedEntry
    <3> QED BY <3>1, <3>2
  <2> QED BY <1>2, <1>12, <1>13, <2>1, <2>2
<1>15. /\ kept \in [Jobs -> Entry]
       /\ kept = m \/ (kept = mem[b] /\ \A i \in Jobs : m[i].attempt = mem[b][i].attempt)
  BY <1>2, <1>4, <1>9, <1>13
<1> QED BY <1>1, <1>9, <1>11, <1>12, <1>14, <1>15, WriteStep

\* The one step that puts ink on paper.
LEMMA SpoolStep ==
  ASSUME PipeInv, NEW b \in Bridges, Spool(b), UNCHANGED serverVars, UNCHANGED networkVars
  PROVE  PipeInv'
<1>1. /\ Onward /\ BridgeTypeOK /\ AgentOK(b) /\ GrantsDiffer /\ UNCHANGED jobs /\ pc[b] = "spool" /\ Fresh(b)
      /\ UNCHANGED <<todo, cur, mem, disk, faults>>
  BY NothingHappens, AgentTypes DEF PipeInv, Spool, serverVars, Fresh
<1>2. PICK j, a : j = cur[b].job /\ a = cur[b].attempt
  OBVIOUS
<1>3. /\ j \in Jobs /\ a \in Attempts /\ a \in Nat /\ cur[b] = [job |-> j, attempt |-> a] /\ cur[b] # NoGrant
      /\ cur[b] \in Grant
  BY <1>1, <1>2, HasGrant, NoGrantIsNone
<1>4. paper[j][a] = 0 /\ a <= jobs[j].attempt /\ mem[b][j].attempt = a /\ ~disk[b][j].acked /\ disk[b][j].attempt = a
  BY <1>1, <1>2, <1>3 DEF AgentOK, GrantOK, Journalled
<1>5. PICK stage \in {"sent", "failed"} :
        /\ Call(b, stage)
        /\ paper' = [paper EXCEPT ![j][a] = paper[j][a] + 1] \/ (UNCHANGED paper /\ stage = "failed")
  BY <1>2 DEF Spool
<1>6. /\ pc' \in [Bridges -> Stages] /\ reply' \in [Bridges -> {"none", "ok", "error", "nothing", "granted"}]
      /\ pc'[b] = stage /\ reply'[b] = "none"
      /\ \A c \in Bridges \ {b} : pc'[c] = pc[c] /\ reply'[c] = reply[c]
  <2>1. stage \in Stages
    BY DEF Stages, Calling
  <2> QED BY <1>1, <1>5, <2>1, Calls
<1>7. Only(b) /\ ~Fresh(b)'
  BY <1>1, <1>6 DEF Only, Fresh
<1>8. CASE UNCHANGED paper /\ stage = "failed"
  <2>1. BridgeTypeOK'
    BY <1>1, <1>3, <1>6, <1>8 DEF BridgeTypeOK
  <2>2. GrantOK(b)'
    BY <1>1, <1>2, <1>3, <1>4, <1>6, <1>7, <1>8 DEF AgentOK, GrantOK
  <2>3. \A i \in todo'[b] : mem[b][i].state # "NONE"
    BY <1>1 DEF AgentOK
  <2> QED BY <1>1, <1>7, <1>8, <2>1, <2>2, <2>3, NetworkAtRest, IdleStep
<1>9. CASE paper' = [paper EXCEPT ![j][a] = paper[j][a] + 1]
  <2>1. /\ paper' \in [Jobs -> [Attempts -> Nat]] /\ paper'[j][a] = 1
        /\ \A i \in Jobs, n \in Attempts : i # j \/ n # a => paper'[i][n] = paper[i][n]
    BY <1>1, <1>3, <1>4, <1>9 DEF BridgeTypeOK
  <2>2. PaperStays
    BY <2>1 DEF PaperStays
  <2>3. PaperFollowsClaims'
    <3>1. \A i \in Jobs, n \in Attempts : paper[i][n] > 0 => paper[i][n] = 1 /\ n <= jobs[i].attempt
      BY DEF PipeInv, PaperFollowsClaims
    <3>2. \A i \in Jobs, n \in Attempts : paper'[i][n] > 0 => paper'[i][n] = 1 /\ n <= jobs[i].attempt
      BY <1>4, <2>1, <3>1
    <3> QED BY <1>1, <3>2 DEF PaperFollowsClaims
  <2>4. \A c \in Bridges \ {b} : Fresh(c) => paper'[cur[c].job][cur[c].attempt] = 0
    <3> SUFFICES ASSUME NEW c \in Bridges \ {b}, Fresh(c)
                 PROVE  paper'[cur[c].job][cur[c].attempt] = 0
      OBVIOUS
    <3>1. pc[c] \notin {"down", "loop"} /\ (pc[c] = "claim" => reply[c] = "granted")
      BY DEF Fresh
    <3>2. /\ cur[c].job \in Jobs /\ cur[c].attempt \in Attempts
          /\ cur[c] = [job |-> cur[c].job, attempt |-> cur[c].attempt]
      BY <3>1, HasGrant
    <3>3. cur[c] # cur[b]
      BY <1>1 DEF GrantsDiffer
    <3>4. cur[c].job # j \/ cur[c].attempt # a
      BY <1>3, <3>2, <3>3
    <3>5. paper[cur[c].job][cur[c].attempt] = 0
      BY AgentTypes DEF AgentOK, GrantOK
    <3> QED BY <2>1, <3>2, <3>4, <3>5
  <2>5. TicketIsOnRecord'
    <3> SUFFICES ASSUME NEW i \in Jobs, NEW n \in Attempts, paper'[i][n] > 0
                 PROVE  \/ \E k \in acks' : k.job = i /\ k.attempt >= n
                        \/ \E c \in Bridges : ~disk'[c][i].acked /\ disk'[c][i].attempt >= n
      BY DEF TicketIsOnRecord
    <3>1. CASE i = j /\ n = a
      BY <1>1, <1>3, <1>4, <3>1
    <3>2. CASE i # j \/ n # a
      <4>1. paper[i][n] > 0
        BY <2>1, <3>2
      <4> QED BY <1>1, <4>1 DEF PipeInv, TicketIsOnRecord, Onward
    <3> QED BY <3>1, <3>2
  <2>6. NetworkTypeOK' /\ LateReportsOK'
    BY <2>2, NetworkAtRest, LateAtRest
  <2>7. BridgeTypeOK'
    BY <1>1, <1>3, <1>6, <2>1 DEF BridgeTypeOK
  <2>8. AgentOK(b)'
    <3>1. PICK m, d : m = mem[b] /\ d = disk[b]
      OBVIOUS
    <3>2. JournalOK(b, m)' /\ JournalOK(b, d)'
      BY <1>1, <2>2, <3>1, AgentTypes, JournalLasts DEF PipeInv, AgentOK
    <3>3. mem'[b] = m /\ disk'[b] = d
      BY <1>1, <3>1
    <3>4. JournalOK(b, mem[b])' /\ JournalOK(b, disk[b])'
      BY <3>2, <3>3 DEF JournalOK
    <3>5. GrantOK(b)'
      BY <1>1, <1>2, <1>3, <1>4, <1>6, <1>7, <2>1 DEF AgentOK, GrantOK
    <3> QED BY <1>1, <3>4, <3>5 DEF AgentOK
  <2> QED BY <1>1, <1>7, <2>2, <2>3, <2>4, <2>5, <2>6, <2>7, <2>8, AgentStep
<1> QED BY <1>5, <1>8, <1>9

-----------------------------------------------------------------------------
(* Calls, on time or late.                                                   *)

\* What an agent reports is true.
LEMMA ReportIsTrue ==
  ASSUME PipeInv, NEW b \in Bridges, pc[b] \in Calling, pc[b] # "claim"
  PROVE  /\ Outstanding(b) \in Updates
         /\ Outstanding(b).job = cur[b].job /\ Outstanding(b).attempt = cur[b].attempt
         /\ Outstanding(b).status = "PRINTED" => OnPaper(Outstanding(b).job)
<1>1. /\ pc[b] \notin {"down", "loop", "claim"} /\ AgentOK(b)
      /\ StatusReported(b) \in {"SENT", "PRINTED", "FAILED"}
  BY AgentTypes DEF Calling, StatusReported
<1>2. cur[b].job \in Jobs /\ cur[b].attempt \in Attempts
  BY <1>1, HasGrant
<1>3. Outstanding(b) \in Updates
  BY <1>1, <1>2 DEF Outstanding, Report, Updates
<1>4. /\ Outstanding(b).job = cur[b].job /\ Outstanding(b).attempt = cur[b].attempt
      /\ Outstanding(b).status = StatusReported(b)
  BY DEF Outstanding, Report
<1>5. ASSUME StatusReported(b) = "PRINTED" PROVE OnPaper(cur[b].job)
  <2>1. CASE pc[b] = "printed"
    BY <1>1, <1>2, <2>1 DEF AgentOK, GrantOK, OnPaper
  <2>2. CASE pc[b] # "printed"
    <3>1. mem[b][cur[b].job].state = "PRINTED"
      BY <1>5, <2>2 DEF StatusReported
    <3> QED BY <1>1, <1>2, <3>1 DEF AgentOK, JournalOK, EntryOK
  <2> QED BY <2>1, <2>2
<1> QED BY <1>3, <1>4, <1>5

\* A call given up on may come late, with a true report.
LEMMA AbandonEffect ==
  ASSUME PipeInv, NEW b \in Bridges, Abandon(b)
  PROVE  /\ NetworkTypeOK'
         /\ \A l \in lateReports' : l \in lateReports \/ (l.report.status = "PRINTED" => OnPaper(l.report.job))
<1>1. NetworkTypeOK
  BY DEF PipeInv
<1>2. CASE UNCHANGED networkVars
  BY <1>2, NetworkAtRest
<1>3. CASE lateClaims' = lateClaims \cup {b} /\ UNCHANGED lateReports
  BY <1>1, <1>3 DEF NetworkTypeOK
<1>4. CASE /\ Awaiting(b) /\ pc[b] # "claim"
           /\ lateReports' = lateReports \cup {[bridge |-> b, report |-> Outstanding(b)]}
           /\ UNCHANGED lateClaims
  <2>1. /\ Outstanding(b) \in Updates
        /\ Outstanding(b).status = "PRINTED" => OnPaper(Outstanding(b).job)
    BY <1>4, ReportIsTrue DEF Awaiting
  <2>2. PICK l : l = [bridge |-> b, report |-> Outstanding(b)]
    OBVIOUS
  <2>3. l \in [bridge: Bridges, report: Updates] /\ l.report = Outstanding(b)
    BY <2>1, <2>2
  <2>4. lateReports' = lateReports \cup {l}
    BY <1>4, <2>2
  <2> QED BY <1>1, <1>4, <2>1, <2>3, <2>4 DEF NetworkTypeOK
<1> QED BY <1>2, <1>3, <1>4 DEF Abandon

\* An agent that gives up on a call keeps its journal.
LEMMA TimeoutStep ==
  ASSUME PipeInv, NEW b \in Bridges, Timeout(b)
  PROVE  PipeInv'
<1>1. /\ UNCHANGED <<pc, todo, mem, disk, paper, serverVars>> /\ pc[b] \in Calling /\ Abandon(b)
      /\ reply' = [reply EXCEPT ![b] = "error"] /\ faults' = faults + 1
      /\ cur' = IF pc[b] = "claim" THEN [cur EXCEPT ![b] = NoGrant] ELSE cur
  BY DEF Timeout
<1>2. Onward /\ BridgeTypeOK /\ AgentOK(b) /\ UNCHANGED jobs /\ pc[b] # "down"
  BY <1>1, NothingHappens, AgentTypes DEF PipeInv, serverVars, Calling
<1>3. /\ reply'[b] = "error" /\ (pc[b] = "claim" => cur'[b] = NoGrant) /\ (pc[b] # "claim" => cur'[b] = cur[b])
      /\ reply' \in [Bridges -> {"none", "ok", "error", "nothing", "granted"}]
      /\ cur' \in [Bridges -> Grant \cup {NoGrant}]
      /\ \A c \in Bridges \ {b} : reply'[c] = reply[c] /\ cur'[c] = cur[c]
  BY <1>1, <1>2 DEF BridgeTypeOK
<1>4. Only(b)
  BY <1>1, <1>3 DEF Only
<1>5. BridgeTypeOK'
  BY <1>1, <1>2, <1>3 DEF BridgeTypeOK
<1>6. ~Fresh(b)'
  BY <1>1, <1>3 DEF Fresh, Calling
<1>7. GrantOK(b)'
  BY <1>1, <1>2, <1>3, <1>6 DEF AgentOK, GrantOK, Journalled
<1>8. \A i \in todo'[b] : mem[b][i].state # "NONE"
  BY <1>1, <1>2 DEF AgentOK
<1>9. /\ NetworkTypeOK'
      /\ \A l \in lateReports' : l \in lateReports \/ (l.report.status = "PRINTED" => OnPaper(l.report.job))
  BY <1>1, AbandonEffect
<1>10. UNCHANGED <<mem, disk, paper>>
  BY <1>1
<1> QED BY <1>2, <1>4, <1>5, <1>6, <1>7, <1>8, <1>9, <1>10, IdleStep

\* A crash loses memory, never the disk.
LEMMA DeathStep ==
  ASSUME PipeInv, NEW b \in Bridges, AgentDies(b)
  PROVE  PipeInv'
<1>1. /\ Call(b, "down") /\ todo' = [todo EXCEPT ![b] = {}] /\ cur' = [cur EXCEPT ![b] = NoGrant]
      /\ mem' = [mem EXCEPT ![b] = EmptyJournal] /\ UNCHANGED <<disk, paper>> /\ faults' = faults + 1
      /\ Abandon(b) /\ UNCHANGED serverVars
  BY DEF AgentDies, Crash
<1>2. Onward /\ BridgeTypeOK /\ "down" \in Stages
  BY <1>1, NothingHappens DEF PipeInv, Stages
<1>3. /\ pc' \in [Bridges -> Stages] /\ reply' \in [Bridges -> {"none", "ok", "error", "nothing", "granted"}]
      /\ pc'[b] = "down" /\ reply'[b] = "none"
      /\ \A c \in Bridges \ {b} : pc'[c] = pc[c] /\ reply'[c] = reply[c]
  BY <1>1, <1>2, Calls
<1>4. /\ todo' \in [Bridges -> SUBSET Jobs] /\ cur' \in [Bridges -> Grant \cup {NoGrant}]
      /\ mem' \in [Bridges -> [Jobs -> Entry]]
      /\ todo'[b] = {} /\ cur'[b] = NoGrant /\ mem'[b] = EmptyJournal
      /\ \A c \in Bridges \ {b} : todo'[c] = todo[c] /\ cur'[c] = cur[c] /\ mem'[c] = mem[c]
  BY <1>1, <1>2, Entries DEF BridgeTypeOK
<1>5. Only(b)
  BY <1>1, <1>3, <1>4 DEF Only
<1>6. BridgeTypeOK'
  BY <1>1, <1>2, <1>3, <1>4 DEF BridgeTypeOK
<1>7. ~Fresh(b)' /\ GrantOK(b)'
  BY <1>3, <1>4 DEF Fresh, GrantOK, Journalled
<1>8. JournalOK(b, mem[b])'
  <2>1. \A j \in Jobs : jobs'[j].attempt \in Nat
    BY <1>2 DEF Onward, ServerInv, ServerTypeOK, Job
  <2>2. \A j \in Jobs : EmptyJournal[j] = NoEntry
    BY DEF EmptyJournal
  <2>3. \A j \in Jobs : EntryOK(b, j, NoEntry)'
    BY <2>1 DEF EntryOK, NoEntry
  <2> QED BY <1>4, <2>2, <2>3 DEF JournalOK
<1>9. /\ NetworkTypeOK'
      /\ \A l \in lateReports' : l \in lateReports \/ (l.report.status = "PRINTED" => OnPaper(l.report.job))
  BY <1>1, AbandonEffect
<1>10. \A i \in todo'[b] : mem'[b][i].state # "NONE"
  BY <1>4
<1>11. UNCHANGED <<disk, paper>>
  BY <1>1
<1> QED BY <1>2, <1>3, <1>5, <1>6, <1>7, <1>8, <1>9, <1>10, <1>11, QuietStep

\* A grant stays behind the queue's attempts.
LEMMA GrantLasts ==
  ASSUME PipeInv, NEW b \in Bridges, Onward
  PROVE  cur[b] # NoGrant => /\ cur[b].job \in Jobs /\ cur[b].attempt \in Nat
                             /\ cur[b].attempt <= jobs[cur[b].job].attempt
                             /\ cur[b].attempt <= jobs'[cur[b].job].attempt
                             /\ mem[b][cur[b].job].attempt <= cur[b].attempt
<1> SUFFICES ASSUME cur[b] # NoGrant
             PROVE  /\ cur[b].job \in Jobs /\ cur[b].attempt \in Nat
                    /\ cur[b].attempt <= jobs[cur[b].job].attempt
                    /\ cur[b].attempt <= jobs'[cur[b].job].attempt
                    /\ mem[b][cur[b].job].attempt <= cur[b].attempt
  OBVIOUS
<1>1. cur[b].job \in Jobs /\ cur[b].attempt \in Nat
  BY AgentTypes, NoGrantIsNone DEF Grant
<1>2. cur[b].attempt <= jobs[cur[b].job].attempt /\ mem[b][cur[b].job].attempt <= cur[b].attempt
  BY AgentTypes DEF AgentOK, GrantOK
<1>3. jobs[cur[b].job].attempt \in Nat /\ jobs'[cur[b].job].attempt \in Nat
  BY <1>1, JobRows DEF PipeInv, Onward, ServerInv, ServerTypeOK, Job
<1> QED BY <1>1, <1>2, <1>3 DEF Onward

\* An answer that grants nothing.
LEMMA AnswerStep ==
  ASSUME PipeInv, NEW b \in Bridges, NEW r \in {"ok", "error", "nothing"}, Onward, Answer(b, r),
         UNCHANGED cur, UNCHANGED networkVars, pc[b] \in Calling,
         r = "ok" => \E k \in acks' : k.bridge = b /\ k.job = cur[b].job /\ k.attempt = cur[b].attempt,
         pc[b] = "claim" => r # "ok"
  PROVE  PipeInv'
<1>1. /\ UNCHANGED <<pc, todo, mem, disk, paper, faults>> /\ reply' = [reply EXCEPT ![b] = r]
      /\ BridgeTypeOK /\ AgentOK(b) /\ pc[b] # "down"
  BY AgentTypes DEF PipeInv, Answer, Calling
<1>2. /\ reply'[b] = r /\ reply' \in [Bridges -> {"none", "ok", "error", "nothing", "granted"}]
      /\ \A c \in Bridges \ {b} : reply'[c] = reply[c]
  BY <1>1 DEF BridgeTypeOK
<1>3. Only(b)
  BY <1>1, <1>2 DEF Only
<1>4. BridgeTypeOK'
  BY <1>1, <1>2 DEF BridgeTypeOK
<1>5. ~Fresh(b)'
  <2>1. pc'[b] # "spool" /\ reply'[b] # "granted"
    BY <1>1, <1>2 DEF Calling
  <2> QED BY <2>1 DEF Fresh
<1>6. GrantOK(b)'
  <2>1. /\ GrantOK(b)
        /\ cur[b] # NoGrant => /\ cur[b].attempt <= jobs'[cur[b].job].attempt
                               /\ mem[b][cur[b].job].attempt <= cur[b].attempt
    BY <1>1, GrantLasts DEF AgentOK
  <2>2. pc'[b] # "spool"
    BY <1>1 DEF Calling
  <2> QED BY <1>1, <1>2, <1>5, <2>1, <2>2 DEF GrantOK
<1>7. \A i \in todo'[b] : mem[b][i].state # "NONE"
  BY <1>1 DEF AgentOK
<1> QED BY <1>1, <1>3, <1>4, <1>5, <1>6, <1>7, NetworkAtRest, IdleStep

\* The claim that hands a job to an agent: the attempt is new, so nothing is
\* printed of it and nobody else has it.
LEMMA GrantStep ==
  ASSUME PipeInv, NEW b \in Bridges, NEW j \in Jobs, Onward, Answer(b, "granted"), UNCHANGED networkVars,
         pc[b] = "claim",
         jobs'[j].attempt = jobs[j].attempt + 1, jobs'[j].attempt \in Attempts,
         cur' = [cur EXCEPT ![b] = [job |-> j, attempt |-> jobs'[j].attempt]]
  PROVE  PipeInv'
<1>1. /\ UNCHANGED <<pc, todo, mem, disk, paper, faults>> /\ reply' = [reply EXCEPT ![b] = "granted"]
      /\ BridgeTypeOK /\ AgentOK(b)
  BY AgentTypes DEF PipeInv, Answer
<1>2. PICK n : n = jobs'[j].attempt
  OBVIOUS
<1>3. n \in Attempts /\ n \in Nat /\ jobs[j].attempt \in Nat /\ n = jobs[j].attempt + 1
  BY <1>2, JobRows, NoGrantIsNone DEF PipeInv
<1>4. [job |-> j, attempt |-> n] \in Grant
  BY <1>3 DEF Grant
<1>5. /\ reply' \in [Bridges -> {"none", "ok", "error", "nothing", "granted"}]
      /\ cur' \in [Bridges -> Grant \cup {NoGrant}]
      /\ reply'[b] = "granted" /\ cur'[b] = [job |-> j, attempt |-> n] /\ cur'[b] # NoGrant
      /\ \A c \in Bridges \ {b} : reply'[c] = reply[c] /\ cur'[c] = cur[c]
  BY <1>1, <1>2, <1>4, NoGrantIsNone DEF BridgeTypeOK
<1>6. Only(b)
  BY <1>1, <1>5 DEF Only
<1>7. BridgeTypeOK'
  BY <1>1, <1>5 DEF BridgeTypeOK
<1>8. GrantOK(b)'
  <2>1. paper[j][n] = 0
    <3>1. paper[j][n] \in Nat
      BY <1>1, <1>3 DEF BridgeTypeOK
    <3>2. ~(n <= jobs[j].attempt)
      BY <1>3
    <3> QED BY <1>3, <3>1, <3>2 DEF PipeInv, PaperFollowsClaims
  <2>2. mem[b][j].attempt <= n
    <3>1. mem[b][j].attempt <= jobs[j].attempt /\ mem[b][j].attempt \in Nat
      BY <1>1, AgentTypes, Entries DEF AgentOK, JournalOK, EntryOK
    <3> QED BY <1>3, <3>1
  <2>3. cur'[b].job = j /\ cur'[b].attempt = n
    BY <1>5
  <2>4. n <= jobs'[j].attempt
    BY <1>2, <1>3
  <2> QED BY <1>1, <1>5, <2>1, <2>2, <2>3, <2>4 DEF GrantOK, Journalled
<1>9. \A c \in Bridges \ {b} : Fresh(c) => cur[c] # cur'[b]
  <2> SUFFICES ASSUME NEW c \in Bridges \ {b}, Fresh(c), cur[c] = cur'[b]
               PROVE  FALSE
    OBVIOUS
  <2>1. cur[c] # NoGrant /\ cur[c].job = j /\ cur[c].attempt = n
    BY <1>5
  <2>2. n <= jobs[j].attempt
    BY <2>1, GrantLasts
  <2> QED BY <1>3, <2>2
<1>10. \A i \in todo'[b] : mem[b][i].state # "NONE"
  BY <1>1 DEF AgentOK
<1> QED BY <1>1, <1>6, <1>7, <1>8, <1>9, <1>10, NetworkAtRest, IdleStep

\* The queue answers a claim.
LEMMA ServeClaimStep ==
  ASSUME PipeInv, NEW b \in Bridges, NEW skipped \in SUBSET Jobs, ServeClaim(b, skipped)
  PROVE  PipeInv'
<1>1. pc[b] = "claim" /\ pc[b] \in Calling /\ UNCHANGED networkVars /\ ServerInv /\ AbsentIsUnretried
  BY DEF ServeClaim, Calling, PipeInv
<1>2. CASE Answer(b, "error") /\ UNCHANGED serverVars /\ UNCHANGED cur
  BY <1>1, <1>2, NothingHappens, AnswerStep
<1>3. CASE ClaimNothing(b, skipped) /\ Answer(b, "nothing") /\ UNCHANGED cur
  BY <1>1, <1>3, RepairEffect, AnswerStep
<1>4. CASE \E j \in Jobs :
             /\ Claim(b, skipped, j)
             /\ Answer(b, "granted")
             /\ cur' = [cur EXCEPT ![b] = [job |-> j, attempt |-> jobs'[j].attempt]]
  <2>1. PICK j \in Jobs :
          /\ Claim(b, skipped, j)
          /\ Answer(b, "granted")
          /\ cur' = [cur EXCEPT ![b] = [job |-> j, attempt |-> jobs'[j].attempt]]
    BY <1>4
  <2>2. Onward /\ jobs'[j].attempt = jobs[j].attempt + 1 /\ jobs'[j].attempt \in Attempts
    BY <1>1, <2>1, ClaimEffect
  <2> QED BY <1>1, <2>1, <2>2, GrantStep
<1> QED BY <1>2, <1>3, <1>4 DEF ServeClaim

\* The queue answers a report; ok means that it is stored.
LEMMA ServeReportStep ==
  ASSUME PipeInv, NEW b \in Bridges, ServeReport(b)
  PROVE  PipeInv'
<1>1. pc[b] \in Calling /\ pc[b] # "claim" /\ UNCHANGED <<cur, networkVars>> /\ ServerInv /\ AbsentIsUnretried
  BY DEF ServeReport, Awaiting, PipeInv
<1>2. CASE Answer(b, "error") /\ UNCHANGED serverVars
  BY <1>1, <1>2, NothingHappens, AnswerStep
<1>3. CASE /\ UpdateJob(b, Outstanding(b))
           /\ Answer(b, IF Accepted(b, Outstanding(b)) THEN "ok" ELSE "error")
  <2>1. /\ Outstanding(b) \in Updates
        /\ Outstanding(b).job = cur[b].job /\ Outstanding(b).attempt = cur[b].attempt
    BY <1>1, ReportIsTrue
  <2>2. Onward /\ (Accepted(b, Outstanding(b)) => AckOf(b, Outstanding(b)) \in acks')
    BY <1>1, <1>3, <2>1, UpdateEffect
  <2>3. CASE Accepted(b, Outstanding(b))
    <3>1. /\ AckOf(b, Outstanding(b)).bridge = b
          /\ AckOf(b, Outstanding(b)).job = cur[b].job /\ AckOf(b, Outstanding(b)).attempt = cur[b].attempt
      BY <2>1 DEF AckOf
    <3>2. \E k \in acks' : k.bridge = b /\ k.job = cur[b].job /\ k.attempt = cur[b].attempt
      BY <2>2, <2>3, <3>1
    <3>3. Answer(b, "ok")
      BY <1>3, <2>3
    <3> QED BY <1>1, <2>2, <3>2, <3>3, AnswerStep
  <2>4. CASE ~Accepted(b, Outstanding(b))
    <3>1. Answer(b, "error")
      BY <1>3, <2>4
    <3> QED BY <1>1, <2>2, <3>1, AnswerStep
  <2> QED BY <2>3, <2>4
<1> QED BY <1>2, <1>3 DEF ServeReport

-----------------------------------------------------------------------------
(* Steps of the queue that no agent sees.                                    *)

\* What the queue does behind the agents' backs.
LEMMA UnseenStep ==
  ASSUME PipeInv, Onward, UNCHANGED bridgeVars, NetworkTypeOK',
         \A l \in lateReports' : l \in lateReports
  PROVE  PipeInv'
<1>1. UNCHANGED <<pc, todo, cur, reply, mem, disk, paper, faults>>
  BY DEF bridgeVars
<1>2. /\ PaperStays /\ PaperFollowsClaims'
      /\ \A c \in Bridges : Fresh(c) => paper'[cur[c].job][cur[c].attempt] = 0
  BY <1>1, PaperAtRest
<1>3. \A c \in Bridges : AgentOK(c)'
  BY <1>1, <1>2, OtherAgents
<1>4. TicketIsOnRecord' /\ LateReportsOK'
  BY <1>1, <1>2, RecordAtRest, LateAtRest
<1>5. BridgeTypeOK' /\ GrantsDiffer'
  BY <1>1 DEF PipeInv, BridgeTypeOK, GrantsDiffer, Fresh
<1> QED BY <1>2, <1>3, <1>4, <1>5 DEF PipeInv, Onward

\* Orders, clock, operator and manager.
LEMMA ServerStep ==
  ASSUME PipeInv, Server
  PROVE  PipeInv'
<1>1. ServerInv /\ AbsentIsUnretried /\ UNCHANGED bridgeVars /\ UNCHANGED networkVars
  BY DEF PipeInv, Server
<1>2. Onward
  BY <1>1, QueueingEffect, OperatorEffect, ClockManagerEffect DEF Server
<1> QED BY <1>1, <1>2, NetworkAtRest, UnseenStep

\* Repairs committed ahead of a claim.
LEMMA RepairStep ==
  ASSUME PipeInv, NEW b \in Bridges, RepairForClaim(b)
  PROVE  PipeInv'
<1>1. ServerInv /\ AbsentIsUnretried /\ UNCHANGED bridgeVars /\ UNCHANGED networkVars
  BY DEF PipeInv, RepairForClaim
<1>2. Onward
  BY <1>1, RepairEffect DEF RepairForClaim
<1> QED BY <1>1, <1>2, NetworkAtRest, UnseenStep

\* A claim nobody waits for any more.
LEMMA LateClaimStep ==
  ASSUME PipeInv, NEW b \in Bridges, ServeLateClaim(b)
  PROVE  PipeInv' /\ \A j \in Jobs : Kept(j)
<1>1. /\ ServerInv /\ AbsentIsUnretried /\ UNCHANGED bridgeVars
      /\ lateClaims' = lateClaims \ {b} /\ UNCHANGED lateReports /\ NetworkTypeOK
  BY DEF PipeInv, ServeLateClaim
<1>2. Onward /\ \A j \in Jobs : Kept(j)
  <2>1. CASE UNCHANGED serverVars
    BY <1>1, <2>1, NothingHappens
  <2>2. CASE \E skipped \in SUBSET Jobs :
               ClaimNothing(b, skipped) \/ \E j \in Jobs : Claim(b, skipped, j)
    BY <1>1, <2>2, RepairEffect, ClaimEffect
  <2> QED BY <2>1, <2>2 DEF ServeLateClaim
<1>3. NetworkTypeOK'
  BY <1>1 DEF NetworkTypeOK
<1> QED BY <1>1, <1>2, <1>3, UnseenStep

\* A report nobody waits for any more, which may close its job.
LEMMA LateReportStep ==
  ASSUME PipeInv, NEW l \in lateReports, ServeLateReport(l)
  PROVE  /\ PipeInv'
         /\ \/ \A j \in Jobs : Kept(j)
            \/ \E j \in Jobs : ClosedNow(j) /\ OnPaper(j) /\ \A i \in Jobs \ {j} : Kept(i)
<1>1. /\ ServerInv /\ AbsentIsUnretried /\ UNCHANGED bridgeVars
      /\ lateReports' = lateReports \ {l} /\ UNCHANGED lateClaims /\ NetworkTypeOK
  BY DEF PipeInv, ServeLateReport
<1>2. l.bridge \in Bridges /\ l.report \in Updates /\ (l.report.status = "PRINTED" => OnPaper(l.report.job))
  BY <1>1 DEF NetworkTypeOK, PipeInv, LateReportsOK
<1>3. /\ Onward
      /\ \/ \A j \in Jobs : Kept(j)
         \/ \E j \in Jobs : ClosedNow(j) /\ OnPaper(j) /\ \A i \in Jobs \ {j} : Kept(i)
  <2>1. CASE UNCHANGED serverVars
    BY <1>1, <2>1, NothingHappens
  <2>2. CASE UpdateJob(l.bridge, l.report)
    BY <1>1, <1>2, <2>2, UpdateEffect
  <2> QED BY <2>1, <2>2 DEF ServeLateReport
<1>4. NetworkTypeOK'
  BY <1>1 DEF NetworkTypeOK
<1> QED BY <1>1, <1>3, <1>4, UnseenStep

-----------------------------------------------------------------------------
(* The invariant.                                                            *)

\* The invariant holds at the start.
LEMMA PipeInit ==
  ASSUME Init
  PROVE  PipeInv
<1>1. /\ ServerInit
      /\ pc = [b \in Bridges |-> "loop"] /\ todo = [b \in Bridges |-> {}]
      /\ cur = [b \in Bridges |-> NoGrant] /\ reply = [b \in Bridges |-> "none"]
      /\ mem = [b \in Bridges |-> EmptyJournal] /\ disk = [b \in Bridges |-> EmptyJournal]
      /\ paper = [j \in Jobs |-> [a \in Attempts |-> 0]] /\ faults = 0
      /\ lateClaims = {} /\ lateReports = {}
  BY DEF Init, BridgeInit
<1>2. ServerInv
  BY <1>1, ServerInvInit
<1>3. AbsentIsUnretried
  BY <1>1 DEF ServerInit, AbsentIsUnretried
<1>4. BridgeTypeOK
  BY <1>1, Entries DEF BridgeTypeOK, Stages
<1>5. NetworkTypeOK /\ LateReportsOK
  BY <1>1 DEF NetworkTypeOK, LateReportsOK
<1>6. PaperFollowsClaims /\ TicketIsOnRecord
  BY <1>1 DEF PaperFollowsClaims, TicketIsOnRecord
<1>7. GrantsDiffer
  BY <1>1 DEF GrantsDiffer, Fresh
<1>8. ASSUME NEW b \in Bridges PROVE AgentOK(b)
  <2>1. JournalOK(b, EmptyJournal)
    <3>1. \A j \in Jobs : jobs[j].attempt \in Nat
      BY <1>2, JobRows
    <3>2. \A j \in Jobs : EntryOK(b, j, NoEntry)
      <4>1. NoEntry.attempt = 0 /\ NoEntry.state = "NONE"
        BY DEF NoEntry
      <4> TAKE j \in Jobs
      <4>2. NoEntry.attempt <= jobs[j].attempt
        BY <3>1, <4>1
      <4>3. NoEntry.state # "NONE" => FALSE
        BY <4>1
      <4> QED BY <4>1, <4>2, <4>3 DEF EntryOK
    <3>3. \A j \in Jobs : EmptyJournal[j] = NoEntry
      BY DEF EmptyJournal
    <3> QED BY <3>2, <3>3 DEF JournalOK
  <2>2. GrantOK(b)
    BY <1>1 DEF GrantOK, Fresh, Journalled
  <2>3. \A j \in Jobs : disk[b][j].attempt <= mem[b][j].attempt
    <3>1. disk[b] = EmptyJournal /\ mem[b] = EmptyJournal
      BY <1>1
    <3>2. \A j \in Jobs : EmptyJournal[j] = NoEntry
      BY DEF EmptyJournal
    <3>3. NoEntry.attempt <= NoEntry.attempt
      BY DEF NoEntry
    <3> QED BY <3>1, <3>2, <3>3
  <2> QED BY <1>1, <2>1, <2>2, <2>3 DEF AgentOK
<1> QED BY <1>2, <1>3, <1>4, <1>5, <1>6, <1>7, <1>8 DEF PipeInv

\* Every step keeps the invariant.
LEMMA PipeStep ==
  ASSUME PipeInv, [Next]_vars
  PROVE  PipeInv'
<1>1. CASE Server
  BY <1>1, ServerStep
<1>2. ASSUME NEW b \in Bridges, Agent(b) PROVE PipeInv'
  <2>1. UNCHANGED serverVars /\ UNCHANGED networkVars
    BY <1>2 DEF Agent
  <2>2. CASE Idle(b)
    <3>1. LoopAgain(b, mem[b]) /\ pc[b] # "down" /\ UNCHANGED <<mem, disk, paper, faults>>
      BY <2>2 DEF Idle
    <3> QED BY <2>1, <3>1, IdleKeepsInv
  <2>3. CASE \E j \in Jobs : Recover(b, j)
    BY <2>1, <2>3, RecoverStep
  <2>4. CASE Poll(b) \/ RejectMalformed(b) \/ Reclaim(b)
    BY <2>1, <2>4, PollStep
  <2>5. CASE Dispatch(b) \/ Spool(b) \/ RecordPrinted(b)
    BY <2>1, <2>5, DispatchStep, SpoolStep, RecordPrintedStep
  <2>6. CASE Confirm(b) \/ KeepForLater(b) \/ Restart(b)
    BY <2>1, <2>6, ConfirmStep, KeepForLaterStep, RestartStep
  <2> QED BY <1>2, <2>2, <2>3, <2>4, <2>5, <2>6 DEF Agent, Work
<1>3. ASSUME NEW b \in Bridges, AgentDies(b) \/ Timeout(b) PROVE PipeInv'
  BY <1>3, DeathStep, TimeoutStep
<1>4. ASSUME NEW b \in Bridges,
             \/ RepairForClaim(b) \/ ServeReport(b) \/ ServeLateClaim(b)
             \/ \E skipped \in SUBSET Jobs : ServeClaim(b, skipped)
      PROVE  PipeInv'
  BY <1>4, RepairStep, ServeReportStep, LateClaimStep, ServeClaimStep
<1>5. CASE \E l \in lateReports : ServeLateReport(l)
  BY <1>5, LateReportStep
<1>6. CASE UNCHANGED vars
  <2>1. UNCHANGED serverVars /\ UNCHANGED bridgeVars /\ UNCHANGED networkVars
    BY <1>6 DEF vars
  <2>2. Onward
    BY <2>1, NothingHappens DEF PipeInv
  <2> QED BY <2>1, <2>2, NetworkAtRest, UnseenStep
<1> QED BY <1>1, <1>2, <1>3, <1>4, <1>5, <1>6 DEF Next

\* The inductive invariant: the queue's own (ServerInv), and what ties each
\* agent's journal, grant and outstanding call to the queue and to the paper.
THEOREM PipelineInvariant == Spec => []PipeInv
BY PipeInit, PipeStep, PTL DEF Spec

\* The state of queue, agents and network keeps its types.
THEOREM PipelineTypeCorrect == Spec => []TypeOK
<1>1. PipeInv => TypeOK
  BY DEF PipeInv, ServerInv, TypeOK
<1> QED BY <1>1, PipelineInvariant, PTL

\* No unauthorised duplicate: whatever crashes, is lost or comes late, each
\* ticket used up a claim of its own, and claims do not outnumber permissions.
THEOREM TicketsAreAuthorised == Spec => []NoUnauthorisedTicket
<1>1. ASSUME PipeInv PROVE NoUnauthorisedTicket
  <2> SUFFICES ASSUME NEW j \in Jobs, NEW a \in Attempts, paper[j][a] > 0
               PROVE  paper[j][a] = 1 /\ a <= jobs[j].attempt /\ a <= 1 + retries[j]
    BY DEF NoUnauthorisedTicket
  <2>1. paper[j][a] = 1 /\ a <= jobs[j].attempt
    BY <1>1 DEF PipeInv, PaperFollowsClaims
  <2>2. jobs[j].attempt <= 1 + retries[j]
    BY <1>1, JobRows DEF PipeInv, ServerInv, ClaimsAuthorised
  <2>3. a \in Nat /\ jobs[j].attempt \in Nat /\ retries[j] \in Nat
    BY <1>1, JobRows, NoGrantIsNone DEF PipeInv
  <2> QED BY <2>1, <2>2, <2>3
<1> QED BY <1>1, PipelineInvariant, PTL

\* No agent forgets a print the queue has not heard of: an entry is settled only
\* when a report of that attempt or a later one is stored.
THEOREM EntriesAreStored == Spec => []AckedMeansStored
<1>1. ASSUME PipeInv PROVE AckedMeansStored
  <2> SUFFICES ASSUME NEW b \in Bridges, NEW j \in Jobs, NEW e \in {mem[b][j], disk[b][j]},
                      e.state # "NONE", e.acked
               PROVE  \E k \in acks : k.bridge = b /\ k.job = j /\ k.attempt >= e.attempt
    BY DEF AckedMeansStored
  <2>1. EntryOK(b, j, e)
    BY <1>1, AgentTypes DEF AgentOK, JournalOK
  <2> QED BY <2>1 DEF EntryOK
<1> QED BY <1>1, PipelineInvariant, PTL

\* No ticket is forgotten: a stored report or some agent's disk knows of it.
THEOREM TicketsStayOnRecord == Spec => []TicketIsOnRecord
<1>1. PipeInv => TicketIsOnRecord
  BY DEF PipeInv
<1> QED BY <1>1, PipelineInvariant, PTL

-----------------------------------------------------------------------------
(* The promise.                                                              *)

\* A step that gives no permission, closes no job and prints nothing.
PromiseRests == UNCHANGED paper /\ \A j \in Jobs : Kept(j)

\* What any step means to the promise.
PromiseStep ==
  \/ PromiseRests
  \/ \E j \in Jobs : Granted(j) /\ UNCHANGED paper /\ \A i \in Jobs \ {j} : Kept(i)
  \/ \E j \in Jobs : ClosedNow(j) /\ OnPaper(j) /\ UNCHANGED paper /\ \A i \in Jobs \ {j} : Kept(i)
  \/ /\ \A j \in Jobs : Kept(j)
     /\ \E j \in Jobs, a \in Attempts :
          /\ paper[j][a] = 0 /\ a <= Permission(j)
          /\ paper' = [paper EXCEPT ![j][a] = 1]

\* Every step of the pipeline is one of the promise's, or a stutter.
LEMMA EveryStepKeepsPromise ==
  ASSUME PipeInv, [Next]_vars
  PROVE  PromiseStep
<1>1. ServerInv /\ AbsentIsUnretried
  BY DEF PipeInv
<1>2. CASE UNCHANGED serverVars /\ UNCHANGED paper
  BY <1>1, <1>2, NothingHappens DEF PromiseStep, PromiseRests
<1>3. CASE Server
  <2>1. UNCHANGED paper
    BY <1>3 DEF Server, bridgeVars
  <2> QED BY <1>1, <1>3, <2>1, QueueingEffect, OperatorEffect, ClockManagerEffect
          DEF Server, PromiseStep, PromiseRests
<1>4. ASSUME NEW b \in Bridges, Spool(b), UNCHANGED serverVars PROVE PromiseStep
  <2>1. PICK j, a : j = cur[b].job /\ a = cur[b].attempt
    OBVIOUS
  <2>2. AgentOK(b) /\ Fresh(b) /\ pc[b] = "spool" /\ cur[b] # NoGrant /\ j \in Jobs /\ a \in Attempts /\ a \in Nat
    BY <1>4, <2>1, AgentTypes, HasGrant, NoGrantIsNone DEF Spool, Fresh
  <2>3. paper[j][a] = 0 /\ a <= jobs[j].attempt
    BY <2>1, <2>2 DEF AgentOK, GrantOK
  <2>4. a <= Permission(j)
    <3>1. jobs[j].attempt <= 1 + retries[j] /\ jobs[j].attempt \in Nat /\ retries[j] \in Nat /\ a # 0
      BY <1>1, <2>2, JobRows, NoGrantIsNone DEF ServerInv, ClaimsAuthorised
    <3>2. jobs[j].status # "ABSENT"
      BY <1>1, <2>2, <2>3, <3>1 DEF ServerInv, AbsentIsUntouched
    <3> QED BY <2>2, <2>3, <3>1, <3>2 DEF Permission
  <2>5. UNCHANGED paper \/ paper' = [paper EXCEPT ![j][a] = paper[j][a] + 1]
    BY <1>4, <2>1 DEF Spool
  <2>6. UNCHANGED paper \/ paper' = [paper EXCEPT ![j][a] = 1]
    BY <2>3, <2>5
  <2>7. \A i \in Jobs : Kept(i)
    BY <1>1, <1>4, NothingHappens
  <2> QED BY <2>2, <2>3, <2>4, <2>6, <2>7 DEF PromiseStep, PromiseRests
<1>5. ASSUME NEW b \in Bridges, Agent(b) PROVE PromiseStep
  <2>1. UNCHANGED serverVars
    BY <1>5 DEF Agent
  <2>2. Spool(b) \/ UNCHANGED paper
    BY <1>5 DEF Agent, Work, Poll, Idle, RejectMalformed, Reclaim, Dispatch, RecordPrinted, Confirm, KeepForLater,
                Recover, Restart
  <2> QED BY <1>2, <1>4, <2>1, <2>2
<1>6. ASSUME NEW b \in Bridges, AgentDies(b) \/ Timeout(b) PROVE PromiseStep
  <2>1. UNCHANGED serverVars /\ UNCHANGED paper
    BY <1>6 DEF AgentDies, Crash, Timeout
  <2> QED BY <1>2, <2>1
<1>7. ASSUME NEW b \in Bridges, RepairForClaim(b) PROVE PromiseStep
  <2>1. UNCHANGED paper /\ \A j \in Jobs : Kept(j)
    BY <1>1, <1>7, RepairEffect DEF RepairForClaim, bridgeVars
  <2> QED BY <2>1 DEF PromiseStep, PromiseRests
<1>8. ASSUME NEW b \in Bridges, ServeLateClaim(b) PROVE PromiseStep
  <2>1. UNCHANGED paper /\ \A j \in Jobs : Kept(j)
    BY <1>8, LateClaimStep DEF ServeLateClaim, bridgeVars
  <2> QED BY <2>1 DEF PromiseStep, PromiseRests
<1>9. ASSUME NEW b \in Bridges, NEW skipped \in SUBSET Jobs, ServeClaim(b, skipped) PROVE PromiseStep
  <2>1. UNCHANGED paper
    BY <1>9 DEF ServeClaim, Answer
  <2>2. UNCHANGED serverVars \/ ClaimNothing(b, skipped) \/ \E j \in Jobs : Claim(b, skipped, j)
    BY <1>9 DEF ServeClaim
  <2>3. \A j \in Jobs : Kept(j)
    BY <1>1, <2>2, NothingHappens, RepairEffect, ClaimEffect
  <2> QED BY <2>1, <2>3 DEF PromiseStep, PromiseRests
<1>10. ASSUME NEW b \in Bridges, ServeReport(b) PROVE PromiseStep
  <2>1. UNCHANGED paper
    BY <1>10 DEF ServeReport, Answer
  <2>2. CASE UNCHANGED serverVars
    BY <1>2, <2>1, <2>2
  <2>3. CASE UpdateJob(b, Outstanding(b))
    <3>1. /\ Outstanding(b) \in Updates
          /\ Outstanding(b).status = "PRINTED" => OnPaper(Outstanding(b).job)
      BY <1>10, ReportIsTrue DEF ServeReport, Awaiting
    <3>2. /\ Outstanding(b).job \in Jobs
          /\ \A i \in Jobs \ {Outstanding(b).job} : Kept(i)
          /\ \/ Kept(Outstanding(b).job)
             \/ Outstanding(b).status = "PRINTED" /\ ClosedNow(Outstanding(b).job)
      BY <1>1, <2>3, <3>1, UpdateEffect
    <3> QED BY <2>1, <3>1, <3>2 DEF PromiseStep, PromiseRests
  <2> QED BY <1>10, <2>2, <2>3 DEF ServeReport
<1>11. ASSUME NEW l \in lateReports, ServeLateReport(l) PROVE PromiseStep
  <2>1. UNCHANGED paper
    BY <1>11 DEF ServeLateReport, bridgeVars
  <2> QED BY <1>11, <2>1, LateReportStep DEF PromiseStep, PromiseRests
<1>12. CASE UNCHANGED vars
  <2>1. UNCHANGED serverVars /\ UNCHANGED paper
    BY <1>12 DEF vars, bridgeVars
  <2> QED BY <1>2, <2>1
<1> QED BY <1>3, <1>5, <1>6, <1>7, <1>8, <1>9, <1>10, <1>11, <1>12 DEF Next

\* A step that leaves the standing of every job alone, as the promise sees it.
LEMMA KeptAsPromised ==
  ASSUME NEW S \in SUBSET Jobs, \A i \in S : Kept(i)
  PROVE  /\ \A i \in S : Permission(i)' = Permission(i)
         /\ \A i \in S : jobs'[i].status = "PRINTED" <=> jobs[i].status = "PRINTED"
BY DEF Kept

\* The detailed pipeline implements PrintPromise: seen from the restaurant, every
\* step of queue, agents, network and crashes gives a permission, uses up one for
\* a ticket, closes a job whose ticket is out, or changes nothing.
THEOREM PipelineKeepsPromise == Spec => KeepsPromise
<1>1. ASSUME Init PROVE Promise!PromiseInit
  <2>1. \A j \in Jobs : jobs[j].status = "ABSENT"
    BY <1>1 DEF Init, ServerInit, Absent
  <2>2. paper = [j \in Jobs |-> [a \in Attempts |-> 0]]
    BY <1>1 DEF Init, BridgeInit
  <2> QED BY <2>1, <2>2 DEF Promise!PromiseInit, Promise!Attempts, Attempts
<1>2. ASSUME PipeInv, [Next]_vars PROVE [Promise!PromiseNext]_(Promise!promiseVars)
  <2>1. PromiseStep
    BY <1>2, EveryStepKeepsPromise
  <2> DEFINE permitted == [j \in Jobs |-> Permission(j)]
             closed    == {j \in Jobs : jobs[j].status = "PRINTED"}
  <2>2. ASSUME \A j \in Jobs : Kept(j)
        PROVE  permitted' = permitted /\ closed' = closed
    BY <2>2, KeptAsPromised
  <2>3. CASE PromiseRests
    <3>1. UNCHANGED paper /\ permitted' = permitted /\ closed' = closed
      BY <2>2, <2>3 DEF PromiseRests
    <3> QED BY <3>1 DEF Promise!promiseVars, Permission
  <2>4. ASSUME NEW j \in Jobs, Granted(j), UNCHANGED paper, \A i \in Jobs \ {j} : Kept(i)
        PROVE  Promise!Permit(j)
    <3>1. permitted' = [permitted EXCEPT ![j] = permitted[j] + 1]
      BY <2>4, KeptAsPromised DEF Granted
    <3>2. closed' = closed /\ j \notin closed
      BY <2>4, KeptAsPromised DEF Granted
    <3> QED BY <2>4, <3>1, <3>2 DEF Promise!Permit, Permission
  <2>5. ASSUME NEW j \in Jobs, ClosedNow(j), OnPaper(j), UNCHANGED paper, \A i \in Jobs \ {j} : Kept(i)
        PROVE  Promise!Close(j)
    <3>1. permitted' = permitted
      BY <2>5, KeptAsPromised DEF ClosedNow
    <3>2. closed' = closed \cup {j}
      BY <2>5, KeptAsPromised DEF ClosedNow
    <3> QED BY <2>5, <3>1, <3>2 DEF Promise!Close, Promise!Attempts, Permission, OnPaper, Attempts
  <2>6. ASSUME NEW j \in Jobs, NEW a \in Attempts, \A i \in Jobs : Kept(i),
               paper[j][a] = 0, a <= Permission(j), paper' = [paper EXCEPT ![j][a] = 1]
        PROVE  Promise!PutOnPaper(j, a)
    <3>1. permitted' = permitted /\ closed' = closed /\ a <= permitted[j]
      BY <2>2, <2>6
    <3> QED BY <2>6, <3>1 DEF Promise!PutOnPaper, Permission
  <2> QED BY <2>1, <2>3, <2>4, <2>5, <2>6 DEF PromiseStep, Promise!PromiseNext, Promise!Attempts, Attempts
<1> QED BY <1>1, <1>2, PipelineInvariant, PTL DEF Spec, KeepsPromise, Promise!PromiseSpec
=============================================================================
