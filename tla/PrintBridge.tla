---------------------------- MODULE PrintBridge ----------------------------
(***************************************************************************)
(* The Print Bridge agents at the printers' side: the claim loop of         *)
(* apps/print-bridge/src/bridge.ts over the crash-safe journal of           *)
(* journal.ts.  One agent is one process; each awaited call to the queue    *)
(* is a separate step, so agents, the queue and the network interleave      *)
(* there.                                                                   *)
(***************************************************************************)
EXTENDS PrintProtocol

CONSTANTS Malformed,    \* jobs whose claim the agent cannot parse
          MaxFaults     \* bound: crashes, failed writes and lost calls in all

ASSUME MalformedAssumption == Malformed \subseteq Jobs
ASSUME FaultsAssumption    == MaxFaults \in Nat

VARIABLES pc,       \* where each agent's loop is
          todo,     \* journal entries recoverJournal has still to visit
          cur,      \* the job and attempt being dealt with
          reply,    \* the answer to the outstanding call
          mem,      \* the journal in memory
          disk,     \* the journal file
          paper,    \* physical tickets per job and attempt
          faults    \* bound: faults so far

journalVars == <<mem, disk>>
bridgeVars  == <<pc, todo, cur, reply, mem, disk, paper, faults>>

Calling == {"claim", "recover", "reclaim", "sent", "printed", "failed", "malformed"}
Stages  == {"down", "loop", "spool"} \cup Calling
Entry   == [attempt: 0..MaxAttempts, state: {"NONE", "DISPATCHING", "PRINTED"}, acked: BOOLEAN]
NoEntry == [attempt |-> 0, state |-> "NONE", acked |-> TRUE]
NoGrant == [job |-> 0, attempt |-> 0]

EmptyJournal == [j \in Jobs |-> NoEntry]
Unacked(m)   == {j \in Jobs : ~m[j].acked}

Dispatching(g) == [attempt |-> g.attempt, state |-> "DISPATCHING", acked |-> FALSE]
Printed(g)     == [attempt |-> g.attempt, state |-> "PRINTED", acked |-> FALSE]
Acked(m, j)    == [m EXCEPT ![j].acked = TRUE]

\* Mutant: recovery takes a dispatched entry for a printed one.
StatusReportedHopeful(b) ==
  CASE pc[b] = "sent"    -> "SENT"
    [] pc[b] \in {"printed", "recover", "reclaim"} -> "PRINTED"
    [] OTHER             -> "FAILED"

\* What an agent waiting at a call has reported to the queue.
StatusReported(b) ==
  CASE pc[b] = "sent"    -> "SENT"
    [] pc[b] = "printed" -> "PRINTED"
    [] pc[b] \in {"recover", "reclaim"} /\ mem[b][cur[b].job].state = "PRINTED" -> "PRINTED"
    [] OTHER             -> "FAILED"

Outstanding(b) == Report(cur[b], StatusReported(b))

Awaiting(b) == pc[b] \in Calling /\ reply[b] = "none"

----------------------------------------------------------------------------
(* Moving on.  persist() writes a temporary file and renames it: a failed    *)
(* write leaves the old file or, when only the directory sync failed, the    *)
(* new one.                                                                  *)

Persist(b, m) ==
  /\ mem' = [mem EXCEPT ![b] = m]
  /\ disk' = [disk EXCEPT ![b] = m]
  /\ UNCHANGED faults

\* kept is what stays in memory when writing m failed.
FailToPersist(b, m, kept) ==
  /\ faults < MaxFaults
  /\ faults' = faults + 1
  /\ mem' = [mem EXCEPT ![b] = kept]
  /\ \E d \in {disk[b], m} : disk' = [disk EXCEPT ![b] = d]

Call(b, stage) ==
  /\ pc' = [pc EXCEPT ![b] = stage]
  /\ reply' = [reply EXCEPT ![b] = "none"]

\* Mutant: the journal is recovered when the agent starts, not in every round.
LoopAgainWithoutRecovery(b, m) ==
  /\ Call(b, "loop")
  /\ todo' = [todo EXCEPT ![b] = IF pc[b] = "down" THEN Unacked(m) ELSE {}]
  /\ cur' = [cur EXCEPT ![b] = NoGrant]

\* Back to the top of the loop, where recoverJournal lists what is unconfirmed.
LoopAgain(b, m) ==
  /\ Call(b, "loop")
  /\ todo' = [todo EXCEPT ![b] = Unacked(m)]
  /\ cur' = [cur EXCEPT ![b] = NoGrant]

----------------------------------------------------------------------------

Recover(b, j) ==
  /\ pc[b] = "loop"
  /\ j \in todo[b]
  /\ todo' = [todo EXCEPT ![b] = @ \ {j}]
  /\ cur' = [cur EXCEPT ![b] = [job |-> j, attempt |-> mem[b][j].attempt]]
  /\ Call(b, "recover")
  /\ UNCHANGED <<mem, disk, paper, faults>>

Poll(b) ==
  /\ pc[b] = "loop"
  /\ todo[b] = {}
  /\ Call(b, "claim")
  /\ UNCHANGED <<todo, cur, mem, disk, paper, faults>>

\* No job, a failed call, or the fate of an unreadable claim was reported.
Idle(b) ==
  /\ \/ pc[b] = "claim" /\ reply[b] \in {"nothing", "error"}
     \/ pc[b] = "malformed" /\ reply[b] # "none"
  /\ LoopAgain(b, mem[b])
  /\ UNCHANGED <<mem, disk, paper, faults>>

\* Mutant: the loop parses the same claim again and again.
RejectMalformedForEver(b) ==
  /\ pc[b] = "claim" /\ reply[b] = "granted"
  /\ cur[b].job \in Malformed
  /\ UNCHANGED bridgeVars

RejectMalformed(b) ==
  /\ pc[b] = "claim" /\ reply[b] = "granted"
  /\ cur[b].job \in Malformed
  /\ Call(b, "malformed")
  /\ UNCHANGED <<todo, cur, mem, disk, paper, faults>>

\* An unconfirmed earlier dispatch of the job: report that, do not print.
Reclaim(b) ==
  /\ pc[b] = "claim" /\ reply[b] = "granted"
  /\ cur[b].job \in Unacked(mem[b]) \ Malformed
  /\ Call(b, "reclaim")
  /\ UNCHANGED <<todo, cur, mem, disk, paper, faults>>

\* Mutant: print although the journal could not be written.
DispatchUnjournalled(b) ==
  LET m == [mem[b] EXCEPT ![cur[b].job] = Dispatching(cur[b])] IN
  /\ pc[b] = "claim" /\ reply[b] = "granted"
  /\ cur[b].job \notin Unacked(mem[b]) \cup Malformed
  /\ Persist(b, m) \/ FailToPersist(b, m, m)
  /\ Call(b, "spool")
  /\ UNCHANGED <<todo, cur, paper>>

\* Journal first, then print; if the journal cannot be written, do not print.
Dispatch(b) ==
  LET m == [mem[b] EXCEPT ![cur[b].job] = Dispatching(cur[b])] IN
  /\ pc[b] = "claim" /\ reply[b] = "granted"
  /\ cur[b].job \notin Unacked(mem[b]) \cup Malformed
  /\ \/ Persist(b, m) /\ Call(b, "spool")
     \/ FailToPersist(b, m, m) /\ Call(b, "failed")
  /\ UNCHANGED <<todo, cur, paper>>

\* The printer's answer proves paper only when it is a success.
Spool(b) ==
  LET j == cur[b].job
      a == cur[b].attempt
  IN
  /\ pc[b] = "spool"
  /\ \/ /\ paper' = [paper EXCEPT ![j][a] = @ + 1]
        /\ \E stage \in {"sent", "failed"} : Call(b, stage)
     \/ UNCHANGED paper /\ Call(b, "failed")
  /\ UNCHANGED <<todo, cur, mem, disk, faults>>

\* Whatever became of the SENT report, the print is journalled before PRINTED
\* is reported.
RecordPrinted(b) ==
  LET m == [mem[b] EXCEPT ![cur[b].job] = Printed(cur[b])] IN
  /\ pc[b] = "sent" /\ reply[b] # "none"
  /\ \/ Persist(b, m) /\ Call(b, "printed")
     \/ FailToPersist(b, m, m) /\ Call(b, "failed")
  /\ UNCHANGED <<todo, cur, paper>>

\* After a report was answered: markAcknowledged only if it was accepted.  A
\* recovered entry returns to the list, everything else to the loop's top.
Resume(b, m) ==
  IF pc[b] = "recover"
  THEN Call(b, "loop") /\ cur' = [cur EXCEPT ![b] = NoGrant] /\ UNCHANGED todo
  ELSE LoopAgain(b, m)

\* Mutant: the entry is settled whatever the answer was.
ConfirmAnyAnswer(b) ==
  LET m == Acked(mem[b], cur[b].job) IN
  /\ pc[b] \in {"recover", "reclaim", "printed", "failed"} /\ reply[b] \in {"ok", "error"}
  /\ cur[b].job \in Unacked(mem[b])
  /\ \/ Persist(b, m) /\ Resume(b, m)
     \/ FailToPersist(b, m, mem[b]) /\ Resume(b, mem[b])
  /\ UNCHANGED paper

Confirm(b) ==
  LET m == Acked(mem[b], cur[b].job) IN
  /\ pc[b] \in {"recover", "reclaim", "printed", "failed"} /\ reply[b] = "ok"
  /\ cur[b].job \in Unacked(mem[b])
  /\ \/ Persist(b, m) /\ Resume(b, m)
     \/ FailToPersist(b, m, mem[b]) /\ Resume(b, mem[b])
  /\ UNCHANGED paper

KeepForLater(b) ==
  /\ pc[b] \in {"recover", "reclaim", "printed", "failed"} /\ reply[b] = "error"
  /\ Resume(b, mem[b])
  /\ UNCHANGED <<mem, disk, paper, faults>>

----------------------------------------------------------------------------
(* The process dies and is started again.  Its stale runtime lock has to be  *)
(* removed by hand first (runtime-lock.ts).                                  *)

Crash(b) ==
  /\ pc[b] # "down"
  /\ faults < MaxFaults
  /\ faults' = faults + 1
  /\ Call(b, "down")
  /\ todo' = [todo EXCEPT ![b] = {}]
  /\ cur' = [cur EXCEPT ![b] = NoGrant]
  /\ mem' = [mem EXCEPT ![b] = EmptyJournal]
  /\ UNCHANGED <<disk, paper>>

Restart(b) ==
  /\ pc[b] = "down"
  /\ mem' = [mem EXCEPT ![b] = disk[b]]
  /\ LoopAgain(b, disk[b])
  /\ UNCHANGED <<disk, paper, faults>>

----------------------------------------------------------------------------

BridgeInit ==
  /\ pc = [b \in Bridges |-> "loop"]
  /\ todo = [b \in Bridges |-> {}]
  /\ cur = [b \in Bridges |-> NoGrant]
  /\ reply = [b \in Bridges |-> "none"]
  /\ mem = [b \in Bridges |-> EmptyJournal]
  /\ disk = [b \in Bridges |-> EmptyJournal]
  /\ paper = [j \in Jobs |-> [a \in Attempts |-> 0]]
  /\ faults = 0

\* What the agent itself does while it runs.
Work(b) ==
  \/ Poll(b) \/ Idle(b) \/ RejectMalformed(b) \/ Reclaim(b) \/ Dispatch(b)
  \/ Spool(b) \/ RecordPrinted(b) \/ Confirm(b) \/ KeepForLater(b)
  \/ \E j \in Jobs : Recover(b, j)

----------------------------------------------------------------------------
(* Properties. *)

\* The types of the agents' state.
BridgeTypeOK ==
  /\ pc \in [Bridges -> Stages]
  /\ todo \in [Bridges -> SUBSET Jobs]
  /\ cur \in [Bridges -> Grant \cup {NoGrant}]
  /\ \A b \in Bridges : cur[b] = NoGrant =>
       pc[b] \in {"down", "loop"} \/ (pc[b] = "claim" /\ reply[b] # "granted")
  /\ reply \in [Bridges -> {"none", "ok", "error", "nothing", "granted"}]
  /\ mem \in [Bridges -> [Jobs -> Entry]]
  /\ disk \in [Bridges -> [Jobs -> Entry]]
  /\ paper \in [Jobs -> [Attempts -> Nat]]
  /\ faults \in Nat
=============================================================================
