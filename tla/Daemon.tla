------------------------------- MODULE Daemon -------------------------------
(***************************************************************************)
(* core/daemon.py over core/async_engine.py: the mission cycles of one     *)
(* daemon, the worker tasks of each cycle's recon, and the log the cycles  *)
(* are recorded in.                                                        *)
(*                                                                         *)
(* All of it runs on one event loop, so a step lasts from one await to the *)
(* next.  The log is what module Wal shows TransactionalWAL to be: records *)
(* of an open transaction are in memory, a commit that is interrupted      *)
(* leaves the start of what it wrote, and replay stops at a torn record.   *)
(* The AIMD controller is left out: its value is read by nobody.           *)
(***************************************************************************)
EXTENDS Integers, Sequences, SequencesExt, FiniteSets

CONSTANTS Ports,      \* the sequence of ports a cycle probes
          Workers,    \* the worker tasks of a recon
          MaxCycles,  \* bound on the cycles
          MaxDeaths,  \* bound on the probes that raise what nobody catches
          MaxFaults   \* bound on the failing and interrupted writes

ASSUME DaemonAssumption ==
  /\ Ports \in Seq(Nat \ {0}) /\ IsInjective(Ports) /\ IsFiniteSet(Workers)
  /\ MaxCycles \in Nat /\ MaxDeaths \in Nat /\ MaxFaults \in Nat

VARIABLES
  pc,         \* where the task of start() is; "down": the process is gone
  running,    \* self._running
  cycle,      \* number of the present or last cycle (history)
  \* enterprise_adaptive_recon:
  queue,      \* the ports no worker has taken
  unfinished, \* the queue's count of tasks that are not done
  worker,     \* worker -> where it is
  port,       \* worker -> the port it took
  results,    \* the probes that returned: <<port, open>>
  \* self.wal:
  active,     \* a transaction is open
  buffer,     \* its records
  disk,       \* the records in the file
  \* History, read by no operation:
  found,      \* cycle -> the ports that its probes found open
  ended,      \* cycle -> how it ended
  deaths, faults

recon == <<queue, unfinished, worker, port, results>>
wal == <<active, buffer, disk>>
vars == <<pc, running, cycle, recon, wal, found, ended, deaths, faults>>

Up == pc # "down"
Record(op) == [cycle |-> cycle, op |-> op]
Torn == [cycle |-> 0, op |-> "torn"]
Fault == faults < MaxFaults /\ faults' = faults + 1
NoTasks == [w \in Workers |-> "ended"]
End(how) == ended' = [ended EXCEPT ![cycle] = how]

-----------------------------------------------------------------------------
(***************************************************************************)
(* The start of a cycle                                                    *)
(***************************************************************************)
\* start(), of a process that has just opened the log
Start ==
  /\ pc = "down" /\ cycle < MaxCycles
  /\ pc' = "loop" /\ running' = TRUE
  /\ active' = FALSE /\ buffer' = <<>>
  /\ queue' = <<>> /\ unfinished' = 0 /\ results' = {}
  /\ worker' = NoTasks /\ port' = [w \in Workers |-> 0]
  /\ UNCHANGED <<cycle, disk, found, ended, deaths, faults>>

\* begin() and the append behind it
BeginMission(op) ==
  /\ active' = TRUE
  /\ buffer' = <<[cycle |-> cycle + 1, op |-> op]>>
  /\ UNCHANGED disk

\* run_mission_cycle up to its first await, the join of a queue just filled.
StartCycle ==
  /\ pc = "loop" /\ running /\ cycle < MaxCycles
  /\ cycle' = cycle + 1
  /\ BeginMission("MISSION_START")
  /\ queue' = Ports /\ unfinished' = Len(Ports) /\ results' = {}
  /\ worker' = [w \in Workers |-> "ready"]
  /\ port' = [w \in Workers |-> 0]
  /\ pc' = "recon"
  /\ UNCHANGED <<running, found, ended, deaths, faults>>

\* The first append of a log may have to write the header; what it raises
\* passes through run_mission_cycle and start, and ends the process.
StartCycleRaises ==
  /\ pc = "loop" /\ running /\ cycle < MaxCycles /\ disk = <<>>
  /\ Fault
  /\ cycle' = cycle + 1
  /\ ended' = [ended EXCEPT ![cycle + 1] = "raised"]
  /\ active' = TRUE /\ buffer' = <<>>
  /\ pc' = "down"
  /\ UNCHANGED <<running, recon, disk, found, deaths>>

-----------------------------------------------------------------------------
(***************************************************************************)
(* enterprise_adaptive_recon: the worker tasks                             *)
(***************************************************************************)
\* Faulty variant: the task is marked done when it is taken.
Faulty_Take(w) ==
  /\ worker[w] = "ready" /\ queue # <<>>
  /\ port' = [port EXCEPT ![w] = Head(queue)]
  /\ queue' = Tail(queue)
  /\ worker' = [worker EXCEPT ![w] = "probing"]
  /\ unfinished' = unfinished - 1
  /\ UNCHANGED <<pc, running, cycle, results, wal, found, ended, deaths, faults>>

\* queue.get(), which does not wait: the queue was seen not to be empty.
Take(w) ==
  /\ worker[w] = "ready" /\ queue # <<>>
  /\ port' = [port EXCEPT ![w] = Head(queue)]
  /\ queue' = Tail(queue)
  /\ worker' = [worker EXCEPT ![w] = "probing"]
  /\ UNCHANGED <<pc, running, cycle, unfinished, results, wal, found, ended, deaths, faults>>

\* The queue is empty: the worker returns.
WorkerEnds(w) ==
  /\ worker[w] = "ready" /\ queue = <<>>
  /\ worker' = [worker EXCEPT ![w] = "ended"]
  /\ UNCHANGED <<pc, running, cycle, queue, unfinished, port, results, wal, found, ended, deaths, faults>>

\* Faulty variant: only the answer of an open port is marked done.
Faulty_TaskDone(open) == unfinished' = IF open THEN unfinished - 1 ELSE unfinished

TaskDone(open) == unfinished' = unfinished - 1

\* adaptive_banner_probe returns; its time-outs bound every wait in it.
Probe(w, open) ==
  /\ worker[w] = "probing"
  /\ results' = results \cup {<<port[w], open>>}
  /\ found' = IF open THEN [found EXCEPT ![cycle] = @ \cup {port[w]}] ELSE found
  /\ TaskDone(open)
  /\ worker' = [worker EXCEPT ![w] = "backoff"]
  /\ UNCHANGED <<pc, running, cycle, queue, port, wal, ended, deaths, faults>>

\* It raises something else than TimeoutError or OSError (the UnicodeError of
\* a host name, the OverflowError of a port): the task ends before task_done.
ProbeRaises(w) ==
  /\ worker[w] = "probing" /\ deaths < MaxDeaths
  /\ deaths' = deaths + 1
  /\ worker' = [worker EXCEPT ![w] = "dead"]
  /\ UNCHANGED <<pc, running, cycle, queue, unfinished, port, results, wal, found, ended, faults>>

\* The end of jittered_backoff.
Backoff(w) ==
  /\ worker[w] = "backoff"
  /\ worker' = [worker EXCEPT ![w] = "ready"]
  /\ UNCHANGED <<pc, running, cycle, queue, unfinished, port, results, wal, found, ended, deaths, faults>>

-----------------------------------------------------------------------------
(***************************************************************************)
(* The end of a cycle: no await from queue.join() to the end of it         *)
(***************************************************************************)
\* Faulty variant: the closed ports are returned, too.
Faulty_Active == results

\* What the recon returns.
Active == {r \in results : r[2]}

Outcome == Record(IF Active = {} THEN "MISSION_WARNING" ELSE "MISSION_SUCCESS")

\* queue.join() returns and the workers are cancelled.
Join ==
  /\ pc = "recon" /\ unfinished = 0
  /\ worker' = [w \in Workers |-> IF worker[w] \in {"ended", "dead"} THEN worker[w] ELSE "cancelled"]
  /\ UNCHANGED <<running, cycle, queue, unfinished, port, results, found, deaths>>

Commit ==
  /\ Join
  /\ disk' = disk \o Append(buffer, Outcome)
  /\ active' = FALSE /\ buffer' = <<>>
  /\ pc' = "sleep" /\ End("committed")
  /\ UNCHANGED faults

\* Something in the try block raises before the commit: rollback.
Rollback ==
  /\ Join /\ Fault
  /\ active' = FALSE /\ buffer' = <<>>
  /\ pc' = "sleep" /\ End("failed")
  /\ UNCHANGED disk

\* What a commit that is cut short leaves of the records it writes.
Cut(records) == {SubSeq(records, 1, n) \o t : n \in 0..Len(records), t \in {<<>>, <<Torn>>}}

\* The commit raises and is rolled back in memory.
CommitRaises ==
  /\ Join /\ Fault
  /\ \E written \in Cut(Append(buffer, Outcome)) : disk' = disk \o written
  /\ active' = FALSE /\ buffer' = <<>>
  /\ pc' = "sleep" /\ End("uncertain")

\* The process dies in the commit.
CommitDies ==
  /\ Join /\ Fault
  /\ \E written \in Cut(Append(buffer, Outcome)) : disk' = disk \o written
  /\ active' = FALSE /\ buffer' = <<>>
  /\ pc' = "down" /\ End("uncertain")

\* asyncio.sleep(dwell_time) is over.
Wake ==
  /\ pc = "sleep"
  /\ pc' = "loop"
  /\ UNCHANGED <<running, cycle, recon, wal, found, ended, deaths, faults>>

\* stop(), from a callback of the loop
Stop ==
  /\ Up /\ running
  /\ running' = FALSE
  /\ UNCHANGED <<pc, cycle, recon, wal, found, ended, deaths, faults>>

\* start() returns and the process ends.
Return ==
  /\ pc = "loop" /\ ~running
  /\ pc' = "down"
  /\ UNCHANGED <<running, cycle, recon, wal, found, ended, deaths, faults>>

\* Ctrl+C, which cancels the task of start() (CancelledError is no Exception:
\* the transaction is left as it is), or the death of the process.
Interrupt ==
  /\ Up
  /\ pc' = "down"
  /\ IF pc = "recon" THEN End("cancelled") ELSE UNCHANGED ended
  /\ UNCHANGED <<running, cycle, recon, wal, found, deaths, faults>>

-----------------------------------------------------------------------------
Init ==
  /\ pc = "down" /\ running = FALSE /\ cycle = 0
  /\ queue = <<>> /\ unfinished = 0 /\ results = {}
  /\ worker = NoTasks /\ port = [w \in Workers |-> 0]
  /\ active = FALSE /\ buffer = <<>> /\ disk = <<>>
  /\ found = [c \in 1..MaxCycles |-> {}] /\ ended = [c \in 1..MaxCycles |-> "no"]
  /\ deaths = 0 /\ faults = 0

WorkerStep(w) ==
  /\ pc = "recon"
  /\ \/ Take(w) \/ WorkerEnds(w) \/ Backoff(w)
     \/ \E open \in BOOLEAN : Probe(w, open)

TaskStep == Start \/ StartCycle \/ Commit \/ Wake \/ Return

Next ==
  \/ TaskStep
  \/ \E w \in Workers : WorkerStep(w) \/ (pc = "recon" /\ ProbeRaises(w))
  \/ StartCycleRaises \/ Rollback \/ CommitRaises \/ CommitDies \/ Stop \/ Interrupt

\* The event loop runs every task that can go on, and every wait in a probe
\* has a time-out.
Fairness == WF_vars(TaskStep) /\ \A w \in Workers : WF_vars(WorkerStep(w))

Spec == Init /\ [][Next]_vars /\ Fairness

-----------------------------------------------------------------------------
(***************************************************************************)
(* Properties                                                              *)
(***************************************************************************)
\* replay() of the file stops at the first torn record: the places it reads.
Replayed == {i \in DOMAIN disk : \A j \in 1..i : disk[j] # Torn}

\* What the log may say of a cycle, by what its probes found.
StartOf(c) == [cycle |-> c, op |-> "MISSION_START"]
OutcomeOf(c) == [cycle |-> c, op |-> IF found[c] = {} THEN "MISSION_WARNING" ELSE "MISSION_SUCCESS"]

\* Whatever failed before, replay() returns for each cycle the start of <start,
\* outcome>, the cycles in order, and a mission is a success exactly if a probe of
\* that cycle found a port open (run_mission_cycle, lines 71-84); a cycle that was
\* committed is in the file; and a cycle that is running, hangs, was cancelled or
\* rolled back has left nothing: only a commit that failed itself may have.
CyclesRecorded ==
  /\ \A i \in Replayed : LET c == disk[i].cycle IN
       \/ disk[i] = StartOf(c) /\ \A j \in 1..(i - 1) : disk[j].cycle < c
       \/ i > 1 /\ disk[i] = OutcomeOf(c) /\ disk[i - 1] = StartOf(c)
  /\ \A c \in 1..cycle :
       /\ ended[c] = "committed" => \E i \in DOMAIN disk : i > 1 /\ disk[i] = OutcomeOf(c) /\ disk[i - 1] = StartOf(c)
       /\ ended[c] \notin {"committed", "uncertain"} => \A i \in DOMAIN disk : disk[i].cycle # c

\* When a recon returns, no probe of it is under way any more, and every port
\* was probed exactly once: no worker of one cycle meets the queue of the next.
NoProbeOutlivesRecon ==
  /\ pc \in {"sleep", "loop"} => \A w \in Workers : worker[w] # "probing"
  /\ pc = "sleep" => {r[1] : r \in results} = ToSet(Ports) /\ Cardinality(results) = Len(Ports)

\* A cycle ends unless a worker of it died of an exception nobody catches, and
\* then the join of its queue waits for good (async_engine.py, line 117).
CycleEndsUnlessWorkerDied ==
  \A c \in 1..MaxCycles : cycle = c /\ pc = "recon" ~> ended[c] # "no" \/ \E w \in Workers : worker[w] = "dead"

\* "Zero human intervention required.": a cycle ends by itself.
CyclesEnd == \A c \in 1..MaxCycles : cycle = c /\ pc = "recon" ~> ended[c] # "no"
=============================================================================
