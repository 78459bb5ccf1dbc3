---------------------------- MODULE DaemonProofs ----------------------------
(***************************************************************************)
(* The recon of a cycle probes each port once and leaves no probe behind,  *)
(* and the log says of each cycle what its probes found: for every list of *)
(* ports and any number of workers, cycles and faults.                     *)
(***************************************************************************)
EXTENDS Daemon, FiniteSetTheorems, TLAPS

\* The workers whose port is not marked done.
Busy == {w \in Workers : worker[w] \in {"probing", "dead"}}

ReconTypes ==
  /\ worker \in [Workers -> {"ready", "probing", "backoff", "ended", "dead", "cancelled"}]
  /\ port \in [Workers -> Nat]
  /\ queue \in Seq(Nat)
  /\ unfinished \in Int
  /\ results \in SUBSET (Nat \X BOOLEAN) /\ IsFiniteSet(results)

\* The queue's count is that of the ports that are not probed.
Tally ==
  /\ unfinished = Len(queue) + Cardinality(Busy)
  /\ Cardinality(results) + unfinished = Len(Ports)

\* A port is in the queue, with a worker or in a result...
Placed == ToSet(Ports) = ToSet(queue) \cup {port[w] : w \in Busy} \cup {r[1] : r \in results}

\* ... and in one of them only.
Apart ==
  /\ \A i, j \in DOMAIN queue : i # j => queue[i] # queue[j]
  /\ \A i \in DOMAIN queue, r \in results : queue[i] # r[1]
  /\ \A i \in DOMAIN queue, w \in Busy : queue[i] # port[w]
  /\ \A w \in Busy, r \in results : port[w] # r[1]
  /\ \A v, w \in Busy : v # w => port[v] # port[w]

ReconInv ==
  /\ ReconTypes
  /\ pc = "recon" => Tally /\ Placed /\ Apart
  /\ NoProbeOutlivesRecon

-----------------------------------------------------------------------------
\* There are finitely many workers.
LEMMA BusyFinite == IsFiniteSet(Busy)
BY DaemonAssumption, FS_Subset DEF Busy

\* At first there is no recon.
LEMMA ReconInit == Init => ReconInv
<1> SUFFICES ASSUME Init PROVE ReconInv
  OBVIOUS
<1>1. ReconTypes
  BY FS_EmptySet DEF Init, NoTasks, ReconTypes
<1> QED BY <1>1 DEF Init, ReconInv, NoProbeOutlivesRecon

\* A process starts with no workers.
LEMMA StartStep == ASSUME ReconInv, Start PROVE ReconInv'
<1>1. ReconTypes'
  BY FS_EmptySet DEF Start, NoTasks, ReconTypes
<1> QED BY <1>1 DEF Start, NoTasks, ReconInv, NoProbeOutlivesRecon

\* A cycle starts with every port in the queue.
LEMMA StartCycleStep == ASSUME ReconInv, StartCycle PROVE ReconInv'
<1>1. /\ queue' = Ports /\ unfinished' = Len(Ports) /\ results' = {} /\ pc' = "recon"
      /\ worker' = [w \in Workers |-> "ready"] /\ port' = [w \in Workers |-> 0]
  BY DEF StartCycle
<1>2. Ports \in Seq(Nat) /\ Len(Ports) \in Nat
  BY DaemonAssumption
<1>3. ReconTypes'
  BY <1>1, <1>2, FS_EmptySet DEF ReconTypes
<1>4. Busy' = {}
  BY <1>1 DEF Busy
<1>5. Tally'
  BY <1>1, <1>2, <1>4, FS_EmptySet DEF Tally
<1>6. Placed'
  BY <1>1, <1>4 DEF Placed
<1>7. Apart'
  BY <1>1, <1>4, DaemonAssumption DEF Apart, IsInjective
<1> QED BY <1>1, <1>3, <1>5, <1>6, <1>7 DEF ReconInv, NoProbeOutlivesRecon

\* A worker takes the first port of the queue.
LEMMA TakeStep == ASSUME ReconInv, pc = "recon", NEW w \in Workers, Take(w) PROVE ReconInv'
<1>1. /\ worker[w] = "ready" /\ queue # <<>> /\ queue' = Tail(queue)
      /\ port' = [port EXCEPT ![w] = Head(queue)] /\ worker' = [worker EXCEPT ![w] = "probing"]
      /\ UNCHANGED <<pc, unfinished, results>>
  BY DEF Take
<1>2. ReconTypes /\ Tally /\ Placed /\ Apart
  BY DEF ReconInv
<1>3. queue \in Seq(Nat) /\ Len(queue) \in Nat \ {0} /\ Head(queue) = queue[1] /\ queue[1] \in Nat
  BY <1>1, <1>2 DEF ReconTypes
<1>4. /\ queue' \in Seq(Nat) /\ Len(queue') = Len(queue) - 1
      /\ \A i \in DOMAIN queue' : i + 1 \in DOMAIN queue /\ queue'[i] = queue[i + 1]
  BY <1>1, <1>3
<1>5. ReconTypes'
  BY <1>1, <1>2, <1>3, <1>4 DEF ReconTypes
<1>6. w \notin Busy /\ Busy' = Busy \cup {w}
  BY <1>1, <1>2 DEF Busy, ReconTypes
<1>7. Tally'
  <2>1. Cardinality(Busy') = Cardinality(Busy) + 1 /\ Cardinality(Busy) \in Nat
    BY <1>6, BusyFinite, FS_AddElement, FS_CardinalityType
  <2> QED BY <1>1, <1>2, <1>3, <1>4, <2>1 DEF Tally
<1>8. port'[w] = queue[1] /\ \A v \in Busy : port'[v] = port[v]
  BY <1>1, <1>2, <1>3, <1>6 DEF ReconTypes, Busy
<1>9. ToSet(queue) = ToSet(queue') \cup {queue[1]}
  <2>1. ASSUME NEW i \in DOMAIN queue, i # 1 PROVE queue[i] \in ToSet(queue')
    <3>1. i - 1 \in DOMAIN queue' /\ queue'[i - 1] = queue[i]
      BY <1>3, <1>4, <2>1
    <3> QED BY <3>1 DEF ToSet
  <2>2. 1 \in DOMAIN queue
    BY <1>3
  <2>3. ToSet(queue') \cup {queue[1]} \subseteq ToSet(queue)
    BY <1>4, <2>2 DEF ToSet
  <2>4. ASSUME NEW p \in ToSet(queue) PROVE p \in ToSet(queue') \cup {queue[1]}
    <3>1. PICK i \in DOMAIN queue : p = queue[i]
      BY DEF ToSet
    <3> QED BY <2>1, <3>1
  <2> QED BY <2>3, <2>4
<1>10. Placed'
  <2>1. {port'[v] : v \in Busy'} = {port[v] : v \in Busy} \cup {queue[1]}
    BY <1>6, <1>8
  <2> QED BY <1>1, <1>2, <1>9, <2>1 DEF Placed
<1>11. Apart'
  <2>1. 1 \in DOMAIN queue /\ \A i \in DOMAIN queue' : i + 1 # 1
    BY <1>3, <1>4
  <2> QED BY <1>1, <1>2, <1>4, <1>6, <1>8, <2>1 DEF Apart
<1> QED BY <1>1, <1>5, <1>7, <1>10, <1>11 DEF ReconInv, NoProbeOutlivesRecon

\* A worker ends at an empty queue, dies of its probe or comes back from its
\* backoff: the same workers are busy.
LEMMA SameBusyStep ==
  ASSUME ReconInv, pc = "recon", NEW w \in Workers,
         NEW from, NEW to \in {"ready", "ended", "dead"}, worker[w] = from,
         (from = "probing") <=> (to = "dead"), from # "dead",
         worker' = [worker EXCEPT ![w] = to],
         UNCHANGED <<pc, queue, unfinished, port, results>>
  PROVE  ReconInv'
<1>1. ReconTypes /\ Tally /\ Placed /\ Apart
  BY DEF ReconInv
<1>2. ReconTypes'
  BY <1>1 DEF ReconTypes
<1>3. Busy' = Busy
  BY <1>1 DEF Busy, ReconTypes
<1>4. Tally' /\ Placed' /\ Apart'
  BY <1>1, <1>3 DEF Tally, Placed, Apart
<1> QED BY <1>2, <1>4 DEF ReconInv, NoProbeOutlivesRecon

\* A probe returns: its port moves from the worker to the results.
LEMMA ProbeStep ==
  ASSUME ReconInv, pc = "recon", NEW w \in Workers, NEW open \in BOOLEAN, Probe(w, open)
  PROVE  ReconInv'
<1> DEFINE r == <<port[w], open>>
<1>1. /\ worker[w] = "probing" /\ results' = results \cup {r} /\ unfinished' = unfinished - 1
      /\ worker' = [worker EXCEPT ![w] = "backoff"] /\ UNCHANGED <<pc, queue, port>>
  BY DEF Probe, TaskDone
<1>2. ReconTypes /\ Tally /\ Placed /\ Apart
  BY DEF ReconInv
<1>3. r \in Nat \X BOOLEAN /\ r[1] = port[w]
  BY <1>2 DEF ReconTypes
<1>4. w \in Busy /\ Busy' = Busy \ {w}
  BY <1>1, <1>2 DEF Busy, ReconTypes
<1>5. r \notin results
  BY <1>2, <1>3, <1>4 DEF Apart
<1>6. IsFiniteSet(results') /\ Cardinality(results') = Cardinality(results) + 1 /\ Cardinality(results) \in Nat
  BY <1>1, <1>2, <1>5, FS_AddElement, FS_CardinalityType DEF ReconTypes
<1>7. ReconTypes'
  BY <1>1, <1>2, <1>3, <1>6 DEF ReconTypes
<1>8. Tally'
  <2>1. Cardinality(Busy') = Cardinality(Busy) - 1 /\ Cardinality(Busy) \in Nat
    BY <1>4, BusyFinite, FS_RemoveElement, FS_CardinalityType
  <2>2. Len(queue) \in Nat /\ unfinished \in Int /\ Len(Ports) \in Nat
    BY <1>2, DaemonAssumption DEF ReconTypes
  <2> QED BY <1>1, <1>2, <1>6, <2>1, <2>2 DEF Tally
<1>9. Placed'
  <2>1. {port[v] : v \in Busy} = {port[v] : v \in Busy'} \cup {port[w]}
    BY <1>4
  <2>2. {q[1] : q \in results'} = {q[1] : q \in results} \cup {port[w]}
    BY <1>1, <1>3
  <2>3. {port'[v] : v \in Busy'} = {port[v] : v \in Busy'}
    BY <1>1
  <2> QED BY <1>1, <1>2, <2>1, <2>2, <2>3 DEF Placed
<1>10. Apart'
  <2>1. \A q \in results' : q \in results \/ q[1] = port[w]
    BY <1>1, <1>3
  <2>2. Busy' \subseteq Busy /\ w \notin Busy'
    BY <1>4
  <2> QED BY <1>1, <1>2, <1>4, <2>1, <2>2 DEF Apart
<1> QED BY <1>1, <1>7, <1>8, <1>9, <1>10 DEF ReconInv, NoProbeOutlivesRecon

\* The join returns when the count is zero: nobody is busy, every port is in a
\* result, and what follows leaves the results as they are.
LEMMA JoinStep == ASSUME ReconInv, Join, pc' \in {"sleep", "down"} PROVE ReconInv'
<1>1. /\ pc = "recon" /\ unfinished = 0 /\ UNCHANGED <<queue, unfinished, port, results>>
      /\ worker' = [w \in Workers |-> IF worker[w] \in {"ended", "dead"} THEN worker[w] ELSE "cancelled"]
  BY DEF Join
<1>2. ReconTypes /\ Tally /\ Placed
  BY <1>1 DEF ReconInv
<1>3. ReconTypes'
  BY <1>1, <1>2 DEF ReconTypes
<1>4. \A w \in Workers : worker'[w] # "probing"
  BY <1>1
<1>5. Len(queue) = 0 /\ Busy = {}
  <2>1. Cardinality(Busy) \in Nat /\ Len(queue) \in Nat
    BY <1>2, BusyFinite, FS_CardinalityType DEF ReconTypes
  <2>2. Len(queue) = 0 /\ Cardinality(Busy) = 0
    BY <1>1, <1>2, <2>1 DEF Tally
  <2> QED BY <2>2, BusyFinite, FS_EmptySet
<1>6. ToSet(queue) = {}
  BY <1>2, <1>5 DEF ToSet, ReconTypes
<1>7. {r[1] : r \in results'} = ToSet(Ports)
  BY <1>1, <1>2, <1>5, <1>6 DEF Placed
<1>8. Cardinality(results') = Len(Ports)
  <2>1. Cardinality(results) \in Nat
    BY <1>2, FS_CardinalityType DEF ReconTypes
  <2> QED BY <1>1, <1>2, <2>1 DEF Tally
<1> QED BY <1>3, <1>4, <1>7, <1>8 DEF ReconInv, NoProbeOutlivesRecon

\* Steps that leave the recon alone: they end nothing that is under way.
LEMMA OtherStep ==
  ASSUME ReconInv, UNCHANGED recon,
         \/ pc' = pc
         \/ pc' = "down"
         \/ pc = "sleep" /\ pc' = "loop"
  PROVE  ReconInv'
<1>1. UNCHANGED <<queue, unfinished, worker, port, results>>
  BY DEF recon
<1>2. ReconTypes' /\ Busy' = Busy
  BY <1>1 DEF ReconInv, ReconTypes, Busy
<1>3. pc' = "recon" => Tally' /\ Placed' /\ Apart'
  BY <1>1, <1>2 DEF ReconInv, Tally, Placed, Apart
<1>4. NoProbeOutlivesRecon'
  BY <1>1 DEF ReconInv, NoProbeOutlivesRecon
<1> QED BY <1>2, <1>3, <1>4 DEF ReconInv

\* Every step keeps the invariant.
LEMMA ReconKept == ASSUME ReconInv, [Next]_vars PROVE ReconInv'
<1>1. CASE Start
  BY <1>1, StartStep
<1>2. CASE StartCycle
  BY <1>2, StartCycleStep
<1>3. CASE Commit \/ Rollback \/ CommitRaises \/ CommitDies
  BY <1>3, JoinStep DEF Commit, Rollback, CommitRaises, CommitDies
<1>4. CASE Wake \/ Return \/ StartCycleRaises \/ Stop \/ Interrupt
  BY <1>4, OtherStep DEF Wake, Return, StartCycleRaises, Stop, Interrupt
<1>5. ASSUME NEW w \in Workers, WorkerStep(w) PROVE ReconInv'
  <2>1. CASE Take(w)
    BY <1>5, <2>1, TakeStep DEF WorkerStep
  <2>2. CASE WorkerEnds(w)
    BY <1>5, <2>2, SameBusyStep DEF WorkerStep, WorkerEnds
  <2>3. CASE Backoff(w)
    BY <1>5, <2>3, SameBusyStep DEF WorkerStep, Backoff
  <2>4. CASE \E open \in BOOLEAN : Probe(w, open)
    BY <1>5, <2>4, ProbeStep DEF WorkerStep
  <2> QED BY <1>5, <2>1, <2>2, <2>3, <2>4 DEF WorkerStep
<1>6. ASSUME NEW w \in Workers, pc = "recon", ProbeRaises(w) PROVE ReconInv'
  BY <1>6, SameBusyStep DEF ProbeRaises
<1>7. CASE UNCHANGED vars
  BY <1>7, OtherStep DEF vars
<1> QED BY <1>1, <1>2, <1>3, <1>4, <1>5, <1>6, <1>7 DEF Next, TaskStep

\* However the tasks of the event loop interleave, whatever raises and
\* whenever the daemon is stopped: no probe outlives its recon, and each port
\* was probed once when it returns (enterprise_adaptive_recon).
THEOREM ReconLeavesNoProbe == Spec => []NoProbeOutlivesRecon
<1>1. Init => ReconInv
  BY ReconInit
<1>2. ReconInv /\ [Next]_vars => ReconInv'
  BY ReconKept
<1>3. ReconInv => NoProbeOutlivesRecon
  BY DEF ReconInv
<1> QED BY <1>1, <1>2, <1>3, PTL DEF Spec

-----------------------------------------------------------------------------
(***************************************************************************)
(* What the log says of the cycles                                         *)
(***************************************************************************)
Entries == [cycle : Nat, op : {"MISSION_START", "MISSION_WARNING", "MISSION_SUCCESS", "torn"}]

\* What run_mission_cycle has of its cycle before the commit.
CycleInv ==
  /\ cycle \in 0..MaxCycles
  /\ DOMAIN found = 1..MaxCycles /\ DOMAIN ended = 1..MaxCycles
  /\ \A c \in 1..MaxCycles : c > cycle => found[c] = {} /\ ended[c] = "no"
  /\ pc = "recon" => /\ cycle > 0 /\ ended[cycle] = "no"
                     /\ buffer = <<StartOf(cycle)>>
                     /\ found[cycle] = {} <=> Active = {}

\* What a place that replay() reads holds.
Proper(i) ==
  LET c == disk[i].cycle IN
  \/ disk[i] = StartOf(c) /\ \A j \in 1..(i - 1) : disk[j].cycle < c
  \/ i > 1 /\ disk[i] = OutcomeOf(c) /\ disk[i - 1] = StartOf(c)

\* Both records of a cycle are in the file.
OnFile(c) == \E i \in DOMAIN disk : i > 1 /\ disk[i] = OutcomeOf(c) /\ disk[i - 1] = StartOf(c)

DiskInv ==
  /\ disk \in Seq(Entries)
  /\ \A i \in DOMAIN disk : disk[i] = Torn \/ disk[i].cycle \in {c \in 1..cycle : ended[c] \in {"committed", "uncertain"}}
  /\ \A i \in Replayed : Proper(i)
  /\ \A c \in 1..cycle : ended[c] = "committed" => OnFile(c)

RecordInv == CycleInv /\ DiskInv

\* The log may say what it says of the cycles that ended, whatever goes on.
LEMMA DiskFrame ==
  ASSUME CycleInv, DiskInv, UNCHANGED disk, cycle' \in {cycle, cycle + 1}, cycle' \in 0..MaxCycles,
         \A c \in 1..cycle' : c < cycle \/ ended[c] # "no" => ended'[c] = ended[c] /\ found'[c] = found[c],
         \A c \in 1..cycle' : ended[c] = "no" => ended'[c] \notin {"committed", "uncertain"}
  PROVE  DiskInv'
<1>1. cycle \in Nat /\ \A c \in 1..cycle : c \in 1..cycle'
  BY DEF CycleInv
<1>2. \A c \in 1..cycle : ended[c] \in {"committed", "uncertain"} =>
        ended'[c] = ended[c] /\ OutcomeOf(c)' = OutcomeOf(c)
  BY <1>1 DEF OutcomeOf
<1>3. \A i \in DOMAIN disk : disk[i] # Torn =>
        LET c == disk[i].cycle IN c \in 1..cycle /\ ended[c] \in {"committed", "uncertain"} /\ OutcomeOf(c)' = OutcomeOf(c)
  BY <1>2 DEF DiskInv
<1>4. \A i \in DOMAIN disk : disk'[i] = Torn' \/ disk'[i].cycle \in {c \in 1..cycle : ended[c] \in {"committed", "uncertain"}}'
  BY <1>1, <1>2, <1>3 DEF Torn
<1>5. Replayed' = Replayed /\ \A i \in Replayed : i \in DOMAIN disk /\ disk[i] # Torn
  <2>1. disk \in Seq(Entries)
    BY DEF DiskInv
  <2>2. Replayed' = Replayed
    BY DEF Replayed, Torn
  <2>3. \A i \in DOMAIN disk : i \in 1..i
    BY <2>1
  <2> QED BY <2>2, <2>3 DEF Replayed
<1>6. ASSUME NEW i \in Replayed PROVE Proper(i)'
  BY <1>3, <1>5, <1>6 DEF DiskInv, Proper, StartOf
<1>7. ASSUME NEW c \in 1..cycle', ended'[c] = "committed" PROVE OnFile(c)'
  <2>1. c \in 1..cycle /\ ended[c] = "committed"
    <3>1. ended[c] # "no"
      BY <1>7
    <3>2. ended[c] = "committed"
      BY <1>7, <3>1
    <3>3. c <= cycle
      BY <1>1, <3>1 DEF CycleInv
    <3> QED BY <1>1, <3>2, <3>3
  <2>2. OnFile(c)
    BY <2>1 DEF DiskInv
  <2>3. OutcomeOf(c)' = OutcomeOf(c)
    BY <1>2, <2>1
  <2> QED BY <2>2, <2>3 DEF OnFile, StartOf
<1> QED BY <1>4, <1>5, <1>6, <1>7 DEF DiskInv

\* What a commit writes, whole or cut short: a torn record, or the record of its
\* place behind those that come before it.
Written(w) ==
  /\ w \in Seq(Entries)
  /\ \A k \in DOMAIN w : \/ w[k] = Torn
                         \/ k = 1 /\ w[1] = StartOf(cycle)
                         \/ k = 2 /\ w[1] = StartOf(cycle) /\ w[2] = OutcomeOf(cycle)

\* Every outcome of a commit's writes is such.
LEMMA CutWritten ==
  ASSUME CycleInv, pc = "recon"
  PROVE  LET both == Append(buffer, Outcome) IN
         /\ Len(both) = 2 /\ both[1] = StartOf(cycle) /\ both[2] = OutcomeOf(cycle)
         /\ Written(both) /\ \A w \in Cut(both) : Written(w)
<1> DEFINE s == StartOf(cycle)
           o == OutcomeOf(cycle)
           both == Append(buffer, Outcome)
<1>1. buffer = <<s>> /\ Outcome = o
  BY DEF CycleInv, Outcome, OutcomeOf, Record
<1>2. s \in Entries /\ o \in Entries /\ Torn \in Entries
  BY DEF CycleInv, Entries, StartOf, OutcomeOf, Torn
<1> HIDE DEF s, o
<1>3. both \in Seq(Entries) /\ Len(both) = 2 /\ both[1] = s /\ both[2] = o
  <2>1. buffer \in Seq(Entries) /\ Len(buffer) = 1 /\ buffer[1] = s
    BY <1>1, <1>2
  <2> QED BY <1>1, <1>2, <2>1
<1> HIDE DEF both
<1>4. ASSUME NEW x \in Seq(Entries), NEW n \in 0..2, \A k \in 1..Len(x) : x[k] = Torn \/ (k <= n /\ x[k] = both[k]),
             n \in 1..2 => Len(x) >= n /\ x[1] = both[1]
      PROVE  Written(x)
  <2>1. \A k \in DOMAIN x : k = 1 \/ k = 2 \/ x[k] = Torn
    BY <1>4
  <2> QED BY <1>3, <1>4, <2>1 DEF Written, s, o
<1>5. Written(both)
  BY <1>3, <1>4
<1>6. ASSUME NEW w \in Cut(both) PROVE Written(w)
  <2>1. PICK n \in 0..2, t \in {<<>>, <<Torn>>} : w = SubSeq(both, 1, n) \o t
    BY <1>3, <1>6 DEF Cut
  <2> DEFINE x == SubSeq(both, 1, n)
  <2>2. x \in Seq(Entries) /\ Len(x) = n /\ \A k \in 1..n : x[k] = both[k]
    BY <1>3
  <2> HIDE DEF x
  <2>3. CASE t = <<>>
    <3>1. w = x
      BY <2>1, <2>2, <2>3 DEF x
    <3> QED BY <1>4, <2>2, <3>1
  <2>4. CASE t = <<Torn>>
    <3>1. w = Append(x, Torn)
      BY <2>1, <2>2, <2>4 DEF x
    <3>2. w \in Seq(Entries) /\ Len(w) = n + 1 /\ w[n + 1] = Torn /\ \A k \in 1..n : w[k] = both[k]
      BY <1>2, <2>2, <3>1
    <3>3. \A k \in 1..(n + 1) : (k \in 1..n /\ k <= n) \/ k = n + 1
      OBVIOUS
    <3>4. \A k \in 1..Len(w) : w[k] = Torn \/ (k <= n /\ w[k] = both[k])
      BY <3>2, <3>3
    <3>5. n \in 1..2 => Len(w) >= n /\ w[1] = both[1]
      BY <3>2
    <3> QED BY <1>4, <3>2, <3>4, <3>5
  <2> QED BY <2>3, <2>4
<1> QED BY <1>3, <1>5, <1>6 DEF s, o, both

\* A commit, one that raises or one that the process dies in.
LEMMA CommitKeeps ==
  ASSUME RecordInv, Join, NEW w, Written(w), disk' = disk \o w,
         NEW how \in {"committed", "uncertain"}, End(how), pc' # "recon",
         how = "committed" => Len(w) = 2 /\ w[1] = StartOf(cycle) /\ w[2] = OutcomeOf(cycle)
  PROVE  RecordInv'
<1> DEFINE n == Len(disk)
<1>1. /\ pc = "recon" /\ CycleInv /\ DiskInv /\ UNCHANGED <<cycle, found>>
      /\ ended' = [ended EXCEPT ![cycle] = how] /\ cycle \in 1..MaxCycles /\ ended[cycle] = "no"
  BY DEF Join, End, RecordInv, CycleInv
<1>2. disk \in Seq(Entries) /\ w \in Seq(Entries) /\ n \in Nat /\ Len(w) \in Nat
  BY <1>1 DEF DiskInv, Written
<1>3. CycleInv'
  BY <1>1 DEF CycleInv
<1>4. /\ disk' \in Seq(Entries) /\ DOMAIN disk = 1..n /\ DOMAIN disk' = 1..(n + Len(w))
      /\ \A i \in 1..n : disk'[i] = disk[i]
      /\ \A k \in DOMAIN w : k \in Nat \ {0} /\ n + k \in DOMAIN disk' /\ disk'[n + k] = w[k]
      /\ \A i \in DOMAIN disk' : i \in 1..n \/ i - n \in DOMAIN w
  BY <1>2
<1>5. cycle \in Nat \ {0} /\ \A c \in 1..cycle : OutcomeOf(c)' = OutcomeOf(c) /\ StartOf(c)' = StartOf(c)
  BY <1>1 DEF OutcomeOf, StartOf
<1>6. \A i \in 1..n : disk[i].cycle < cycle
  <2>1. ASSUME NEW i \in 1..n PROVE disk[i].cycle < cycle
    <3>1. CASE disk[i] = Torn
      BY <1>5, <3>1 DEF Torn
    <3>2. CASE disk[i] # Torn
      <4>1. disk[i].cycle \in 1..cycle /\ disk[i].cycle # cycle
        BY <1>1, <1>4, <3>2 DEF DiskInv
      <4> QED BY <1>5, <4>1
    <3> QED BY <3>1, <3>2
  <2> QED BY <2>1
<1>7. ASSUME NEW i \in DOMAIN disk'
      PROVE  disk'[i] = Torn' \/ disk'[i].cycle \in {c \in 1..cycle : ended[c] \in {"committed", "uncertain"}}'
  <2>1. CASE i \in 1..n
    BY <1>1, <1>4, <2>1 DEF DiskInv, CycleInv, Torn
  <2>2. CASE i - n \in DOMAIN w
    <3>1. disk'[i] = w[i - n]
      BY <1>2, <1>4, <2>2
    <3>2. w[i - n] = Torn \/ w[i - n].cycle = cycle
      <4>1. w[i - n] \in {Torn, StartOf(cycle), OutcomeOf(cycle)}
        BY <2>2 DEF Written
      <4> QED BY <4>1 DEF StartOf, OutcomeOf
    <3>3. cycle \in 1..cycle /\ ended'[cycle] = how
      BY <1>1 DEF CycleInv
    <3> QED BY <1>1, <3>1, <3>2, <3>3 DEF Torn
  <2> QED BY <1>4, <2>1, <2>2
<1>8. ASSUME NEW i \in Replayed' PROVE Proper(i)'
  <2>1. i \in DOMAIN disk' /\ \A j \in 1..i : disk'[j] # Torn
    BY DEF Replayed, Torn
  <2>2. CASE i \in 1..n
    <3>1. i \in Replayed /\ \A j \in 1..i : disk'[j] = disk[j] /\ j \in 1..n
      <4>1. \A j \in 1..i : j \in 1..n
        BY <1>2, <2>2
      <4> QED BY <1>4, <2>1, <2>2, <4>1 DEF Replayed
    <3>2. Proper(i) /\ i \in 1..i /\ disk[i] # Torn
      BY <1>1, <2>1, <2>2, <3>1 DEF DiskInv
    <3>3. disk[i].cycle \in 1..cycle
      BY <1>1, <1>4, <2>2, <3>2 DEF DiskInv
    <3>4. i > 1 => i - 1 \in 1..i
      BY <2>2
    <3>5. \A j \in 1..(i - 1) : j \in 1..i
      BY <2>2
    <3>6. disk'[i] = disk[i] /\ (i > 1 => disk'[i - 1] = disk[i - 1]) /\ \A j \in 1..(i - 1) : disk'[j] = disk[j]
      BY <3>1, <3>2, <3>4, <3>5
    <3>7. OutcomeOf(disk[i].cycle)' = OutcomeOf(disk'[i].cycle) /\ StartOf(disk[i].cycle)' = StartOf(disk'[i].cycle)
      BY <1>5, <3>3, <3>6, <1>1 DEF OutcomeOf, StartOf
    <3> QED BY <3>2, <3>6, <3>7 DEF Proper
  <2>3. CASE i - n \in DOMAIN w
    <3>1. i = n + (i - n) /\ i \in 1..i /\ disk'[i] = w[i - n] /\ w[i - n] # Torn
      BY <1>2, <1>4, <2>1, <2>3
    <3>2. CASE i - n = 1 /\ w[1] = StartOf(cycle)
      <4>1. disk'[i] = StartOf(cycle) /\ disk'[i].cycle = cycle
        BY <3>1, <3>2 DEF StartOf
      <4>2. \A j \in 1..(i - 1) : j \in 1..n
        BY <1>2, <3>1, <3>2
      <4>3. \A j \in 1..(i - 1) : disk'[j].cycle < cycle
        BY <1>4, <1>6, <4>2
      <4> QED BY <4>1, <4>3 DEF Proper, StartOf
    <3>3. CASE i - n = 2 /\ w[1] = StartOf(cycle) /\ w[2] = OutcomeOf(cycle)
      <4>1. disk'[i] = OutcomeOf(cycle) /\ disk'[i].cycle = cycle
        BY <3>1, <3>3 DEF OutcomeOf
      <4>2. i > 1 /\ i - 1 = n + 1 /\ 1 \in DOMAIN w
        BY <1>2, <2>3, <3>1, <3>3
      <4>3. disk'[i - 1] = StartOf(cycle)
        BY <1>4, <3>3, <4>2
      <4>4. OutcomeOf(cycle)' = OutcomeOf(cycle) /\ cycle' = cycle
        BY <1>1 DEF OutcomeOf
      <4> QED BY <4>1, <4>2, <4>3, <4>4, <1>1 DEF Proper, StartOf, OutcomeOf
    <3> QED BY <2>3, <3>1, <3>2, <3>3 DEF Written
  <2> QED BY <1>4, <2>1, <2>2, <2>3
<1>9. ASSUME NEW c \in 1..cycle', ended'[c] = "committed" PROVE OnFile(c)'
  <2>1. CASE c = cycle
    <3>1. how = "committed"
      BY <1>1, <1>9, <2>1 DEF CycleInv
    <3>2. 1 \in DOMAIN w /\ 2 \in DOMAIN w /\ w[1] = StartOf(cycle) /\ w[2] = OutcomeOf(cycle)
      BY <1>2, <3>1
    <3>3. n + 2 \in DOMAIN disk' /\ disk'[n + 2] = OutcomeOf(cycle) /\ disk'[n + 1] = StartOf(cycle)
      BY <1>4, <3>2
    <3>4. n + 2 > 1 /\ (n + 2) - 1 = n + 1
      BY <1>2
    <3> QED BY <1>1, <2>1, <3>3, <3>4 DEF OnFile, OutcomeOf, StartOf
  <2>2. CASE c # cycle
    <3>1. c \in 1..cycle /\ ended[c] = "committed" /\ OutcomeOf(c)' = OutcomeOf(c)
      BY <1>1, <1>9, <2>2 DEF CycleInv, OutcomeOf
    <3>2. PICK i \in DOMAIN disk : i > 1 /\ disk[i] = OutcomeOf(c) /\ disk[i - 1] = StartOf(c)
      BY <1>1, <3>1 DEF DiskInv, OnFile
    <3>3. i \in 1..n /\ i - 1 \in 1..n /\ i \in DOMAIN disk'
      BY <1>2, <1>4, <3>2
    <3> QED BY <1>4, <3>1, <3>2, <3>3 DEF OnFile, StartOf
  <2> QED BY <2>1, <2>2
<1>10. DiskInv'
  BY <1>4, <1>7, <1>8, <1>9 DEF DiskInv
<1> QED BY <1>3, <1>10 DEF RecordInv

\* The steps that write nothing, by what they do to the cycle: a new one, a probe
\* of the present one, its end without a commit, or nothing.
LEMMA NoWriteKeeps ==
  ASSUME RecordInv, UNCHANGED disk,
         \/ StartCycle \/ StartCycleRaises
         \/ \E w \in Workers : WorkerStep(w) \/ (pc = "recon" /\ ProbeRaises(w))
         \/ Rollback
         \/ Start \/ Wake \/ Return \/ Stop \/ Interrupt \/ UNCHANGED vars
  PROVE  RecordInv'
<1>1. CycleInv /\ DiskInv /\ cycle \in Nat /\ MaxCycles \in Nat
  BY DaemonAssumption DEF RecordInv, CycleInv
<1>2. CASE StartCycle
  <2>1. /\ cycle < MaxCycles /\ cycle' = cycle + 1 /\ UNCHANGED <<found, ended>>
        /\ buffer' = <<StartOf(cycle + 1)>> /\ results' = {}
    BY <1>2 DEF StartCycle, BeginMission, StartOf
  <2>2. cycle' \in 0..MaxCycles /\ cycle' \in 1..MaxCycles /\ cycle' > cycle /\ \A c \in 1..MaxCycles : c > cycle' => c > cycle
    BY <1>1, <2>1
  <2>3. found'[cycle'] = {} /\ ended'[cycle'] = "no" /\ Active' = {}
    BY <1>1, <2>1, <2>2 DEF CycleInv, Active
  <2>4. CycleInv'
    BY <1>1, <2>1, <2>2, <2>3 DEF CycleInv, StartOf
  <2>5. DiskInv'
    BY <1>1, <2>1, <2>2, DiskFrame DEF CycleInv
  <2> QED BY <2>4, <2>5 DEF RecordInv
<1>3. CASE StartCycleRaises
  <2>1. /\ cycle < MaxCycles /\ cycle' = cycle + 1 /\ UNCHANGED found /\ pc' = "down"
        /\ ended' = [ended EXCEPT ![cycle + 1] = "raised"]
    BY <1>3 DEF StartCycleRaises
  <2>2. cycle' \in 0..MaxCycles /\ \A c \in 1..MaxCycles : c > cycle' => c > cycle /\ c # cycle + 1
    BY <1>1, <2>1
  <2>3. DOMAIN ended = 1..MaxCycles /\ ended[cycle + 1] = "no" /\ cycle + 1 \in 1..MaxCycles
    BY <1>1, <2>1 DEF CycleInv
  <2>4. CycleInv'
    BY <1>1, <2>1, <2>2, <2>3 DEF CycleInv
  <2>5. \A c \in 1..cycle' : c \in 1..MaxCycles /\ (c < cycle => c # cycle + 1)
    BY <1>1, <2>1
  <2>6. DiskInv'
    BY <1>1, <2>1, <2>2, <2>3, <2>5, DiskFrame
  <2> QED BY <2>4, <2>6 DEF RecordInv
<1>4. ASSUME NEW w \in Workers, NEW open \in BOOLEAN, pc = "recon", Probe(w, open) PROVE RecordInv'
  <2>1. /\ results' = results \cup {<<port[w], open>>} /\ UNCHANGED <<pc, cycle, buffer, ended>>
        /\ found' = IF open THEN [found EXCEPT ![cycle] = @ \cup {port[w]}] ELSE found
        /\ cycle \in 1..MaxCycles /\ ended[cycle] = "no"
    BY <1>1, <1>4 DEF Probe, wal, CycleInv
  <2>2. Active' = IF open THEN Active \cup {<<port[w], open>>} ELSE Active
    BY <2>1 DEF Active
  <2>3. found'[cycle] = {} <=> Active' = {}
    BY <1>1, <1>4, <2>1, <2>2 DEF CycleInv
  <2>4. \A c \in 1..MaxCycles : c # cycle => found'[c] = found[c]
    BY <1>1, <2>1 DEF CycleInv
  <2>5. CycleInv'
    BY <1>1, <1>4, <2>1, <2>3, <2>4 DEF CycleInv, StartOf
  <2>6. \A c \in 1..cycle : c \in 1..MaxCycles /\ (c < cycle => c # cycle)
    BY <1>1, <2>1
  <2>7. DiskInv'
    BY <1>1, <2>1, <2>4, <2>6, DiskFrame
  <2> QED BY <2>5, <2>7 DEF RecordInv
<1>5. ASSUME pc = "recon", pc' # "recon", UNCHANGED <<cycle, found>>,
             NEW how \in {"failed", "cancelled"}, End(how)
      PROVE  RecordInv'
  <2>1. ended' = [ended EXCEPT ![cycle] = how] /\ cycle \in 1..MaxCycles /\ ended[cycle] = "no" /\ DOMAIN ended = 1..MaxCycles
    BY <1>1, <1>5 DEF End, CycleInv
  <2>2. CycleInv'
    BY <1>1, <1>5, <2>1 DEF CycleInv
  <2>3. \A c \in 1..cycle : c \in 1..MaxCycles /\ (c < cycle => c # cycle)
    BY <1>1, <2>1
  <2>4. DiskInv'
    BY <1>1, <1>5, <2>1, <2>3, DiskFrame
  <2> QED BY <2>2, <2>4 DEF RecordInv
<1>6. ASSUME UNCHANGED <<cycle, found, ended>>, pc' # "recon" \/ UNCHANGED <<pc, buffer, results>> PROVE RecordInv'
  <2>1. Active' = Active \/ pc' # "recon"
    BY <1>6 DEF Active
  <2>2. CycleInv'
    BY <1>1, <1>6, <2>1 DEF CycleInv, StartOf
  <2>3. DiskInv'
    BY <1>1, <1>6, DiskFrame DEF CycleInv
  <2> QED BY <2>2, <2>3 DEF RecordInv
<1>7. ASSUME NEW w \in Workers, WorkerStep(w) PROVE RecordInv'
  <2>1. pc = "recon"
    BY <1>7 DEF WorkerStep
  <2>2. CASE Take(w) \/ WorkerEnds(w) \/ Backoff(w)
    BY <1>6, <2>2 DEF Take, WorkerEnds, Backoff, wal
  <2> QED BY <1>4, <1>7, <2>1, <2>2 DEF WorkerStep
<1>8. ASSUME NEW w \in Workers, ProbeRaises(w) PROVE RecordInv'
  BY <1>6, <1>8 DEF ProbeRaises, wal
<1>9. CASE Rollback
  BY <1>5, <1>9 DEF Rollback, Join
<1>10. CASE Interrupt
  BY <1>5, <1>6, <1>10 DEF Interrupt
<1>11. CASE Start \/ Wake \/ Return \/ Stop \/ UNCHANGED vars
  BY <1>6, <1>11 DEF Start, Wake, Return, Stop, recon, wal, vars
<1> QED BY <1>2, <1>3, <1>7, <1>8, <1>9, <1>10, <1>11

\* The commits and all other steps.
LEMMA RecordKept == RecordInv /\ [Next]_vars => RecordInv'
<1> SUFFICES ASSUME RecordInv, [Next]_vars PROVE RecordInv'
  OBVIOUS
<1>1. ASSUME Join, pc' # "recon", End("uncertain"),
             NEW w \in Cut(Append(buffer, Outcome)), disk' = disk \o w
      PROVE  RecordInv'
  <2>1. Written(w)
    BY <1>1, CutWritten DEF RecordInv, Join
  <2> QED BY <1>1, <2>1, CommitKeeps
<1>2. CASE Commit
  <2>1. Join /\ End("committed") /\ pc' = "sleep" /\ disk' = disk \o Append(buffer, Outcome)
    BY <1>2 DEF Commit
  <2>2. /\ Written(Append(buffer, Outcome)) /\ Len(Append(buffer, Outcome)) = 2
        /\ Append(buffer, Outcome)[1] = StartOf(cycle) /\ Append(buffer, Outcome)[2] = OutcomeOf(cycle)
    BY <2>1, CutWritten DEF RecordInv, Join
  <2> QED BY <2>1, <2>2, CommitKeeps
<1>3. CASE CommitRaises
  BY <1>1, <1>3 DEF CommitRaises
<1>4. CASE CommitDies
  BY <1>1, <1>4 DEF CommitDies
<1>5. CASE StartCycle
  BY <1>5, NoWriteKeeps DEF StartCycle, BeginMission
<1>6. CASE StartCycleRaises \/ Rollback \/ Start
  BY <1>6, NoWriteKeeps DEF StartCycleRaises, Rollback, Start
<1>7. CASE Wake \/ Return \/ Stop \/ Interrupt \/ UNCHANGED vars
  BY <1>7, NoWriteKeeps DEF Wake, Return, Stop, Interrupt, wal, vars
<1>8. ASSUME NEW w \in Workers, WorkerStep(w) \/ (pc = "recon" /\ ProbeRaises(w)) PROVE RecordInv'
  <2>1. UNCHANGED disk
    BY <1>8 DEF WorkerStep, Take, WorkerEnds, Backoff, Probe, ProbeRaises, wal
  <2> QED BY <1>8, <2>1, NoWriteKeeps
<1> QED BY <1>2, <1>3, <1>4, <1>5, <1>6, <1>7, <1>8 DEF Next, TaskStep

\* For any number of cycles, ports and workers, whatever fails, raises or is
\* interrupted: replay() returns the cycles in order, each with its start and the
\* outcome its probes had; a committed cycle is in the file and one that did not
\* come to its commit is not.
THEOREM LogRecordsCycles == Spec => []CyclesRecorded
<1>1. Init => RecordInv
  <2> SUFFICES ASSUME Init PROVE RecordInv
    OBVIOUS
  <2>1. CycleInv
    BY DaemonAssumption DEF Init, CycleInv
  <2>2. disk = <<>> /\ cycle = 0 /\ Replayed = {}
    BY DEF Init, Replayed
  <2>3. DiskInv
    BY <2>2 DEF DiskInv
  <2> QED BY <2>1, <2>3 DEF RecordInv
<1>2. ASSUME RecordInv PROVE CyclesRecorded
  <2>1. \A i \in Replayed : Proper(i)
    BY <1>2 DEF RecordInv, DiskInv
  <2>2. \A c \in 1..cycle : ended[c] = "committed" => OnFile(c)
    BY <1>2 DEF RecordInv, DiskInv
  <2>3. ASSUME NEW c \in 1..cycle, ended[c] \notin {"committed", "uncertain"}, NEW i \in DOMAIN disk PROVE disk[i].cycle # c
    <3>1. CASE disk[i] = Torn
      BY <3>1 DEF Torn
    <3>2. CASE disk[i] # Torn
      BY <1>2, <2>3, <3>2 DEF RecordInv, DiskInv
    <3> QED BY <3>1, <3>2
  <2> QED BY <2>1, <2>2, <2>3 DEF CyclesRecorded, Proper, OnFile
<1> QED BY <1>1, <1>2, RecordKept, PTL DEF Spec
=============================================================================
