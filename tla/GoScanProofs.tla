---------------------------- MODULE GoScanProofs ----------------------------
(***************************************************************************)
(* Proofs about the two ends of a Go sweep: the worker pool of goscan      *)
(* implements Sweep, for every set of ports and every number of workers;   *)
(* and the bridge to it never mixes up replies, for any number of threads, *)
(* calls and failures of processes.                                        *)
(***************************************************************************)
EXTENDS GoPool, GoServe, Functions, FiniteSetTheorems, TLAPS

(***************************************************************************)
(* The worker pool (module GoPool)                                         *)
(***************************************************************************)
Active == {w \in Workers : at[w] # "off"}

PoolTypes ==
  /\ program \in {"serve", "once"}
  /\ ports \in SUBSET Ports /\ work \in SUBSET ports
  /\ at \in [Workers -> {"off", "pull", "dial", "send"}]
  /\ job \in [Workers -> Ports \cup {0}] /\ found \in [Workers -> BOOLEAN]
  /\ wg \in Nat
  /\ results \in Seq([port : Ports, open : BOOLEAN])
  /\ got \in Seq(Ports) /\ out \in Seq(Ports)
  /\ dialled \in [DOMAIN dialled -> BOOLEAN] /\ DOMAIN dialled \subseteq ports
  /\ answered \in BOOLEAN

\* The WaitGroup counts the workers, and none has ended before the work.
Counted ==
  /\ wg = Cardinality(Active)
  /\ work # {} => Active # {}
  /\ closed => wg = 0

\* Before it is dialled a port is in the work channel or with one worker.
Waiting ==
  /\ ports = work \cup {job[w] : w \in {v \in Workers : at[v] = "dial"}} \cup DOMAIN dialled
  /\ work \cap DOMAIN dialled = {}
  /\ \A w \in Workers : at[w] = "dial" => job[w] \in ports \ (work \cup DOMAIN dialled)
  /\ \A v, w \in Workers : at[v] = "dial" /\ at[w] = "dial" /\ v # w => job[v] # job[w]

\* What a worker has to send, what is in the channel and what was received are
\* what the dials found...
Truthful ==
  /\ \A w \in Workers : at[w] = "send" => job[w] \in DOMAIN dialled /\ found[w] = dialled[job[w]]
  /\ \A i \in DOMAIN results : results[i].port \in DOMAIN dialled /\ results[i].open = dialled[results[i].port]
  /\ \A i \in DOMAIN got : got[i] \in DOMAIN dialled /\ dialled[got[i]]

\* ... each result in one place...
Single ==
  /\ \A v, w \in Workers : at[v] = "send" /\ at[w] = "send" /\ v # w => job[v] # job[w]
  /\ \A i, j \in DOMAIN results : i # j => results[i].port # results[j].port
  /\ \A i, j \in DOMAIN got : i # j => got[i] # got[j]
  /\ \A w \in Workers : at[w] = "send" =>
       (\A i \in DOMAIN results : results[i].port # job[w]) /\ (\A i \in DOMAIN got : got[i] # job[w])
  /\ \A i \in DOMAIN results, j \in DOMAIN got : results[i].port # got[j]

\* ... and none is lost.
Kept ==
  place # "exited" => \A p \in DOMAIN dialled : dialled[p] =>
    \/ \E w \in Workers : at[w] = "send" /\ job[w] = p
    \/ \E i \in DOMAIN results : results[i].port = p
    \/ \E i \in DOMAIN got : got[i] = p

\* Where the reader is, and what it has printed.
Reading ==
  /\ place \in {"read", "range", "blocked", "wait", "exited"}
  /\ place = "read" => answered
  /\ place \in {"range", "blocked", "wait"} => ~answered
  /\ place = "wait" => results = <<>> /\ closed
  /\ program = "once" /\ place \in {"range", "wait"} => out = got
  /\ place = "blocked" => got = Append(out, got[Len(got)])

PoolInv == PoolTypes /\ Counted /\ Waiting /\ Truthful /\ Single /\ Kept /\ Reading

-----------------------------------------------------------------------------
\* There are finitely many workers.
LEMMA ActiveFinite == IsFiniteSet(Active)
<1>1. IsFiniteSet(Workers)
  BY PoolAssumption, FS_Interval DEF Workers
<1> QED BY <1>1, FS_Subset DEF Active

\* At first there is nothing.
LEMMA PoolInit == Init => PoolInv
<1> SUFFICES ASSUME Init PROVE PoolInv
  OBVIOUS
<1>1. PoolTypes
  BY DEF Init, PoolTypes
<1>2. Counted
  <2>1. Active = {}
    BY DEF Init, Active
  <2> QED BY <2>1, FS_EmptySet DEF Init, Counted
<1>3. Waiting /\ Truthful /\ Single /\ Kept /\ Reading
  BY DEF Init, Waiting, Truthful, Single, Kept, Reading
<1> QED BY <1>1, <1>2, <1>3 DEF PoolInv

\* startScan makes a pool of workers for a request that names a port.
LEMMA RequestStep ==
  ASSUME PoolInv, NEW P \in SUBSET Ports, Request(P)
  PROVE  PoolInv'
<1> DEFINE n == maxWorkersFor(Cardinality(P))
<1>1. Cardinality(P) \in Nat \ {0}
  <2>1. IsFiniteSet(P)
    BY PoolAssumption, FS_Subset
  <2>2. P # {}
    BY DEF Request
  <2> QED BY <2>1, <2>2, FS_CardinalityType, FS_EmptySet
<1>2. n \in 1..maxWorkers
  BY <1>1, PoolAssumption DEF maxWorkersFor, Smaller
<1>3. at' = [w \in Workers |-> IF w <= n THEN "pull" ELSE "off"] /\ wg' = n
  BY DEF Request, startScan
<1>4. Active' = 1..n
  BY <1>2, <1>3, PoolAssumption DEF Active, Workers
<1>5. PoolTypes'
  <2>1. /\ ports' = P /\ work' = P /\ dialled' = <<>> /\ results' = <<>> /\ got' = <<>> /\ out' = <<>>
        /\ answered' = FALSE /\ UNCHANGED <<program, job, found>>
    BY DEF Request, startScan
  <2>2. at' \in [Workers -> {"off", "pull", "dial", "send"}] /\ wg' \in Nat
    BY <1>2, <1>3
  <2>3. program \in {"serve", "once"} /\ job \in [Workers -> Ports \cup {0}] /\ found \in [Workers -> BOOLEAN]
    BY DEF PoolInv, PoolTypes
  <2>4. /\ results' \in Seq([port : Ports, open : BOOLEAN]) /\ got' \in Seq(Ports) /\ out' \in Seq(Ports)
        /\ dialled' \in [DOMAIN dialled' -> BOOLEAN] /\ DOMAIN dialled' \subseteq ports'
    BY <2>1
  <2> QED BY <2>1, <2>2, <2>3, <2>4 DEF PoolTypes
<1>6. Counted'
  <2>1. Cardinality(1..n) = n
    BY <1>2, FS_Interval
  <2>2. 1..n # {}
    BY <1>2
  <2> QED BY <1>3, <1>4, <2>1, <2>2 DEF Counted, Request, startScan
<1>7. \A w \in Workers : at'[w] \notin {"dial", "send"}
  BY <1>3
<1>8. /\ ports' = P /\ work' = P /\ dialled' = <<>> /\ results' = <<>> /\ got' = <<>> /\ out' = <<>>
      /\ place' = "range" /\ answered' = FALSE
  BY DEF Request, startScan
<1>9. Waiting' /\ Truthful' /\ Single' /\ Kept'
  BY <1>7, <1>8 DEF Waiting, Truthful, Single, Kept
<1>10. Reading'
  BY <1>8 DEF Reading
<1> QED BY <1>5, <1>6, <1>9, <1>10 DEF PoolInv

\* A worker takes a port, or ends because the work channel is empty.
LEMMA PullStep ==
  ASSUME PoolInv, NEW w \in Workers, Pull(w)
  PROVE  PoolInv'
<1> USE DEF reader, history
<1>0. at \in [Workers -> {"off", "pull", "dial", "send"}] /\ at[w] = "pull"
  BY DEF PoolInv, PoolTypes, Pull
<1>1. UNCHANGED <<program, ports, results, closed, found, place, got, out, dialled, answered>>
  BY DEF Pull
<1>2. Kept' /\ Reading' /\ Truthful' /\ Single'
  <2>1. \A v \in Workers : (at'[v] = "send" <=> at[v] = "send") /\ (at[v] = "send" => job'[v] = job[v])
    BY <1>0 DEF PoolInv, PoolTypes, Pull
  <2>2. Truthful'
    BY <1>1, <2>1 DEF PoolInv, Truthful
  <2>3. Single'
    BY <1>1, <2>1 DEF PoolInv, Single
  <2>4. Kept'
    BY <1>1, <2>1 DEF PoolInv, Kept
  <2>5. Reading'
    BY <1>1 DEF PoolInv, Reading
  <2> QED BY <2>2, <2>3, <2>4, <2>5
<1>3. CASE \E p \in work : /\ work' = work \ {p} /\ job' = [job EXCEPT ![w] = p]
                           /\ at' = [at EXCEPT ![w] = "dial"] /\ wg' = wg
  <2>1. PICK p \in work : /\ work' = work \ {p} /\ job' = [job EXCEPT ![w] = p]
                          /\ at' = [at EXCEPT ![w] = "dial"] /\ wg' = wg
    BY <1>3
  <2>2. Active' = Active /\ Active # {}
    BY <1>0, <2>1 DEF Active
  <2>3. PoolTypes'
    BY <1>0, <1>1, <2>1 DEF PoolInv, PoolTypes
  <2>4. Counted'
    BY <1>1, <2>1, <2>2 DEF PoolInv, Counted
  <2>5. Waiting'
    BY <1>0, <1>1, <2>1 DEF PoolInv, PoolTypes, Waiting
  <2> QED BY <1>2, <2>3, <2>4, <2>5 DEF PoolInv
<1>4. CASE work = {} /\ wg' = wg - 1 /\ at' = [at EXCEPT ![w] = "off"] /\ UNCHANGED <<work, job>>
  <2>1. Active' = Active \ {w} /\ w \in Active
    BY <1>0, <1>4 DEF Active
  <2>2. Cardinality(Active') = Cardinality(Active) - 1
    BY <2>1, ActiveFinite, FS_RemoveElement
  <2>3. Cardinality(Active) \in Nat /\ Cardinality(Active) # 0
    BY <2>1, ActiveFinite, FS_CardinalityType, FS_EmptySet
  <2>4. PoolTypes'
    BY <1>0, <1>1, <1>4, <2>3 DEF PoolInv, PoolTypes, Counted
  <2>5. Counted'
    BY <1>1, <1>4, <2>2, <2>3 DEF PoolInv, Counted
  <2>6. Waiting'
    BY <1>0, <1>1, <1>4 DEF PoolInv, PoolTypes, Waiting
  <2> QED BY <1>2, <2>4, <2>5, <2>6 DEF PoolInv
<1> QED BY <1>3, <1>4 DEF Pull

\* A dial makes a result of a port that had none.
LEMMA DialStep ==
  ASSUME PoolInv, NEW w \in Workers, Dial(w)
  PROVE  PoolInv'
<1>1. PICK open \in BOOLEAN :
        /\ found' = [found EXCEPT ![w] = open]
        /\ dialled' = [p \in DOMAIN dialled \cup {job[w]} |-> IF p = job[w] THEN open ELSE dialled[p]]
  BY DEF Dial
<1>2. /\ at[w] = "dial" /\ at' = [at EXCEPT ![w] = "send"]
      /\ UNCHANGED <<program, ports, work, results, closed, wg, job, place, got, out, answered>>
  BY DEF Dial, channels, reader
<1>3. job[w] \in ports \ DOMAIN dialled
  BY <1>2 DEF PoolInv, Waiting
<1>4. DOMAIN dialled' = DOMAIN dialled \cup {job[w]} /\ dialled'[job[w]] = open
      /\ \A p \in DOMAIN dialled : dialled'[p] = dialled[p]
  BY <1>1, <1>3
<1>5. PoolTypes'
  BY <1>1, <1>2, <1>3, <1>4 DEF PoolInv, PoolTypes
<1>6. Counted'
  <2>1. Active' = Active
    BY <1>2 DEF PoolInv, PoolTypes, Active
  <2> QED BY <1>2, <2>1 DEF PoolInv, Counted
<1>7. Waiting'
  BY <1>2, <1>3, <1>4 DEF PoolInv, PoolTypes, Waiting
<1>8. Truthful'
  BY <1>1, <1>2, <1>3, <1>4 DEF PoolInv, PoolTypes, Truthful
<1>9. Single'
  BY <1>2, <1>3 DEF PoolInv, PoolTypes, Truthful, Single
<1>10. Kept'
  BY <1>2, <1>4 DEF PoolInv, PoolTypes, Kept
<1>11. Reading'
  BY <1>2 DEF PoolInv, Reading
<1> QED BY <1>5, <1>6, <1>7, <1>8, <1>9, <1>10, <1>11 DEF PoolInv

\* A worker's result goes into the channel.
LEMMA SendStep ==
  ASSUME PoolInv, NEW w \in Workers, Send(w)
  PROVE  PoolInv'
<1> DEFINE res == [port |-> job[w], open |-> found[w]]
<1>1. /\ at[w] = "send" /\ at' = [at EXCEPT ![w] = "pull"] /\ ~closed
      /\ results' = Append(results, res)
      /\ UNCHANGED <<program, ports, work, closed, wg, job, found, place, got, out, dialled, answered>>
  BY DEF Send, reader, history
<1>2. job[w] \in DOMAIN dialled /\ found[w] = dialled[job[w]] /\ job[w] \in Ports
  BY <1>1 DEF PoolInv, PoolTypes, Truthful
<1>3. res \in [port : Ports, open : BOOLEAN] /\ results \in Seq([port : Ports, open : BOOLEAN])
  BY <1>2 DEF PoolInv, PoolTypes
<1>4. /\ results' \in Seq([port : Ports, open : BOOLEAN])
      /\ DOMAIN results = 1..Len(results) /\ DOMAIN results' = 1..(Len(results) + 1)
      /\ results'[Len(results) + 1] = res
      /\ \A i \in DOMAIN results : results'[i] = results[i]
  BY <1>1, <1>3
<1> HIDE DEF res
<1>5. PoolTypes'
  BY <1>1, <1>4 DEF PoolInv, PoolTypes
<1>6. Counted'
  <2>1. Active' = Active
    BY <1>1 DEF PoolInv, PoolTypes, Active
  <2> QED BY <1>1, <2>1 DEF PoolInv, Counted
<1>7. Waiting'
  BY <1>1 DEF PoolInv, PoolTypes, Waiting
<1>8. res.port = job[w] /\ res.open = found[w]
  BY DEF res
<1>9. \A v \in Workers : at'[v] = "send" => at[v] = "send" /\ v # w
  BY <1>1 DEF PoolInv, PoolTypes
<1>10. Truthful'
  BY <1>1, <1>2, <1>4, <1>8, <1>9 DEF PoolInv, Truthful
<1>11. Single'
  BY <1>1, <1>4, <1>8, <1>9 DEF PoolInv, Single
<1>12. Kept'
  <2>1. \A v \in Workers : at[v] = "send" /\ v # w => at'[v] = "send"
    BY <1>1 DEF PoolInv, PoolTypes
  <2>2. Len(results) + 1 \in DOMAIN results' /\ DOMAIN results \subseteq DOMAIN results'
    BY <1>3, <1>4
  <2> QED BY <1>1, <1>4, <1>8, <2>1, <2>2 DEF PoolInv, Kept
<1>13. Reading'
  BY <1>1 DEF PoolInv, Reading
<1> QED BY <1>5, <1>6, <1>7, <1>10, <1>11, <1>12, <1>13 DEF PoolInv

\* The reader takes a result; an open port goes to `got`, and one-shot prints it,
\* now, later (when it waits for the pipe) or never (when it gives up).
LEMMA ReceiveStep ==
  ASSUME PoolInv, Receive
  PROVE  PoolInv'
<1> DEFINE res == Head(results)
<1>1. /\ place = "range" /\ results # <<>> /\ results' = Tail(results)
      /\ UNCHANGED <<program, ports, work, closed, wg, at, job, found, dialled, answered>>
  BY DEF Receive, pool, history
<1>2. results \in Seq([port : Ports, open : BOOLEAN]) /\ got \in Seq(Ports) /\ out \in Seq(Ports)
  BY DEF PoolInv, PoolTypes
<1>3. /\ results' \in Seq([port : Ports, open : BOOLEAN])
      /\ 1 \in DOMAIN results /\ res = results[1]
      /\ \A i \in DOMAIN results' : i + 1 \in DOMAIN results /\ i + 1 # 1 /\ results'[i] = results[i + 1]
      /\ \A i \in DOMAIN results : i # 1 => i - 1 \in DOMAIN results' /\ results'[i - 1] = results[i]
      /\ \A i, j \in DOMAIN results' : i # j => i + 1 # j + 1
  BY <1>1, <1>2
<1>4. res.port \in Ports /\ res.port \in DOMAIN dialled /\ res.open = dialled[res.port]
  <2>1. \A S : results \in Seq(S) => results[1] \in S
    BY <1>3
  <2>2. results[1].port \in DOMAIN dialled /\ results[1].open = dialled[results[1].port]
    BY <1>3 DEF PoolInv, Truthful
  <2>3. res \in [port : Ports, open : BOOLEAN]
    BY <1>2, <1>3, <2>1
  <2> QED BY <1>3, <2>2, <2>3
<1>5. Counted' /\ Waiting'
  <2>1. Active' = Active
    BY <1>1 DEF Active
  <2> QED BY <1>1, <2>1 DEF PoolInv, Counted, Waiting
<1>6. CASE ~res.open
  <2>1. UNCHANGED <<got, out, place>>
    BY <1>6 DEF Receive
  <2>2. PoolTypes'
    BY <1>1, <1>3, <2>1 DEF PoolInv, PoolTypes
  <2>3. Truthful' /\ Single'
    BY <1>1, <1>3, <2>1 DEF PoolInv, Truthful, Single
  <2>4. Kept'
    <3> SUFFICES ASSUME NEW p \in DOMAIN dialled, dialled[p]
                 PROVE  \/ \E w \in Workers : at[w] = "send" /\ job[w] = p
                        \/ \E i \in DOMAIN results' : results'[i].port = p
                        \/ \E i \in DOMAIN got : got[i] = p
      BY <1>1, <2>1 DEF Kept
    <3>1. res.port # p
      BY <1>4, <1>6
    <3>2. CASE \E i \in DOMAIN results : i # 1 /\ results[i].port = p
      BY <1>3, <3>2
    <3> QED BY <1>1, <1>3, <3>1, <3>2 DEF PoolInv, Kept
  <2>5. Reading'
    BY <1>1, <2>1 DEF PoolInv, Reading
  <2> QED BY <1>5, <2>2, <2>3, <2>4, <2>5 DEF PoolInv
<1>7. CASE res.open
  <2>1. /\ got' = Append(got, res.port)
        /\ \/ program = "serve" /\ UNCHANGED <<out, place>>
           \/ program = "once" /\ out' = Append(out, res.port) /\ UNCHANGED place
           \/ program = "once" /\ UNCHANGED out /\ place' = "blocked"
           \/ program = "once" /\ UNCHANGED out /\ place' = "exited"
    BY <1>7 DEF Receive, Exit
  <2>2. /\ got' \in Seq(Ports)
        /\ DOMAIN got = 1..Len(got) /\ DOMAIN got' = 1..(Len(got) + 1)
        /\ Len(got) + 1 \in DOMAIN got' /\ Len(got) + 1 \notin DOMAIN got /\ DOMAIN got \subseteq DOMAIN got'
        /\ got'[Len(got) + 1] = res.port
        /\ \A i \in DOMAIN got : got'[i] = got[i]
        /\ \A i \in DOMAIN got' : i \in DOMAIN got \/ i = Len(got) + 1
    BY <1>2, <1>4, <2>1
  <2>3. PoolTypes'
    <3>1. Append(out, res.port) \in Seq(Ports)
      BY <1>2, <1>4
    <3>2. out' \in Seq(Ports)
      BY <1>2, <2>1, <3>1
    <3> QED BY <1>1, <1>3, <2>2, <3>2 DEF PoolInv, PoolTypes
  <2>4. Truthful'
    BY <1>1, <1>3, <1>4, <1>7, <2>2 DEF PoolInv, Truthful
  <2>5. Single'
    <3>1. \A i \in DOMAIN results' : results'[i].port # res.port
      BY <1>3 DEF PoolInv, Single
    <3>2. \A i \in DOMAIN got : got[i] # res.port
      BY <1>3 DEF PoolInv, Single
    <3>3. \A w \in Workers : at[w] = "send" => job[w] # res.port
      BY <1>3 DEF PoolInv, Single
    <3>4. \A i, j \in DOMAIN results' : i # j => results'[i].port # results'[j].port
      BY <1>3 DEF PoolInv, Single
    <3>5. \A i, j \in DOMAIN got' : i # j => got'[i] # got'[j]
      BY <2>2, <3>2 DEF PoolInv, Single
    <3>6. \A w \in Workers : at[w] = "send" =>
            (\A i \in DOMAIN results' : results'[i].port # job[w]) /\ (\A i \in DOMAIN got' : got'[i] # job[w])
      BY <1>3, <2>2, <3>3 DEF PoolInv, Single
    <3>7. \A i \in DOMAIN results', j \in DOMAIN got' : results'[i].port # got'[j]
      BY <1>3, <2>2, <3>1 DEF PoolInv, Single
    <3> QED BY <1>1, <3>4, <3>5, <3>6, <3>7 DEF PoolInv, Single
  <2>6. Kept'
    <3> SUFFICES ASSUME NEW p \in DOMAIN dialled, dialled[p]
                 PROVE  \/ \E w \in Workers : at[w] = "send" /\ job[w] = p
                        \/ \E i \in DOMAIN results' : results'[i].port = p
                        \/ \E i \in DOMAIN got' : got'[i] = p
      BY <1>1 DEF Kept
    <3>1. CASE \E i \in DOMAIN results : i # 1 /\ results[i].port = p
      BY <1>3, <3>1
    <3>2. CASE res.port = p
      BY <2>2, <3>2
    <3>3. CASE \E i \in DOMAIN got : got[i] = p
      BY <2>2, <3>3
    <3> QED BY <1>1, <1>3, <3>1, <3>2, <3>3 DEF PoolInv, Kept
  <2>7. Reading'
    <3>1. got' = Append(got, got'[Len(got')])
      BY <1>2, <1>4, <2>1
    <3> QED BY <1>1, <2>1, <3>1 DEF PoolInv, PoolTypes, Reading
  <2> QED BY <1>5, <2>3, <2>4, <2>5, <2>6, <2>7 DEF PoolInv
<1> QED BY <1>6, <1>7

\* The print goes on, or fails.
LEMMA UnblockStep ==
  ASSUME PoolInv, Unblock
  PROVE  PoolInv'
<1>1. /\ place = "blocked" /\ UNCHANGED <<program, ports, work, results, closed, wg, at, job, found, got, dialled, answered>>
      /\ \/ out' = Append(out, got[Len(got)]) /\ place' = "range"
         \/ UNCHANGED out /\ place' = "exited"
  BY DEF Unblock, Exit, channels, pool, history
<1>2. got \in Seq(Ports)
  BY DEF PoolInv, PoolTypes
<1>3. Append(out, got[Len(got)]) = got
  BY <1>1 DEF PoolInv, Reading
<1>4. PoolTypes'
  BY <1>1, <1>2, <1>3 DEF PoolInv, PoolTypes
<1>5. Counted' /\ Waiting' /\ Truthful' /\ Single'
  <2>1. Active' = Active
    BY <1>1 DEF Active
  <2> QED BY <1>1, <2>1 DEF PoolInv, Counted, Waiting, Truthful, Single
<1>6. Kept' /\ Reading'
  BY <1>1, <1>3 DEF PoolInv, Kept, Reading
<1> QED BY <1>4, <1>5, <1>6 DEF PoolInv

\* The steps that move no port.
LEMMA OtherStep ==
  ASSUME PoolInv, CloseResults \/ RangeEnds \/ Reply \/ Refuse \/ Eof \/ UNCHANGED vars
  PROVE  PoolInv'
<1>1. /\ UNCHANGED <<program, ports, work, results, wg, at, job, found, got, dialled>>
      /\ place' # "exited" => place # "exited"
  BY DEF CloseResults, RangeEnds, Reply, Refuse, Eof, Exit, vars, channels, pool, reader, history, PoolInv, PoolTypes, Reading
<1>2. PoolTypes'
  BY <1>1 DEF PoolInv, PoolTypes, CloseResults, RangeEnds, Reply, Refuse, Eof, Exit, vars, channels, pool, reader, history
<1>3. Counted'
  <2>1. Active' = Active
    BY <1>1 DEF Active
  <2>2. closed' => closed \/ wg = 0
    BY DEF CloseResults, RangeEnds, Reply, Refuse, Eof, vars, channels
  <2> QED BY <1>1, <2>1, <2>2 DEF PoolInv, Counted
<1>4. Waiting' /\ Truthful' /\ Single' /\ Kept'
  BY <1>1 DEF PoolInv, Waiting, Truthful, Single, Kept
<1>5. Reading'
  BY DEF PoolInv, PoolTypes, Reading, CloseResults, RangeEnds, Reply, Refuse, Eof, Exit, vars, channels, pool, reader, history
<1> QED BY <1>2, <1>3, <1>4, <1>5 DEF PoolInv

-----------------------------------------------------------------------------
\* The invariant is kept by every step.
LEMMA PoolStep == PoolInv /\ [Next]_vars => PoolInv'
<1> SUFFICES ASSUME PoolInv, [Next]_vars PROVE PoolInv'
  OBVIOUS
<1>1. CASE WorkerStep
  BY <1>1, PullStep, DialStep, SendStep DEF WorkerStep
<1>2. CASE \E P \in SUBSET Ports : Request(P)
  BY <1>2, RequestStep
<1>3. CASE Receive
  BY <1>3, ReceiveStep
<1>4. CASE Unblock
  BY <1>4, UnblockStep
<1>5. CASE CloseResults \/ RangeEnds \/ Reply \/ Refuse \/ Eof \/ UNCHANGED vars
  BY <1>5, OtherStep
<1> QED BY <1>1, <1>2, <1>3, <1>4, <1>5 DEF Next, ReaderStep

\* When the reader has come to wait(), every port was dialled, and what it got is
\* every port found open, once.
LEMMA AllReceived ==
  ASSUME PoolInv, place = "wait"
  PROVE  /\ ~answered /\ DOMAIN dialled = ports
         /\ IsInjective(got) /\ Range(got) = {p \in ports : dialled[p]}
         /\ program = "once" => out = got
<1>1. ~answered /\ results = <<>> /\ closed /\ (program = "once" => out = got)
  BY DEF PoolInv, Reading
<1>2. Active = {}
  BY <1>1, ActiveFinite, FS_EmptySet DEF PoolInv, Counted
<1>3. work = {} /\ \A w \in Workers : at[w] = "off"
  BY <1>2 DEF PoolInv, Counted, Active
<1>4. DOMAIN dialled = ports
  BY <1>3 DEF PoolInv, Waiting
<1>5. IsInjective(got)
  BY DEF PoolInv, Single, IsInjective
<1>6. \A p \in ports : dialled[p] => \E i \in DOMAIN got : got[i] = p
  BY <1>1, <1>3, <1>4 DEF PoolInv, Kept
<1>7. \A i \in DOMAIN got : got[i] \in ports /\ dialled[got[i]]
  BY <1>4 DEF PoolInv, Truthful
<1>8. Range(got) = {p \in ports : dialled[p]}
  BY <1>6, <1>7 DEF Range
<1> QED BY <1>1, <1>4, <1>5, <1>8

\* Every step of the pool is a step of the sweep, or the client sees nothing of
\* it.
LEMMA SweepStep ==
  ASSUME PoolInv, [Next]_vars
  PROVE  [Client!Next]_(Client!vars)
<1>0. answered \in BOOLEAN
  BY DEF PoolInv, PoolTypes
<1>1. ASSUME NEW P \in SUBSET Ports, Request(P) PROVE Client!Next
  <2>1. answered /\ ports' = P /\ dialled' = <<>> /\ answered' = FALSE
    BY <1>1 DEF PoolInv, Reading, Request
  <2>2. Client!Ask(P)
    BY <2>1 DEF Client!Ask
  <2> QED BY <2>2 DEF Client!Next
<1>2. ASSUME NEW w \in Workers, Dial(w) PROVE Client!Next
  <2>1. PICK open \in BOOLEAN :
          dialled' = [p \in DOMAIN dialled \cup {job[w]} |-> IF p = job[w] THEN open ELSE dialled[p]]
    BY <1>2 DEF Dial
  <2>2. job[w] \in ports \ DOMAIN dialled /\ job[w] \in Ports
    BY <1>2 DEF PoolInv, PoolTypes, Waiting, Dial
  <2>3. UNCHANGED <<ports, answered, out>>
    BY <1>2 DEF Dial, reader
  <2>4. Client!Dial(job[w], open)
    BY <2>1, <2>2, <2>3 DEF Client!Dial
  <2> QED BY <2>2, <2>4 DEF Client!Next
<1>3. CASE Reply
  <2>1. place = "wait" /\ UNCHANGED <<ports, dialled>>
    BY <1>3 DEF Reply
  <2>2. CASE answered' = answered
    BY <1>3, <2>1, <2>2, AllReceived DEF Client!vars
  <2>3. CASE answered' = TRUE /\ out' = got
    <3>1. Client!Answer
      BY <2>1, <2>3, AllReceived DEF Client!Answer, Client!IsInjective, Client!Range, IsInjective, Range
    <3> QED BY <3>1 DEF Client!Next
  <2> QED BY <1>3, <2>1, <2>2, <2>3, AllReceived DEF Reply
<1>4. CASE Receive \/ Unblock
  <2>1. ~answered /\ UNCHANGED <<ports, dialled, answered>>
    BY <1>4 DEF PoolInv, Reading, Receive, Unblock, history
  <2> QED BY <2>1 DEF Client!vars
<1>5. CASE (\E w \in Workers : Pull(w) \/ Send(w)) \/ CloseResults \/ RangeEnds \/ Refuse \/ Eof \/ UNCHANGED vars
  <2>1. UNCHANGED <<ports, dialled, answered, out>>
    BY <1>5 DEF Pull, Send, CloseResults, RangeEnds, Refuse, Eof, vars, reader, history
  <2> QED BY <2>1 DEF Client!vars
<1> QED BY <1>1, <1>2, <1>3, <1>4, <1>5 DEF Next, WorkerStep, ReaderStep

\* The pool of startScan, with runServe or main behind it, is what Sweep promises
\* to the client: each port dialled once, and no result lost or counted twice on
\* its way through the workers, the channel and the reader.
THEOREM PoolImplementsSweep == Spec => SweepIsKept
<1>1. Init => Client!Init
  BY DEF Init, Client!Init
<1> QED BY <1>1, PoolInit, PoolStep, SweepStep, PTL DEF Spec, SweepIsKept, Client!Spec

-----------------------------------------------------------------------------
(***************************************************************************)
(* The bridge (module GoServe)                                             *)
(***************************************************************************)
InLock == {"start", "write", "blocked", "reply"}
Unanswered == {"enter", "excepted", "once"} \cup InLock
Stations == Unanswered \cup {"idle", "clear", "returned", "accepted", "raised"}

ServeTypes ==
  /\ pc \in [Threads -> Stations]
  /\ strict \in [Threads -> BOOLEAN]
  /\ call \in [Threads -> Nat] /\ rows \in [Threads -> Nat]
  /\ seq \in Nat /\ calls \in Nat
  /\ mixed = FALSE

\* The lock is with the thread that is in the with block of scan().
Locked == \A t \in Threads : pc[t] \in InLock <=> lock = t

PipesEmpty == stdin = <<>> /\ stdout = <<>> /\ sweeping = Nothing

\* Whatever answers the request of thread t, or the request itself.
Own(t, kind) == Line(seq, call[t], kind)
Pending(t) ==
  \/ stdin = <<Own(t, "request")>> /\ stdout = <<>> /\ sweeping = Nothing
  \/ stdin = <<>> /\ stdout = <<>> /\ sweeping = Own(t, "request")
  \/ stdin = <<>> /\ sweeping = Nothing
     /\ \E x \in {Own(t, "results"), Own(t, "error"), Line(0, 0, "garbled")} : stdout = <<x>>
  \/ PipesEmpty

\* Between two scans nothing is in the pipes, and during one there is its
\* request, or the reply to it, or what a dying process left.
OneRequest ==
  /\ (\A t \in Threads : pc[t] # "reply") => PipesEmpty
  /\ \A t \in Threads : pc[t] = "reply" => Pending(t)

\* What a thread has in hand is of its own call, and there is something unless
\* the call failed.
OwnRows ==
  \A t \in Threads :
    /\ rows[t] \in {0, call[t]}
    /\ pc[t] \in Unanswered \cup {"clear"} => t \notin failed
    /\ pc[t] = "clear" => rows[t] = call[t]
    /\ pc[t] \in {"returned", "accepted"} /\ strict[t] => t \notin failed /\ rows[t] = call[t]

ServeInv == ServeTypes /\ Locked /\ OneRequest /\ OwnRows

\* Nobody has called yet.
LEMMA ServeInitInv == ServeInit => ServeInv
<1> SUFFICES ASSUME ServeInit PROVE ServeInv
  OBVIOUS
<1>1. ServeTypes
  BY DEF ServeInit, ServeTypes, Stations, Unanswered
<1>2. \A t \in Threads : pc[t] = "idle" /\ lock # t
  BY ServeAssumption DEF ServeInit, NoOne
<1>3. Locked
  BY <1>2 DEF Locked, InLock
<1>4. OneRequest
  BY <1>2 DEF ServeInit, OneRequest, PipesEmpty
<1>5. OwnRows
  BY <1>2 DEF ServeInit, OwnRows, Unanswered, InLock
<1> QED BY <1>1, <1>3, <1>4, <1>5 DEF ServeInv

\* The steps of the process and close() leave the threads as they are.
LEMMA ProcessStep ==
  ASSUME ServeInv, ReadRequest \/ WriteReply \/ Die \/ Close
  PROVE  ServeInv'
<1>1. UNCHANGED <<pc, strict, call, rows, failed, lock, seq, calls, mixed>>
  BY DEF ReadRequest, WriteReply, Die, Close, thread
<1>2. ServeTypes' /\ Locked' /\ OwnRows'
  BY <1>1 DEF ServeInv, ServeTypes, Locked, OwnRows
<1>3. OneRequest'
  <2>3. CASE ReadRequest \/ WriteReply \/ Die
    <3>1. CASE PipesEmpty
      <4>1. PipesEmpty'
        BY <2>3, <3>1 DEF PipesEmpty, ReadRequest, WriteReply, Die
      <4> QED BY <1>1, <4>1 DEF OneRequest, Pending
    <3>2. ASSUME NEW t \in Threads, pc[t] = "reply", ~PipesEmpty PROVE Pending(t)'
      <4>0. Pending(t) /\ \A k : Own(t, k)' = Own(t, k)
        BY <1>1, <3>2 DEF ServeInv, OneRequest, Own
      <4>1. CASE stdin = <<Own(t, "request")>> /\ stdout = <<>> /\ sweeping = Nothing
        <5>1. ~WriteReply
          BY <4>1 DEF WriteReply
        <5>2. ReadRequest => stdin' = <<>> /\ stdout' = <<>> /\ sweeping' = Own(t, "request")
          BY <4>1 DEF ReadRequest
        <5>3. Die => UNCHANGED <<stdin, stdout, sweeping>>
          BY <4>1 DEF Die
        <5> QED BY <2>3, <4>0, <4>1, <5>1, <5>2, <5>3 DEF Pending
      <4>2. CASE stdin = <<>> /\ stdout = <<>> /\ sweeping = Own(t, "request")
        <5>1. ~ReadRequest
          BY <4>2 DEF ReadRequest
        <5>2. sweeping.id = seq /\ sweeping.call = call[t]
          BY <4>2 DEF Own, Line
        <5>3. WriteReply => stdin' = <<>> /\ sweeping' = Nothing
                            /\ \E x \in {Own(t, "results"), Own(t, "error")} : stdout' = <<x>>
          BY <4>2, <5>2 DEF WriteReply, Own
        <5>4. Die => stdin' = <<>> /\ sweeping' = Nothing /\ (stdout' = <<>> \/ stdout' = <<Line(0, 0, "garbled")>>)
          BY <4>2 DEF Die
        <5> QED BY <2>3, <4>0, <5>1, <5>3, <5>4 DEF Pending, PipesEmpty
      <4>3. CASE /\ stdin = <<>> /\ sweeping = Nothing
                 /\ \E x \in {Own(t, "results"), Own(t, "error"), Line(0, 0, "garbled")} : stdout = <<x>>
        <5>1. ~ReadRequest /\ ~WriteReply
          BY <4>3 DEF ReadRequest, WriteReply
        <5>2. Die => UNCHANGED <<stdin, stdout, sweeping>>
          BY <4>3 DEF Die
        <5> QED BY <2>3, <4>0, <4>3, <5>1, <5>2 DEF Pending
      <4> QED BY <3>2, <4>0, <4>1, <4>2, <4>3 DEF Pending
    <3> QED BY <1>1, <3>1, <3>2 DEF ServeInv, OneRequest
  <2>6. CASE Close
    <3>1. PipesEmpty'
      BY <2>6 DEF Close, Stop, PipesEmpty
    <3> QED BY <1>1, <3>1 DEF OneRequest, Pending
  <2> QED BY <2>3, <2>6
<1> QED BY <1>2, <1>3 DEF ServeInv

\* A thread gets the lock, and there is nothing in the pipes.
LEMMA EnterStep ==
  ASSUME ServeInv, NEW t \in Threads, Enter(t)
  PROVE  ServeInv'
<1> USE DEF Goto, Stations, Unanswered, InLock
<1>1. ServeTypes'
  BY DEF ServeInv, ServeTypes, Enter
<1>2. Locked'
  BY ServeAssumption DEF ServeInv, ServeTypes, Locked, Enter, NoOne
<1>3. OneRequest'
  BY DEF ServeInv, ServeTypes, OneRequest, Pending, Own, PipesEmpty, Enter
<1>4. OwnRows'
  BY DEF ServeInv, ServeTypes, OwnRows, Enter
<1> QED BY <1>1, <1>2, <1>3, <1>4 DEF ServeInv

\* The steps of the thread that holds the lock.
LEMMA LockedStep ==
  ASSUME ServeInv, NEW t \in Threads,
         EnsureStarted(t) \/ WriteRequest(t) \/ FinishWrite(t) \/ BreakWrite(t) \/ ReadReply(t) \/ ReadEnd(t) \/ TimeOut(t)
  PROVE  ServeInv'
<1> USE DEF Stations, Unanswered, InLock
<1> DEFINE Step == EnsureStarted(t) \/ WriteRequest(t) \/ FinishWrite(t) \/ BreakWrite(t) \/ ReadReply(t) \/ ReadEnd(t) \/ TimeOut(t)
<1>0. Step
  OBVIOUS
<1>1. pc[t] \in InLock /\ lock = t /\ \A u \in Threads : u # t => pc[u] \notin InLock
  BY <1>0 DEF EnsureStarted, WriteRequest, FinishWrite, BreakWrite, ReadReply, ReadEnd, TimeOut, ServeInv, Locked
<1>2. pc \in [Threads -> Stations] /\ rows \in [Threads -> Nat] /\ call \in [Threads -> Nat]
  BY DEF ServeInv, ServeTypes
<1>3. /\ \A u \in Threads : u # t => pc'[u] = pc[u] /\ rows'[u] = rows[u]
      /\ UNCHANGED <<strict, call, failed, calls>>
  BY <1>0, <1>2 DEF EnsureStarted, WriteRequest, FinishWrite, BreakWrite, ReadReply, ReadEnd, TimeOut, GiveUp, Goto
<1>4. \/ pc'[t] \in InLock /\ lock' = lock /\ rows' = rows
      \/ pc'[t] = "excepted" /\ lock' = NoOne /\ rows' = rows
      \/ pc'[t] = "clear" /\ lock' = NoOne /\ ReadReply(t) /\ Head(stdout).kind = "results"
         /\ rows' = [rows EXCEPT ![t] = Head(stdout).call]
  BY <1>0, <1>2 DEF EnsureStarted, WriteRequest, FinishWrite, BreakWrite, ReadReply, ReadEnd, TimeOut, GiveUp, Goto
<1>5. \A i, c, k : Line(i, c, k).id = i /\ Line(i, c, k).call = c /\ Line(i, c, k).kind = k
  BY DEF Line
<1>6. stdout # <<>> /\ pc[t] = "reply" =>
        LET line == Head(stdout)
        IN  /\ line.kind \in {"results", "error", "garbled"}
            /\ line.kind # "garbled" => line.id = seq /\ line.call = call[t]
            /\ Tail(stdout) = <<>> /\ stdin = <<>> /\ sweeping = Nothing
  <2> SUFFICES ASSUME stdout # <<>>, pc[t] = "reply"
               PROVE  /\ Head(stdout).kind \in {"results", "error", "garbled"}
                      /\ Head(stdout).kind # "garbled" => Head(stdout).id = seq /\ Head(stdout).call = call[t]
                      /\ Tail(stdout) = <<>> /\ stdin = <<>> /\ sweeping = Nothing
    OBVIOUS
  <2>1. stdin = <<>> /\ sweeping = Nothing
        /\ \E x \in {Own(t, "results"), Own(t, "error"), Line(0, 0, "garbled")} : stdout = <<x>>
    BY DEF ServeInv, OneRequest, Pending, PipesEmpty
  <2>2. PICK x \in {Own(t, "results"), Own(t, "error"), Line(0, 0, "garbled")} : stdout = <<x>>
    BY <2>1
  <2>3. Head(stdout) = x /\ Tail(stdout) = <<>>
    BY <2>2
  <2>4. x.kind \in {"results", "error", "garbled"} /\ (x.kind # "garbled" => x.id = seq /\ x.call = call[t])
    BY <1>5 DEF Own
  <2> QED BY <2>1, <2>3, <2>4
<1>7. ServeTypes'
  <2>1. pc' \in [Threads -> Stations]
    BY <1>0, <1>2 DEF EnsureStarted, WriteRequest, FinishWrite, BreakWrite, ReadReply, ReadEnd, TimeOut, GiveUp, Goto
  <2>2. mixed' = FALSE
    BY <1>0, <1>6 DEF EnsureStarted, WriteRequest, FinishWrite, BreakWrite, ReadReply, ReadEnd, TimeOut, ServeInv, ServeTypes
  <2>3. seq' \in Nat
    BY <1>0 DEF EnsureStarted, WriteRequest, FinishWrite, BreakWrite, ReadReply, ReadEnd, TimeOut, ServeInv, ServeTypes
  <2>4. rows' \in [Threads -> Nat]
    BY <1>2, <1>4, <1>6 DEF ReadReply
  <2> QED BY <1>3, <2>1, <2>2, <2>3, <2>4 DEF ServeInv, ServeTypes
<1>8. Locked'
  BY <1>1, <1>3, <1>4, ServeAssumption DEF Locked, NoOne
<1>9. OneRequest'
  <2>1. \A u \in Threads : u # t => pc'[u] # "reply"
    BY <1>1, <1>3
  <2>2. CASE PipesEmpty'
    BY <2>1, <2>2 DEF OneRequest, Pending
  <2>3. CASE EnsureStarted(t)
    <3>1. PipesEmpty
      BY <1>1, <2>3 DEF EnsureStarted, ServeInv, OneRequest
    <3>2. PipesEmpty'
      BY <2>3, <3>1 DEF EnsureStarted, PipesEmpty, Stop
    <3> QED BY <2>2, <3>2
  <2>4. CASE (WriteRequest(t) /\ proc = "running" /\ pc'[t] = "reply") \/ FinishWrite(t)
    <3>1. PipesEmpty
      BY <1>1, <2>4 DEF WriteRequest, FinishWrite, ServeInv, OneRequest
    <3>2. /\ stdin' = <<Line(seq', call[t], "request")>> /\ UNCHANGED <<stdout, sweeping>> /\ pc'[t] = "reply"
      BY <1>2, <2>4, <3>1 DEF WriteRequest, FinishWrite, PipesEmpty, Goto
    <3> QED BY <1>3, <2>1, <3>1, <3>2 DEF OneRequest, Pending, Own, PipesEmpty
  <2>5. CASE (WriteRequest(t) /\ proc # "running") \/ BreakWrite(t) \/ ReadEnd(t) \/ TimeOut(t)
    <3>1. PipesEmpty'
      BY <2>5 DEF WriteRequest, BreakWrite, ReadEnd, TimeOut, Stop, PipesEmpty
    <3> QED BY <2>2, <3>1
  <2>7. CASE WriteRequest(t) /\ proc = "running" /\ pc'[t] # "reply"
    <3>1. PipesEmpty
      BY <1>1, <2>7 DEF WriteRequest, ServeInv, OneRequest
    <3>2. PipesEmpty'
      BY <1>2, <2>7, <3>1 DEF WriteRequest, PipesEmpty, Goto
    <3> QED BY <2>2, <3>2
  <2>6. CASE ReadReply(t)
    <3>1. PipesEmpty'
      BY <1>6, <2>6 DEF ReadReply, Stop, PipesEmpty
    <3> QED BY <2>2, <3>1
  <2> QED BY <1>0, <2>3, <2>4, <2>5, <2>6, <2>7 DEF WriteRequest
<1>10. OwnRows'
  <2>1. t \notin failed /\ rows[t] \in {0, call[t]}
    BY <1>1 DEF ServeInv, OwnRows
  <2>2. CASE rows' = rows
    BY <1>2, <1>3, <1>4, <1>6, <2>1, <2>2 DEF ServeInv, OwnRows, ReadReply
  <2>3. CASE ReadReply(t) /\ Head(stdout).kind = "results" /\ rows' = [rows EXCEPT ![t] = Head(stdout).call]
    <3>1. rows'[t] = call[t]
      BY <1>2, <1>6, <2>3 DEF ReadReply
    <3> QED BY <1>3, <1>4, <2>1, <3>1 DEF ServeInv, OwnRows
  <2> QED BY <1>4, <2>2, <2>3
<1> QED BY <1>7, <1>8, <1>9, <1>10 DEF ServeInv

\* The steps of a thread outside the lock.
LEMMA OutsideStep ==
  ASSUME ServeInv, NEW t \in Threads, Call(t) \/ CallStep(t)
  PROVE  ServeInv'
<1> USE DEF Stations, Unanswered, InLock, CallStep, OnceStep
<1>1. /\ pc[t] \notin InLock /\ pc'[t] \notin InLock
      /\ \A u \in Threads : u # t => pc'[u] = pc[u] /\ rows'[u] = rows[u] /\ call'[u] = call[u] /\ strict'[u] = strict[u]
      /\ \A u \in Threads : u # t => (u \in failed' <=> u \in failed)
      /\ UNCHANGED <<bridge, mixed>>
  BY DEF Call, ClearError, StartOnce, PersistentFails, OnceFails, OnceEnds, Look, Done, Fail, Goto, ServeInv, ServeTypes
<1>2. ServeTypes'
  <2>1. pc' \in [Threads -> Stations]
    BY DEF Call, ClearError, StartOnce, PersistentFails, OnceFails, OnceEnds, Look, Done, Fail, Goto, ServeInv, ServeTypes
  <2>2. call' \in [Threads -> Nat] /\ rows' \in [Threads -> Nat] /\ calls' \in Nat
    BY DEF Call, ClearError, StartOnce, PersistentFails, OnceFails, OnceEnds, Look, Done, ServeInv, ServeTypes
  <2>3. strict' \in [Threads -> BOOLEAN]
    BY ServeAssumption DEF Call, ClearError, StartOnce, PersistentFails, OnceFails, OnceEnds, Look, Done, ServeInv, ServeTypes
  <2> QED BY <1>1, <2>1, <2>2, <2>3 DEF bridge, ServeInv, ServeTypes
<1>3. Locked'
  BY <1>1 DEF bridge, ServeInv, Locked
<1>4. OneRequest'
  BY <1>1 DEF bridge, ServeInv, OneRequest, Pending, Own, PipesEmpty
<1>5. OwnRows'
  <2>1. \A u \in Threads : u # t => (u \notin failed' <=> u \notin failed)
    BY <1>1
  <2> SUFFICES
        /\ rows'[t] \in {0, call'[t]}
        /\ pc'[t] \in Unanswered \cup {"clear"} => t \notin failed'
        /\ pc'[t] = "clear" => rows'[t] = call'[t]
        /\ pc'[t] \in {"returned", "accepted"} /\ strict'[t] => t \notin failed' /\ rows'[t] = call'[t]
    BY <1>1, <2>1 DEF ServeInv, OwnRows
  <2> USE DEF ServeInv, ServeTypes, OwnRows, Goto
  <2>2. CASE Call(t)
    <3>1. rows'[t] = 0 /\ t \notin failed' /\ pc'[t] \in {"enter", "excepted"}
      BY <2>2 DEF Call
    <3> QED BY <3>1
  <2>3. CASE ClearError(t) \/ StartOnce(t) \/ Look(t) \/ Done(t)
    BY <2>3 DEF ClearError, StartOnce, Look, Done
  <2>4. CASE OnceEnds(t)
    BY <2>4 DEF OnceEnds
  <2>5. CASE PersistentFails(t) \/ OnceFails(t)
    BY <2>5 DEF PersistentFails, OnceFails, Fail
  <2> QED BY <2>2, <2>3, <2>4, <2>5
<1> QED BY <1>2, <1>3, <1>4, <1>5 DEF ServeInv

\* Every step keeps the invariant.
LEMMA ServeStepInv == ServeInv /\ [ServeNext]_serveVars => ServeInv'
<1>1. ServeInv /\ ServeNext => ServeInv'
  BY ProcessStep, EnterStep, LockedStep, OutsideStep DEF ServeNext, ScanStep
<1>2. ServeInv /\ UNCHANGED serveVars => ServeInv'
  BY DEF ServeInv, ServeTypes, Locked, OneRequest, Pending, Own, OwnRows, PipesEmpty, serveVars, thread, bridge
<1> QED BY <1>1, <1>2

\* scan() never meets the reply to a different request: whoever gives up on a
\* request stops the process and forgets its pipes.
THEOREM NeverMixed == ServeSpec => []NoMixup
<1>1. ServeInv => NoMixup
  BY DEF ServeInv, ServeTypes, NoMixup
<1> QED BY <1>1, ServeInitInv, ServeStepInv, PTL DEF ServeSpec

\* What a caller of run_go_scan or run_go_scan_persistent holds comes from its
\* own request, and a strict caller accepts nothing but a sweep that was done,
\* though LAST_ERROR is shared by all threads without a lock.
THEOREM AcceptedWasSwept == ServeSpec => []AcceptedIsSwept
<1>1. ServeInv => AcceptedIsSwept
  BY DEF ServeInv, OwnRows, AcceptedIsSwept
<1> QED BY <1>1, ServeInitInv, ServeStepInv, PTL DEF ServeSpec
=============================================================================
