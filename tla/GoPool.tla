------------------------------- MODULE GoPool -------------------------------
(***************************************************************************)
(* transport/goscan/goscan.go: the worker pool of startScan, and the two   *)
(* programs that consume its results: runServe, one request after the      *)
(* other, and main, one sweep whose results it prints as they come.        *)
(*                                                                         *)
(* A goroutine's step is one channel operation or one dial.  The channels  *)
(* keep Go's semantics: a send waits for room (and would panic on a closed *)
(* channel), range ends when the channel is closed and empty.  The order   *)
(* in which the work channel hands out its ports is left open.             *)
(***************************************************************************)
EXTENDS Integers, Sequences, FiniteSets

CONSTANTS Ports,       \* the ports there are
          maxWorkers,
          MaxRequests  \* bound on the requests of one run

ASSUME PoolAssumption ==
  /\ IsFiniteSet(Ports)
  /\ maxWorkers \in Nat \ {0}
  /\ MaxRequests \in Nat

Workers == 1..maxWorkers

VARIABLES
  program,  \* "serve" or "once": which of the two runs
  place,    \* where it is: "read", "range", "blocked", "wait", "exited"
  ports,    \* the ports of the present sweep
  work,     \* what the work channel holds
  at, job,  \* where each worker is, and the port it is on
  found,    \* what its dial found
  wg,       \* the WaitGroup's counter
  results,  \* what resultsChan holds
  closed,   \* resultsChan is closed
  got,      \* the open ports received so far
  out,      \* the ports in the output of the present sweep
  code,     \* exit code, -1 while it runs
  \* History, read by no operation:
  dialled,  \* what the dials of the present sweep found
  answered, \* the present sweep has been answered
  requests  \* requests so far

channels == <<work, results, closed, wg>>
pool == <<at, job, found>>
reader == <<place, got, out, code>>
history == <<dialled, answered, requests>>
vars == <<program, ports, channels, pool, reader, history>>

-----------------------------------------------------------------------------
(***************************************************************************)
(* startScan                                                               *)
(***************************************************************************)
Smaller(a, b) == IF a < b THEN a ELSE b

maxWorkersFor(n) == Smaller(n, maxWorkers)

\* Faulty variant: the channel holds one result.
Faulty_Capacity == 1

\* make(chan PortResult, len(ports))
Capacity == Cardinality(ports)

startScan(P) ==
  /\ work' = P
  /\ results' = <<>> /\ closed' = FALSE
  /\ wg' = maxWorkersFor(Cardinality(P))
  /\ at' = [w \in Workers |-> IF w <= maxWorkersFor(Cardinality(P)) THEN "pull" ELSE "off"]
  /\ UNCHANGED <<job, found>>

\* for port := range work
Pull(w) ==
  /\ at[w] = "pull"
  /\ \/ \E p \in work :
          /\ work' = work \ {p}
          /\ job' = [job EXCEPT ![w] = p]
          /\ at' = [at EXCEPT ![w] = "dial"]
          /\ UNCHANGED wg
     \/ /\ work = {}
        /\ wg' = wg - 1
        /\ at' = [at EXCEPT ![w] = "off"]
        /\ UNCHANGED <<work, job>>
  /\ UNCHANGED <<program, ports, results, closed, found, reader, history>>

\* scanPort up to its send: net.DialTimeout, then the banner of an open port.
Dial(w) ==
  /\ at[w] = "dial"
  /\ \E open \in BOOLEAN :
       /\ found' = [found EXCEPT ![w] = open]
       /\ dialled' = [p \in DOMAIN dialled \cup {job[w]} |->
                        IF p = job[w] THEN open ELSE dialled[p]]
  /\ at' = [at EXCEPT ![w] = "send"]
  /\ UNCHANGED <<program, ports, channels, job, reader, answered, requests>>

\* results <- PortResult{...}
Send(w) ==
  /\ at[w] = "send"
  /\ ~closed /\ Len(results) < Capacity
  /\ results' = Append(results, [port |-> job[w], open |-> found[w]])
  /\ at' = [at EXCEPT ![w] = "pull"]
  /\ UNCHANGED <<program, ports, work, closed, wg, job, found, reader, history>>

\* The goroutine that waits for the workers and closes the channel.
CloseResults ==
  /\ place \in {"range", "blocked", "wait"}
  /\ wg = 0 /\ ~closed
  /\ closed' = TRUE
  /\ UNCHANGED <<program, ports, work, results, wg, pool, reader, history>>

-----------------------------------------------------------------------------
(***************************************************************************)
(* runServe and main                                                       *)
(***************************************************************************)
Exit(status) == place' = "exited" /\ code' = status

\* A request that parsePorts finds ports in.
Request(P) ==
  /\ place = "read" /\ P # {}
  /\ requests < MaxRequests /\ requests' = requests + 1
  /\ program = "once" => requests = 0
  /\ ports' = P /\ dialled' = <<>> /\ answered' = FALSE
  /\ startScan(P)
  /\ got' = <<>> /\ out' = <<>>
  /\ place' = "range"
  /\ UNCHANGED <<program, code>>

\* One that it finds none in: an error reply, or exit status 2.
Refuse ==
  /\ place = "read"
  /\ requests < MaxRequests /\ requests' = requests + 1
  /\ \/ program = "serve" /\ UNCHANGED <<place, code>>
     \/ program = "once" /\ requests = 0 /\ Exit(2)
  /\ UNCHANGED <<program, ports, channels, pool, got, out, dialled, answered>>

\* for res := range resultsChan.  main prints an open port at once; the printing
\* waits while nobody empties the pipe, and main gives up if it fails.
Receive ==
  /\ place = "range" /\ results # <<>>
  /\ results' = Tail(results)
  /\ \/ /\ Head(results).open
        /\ got' = Append(got, Head(results).port)
        /\ \/ program = "serve" /\ UNCHANGED <<out, place, code>>
           \/ program = "once" /\ out' = Append(out, Head(results).port) /\ UNCHANGED <<place, code>>
           \/ program = "once" /\ UNCHANGED <<out, code>> /\ place' = "blocked"
           \/ program = "once" /\ UNCHANGED out /\ Exit(3)
     \/ /\ ~Head(results).open
        /\ UNCHANGED <<got, out, place, code>>
  /\ UNCHANGED <<program, ports, work, closed, wg, pool, history>>

Unblock ==
  /\ place = "blocked"
  /\ \/ out' = Append(out, got[Len(got)]) /\ place' = "range" /\ UNCHANGED code
     \/ UNCHANGED out /\ Exit(3)
  /\ UNCHANGED <<program, ports, channels, pool, got, history>>

\* Faulty variant: the loop ends when nothing is there to receive.
Faulty_RangeEnds ==
  /\ place = "range" /\ results = <<>>
  /\ place' = "wait"
  /\ UNCHANGED <<program, ports, channels, pool, got, out, code, history>>

RangeEnds ==
  /\ place = "range" /\ results = <<>> /\ closed
  /\ place' = "wait"
  /\ UNCHANGED <<program, ports, channels, pool, got, out, code, history>>

\* wait(), then the reply; runServe gives up if it cannot write it.
Reply ==
  /\ place = "wait" /\ wg = 0
  /\ \/ program = "serve" /\ out' = got /\ place' = "read" /\ answered' = TRUE /\ UNCHANGED code
     \/ program = "serve" /\ UNCHANGED <<out, answered>> /\ Exit(3)
     \/ program = "once" /\ UNCHANGED out /\ answered' = TRUE /\ Exit(0)
  /\ UNCHANGED <<program, ports, channels, pool, got, dialled, requests>>

\* stdin ends, or breaks.
Eof ==
  /\ place = "read" /\ program = "serve"
  /\ Exit(0) \/ Exit(3)
  /\ UNCHANGED <<program, ports, channels, pool, got, out, history>>

-----------------------------------------------------------------------------
Init ==
  /\ program \in {"serve", "once"}
  /\ place = "read" /\ code = -1 /\ got = <<>> /\ out = <<>>
  /\ ports = {} /\ work = {} /\ results = <<>> /\ closed = FALSE /\ wg = 0
  /\ at = [w \in Workers |-> "off"]
  /\ job = [w \in Workers |-> 0]
  /\ found = [w \in Workers |-> FALSE]
  /\ dialled = <<>> /\ answered = TRUE /\ requests = 0

Running == place # "exited"

WorkerStep == Running /\ \E w \in Workers : Pull(w) \/ Dial(w) \/ Send(w)
ReaderStep == Receive \/ RangeEnds \/ Reply

Next ==
  \/ WorkerStep \/ CloseResults \/ ReaderStep \/ Unblock
  \/ (\E P \in SUBSET Ports : Request(P)) \/ Refuse \/ Eof

\* Go runs every goroutine that can run, and a dial ends: it has a timeout, and
\* so have the reads and the handshake behind it.  Nobody need empty the pipe
\* that main prints to.
Fairness == WF_vars(WorkerStep) /\ WF_vars(CloseResults) /\ WF_vars(ReaderStep)

Spec == Init /\ [][Next]_vars /\ Fairness
-----------------------------------------------------------------------------
(***************************************************************************)
(* What a sweep promises.                                                  *)
(***************************************************************************)

\* The sweep as its client sees it: answered by the reply, or by the end of a
\* process that reports success.
Client == INSTANCE Sweep WITH asked <- ports, answer <- IF answered THEN out ELSE <<>>

\* Every sweep is what Sweep promises: no port is skipped or dialled twice, and no
\* result is lost between the workers, the channel and the reader, or counted
\* twice.
SweepIsKept == Client!Spec

\* A sweep that has started ends, unless its output waits for a reader; and its
\* workers end, also if the output waits for ever: "a worker can never block on
\* a result send even if the consumer stops reading".
SweepEnds ==
  /\ (place = "range") ~> (place \in {"read", "exited", "blocked"})
  /\ (place = "range") ~> (~Running \/ \A w \in Workers : at[w] = "off")
=============================================================================
