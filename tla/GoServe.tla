------------------------------ MODULE GoServe ------------------------------
(***************************************************************************)
(* modules/discovery/goscan_bridge.py under core/accel.py's _go_scan: the  *)
(* threads of a campaign share one `goscan serve` process and one module   *)
(* variable LAST_ERROR.                                                    *)
(*                                                                         *)
(* A step of a thread ends where another thread or a process can come in   *)
(* between: at the lock, at a pipe, around an access to LAST_ERROR.  The   *)
(* process is what its client sees (module Sweep; module GoPool shows that *)
(* the Go code is that): it reads a request, sweeps, and replies, and it   *)
(* may die, refuse to start, or hang at any point.  A request and its      *)
(* sweep are the call that asked for them.                                 *)
(***************************************************************************)
EXTENDS Integers, Sequences, FiniteSets

CONSTANTS Threads,
          Entries,    \* the functions called: "run_go_scan", "run_go_scan_persistent"
          Strict,     \* the values of their argument strict that are used
          MaxCalls,   \* bound on the calls
          MaxFaults   \* bound on the failures of processes

ASSUME ServeAssumption ==
  /\ Entries \subseteq {"run_go_scan", "run_go_scan_persistent"}
  /\ Strict \subseteq BOOLEAN
  /\ MaxCalls \in Nat
  /\ MaxFaults \in Nat
  /\ 0 \notin Threads

NoOne == 0
Nothing == [id |-> 0, call |-> 0, kind |-> "none"]
Line(i, c, k) == [id |-> i, call |-> c, kind |-> k]

VARIABLES
  pc,      \* where each thread is
  entry, strict,  \* what it called, and with which strict
  call,    \* the number of its present call
  rows,    \* whose sweep the rows it holds come from; 0: the empty list
  lastError, \* LAST_ERROR is set
  lock,    \* holder of self._lock
  \* self._proc and what it is connected to:
  proc,    \* "none", "running", "dead" (exited, not yet noticed)
  seq,     \* self._seq
  stdin, stdout,  \* what the pipes hold
  sweeping,  \* the request the process is working on
  \* History, read by no operation:
  calls, faults,
  failed,  \* the threads whose present call could not be served
  mixed    \* a reply to a different request was met

bridge == <<lock, proc, seq, stdin, stdout, sweeping>>
thread == <<pc, entry, strict, call, rows, failed>>
serveVars == <<thread, lastError, bridge, calls, faults, mixed>>

Goto(t, place) == pc' = [pc EXCEPT ![t] = place]
Fault == faults < MaxFaults /\ faults' = faults + 1

-----------------------------------------------------------------------------
(***************************************************************************)
(* The serve process                                                       *)
(***************************************************************************)
ReadRequest ==
  /\ proc = "running" /\ sweeping = Nothing /\ stdin # <<>>
  /\ sweeping' = Head(stdin)
  /\ stdin' = Tail(stdin)
  /\ UNCHANGED <<thread, lastError, lock, proc, seq, stdout, calls, faults, mixed>>

\* The reply, or an error reply for a request without ports.
WriteReply ==
  /\ proc = "running" /\ sweeping # Nothing
  /\ \E kind \in {"results", "error"} :
       stdout' = Append(stdout, Line(sweeping.id, sweeping.call, kind))
  /\ sweeping' = Nothing
  /\ UNCHANGED <<thread, lastError, lock, proc, seq, stdin, calls, faults, mixed>>

\* The process dies, perhaps in the middle of its reply.
Die ==
  /\ proc = "running"
  /\ Fault
  /\ proc' = "dead"
  /\ sweeping' = Nothing
  /\ \/ UNCHANGED stdout
     \/ sweeping # Nothing /\ stdout' = Append(stdout, Line(0, 0, "garbled"))
  /\ UNCHANGED <<thread, lastError, lock, seq, stdin, calls, mixed>>

-----------------------------------------------------------------------------
(***************************************************************************)
(* _ServeWorker                                                            *)
(***************************************************************************)
\* _stop: the process is terminated, and its pipes are forgotten.
Stop ==
  /\ proc' = "none"
  /\ stdin' = <<>> /\ stdout' = <<>> /\ sweeping' = Nothing

Enter(t) ==
  /\ pc[t] = "enter" /\ lock = NoOne
  /\ lock' = t
  /\ Goto(t, "start")
  /\ UNCHANGED <<entry, strict, call, rows, failed, lastError, proc, seq, stdin, stdout, sweeping,
                 calls, faults, mixed>>

\* The end of the with block after an exception.
GiveUp(t) == lock' = NoOne /\ Goto(t, "excepted")

\* _stop and _start if there is no live process; Popen may raise.
EnsureStarted(t) ==
  /\ pc[t] = "start"
  /\ \/ /\ proc = "running"
        /\ Goto(t, "write")
        /\ UNCHANGED <<lock, proc, seq, stdin, stdout, sweeping, faults>>
     \/ /\ proc # "running"
        /\ proc' = "running" /\ seq' = 0
        /\ stdin' = <<>> /\ stdout' = <<>> /\ sweeping' = Nothing
        /\ Goto(t, "write")
        /\ UNCHANGED <<lock, faults>>
     \/ /\ proc # "running"
        /\ Fault
        /\ Stop
        /\ GiveUp(t)
        /\ UNCHANGED seq
  /\ UNCHANGED <<entry, strict, call, rows, failed, lastError, calls, mixed>>

WriteRequest(t) ==
  /\ pc[t] = "write"
  /\ seq' = seq + 1
  /\ \/ /\ proc = "running"
        /\ stdin' = Append(stdin, Line(seq + 1, call[t], "request"))
        /\ Goto(t, "reply")
        /\ UNCHANGED <<lock, proc, stdout, sweeping>>
     \/ /\ proc = "running"
        /\ Goto(t, "blocked")
        /\ UNCHANGED <<lock, proc, stdin, stdout, sweeping>>
     \/ /\ proc # "running"
        /\ Stop
        /\ GiveUp(t)
  /\ UNCHANGED <<entry, strict, call, rows, failed, lastError, calls, faults, mixed>>

\* A request that is larger than the pipe is written when the process has read
\* of it, and until then the lock is held; or the write fails.
FinishWrite(t) ==
  /\ pc[t] = "blocked" /\ proc = "running"
  /\ stdin' = Append(stdin, Line(seq, call[t], "request"))
  /\ Goto(t, "reply")
  /\ UNCHANGED <<entry, strict, call, rows, failed, lastError, lock, proc, seq, stdout, sweeping,
                 calls, faults, mixed>>

BreakWrite(t) ==
  /\ pc[t] = "blocked" /\ proc # "running"
  /\ Stop
  /\ GiveUp(t)
  /\ UNCHANGED <<entry, strict, call, rows, failed, lastError, seq, calls, faults, mixed>>

\* readline() returns a line, and scan() looks at it.
ReadReply(t) ==
  /\ pc[t] = "reply" /\ stdout # <<>>
  /\ LET line == Head(stdout) IN
     \/ /\ line.kind = "results" /\ line.id = seq
        /\ rows' = [rows EXCEPT ![t] = line.call]
        /\ stdout' = Tail(stdout)
        /\ lock' = NoOne /\ Goto(t, "clear")
        /\ UNCHANGED <<proc, stdin, sweeping, mixed>>
     \/ /\ line.kind = "error" /\ line.id = seq
        /\ stdout' = Tail(stdout)
        /\ GiveUp(t)
        /\ UNCHANGED <<rows, proc, stdin, sweeping, mixed>>
     \/ /\ line.kind = "garbled" \/ line.id # seq
        /\ mixed' = (mixed \/ line.kind # "garbled")
        /\ Stop
        /\ GiveUp(t)
        /\ UNCHANGED rows
  /\ UNCHANGED <<entry, strict, call, failed, lastError, seq, calls, faults>>

\* readline() meets the end of the pipe.
ReadEnd(t) ==
  /\ pc[t] = "reply" /\ stdout = <<>> /\ proc # "running"
  /\ Stop
  /\ GiveUp(t)
  /\ UNCHANGED <<entry, strict, call, rows, failed, lastError, seq, calls, faults, mixed>>

\* Faulty variants: the wedged process is kept; there is no deadline.
Faulty_TimeOut(t) ==
  /\ pc[t] = "reply" /\ stdout = <<>> /\ proc = "running"
  /\ GiveUp(t)
  /\ UNCHANGED <<entry, strict, call, rows, failed, lastError, proc, seq, stdin, stdout, sweeping,
                 calls, faults, mixed>>

Faulty_TimeOut_None(t) == FALSE /\ UNCHANGED serveVars

\* reader.join(timeout) ends and the reader is still alive.
TimeOut(t) ==
  /\ pc[t] = "reply" /\ stdout = <<>> /\ proc = "running"
  /\ Stop
  /\ GiveUp(t)
  /\ UNCHANGED <<entry, strict, call, rows, failed, lastError, seq, calls, faults, mixed>>

\* close(), from shutdown_worker
Close ==
  /\ lock = NoOne /\ proc # "none"
  /\ Stop
  /\ UNCHANGED <<thread, lastError, lock, seq, calls, faults, mixed>>

-----------------------------------------------------------------------------
(***************************************************************************)
(* run_go_scan, run_go_scan_async and run_go_scan_persistent               *)
(***************************************************************************)
\* The functions up to the scan; the binary may have gone.
Call(t) ==
  /\ pc[t] = "idle" /\ calls < MaxCalls
  /\ calls' = calls + 1
  /\ \E e \in Entries, s \in Strict :
       /\ entry' = [entry EXCEPT ![t] = e]
       /\ strict' = [strict EXCEPT ![t] = s]
       /\ lastError' = (lastError /\ e = "run_go_scan")
  /\ call' = [call EXCEPT ![t] = calls + 1]
  /\ rows' = [rows EXCEPT ![t] = 0]
  /\ failed' = failed \ {t}
  /\ \/ Goto(t, "enter") /\ UNCHANGED faults
     \/ Goto(t, "excepted") /\ Fault
  /\ UNCHANGED <<bridge, mixed>>

\* The worker has answered: run_go_scan sets LAST_ERROR = None.
ClearError(t) ==
  /\ pc[t] = "clear"
  /\ lastError' = (lastError /\ entry[t] # "run_go_scan")
  /\ Goto(t, "returned")
  /\ UNCHANGED <<entry, strict, call, rows, failed, bridge, calls, faults, mixed>>

\* run_go_scan_async: LAST_ERROR = None, and a process of its own is started.
StartOnce(t) ==
  /\ pc[t] = "excepted" /\ entry[t] = "run_go_scan"
  /\ lastError' = FALSE
  /\ Goto(t, "once")
  /\ UNCHANGED <<entry, strict, call, rows, failed, bridge, calls, faults, mixed>>

\* Faulty variant: strict is ignored, and LAST_ERROR is to tell.
Faulty_Fail(t) ==
  /\ lastError' = TRUE
  /\ failed' = failed \cup {t}
  /\ Goto(t, "returned")

\* LAST_ERROR is set, and strict callers get the exception.
Fail(t) ==
  /\ lastError' = TRUE
  /\ failed' = failed \cup {t}
  /\ Goto(t, IF strict[t] THEN "raised" ELSE "returned")

\* run_go_scan_persistent has no second way.
PersistentFails(t) ==
  /\ pc[t] = "excepted" /\ entry[t] = "run_go_scan_persistent"
  /\ Fail(t)
  /\ UNCHANGED <<entry, strict, call, rows, bridge, calls, faults, mixed>>

\* The process cannot be executed, or ends with an exit code other than 0; whoever
\* did not ask to be strict has the rows that came until then.
OnceFails(t) ==
  /\ pc[t] = "once"
  /\ Fault
  /\ Fail(t)
  /\ \/ UNCHANGED rows
     \/ ~strict[t] /\ rows' = [rows EXCEPT ![t] = call[t]]
  /\ UNCHANGED <<entry, strict, call, bridge, calls, mixed>>

\* Its exit code is 0: the rows are those of the whole sweep.
OnceEnds(t) ==
  /\ pc[t] = "once"
  /\ rows' = [rows EXCEPT ![t] = call[t]]
  /\ Goto(t, "returned")
  /\ UNCHANGED <<entry, strict, call, failed, lastError, bridge, calls, faults, mixed>>

\* The caller looks at LAST_ERROR (_go_scan raises if it is set) and has its
\* answer, or falls back to another backend.
Look(t) ==
  /\ pc[t] = "returned"
  /\ Goto(t, IF lastError THEN "raised" ELSE "accepted")
  /\ UNCHANGED <<entry, strict, call, rows, failed, lastError, bridge, calls, faults, mixed>>

Done(t) ==
  /\ pc[t] \in {"accepted", "raised"}
  /\ Goto(t, "idle")
  /\ UNCHANGED <<entry, strict, call, rows, failed, lastError, bridge, calls, faults, mixed>>

-----------------------------------------------------------------------------
ServeInit ==
  /\ pc = [t \in Threads |-> "idle"]
  /\ entry = [t \in Threads |-> "run_go_scan"]
  /\ strict = [t \in Threads |-> FALSE]
  /\ call = [t \in Threads |-> 0]
  /\ rows = [t \in Threads |-> 0]
  /\ failed = {} /\ lastError = FALSE
  /\ lock = NoOne /\ proc = "none" /\ seq = 0
  /\ stdin = <<>> /\ stdout = <<>> /\ sweeping = Nothing
  /\ calls = 0 /\ faults = 0 /\ mixed = FALSE

ScanStep(t) ==
  \/ Enter(t) \/ EnsureStarted(t) \/ WriteRequest(t)
  \/ BreakWrite(t) \/ ReadReply(t) \/ ReadEnd(t) \/ TimeOut(t)
OnceStep(t) == OnceFails(t) \/ OnceEnds(t)
CallStep(t) == ClearError(t) \/ StartOnce(t) \/ PersistentFails(t) \/ OnceStep(t) \/ Look(t) \/ Done(t)

ServeNext ==
  \/ ReadRequest \/ WriteReply \/ Die \/ Close
  \/ \E t \in Threads : Call(t) \/ ScanStep(t) \/ FinishWrite(t) \/ CallStep(t)

\* Python runs every thread that can run; reader.join() has a deadline; and the
\* one-shot process ends, because each of its dials does (module GoPool).  The
\* serve process need not do anything, and the lock need not be fair: there are
\* MaxCalls calls in all.
ServeFairness == \A t \in Threads : WF_serveVars(ScanStep(t)) /\ WF_serveVars(CallStep(t))

ServeSpec == ServeInit /\ [][ServeNext]_serveVars /\ ServeFairness
-----------------------------------------------------------------------------
\* The process is stopped wherever a reply could be left in its pipe: the test
\* "answered a different request" never fails.
NoMixup == ~mixed

\* However calls, deadlines, deaths and restarts of the process interleave, the
\* rows a caller holds are those of its own request, never of one that timed out
\* before it or of another thread's; and "an empty result set is a real answer,
\* so it must never be returned for a different reason": what a strict caller
\* accepts is the answer of a sweep that was finished, whatever other threads do
\* to LAST_ERROR.
AcceptedIsSwept ==
  \A t \in Threads :
    /\ rows[t] \in {0, call[t]}
    /\ pc[t] = "accepted" /\ strict[t] => t \notin failed /\ rows[t] = call[t]

\* "A wedged worker is killed and replaced instead of hanging the campaign":
\* unless a write of a request blocks for ever, for which there is no deadline,
\* every call ends, though the process need not do anything, and the threads that
\* wait for the lock have their turn.
WritesEnd == \A t \in Threads : []<>(pc[t] # "blocked")
CallsEnd == WritesEnd => \A t \in Threads : (pc[t] # "idle") ~> (pc[t] \in {"accepted", "raised"})
=============================================================================
