------------------------------ MODULE Campaign ------------------------------
(***************************************************************************)
(* core/orchestrator.py with core/state.py: one campaign, from             *)
(* run_campaign to its end, its crash, and its recovery.                   *)
(*                                                                         *)
(* The main thread plans (module Planner), then executes the waves: each   *)
(* wave is submitted to a ThreadPoolExecutor with room for all of it, so   *)
(* the steps of a wave run concurrently, one thread each (_safe_run).      *)
(* StateStore's methods hold its lock, so each is one step; it may fail    *)
(* (a full disk), and log_event may then leave a part of its line.         *)
(***************************************************************************)
EXTENDS Planner

CONSTANTS Registered,  \* the modules that have a runner in the registry
          MaxFaults    \* bound on the failing writes of the store

ASSUME CampaignAssumption == MaxFaults \in Nat

VARIABLES
  main,       \* where run_campaign is
  status,     \* state.status, in memory
  wave,       \* the wave in execution
  th,         \* step id -> where its _safe_run is
  stepStatus, \* step id -> step.status
  reports,    \* _context["reports"]: the steps whose results are in it
  \* The store, on disk:
  saved,      \* status in the campaign's JSON file, "none" if there is no file
  log,        \* the events that stand on lines of their own in the campaign's log
  tail,       \* what follows the last newline of the log: {}, or {an event}, or {Torn}
  \* History, read by no operation:
  acks,       \* the events whose log_event returned
  faults      \* failed writes so far

campaign == <<main, status, wave, th, stepStatus, reports>>
store == <<saved, log, tail, acks, faults>>
vars == <<plannerVars, campaign, store>>

Alive == main \notin {"idle", "returned", "raised", "down", "recovered"}

-----------------------------------------------------------------------------
(***************************************************************************)
(* StateStore                                                              *)
(***************************************************************************)
Event(e, i) == [event |-> e, step |-> i]
Torn == Event("torn", 0)  \* some of the text of a line

\* The write of event e stops: before its first byte, inside the line, or with
\* all of it written but the newline.
WriteStops(e) ==
  /\ tail' \in {tail, {Torn}} \cup (IF tail = {} THEN {{e}} ELSE {})
  /\ UNCHANGED log

\* Faulty variant: one line that is no JSON makes read_log() give up.
Faulty_ReadLog == IF Torn \in tail THEN {} ELSE log \cup tail

\* read_log(): a line that is no JSON is skipped; a last line that only lacks its
\* newline is JSON.
ReadLog == log \cup (tail \ {Torn})

\* log_event() that returns, and one that raises.  What is appended to an unended
\* line makes one line with it, which is no JSON.
LogEvent(e) ==
  /\ log' = IF tail = {} THEN log \cup {e} ELSE log
  /\ tail' = {}
  /\ acks' = acks \cup {e}
  /\ UNCHANGED <<saved, faults>>

LogRaises(e) ==
  /\ faults < MaxFaults
  /\ faults' = faults + 1
  /\ WriteStops(e)
  /\ UNCHANGED <<saved, acks>>

\* save(): a temporary file, then an atomic replace.
Save ==
  /\ saved' = status
  /\ UNCHANGED <<log, tail, acks, faults>>

SaveRaises ==
  /\ faults < MaxFaults
  /\ faults' = faults + 1
  /\ UNCHANGED <<saved, log, tail, acks>>

-----------------------------------------------------------------------------
(***************************************************************************)
(* run_campaign, the main thread                                           *)
(***************************************************************************)
Goto(place) == main' = place

\* scope.check(target) passes, and the state is made.
Begin ==
  /\ main = "idle"
  /\ status' = "planning"
  /\ Goto("save_planning")
  /\ UNCHANGED <<plannerVars, wave, th, stepStatus, reports, store>>

\* The saves and the events of run_campaign outside its try block: one that
\* raises ends the call.
SaveStatus(from, to) ==
  /\ main = from
  /\ \/ Save /\ Goto(to)
     \/ SaveRaises /\ Goto("raised")
  /\ UNCHANGED <<plannerVars, status, wave, th, stepStatus, reports>>

LogMilestone(from, e, to) ==
  /\ main = from
  /\ \/ LogEvent(Event(e, 0)) /\ Goto(to)
     \/ LogRaises(Event(e, 0)) /\ Goto("raised")
  /\ UNCHANGED <<plannerVars, status, wave, th, stepStatus, reports>>

SavePlanning == SaveStatus("save_planning", "log_start")
LogStart == LogMilestone("log_start", "campaign_start", "plan")
SaveScanning == SaveStatus("save_scanning", "log_plan")
LogPlan == LogMilestone("log_plan", "plan_built", "next_wave")
SaveDone == SaveStatus("save_done", "log_done")
LogDone == LogMilestone("log_done", "campaign_done", "returned")
SaveFailed == SaveStatus("save_failed", "log_failed")
LogFailed == LogMilestone("log_failed", "campaign_failed", "raised")

\* planner.plan(); its exception goes through to the caller.
MakePlan ==
  /\ main = "plan"
  /\ \E intel \in Intel : Plan(intel)
  /\ Goto(IF phase' = "raised" THEN "raised" ELSE "authorize")
  /\ th' = [i \in Ids(steps') |-> "waiting"]
  /\ stepStatus' = [i \in Ids(steps') |-> "pending"]
  /\ UNCHANGED <<status, wave, reports, store>>

OutOfScope == {s \in steps : s.ports = "outside"}

\* _authorize_steps: its exception goes through to the caller, too.
Authorize ==
  /\ main = "authorize"
  /\ Goto(IF OutOfScope # {} THEN "raised" ELSE "schedule")
  /\ UNCHANGED <<plannerVars, status, wave, th, stepStatus, reports, store>>

\* planner.schedule()
Schedule ==
  /\ main = "schedule"
  /\ StartSchedule \/ ScheduleWave \/ EndSchedule
  /\ IF phase' = "scheduled" THEN status' = "scanning" /\ Goto("save_scanning")
                             ELSE UNCHANGED <<status, main>>
  /\ UNCHANGED <<wave, th, stepStatus, reports, store>>

\* _execute_waves and the submits of _run_wave
SubmitWave ==
  /\ main = "next_wave" /\ wave < Len(waves)
  /\ wave' = wave + 1
  /\ th' = [i \in DOMAIN th |-> IF i \in Ids(waves[wave + 1]) THEN "entry" ELSE th[i]]
  /\ Goto("join")
  /\ UNCHANGED <<plannerVars, status, stepStatus, reports, store>>

\* Faulty variant: the first result ends the wait for the wave.
Faulty_WaveOver == \E s \in waves[wave] : th[s.id] = "collected"

\* as_completed() has yielded every future.
WaveOver == \A s \in waves[wave] : th[s.id] = "collected"

EndWave ==
  /\ main = "join" /\ WaveOver
  /\ Goto("next_wave")
  /\ UNCHANGED <<plannerVars, status, wave, th, stepStatus, reports, store>>

\* fut.result() raises in _run_wave: the step is marked and the event logged;
\* if that fails too, the exception leaves the loop.
CollectException(s) ==
  /\ th[s.id] = "exc"
  /\ stepStatus' = [stepStatus EXCEPT ![s.id] = "failed"]
  /\ \/ /\ LogEvent(Event("step_failed", s.id))
        /\ th' = [th EXCEPT ![s.id] = "collected"]
        /\ UNCHANGED main
     \/ /\ LogRaises(Event("step_failed", s.id))
        /\ Goto("unwind")
        /\ UNCHANGED th

\* fut.result() in _run_wave: a result that is not empty ("returned") is kept,
\* None and an empty one ("none") are not.
Collect(s) ==
  /\ main = "join" /\ s \in waves[wave]
  /\ \/ /\ th[s.id] = "returned"
        /\ th' = [th EXCEPT ![s.id] = "collected"]
        /\ reports' = reports \cup {s.id}
        /\ UNCHANGED <<main, stepStatus, store>>
     \/ /\ th[s.id] = "none"
        /\ th' = [th EXCEPT ![s.id] = "collected"]
        /\ UNCHANGED <<main, reports, stepStatus, store>>
     \/ /\ CollectException(s)
        /\ UNCHANGED reports
  /\ UNCHANGED <<plannerVars, status, wave>>

Ended == {"returned", "none", "exc", "collected"}

\* Faulty variant: the pool is left without waiting for its threads.
Faulty_PoolIdle == TRUE

\* Faulty variant: the pool is left once every result has been taken.
Faulty_PoolIdle_Taken == \A s \in waves[wave] : th[s.id] = "collected"

\* The end of the executor's with block waits for the threads.
PoolIdle == \A s \in waves[wave] : th[s.id] \in Ended

Unwind ==
  /\ main = "unwind" /\ PoolIdle
  /\ status' = "failed"
  /\ Goto("save_failed")
  /\ UNCHANGED <<plannerVars, wave, th, stepStatus, reports, store>>

\* All waves are executed.  (_finalize_graph catches what it raises.)
Finish ==
  /\ main = "next_wave" /\ wave = Len(waves)
  /\ status' = "done"
  /\ Goto("save_done")
  /\ UNCHANGED <<plannerVars, wave, th, stepStatus, reports, store>>

-----------------------------------------------------------------------------
(***************************************************************************)
(* _safe_run, the thread of a step                                         *)
(***************************************************************************)
ThreadGoto(s, place) == th' = [th EXCEPT ![s.id] = place]
Mark(s, value) == stepStatus' = [stepStatus EXCEPT ![s.id] = value]
ThreadFrame == UNCHANGED <<plannerVars, main, status, wave, reports>>

\* The registry has no runner for the module.
ReportMissing(s) ==
  /\ Alive /\ th[s.id] = "entry" /\ s.module \notin Registered
  /\ \/ LogEvent(Event("module_missing", s.id)) /\ ThreadGoto(s, "none")
     \/ LogRaises(Event("module_missing", s.id)) /\ ThreadGoto(s, "exc")
  /\ UNCHANGED stepStatus
  /\ ThreadFrame

StartStep(s) ==
  /\ Alive /\ th[s.id] = "entry" /\ s.module \in Registered
  /\ Mark(s, "running")
  /\ \/ LogEvent(Event("step_start", s.id)) /\ ThreadGoto(s, "run")
     \/ LogRaises(Event("step_start", s.id)) /\ ThreadGoto(s, "exc")
  /\ ThreadFrame

\* The runner returns, or raises.
RunnerReturns(s) ==
  /\ Alive /\ th[s.id] = "run"
  /\ Mark(s, "done")
  /\ ThreadGoto(s, "ran")
  /\ UNCHANGED store
  /\ ThreadFrame

RunnerRaises(s) ==
  /\ Alive /\ th[s.id] = "run"
  /\ Mark(s, "failed")
  /\ ThreadGoto(s, "erred")
  /\ UNCHANGED store
  /\ ThreadFrame

\* Faulty variant: a step whose step_done could not be logged keeps its mark.
Faulty_LogStepDone_KeepsMark(s) ==
  /\ Alive /\ th[s.id] = "ran"
  /\ \/ \E place \in {"returned", "none"} : LogEvent(Event("step_done", s.id)) /\ ThreadGoto(s, place)
     \/ LogRaises(Event("step_done", s.id)) /\ ThreadGoto(s, "erred")
  /\ UNCHANGED stepStatus
  /\ ThreadFrame

\* The step_done event is logged inside the try block: if it cannot be, the
\* step counts as failed and its result, empty or not, is dropped.
LogStepDone(s) ==
  /\ Alive /\ th[s.id] = "ran"
  /\ \/ /\ LogEvent(Event("step_done", s.id))
        /\ \E place \in {"returned", "none"} : ThreadGoto(s, place)
        /\ UNCHANGED stepStatus
     \/ /\ LogRaises(Event("step_done", s.id))
        /\ Mark(s, "failed")
        /\ ThreadGoto(s, "erred")
  /\ ThreadFrame

LogStepFailed(s) ==
  /\ Alive /\ th[s.id] = "erred"
  /\ \/ LogEvent(Event("step_failed", s.id)) /\ ThreadGoto(s, "none")
     \/ LogRaises(Event("step_failed", s.id)) /\ ThreadGoto(s, "exc")
  /\ UNCHANGED stepStatus
  /\ ThreadFrame

-----------------------------------------------------------------------------
\* The events that the main thread, or a step's, may be writing.
InFlight ==
  {Event(e, 0) : e \in {"campaign_start", "plan_built", "campaign_done", "campaign_failed"}} \cup
  {Event("module_missing", i) : i \in {j \in DOMAIN th : th[j] = "entry"}} \cup
  {Event("step_start", i) : i \in {j \in DOMAIN th : th[j] = "entry"}} \cup
  {Event("step_done", i) : i \in {j \in DOMAIN th : th[j] = "ran"}} \cup
  {Event("step_failed", i) : i \in {j \in DOMAIN th : th[j] \in {"erred", "exc"}}}

\* The process dies, perhaps in the middle of a line of the log.
Crash ==
  /\ Alive
  /\ Goto("down")
  /\ \E e \in InFlight : WriteStops(e)
  /\ UNCHANGED <<plannerVars, status, wave, th, stepStatus, reports, saved, acks, faults>>

\* recover() in a new process
Recover ==
  /\ main = "down" /\ saved # "none"
  /\ status' = saved
  /\ \/ LogEvent(Event("campaign_recovered", 0)) /\ Goto("recovered")
     \/ LogRaises(Event("campaign_recovered", 0)) /\ UNCHANGED main
  /\ UNCHANGED <<plannerVars, wave, th, stepStatus, reports>>

Init ==
  /\ PlannerInit
  /\ main = "idle" /\ status = "idle" /\ wave = 0
  /\ th = <<>> /\ stepStatus = <<>> /\ reports = {}
  /\ saved = "none" /\ log = {} /\ tail = {} /\ acks = {} /\ faults = 0

MainStep ==
  \/ Begin \/ SavePlanning \/ LogStart \/ MakePlan \/ Authorize \/ Schedule
  \/ SaveScanning \/ LogPlan \/ SubmitWave \/ EndWave \/ Unwind \/ Finish
  \/ SaveDone \/ LogDone \/ SaveFailed \/ LogFailed
  \/ \E s \in steps : Collect(s)

ThreadStep(s) ==
  \/ ReportMissing(s) \/ StartStep(s) \/ RunnerReturns(s) \/ RunnerRaises(s)
  \/ LogStepDone(s) \/ LogStepFailed(s)

Next == MainStep \/ (\E s \in steps : ThreadStep(s)) \/ Crash \/ Recover

\* Every thread that can move does: the runners end (their sockets have
\* timeouts).  Nothing makes a process crash or an operator recover a campaign.
Fairness ==
  /\ WF_vars(MainStep)
  /\ WF_vars(\E s \in steps : ThreadStep(s))

Spec == Init /\ [][Next]_vars /\ Fairness
-----------------------------------------------------------------------------
(***************************************************************************)
(* What a campaign promises.                                               *)
(***************************************************************************)
\* A runner is started only when _safe_run is over for everything its step
\* depends on, and the main thread has the results.
StepsInOrder ==
  \A s \in steps : th[s.id] \in {"entry", "run", "ran", "erred"} =>
    \A d \in s.deps : th[d] = "collected"

\* A campaign on record as ended is over: no thread is in a runner any more, and
\* one that is "done", after a crash and recovery too, has executed every step.
EndedIsOver ==
  /\ saved \in {"done", "failed"} => \A i \in DOMAIN th : th[i] \in Ended \cup {"waiting"}
  /\ saved = "done" => \A i \in DOMAIN th : th[i] = "collected"

\* The event that says how step i went.
Outcome(i) == Event(IF stepStatus[i] = "done" THEN "step_done"
                    ELSE IF stepStatus[i] = "failed" THEN "step_failed" ELSE "module_missing", i)

Unreadable == {i \in DOMAIN th : th[i] = "collected" /\ Outcome(i) \notin ReadLog}
Crashes == IF main \in {"down", "recovered"} THEN 1 ELSE 0

\* The audit trail agrees with the steps, whatever writes of the store fail and
\* wherever the process dies.  No line that read_log finds ended says of a step
\* what it is not; results are kept of done steps only; for every step that is
\* over the event of its outcome was logged; and the steps that are over but
\* whose outcome cannot be read back (it was appended to a torn line) are at most
\* as many as the failed writes and the crash.
AuditAgrees ==
  /\ \A e \in ReadLog \ tail :
       e.event \in {"step_done", "step_failed", "module_missing"} => e = Outcome(e.step)
  /\ \A i \in reports : th[i] = "collected" /\ stepStatus[i] = "done"
  /\ \A i \in DOMAIN th : th[i] = "collected" => Outcome(i) \in acks
  /\ Cardinality(Unreadable) <= faults + Crashes

\* A line of the log that was cut short costs one other event at most, the one that
\* is appended to it: read_log skips that line and returns every other event
\* whose log_event has returned.
TearCostsOneEvent ==
  Cardinality(acks \ ReadLog) <= faults + Crashes

\* run_campaign ends, whatever its modules and the store do.
CampaignEnds == (main = "save_planning") ~> (main \in {"returned", "raised", "down", "recovered"})
=============================================================================
