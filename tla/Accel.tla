-------------------------------- MODULE Accel --------------------------------
(***************************************************************************)
(* core/accel.py: one request, one backend - the C core (module CCore),    *)
(* the Rust library or Python - and the label that says which; the check   *)
(* that compares the backends with each other; and the health report of    *)
(* core/cores.py.                                                          *)
(*                                                                         *)
(* The texts of the reasons are left out, and so is the port scan, whose   *)
(* backends are in module GoServe.                                         *)
(***************************************************************************)
EXTENDS CCore

CONSTANT Kinds   \* the requests that are made

ASSUME AccelAssumption == Kinds \subseteq {"match", "fingerprint", "graph", "batch", "compare", "health"}

VARIABLES
  rust,     \* _LIB of rust_bridge: "none", or how good the loaded library is
  order,    \* the backends the request has not tried yet
  engine,   \* the label of the answer
  served,   \* "served by", of an answer of the C core
  todo,     \* compare_backends: the backends it has not asked yet
  arms,     \* per_backend: the backends that answered, and who did
  verdict   \* the C core's state in the health report

dispatch == <<order, engine, served, todo, arms, verdict>>
vars == <<host, caches, automata, pc, front, request, broke, bounds, rust, dispatch>>

Preference == <<"c", "rust", "python">>
Pins == {"none", "c", "rust", "python", "go"}

Capabilities ==
  [c      |-> {"match", "compare", "fingerprint"},
   rust   |-> {"match", "compare", "graph"},
   go     |-> {},
   python |-> {"match", "compare", "fingerprint", "graph"}]

\* The backends but one; each is there once.
Without(able, name) ==
  IF \A i \in DOMAIN able : able[i] # name THEN able
  ELSE RemoveAt(able, CHOOSE i \in DOMAIN able : able[i] = name)

\* `prefer` goes first; what it pushes away stays behind it.
Order(what, prefer) ==
  LET able == IF what = "graph" THEN <<"rust", "python">> ELSE Preference
  IN  IF prefer = "none" THEN able ELSE <<prefer>> \o Without(able, prefer)

Label(name) == CASE name = "c" -> "c-native" [] name = "rust" -> "rust-native" [] OTHER -> "python-fallback"

-----------------------------------------------------------------------------
(***************************************************************************)
(* A request                                                               *)
(***************************************************************************)
\* The other calls on the shared file
Others(t, what) ==
  IF what = "batch" THEN {u \in Threads \ {t} : kind[u] = "batch" /\ pc[u] \notin {"idle", "done"}} ELSE {}

Begin(t, what, n, p) ==
  /\ pc[t] \in {"idle", "done"} /\ calls < MaxCalls /\ what \in Kinds
  /\ calls' = calls + 1
  /\ kind' = [kind EXCEPT ![t] = what]
  /\ banners' = [banners EXCEPT ![t] = n]
  /\ path' = [path EXCEPT ![t] = p]
  /\ had' = [had EXCEPT ![t] = {IF p = 0 THEN file ELSE 1}]
  /\ overlap' = IF Others(t, what) = {} THEN overlap \ {t} ELSE overlap \cup {t} \cup Others(t, what)
  /\ rows' = [rows EXCEPT ![t] = <<>>]
  /\ broke' = [broke EXCEPT ![t] = FALSE]
  /\ engine' = [engine EXCEPT ![t] = "none"]
  /\ served' = [served EXCEPT ![t] = "none"]
  /\ arms' = [arms EXCEPT ![t] = {}]
  /\ verdict' = [verdict EXCEPT ![t] = "none"]
  /\ UNCHANGED <<lib, exe, file, caches, automata, stamp, handle, changes, faults, rust>>

\* match_signatures, fingerprint and the graph_* functions; their own
\* signature file is one nobody else knows.
Ask(t) ==
  /\ \E what \in {"match", "fingerprint", "graph"}, prefer \in Pins :
       /\ Begin(t, what, 1, calls + 1)
       /\ order' = [order EXCEPT ![t] = Order(what, prefer)]
  /\ Goto(t, "select")
  /\ UNCHANGED todo

\* scan_banners on the shared file
Scan(t) ==
  /\ Begin(t, "batch", 2, 0)
  /\ Goto(t, "front")
  /\ UNCHANGED <<order, todo>>

\* compare_backends
Compare(t) ==
  /\ Begin(t, "compare", 1, calls + 1)
  /\ todo' = [todo EXCEPT ![t] = Preference]
  /\ Goto(t, "arm")
  /\ UNCHANGED order

\* health_report
Health(t) ==
  /\ Begin(t, "health", 0, 0)
  /\ Goto(t, "health")
  /\ UNCHANGED <<order, todo>>

Available(name) == CASE name = "c" -> AvailableNow = "yes" [] name = "rust" -> rust # "none" [] OTHER -> TRUE

Skip(t) == order' = [order EXCEPT ![t] = Tail(@)] /\ Goto(t, "select")

\* The loop over the backends: one that is unavailable or cannot do this is
\* skipped.  Python is behind all of them, so the loop never runs dry.
Select(t) ==
  /\ pc[t] = "select"
  /\ LET name == Head(order[t])
     IN  /\ IF name = "c" THEN ProbeCore ELSE UNCHANGED caches
         /\ IF Available(name) /\ kind[t] \in Capabilities[name]
            THEN Goto(t, IF name = "c" THEN "front" ELSE "serve") /\ UNCHANGED order
            ELSE Skip(t)
  /\ UNCHANGED <<host, automata, front, request, broke, bounds, rust, engine, served, todo, arms, verdict>>

\* A backend that raises is skipped as well; the C core does when the file for
\* its patterns cannot be written.
Raises(t) ==
  /\ \/ pc[t] = "serve" /\ Head(order[t]) = "rust"
     \/ pc[t] = "front" /\ kind[t] # "batch" /\ Head(order[t]) = "c"
  /\ Fault /\ Skip(t)
  /\ IF kind[t] = "compare" THEN Broke(t) ELSE UNCHANGED broke
  /\ UNCHANGED <<host, caches, automata, front, request, rust, engine, served, todo, arms, verdict>>

Served(t) == Goto(t, "served") /\ UNCHANGED <<host, caches, automata, stamp, handle, request, rust, dispatch>>

RustAnswers(t) ==
  /\ pc[t] = "serve" /\ Head(order[t]) = "rust" /\ rust = "good"
  /\ Answer(t, AllBy("rust", 1))
  /\ Served(t) /\ UNCHANGED <<broke, bounds>>

\* The library's call raises or returns nothing that can be parsed; the bridge
\* makes an empty answer of it, and tells nobody.
RustSaysNothing(t) ==
  /\ pc[t] = "serve" /\ Head(order[t]) = "rust"
  /\ IF rust = "good" THEN Fault ELSE UNCHANGED bounds
  /\ Answer(t, AllBy("nobody", 1))
  /\ Served(t) /\ Broke(t)

\* The implementations in Python: _python_fallback and AssetGraph (module
\* AssetGraph)
PythonServes(t) ==
  /\ pc[t] = "serve" /\ Head(order[t]) = "python"
  /\ Answer(t, AllBy("python", 1))
  /\ Served(t) /\ UNCHANGED <<broke, bounds>>

Producer(t) == IF rows[t] = <<>> THEN "nobody" ELSE rows[t][1].by

\* The answer gets its label, and the call's locals are gone.
Finish(t) ==
  /\ pc[t] = "served"
  /\ IF kind[t] = "batch" THEN UNCHANGED <<engine, served>>
     ELSE /\ engine' = [engine EXCEPT ![t] = Label(Head(order[t]))]
          /\ served' = [served EXCEPT ![t] = IF Head(order[t]) = "c" THEN NativePath ELSE "none"]
  /\ IF kind[t] # "compare" THEN Goto(t, "done") /\ UNCHANGED <<todo, arms>>
     ELSE /\ arms' = [arms EXCEPT ![t] = @ \cup {[name |-> Head(todo[t]), by |-> Producer(t)]}]
          /\ todo' = [todo EXCEPT ![t] = Tail(@)]
          /\ Goto(t, "arm")
  /\ order' = [order EXCEPT ![t] = <<>>]
  /\ stamp' = [stamp EXCEPT ![t] = 0]
  /\ handle' = [handle EXCEPT ![t] = NoHandle]
  /\ UNCHANGED <<host, caches, automata, rows, request, broke, bounds, rust, verdict>>

-----------------------------------------------------------------------------
(***************************************************************************)
(* compare_backends: a request pinned to each backend that is available    *)
(***************************************************************************)
NextArm(t) ==
  /\ pc[t] = "arm" /\ todo[t] # <<>>
  /\ LET name == Head(todo[t])
     IN  /\ IF name = "c" THEN ProbeCore ELSE UNCHANGED caches
         /\ IF Available(name)
            THEN /\ order' = [order EXCEPT ![t] = Order("match", name)]
                 /\ rows' = [rows EXCEPT ![t] = <<>>]
                 /\ Goto(t, "select") /\ UNCHANGED todo
            ELSE /\ todo' = [todo EXCEPT ![t] = Tail(@)]
                 /\ UNCHANGED <<pc, order, rows>>
  /\ UNCHANGED <<host, automata, stamp, handle, request, broke, bounds, rust, engine, served, arms, verdict>>

EndCompare(t) ==
  /\ pc[t] = "arm" /\ todo[t] = <<>>
  /\ Goto(t, "done")
  /\ UNCHANGED <<host, caches, automata, front, request, broke, bounds, rust, dispatch>>

Corroborated(t) == Cardinality(arms[t]) >= 2

-----------------------------------------------------------------------------
(***************************************************************************)
(* core/cores.py: the health of the C core                                 *)
(***************************************************************************)
\* Faulty variant: a core that is available is healthy.
Faulty_SelftestOf == "ok"

\* selftest(), of a core found available: in-process, or by the executable.
SelftestOf ==
  IF ffi = "yes" THEN "ok"
  ELSE CASE exe = "good" -> "ok" [] exe = "refused" -> "blocked" [] OTHER -> "failed"

\* check_c: a core that core_available() gave up on is a fallback, or failed
\* when the reason is a binary older than its sources.
CheckC(t) ==
  /\ pc[t] = "health"
  /\ ProbeCore
  /\ Goto(t, IF AvailableNow = "yes" THEN "selftest" ELSE "done")
  /\ verdict' = [verdict EXCEPT ![t] = IF AvailableNow = "yes" THEN @ ELSE "fallback"]
  /\ UNCHANGED <<host, automata, front, request, broke, bounds, rust, order, engine, served, todo, arms>>

RunSelftest(t) ==
  /\ pc[t] = "selftest"
  /\ verdict' = [verdict EXCEPT ![t] = SelftestOf]
  /\ Goto(t, "done")
  /\ UNCHANGED <<host, caches, automata, front, request, broke, bounds, rust, order, engine, served, todo, arms>>

-----------------------------------------------------------------------------
Init ==
  /\ CCoreInit
  /\ rust \in {"none", "mute", "good"}
  /\ order = [t \in Threads |-> <<>>] /\ todo = [t \in Threads |-> <<>>]
  /\ engine = [t \in Threads |-> "none"] /\ served = [t \in Threads |-> "none"]
  /\ arms = [t \in Threads |-> {}] /\ verdict = [t \in Threads |-> "none"]

Next ==
  \/ \E t \in Threads :
       \/ Ask(t) \/ Scan(t) \/ Compare(t) \/ Health(t)
       \/ Select(t) \/ Raises(t) \/ RustAnswers(t) \/ RustSaysNothing(t) \/ PythonServes(t) \/ Finish(t) \/ NextArm(t) \/ EndCompare(t)
       \/ CheckC(t) \/ RunSelftest(t)
       \/ FrontStep(t) /\ UNCHANGED <<rust, dispatch>>
  \/ (HostChanges \/ EditFile) /\ UNCHANGED <<rust, dispatch>>

Spec == Init /\ [][Next]_vars

-----------------------------------------------------------------------------
(***************************************************************************)
(* Properties                                                              *)
(***************************************************************************)
MadeBy(label) ==
  CASE label = "c-native" -> {"ffi", "process"} [] label = "rust-native" -> {"rust"} [] OTHER -> {"python"}

Answered(t) == pc[t] = "done" /\ kind[t] \in {"match", "fingerprint", "graph"}

\* Whatever the host is like and whatever it changes before, between and
\* behind the probes: an answer is labelled with the backend and the front end
\* that made it, and a comparison that counts as corroborated has compared two
\* implementations, unless a core that had passed its probe gave this very call
\* no answer (match_signatures, native_path, compare_backends).
LabelTrueUnlessCoreBroke ==
  \A t \in Threads : ~broke[t] =>
    /\ Answered(t) =>
         /\ Producer(t) \in MadeBy(engine[t])
         /\ engine[t] = "c-native" => served[t] = Producer(t)
    /\ pc[t] = "done" /\ kind[t] = "compare" /\ Corroborated(t) =>
         Cardinality({a.by : a \in arms[t]}) >= 2

\* On a host that does not change, and as long as no call fails, the health
\* report and the service agree, whoever asks first and fills the caches: if the
\* C core is reported sound, the answers under its name are its own; and if they
\* are its own, it is reported sound, but for an executable that answers and
\* fails its selftest, which is reported and used all the same (check_c runs the
\* selftest of the core; the probe for an answer asks for its version).
HealthAgreesWithService ==
  changes = 0 /\ faults = 0 =>
    \A t, u \in Threads :
      pc[t] = "done" /\ kind[t] = "health" /\ Answered(u) /\ engine[u] = "c-native" =>
        /\ verdict[t] = "ok" => Producer(u) \in MadeBy("c-native")
        /\ Producer(u) \in MadeBy("c-native") =>
             verdict[t] = "ok" \/ (Producer(u) = "process" /\ exe = "flawed" /\ verdict[t] = "failed")
=============================================================================
