------------------------------- MODULE CCore -------------------------------
(***************************************************************************)
(* core/c_core_bridge.py: the two front ends of the C core, the in-process *)
(* library and the executable, with the Python code that stands in for     *)
(* them; the caches that remember which of them can be trusted; and the    *)
(* cache of opened signature files.                                        *)
(*                                                                         *)
(* A call is a thread's; a step of it ends where the host, a file or       *)
(* another thread may change what it looks at next.  A row of an answer is *)
(* who made it and for which banner.  Two threads that probe at once both  *)
(* fill the caches; this is one probe after the other, as each computes    *)
(* its answer from the host alone.                                         *)
(***************************************************************************)
EXTENDS Integers, Sequences, SequencesExt, FiniteSets

CONSTANTS Threads,
          Contents,    \* the contents of the shared signature file
          MaxCalls,    \* bound on the calls
          MaxChanges,  \* bound on the changes of the host and of the file
          MaxFaults    \* bound on the calls into a core that fail

ASSUME CCoreAssumption ==
  /\ Contents \subseteq Nat \ {0} /\ 1 \in Contents
  /\ MaxCalls \in Nat /\ MaxChanges \in Nat /\ MaxFaults \in Nat

\* The library file: not there or older than its sources; not loadable or
\* without the expected exports; loadable but failing its selftest; sound.
LibStates == {"absent", "unloadable", "failing", "good"}
\* The executable: none when the module was imported (for good), refused by
\* the host, silent on every command, right about its version only, able to match
\* but failing its selftest, sound.
ExeStates == {"refused", "mute", "wrong", "flawed", "good"}

VARIABLES
  lib, exe,     \* the files on the host
  file,         \* contents of the one signature file that is not private to a call; 0: no file
  \* The module's variables:
  library,      \* _library_cache: "unset", "none", or how good the loaded one is
  ffi,          \* _probe_cache["ffi"]
  available,    \* _probe_cache["result"]
  handles,      \* _handles: records of a path, a stamp and a handle
  open,         \* the handles that are open in the library
  \* The calls:
  pc, kind,
  banners,      \* how many banners the call is about
  path,         \* its signature file: 0 is the shared one, else the call's own
  stamp, handle,
  rows,         \* what it has so far
  \* History, read by no operation:
  spoke,        \* the executable has answered the probe of its version
  had,          \* the contents its file had since the call began
  overlap,      \* the calls that met another one on their file
  slips,        \* digests, each with the other contents that a handle was made from
  broke,        \* a core that passed its probe gave the call no answer, unnoticed
  calls, changes, faults

host == <<lib, exe, file, had>>
caches == <<library, ffi, available, spoke>>
automata == <<handles, open, slips>>
front == <<stamp, handle, rows>>
request == <<kind, banners, path, overlap>>
bounds == <<calls, changes, faults>>

Goto(t, place) == pc' = [pc EXCEPT ![t] = place]
Fault == faults < MaxFaults /\ faults' = faults + 1 /\ UNCHANGED <<calls, changes>>
Row(by, i) == [by |-> by, banner |-> i]
NoHandle == [path |-> 0, version |-> 0]
AllBy(by, n) == [i \in 1..n |-> Row(by, i)]
Answer(t, answer) == rows' = [rows EXCEPT ![t] = answer]
\* The executable tells its version, and it answers for banners.
Speaks == exe \in {"wrong", "flawed", "good"}
Matches == exe \in {"flawed", "good"}
Broke(t) == broke' = [broke EXCEPT ![t] = TRUE]

-----------------------------------------------------------------------------
(***************************************************************************)
(* What is available                                                       *)
(***************************************************************************)
\* _library(): the load is tried once, and its failure is remembered, too.
LibraryNow ==
  IF library # "unset" THEN library ELSE IF lib \in {"failing", "good"} THEN lib ELSE "none"

\* ffi_available(): loaded, and its selftest passed.
FfiNow == IF ffi # "unset" THEN ffi ELSE IF LibraryNow = "good" THEN "yes" ELSE "no"

\* Faulty variant: a binary that exists is available.
Faulty_AvailableNow ==
  IF available # "unset" THEN available ELSE IF FfiNow = "yes" \/ exe # "none" THEN "yes" ELSE "no"

\* core_available(): the library, or an executable that answers "version".
AvailableNow ==
  IF available # "unset" THEN available
  ELSE IF FfiNow = "yes" \/ Speaks THEN "yes" ELSE "no"

ProbeFfi == ffi' = FfiNow /\ library' = LibraryNow /\ UNCHANGED <<available, spoke>>
ProbeCore ==
  IF available # "unset" THEN UNCHANGED caches
  ELSE /\ available' = AvailableNow /\ ffi' = FfiNow /\ library' = LibraryNow
       /\ spoke' = (FfiNow = "no" /\ Speaks)

\* native_path(), of caches that a probe has filled
NativePath == IF ffi = "yes" THEN "ffi" ELSE IF available = "yes" THEN "process" ELSE "python"

-----------------------------------------------------------------------------
(***************************************************************************)
(* scan_banners and fingerprint                                            *)
(***************************************************************************)
UseLibrary == FfiNow = "yes"

\* The file is looked for and the library's probe asked.
ChooseFront(t) ==
  /\ pc[t] = "front"
  /\ ProbeFfi
  /\ \/ /\ kind[t] = "batch" /\ file = 0
        /\ Goto(t, "done")
     \/ /\ ~(kind[t] = "batch" /\ file = 0)
        /\ Goto(t, IF ~UseLibrary THEN "process" ELSE IF kind[t] = "fingerprint" THEN "ffi" ELSE "hash")
  /\ UNCHANGED <<host, automata, front, request, broke, bounds>>

Version(t) == IF path[t] = 0 THEN file ELSE 1

\* _open_signatures: the digest of the file, if it is still there ...
ReadStamp(t) ==
  /\ pc[t] = "hash"
  /\ stamp' = [stamp EXCEPT ![t] = Version(t)]
  /\ Goto(t, IF Version(t) = 0 THEN "process" ELSE "open")
  /\ UNCHANGED <<host, caches, automata, handle, rows, request, broke, bounds>>

Cached(t) == {h \in handles : h.path = path[t]}

\* Faulty variant: an automaton is found by the name of its file alone.
Faulty_Current(t, h) == TRUE

Current(t, h) == h.stamp = stamp[t]

\* ... an automaton of a file with this digest ...
ReuseHandle(t) ==
  /\ pc[t] = "open"
  /\ \E h \in Cached(t) :
       /\ Current(t, h)
       /\ handle' = [handle EXCEPT ![t] = h.handle]
  /\ Goto(t, "ffi")
  /\ UNCHANGED <<host, caches, automata, stamp, rows, request, broke, bounds>>

Forget(t) == handles \ Cached(t)

\* ... or a new one, after the one of the old contents was released.  The
\* library reads the file again, which may have changed since, and may refuse it.
OpenHandle(t) ==
  /\ pc[t] = "open" /\ \A h \in Cached(t) : ~Current(t, h)
  /\ LET new == [path |-> path[t], version |-> Version(t)]
         kept == open \ {h.handle : h \in Cached(t)}
     IN  \/ /\ Version(t) # 0
            /\ open' = kept \cup {new}
            /\ handles' = Forget(t) \cup {[path |-> path[t], stamp |-> stamp[t], handle |-> new]}
            /\ slips' = IF Version(t) = stamp[t] THEN slips ELSE slips \cup {<<stamp[t], Version(t)>>}
            /\ handle' = [handle EXCEPT ![t] = new]
            /\ Goto(t, "ffi")
            /\ UNCHANGED <<broke, bounds>>
         \/ /\ IF Version(t) = 0 THEN UNCHANGED bounds ELSE Fault
            /\ open' = kept /\ handles' = Forget(t)
            /\ Goto(t, "process") /\ Broke(t)
            /\ UNCHANGED <<slips, handle>>
  /\ UNCHANGED <<host, caches, stamp, rows, request>>

\* Faulty variant: what the library answered before it failed is kept.
Faulty_KeptRows(t) == rows[t]

\* One banner that fails in-process sends the whole batch on.
KeptRows(t) == <<>>

\* _ffi_match, banner by banner, and _ffi_fingerprint
FfiAnswers(t) ==
  /\ pc[t] = "ffi"
  /\ Answer(t, Append(rows[t], Row("ffi", Len(rows[t]) + 1)))
  /\ Goto(t, IF Len(rows[t]) + 1 = banners[t] THEN "served" ELSE "ffi")
  /\ UNCHANGED <<host, caches, automata, stamp, handle, request, broke, bounds>>

FfiFails(t) ==
  /\ pc[t] = "ffi"
  /\ Fault
  /\ Answer(t, KeptRows(t))
  /\ Goto(t, "process") /\ Broke(t)
  /\ UNCHANGED <<host, caches, automata, stamp, handle, request>>

Remaining(t, by) == [i \in 1..(banners[t] - Len(rows[t])) |-> Row(by, Len(rows[t]) + i)]

\* The executable answers, perhaps without the banners it could not encode,
\* which it reports to nobody.
ProcessAnswers(t) ==
  /\ pc[t] = "process" /\ Matches
  /\ \/ Answer(t, rows[t] \o Remaining(t, "process")) /\ UNCHANGED <<broke, bounds>>
     \/ /\ Fault /\ Broke(t)
        /\ \E i \in 1..banners[t] :
             /\ banners[t] > 1
             /\ Answer(t, RemoveAt(AllBy("process", banners[t]), i))
  /\ Goto(t, "served")
  /\ UNCHANGED <<host, caches, automata, stamp, handle, request>>

\* There is none, it gives no usable line, or it takes too long:
\* _python_fallback.
PythonAnswers(t) ==
  /\ pc[t] = "process"
  /\ IF Matches THEN Fault ELSE UNCHANGED bounds
  /\ Answer(t, rows[t] \o Remaining(t, "python"))
  /\ Goto(t, "served")
  /\ IF spoke \/ Matches THEN Broke(t) ELSE UNCHANGED broke
  /\ UNCHANGED <<host, caches, automata, stamp, handle, request>>

-----------------------------------------------------------------------------
(***************************************************************************)
(* The host                                                                *)
(***************************************************************************)
Change == changes < MaxChanges /\ changes' = changes + 1 /\ UNCHANGED <<calls, faults>>
Unmoved == UNCHANGED <<caches, automata, pc, front, request, broke>>

\* A build, a deletion, a policy of the host; _BINARY stays as it was found.
HostChanges ==
  /\ Change
  /\ \/ lib' \in LibStates \ {lib} /\ UNCHANGED exe
     \/ exe # "none" /\ exe' \in ExeStates \ {exe} /\ UNCHANGED lib
  /\ UNCHANGED <<file, had>>
  /\ Unmoved

\* The shared signature file is written or removed; what it held before may come
\* back.
EditFile ==
  /\ Change
  /\ file' \in ({0} \cup Contents) \ {file}
  /\ had' = [t \in Threads |-> IF path[t] = 0 THEN had[t] \cup {file'} ELSE had[t]]
  /\ UNCHANGED <<lib, exe>>
  /\ Unmoved

FrontStep(t) ==
  \/ ChooseFront(t) \/ ReadStamp(t) \/ ReuseHandle(t) \/ OpenHandle(t)
  \/ FfiAnswers(t) \/ FfiFails(t) \/ ProcessAnswers(t) \/ PythonAnswers(t)

CCoreInit ==
  /\ lib \in LibStates /\ exe \in ExeStates \cup {"none"} /\ file = 1
  /\ library = "unset" /\ ffi = "unset" /\ available = "unset" /\ spoke = FALSE
  /\ handles = {} /\ open = {} /\ slips = {} /\ overlap = {}
  /\ pc = [t \in Threads |-> "idle"]
  /\ kind = [t \in Threads |-> "none"]
  /\ banners = [t \in Threads |-> 0] /\ path = [t \in Threads |-> 0] /\ had = [t \in Threads |-> {1}]
  /\ stamp = [t \in Threads |-> 0] /\ handle = [t \in Threads |-> NoHandle]
  /\ rows = [t \in Threads |-> <<>>]
  /\ broke = [t \in Threads |-> FALSE]
  /\ calls = 0 /\ changes = 0 /\ faults = 0

-----------------------------------------------------------------------------
(***************************************************************************)
(* Properties                                                              *)
(***************************************************************************)
\* The rows of one answer come from one front end, whatever fails on the way,
\* never from a library that failed its own selftest, and each is the row of
\* the banner at its place unless the executable dropped one (scan_banners:
\* "never two of them at once"; ffi_available).
BatchFromOneFront ==
  \A t \in Threads : pc[t] \in {"served", "done"} =>
    /\ \A i, j \in DOMAIN rows[t] : rows[t][i].by = rows[t][j].by
    /\ \A i \in DOMAIN rows[t] : rows[t][i].by = "ffi" => library = "good"
    /\ ~broke[t] => \A i \in DOMAIN rows[t] : rows[t][i].banner = i

\* An automaton in use is open and was built from contents the file had during
\* the call, whatever it held before and will hold again: an edited file is not
\* matched against its old patterns (_open_signatures).  Two cases are left to
\* the code: a call that meets another one on its file, for nothing keeps the
\* other from releasing the automaton; and contents that changed between the
\* digest and the open, whose automaton stays under a digest that is not theirs.
AutomatonIsCurrent ==
  \A t \in Threads \ overlap : pc[t] = "ffi" /\ kind[t] # "fingerprint" =>
    /\ handle[t] \in open /\ handle[t].path = path[t]
    /\ handle[t].version \in had[t] \/ <<stamp[t], handle[t].version>> \in slips
=============================================================================
