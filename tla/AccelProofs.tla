---------------------------- MODULE AccelProofs ----------------------------
(***************************************************************************)
(* The C core under any number of threads: an automaton in use is that of  *)
(* the file as it is, an answer is one front end's and bears its name, and *)
(* the health report says what the answers show.                           *)
(***************************************************************************)
EXTENDS Accel, FiniteSetTheorems, TLAPS

Places == {"idle", "done", "select", "front", "hash", "open", "ffi", "process", "serve", "served",
           "arm", "health", "selftest"}

-----------------------------------------------------------------------------
(***************************************************************************)
(* Automata                                                                *)
(***************************************************************************)
Handle == [path : Nat, version : Nat]

AutomatonTypes ==
  /\ pc \in [Threads -> Places]
  /\ kind \in [Threads -> {"none", "match", "fingerprint", "graph", "batch", "compare", "health"}]
  /\ path \in [Threads -> Nat] /\ had \in [Threads -> SUBSET Nat] /\ stamp \in [Threads -> Nat]
  /\ handle \in [Threads -> Handle]
  /\ handles \in SUBSET [path : Nat, stamp : Nat, handle : Handle] /\ open \in SUBSET Handle
  /\ file \in Nat /\ calls \in Nat

\* A request that matches, and is not over.
Live(t) == kind[t] \in {"match", "compare", "batch"} /\ pc[t] \notin {"idle", "done"}

\* A call at the C core is for something it can do.
AtCore ==
  \A t \in Threads :
    /\ pc[t] \in {"front", "hash", "open", "ffi", "process"} =>
         kind[t] \in {"match", "fingerprint", "compare", "batch"}
    /\ pc[t] \in {"hash", "open"} => kind[t] # "fingerprint"

\* No two live requests use the same signature file, unless both met there.
Alone ==
  /\ \A t \in Threads : path[t] <= calls
  /\ \A t \in Threads : Live(t) /\ kind[t] # "batch" => path[t] # 0
  /\ \A t, u \in Threads : Live(t) /\ Live(u) /\ t # u /\ t \notin overlap => path[t] # path[u]

\* What a file is, and what was read of it, is something it was.
Fresh ==
  \A t \in Threads : Version(t) \in had[t] /\ (pc[t] = "open" => stamp[t] \in had[t])

\* Contents, under the digest they have or have slipped under.
Under(digest, version) == version = digest \/ <<digest, version>> \in slips

\* What _handles remembers is open, and made from the contents of its digest,
\* but for a slip.
Remembered ==
  \A h \in handles : h.handle \in open /\ h.handle.path = h.path /\ Under(h.stamp, h.handle.version)

AutomatonInv == AutomatonTypes /\ AtCore /\ Alone /\ Fresh /\ Remembered /\ AutomatonIsCurrent

\* At first nothing is open.
LEMMA AutomatonInit == Init => AutomatonInv
<1> SUFFICES ASSUME Init PROVE AutomatonInv
  OBVIOUS
<1>1. AutomatonTypes
  BY DEF Init, CCoreInit, AutomatonTypes, Places, Handle, NoHandle
<1>2. AtCore /\ Alone /\ Fresh /\ Remembered /\ AutomatonIsCurrent
  BY DEF Init, CCoreInit, AtCore, Alone, Live, Fresh, Version, Remembered, AutomatonIsCurrent
<1> QED BY <1>1, <1>2 DEF AutomatonInv

\* A request begins with a file of its own, or meets the others on the shared one.
LEMMA BeginStep ==
  ASSUME AutomatonInv, NEW t \in Threads, NEW what, NEW n, NEW p \in Nat, Begin(t, what, n, p),
         NEW place \in {"select", "front", "arm", "health"}, Goto(t, place),
         place = "front" => what = "batch",
         \/ what \in {"match", "fingerprint", "graph", "compare"} /\ p = calls + 1
         \/ what = "health" /\ p = 0
         \/ what = "batch" /\ p = 0
  PROVE  AutomatonInv'
<1>1. /\ calls' = calls + 1 /\ kind' = [kind EXCEPT ![t] = what] /\ path' = [path EXCEPT ![t] = p]
      /\ had' = [had EXCEPT ![t] = {IF p = 0 THEN file ELSE 1}]
      /\ overlap' = IF Others(t, what) = {} THEN overlap \ {t} ELSE overlap \cup {t} \cup Others(t, what)
      /\ UNCHANGED <<file, handles, open, slips, stamp, handle>>
      /\ pc[t] \in {"idle", "done"} /\ pc' = [pc EXCEPT ![t] = place]
  BY DEF Begin, Goto, host, automata
<1>2. AutomatonTypes /\ AtCore /\ Alone /\ Fresh /\ Remembered /\ AutomatonIsCurrent
  BY DEF AutomatonInv
<1>3. AutomatonTypes'
  BY <1>1, <1>2 DEF AutomatonTypes, Places
<1>4. AtCore'
  BY <1>1, <1>2 DEF AutomatonTypes, AtCore
<1>5. Alone'
  <2>1. \A u \in Threads : path'[u] <= calls'
    BY <1>1, <1>2 DEF AutomatonTypes, Alone
  <2>2. \A u \in Threads : u # t => Live(u)' = Live(u) /\ kind'[u] = kind[u] /\ path'[u] = path[u]
    BY <1>1, <1>2 DEF AutomatonTypes, Live
  <2>3. path'[t] = p /\ kind'[t] = what
    BY <1>1, <1>2 DEF AutomatonTypes
  <2>4. Live(t)' => (p = calls + 1 \/ (what = "batch" /\ p = 0))
    BY <2>3 DEF Live
  <2>5. \A u \in Threads : u # t /\ Live(u) /\ Live(t)' => path[u] # p \/ (u \in overlap' /\ t \in overlap')
    <3> SUFFICES ASSUME NEW u \in Threads, u # t, Live(u), Live(t)' PROVE path[u] # p \/ (u \in overlap' /\ t \in overlap')
      OBVIOUS
    <3>1. CASE p = calls + 1
      BY <1>2, <3>1 DEF Alone, AutomatonTypes
    <3>2. CASE what = "batch" /\ p = 0
      <4>1. path[u] = 0 => u \in Others(t, what)
        BY <1>2, <3>2 DEF Alone, Live, Others
      <4> QED BY <1>1, <3>2, <4>1
    <3> QED BY <2>4, <3>1, <3>2
  <2>6. Live(t)' /\ what # "batch" => p # 0
    BY <1>2, <2>4 DEF AutomatonTypes
  <2>7. \A u \in Threads : u # t /\ u \notin overlap' => u \notin overlap
    BY <1>1
  <2> QED BY <1>2, <2>1, <2>2, <2>3, <2>5, <2>6, <2>7 DEF Alone
<1>6. Fresh'
  <2>1. \A u \in Threads : u # t => Version(u)' = Version(u) /\ pc'[u] = pc[u] /\ had'[u] = had[u] /\ stamp'[u] = stamp[u]
    BY <1>1, <1>2 DEF AutomatonTypes, Version
  <2>2. Version(t)' \in had'[t] /\ pc'[t] # "open"
    BY <1>1, <1>2 DEF AutomatonTypes, Version
  <2> QED BY <1>2, <2>1, <2>2 DEF Fresh
<1>7. Remembered'
  BY <1>1, <1>2 DEF Remembered, Under
<1>8. AutomatonIsCurrent'
  BY <1>1, <1>2 DEF AutomatonTypes, AutomatonIsCurrent
<1> QED BY <1>3, <1>4, <1>5, <1>6, <1>7, <1>8 DEF AutomatonInv

\* A step of a request that leaves the automata alone and does not end at one.
LEMMA AsideStep ==
  ASSUME AutomatonInv, NEW t \in Threads, NEW place \in Places \ {"open"},
         pc[t] \notin {"idle", "done"}, pc' = [pc EXCEPT ![t] = place],
         place \in {"front", "hash", "process"} => kind[t] \in {"match", "fingerprint", "compare", "batch"},
         place = "hash" => kind[t] # "fingerprint", place = "ffi" => kind[t] = "fingerprint",
         UNCHANGED <<file, handles, open, slips, overlap, kind, path, had, calls>>,
         stamp' = stamp \/ stamp' = [stamp EXCEPT ![t] = 0],
         handle' = handle \/ handle' = [handle EXCEPT ![t] = NoHandle]
  PROVE  AutomatonInv'
<1>1. AutomatonTypes /\ AtCore /\ Alone /\ Fresh /\ Remembered /\ AutomatonIsCurrent
  BY DEF AutomatonInv
<1>2. AutomatonTypes'
  <2>1. NoHandle \in Handle
    BY DEF NoHandle, Handle
  <2> QED BY <1>1, <2>1 DEF AutomatonTypes
<1>3. AtCore'
  BY <1>1 DEF AutomatonTypes, AtCore
<1>4. \A u \in Threads : Live(u)' => Live(u)
  BY <1>1 DEF AutomatonTypes, Live
<1>5. Alone'
  BY <1>1, <1>4 DEF Alone
<1>6. \A u \in Threads : u # t => pc'[u] = pc[u] /\ stamp'[u] = stamp[u] /\ handle'[u] = handle[u]
  BY <1>1 DEF AutomatonTypes
<1>7. pc'[t] = place
  BY <1>1 DEF AutomatonTypes
<1>8. Fresh'
  BY <1>1, <1>6, <1>7 DEF Fresh, Version
<1>9. Remembered' /\ AutomatonIsCurrent'
  BY <1>1, <1>6, <1>7 DEF Remembered, Under, AutomatonIsCurrent
<1> QED BY <1>2, <1>3, <1>5, <1>8, <1>9 DEF AutomatonInv

\* The front end is chosen: the library, after a look at the file, or not.
LEMMA ChooseFrontStep == ASSUME AutomatonInv, NEW t \in Threads, ChooseFront(t) PROVE AutomatonInv'
<1>1. pc[t] = "front" /\ UNCHANGED <<file, handles, open, slips, overlap, kind, path, had, calls, stamp, handle>>
  BY DEF ChooseFront, host, automata, front, request, bounds
<1>2. kind[t] \in {"match", "fingerprint", "compare", "batch"}
  BY <1>1 DEF AutomatonInv, AtCore
<1>3. PICK place \in {"done", "process", "ffi", "hash"} :
        /\ pc' = [pc EXCEPT ![t] = place]
        /\ (place = "ffi" => kind[t] = "fingerprint") /\ (place = "hash" => kind[t] # "fingerprint")
  BY DEF ChooseFront, Goto
<1> QED BY <1>1, <1>2, <1>3, AsideStep DEF Places

\* The digest is that of the file as it is.
LEMMA ReadStampStep == ASSUME AutomatonInv, NEW t \in Threads, ReadStamp(t) PROVE AutomatonInv'
<1>1. /\ pc[t] = "hash" /\ stamp' = [stamp EXCEPT ![t] = Version(t)]
      /\ pc' = [pc EXCEPT ![t] = IF Version(t) = 0 THEN "process" ELSE "open"]
      /\ UNCHANGED <<file, handles, open, slips, overlap, kind, path, had, calls, handle>>
  BY DEF ReadStamp, Goto, host, automata, request, bounds
<1>2. AutomatonTypes /\ AtCore /\ Alone /\ Fresh /\ Remembered /\ AutomatonIsCurrent
  BY DEF AutomatonInv
<1>3. Version(t) \in Nat
  BY <1>2 DEF AutomatonTypes, Version
<1>4. AutomatonTypes'
  BY <1>1, <1>2, <1>3 DEF AutomatonTypes, Places
<1>5. AtCore'
  BY <1>1, <1>2 DEF AutomatonTypes, AtCore
<1>6. \A u \in Threads : Live(u)' => Live(u)
  BY <1>1, <1>2 DEF AutomatonTypes, Live
<1>7. Alone'
  BY <1>1, <1>2, <1>6 DEF Alone
<1>8. Fresh'
  <2>1. \A u \in Threads : Version(u)' = Version(u)
    BY <1>1 DEF Version
  <2>2. stamp'[t] = Version(t) /\ (pc'[t] = "open" => Version(t) # 0)
    BY <1>1, <1>2 DEF AutomatonTypes
  <2>3. \A u \in Threads : u # t => pc'[u] = pc[u] /\ stamp'[u] = stamp[u]
    BY <1>1, <1>2 DEF AutomatonTypes
  <2> QED BY <1>1, <1>2, <1>3, <2>1, <2>2, <2>3 DEF Fresh
<1>9. Remembered' /\ AutomatonIsCurrent'
  BY <1>1, <1>2 DEF AutomatonTypes, Remembered, Under, AutomatonIsCurrent
<1> QED BY <1>4, <1>5, <1>7, <1>8, <1>9 DEF AutomatonInv

\* An automaton of a file with this digest is taken from the cache.
LEMMA ReuseStep == ASSUME AutomatonInv, NEW t \in Threads, ReuseHandle(t) PROVE AutomatonInv'
<1>1. PICK h \in handles : h.path = path[t] /\ h.stamp = stamp[t] /\ handle' = [handle EXCEPT ![t] = h.handle]
  BY DEF ReuseHandle, Cached, Current
<1>2. /\ pc[t] = "open" /\ pc' = [pc EXCEPT ![t] = "ffi"]
      /\ UNCHANGED <<file, handles, open, slips, overlap, kind, path, had, calls, stamp>>
  BY DEF ReuseHandle, Goto, host, automata, request, bounds
<1>3. AutomatonTypes /\ AtCore /\ Alone /\ Fresh /\ Remembered /\ AutomatonIsCurrent
  BY DEF AutomatonInv
<1>4. h.handle \in Handle
  BY <1>1, <1>3 DEF AutomatonTypes
<1>5. AutomatonTypes'
  BY <1>1, <1>2, <1>3, <1>4 DEF AutomatonTypes, Places
<1>6. AtCore'
  BY <1>2, <1>3 DEF AutomatonTypes, AtCore
<1>7. \A u \in Threads : Live(u)' => Live(u)
  BY <1>2, <1>3 DEF AutomatonTypes, Live
<1>8. Alone'
  BY <1>2, <1>3, <1>7 DEF Alone
<1>9. \A u \in Threads : u # t => pc'[u] = pc[u] /\ handle'[u] = handle[u]
  BY <1>1, <1>2, <1>3 DEF AutomatonTypes
<1>10. pc'[t] = "ffi" /\ handle'[t] = h.handle
  BY <1>1, <1>2, <1>3 DEF AutomatonTypes
<1>11. Fresh'
  BY <1>2, <1>3, <1>9, <1>10 DEF Fresh, Version
<1>12. Remembered'
  BY <1>2, <1>3 DEF Remembered, Under
<1>13. /\ h.handle \in open /\ h.handle.path = path[t]
       /\ h.handle.version \in had[t] \/ <<stamp[t], h.handle.version>> \in slips
  <2>1. h.handle \in open /\ h.handle.path = h.path /\ Under(h.stamp, h.handle.version)
    BY <1>1, <1>3 DEF Remembered
  <2>2. stamp[t] \in had[t]
    BY <1>2, <1>3 DEF Fresh
  <2> QED BY <1>1, <2>1, <2>2 DEF Under
<1>14. AutomatonIsCurrent'
  BY <1>2, <1>3, <1>9, <1>10, <1>13 DEF AutomatonIsCurrent
<1> QED BY <1>5, <1>6, <1>8, <1>11, <1>12, <1>14 DEF AutomatonInv

\* The automaton of the old contents is released, which nobody else uses, and a
\* new one opened or not.
LEMMA OpenStep == ASSUME AutomatonInv, NEW t \in Threads, OpenHandle(t) PROVE AutomatonInv'
<1> DEFINE new == [path |-> path[t], version |-> Version(t)]
           kept == open \ {h.handle : h \in Cached(t)}
           entry == [path |-> path[t], stamp |-> stamp[t], handle |-> new]
<1>1. pc[t] = "open" /\ slips \subseteq slips' /\ UNCHANGED <<file, overlap, kind, path, had, calls, stamp>>
  BY DEF OpenHandle, host, request, bounds, Fault
<1>2. AutomatonTypes /\ AtCore /\ Alone /\ Fresh /\ Remembered /\ AutomatonIsCurrent
  BY DEF AutomatonInv
<1>3. \/ /\ Version(t) # 0 /\ (Version(t) = stamp[t] \/ <<stamp[t], Version(t)>> \in slips') /\ open' = kept \cup {new} 
         /\ handles' = Forget(t) \cup {entry}
         /\ handle' = [handle EXCEPT ![t] = new] /\ pc' = [pc EXCEPT ![t] = "ffi"]
      \/ /\ open' = kept /\ handles' = Forget(t)
         /\ handle' = handle /\ pc' = [pc EXCEPT ![t] = "process"]
  BY DEF OpenHandle, Goto
<1>4. Version(t) \in Nat /\ path[t] \in Nat /\ stamp[t] \in Nat
  BY <1>2 DEF AutomatonTypes, Version
<1>5. new \in Handle /\ entry \in [path : Nat, stamp : Nat, handle : Handle]
  BY <1>4 DEF Handle
<1>6. AutomatonTypes'
  BY <1>1, <1>2, <1>3, <1>5 DEF AutomatonTypes, Places, Forget
<1>7. AtCore'
  BY <1>1, <1>2, <1>3 DEF AutomatonTypes, AtCore
<1>8. \A u \in Threads : Live(u)' => Live(u)
  BY <1>1, <1>2, <1>3 DEF AutomatonTypes, Live
<1>9. Alone'
  BY <1>1, <1>2, <1>8 DEF Alone
<1>10. /\ \A u \in Threads : u # t => pc'[u] = pc[u] /\ handle'[u] = handle[u]
       /\ pc'[t] # "open"
  BY <1>2, <1>3 DEF AutomatonTypes
<1>11. Fresh'
  BY <1>1, <1>2, <1>10 DEF Fresh, Version
<1>12. \A h \in Cached(t) : h.handle.path = path[t]
  BY <1>2 DEF Remembered, Cached
<1>13. \A g \in open : g.path # path[t] => g \in open'
  BY <1>3, <1>12
<1>14. Remembered'
  <2>1. \A h \in Forget(t) : h \in handles /\ h.path # path[t]
    BY DEF Forget, Cached
  <2>2. \A h \in Forget(t) : h.handle \in open' /\ h.handle.path = h.path /\ Under(h.stamp, h.handle.version)'
    BY <1>1, <1>2, <1>13, <2>1 DEF Remembered, Under
  <2>3. CASE /\ Version(t) = stamp[t] \/ <<stamp[t], Version(t)>> \in slips'
             /\ open' = kept \cup {new} /\ handles' = Forget(t) \cup {entry}
    <3>1. entry.handle = new /\ new \in open' /\ new.path = entry.path /\ new.version = Version(t) /\ entry.stamp = stamp[t]
      BY <2>3
    <3>2. entry.handle.version = entry.stamp \/ <<entry.stamp, entry.handle.version>> \in slips'
      BY <2>3, <3>1
    <3> QED BY <2>2, <2>3, <3>1, <3>2 DEF Remembered, Under
  <2>4. CASE handles' = Forget(t)
    BY <2>2, <2>4 DEF Remembered, Under
  <2> QED BY <1>3, <2>3, <2>4
<1>15. AutomatonIsCurrent'
  <2>1. ASSUME NEW u \in Threads \ overlap', u # t, pc'[u] = "ffi", kind'[u] # "fingerprint"
        PROVE  /\ handle'[u] \in open' /\ handle'[u].path = path'[u]
               /\ handle'[u].version \in had'[u] \/ <<stamp'[u], handle'[u].version>> \in slips'
    <3>1. pc[u] = "ffi" /\ handle'[u] = handle[u] /\ kind[u] # "fingerprint"
      BY <1>1, <1>10, <2>1
    <3>2. /\ handle[u] \in open /\ handle[u].path = path[u]
          /\ handle[u].version \in had[u] \/ <<stamp[u], handle[u].version>> \in slips
      BY <1>1, <1>2, <2>1, <3>1 DEF AutomatonIsCurrent
    <3>3. Live(t) /\ Live(u)
      BY <1>1, <1>2, <3>1 DEF AtCore, Live
    <3>4. path[u] # path[t]
      BY <1>1, <1>2, <2>1, <3>3 DEF Alone
    <3> QED BY <1>1, <1>13, <3>1, <3>2, <3>4
  <2>2. ASSUME pc'[t] = "ffi"
        PROVE  handle'[t] \in open' /\ handle'[t].path = path'[t] /\ handle'[t].version \in had'[t]
    <3>1. Version(t) # 0 /\ open' = kept \cup {new} /\ handle'[t] = new
      BY <1>2, <1>3, <2>2 DEF AutomatonTypes
    <3>2. Version(t) \in had[t]
      BY <1>2 DEF Fresh
    <3> QED BY <1>1, <3>1, <3>2
  <2> QED BY <2>1, <2>2 DEF AutomatonIsCurrent
<1> QED BY <1>6, <1>7, <1>9, <1>11, <1>14, <1>15 DEF AutomatonInv

\* The file changes or not; what it becomes is what it was for whoever reads it.
LEMMA FileStep ==
  ASSUME AutomatonInv, file' \in Nat,
         \/ UNCHANGED <<file, had>>
         \/ had' = [t \in Threads |-> IF path[t] = 0 THEN had[t] \cup {file'} ELSE had[t]],
         UNCHANGED <<handles, open, slips, overlap, pc, kind, path, calls, stamp, handle>>
  PROVE  AutomatonInv'
<1>1. AutomatonTypes /\ AtCore /\ Alone /\ Fresh /\ Remembered /\ AutomatonIsCurrent
  BY DEF AutomatonInv
<1>2. AutomatonTypes'
  BY <1>1 DEF AutomatonTypes
<1>3. AtCore' /\ Remembered'
  BY <1>1 DEF AtCore, Remembered, Under
<1>4. Alone'
  BY <1>1 DEF Alone, Live
<1>5. \A t \in Threads : had[t] \subseteq had'[t] /\ (path[t] = 0 => file' \in had'[t])
  BY <1>1 DEF AutomatonTypes, Fresh, Version
<1>6. Fresh'
  BY <1>1, <1>5 DEF Fresh, Version
<1>7. AutomatonIsCurrent'
  BY <1>1, <1>5 DEF AutomatonIsCurrent
<1> QED BY <1>2, <1>3, <1>4, <1>6, <1>7 DEF AutomatonInv

\* Every step keeps the invariant.
LEMMA AutomatonKept == ASSUME AutomatonInv, [Next]_vars PROVE AutomatonInv'
<1> USE DEF host, automata, front, request, bounds, dispatch, Goto
<1>0. AutomatonTypes /\ AtCore
  BY DEF AutomatonInv
<1>1. ASSUME NEW t \in Threads, Ask(t) \/ Scan(t) \/ Compare(t) \/ Health(t) PROVE AutomatonInv'
  <2>1. calls + 1 \in Nat
    BY <1>0 DEF AutomatonTypes
  <2>2. CASE Ask(t)
    <3>1. PICK what \in {"match", "fingerprint", "graph"} : Begin(t, what, 1, calls + 1)
      BY <2>2 DEF Ask
    <3>2. Goto(t, "select")
      BY <2>2 DEF Ask
    <3> HIDE DEF Goto
    <3> QED BY <2>1, <3>1, <3>2, BeginStep
  <2>3. CASE Scan(t)
    <3>1. Begin(t, "batch", 2, 0) /\ Goto(t, "front")
      BY <2>3 DEF Scan
    <3> HIDE DEF Goto
    <3> QED BY <3>1, BeginStep
  <2>4. CASE Compare(t)
    <3>1. Begin(t, "compare", 1, calls + 1) /\ Goto(t, "arm")
      BY <2>4 DEF Compare
    <3> HIDE DEF Goto
    <3> QED BY <2>1, <3>1, BeginStep
  <2>5. CASE Health(t)
    <3>1. Begin(t, "health", 0, 0) /\ Goto(t, "health")
      BY <2>5 DEF Health
    <3> HIDE DEF Goto
    <3> QED BY <3>1, BeginStep
  <2> QED BY <1>1, <2>2, <2>3, <2>4, <2>5
<1>2. ASSUME NEW t \in Threads, Select(t) PROVE AutomatonInv'
  <2>1. PICK place \in {"front", "serve", "select"} :
          pc' = [pc EXCEPT ![t] = place] /\ (place = "front" => kind[t] \in {"match", "fingerprint", "compare", "batch"})
    BY <1>2 DEF Select, Skip, Capabilities
  <2> QED BY <1>2, <2>1, AsideStep DEF Select, Places
<1>3. ASSUME NEW t \in Threads, NextArm(t) PROVE AutomatonInv'
  <2>1. PICK place \in {"arm", "select"} : pc' = [pc EXCEPT ![t] = place]
    BY <1>0, <1>3 DEF NextArm, AutomatonTypes
  <2> QED BY <1>3, <2>1, AsideStep DEF NextArm, Places
<1>4. ASSUME NEW t \in Threads, Finish(t) PROVE AutomatonInv'
  <2>1. PICK place \in {"arm", "done"} : pc' = [pc EXCEPT ![t] = place]
    BY <1>4 DEF Finish
  <2> QED BY <1>4, <2>1, AsideStep DEF Finish, Places
<1>5. ASSUME NEW t \in Threads, Raises(t) PROVE AutomatonInv'
  BY <1>5, AsideStep DEF Raises, Skip, Fault, Places
<1>6. ASSUME NEW t \in Threads, RustAnswers(t) \/ RustSaysNothing(t) \/ PythonServes(t) PROVE AutomatonInv'
  BY <1>6, AsideStep DEF RustAnswers, RustSaysNothing, PythonServes, Served, Fault, Places
<1>7. ASSUME NEW t \in Threads, EndCompare(t) \/ RunSelftest(t) PROVE AutomatonInv'
  BY <1>7, AsideStep DEF EndCompare, RunSelftest, Places
<1>8. ASSUME NEW t \in Threads, CheckC(t) PROVE AutomatonInv'
  <2>1. PICK place \in {"selftest", "done"} : pc' = [pc EXCEPT ![t] = place]
    BY <1>8 DEF CheckC
  <2> QED BY <1>8, <2>1, AsideStep DEF CheckC, Places
<1>9. ASSUME NEW t \in Threads, FrontStep(t) PROVE AutomatonInv'
  <2>1. CASE ChooseFront(t)
    BY <2>1, ChooseFrontStep
  <2>2. CASE ReadStamp(t)
    BY <2>2, ReadStampStep
  <2>3. CASE ReuseHandle(t)
    BY <2>3, ReuseStep
  <2>4. CASE OpenHandle(t)
    BY <2>4, OpenStep
  <2>5. CASE FfiAnswers(t)
    <3>1. CASE pc' = [pc EXCEPT ![t] = "served"]
      BY <2>5, <3>1, AsideStep DEF FfiAnswers, Places
    <3>2. CASE pc' = pc
      BY <1>0, <2>5, <3>2, FileStep DEF FfiAnswers, AutomatonTypes
    <3> QED BY <1>0, <2>5, <3>1, <3>2 DEF FfiAnswers, AutomatonTypes
  <2>6. CASE FfiFails(t)
    BY <1>0, <2>6, AsideStep DEF FfiFails, Fault, AtCore, Places
  <2>7. CASE ProcessAnswers(t) \/ PythonAnswers(t)
    BY <2>7, AsideStep DEF ProcessAnswers, PythonAnswers, Fault, Places
  <2> QED BY <1>9, <2>1, <2>2, <2>3, <2>4, <2>5, <2>6, <2>7 DEF FrontStep
<1>10. CASE HostChanges \/ EditFile
  <2>1. file' \in Nat
    <3>1. CASE HostChanges
      BY <1>0, <3>1 DEF HostChanges, AutomatonTypes
    <3>2. CASE EditFile
      <4>1. file' \in {0} \cup Contents
        BY <3>2 DEF EditFile
      <4> QED BY <4>1, CCoreAssumption
    <3> QED BY <1>10, <3>1, <3>2
  <2> QED BY <1>10, <2>1, FileStep DEF HostChanges, EditFile, Change, Unmoved
<1>11. CASE UNCHANGED vars
  BY <1>0, <1>11, FileStep DEF vars, AutomatonTypes
<1> QED BY <1>1, <1>2, <1>3, <1>4, <1>5, <1>6, <1>7, <1>8, <1>9, <1>10, <1>11 DEF Next

\* For any number of threads, however often the file changes, and whether or not
\* earlier contents come back: an automaton in use is open, that of the call's own
\* file, and was built from contents the file had during the call, unless another
\* call met this one on the file, or the contents once changed between their
\* digest and the open (_open_signatures).
THEOREM AutomataAreCurrent == Spec => []AutomatonIsCurrent
<1>1. Init => AutomatonInv
  BY AutomatonInit
<1>2. AutomatonInv /\ [Next]_vars => AutomatonInv'
  BY AutomatonKept
<1>3. AutomatonInv => AutomatonIsCurrent
  BY DEF AutomatonInv
<1> QED BY <1>1, <1>2, <1>3, PTL DEF Spec

-----------------------------------------------------------------------------
(***************************************************************************)
(* Rows                                                                    *)
(***************************************************************************)
RowOf(who) == [by : {who}, banner : Nat]
RowsBy(who) == Seq(RowOf(who))

\* What BatchFromOneFront says of an answer.
OneFront(t) ==
  /\ \A i, j \in DOMAIN rows[t] : rows[t][i].by = rows[t][j].by
  /\ \A i \in DOMAIN rows[t] : rows[t][i].by = "ffi" => library = "good"
  /\ ~broke[t] => \A i \in DOMAIN rows[t] : rows[t][i].banner = i

\* The places where a request has no rows yet
Before == {"select", "front", "hash", "open", "process", "serve", "health", "selftest"}

BatchTypes ==
  /\ pc \in [Threads -> Places]
  /\ DOMAIN rows = Threads /\ rows = [t \in Threads |-> rows[t]]
  /\ banners \in [Threads -> Nat] /\ broke \in [Threads -> BOOLEAN]

\* The library is the one whose selftest passed.
InLibrary ==
  /\ ffi = "yes" => library = "good"
  /\ \A t \in Threads : pc[t] \in {"hash", "open", "ffi"} => library = "good"

\* The rows of a request, wherever it is.
SoFar ==
  \A t \in Threads :
    /\ pc[t] \in Before => rows[t] = <<>>
    /\ pc[t] = "ffi" => rows[t] \in RowsBy("ffi") /\ \A i \in DOMAIN rows[t] : rows[t][i].banner = i
    /\ pc[t] \in {"served", "done", "arm"} => OneFront(t)

BatchInv == BatchTypes /\ InLibrary /\ SoFar

\* A row for each banner, in their order.
LEMMA AllByRows ==
  ASSUME NEW by, NEW n \in Nat
  PROVE  AllBy(by, n) \in RowsBy(by) /\ Len(AllBy(by, n)) = n /\ \A i \in 1..n : AllBy(by, n)[i].banner = i
BY DEF AllBy, Row, RowOf, RowsBy

\* At first there are no rows.
LEMMA BatchInit == Init => BatchInv
BY DEF Init, CCoreInit, BatchInv, BatchTypes, InLibrary, SoFar, Before, Places

\* A probe finds a sound library, or remembers what one found before.
LEMMA LibraryStays ==
  ASSUME InLibrary, library' = library \/ library' = LibraryNow, ffi' = ffi \/ (ffi' = FfiNow /\ library' = LibraryNow)
  PROVE  (ffi' = "yes" => library' = "good") /\ (library = "good" => library' = "good")
BY DEF InLibrary, LibraryNow, FfiNow

\* A step of one request that brings it to a place with rows that fit there,
\* while the library stays or is probed.
LEMMA RowStep ==
  ASSUME BatchInv, NEW t \in Threads, NEW place \in Places, NEW answer, NEW b \in BOOLEAN,
         pc' = [pc EXCEPT ![t] = place], rows' = [rows EXCEPT ![t] = answer],
         broke' = [broke EXCEPT ![t] = b], banners' \in [Threads -> Nat],
         library' = library \/ library' = LibraryNow, ffi' = ffi \/ (ffi' = FfiNow /\ library' = LibraryNow),
         place \in {"hash", "open", "ffi"} => library' = "good",
         place \in Before => answer = <<>>,
         place = "ffi" => answer \in RowsBy("ffi") /\ \A i \in DOMAIN answer : answer[i].banner = i,
         place \in {"served", "done", "arm"} =>
           /\ \A i, j \in DOMAIN answer : answer[i].by = answer[j].by
           /\ \A i \in DOMAIN answer : answer[i].by = "ffi" => library' = "good"
           /\ ~b => \A i \in DOMAIN answer : answer[i].banner = i
  PROVE  BatchInv'
<1>1. BatchTypes /\ InLibrary /\ SoFar
  BY DEF BatchInv
<1>2. BatchTypes'
  BY <1>1 DEF BatchTypes
<1>3. (ffi' = "yes" => library' = "good") /\ (library = "good" => library' = "good")
  BY <1>1, LibraryStays
<1>4. /\ pc'[t] = place /\ rows'[t] = answer /\ broke'[t] = b
      /\ \A u \in Threads : u # t => pc'[u] = pc[u] /\ rows'[u] = rows[u] /\ broke'[u] = broke[u]
  BY <1>1 DEF BatchTypes
<1>5. InLibrary'
  BY <1>1, <1>3, <1>4 DEF InLibrary
<1>6. SoFar'
  <2>1. ASSUME NEW u \in Threads, u # t, pc'[u] \in {"served", "done", "arm"} PROVE OneFront(u)'
    BY <1>1, <1>3, <1>4, <2>1 DEF SoFar, OneFront
  <2>2. place \in {"served", "done", "arm"} => OneFront(t)'
    BY <1>4 DEF OneFront
  <2> QED BY <1>1, <1>4, <2>1, <2>2 DEF SoFar
<1> QED BY <1>2, <1>5, <1>6 DEF BatchInv

\* A step of one request that leaves its rows as they are.
LEMMA PlaceStep ==
  ASSUME BatchInv, NEW t \in Threads, NEW place \in Places \ {"ffi"},
         pc' = [pc EXCEPT ![t] = place],
         broke' = broke \/ broke' = [broke EXCEPT ![t] = TRUE], UNCHANGED <<rows, banners>>,
         library' = library \/ library' = LibraryNow, ffi' = ffi \/ (ffi' = FfiNow /\ library' = LibraryNow),
         place \in {"hash", "open"} => library' = "good",
         place \in Before => rows[t] = <<>>,
         place \in {"served", "done", "arm"} => rows[t] = <<>> \/ pc[t] \in {"served", "done", "arm"}
  PROVE  BatchInv'
<1>1. BatchTypes /\ InLibrary /\ SoFar
  BY DEF BatchInv
<1>2. PICK b \in BOOLEAN : broke' = [broke EXCEPT ![t] = b] /\ (broke[t] => b)
  BY <1>1 DEF BatchTypes
<1>3. rows' = [rows EXCEPT ![t] = rows[t]] /\ banners' \in [Threads -> Nat]
  BY <1>1 DEF BatchTypes
<1>4. library = "good" => library' = "good"
  BY <1>1, LibraryStays
<1>5. place \in {"served", "done", "arm"} =>
        /\ \A i, j \in DOMAIN rows[t] : rows[t][i].by = rows[t][j].by
        /\ \A i \in DOMAIN rows[t] : rows[t][i].by = "ffi" => library' = "good"
        /\ ~b => \A i \in DOMAIN rows[t] : rows[t][i].banner = i
  <2>1. CASE rows[t] = <<>>
    BY <2>1
  <2>2. CASE pc[t] \in {"served", "done", "arm"}
    BY <1>1, <1>2, <1>4, <2>2 DEF SoFar, OneFront
  <2> QED BY <2>1, <2>2
<1> QED BY <1>2, <1>3, <1>5, RowStep

\* Rows that one front end made of all banners at once, or of some.
LEMMA MadeAtOnce ==
  ASSUME NEW by, by # "ffi", NEW answer \in RowsBy(by)
  PROVE  /\ \A i, j \in DOMAIN answer : answer[i].by = answer[j].by
         /\ \A i \in DOMAIN answer : answer[i].by # "ffi"
<1>1. \A i \in DOMAIN answer : answer[i] \in RowOf(by)
  BY DEF RowsBy
<1>2. \A i \in DOMAIN answer : answer[i].by = by
  BY <1>1 DEF RowOf
<1> QED BY <1>2

\* The steps in the library keep the rows in their order.
LEMMA FfiRows == ASSUME BatchInv, NEW t \in Threads, FfiAnswers(t) PROVE BatchInv'
<1> DEFINE answer == Append(rows[t], Row("ffi", Len(rows[t]) + 1))
           place == IF Len(rows[t]) + 1 = banners[t] THEN "served" ELSE "ffi"
<1>1. /\ pc[t] = "ffi" /\ rows' = [rows EXCEPT ![t] = answer] /\ pc' = [pc EXCEPT ![t] = place]
      /\ UNCHANGED <<library, ffi, banners, broke>>
  BY DEF FfiAnswers, Answer, Goto, caches, request
<1>2. BatchTypes /\ library = "good" /\ rows[t] \in RowsBy("ffi") /\ \A i \in DOMAIN rows[t] : rows[t][i].banner = i
  BY <1>1 DEF BatchInv, InLibrary, SoFar
<1>3. Len(rows[t]) \in Nat /\ Row("ffi", Len(rows[t]) + 1) \in RowOf("ffi")
  BY <1>2 DEF RowsBy, RowOf, Row
<1>4. answer \in RowsBy("ffi")
  BY <1>2, <1>3 DEF RowsBy
<1>5. \A i \in DOMAIN answer : answer[i].banner = i
  <2>1. Len(answer) = Len(rows[t]) + 1 /\ answer[Len(rows[t]) + 1] = Row("ffi", Len(rows[t]) + 1)
    BY <1>2, <1>3 DEF RowsBy
  <2>2. \A i \in 1..Len(rows[t]) : answer[i] = rows[t][i]
    BY <1>2, <1>3 DEF RowsBy
  <2>3. DOMAIN answer = 1..Len(answer) /\ DOMAIN rows[t] = 1..Len(rows[t])
    BY <1>2, <1>4 DEF RowsBy
  <2> QED BY <1>2, <1>3, <2>1, <2>2, <2>3 DEF Row
<1>6. \A i \in DOMAIN answer : answer[i].by = "ffi"
  <2>1. \A i \in DOMAIN answer : answer[i] \in RowOf("ffi")
    BY <1>4 DEF RowsBy
  <2> QED BY <2>1 DEF RowOf
<1>7. broke' = [broke EXCEPT ![t] = broke[t]] /\ broke[t] \in BOOLEAN /\ banners' \in [Threads -> Nat]
  BY <1>1, <1>2 DEF BatchTypes
<1>8. place \in {"served", "ffi"}
  OBVIOUS
<1> HIDE DEF answer, place
<1> QED BY <1>1, <1>2, <1>4, <1>5, <1>6, <1>7, <1>8, RowStep DEF Places, Before

\* The executable and Python answer for all banners, when there are no rows.
LEMMA ProcessRows ==
  ASSUME BatchInv, NEW t \in Threads, ProcessAnswers(t) \/ PythonAnswers(t)
  PROVE  BatchInv'
<1>1. /\ pc[t] = "process" /\ pc' = [pc EXCEPT ![t] = "served"] /\ UNCHANGED <<library, ffi, banners>>
      /\ broke' = broke \/ broke' = [broke EXCEPT ![t] = TRUE]
  BY DEF ProcessAnswers, PythonAnswers, Goto, Broke, caches, request
<1>2. BatchTypes /\ rows[t] = <<>> /\ banners[t] \in Nat
  BY <1>1 DEF BatchInv, SoFar, Before, BatchTypes
<1>3. PICK b \in BOOLEAN : broke' = [broke EXCEPT ![t] = b]
  BY <1>1, <1>2 DEF BatchTypes
<1>4. ASSUME NEW by \in {"process", "python"}, rows' = [rows EXCEPT ![t] = rows[t] \o Remaining(t, by)]
      PROVE  BatchInv'
  <2>1. Remaining(t, by) = AllBy(by, banners[t])
    BY <1>2 DEF Remaining, AllBy
  <2>2. /\ AllBy(by, banners[t]) \in RowsBy(by) /\ Len(AllBy(by, banners[t])) = banners[t]
        /\ \A i \in 1..banners[t] : AllBy(by, banners[t])[i].banner = i
    BY <1>2, AllByRows
  <2>3. rows[t] \o Remaining(t, by) = AllBy(by, banners[t])
    BY <1>2, <2>1, <2>2 DEF RowsBy
  <2>4. DOMAIN AllBy(by, banners[t]) = 1..banners[t]
    BY DEF AllBy
  <2>5. /\ \A i, j \in DOMAIN AllBy(by, banners[t]) : AllBy(by, banners[t])[i].by = AllBy(by, banners[t])[j].by
        /\ \A i \in DOMAIN AllBy(by, banners[t]) : AllBy(by, banners[t])[i].by # "ffi"
    BY <2>2, MadeAtOnce
  <2>6. banners' \in [Threads -> Nat]
    BY <1>1, <1>2 DEF BatchTypes
  <2> QED BY <1>1, <1>3, <1>4, <2>2, <2>3, <2>4, <2>5, <2>6, RowStep DEF Places, Before
<1>5. ASSUME NEW i \in 1..banners[t], broke' = [broke EXCEPT ![t] = TRUE],
             rows' = [rows EXCEPT ![t] = RemoveAt(AllBy("process", banners[t]), i)]
      PROVE  BatchInv'
  <2> DEFINE all == AllBy("process", banners[t])
             answer == RemoveAt(all, i)
  <2>1. all \in RowsBy("process") /\ Len(all) = banners[t]
    BY <1>2, AllByRows
  <2>2. SubSeq(all, 1, i - 1) \in RowsBy("process") /\ SubSeq(all, i + 1, Len(all)) \in RowsBy("process")
    BY <1>2, <2>1 DEF RowsBy
  <2>3. answer \in RowsBy("process")
    BY <2>2 DEF RowsBy, RemoveAt
  <2>4. /\ \A k, j \in DOMAIN answer : answer[k].by = answer[j].by
        /\ \A k \in DOMAIN answer : answer[k].by # "ffi"
    BY <2>3, MadeAtOnce
  <2>5. banners' \in [Threads -> Nat]
    BY <1>1, <1>2 DEF BatchTypes
  <2> HIDE DEF answer
  <2>6. rows' = [rows EXCEPT ![t] = answer]
    BY <1>5 DEF answer
  <2> QED BY <1>1, <1>5, <2>4, <2>5, <2>6, RowStep DEF Places, Before
<1>6. CASE ProcessAnswers(t)
  BY <1>4, <1>5, <1>6 DEF ProcessAnswers, Answer, Broke
<1>7. CASE PythonAnswers(t)
  BY <1>4, <1>7 DEF PythonAnswers, Answer
<1> QED BY <1>6, <1>7

\* Rust, or the code in Python, answers; a silent library for nobody.
LEMMA ServeRows ==
  ASSUME BatchInv, NEW t \in Threads, RustAnswers(t) \/ RustSaysNothing(t) \/ PythonServes(t)
  PROVE  BatchInv'
<1>1. /\ pc' = [pc EXCEPT ![t] = "served"] /\ UNCHANGED <<library, ffi, banners>>
      /\ broke' = broke \/ broke' = [broke EXCEPT ![t] = TRUE]
  BY DEF RustAnswers, RustSaysNothing, PythonServes, Served, Goto, Broke, caches, request
<1>2. PICK by \in {"rust", "nobody", "python"} : rows' = [rows EXCEPT ![t] = AllBy(by, 1)]
  BY DEF RustAnswers, RustSaysNothing, PythonServes, Answer
<1>3. BatchTypes
  BY DEF BatchInv
<1>4. PICK b \in BOOLEAN : broke' = [broke EXCEPT ![t] = b]
  BY <1>1, <1>3 DEF BatchTypes
<1>5. AllBy(by, 1) \in RowsBy(by) /\ \A i \in 1..1 : AllBy(by, 1)[i].banner = i
  BY AllByRows
<1>6. DOMAIN AllBy(by, 1) = 1..1
  BY DEF AllBy
<1>7. /\ \A i, j \in DOMAIN AllBy(by, 1) : AllBy(by, 1)[i].by = AllBy(by, 1)[j].by
      /\ \A i \in DOMAIN AllBy(by, 1) : AllBy(by, 1)[i].by # "ffi"
  BY <1>5, MadeAtOnce
<1>8. banners' \in [Threads -> Nat]
  BY <1>1, <1>3 DEF BatchTypes
<1> QED BY <1>1, <1>2, <1>4, <1>5, <1>6, <1>7, <1>8, RowStep DEF Places, Before

\* A step that leaves a request without rows.
LEMMA NoRowsStep ==
  ASSUME BatchInv, NEW t \in Threads, NEW place \in Places, NEW b \in BOOLEAN,
         pc' = [pc EXCEPT ![t] = place], rows' = [rows EXCEPT ![t] = <<>>],
         broke' = [broke EXCEPT ![t] = b], banners' \in [Threads -> Nat],
         library' = library \/ library' = LibraryNow, ffi' = ffi \/ (ffi' = FfiNow /\ library' = LibraryNow),
         place \in {"hash", "open", "ffi"} => library' = "good"
  PROVE  BatchInv'
<1> DEFINE answer == <<>>
<1>1. answer \in RowsBy("ffi") /\ DOMAIN answer = {}
  BY DEF RowsBy
<1>2. rows' = [rows EXCEPT ![t] = answer] /\ (place \in Before => answer = <<>>)
  OBVIOUS
<1> HIDE DEF answer
<1> QED BY <1>1, <1>2, RowStep

\* A request begins without rows.
LEMMA BeginRows ==
  ASSUME BatchInv, NEW t \in Threads, NEW what, NEW n \in Nat, NEW p, Begin(t, what, n, p),
         NEW place \in {"select", "front", "arm", "health"}, Goto(t, place)
  PROVE  BatchInv'
<1>1. /\ pc' = [pc EXCEPT ![t] = place] /\ rows' = [rows EXCEPT ![t] = <<>>]
      /\ broke' = [broke EXCEPT ![t] = FALSE] /\ banners' = [banners EXCEPT ![t] = n]
      /\ UNCHANGED <<library, ffi>>
  BY DEF Begin, Goto, caches
<1>2. banners' \in [Threads -> Nat]
  BY <1>1 DEF BatchInv, BatchTypes
<1> QED BY <1>1, <1>2, NoRowsStep DEF Places

\* The front end is chosen: the library only if its selftest passed.
LEMMA ChooseRows == ASSUME BatchInv, NEW t \in Threads, ChooseFront(t) PROVE BatchInv'
<1>1. /\ pc[t] = "front" /\ UNCHANGED <<rows, banners, broke>>
      /\ ffi' = FfiNow /\ library' = LibraryNow
  BY DEF ChooseFront, ProbeFfi, front, request
<1>2. BatchTypes /\ InLibrary /\ rows[t] = <<>>
  BY <1>1 DEF BatchInv, SoFar, Before
<1>3. PICK place \in {"done", "process", "ffi", "hash"} :
        pc' = [pc EXCEPT ![t] = place] /\ (place \in {"ffi", "hash"} => FfiNow = "yes")
  BY DEF ChooseFront, Goto, UseLibrary
<1>4. FfiNow = "yes" => library' = "good"
  BY <1>1, <1>2, LibraryStays
<1>5. rows' = [rows EXCEPT ![t] = <<>>] /\ broke' = [broke EXCEPT ![t] = broke[t]]
      /\ broke[t] \in BOOLEAN /\ banners' \in [Threads -> Nat]
  BY <1>1, <1>2 DEF BatchTypes
<1> QED BY <1>1, <1>3, <1>4, <1>5, NoRowsStep DEF Places

\* An automaton is at hand, or there is none after all.
LEMMA OpenRows ==
  ASSUME BatchInv, NEW t \in Threads, ReadStamp(t) \/ ReuseHandle(t) \/ OpenHandle(t)
  PROVE  BatchInv'
<1>1. pc[t] \in {"hash", "open"} /\ UNCHANGED <<rows, banners, library, ffi>>
  BY DEF ReadStamp, ReuseHandle, OpenHandle, caches, request
<1>2. BatchTypes /\ library = "good" /\ rows[t] = <<>>
  BY <1>1 DEF BatchInv, InLibrary, SoFar, Before
<1>3. PICK place \in {"open", "ffi", "process"} : pc' = [pc EXCEPT ![t] = place]
  BY DEF ReadStamp, ReuseHandle, OpenHandle, Goto
<1>4. broke' = broke \/ broke' = [broke EXCEPT ![t] = TRUE]
  BY DEF ReadStamp, ReuseHandle, OpenHandle, Broke
<1>5. PICK b \in BOOLEAN : broke' = [broke EXCEPT ![t] = b]
  BY <1>2, <1>4 DEF BatchTypes
<1>6. rows' = [rows EXCEPT ![t] = <<>>] /\ banners' \in [Threads -> Nat]
  BY <1>1, <1>2 DEF BatchTypes
<1> QED BY <1>1, <1>2, <1>3, <1>5, <1>6, NoRowsStep DEF Places

\* Every step keeps the invariant.
LEMMA BatchKept == ASSUME BatchInv, [Next]_vars PROVE BatchInv'
<1>0. BatchTypes /\ SoFar
  BY DEF BatchInv
<1>1. ASSUME NEW t \in Threads, Ask(t) \/ Scan(t) \/ Compare(t) \/ Health(t) PROVE BatchInv'
  BY <1>1, BeginRows DEF Ask, Scan, Compare, Health
<1>2. ASSUME NEW t \in Threads, Select(t) PROVE BatchInv'
  <2>1. PICK place \in {"front", "serve", "select"} : pc' = [pc EXCEPT ![t] = place]
    BY <1>2 DEF Select, Skip, Goto
  <2>2. UNCHANGED <<rows, banners, broke>> /\ pc[t] = "select" /\ rows[t] = <<>>
    BY <1>0, <1>2 DEF Select, SoFar, Before, front, request
  <2>3. UNCHANGED <<library, ffi>> \/ (ffi' = FfiNow /\ library' = LibraryNow)
    BY <1>2 DEF Select, ProbeCore, caches
  <2> QED BY <2>1, <2>2, <2>3, PlaceStep DEF Places
<1>3. ASSUME NEW t \in Threads, Raises(t) PROVE BatchInv'
  <2>1. /\ pc[t] \in {"serve", "front"} /\ pc' = [pc EXCEPT ![t] = "select"]
        /\ UNCHANGED <<rows, banners, library, ffi>> /\ (broke' = broke \/ broke' = [broke EXCEPT ![t] = TRUE])
    BY <1>3 DEF Raises, Skip, Goto, Broke, caches, front, request
  <2>2. rows[t] = <<>>
    BY <1>0, <2>1 DEF SoFar, Before
  <2> QED BY <2>1, <2>2, PlaceStep DEF Places
<1>4. ASSUME NEW t \in Threads, RustAnswers(t) \/ RustSaysNothing(t) \/ PythonServes(t) PROVE BatchInv'
  BY <1>4, ServeRows
<1>5. ASSUME NEW t \in Threads, Finish(t) \/ EndCompare(t) PROVE BatchInv'
  <2>1. /\ pc[t] \in {"served", "arm"} /\ UNCHANGED <<rows, banners, broke, library, ffi>>
        /\ \E place \in {"done", "arm"} : pc' = [pc EXCEPT ![t] = place]
    BY <1>5 DEF Finish, EndCompare, Goto, caches, front, request
  <2> QED BY <2>1, PlaceStep DEF Places, Before
<1>6. ASSUME NEW t \in Threads, NextArm(t) PROVE BatchInv'
  <2>1. /\ pc[t] = "arm" /\ UNCHANGED <<banners, broke>>
        /\ UNCHANGED <<library, ffi>> \/ (ffi' = FfiNow /\ library' = LibraryNow)
    BY <1>6 DEF NextArm, ProbeCore, caches, request
  <2>2. CASE pc' = [pc EXCEPT ![t] = "select"] /\ rows' = [rows EXCEPT ![t] = <<>>]
    <3>1. broke' = [broke EXCEPT ![t] = broke[t]] /\ broke[t] \in BOOLEAN /\ banners' \in [Threads -> Nat]
      BY <1>0, <2>1 DEF BatchTypes
    <3> QED BY <2>1, <2>2, <3>1, NoRowsStep DEF Places
  <2>3. CASE UNCHANGED <<pc, rows>>
    <3>1. pc' = [pc EXCEPT ![t] = "arm"]
      BY <1>0, <2>1, <2>3 DEF BatchTypes
    <3> QED BY <2>1, <2>3, <3>1, PlaceStep DEF Places, Before
  <2> QED BY <1>6, <2>2, <2>3 DEF NextArm, Goto
<1>7. ASSUME NEW t \in Threads, CheckC(t) \/ RunSelftest(t) PROVE BatchInv'
  <2>1. /\ pc[t] \in {"health", "selftest"} /\ UNCHANGED <<rows, banners, broke>>
        /\ \E place \in {"selftest", "done"} : pc' = [pc EXCEPT ![t] = place]
    BY <1>7 DEF CheckC, RunSelftest, Goto, front, request
  <2>2. UNCHANGED <<library, ffi>> \/ (ffi' = FfiNow /\ library' = LibraryNow)
    BY <1>7 DEF CheckC, RunSelftest, ProbeCore, caches
  <2>3. rows[t] = <<>>
    BY <1>0, <2>1 DEF SoFar, Before
  <2> QED BY <2>1, <2>2, <2>3, PlaceStep DEF Places
<1>8. ASSUME NEW t \in Threads, FrontStep(t) PROVE BatchInv'
  <2>1. CASE FfiFails(t)
    <3>1. /\ pc' = [pc EXCEPT ![t] = "process"] /\ rows' = [rows EXCEPT ![t] = <<>>]
          /\ broke' = [broke EXCEPT ![t] = TRUE] /\ UNCHANGED <<banners, library, ffi>>
      BY <2>1 DEF FfiFails, Answer, KeptRows, Goto, Broke, caches, request
    <3>2. banners' \in [Threads -> Nat]
      BY <1>0, <3>1 DEF BatchTypes
    <3> QED BY <3>1, <3>2, NoRowsStep DEF Places
  <2> QED BY <1>8, <2>1, ChooseRows, OpenRows, FfiRows, ProcessRows DEF FrontStep
<1>9. ASSUME UNCHANGED <<pc, rows, banners, broke, library, ffi>> PROVE BatchInv'
  BY <1>9 DEF BatchInv, BatchTypes, InLibrary, SoFar, OneFront
<1>10. CASE HostChanges \/ EditFile
  BY <1>9, <1>10 DEF HostChanges, EditFile, Unmoved, caches, front, request
<1>11. CASE UNCHANGED vars
  BY <1>9, <1>11 DEF vars, caches, front, request
<1> QED BY <1>1, <1>2, <1>3, <1>4, <1>5, <1>6, <1>7, <1>8, <1>10, <1>11 DEF Next

\* For any number of threads, changes of the host and failures: the rows of an
\* answer are one front end's, none is a library's that failed its selftest,
\* and they are in the order of the banners (scan_banners).
THEOREM AnswersFromOneFront == Spec => []BatchFromOneFront
<1>1. Init => BatchInv
  BY BatchInit
<1>2. BatchInv /\ [Next]_vars => BatchInv'
  BY BatchKept
<1>3. BatchInv => BatchFromOneFront
  BY DEF BatchInv, SoFar, OneFront, BatchFromOneFront
<1> QED BY <1>1, <1>2, <1>3, PTL DEF Spec

-----------------------------------------------------------------------------
(***************************************************************************)
(* Labels                                                                  *)
(***************************************************************************)
AtFront == {"front", "hash", "open", "ffi", "process"}

\* What the probes remember: a core that is available is the library, or an
\* executable that has answered.
Probed ==
  /\ ffi \in {"unset", "yes", "no"} /\ available \in {"unset", "yes", "no"} /\ spoke \in BOOLEAN
  /\ available = "yes" => ffi = "yes" \/ (ffi = "no" /\ spoke)

\* A request is at a place of its kind.
AtPlace(t) ==
  /\ pc[t] \in {"health", "selftest"} => kind[t] = "health"
  /\ pc[t] = "arm" => kind[t] = "compare"
  /\ pc[t] \in AtFront \cup {"select", "serve", "served"} =>
       kind[t] \in {"match", "fingerprint", "graph", "batch", "compare"}
  /\ pc[t] \in {"select", "serve"} => kind[t] # "batch"
  /\ kind[t] \in {"match", "fingerprint", "graph", "compare"} => banners[t] = 1

\* The answer is by whom it will be said to be.
TrueName(t, name) ==
  /\ Producer(t) \in MadeBy(Label(name))
  /\ name = "c" => /\ Producer(t) = "ffi" => ffi = "yes"
                   /\ Producer(t) = "process" => ffi = "no" /\ available = "yes"

\* A request, from the choice of the C core to the label.
Named(t) ==
  /\ pc[t] \in AtFront /\ kind[t] # "batch" => Head(order[t]) = "c" /\ available = "yes"
  /\ pc[t] \in {"hash", "open", "ffi"} => ffi = "yes"
  /\ pc[t] = "process" /\ kind[t] # "batch" /\ ~broke[t] => ffi = "no"
  /\ pc[t] = "served" /\ kind[t] # "batch" /\ ~broke[t] => TrueName(t, Head(order[t]))
  /\ Answered(t) /\ ~broke[t] =>
       /\ Producer(t) \in MadeBy(engine[t])
       /\ engine[t] = "c-native" => served[t] = Producer(t)

\* A comparison asks each backend once, and the one that is asked answers.
Compared(t) ==
  /\ todo[t] \in {Preference, <<"rust", "python">>, <<"python">>, <<>>}
  /\ IsFiniteSet(arms[t])
  /\ \A a \in arms[t] : a.name \in {"c", "rust", "python"} /\ \A i \in DOMAIN todo[t] : todo[t][i] # a.name
  /\ \A a, b \in arms[t] : a.name = b.name => a = b
  /\ ~broke[t] => \A a \in arms[t] : a.by \in MadeBy(Label(a.name))
  /\ pc[t] \in AtFront \cup {"select", "serve", "served"} =>
       todo[t] # <<>> /\ (~broke[t] => Head(order[t]) = Head(todo[t]))
  /\ pc[t] = "select" /\ ~broke[t] =>
       (Head(order[t]) = "c" => available = "yes") /\ (Head(order[t]) = "rust" => rust # "none")

LabelTypes ==
  /\ order = [t \in Threads |-> order[t]] /\ engine = [t \in Threads |-> engine[t]]
  /\ served = [t \in Threads |-> served[t]] /\ todo = [t \in Threads |-> todo[t]]
  /\ arms = [t \in Threads |-> arms[t]]

LabelOf(t) == AtPlace(t) /\ Named(t) /\ (kind[t] = "compare" => Compared(t))
LabelInv == LabelTypes /\ Probed /\ \A t \in Threads : LabelOf(t)

\* At first nobody has asked.
LEMMA LabelInit == Init => LabelInv
BY DEF Init, CCoreInit, LabelInv, LabelTypes, Probed, LabelOf, AtPlace, Named, Answered, AtFront

\* A probe fills what is unset and changes nothing else.
LEMMA ProbeStep ==
  ASSUME Probed, UNCHANGED caches \/ ProbeFfi \/ ProbeCore
  PROVE  /\ Probed'
         /\ ffi # "unset" => ffi' = ffi
         /\ available # "unset" => available' = available
BY DEF Probed, caches, ProbeFfi, ProbeCore, FfiNow, AvailableNow, LibraryNow

\* The other requests do not notice a step of one.
LEMMA OtherLabels ==
  ASSUME Probed, UNCHANGED caches \/ ProbeFfi \/ ProbeCore, UNCHANGED rust, NEW u \in Threads, LabelOf(u),
         pc'[u] = pc[u], kind'[u] = kind[u], banners'[u] = banners[u], rows'[u] = rows[u], broke'[u] = broke[u],
         order'[u] = order[u], engine'[u] = engine[u], served'[u] = served[u], todo'[u] = todo[u], arms'[u] = arms[u]
  PROVE  LabelOf(u)'
<1>1. (ffi # "unset" => ffi' = ffi) /\ (available # "unset" => available' = available)
  BY ProbeStep
<1>2. AtPlace(u)'
  BY DEF LabelOf, AtPlace
<1>3. Producer(u)' = Producer(u)
  BY DEF Producer
<1>4. Named(u)'
  BY <1>1, <1>3 DEF LabelOf, Named, TrueName, Answered
<1>5. kind[u] = "compare" => Compared(u)'
  BY <1>1 DEF LabelOf, Compared
<1> QED BY <1>2, <1>4, <1>5 DEF LabelOf

\* A backend that is pinned is asked first.
LEMMA PinnedFirst == ASSUME NEW name \in {"c", "rust", "python"} PROVE Head(Order("match", name)) = name
<1>1. Order("match", name) = <<name>> \o Without(Preference, name)
  BY DEF Order
<1>2. Preference \in Seq({"c", "rust", "python"})
  BY DEF Preference
<1>3. Without(Preference, name) \in Seq({"c", "rust", "python"})
  <2>1. CASE \A i \in DOMAIN Preference : Preference[i] # name
    BY <1>2, <2>1 DEF Without
  <2>2. CASE \E i \in DOMAIN Preference : Preference[i] = name
    <3>1. PICK i \in DOMAIN Preference : Without(Preference, name) = RemoveAt(Preference, i)
      BY <2>2 DEF Without
    <3> QED BY <1>2, <3>1 DEF RemoveAt
  <2> QED BY <2>1, <2>2
<1> QED BY <1>1, <1>3

\* A step of request t, as far as the labels are concerned.
StepOf(t) ==
  /\ UNCHANGED caches \/ ProbeFfi \/ ProbeCore
  /\ UNCHANGED rust
  /\ pc' = [pc EXCEPT ![t] = pc'[t]] /\ kind' = [kind EXCEPT ![t] = kind'[t]]
  /\ banners' = [banners EXCEPT ![t] = banners'[t]] /\ rows' = [rows EXCEPT ![t] = rows'[t]]
  /\ broke' = [broke EXCEPT ![t] = broke'[t]] /\ order' = [order EXCEPT ![t] = order'[t]]
  /\ engine' = [engine EXCEPT ![t] = engine'[t]] /\ served' = [served EXCEPT ![t] = served'[t]]
  /\ todo' = [todo EXCEPT ![t] = todo'[t]] /\ arms' = [arms EXCEPT ![t] = arms'[t]]

LEMMA LabelStep ==
  ASSUME AutomatonTypes, BatchTypes, LabelInv, NEW t \in Threads, StepOf(t), LabelOf(t)'
  PROVE  LabelInv'
<1>1. LabelTypes'
  BY DEF LabelInv, LabelTypes, StepOf
<1>2. Probed'
  BY ProbeStep DEF LabelInv, StepOf
<1>3. ASSUME NEW u \in Threads, u # t PROVE LabelOf(u)'
  <2>1. /\ pc'[u] = pc[u] /\ kind'[u] = kind[u] /\ banners'[u] = banners[u] /\ rows'[u] = rows[u]
        /\ broke'[u] = broke[u]
    BY <1>3 DEF StepOf, AutomatonTypes, BatchTypes
  <2>2. /\ order'[u] = order[u] /\ engine'[u] = engine[u] /\ served'[u] = served[u]
        /\ todo'[u] = todo[u] /\ arms'[u] = arms[u]
    BY <1>3 DEF StepOf, LabelInv, LabelTypes
  <2> QED BY <2>1, <2>2, OtherLabels DEF LabelInv, StepOf
<1> QED BY <1>1, <1>2, <1>3 DEF LabelInv

\* What a step does not change it changes at t into what it was.
LEMMA StaysAt ==
  ASSUME AutomatonTypes, BatchTypes, LabelTypes, NEW t \in Threads
  PROVE  /\ pc = [pc EXCEPT ![t] = pc[t]] /\ kind = [kind EXCEPT ![t] = kind[t]]
         /\ banners = [banners EXCEPT ![t] = banners[t]] /\ rows = [rows EXCEPT ![t] = rows[t]]
         /\ broke = [broke EXCEPT ![t] = broke[t]] /\ order = [order EXCEPT ![t] = order[t]]
         /\ engine = [engine EXCEPT ![t] = engine[t]] /\ served = [served EXCEPT ![t] = served[t]]
         /\ todo = [todo EXCEPT ![t] = todo[t]] /\ arms = [arms EXCEPT ![t] = arms[t]]
<1>1. /\ pc = [pc EXCEPT ![t] = pc[t]] /\ kind = [kind EXCEPT ![t] = kind[t]]
      /\ banners = [banners EXCEPT ![t] = banners[t]] /\ rows = [rows EXCEPT ![t] = rows[t]]
      /\ broke = [broke EXCEPT ![t] = broke[t]]
  BY DEF AutomatonTypes, BatchTypes
<1>2. /\ order = [order EXCEPT ![t] = order[t]] /\ engine = [engine EXCEPT ![t] = engine[t]]
      /\ served = [served EXCEPT ![t] = served[t]] /\ todo = [todo EXCEPT ![t] = todo[t]]
      /\ arms = [arms EXCEPT ![t] = arms[t]]
  BY DEF LabelTypes
<1> QED BY <1>1, <1>2

\* A request begins: it has no label and, of a comparison, no arm.
LEMMA BeginLabel ==
  ASSUME AutomatonInv, BatchInv, LabelInv, NEW t \in Threads, Ask(t) \/ Scan(t) \/ Compare(t) \/ Health(t)
  PROVE  LabelInv'
<1>1. AutomatonTypes /\ BatchTypes /\ LabelTypes
  BY DEF AutomatonInv, BatchInv, LabelInv
<1>2. PICK what \in {"match", "fingerprint", "graph", "batch", "compare", "health"}, n \in Nat, p \in Nat,
           place \in {"select", "front", "arm", "health"} :
        /\ Begin(t, what, n, p) /\ Goto(t, place)
        /\ what \in {"match", "fingerprint", "graph"} => place = "select" /\ n = 1
        /\ what = "batch" => place = "front"
        /\ what = "compare" => place = "arm" /\ n = 1 /\ todo' = [todo EXCEPT ![t] = Preference]
        /\ what = "health" => place = "health"
        /\ what # "compare" => UNCHANGED todo
        /\ order' = order \/ \E o : order' = [order EXCEPT ![t] = o]
  <2>1. calls + 1 \in Nat
    BY <1>1 DEF AutomatonTypes
  <2> QED BY <2>1 DEF Ask, Scan, Compare, Health
<1>3. /\ kind' = [kind EXCEPT ![t] = what] /\ banners' = [banners EXCEPT ![t] = n]
      /\ rows' = [rows EXCEPT ![t] = <<>>] /\ broke' = [broke EXCEPT ![t] = FALSE]
      /\ engine' = [engine EXCEPT ![t] = "none"] /\ served' = [served EXCEPT ![t] = "none"]
      /\ arms' = [arms EXCEPT ![t] = {}] /\ pc' = [pc EXCEPT ![t] = place] /\ UNCHANGED <<caches, rust>>
  BY <1>2 DEF Begin, Goto
<1>4. /\ pc'[t] = place /\ kind'[t] = what /\ banners'[t] = n /\ arms'[t] = {}
      /\ what = "compare" => todo'[t] = Preference
  BY <1>1, <1>2, <1>3 DEF AutomatonTypes, BatchTypes, LabelTypes
<1>5. StepOf(t)
  BY <1>1, <1>2, <1>3 DEF AutomatonTypes, BatchTypes, LabelTypes, StepOf
<1>6. LabelOf(t)'
  <2>1. AtPlace(t)' /\ Named(t)'
    BY <1>2, <1>4 DEF AtPlace, Named, AtFront, Answered
  <2>2. what = "compare" => Compared(t)'
    BY <1>2, <1>4, FS_EmptySet DEF Compared, AtFront
  <2> QED BY <1>4, <2>1, <2>2 DEF LabelOf
<1> QED BY <1>1, <1>5, <1>6, LabelStep

\* The loop over the backends; the one a comparison asks is available.
LEMMA SelectLabel == ASSUME AutomatonInv, BatchInv, LabelInv, NEW t \in Threads, Select(t) PROVE LabelInv'
<1>1. AutomatonTypes /\ BatchTypes /\ LabelTypes /\ Probed /\ LabelOf(t)
  BY DEF AutomatonInv, BatchInv, LabelInv
<1>2. /\ pc[t] = "select" /\ UNCHANGED <<kind, banners, rows, broke, rust, engine, served, todo, arms>>
      /\ UNCHANGED caches \/ ProbeCore
  BY DEF Select, front, request
<1>3. /\ pc' = [pc EXCEPT ![t] = pc'[t]] /\ pc'[t] \in {"front", "serve", "select"}
      /\ order' = [order EXCEPT ![t] = order'[t]]
  BY <1>1 DEF Select, Skip, Goto, AutomatonTypes, LabelTypes
<1>4. StepOf(t)
  BY <1>1, <1>2, <1>3, StaysAt DEF StepOf
<1>5. AtPlace(t)'
  BY <1>1, <1>2, <1>3 DEF LabelOf, AtPlace, AtFront
<1>6. pc'[t] \in {"front", "serve"} => order'[t] = order[t]
  BY <1>1 DEF Select, Skip, Goto, AutomatonTypes
<1>7. pc'[t] = "front" => Head(order[t]) = "c" /\ available' = "yes"
  BY <1>1 DEF Select, Skip, Goto, AutomatonTypes, Available, ProbeCore, AvailableNow, caches
<1>8. Named(t)'
  BY <1>1, <1>2, <1>3, <1>6, <1>7 DEF LabelOf, Named, AtFront, Answered, AtPlace
<1>9. ASSUME kind[t] = "compare" PROVE Compared(t)'
  <2>1. Compared(t)
    BY <1>1, <1>9 DEF LabelOf
  <2>2. ASSUME ~broke[t] PROVE pc'[t] # "select"
    <3>1. todo[t] # <<>> /\ Head(order[t]) = Head(todo[t])
      BY <1>2, <2>1, <2>2 DEF Compared
    <3>2. Head(order[t]) \in {"c", "rust", "python"}
      BY <2>1, <3>1 DEF Compared, Preference
    <3>3. (Head(order[t]) = "c" => available = "yes") /\ (Head(order[t]) = "rust" => rust # "none")
      BY <1>2, <2>1, <2>2 DEF Compared
    <3>4. Available(Head(order[t])) /\ kind[t] \in Capabilities[Head(order[t])]
      BY <1>9, <3>2, <3>3 DEF Available, AvailableNow, Capabilities
    <3> QED BY <1>1, <3>2, <3>4 DEF Select, Goto, AutomatonTypes
  <2> QED BY <1>2, <1>3, <1>6, <2>1, <2>2 DEF Compared, AtFront
<1> QED BY <1>1, <1>2, <1>4, <1>5, <1>8, <1>9, LabelStep DEF LabelOf

\* A backend raises and is passed over; of a comparison, that is a failure.
LEMMA RaisesLabel == ASSUME AutomatonInv, BatchInv, LabelInv, NEW t \in Threads, Raises(t) PROVE LabelInv'
<1>1. AutomatonTypes /\ BatchTypes /\ LabelTypes /\ Probed /\ LabelOf(t)
  BY DEF AutomatonInv, BatchInv, LabelInv
<1>2. /\ pc[t] \in {"serve", "front"} /\ kind[t] # "batch" /\ UNCHANGED <<kind, banners, rows, caches, rust, engine, served, todo, arms>>
      /\ order' = [order EXCEPT ![t] = Tail(@)] /\ pc' = [pc EXCEPT ![t] = "select"]
      /\ IF kind[t] = "compare" THEN broke' = [broke EXCEPT ![t] = TRUE] ELSE broke' = broke
  BY <1>1 DEF Raises, Skip, Goto, Broke, front, request, LabelOf, AtPlace
<1>3. pc'[t] = "select" /\ order'[t] = Tail(order[t]) /\ (kind[t] = "compare" => broke'[t] = TRUE) /\ broke'[t] = (IF kind[t] = "compare" THEN TRUE ELSE broke[t])
  BY <1>1, <1>2 DEF AutomatonTypes, BatchTypes, LabelTypes
<1>4. StepOf(t)
  BY <1>1, <1>2, <1>3, StaysAt DEF StepOf
<1>5. AtPlace(t)' /\ Named(t)'
  BY <1>1, <1>2, <1>3 DEF LabelOf, AtPlace, AtFront, Named, Answered
<1>6. kind[t] = "compare" => Compared(t)'
  BY <1>1, <1>2, <1>3 DEF LabelOf, Compared, AtFront
<1> QED BY <1>1, <1>2, <1>4, <1>5, <1>6, LabelStep DEF LabelOf

\* A step towards the answer of a backend: no label yet, no arm, no other name.
LEMMA TowardsLabel ==
  ASSUME AutomatonInv, BatchInv, LabelInv, NEW t \in Threads,
         pc[t] \in AtFront \cup {"serve"}, pc'[t] \in AtFront \cup {"served"},
         pc[t] = "serve" => pc'[t] = "served", UNCHANGED caches \/ ProbeFfi,
         UNCHANGED <<kind, banners, rust, order, engine, served, todo, arms>>,
         pc' = [pc EXCEPT ![t] = pc'[t]], rows' = [rows EXCEPT ![t] = rows'[t]],
         broke' = [broke EXCEPT ![t] = broke'[t]], broke[t] => broke'[t],
         pc'[t] \in {"hash", "open", "ffi"} => ffi' = "yes",
         pc'[t] = "process" /\ kind[t] # "batch" /\ ~broke'[t] => ffi' = "no",
         pc'[t] = "served" /\ kind[t] # "batch" /\ ~broke'[t] => TrueName(t, Head(order[t]))'
  PROVE  LabelInv'
<1>1. AutomatonTypes /\ BatchTypes /\ LabelTypes /\ Probed /\ LabelOf(t)
  BY DEF AutomatonInv, BatchInv, LabelInv
<1>2. StepOf(t)
  BY <1>1, StaysAt DEF StepOf
<1>3. AtPlace(t)'
  BY <1>1 DEF LabelOf, AtPlace, AtFront
<1>4. available = "yes" => available' = "yes"
  BY <1>1, ProbeStep
<1>5. Named(t)'
  BY <1>1, <1>4 DEF LabelOf, Named, AtFront, Answered
<1>6. kind[t] = "compare" => Compared(t)'
  BY <1>1 DEF LabelOf, Compared, AtFront
<1> QED BY <1>1, <1>2, <1>3, <1>5, <1>6, LabelStep DEF LabelOf

\* The front end is chosen.
LEMMA ChooseLabel ==
  ASSUME AutomatonInv, BatchInv, LabelInv, NEW t \in Threads, ChooseFront(t), UNCHANGED <<rust, dispatch>>
  PROVE  LabelInv'
<1>1. AutomatonTypes /\ BatchTypes /\ LabelTypes /\ Probed /\ LabelOf(t)
  BY DEF AutomatonInv, BatchInv, LabelInv
<1>2. /\ pc[t] = "front" /\ ProbeFfi /\ ffi' = FfiNow
      /\ UNCHANGED <<kind, banners, rows, broke, rust, order, engine, served, todo, arms>>
  BY DEF ChooseFront, ProbeFfi, front, request, dispatch
<1>3. CASE kind[t] = "batch" /\ pc' = [pc EXCEPT ![t] = "done"]
  <2>1. pc'[t] = "done" /\ StepOf(t)
    BY <1>1, <1>2, <1>3, StaysAt DEF StepOf, AutomatonTypes
  <2>2. LabelOf(t)'
    BY <1>1, <1>2, <1>3, <2>1 DEF LabelOf, AtPlace, Named, Answered, AtFront
  <2> QED BY <1>1, <2>1, <2>2, LabelStep
<1>4. CASE pc' # [pc EXCEPT ![t] = "done"] \/ kind[t] # "batch"
  <2>1. PICK place \in {"process", "ffi", "hash"} :
          /\ pc' = [pc EXCEPT ![t] = place]
          /\ IF place = "process" THEN FfiNow # "yes" ELSE FfiNow = "yes"
    BY <1>4 DEF ChooseFront, Goto, UseLibrary
  <2>2. FfiNow \in {"yes", "no"} /\ pc'[t] = place
    BY <1>1, <2>1 DEF Probed, FfiNow, AutomatonTypes
  <2>3. rows' = [rows EXCEPT ![t] = rows'[t]] /\ broke' = [broke EXCEPT ![t] = broke'[t]]
    BY <1>1, <1>2, StaysAt
  <2> QED BY <1>2, <2>1, <2>2, <2>3, TowardsLabel DEF AtFront
<1> QED BY <1>3, <1>4

\* An automaton is at hand, or the call has failed: its own file is there.
LEMMA OpenLabel ==
  ASSUME AutomatonInv, BatchInv, LabelInv, NEW t \in Threads,
         ReadStamp(t) \/ ReuseHandle(t) \/ OpenHandle(t) \/ FfiFails(t), UNCHANGED <<rust, dispatch>>
  PROVE  LabelInv'
<1>1. AutomatonTypes /\ BatchTypes /\ LabelTypes /\ LabelOf(t)
  BY DEF AutomatonInv, BatchInv, LabelInv
<1>2. /\ pc[t] \in {"hash", "open", "ffi"} /\ UNCHANGED <<kind, banners, caches, ffi, rust, order, engine, served, todo, arms>>
      /\ ffi = "yes"
  BY <1>1 DEF ReadStamp, ReuseHandle, OpenHandle, FfiFails, request, dispatch, caches, LabelOf, Named
<1>3. pc[t] = "hash" => Version(t) # 0 \/ kind[t] = "batch"
  BY DEF AutomatonInv, AtCore, Alone, Live, Version
<1>4. PICK place \in {"open", "ffi", "process"} : pc' = [pc EXCEPT ![t] = place]
  BY DEF ReadStamp, ReuseHandle, OpenHandle, FfiFails, Goto
<1>5. broke' = broke \/ broke' = [broke EXCEPT ![t] = TRUE]
  BY DEF ReadStamp, ReuseHandle, OpenHandle, FfiFails, Broke
<1>6. rows' = rows \/ rows' = [rows EXCEPT ![t] = KeptRows(t)]
  BY DEF ReadStamp, ReuseHandle, OpenHandle, FfiFails, Answer
<1>7. pc'[t] = place /\ (broke'[t] = broke[t] \/ broke'[t])
  BY <1>1, <1>4, <1>5 DEF AutomatonTypes, BatchTypes
<1>8. /\ pc' = [pc EXCEPT ![t] = pc'[t]] /\ rows' = [rows EXCEPT ![t] = rows'[t]]
      /\ broke' = [broke EXCEPT ![t] = broke'[t]]
  BY <1>1, <1>4, <1>5, <1>6, StaysAt DEF AutomatonTypes, BatchTypes
<1>9. place = "process" => broke'[t] \/ kind[t] = "batch"
  BY <1>1, <1>3, <1>7 DEF ReadStamp, ReuseHandle, OpenHandle, FfiFails, Goto, Broke, AutomatonTypes, BatchTypes
<1> QED BY <1>2, <1>7, <1>8, <1>9, TowardsLabel DEF AtFront

\* The first row of an answer of the library is the library's.
LEMMA FfiProducer ==
  ASSUME NEW some \in RowsBy("ffi")
  PROVE  LET answer == Append(some, Row("ffi", Len(some) + 1)) IN answer # <<>> /\ answer[1].by = "ffi"
<1> DEFINE answer == Append(some, Row("ffi", Len(some) + 1))
<1>1. Len(some) \in Nat /\ Row("ffi", Len(some) + 1) \in RowOf("ffi")
  BY DEF RowsBy, RowOf, Row
<1>2. answer \in RowsBy("ffi") /\ Len(answer) = Len(some) + 1
  BY <1>1 DEF RowsBy
<1>3. answer[1] \in RowOf("ffi")
  BY <1>1, <1>2 DEF RowsBy
<1>4. answer[1].by = "ffi"
  BY <1>3 DEF RowOf
<1>5. answer # <<>>
  BY <1>1, <1>2 DEF RowsBy
<1> QED BY <1>4, <1>5

\* The library answers under the name it will have.
LEMMA FfiLabel ==
  ASSUME AutomatonInv, BatchInv, LabelInv, NEW t \in Threads, FfiAnswers(t), UNCHANGED <<rust, dispatch>>
  PROVE  LabelInv'
<1> DEFINE answer == Append(rows[t], Row("ffi", Len(rows[t]) + 1))
<1>1. AutomatonTypes /\ BatchTypes /\ LabelTypes /\ LabelOf(t)
  BY DEF AutomatonInv, BatchInv, LabelInv
<1>2. /\ pc[t] = "ffi" /\ ffi = "yes" /\ rows' = [rows EXCEPT ![t] = answer]
      /\ UNCHANGED <<kind, banners, broke, caches, ffi, rust, order, engine, served, todo, arms>>
  BY <1>1 DEF FfiAnswers, Answer, caches, request, dispatch, LabelOf, Named
<1>3. PICK place \in {"ffi", "served"} : pc' = [pc EXCEPT ![t] = place]
  BY DEF FfiAnswers, Goto
<1>4. rows[t] \in RowsBy("ffi")
  BY <1>2 DEF BatchInv, SoFar
<1>5. answer # <<>> /\ answer[1].by = "ffi"
  BY <1>4, FfiProducer
<1> HIDE DEF answer
<1>6. rows'[t] = answer /\ pc'[t] = place
  BY <1>1, <1>2, <1>3 DEF AutomatonTypes, BatchTypes
<1>7. Producer(t)' = "ffi"
  BY <1>5, <1>6 DEF Producer
<1>8. kind[t] # "batch" => TrueName(t, Head(order[t]))'
  BY <1>1, <1>2, <1>7 DEF LabelOf, Named, AtFront, TrueName, MadeBy, Label
<1>9. broke' = [broke EXCEPT ![t] = broke'[t]] /\ broke'[t] = broke[t]
  BY <1>1, <1>2, StaysAt
<1> QED BY <1>2, <1>3, <1>6, <1>8, <1>9, TowardsLabel DEF AtFront

\* The one row of an answer of one row.
LEMMA OneRow == ASSUME NEW by PROVE AllBy(by, 1) # <<>> /\ AllBy(by, 1)[1].by = by
<1>1. 1 \in DOMAIN AllBy(by, 1) /\ AllBy(by, 1)[1] = Row(by, 1)
  BY DEF AllBy
<1>2. AllBy(by, 1) # <<>>
  BY <1>1
<1> QED BY <1>1, <1>2 DEF Row

\* The executable answers under the name it will have; Python answers for it
\* only if it has never answered itself, and then the core is not available.
LEMMA ProcessLabel ==
  ASSUME AutomatonInv, BatchInv, LabelInv, NEW t \in Threads, ProcessAnswers(t) \/ PythonAnswers(t),
         UNCHANGED <<rust, dispatch>>
  PROVE  LabelInv'
<1>1. AutomatonTypes /\ BatchTypes /\ LabelTypes /\ Probed /\ LabelOf(t)
  BY DEF AutomatonInv, BatchInv, LabelInv
<1>2. /\ pc[t] = "process" /\ pc' = [pc EXCEPT ![t] = "served"]
      /\ UNCHANGED <<kind, banners, caches, ffi, available, rust, order, engine, served, todo, arms>>
  BY DEF ProcessAnswers, PythonAnswers, Goto, caches, request, dispatch
<1>3. broke' = broke \/ broke' = [broke EXCEPT ![t] = TRUE]
  BY DEF ProcessAnswers, PythonAnswers, Broke
<1>4. PICK answer : rows' = [rows EXCEPT ![t] = answer]
  BY DEF ProcessAnswers, PythonAnswers, Answer
<1>5. /\ rows' = [rows EXCEPT ![t] = rows'[t]] /\ broke' = [broke EXCEPT ![t] = broke'[t]]
      /\ broke'[t] = broke[t] \/ broke'[t]
      /\ pc' = [pc EXCEPT ![t] = pc'[t]] /\ pc'[t] = "served"
  BY <1>1, <1>2, <1>3, <1>4, StaysAt DEF AutomatonTypes, BatchTypes
<1>6. ASSUME kind[t] # "batch", ~broke'[t] PROVE TrueName(t, Head(order[t]))'
  <2>1. Head(order[t]) = "c" /\ available = "yes" /\ ffi = "no" /\ spoke
    BY <1>1, <1>2, <1>5, <1>6 DEF LabelOf, Named, AtFront, Probed
  <2>2. broke' # [broke EXCEPT ![t] = TRUE]
    BY <1>1, <1>6 DEF BatchTypes
  <2>3. rows' = [rows EXCEPT ![t] = rows[t] \o Remaining(t, "process")]
    BY <2>1, <2>2 DEF ProcessAnswers, PythonAnswers, Answer, Broke
  <2>4. rows[t] = <<>> /\ banners[t] = 1
    BY <1>1, <1>2, <1>6 DEF BatchInv, SoFar, Before, LabelOf, AtPlace, AtFront, AutomatonTypes
  <2>5. Remaining(t, "process") = AllBy("process", 1)
    BY <2>4 DEF Remaining, AllBy
  <2>6. AllBy("process", 1) \in RowsBy("process")
    BY AllByRows
  <2>7. rows'[t] = AllBy("process", 1)
    BY <1>1, <2>3, <2>4, <2>5, <2>6 DEF BatchTypes, RowsBy
  <2>8. Producer(t)' = "process"
    BY <2>7, OneRow DEF Producer
  <2> QED BY <1>2, <2>1, <2>8 DEF TrueName, MadeBy, Label
<1> QED BY <1>2, <1>5, <1>6, TowardsLabel DEF AtFront

\* Rust and the code in Python answer under their names.
LEMMA ServeLabel ==
  ASSUME AutomatonInv, BatchInv, LabelInv, NEW t \in Threads,
         RustAnswers(t) \/ RustSaysNothing(t) \/ PythonServes(t)
  PROVE  LabelInv'
<1>1. AutomatonTypes /\ BatchTypes /\ LabelTypes /\ Probed /\ LabelOf(t)
  BY DEF AutomatonInv, BatchInv, LabelInv
<1>2. /\ pc[t] = "serve" /\ pc' = [pc EXCEPT ![t] = "served"]
      /\ UNCHANGED <<kind, banners, caches, rust, order, engine, served, todo, arms>>
  BY DEF RustAnswers, RustSaysNothing, PythonServes, Served, Goto, request, dispatch
<1>3. PICK by \in {"rust", "nobody", "python"} :
        /\ rows' = [rows EXCEPT ![t] = AllBy(by, 1)]
        /\ IF by = "nobody" THEN broke' = [broke EXCEPT ![t] = TRUE] ELSE broke' = broke /\ Head(order[t]) = by
  BY DEF RustAnswers, RustSaysNothing, PythonServes, Answer, Broke
<1>4. /\ rows' = [rows EXCEPT ![t] = rows'[t]] /\ broke' = [broke EXCEPT ![t] = broke'[t]]
      /\ broke'[t] = (IF by = "nobody" THEN TRUE ELSE broke[t]) /\ rows'[t] = AllBy(by, 1)
      /\ pc' = [pc EXCEPT ![t] = pc'[t]] /\ pc'[t] = "served"
  <2>1. broke'[t] = (IF by = "nobody" THEN TRUE ELSE broke[t]) /\ rows'[t] = AllBy(by, 1) /\ pc'[t] = "served"
    BY <1>1, <1>2, <1>3 DEF AutomatonTypes, BatchTypes
  <2> QED BY <1>1, <1>2, <1>3, <2>1, StaysAt
<1>5. ASSUME ~broke'[t] PROVE TrueName(t, Head(order[t]))'
  <2>1. Producer(t)' = by
    BY <1>4, OneRow DEF Producer
  <2> QED BY <1>2, <1>3, <1>4, <1>5, <2>1 DEF TrueName, MadeBy, Label
<1> QED BY <1>2, <1>4, <1>5, TowardsLabel DEF AtFront

\* The answer gets the name of the backend the loop is at, and a comparison
\* goes on to the next.
LEMMA FinishLabel == ASSUME AutomatonInv, BatchInv, LabelInv, NEW t \in Threads, Finish(t) PROVE LabelInv'
<1>1. AutomatonTypes /\ BatchTypes /\ LabelTypes /\ Probed /\ LabelOf(t)
  BY DEF AutomatonInv, BatchInv, LabelInv
<1>2. /\ pc[t] = "served" /\ UNCHANGED <<kind, banners, rows, broke, caches, rust>>
      /\ order' = [order EXCEPT ![t] = <<>>]
  BY DEF Finish, request
<1>3. /\ engine' = engine \/ engine' = [engine EXCEPT ![t] = Label(Head(order[t]))]
      /\ served' = served \/ \E s : served' = [served EXCEPT ![t] = s]
      /\ todo' = todo \/ todo' = [todo EXCEPT ![t] = Tail(@)]
      /\ arms' = arms \/ arms' = [arms EXCEPT ![t] = @ \cup {[name |-> Head(todo[t]), by |-> Producer(t)]}]
      /\ pc' = [pc EXCEPT ![t] = IF kind[t] = "compare" THEN "arm" ELSE "done"]
  BY DEF Finish, Goto
<1>4. pc'[t] = IF kind[t] = "compare" THEN "arm" ELSE "done"
  BY <1>1, <1>3 DEF AutomatonTypes
<1>5. StepOf(t)
  <2>1. order' = [order EXCEPT ![t] = order'[t]] /\ pc' = [pc EXCEPT ![t] = pc'[t]]
    BY <1>1, <1>2, <1>3 DEF LabelTypes, AutomatonTypes
  <2>2. /\ engine' = [engine EXCEPT ![t] = engine'[t]] /\ served' = [served EXCEPT ![t] = served'[t]]
    BY <1>1, <1>3, StaysAt DEF LabelTypes
  <2>3. /\ todo' = [todo EXCEPT ![t] = todo'[t]] /\ arms' = [arms EXCEPT ![t] = arms'[t]]
    BY <1>1, <1>3, StaysAt DEF LabelTypes
  <2> QED BY <1>1, <1>2, <2>1, <2>2, <2>3, StaysAt DEF StepOf
<1>6. AtPlace(t)'
  BY <1>1, <1>2, <1>4 DEF LabelOf, AtPlace, AtFront
<1>7. Named(t)'
  <2>1. ASSUME Answered(t)', ~broke'[t]
        PROVE  /\ Producer(t)' \in MadeBy(engine'[t])
               /\ engine'[t] = "c-native" => served'[t] = Producer(t)'
    <3>1. TrueName(t, Head(order[t])) /\ kind[t] # "batch"
      BY <1>1, <1>2, <2>1 DEF LabelOf, Named, Answered
    <3>2. engine'[t] = Label(Head(order[t])) /\ (Head(order[t]) = "c" => served'[t] = NativePath)
      BY <1>1, <3>1 DEF Finish, LabelTypes
    <3>3. Producer(t)' = Producer(t)
      BY <1>2 DEF Producer
    <3>4. Label(Head(order[t])) = "c-native" => Head(order[t]) = "c"
      BY DEF Label
    <3>5. Head(order[t]) = "c" => Producer(t) = NativePath
      BY <3>1 DEF TrueName, MadeBy, Label, NativePath
    <3> QED BY <3>1, <3>2, <3>3, <3>4, <3>5 DEF TrueName
  <2> QED BY <1>4, <2>1 DEF Named, AtFront
<1>8. ASSUME kind[t] = "compare" PROVE Compared(t)'
  <2>1. Compared(t)
    BY <1>1, <1>8 DEF LabelOf
  <2> DEFINE new == [name |-> Head(todo[t]), by |-> Producer(t)]
  <2>2. /\ todo'[t] = Tail(todo[t]) /\ arms'[t] = arms[t] \cup {new} /\ pc'[t] = "arm"
    BY <1>1, <1>4, <1>8 DEF Finish, LabelTypes
  <2>3. todo[t] # <<>>
    BY <1>2, <2>1 DEF Compared
  <2>4. /\ todo'[t] \in {<<"rust", "python">>, <<"python">>, <<>>}
        /\ Head(todo[t]) \in {"c", "rust", "python"}
        /\ \A i \in DOMAIN todo'[t] : todo'[t][i] # Head(todo[t])
        /\ \A i \in DOMAIN todo'[t] : \E j \in DOMAIN todo[t] : todo'[t][i] = todo[t][j]
        /\ \E j \in DOMAIN todo[t] : Head(todo[t]) = todo[t][j]
    <3>1. todo[t] \in {<<"c", "rust", "python">>, <<"rust", "python">>, <<"python">>}
      BY <2>1, <2>3 DEF Compared, Preference
    <3>2. CASE todo[t] = <<"c", "rust", "python">>
      BY <2>2, <3>2
    <3>3. CASE todo[t] = <<"rust", "python">>
      BY <2>2, <3>3
    <3>4. CASE todo[t] = <<"python">>
      BY <2>2, <3>4
    <3> QED BY <3>1, <3>2, <3>3, <3>4
  <2>5. IsFiniteSet(arms'[t])
    <3>1. IsFiniteSet(arms[t])
      BY <2>1 DEF Compared
    <3> HIDE DEF new
    <3> QED BY <2>2, <3>1, FS_AddElement
  <2>6. \A a \in arms'[t] : a.name \in {"c", "rust", "python"} /\ \A i \in DOMAIN todo'[t] : todo'[t][i] # a.name
    BY <2>1, <2>2, <2>4 DEF Compared
  <2>7. \A a \in arms[t] : a.name # Head(todo[t])
    BY <2>1, <2>4 DEF Compared
  <2>8. \A a, b \in arms'[t] : a.name = b.name => a = b
    BY <2>1, <2>2, <2>7 DEF Compared
  <2>9. ASSUME ~broke'[t] PROVE \A a \in arms'[t] : a.by \in MadeBy(Label(a.name))
    <3>1. ~broke[t] /\ TrueName(t, Head(order[t])) /\ Head(order[t]) = Head(todo[t])
      BY <1>1, <1>2, <1>8, <2>1, <2>9 DEF LabelOf, Named, Compared
    <3>2. new.by \in MadeBy(Label(new.name))
      BY <3>1 DEF TrueName
    <3> QED BY <2>1, <2>2, <3>1, <3>2 DEF Compared
  <2> QED BY <2>2, <2>4, <2>5, <2>6, <2>8, <2>9 DEF Compared, AtFront
<1> QED BY <1>1, <1>2, <1>5, <1>6, <1>7, <1>8, LabelStep DEF LabelOf

\* A comparison goes to a backend that is available, or passes it over.
LEMMA ArmLabel == ASSUME AutomatonInv, BatchInv, LabelInv, NEW t \in Threads, NextArm(t) PROVE LabelInv'
<1>1. AutomatonTypes /\ BatchTypes /\ LabelTypes /\ Probed /\ LabelOf(t)
  BY DEF AutomatonInv, BatchInv, LabelInv
<1>2. /\ pc[t] = "arm" /\ todo[t] # <<>> /\ UNCHANGED <<kind, banners, broke, rust, engine, served, arms>>
      /\ UNCHANGED caches \/ ProbeCore
  BY DEF NextArm, request
<1>3. kind[t] = "compare" /\ Compared(t) /\ AtPlace(t)
  BY <1>1, <1>2 DEF LabelOf, AtPlace
<1>4. todo[t] \in {<<"c", "rust", "python">>, <<"rust", "python">>, <<"python">>}
  BY <1>2, <1>3 DEF Compared, Preference
<1>5. CASE Available(Head(todo[t]))
  <2>1. /\ order' = [order EXCEPT ![t] = Order("match", Head(todo[t]))] /\ pc' = [pc EXCEPT ![t] = "select"]
        /\ rows' = [rows EXCEPT ![t] = <<>>] /\ UNCHANGED todo
    BY <1>5 DEF NextArm, Goto
  <2>2. Head(todo[t]) \in {"c", "rust", "python"}
    BY <1>4
  <2>3. pc'[t] = "select" /\ order'[t] = Order("match", Head(todo[t])) /\ Head(order'[t]) = Head(todo[t])
    BY <1>1, <2>1, <2>2, PinnedFirst DEF AutomatonTypes, LabelTypes
  <2>4. StepOf(t)
    <3>1. /\ pc' = [pc EXCEPT ![t] = pc'[t]] /\ order' = [order EXCEPT ![t] = order'[t]]
          /\ rows' = [rows EXCEPT ![t] = rows'[t]]
      BY <1>1, <2>1 DEF AutomatonTypes, BatchTypes, LabelTypes
    <3> QED BY <1>1, <1>2, <2>1, <3>1, StaysAt DEF StepOf
  <2>5. Head(todo[t]) = "c" => available' = "yes"
    BY <1>5 DEF NextArm, Available, ProbeCore, AvailableNow, caches
  <2>6. Head(todo[t]) = "rust" => rust # "none"
    BY <1>5 DEF Available
  <2>7. AtPlace(t)' /\ Named(t)'
    BY <1>2, <1>3, <2>3 DEF AtPlace, Named, AtFront, Answered
  <2>8. Compared(t)'
    BY <1>2, <1>3, <2>1, <2>3, <2>5, <2>6 DEF Compared, AtFront
  <2> QED BY <1>1, <2>4, <2>7, <2>8, LabelStep DEF LabelOf
<1>6. CASE ~Available(Head(todo[t]))
  <2>1. todo' = [todo EXCEPT ![t] = Tail(@)] /\ UNCHANGED <<pc, order, rows>>
    BY <1>6 DEF NextArm
  <2>2. todo'[t] = Tail(todo[t]) /\ todo' = [todo EXCEPT ![t] = todo'[t]]
    BY <1>1, <2>1 DEF LabelTypes
  <2>3. StepOf(t)
    BY <1>1, <1>2, <2>1, <2>2, StaysAt DEF StepOf
  <2>4. AtPlace(t)' /\ Named(t)'
    BY <1>2, <1>3, <2>1 DEF AtPlace, Named, AtFront, Answered
  <2>5. /\ todo'[t] \in {<<"rust", "python">>, <<"python">>, <<>>}
        /\ \A i \in DOMAIN todo'[t] : \E j \in DOMAIN todo[t] : todo'[t][i] = todo[t][j]
    <3>1. CASE todo[t] = <<"c", "rust", "python">>
      BY <2>2, <3>1
    <3>2. CASE todo[t] = <<"rust", "python">>
      BY <2>2, <3>2
    <3>3. CASE todo[t] = <<"python">>
      BY <2>2, <3>3
    <3> QED BY <1>4, <3>1, <3>2, <3>3
  <2>6. Compared(t)'
    BY <1>2, <1>3, <2>1, <2>5 DEF Compared, AtFront
  <2> QED BY <1>1, <2>3, <2>4, <2>6, LabelStep DEF LabelOf
<1> QED BY <1>5, <1>6

\* The steps of the health report and the end of a comparison.
LEMMA RestLabel ==
  ASSUME AutomatonInv, BatchInv, LabelInv, NEW t \in Threads, EndCompare(t) \/ CheckC(t) \/ RunSelftest(t)
  PROVE  LabelInv'
<1>1. AutomatonTypes /\ BatchTypes /\ LabelTypes /\ LabelOf(t)
  BY DEF AutomatonInv, BatchInv, LabelInv
<1>2. /\ pc[t] \in {"arm", "health", "selftest"}
      /\ UNCHANGED caches \/ ProbeCore
      /\ UNCHANGED <<kind, banners, rows, broke, rust, order, engine, served, todo, arms>>
  BY DEF EndCompare, CheckC, RunSelftest, front, request, dispatch
<1>3. PICK place \in {"done", "selftest"} :
        pc' = [pc EXCEPT ![t] = place] /\ (place = "selftest" => pc[t] = "health")
  BY DEF EndCompare, CheckC, RunSelftest, Goto
<1>4. pc'[t] = place /\ StepOf(t)
  BY <1>1, <1>2, <1>3, StaysAt DEF StepOf, AutomatonTypes
<1>5. kind[t] \in {"compare", "health"} /\ (place = "selftest" => kind[t] = "health")
  BY <1>1, <1>2, <1>3 DEF LabelOf, AtPlace
<1>6. AtPlace(t)' /\ Named(t)'
  BY <1>1, <1>2, <1>3, <1>4, <1>5 DEF LabelOf, AtPlace, Named, AtFront, Answered
<1>7. kind[t] = "compare" => Compared(t)'
  BY <1>1, <1>2, <1>3, <1>4 DEF LabelOf, Compared, AtFront
<1> QED BY <1>1, <1>2, <1>4, <1>6, <1>7, LabelStep DEF LabelOf

\* Every step keeps the invariant.
LEMMA LabelKept == ASSUME AutomatonInv, BatchInv, LabelInv, [Next]_vars PROVE LabelInv'
<1>1. ASSUME NEW t \in Threads, FrontStep(t), UNCHANGED <<rust, dispatch>> PROVE LabelInv'
  BY <1>1, ChooseLabel, OpenLabel, FfiLabel, ProcessLabel DEF FrontStep
<1>2. ASSUME UNCHANGED <<pc, kind, banners, rows, broke, caches, rust, dispatch>> PROVE LabelInv'
  BY <1>2 DEF LabelInv, LabelTypes, Probed, LabelOf, AtPlace, Named, Compared, TrueName, Answered, Producer, caches, dispatch
<1>3. CASE (HostChanges \/ EditFile) /\ UNCHANGED <<rust, dispatch>>
  BY <1>2, <1>3 DEF HostChanges, EditFile, Unmoved, front, request
<1>4. CASE UNCHANGED vars
  BY <1>2, <1>4 DEF vars, front, request
<1> QED BY <1>1, <1>3, <1>4, BeginLabel, SelectLabel, RaisesLabel, ServeLabel, FinishLabel, ArmLabel, RestLabel DEF Next

\* Two arms are two backends, and so are two implementations.
LEMMA TwoBackends ==
  ASSUME NEW S, IsFiniteSet(S), Cardinality(S) >= 2,
         \A a \in S : a.name \in {"c", "rust", "python"} /\ a.by \in MadeBy(Label(a.name)),
         \A a, b \in S : a.name = b.name => a = b
  PROVE  Cardinality({a.by : a \in S}) >= 2
<1> DEFINE B == {a.by : a \in S}
<1>1. PICK a \in S, b \in S : a # b
  <2>1. S # {}
    BY FS_EmptySet
  <2>2. PICK a \in S : TRUE
    BY <2>1
  <2>3. CASE \A b \in S : b = a
    <3>1. S = {a}
      BY <2>2, <2>3
    <3> QED BY <3>1, FS_Singleton
  <2> QED BY <2>2, <2>3
<1>2. a.by # b.by
  BY <1>1 DEF MadeBy, Label
<1>3. IsFiniteSet(B) /\ a.by \in B /\ b.by \in B
  <2> DEFINE by == [x \in S |-> x.by]
  <2>1. by \in Surjection(S, B)
    BY DEF Surjection
  <2> QED BY <2>1, FS_Surjection
<1>4. IsFiniteSet({a.by, b.by}) /\ Cardinality({a.by, b.by}) = 2
  <2>1. IsFiniteSet({a.by}) /\ Cardinality({a.by}) = 1
    BY FS_Singleton
  <2>2. {a.by} \cup {b.by} = {a.by, b.by}
    OBVIOUS
  <2>3. b.by \notin {a.by}
    BY <1>2
  <2>4. IsFiniteSet({a.by} \cup {b.by}) /\ Cardinality({a.by} \cup {b.by}) = Cardinality({a.by}) + 1
    BY <2>1, <2>3, FS_AddElement
  <2> QED BY <2>1, <2>2, <2>4
<1>5. {a.by, b.by} \subseteq B
  BY <1>3
<1> HIDE DEF B
<1>6. Cardinality({a.by, b.by}) <= Cardinality(B)
  BY <1>3, <1>5, FS_Subset
<1> QED BY <1>3, <1>4, <1>6, FS_CardinalityType DEF B

\* For any number of threads, calls, changes of the host and failures: an
\* answer is labelled with the backend and the front end that made it, and a
\* corroborated comparison has compared two implementations, unless a core that
\* had passed its probe gave this call no answer (match_signatures,
\* native_path, compare_backends).
THEOREM LabelsAreTrue == Spec => []LabelTrueUnlessCoreBroke
<1>1. Init => AutomatonInv /\ BatchInv /\ LabelInv
  BY AutomatonInit, BatchInit, LabelInit
<1>2. AutomatonInv /\ BatchInv /\ LabelInv /\ [Next]_vars => (AutomatonInv /\ BatchInv /\ LabelInv)'
  BY AutomatonKept, BatchKept, LabelKept
<1>3. LabelInv => LabelTrueUnlessCoreBroke
  <2> SUFFICES ASSUME LabelInv, NEW t \in Threads, ~broke[t]
               PROVE  /\ Answered(t) => /\ Producer(t) \in MadeBy(engine[t])
                                        /\ engine[t] = "c-native" => served[t] = Producer(t)
                      /\ pc[t] = "done" /\ kind[t] = "compare" /\ Corroborated(t) =>
                           Cardinality({a.by : a \in arms[t]}) >= 2
    BY DEF LabelTrueUnlessCoreBroke
  <2>1. LabelOf(t)
    BY DEF LabelInv
  <2>2. kind[t] = "compare" /\ Corroborated(t) => Cardinality({a.by : a \in arms[t]}) >= 2
    BY <2>1, TwoBackends DEF LabelOf, Compared, Corroborated
  <2> QED BY <2>1, <2>2 DEF LabelOf, Named
<1> QED BY <1>1, <1>2, <1>3, PTL DEF Spec

-----------------------------------------------------------------------------
(***************************************************************************)
(* Health                                                                  *)
(***************************************************************************)
\* The answers of the C core are its own, on this host.
Sound == lib = "good" \/ exe \in {"flawed", "good"}

\* The C core passes its selftest.
Healthy == lib = "good" \/ exe = "good"

\* Nothing has changed or failed.
Quiet == changes = 0 /\ faults = 0

HealthTypes == verdict = [t \in Threads |-> verdict[t]] /\ changes \in Nat /\ faults \in Nat

\* What is remembered is how the host is.
Remembers ==
  /\ library # "unset" => library = IF lib \in {"failing", "good"} THEN lib ELSE "none"
  /\ ffi # "unset" => (ffi = "yes" <=> lib = "good")
  /\ available # "unset" => (available = "yes" <=> lib = "good" \/ exe \in {"wrong", "flawed", "good"})

\* The answer is the core's own exactly on a sound host, and the library's only if
\* that is sound.
OwnIfSound(t) == (Producer(t) \in {"ffi", "process"} <=> Sound) /\ (Producer(t) = "ffi" => lib = "good")

HealthOf(t) ==
  /\ pc[t] = "selftest" => available = "yes"
  /\ pc[t] = "process" /\ kind[t] # "batch" => ffi = "no"
  /\ pc[t] = "served" /\ kind[t] # "batch" /\ Head(order[t]) = "c" => OwnIfSound(t)
  /\ Answered(t) /\ engine[t] = "c-native" => OwnIfSound(t)
  /\ pc[t] = "done" /\ kind[t] = "health" =>
       (verdict[t] = "ok" <=> Healthy) /\ (Sound /\ ~Healthy => verdict[t] = "failed")

HealthInv == HealthTypes /\ (Quiet => Remembers /\ \A t \in Threads : HealthOf(t))

\* At first nothing is remembered.
LEMMA HealthInit == Init => HealthInv
BY DEF Init, CCoreInit, HealthInv, HealthTypes, Quiet, Remembers, HealthOf, Answered

\* A step of request t on a host that stays as it is.
QuietStep(t) ==
  /\ UNCHANGED <<lib, exe, faults, changes>>
  /\ UNCHANGED caches \/ ProbeFfi \/ ProbeCore
  /\ \A u \in Threads \ {t} :
       /\ pc'[u] = pc[u] /\ kind'[u] = kind[u] /\ rows'[u] = rows[u]
       /\ order'[u] = order[u] /\ engine'[u] = engine[u] /\ verdict'[u] = verdict[u]

LEMMA HealthStep ==
  ASSUME LabelInv, HealthInv, HealthTypes', NEW t \in Threads, QuietStep(t),
         Quiet /\ Remembers /\ HealthOf(t) => HealthOf(t)'
  PROVE  HealthInv'
<1> SUFFICES ASSUME Quiet PROVE Remembers' /\ \A u \in Threads : HealthOf(u)'
  BY DEF HealthInv, Quiet, QuietStep
<1>1. Remembers /\ \A u \in Threads : HealthOf(u)
  BY DEF HealthInv
<1>2. Probed /\ UNCHANGED <<lib, exe>>
  BY DEF LabelInv, QuietStep
<1>3. (ffi # "unset" => ffi' = ffi) /\ (available # "unset" => available' = available)
  BY <1>2, ProbeStep DEF QuietStep
<1>4. Remembers'
  BY <1>1, <1>2 DEF Remembers, QuietStep, Probed, ProbeFfi, ProbeCore, FfiNow, AvailableNow, Speaks, LibraryNow, caches
<1>5. ASSUME NEW u \in Threads, u # t PROVE HealthOf(u)'
  <2>1. /\ pc'[u] = pc[u] /\ kind'[u] = kind[u] /\ rows'[u] = rows[u]
        /\ order'[u] = order[u] /\ engine'[u] = engine[u] /\ verdict'[u] = verdict[u]
    BY <1>5 DEF QuietStep
  <2>2. OwnIfSound(u)' = OwnIfSound(u) /\ Sound' = Sound /\ Healthy' = Healthy /\ Answered(u)' = Answered(u)
    BY <1>2, <2>1 DEF OwnIfSound, Sound, Healthy, Producer, Answered
  <2> QED BY <1>1, <1>3, <2>1, <2>2 DEF HealthOf
<1> QED BY <1>1, <1>4, <1>5

\* A step on the way to an answer: no verdict, no label.
LEMMA OnTheWay ==
  ASSUME AutomatonInv, BatchInv, LabelInv, HealthInv, NEW t \in Threads,
         UNCHANGED <<lib, exe, faults, changes, kind, engine, verdict>>,
         UNCHANGED caches \/ ProbeFfi \/ ProbeCore,
         pc' = [pc EXCEPT ![t] = pc'[t]], rows' = [rows EXCEPT ![t] = rows'[t]], order' = [order EXCEPT ![t] = order'[t]],
         pc'[t] \in Places \ {"selftest"}, pc'[t] = "done" => kind[t] \in {"batch", "compare"},
         Quiet /\ Remembers /\ HealthOf(t) =>
           /\ pc'[t] = "process" /\ kind[t] # "batch" => ffi' = "no"
           /\ pc'[t] = "served" /\ kind[t] # "batch" /\ Head(order'[t]) = "c" => OwnIfSound(t)'
  PROVE  HealthInv'
<1>1. AutomatonTypes /\ BatchTypes /\ LabelTypes /\ HealthTypes
  BY DEF AutomatonInv, BatchInv, LabelInv, HealthInv
<1>2. HealthTypes'
  BY <1>1 DEF HealthTypes
<1>3. QuietStep(t)
  BY <1>1 DEF QuietStep, AutomatonTypes, BatchTypes, LabelTypes
<1>4. Quiet /\ Remembers /\ HealthOf(t) => HealthOf(t)'
  BY DEF HealthOf, Answered, Places
<1> QED BY <1>2, <1>3, <1>4, HealthStep

\* A request begins.
LEMMA BeginHealth ==
  ASSUME AutomatonInv, BatchInv, LabelInv, HealthInv, NEW t \in Threads, Ask(t) \/ Scan(t) \/ Compare(t) \/ Health(t)
  PROVE  HealthInv'
<1>1. AutomatonTypes /\ BatchTypes /\ LabelTypes /\ HealthTypes
  BY DEF AutomatonInv, BatchInv, LabelInv, HealthInv
<1>2. PICK what \in {"match", "fingerprint", "graph", "batch", "compare", "health"},
           n \in {0, 1, 2}, p \in {0, calls + 1}, place \in {"select", "front", "arm", "health"} :
        /\ Begin(t, what, n, p) /\ Goto(t, place)
        /\ order' = order \/ \E o : order' = [order EXCEPT ![t] = o]
  BY DEF Ask, Scan, Compare, Health
<1>3. /\ kind' = [kind EXCEPT ![t] = what] /\ rows' = [rows EXCEPT ![t] = <<>>]
      /\ engine' = [engine EXCEPT ![t] = "none"] /\ verdict' = [verdict EXCEPT ![t] = "none"]
      /\ pc' = [pc EXCEPT ![t] = place] /\ UNCHANGED <<caches, lib, exe, faults, changes>>
  BY <1>2 DEF Begin, Goto, host
<1>4. HealthTypes'
  BY <1>1, <1>3 DEF HealthTypes
<1>5. QuietStep(t)
  BY <1>1, <1>2, <1>3 DEF QuietStep, AutomatonTypes, BatchTypes, LabelTypes, HealthTypes
<1>6. HealthOf(t)'
  BY <1>1, <1>3 DEF HealthOf, Answered, AutomatonTypes
<1> QED BY <1>4, <1>5, <1>6, HealthStep

\* The steps of a request before a backend answers, and between two of them.
LEMMA SelectHealth ==
  ASSUME AutomatonInv, BatchInv, LabelInv, HealthInv, NEW t \in Threads, Select(t) \/ NextArm(t) \/ EndCompare(t)
  PROVE  HealthInv'
<1>1. AutomatonTypes /\ BatchTypes /\ LabelTypes /\ LabelOf(t)
  BY DEF AutomatonInv, BatchInv, LabelInv
<1>2. UNCHANGED <<lib, exe, faults, changes, kind, engine, verdict>>
  BY DEF Select, NextArm, EndCompare, host, request, bounds, dispatch
<1>3. UNCHANGED caches \/ ProbeCore
  BY DEF Select, NextArm, EndCompare
<1>4. /\ pc' = [pc EXCEPT ![t] = pc'[t]] /\ pc'[t] \in {"front", "serve", "select", "arm", "done"}
      /\ pc'[t] = "done" => EndCompare(t)
  <2>1. \/ UNCHANGED pc /\ pc[t] = "arm"
        \/ \E place \in {"front", "serve", "select"} : pc' = [pc EXCEPT ![t] = place]
        \/ pc' = [pc EXCEPT ![t] = "done"] /\ EndCompare(t)
    BY DEF Select, NextArm, EndCompare, Skip, Goto
  <2> QED BY <1>1, <2>1, StaysAt DEF AutomatonTypes
<1>5. rows' = [rows EXCEPT ![t] = rows'[t]]
  <2>1. rows' = rows \/ rows' = [rows EXCEPT ![t] = <<>>]
    BY DEF Select, NextArm, EndCompare, front
  <2> QED BY <1>1, <2>1, StaysAt DEF BatchTypes
<1>6. order' = [order EXCEPT ![t] = order'[t]]
  <2>1. order' = order \/ \E o : order' = [order EXCEPT ![t] = o]
    BY DEF Select, NextArm, EndCompare, Skip, dispatch
  <2> QED BY <1>1, <2>1, StaysAt DEF LabelTypes
<1>7. pc'[t] = "done" => kind[t] = "compare"
  BY <1>1, <1>4 DEF EndCompare, LabelOf, AtPlace
<1> QED BY <1>2, <1>3, <1>4, <1>5, <1>6, <1>7, OnTheWay DEF Places

\* The front end is chosen, and an automaton found: nothing fails here but the
\* shared file's disappearance.
LEMMA FrontHealth ==
  ASSUME AutomatonInv, BatchInv, LabelInv, HealthInv, NEW t \in Threads,
         ChooseFront(t) \/ ReadStamp(t) \/ ReuseHandle(t) \/ OpenHandle(t), UNCHANGED bounds, UNCHANGED <<rust, dispatch>>
  PROVE  HealthInv'
<1>1. AutomatonTypes /\ BatchTypes /\ LabelTypes /\ Probed
  BY DEF AutomatonInv, BatchInv, LabelInv
<1>2. UNCHANGED <<lib, exe, faults, changes, kind, engine, verdict, order, rows>>
  BY DEF ChooseFront, ReadStamp, ReuseHandle, OpenHandle, host, front, request, bounds, dispatch
<1>3. UNCHANGED caches \/ ProbeFfi
  BY DEF ChooseFront, ReadStamp, ReuseHandle, OpenHandle
<1>4. Version(t) = 0 /\ pc[t] \in {"hash", "open"} => kind[t] = "batch"
  BY DEF AutomatonInv, AtCore, Alone, Live, Version
<1>5. PICK place \in {"done", "process", "hash", "open", "ffi"} :
        /\ pc' = [pc EXCEPT ![t] = place]
        /\ place = "done" => kind[t] = "batch"
        /\ place = "process" /\ kind[t] # "batch" => ffi' = FfiNow /\ FfiNow # "yes"
  <2>1. CASE ChooseFront(t)
    BY <2>1 DEF ChooseFront, Goto, ProbeFfi, UseLibrary
  <2>2. CASE ReadStamp(t) \/ ReuseHandle(t)
    BY <1>4, <2>2 DEF ReadStamp, ReuseHandle, Goto
  <2>3. CASE OpenHandle(t)
    <3>1. faults \in Nat
      BY DEF HealthInv, HealthTypes
    <3>2. ~Fault
      BY <3>1 DEF Fault, bounds
    <3> QED BY <1>4, <2>3, <3>2 DEF OpenHandle, Goto
  <2> QED BY <2>1, <2>2, <2>3
<1>6. FfiNow \in {"yes", "no"} /\ pc'[t] = place
  BY <1>1, <1>5 DEF Probed, FfiNow, AutomatonTypes
<1>7. /\ pc' = [pc EXCEPT ![t] = pc'[t]] /\ rows' = [rows EXCEPT ![t] = rows'[t]]
      /\ order' = [order EXCEPT ![t] = order'[t]]
  BY <1>1, <1>2, <1>5, <1>6, StaysAt
<1> QED BY <1>2, <1>3, <1>5, <1>6, <1>7, OnTheWay DEF Places

\* A backend answers; of the C core, it is the one the host allows.
LEMMA AnswerHealth ==
  ASSUME AutomatonInv, BatchInv, LabelInv, HealthInv, NEW t \in Threads, UNCHANGED bounds, UNCHANGED <<rust, dispatch>>,
         FfiAnswers(t) \/ ProcessAnswers(t) \/ PythonAnswers(t) \/ RustAnswers(t) \/ RustSaysNothing(t) \/ PythonServes(t)
  PROVE  HealthInv'
<1>1. AutomatonTypes /\ BatchTypes /\ LabelTypes /\ LabelOf(t)
  BY DEF AutomatonInv, BatchInv, LabelInv
<1>2. UNCHANGED <<lib, exe, faults, changes, kind, engine, verdict, order, caches>>
  BY DEF FfiAnswers, ProcessAnswers, PythonAnswers, RustAnswers, RustSaysNothing, PythonServes, Served,
         host, request, bounds, dispatch
<1>3. \E place \in {"ffi", "served"} : pc' = [pc EXCEPT ![t] = place]
  BY DEF FfiAnswers, ProcessAnswers, PythonAnswers, RustAnswers, RustSaysNothing, PythonServes, Served, Goto
<1>4. \E answer : rows' = [rows EXCEPT ![t] = answer]
  BY DEF FfiAnswers, ProcessAnswers, PythonAnswers, RustAnswers, RustSaysNothing, PythonServes, Answer
<1>5. pc' = [pc EXCEPT ![t] = pc'[t]] /\ pc'[t] \in {"ffi", "served"} /\ rows' = [rows EXCEPT ![t] = rows'[t]]
  BY <1>1, <1>3, <1>4 DEF AutomatonTypes, BatchTypes
<1>6. order' = [order EXCEPT ![t] = order'[t]]
  BY <1>1, <1>2, StaysAt
<1>7. ASSUME Quiet, Remembers, HealthOf(t), kind[t] # "batch", Head(order[t]) = "c" PROVE OwnIfSound(t)'
  <2>1. CASE FfiAnswers(t)
    <3>1. pc[t] = "ffi" /\ ffi = "yes"
      BY <1>1, <2>1 DEF FfiAnswers, LabelOf, Named
    <3>2. lib = "good"
      BY <1>7, <3>1 DEF Remembers
    <3>3. rows[t] \in RowsBy("ffi") /\ rows'[t] = Append(rows[t], Row("ffi", Len(rows[t]) + 1))
      BY <1>1, <2>1, <3>1 DEF FfiAnswers, Answer, BatchInv, SoFar, BatchTypes
    <3>4. Producer(t)' = "ffi"
      BY <3>3, FfiProducer DEF Producer
    <3> QED BY <1>2, <3>2, <3>4 DEF OwnIfSound, Sound
  <2>2. CASE ProcessAnswers(t) \/ PythonAnswers(t)
    <3>1. pc[t] = "process" /\ rows[t] = <<>> /\ banners[t] = 1 /\ lib # "good"
      BY <1>1, <1>7, <2>2 DEF ProcessAnswers, PythonAnswers, HealthOf, Remembers, BatchInv, SoFar, Before,
                               LabelOf, AtPlace, AtFront, AutomatonTypes
    <3>2. ~Fault
      BY <1>2 DEF Fault, HealthInv, HealthTypes
    <3>3. PICK by \in {"process", "python"} :
            rows' = [rows EXCEPT ![t] = rows[t] \o Remaining(t, by)] /\ (by = "process" <=> exe \in {"flawed", "good"})
      BY <2>2, <3>2 DEF ProcessAnswers, PythonAnswers, Answer, Matches
    <3>4. Remaining(t, by) = AllBy(by, 1)
      BY <3>1 DEF Remaining, AllBy
    <3>5. rows'[t] = AllBy(by, 1)
      BY <1>1, <3>1, <3>3, <3>4, AllByRows DEF BatchTypes, RowsBy
    <3>6. Producer(t)' = by
      BY <3>5, OneRow DEF Producer
    <3> QED BY <1>2, <3>1, <3>3, <3>6 DEF OwnIfSound, Sound
  <2>3. CASE RustAnswers(t) \/ RustSaysNothing(t) \/ PythonServes(t)
    BY <1>7, <2>3 DEF RustAnswers, RustSaysNothing, PythonServes
  <2> QED BY <2>1, <2>2, <2>3
<1> QED BY <1>2, <1>5, <1>6, <1>7, OnTheWay DEF Places

\* The answer of the C core gets its label.
LEMMA FinishHealth == ASSUME AutomatonInv, BatchInv, LabelInv, HealthInv, NEW t \in Threads, Finish(t) PROVE HealthInv'
<1>1. AutomatonTypes /\ BatchTypes /\ LabelTypes /\ HealthTypes /\ LabelOf(t)
  BY DEF AutomatonInv, BatchInv, LabelInv, HealthInv
<1>2. /\ pc[t] = "served" /\ UNCHANGED <<lib, exe, faults, changes, caches, kind, rows, verdict>>
      /\ order' = [order EXCEPT ![t] = <<>>]
      /\ engine' = IF kind[t] = "batch" THEN engine ELSE [engine EXCEPT ![t] = Label(Head(order[t]))]
      /\ pc' = [pc EXCEPT ![t] = IF kind[t] = "compare" THEN "arm" ELSE "done"]
  BY DEF Finish, Goto, host, request, bounds
<1>3. HealthTypes'
  BY <1>1, <1>2 DEF HealthTypes
<1>4. QuietStep(t)
  BY <1>1, <1>2 DEF QuietStep, AutomatonTypes, LabelTypes
<1>5. ASSUME Quiet, Remembers, HealthOf(t) PROVE HealthOf(t)'
  <2>1. OwnIfSound(t)' = OwnIfSound(t)
    BY <1>2 DEF OwnIfSound, Producer, Sound
  <2>2. /\ pc'[t] = IF kind[t] = "compare" THEN "arm" ELSE "done"
        /\ kind[t] # "batch" => engine'[t] = Label(Head(order[t]))
    BY <1>1, <1>2 DEF AutomatonTypes, LabelTypes
  <2>3. Label(Head(order[t])) = "c-native" => Head(order[t]) = "c"
    BY DEF Label
  <2>4. kind[t] # "health"
    BY <1>1, <1>2 DEF LabelOf, AtPlace
  <2> QED BY <1>2, <1>5, <2>1, <2>2, <2>3, <2>4 DEF HealthOf, Answered
<1> QED BY <1>3, <1>4, <1>5, HealthStep

\* The verdict is that of the probe, or of the selftest.
LEMMA VerdictHealth ==
  ASSUME AutomatonInv, BatchInv, LabelInv, HealthInv, NEW t \in Threads, CheckC(t) \/ RunSelftest(t)
  PROVE  HealthInv'
<1>1. AutomatonTypes /\ BatchTypes /\ LabelTypes /\ HealthTypes /\ Probed /\ LabelOf(t)
  BY DEF AutomatonInv, BatchInv, LabelInv, HealthInv
<1>2. /\ pc[t] \in {"health", "selftest"} /\ UNCHANGED <<lib, exe, faults, changes, kind, rows, order, engine>>
      /\ kind[t] = "health"
  BY <1>1 DEF CheckC, RunSelftest, host, front, request, bounds, LabelOf, AtPlace
<1>3. UNCHANGED caches \/ ProbeCore
  BY DEF CheckC, RunSelftest
<1>4. /\ \E v : verdict' = [verdict EXCEPT ![t] = v]
      /\ \E place \in {"selftest", "done"} : pc' = [pc EXCEPT ![t] = place]
  BY DEF CheckC, RunSelftest, Goto
<1>5. HealthTypes'
  BY <1>1, <1>2, <1>4 DEF HealthTypes
<1>6. QuietStep(t)
  BY <1>1, <1>2, <1>3, <1>4 DEF QuietStep, AutomatonTypes, HealthTypes
<1>7. ASSUME Quiet, Remembers, HealthOf(t) PROVE HealthOf(t)'
  <2>1. CASE CheckC(t)
    <3>1. /\ pc'[t] = IF AvailableNow = "yes" THEN "selftest" ELSE "done"
          /\ verdict'[t] = IF AvailableNow = "yes" THEN verdict[t] ELSE "fallback"
      BY <1>1, <2>1 DEF CheckC, Goto, AutomatonTypes, HealthTypes
    <3>2. AvailableNow = "yes" => available' = "yes"
      BY <2>1 DEF CheckC, ProbeCore, AvailableNow, caches
    <3>3. AvailableNow # "yes" => ~Sound /\ ~Healthy
      BY <1>1, <1>7 DEF AvailableNow, Speaks, Remembers, Sound, Healthy, FfiNow, LibraryNow
    <3> QED BY <1>2, <3>1, <3>2, <3>3 DEF HealthOf, Answered, Sound, Healthy
  <2>2. CASE RunSelftest(t)
    <3>1. pc[t] = "selftest" /\ pc'[t] = "done" /\ verdict'[t] = SelftestOf
      BY <1>1, <2>2 DEF RunSelftest, Goto, AutomatonTypes, HealthTypes
    <3>2. ffi \in {"yes", "no"}
      BY <1>1, <1>7, <3>1 DEF HealthOf, Probed
    <3>3. (SelftestOf = "ok" <=> Healthy) /\ (Sound /\ ~Healthy => SelftestOf = "failed")
      BY <1>7, <3>2 DEF SelftestOf, Remembers, Sound, Healthy
    <3> QED BY <1>2, <3>1, <3>3 DEF HealthOf, Answered, Sound, Healthy
  <2> QED BY <2>1, <2>2
<1> QED BY <1>5, <1>6, <1>7, HealthStep

\* A step that is a failure or a change of the host, and all that follow.
LEMMA NotQuiet ==
  ASSUME HealthInv, Fault \/ Change, UNCHANGED verdict
  PROVE  HealthInv'
BY DEF HealthInv, HealthTypes, Quiet, Fault, Change

\* Every step keeps the invariant.
LEMMA HealthKept == ASSUME AutomatonInv, BatchInv, LabelInv, HealthInv, [Next]_vars PROVE HealthInv'
<1>1. ASSUME NEW t \in Threads, FrontStep(t), UNCHANGED <<rust, dispatch>> PROVE HealthInv'
  <2>1. UNCHANGED bounds \/ Fault
    BY <1>1 DEF FrontStep, ChooseFront, ReadStamp, ReuseHandle, OpenHandle, FfiAnswers, FfiFails, ProcessAnswers, PythonAnswers
  <2>2. CASE Fault
    BY <1>1, <2>2, NotQuiet DEF dispatch
  <2>3. CASE UNCHANGED bounds
    <3>1. faults \in Nat
      BY DEF HealthInv, HealthTypes
    <3>2. ~FfiFails(t)
      BY <2>3, <3>1 DEF FfiFails, Fault, bounds
    <3> QED BY <1>1, <2>3, <3>2, FrontHealth, AnswerHealth DEF FrontStep
  <2> QED BY <2>1, <2>2, <2>3
<1>2. ASSUME NEW t \in Threads, RustAnswers(t) \/ RustSaysNothing(t) \/ PythonServes(t) PROVE HealthInv'
  <2>1. UNCHANGED bounds \/ Fault
    BY <1>2 DEF RustAnswers, RustSaysNothing, PythonServes
  <2>2. UNCHANGED <<rust, dispatch>> /\ UNCHANGED verdict
    BY <1>2 DEF RustAnswers, RustSaysNothing, PythonServes, Served, dispatch
  <2> QED BY <1>2, <2>1, <2>2, NotQuiet, AnswerHealth
<1>3. ASSUME NEW t \in Threads, Raises(t) PROVE HealthInv'
  BY <1>3, NotQuiet DEF Raises
<1>4. ASSUME UNCHANGED <<lib, exe, faults, changes, pc, kind, rows, caches, order, engine, verdict>> PROVE HealthInv'
  BY <1>4 DEF HealthInv, HealthTypes, Quiet, Remembers, HealthOf, Answered, OwnIfSound, Producer, Sound, Healthy, caches
<1>5. CASE (HostChanges \/ EditFile) /\ UNCHANGED <<rust, dispatch>>
  BY <1>5, NotQuiet DEF HostChanges, EditFile, dispatch
<1>6. CASE UNCHANGED vars
  BY <1>4, <1>6 DEF vars, host, front, request, bounds, dispatch
<1> QED BY <1>1, <1>2, <1>3, <1>5, <1>6, BeginHealth, SelectHealth, FinishHealth, VerdictHealth DEF Next

\* For any number of threads and calls, whoever fills the caches first: on a
\* host that does not change, while no call fails, a C core that is reported sound
\* gives its own answers, and one that gives its own answers is reported sound or
\* is an executable that fails its selftest, and then reported failed (check_c).
THEOREM HealthIsTrue == Spec => []HealthAgreesWithService
<1>1. Init => AutomatonInv /\ BatchInv /\ LabelInv /\ HealthInv
  BY AutomatonInit, BatchInit, LabelInit, HealthInit
<1>2. AutomatonInv /\ BatchInv /\ LabelInv /\ HealthInv /\ [Next]_vars => (AutomatonInv /\ BatchInv /\ LabelInv /\ HealthInv)'
  BY AutomatonKept, BatchKept, LabelKept, HealthKept
<1>3. HealthInv => HealthAgreesWithService
  <2> SUFFICES ASSUME HealthInv, Quiet, NEW t \in Threads, NEW u \in Threads,
                      pc[t] = "done", kind[t] = "health", Answered(u), engine[u] = "c-native"
               PROVE  /\ verdict[t] = "ok" => Producer(u) \in {"ffi", "process"}
                      /\ Producer(u) \in {"ffi", "process"} =>
                           verdict[t] = "ok" \/ (Producer(u) = "process" /\ exe = "flawed" /\ verdict[t] = "failed")
    BY DEF HealthAgreesWithService, Quiet, MadeBy
  <2>1. Remembers /\ HealthOf(t) /\ HealthOf(u)
    BY DEF HealthInv
  <2>2. OwnIfSound(u) /\ (verdict[t] = "ok" <=> Healthy) /\ (Sound /\ ~Healthy => verdict[t] = "failed")
    BY <2>1 DEF HealthOf
  <2> QED BY <2>2 DEF OwnIfSound, Sound, Healthy
<1> QED BY <1>1, <1>2, <1>3, PTL DEF Spec
=============================================================================
