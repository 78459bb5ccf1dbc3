---------------------------- MODULE WalKeyProofs ----------------------------
(***************************************************************************)
(* Proofs about module WalKey, for any set of processes and any bounds.    *)
(***************************************************************************)
EXTENDS WalKey, TLAPS

\* The part of the type invariant the argument needs.
Attributes ==
  /\ keyFile \in Int /\ keyFile >= Short
  /\ drawn \in Nat
  /\ pc \in [Procs -> Places]
  /\ key \in [Procs -> Nat]
  /\ replaced \in BOOLEAN

\* Until a key file has been replaced, one process at most is about to write its
\* key, into a file that is still short, and whoever holds a key read or wrote
\* it there.
KeyInv ==
  /\ Attributes
  /\ ~replaced =>
       /\ \A p \in Procs : pc[p] = "write" =>
            keyFile = Short /\ \A q \in Procs : pc[q] = "write" => q = p
       /\ \A p \in Procs : pc[p] \in Holding => key[p] = keyFile /\ Usable(keyFile)

\* Nobody holds a key at first.
LEMMA KeyInit == Init => KeyInv
<1> SUFFICES ASSUME Init PROVE KeyInv
  OBVIOUS
<1>1. keyFile \in {0, Short, FirstKey}
  BY DEF Init
<1>2. /\ pc = [p \in Procs |-> "down"] /\ key = [p \in Procs |-> 0]
      /\ drawn = 1 /\ replaced = FALSE
  BY DEF Init
<1>3. Attributes
  <2>1. keyFile \in Int /\ keyFile >= Short /\ drawn \in Nat
    BY <1>1, <1>2 DEF Short, FirstKey
  <2>2. pc \in [Procs -> Places] /\ key \in [Procs -> Nat]
    BY <1>2 DEF Places
  <2>3. replaced \in BOOLEAN
    BY <1>2
  <2> QED BY <2>1, <2>2, <2>3 DEF Attributes
<1>4. \A p \in Procs : pc[p] # "write" /\ pc[p] \notin Holding
  BY <1>2 DEF Holding
<1> QED BY <1>3, <1>4 DEF KeyInv

\* Every step of every process preserves KeyInv.
LEMMA KeyStep ==
  ASSUME KeyInv, NEW p \in Procs,
         \/ Start(p) \/ CreateKey(p) \/ WriteKey(p) \/ AdoptKey(p) \/ ReadKey(p)
         \/ JudgeUnusable(p) \/ ReplaceKey(p) \/ LoadHeader(p) \/ Replay(p)
         \/ ChooseLayout(p) \/ StartV3(p) \/ WriteRecord(p) \/ Stop(p)
  PROVE  KeyInv'
<1> USE DEF KeyInv, Attributes, Places, Opening, Holding, Goto, Usable, Short, memory
<1>1. CASE Start(p)         BY <1>1 DEF Start
<1>2. CASE CreateKey(p)     BY <1>2 DEF CreateKey
<1>3. CASE WriteKey(p)      BY <1>3 DEF WriteKey
<1>4. CASE AdoptKey(p)      BY <1>4 DEF AdoptKey
<1>5. CASE ReadKey(p)       BY <1>5 DEF ReadKey
<1>6. CASE JudgeUnusable(p) BY <1>6 DEF JudgeUnusable
<1>7. CASE ReplaceKey(p)    BY <1>7 DEF ReplaceKey
<1>8. CASE LoadHeader(p)    BY <1>8 DEF LoadHeader
<1>9. CASE Replay(p)        BY <1>9 DEF Replay
<1>10. CASE ChooseLayout(p) BY <1>10 DEF ChooseLayout
<1>11. CASE StartV3(p)      BY <1>11 DEF StartV3
<1>12. CASE WriteRecord(p)  BY <1>12 DEF WriteRecord
<1>13. CASE Stop(p)         BY <1>13 DEF Stop
<1> QED BY <1>1, <1>2, <1>3, <1>4, <1>5, <1>6, <1>7, <1>8, <1>9, <1>10, <1>11, <1>12, <1>13

\* However many processes open one log at once, and wherever they stop, the
\* exclusive creation in _write_key leaves all of them with the key in the key
\* file, as long as none has replaced an unusable one.
THEOREM OneKeyHolds == Spec => []OneKey
<1>1. Init => KeyInv
  BY KeyInit
<1>2. KeyInv /\ [Next]_vars => KeyInv'
  <2>1. KeyInv /\ Next => KeyInv'
    BY KeyStep DEF Next
  <2>2. KeyInv /\ UNCHANGED vars => KeyInv'
    BY DEF KeyInv, Attributes, vars, memory, Usable
  <2> QED BY <2>1, <2>2
<1>3. KeyInv => OneKey
  BY DEF KeyInv, OneKey
<1> QED BY <1>1, <1>2, <1>3, PTL DEF Spec

-----------------------------------------------------------------------------
Live(p) == pc[p] \notin {"down", "refused"}

RecoverTypes ==
  /\ Attributes /\ drawn > 0
  /\ disk \in Seq(Item)
  /\ v3 \in [Procs -> BOOLEAN] /\ legacy \in [Procs -> BOOLEAN] /\ salt \in [Procs -> Nat]
  /\ overlapped \in BOOLEAN

\* The log is of one layout: a header in front and v3 records, or v2 records.
OneLayout ==
  /\ \A i \in DOMAIN disk : i # 1 => disk[i].kind = "rec"
  /\ \A i \in DOMAIN disk : disk[i].kind = "rec" =>
       IF HasHeader THEN disk[i].fmt = "v3" /\ disk[i].salt = disk[1].salt ELSE disk[i].fmt = "v2"

\* Its records are under the key in the key file, or under the first key, whose
\* file was damaged; a new key is made only for an empty log.
KeyOfRecords ==
  /\ \A i \in DOMAIN disk : disk[i].kind = "rec" => disk[i].key = keyFile \/ (disk[i].key = FirstKey /\ keyFile = Short)
  /\ keyFile = 0 => disk = <<>>
  /\ \A p \in Procs : pc[p] \in {"create", "replace", "write"} => disk = <<>>
  /\ \A p \in Procs : pc[p] \in Holding => key[p] = keyFile /\ Usable(keyFile)

\* The attributes of the process that has the log open agree with its start.
AttributesAgree ==
  \A p \in Procs :
    /\ pc[p] \in {"loaded", "open"} =>
         /\ v3[p] <=> HasHeader
         /\ v3[p] => salt[p] = disk[1].salt
         /\ legacy[p] <=> disk # <<>> /\ ~HasHeader
    /\ pc[p] = "header" => disk = <<>> /\ ~legacy[p]
    /\ pc[p] = "record" =>
         IF legacy[p] THEN ~HasHeader /\ ~v3[p] ELSE HasHeader /\ v3[p] /\ salt[p] = disk[1].salt

Solo ==
  /\ \A p, q \in Procs : Live(p) /\ Live(q) => p = q
  /\ OneLayout /\ KeyOfRecords /\ AttributesAgree

RecoverInv == RecoverTypes /\ (~overlapped => Solo)

\* A log that is empty, or was left by a sound process, is recoverable.
LEMMA RecoverInit == Init => RecoverInv
<1> SUFFICES ASSUME Init PROVE RecoverInv
  OBVIOUS
<1>1. disk \in {<<>>, <<HeaderOf(FirstSalt), RecordOf(FirstKey, "v3", FirstSalt)>>, <<RecordOf(FirstKey, "v2", 0)>>}
  BY DEF Init
<1>2. HeaderOf(FirstSalt) \in Item /\ RecordOf(FirstKey, "v3", FirstSalt) \in Item /\ RecordOf(FirstKey, "v2", 0) \in Item
  BY DEF HeaderOf, RecordOf, Item, FirstSalt, FirstKey
<1>3. disk \in Seq(Item)
  <2>1. \A x \in Item, y \in Item : <<x, y>> \in Seq(Item) /\ <<x>> \in Seq(Item)
    OBVIOUS
  <2>2. <<>> \in Seq(Item)
    OBVIOUS
  <2> QED BY <1>1, <1>2, <2>1, <2>2
<1>4. RecoverTypes
  <2>1. Attributes
    BY KeyInit DEF KeyInv
  <2>2. drawn > 0 /\ overlapped \in BOOLEAN
    <3>1. drawn > 0
      BY DEF Init
    <3>2. overlapped \in BOOLEAN
      BY DEF Init
    <3> QED BY <3>1, <3>2
  <2>3. v3 \in [Procs -> BOOLEAN] /\ legacy \in [Procs -> BOOLEAN]
    BY DEF Init
  <2>4. salt \in [Procs -> Nat]
    BY DEF Init
  <2> QED BY <1>3, <2>1, <2>2, <2>3, <2>4 DEF RecoverTypes
<1>5. \A p \in Procs : pc[p] = "down"
  BY DEF Init
<1>6. OneLayout
  BY <1>1 DEF OneLayout, HasHeader, HeaderOf, RecordOf, FirstSalt, FirstKey
<1>7. KeyOfRecords
  BY <1>5 DEF Init, KeyOfRecords, HeaderOf, RecordOf, FirstSalt, FirstKey, Short, Holding
<1>8. AttributesAgree
  BY <1>5 DEF AttributesAgree
<1> QED BY <1>4, <1>5, <1>6, <1>7, <1>8 DEF RecoverInv, Solo, Live

StepOf(p) ==
  \/ Start(p) \/ CreateKey(p) \/ WriteKey(p) \/ AdoptKey(p) \/ ReadKey(p)
  \/ JudgeUnusable(p) \/ ReplaceKey(p) \/ LoadHeader(p) \/ Replay(p)
  \/ ChooseLayout(p) \/ StartV3(p) \/ WriteRecord(p) \/ Stop(p)

\* A record as a process writes it, and a header, are items of the log.
LEMMA ItemsAreItems ==
  ASSUME NEW k \in Nat, NEW f \in {"v2", "v3"}, NEW s \in Nat
  PROVE  HeaderOf(s) \in Item /\ RecordOf(k, f, s) \in Item
BY DEF HeaderOf, RecordOf, Item

\* The types are kept.
LEMMA RecoverTypesStep ==
  ASSUME RecoverTypes, NEW p \in Procs, StepOf(p)
  PROVE  RecoverTypes'
<1>1. Attributes'
  <2>0. Attributes
    BY DEF RecoverTypes
  <2> USE <2>0 DEF Attributes, Places, Opening, Holding, Goto, Usable, Short, memory
  <2>1. CASE Start(p)         BY <2>1 DEF Start
  <2>2. CASE CreateKey(p)     BY <2>2 DEF CreateKey
  <2>3. CASE WriteKey(p)      BY <2>3 DEF WriteKey
  <2>4. CASE AdoptKey(p)      BY <2>4 DEF AdoptKey
  <2>5. CASE ReadKey(p)       BY <2>5 DEF ReadKey
  <2>6. CASE JudgeUnusable(p) BY <2>6 DEF JudgeUnusable
  <2>7. CASE ReplaceKey(p)    BY <2>7 DEF ReplaceKey
  <2>8. CASE LoadHeader(p)    BY <2>8 DEF LoadHeader
  <2>9. CASE Replay(p)        BY <2>9 DEF Replay
  <2>10. CASE ChooseLayout(p) BY <2>10 DEF ChooseLayout
  <2>11. CASE StartV3(p)      BY <2>11 DEF StartV3
  <2>12. CASE WriteRecord(p)  BY <2>12 DEF WriteRecord
  <2>13. CASE Stop(p)         BY <2>13 DEF Stop
  <2> QED
    BY <2>1, <2>2, <2>3, <2>4, <2>5, <2>6, <2>7, <2>8, <2>9, <2>10, <2>11, <2>12, <2>13 DEF StepOf
<1>2. disk' \in Seq(Item)
  <2>1. CASE disk' = disk
    BY <2>1 DEF RecoverTypes
  <2>2. CASE StartV3(p)
    <3>1. HeaderOf(drawn + 1) \in Item
      BY ItemsAreItems DEF RecoverTypes, Attributes
    <3> QED BY <2>2, <3>1 DEF StartV3, RecoverTypes
  <2>3. CASE WriteRecord(p)
    <3>1. RecordOf(key[p], "v2", 0) \in Item /\ RecordOf(key[p], "v3", salt[p]) \in Item
      BY ItemsAreItems DEF RecoverTypes, Attributes
    <3> QED BY <2>3, <3>1 DEF WriteRecord, RecoverTypes
  <2> QED
    BY <2>1, <2>2, <2>3 DEF StepOf, Start, CreateKey, WriteKey, AdoptKey, ReadKey, JudgeUnusable, ReplaceKey,
       LoadHeader, Replay, ChooseLayout, Stop
<1>3. HasHeader \in BOOLEAN /\ (HasHeader => disk[1].salt \in Nat)
  <2>1. HasHeader => disk[1] \in Item
    BY DEF HasHeader, RecoverTypes
  <2> QED BY <2>1 DEF HasHeader, Item
<1>4. drawn' > 0 /\ overlapped' \in BOOLEAN
  <2>1. drawn' > 0
    BY DEF RecoverTypes, Attributes, StepOf, Start, CreateKey, WriteKey, AdoptKey, ReadKey, JudgeUnusable, ReplaceKey,
       LoadHeader, Replay, ChooseLayout, StartV3, WriteRecord, Stop
  <2>2. CASE Start(p)
    <3>1. overlapped \in BOOLEAN
      BY DEF RecoverTypes
    <3> QED BY <2>1, <2>2, <3>1, Zenon DEF Start
  <2>3. CASE overlapped' = overlapped
    BY <2>1, <2>3 DEF RecoverTypes
  <2> QED
    BY <2>2, <2>3 DEF StepOf, CreateKey, WriteKey, AdoptKey, ReadKey, JudgeUnusable, ReplaceKey,
       LoadHeader, Replay, ChooseLayout, StartV3, WriteRecord, Stop
<1>5. v3' \in [Procs -> BOOLEAN] /\ legacy' \in [Procs -> BOOLEAN]
  BY <1>3 DEF RecoverTypes, memory, StepOf, Start, CreateKey, WriteKey, AdoptKey, ReadKey, JudgeUnusable, ReplaceKey,
     LoadHeader, Replay, ChooseLayout, StartV3, WriteRecord, Stop
<1>6. salt' \in [Procs -> Nat]
  BY <1>3 DEF RecoverTypes, Attributes, memory, StepOf, Start, CreateKey, WriteKey, AdoptKey, ReadKey, JudgeUnusable,
     ReplaceKey, LoadHeader, Replay, ChooseLayout, StartV3, WriteRecord, Stop
<1> QED BY <1>1, <1>2, <1>4, <1>5, <1>6 DEF RecoverTypes

\* A start while nobody has the log open: that process alone has it open now.
LEMMA SoloStart ==
  ASSUME RecoverTypes, Solo, NEW p \in Procs, Start(p), ~overlapped'
  PROVE  Solo'
<1>1. /\ pc \in [Procs -> Places] /\ pc[p] = "down"
      /\ pc' = [pc EXCEPT ![p] = IF keyFile = 0 THEN "create" ELSE "read"]
      /\ \A q \in Procs : ~Live(q)
      /\ UNCHANGED <<keyFile, disk, key, v3, legacy, salt>>
  BY DEF Start, Goto, Live, memory, RecoverTypes, Attributes
<1>2. \A q \in Procs : pc'[q] \in {"down", "refused"} \/ (q = p /\ pc'[q] \in {"create", "read"})
  BY <1>1 DEF Live
<1>3. pc'[p] = "create" => keyFile = 0
  BY <1>1
<1>4. HasHeader' = HasHeader
  BY <1>1 DEF HasHeader
<1>5. OneLayout'
  BY <1>1, <1>4 DEF Solo, OneLayout
<1>6. KeyOfRecords'
  BY <1>1, <1>2, <1>3 DEF Solo, KeyOfRecords, Holding
<1>7. AttributesAgree'
  BY <1>2 DEF AttributesAgree
<1> QED BY <1>2, <1>5, <1>6, <1>7 DEF Solo, Live

\* The steps of the only process that leave the log alone.
LEMMA SoloLogKept ==
  ASSUME RecoverTypes, Solo, NEW p \in Procs,
         \/ CreateKey(p) \/ WriteKey(p) \/ AdoptKey(p) \/ ReadKey(p) \/ JudgeUnusable(p) \/ ReplaceKey(p)
         \/ LoadHeader(p) \/ Replay(p) \/ ChooseLayout(p) \/ Stop(p)
  PROVE  Solo'
<1> DEFINE Step ==
      \/ CreateKey(p) \/ WriteKey(p) \/ AdoptKey(p) \/ ReadKey(p) \/ JudgeUnusable(p) \/ ReplaceKey(p)
      \/ LoadHeader(p) \/ Replay(p) \/ ChooseLayout(p) \/ Stop(p)
<1>0. Step
  OBVIOUS
<1>1. disk' = disk /\ HasHeader' = HasHeader
  BY <1>0 DEF CreateKey, WriteKey, AdoptKey, ReadKey, JudgeUnusable, ReplaceKey, LoadHeader, Replay, ChooseLayout, Stop,
     HasHeader
<1>2. pc[p] # "down"
  BY <1>0 DEF CreateKey, WriteKey, AdoptKey, ReadKey, JudgeUnusable, ReplaceKey, LoadHeader, Replay, ChooseLayout, Stop
<1>3. \A q \in Procs : q # p => pc'[q] = pc[q] /\ v3'[q] = v3[q] /\ legacy'[q] = legacy[q] /\ salt'[q] = salt[q] /\ key'[q] = key[q]
  BY <1>0 DEF CreateKey, WriteKey, AdoptKey, ReadKey, JudgeUnusable, ReplaceKey, LoadHeader, Replay, ChooseLayout, Stop,
     Goto, memory, RecoverTypes, Attributes
<1>4. pc[p] = "refused" => Stop(p)
  BY <1>0 DEF CreateKey, WriteKey, AdoptKey, ReadKey, JudgeUnusable, ReplaceKey, LoadHeader, Replay, ChooseLayout
<1>5. Stop(p) => pc'[p] = "down" /\ keyFile' = keyFile
  BY DEF Stop, Goto, RecoverTypes, Attributes
<1>6. \A q \in Procs : q # p /\ Live(p) => ~Live(q)
  BY DEF Solo
<1>7. \A q, r \in Procs : Live(q)' /\ Live(r)' => q = r
  BY <1>2, <1>3, <1>4, <1>5, <1>6 DEF Solo, Live
<1>8. OneLayout'
  BY <1>1 DEF Solo, OneLayout
<1>9. KeyOfRecords'
  <2>1. CASE pc[p] = "refused"
    BY <1>1, <1>3, <1>4, <1>5, <2>1 DEF Solo, KeyOfRecords, Holding
  <2>2. CASE pc[p] # "refused"
    <3>1. \A q \in Procs : q # p => pc'[q] \in {"down", "refused"}
      BY <1>2, <1>3, <1>6, <2>2 DEF Live
    <3>2. disk # <<>> => (keyFile' = keyFile)
      BY <1>0 DEF CreateKey, WriteKey, AdoptKey, ReadKey, JudgeUnusable, ReplaceKey, LoadHeader, Replay, ChooseLayout, Stop,
         Solo, KeyOfRecords
    <3>3. disk = <<>> => DOMAIN disk = {}
      OBVIOUS
    <3>4. keyFile' = 0 => disk = <<>>
      BY <1>0 DEF CreateKey, WriteKey, AdoptKey, ReadKey, JudgeUnusable, ReplaceKey, LoadHeader, Replay, ChooseLayout, Stop,
         Solo, KeyOfRecords, Short, RecoverTypes, Attributes
    <3>5. pc'[p] \in {"create", "replace", "write"} => disk = <<>>
      BY <1>0 DEF CreateKey, WriteKey, AdoptKey, ReadKey, JudgeUnusable, ReplaceKey, LoadHeader, Replay, ChooseLayout, Stop,
         Solo, KeyOfRecords, Goto, RecoverTypes, Attributes
    <3>6. pc'[p] \in Holding => key'[p] = keyFile' /\ Usable(keyFile')
      BY <1>0 DEF CreateKey, WriteKey, AdoptKey, ReadKey, JudgeUnusable, ReplaceKey, LoadHeader, Replay, ChooseLayout, Stop,
         Solo, KeyOfRecords, Goto, RecoverTypes, Attributes, Holding, Usable
    <3> QED BY <1>1, <3>1, <3>2, <3>3, <3>4, <3>5, <3>6 DEF Solo, KeyOfRecords, Holding
  <2> QED BY <2>1, <2>2
<1>10. AttributesAgree'
  <2>1. \A q \in Procs : q # p => pc'[q] = pc[q]
    BY <1>3
  <2>2. CASE LoadHeader(p)
    <3>1. pc'[p] = "loaded" /\ salt'[p] = IF HasHeader THEN disk[1].salt ELSE 0
      BY <2>2 DEF LoadHeader, Goto, RecoverTypes, Attributes
    <3>2. (v3'[p] <=> HasHeader) /\ (legacy'[p] <=> disk # <<>> /\ ~HasHeader)
      BY <2>2, Zenon DEF LoadHeader, RecoverTypes, HasHeader
    <3> QED BY <1>1, <1>3, <3>1, <3>2 DEF Solo, AttributesAgree
  <2>3. CASE Replay(p)
    BY <1>1, <1>3, <2>3 DEF Replay, Goto, Solo, AttributesAgree, RecoverTypes, Attributes, HasHeader
  <2>4. CASE ChooseLayout(p)
    BY <1>1, <1>3, <2>4 DEF ChooseLayout, Goto, Solo, AttributesAgree, RecoverTypes, Attributes, HasHeader
  <2>5. CASE pc'[p] \notin {"loaded", "open", "header", "record"}
    BY <1>1, <1>3, <2>5 DEF Solo, AttributesAgree
  <2> QED
    BY <1>0, <2>2, <2>3, <2>4, <2>5 DEF CreateKey, WriteKey, AdoptKey, ReadKey, JudgeUnusable, ReplaceKey, Stop,
       Goto, RecoverTypes, Attributes
<1> QED BY <1>7, <1>8, <1>9, <1>10 DEF Solo

\* What appending to a log does to its start.
LEMMA AppendedLog ==
  ASSUME disk \in Seq(Item), NEW x \in Item, disk' = Append(disk, x)
  PROVE  /\ disk' # <<>> /\ disk'[Len(disk) + 1] = x
         /\ \A i \in DOMAIN disk : disk'[i] = disk[i]
         /\ \A i \in DOMAIN disk' : i \in DOMAIN disk \/ i = Len(disk) + 1
         /\ disk # <<>> => HasHeader' = HasHeader /\ 1 \in DOMAIN disk /\ Len(disk) + 1 # 1
         /\ disk = <<>> => (HasHeader' <=> x.kind = "hdr") /\ Len(disk) = 0 /\ DOMAIN disk = {}
<1>1. Len(disk) \in Nat /\ DOMAIN disk = 1..Len(disk) /\ DOMAIN disk' = 1..(Len(disk) + 1)
  OBVIOUS
<1>2. /\ disk' # <<>> /\ disk'[Len(disk) + 1] = x
      /\ \A i \in DOMAIN disk : disk'[i] = disk[i]
  BY <1>1
<1>3. disk # <<>> => 1 \in DOMAIN disk /\ Len(disk) + 1 # 1
  BY <1>1
<1>4. disk = <<>> => Len(disk) = 0 /\ DOMAIN disk = {}
  OBVIOUS
<1> QED BY <1>1, <1>2, <1>3, <1>4 DEF HasHeader

\* The only process writes to the log.
LEMMA SoloLogGrows ==
  ASSUME RecoverTypes, Solo, NEW p \in Procs, StartV3(p) \/ WriteRecord(p)
  PROVE  Solo'
<1>1. Live(p) /\ \A q \in Procs : q # p => ~Live(q)
  BY DEF StartV3, WriteRecord, Live, Solo
<1>2. /\ pc' = [pc EXCEPT ![p] = IF StartV3(p) THEN "record" ELSE "open"]
      /\ UNCHANGED <<keyFile, key, legacy>>
  BY DEF StartV3, WriteRecord, Goto, memory
<1>3. \A q \in Procs : q # p => pc'[q] \in {"down", "refused"}
  BY <1>1, <1>2 DEF Live, RecoverTypes, Attributes
<1>4. key[p] = keyFile /\ Usable(keyFile) /\ keyFile # 0 /\ key[p] \in Nat /\ salt[p] \in Nat
  BY DEF StartV3, WriteRecord, Holding, Solo, KeyOfRecords, Usable, RecoverTypes, Attributes
<1>5. disk \in Seq(Item)
  BY DEF RecoverTypes
<1>6. CASE StartV3(p)
  <2>1. disk = <<>> /\ disk' = Append(disk, HeaderOf(drawn + 1)) /\ drawn + 1 \in Nat
    BY <1>6 DEF StartV3, Solo, AttributesAgree, RecoverTypes, Attributes
  <2>2. HeaderOf(drawn + 1) \in Item /\ HeaderOf(drawn + 1).kind = "hdr" /\ HeaderOf(drawn + 1).salt = drawn + 1
    BY <2>1 DEF HeaderOf, Item
  <2>3. HasHeader' /\ disk' # <<>> /\ disk'[1] = HeaderOf(drawn + 1) /\ \A i \in DOMAIN disk' : i = 1
    BY <1>5, <2>1, <2>2, AppendedLog
  <2>4. pc'[p] = "record" /\ v3'[p] /\ ~legacy'[p] /\ salt'[p] = drawn + 1
    BY <1>2, <1>6 DEF StartV3, RecoverTypes, Attributes, Solo, AttributesAgree
  <2>5. OneLayout'
    BY <2>2, <2>3 DEF OneLayout
  <2>6. KeyOfRecords'
    BY <1>2, <1>3, <1>4, <2>2, <2>3, <2>4 DEF KeyOfRecords, Holding
  <2>7. AttributesAgree'
    BY <1>3, <2>2, <2>3, <2>4 DEF AttributesAgree
  <2> QED BY <1>3, <2>5, <2>6, <2>7 DEF Solo, Live
<1>7. CASE WriteRecord(p)
  <2> DEFINE x == IF legacy[p] THEN RecordOf(key[p], "v2", 0) ELSE RecordOf(key[p], "v3", salt[p])
  <2>1. disk' = Append(disk, x) /\ pc[p] = "record" /\ UNCHANGED <<v3, salt>>
    BY <1>7 DEF WriteRecord, memory
  <2>2. x \in Item
    BY <1>4, ItemsAreItems
  <2>3. /\ x.kind = "rec" /\ x.key = keyFile
        /\ IF legacy[p] THEN x.fmt = "v2" ELSE x.fmt = "v3" /\ x.salt = salt[p]
    BY <1>4 DEF RecordOf
  <2>4. IF legacy[p] THEN ~HasHeader /\ ~v3[p] ELSE HasHeader /\ v3[p] /\ salt[p] = disk[1].salt
    BY <2>1 DEF Solo, AttributesAgree
  <2> HIDE DEF x
  <2>5. HasHeader' = HasHeader
    BY <1>5, <2>1, <2>2, <2>3, AppendedLog DEF HasHeader
  <2>6. /\ \A i \in DOMAIN disk : disk'[i] = disk[i]
        /\ \A i \in DOMAIN disk' : i \in DOMAIN disk \/ disk'[i] = x
        /\ disk' # <<>> /\ (HasHeader => disk'[1] = disk[1])
    BY <1>5, <2>1, <2>2, AppendedLog DEF HasHeader
  <2>7. OneLayout'
    BY <2>3, <2>4, <2>5, <2>6 DEF Solo, OneLayout
  <2>8. pc'[p] = "open"
    BY <1>2, <1>7, <2>1 DEF StartV3, RecoverTypes, Attributes
  <2>9. KeyOfRecords'
    BY <1>2, <1>3, <1>4, <2>3, <2>6, <2>8 DEF Solo, KeyOfRecords, Holding
  <2>10. AttributesAgree'
    BY <1>2, <1>3, <2>1, <2>4, <2>5, <2>6, <2>8 DEF AttributesAgree
  <2> QED BY <1>3, <2>7, <2>9, <2>10 DEF Solo, Live
<1> QED BY <1>6, <1>7

\* The key file makes the log recoverable: as long as one process at a time has
\* it open, wherever each of them stopped, the key in the file opens every record
\* (but those whose key had been damaged before).
THEOREM LogIsRecoverable == Spec => []Recoverable
<1>1. RecoverInv /\ [Next]_vars => RecoverInv'
  <2> SUFFICES ASSUME RecoverInv, [Next]_vars PROVE RecoverInv'
    OBVIOUS
  <2>1. ASSUME NEW p \in Procs, StepOf(p) PROVE RecoverInv'
    <3>1. RecoverTypes'
      BY <2>1, RecoverTypesStep DEF RecoverInv
    <3>2. overlapped => overlapped'
      BY <2>1 DEF StepOf, Start, CreateKey, WriteKey, AdoptKey, ReadKey, JudgeUnusable, ReplaceKey,
         LoadHeader, Replay, ChooseLayout, StartV3, WriteRecord, Stop
    <3>3. ~overlapped' => Solo'
      BY <2>1, <3>2, SoloStart, SoloLogKept, SoloLogGrows DEF RecoverInv, StepOf
    <3> QED BY <3>1, <3>3 DEF RecoverInv
  <2>2. CASE UNCHANGED vars
    BY <2>2 DEF RecoverInv, RecoverTypes, Attributes, Solo, Live, OneLayout, KeyOfRecords, AttributesAgree, HasHeader,
       Usable, vars, memory
  <2> QED BY <2>1, <2>2 DEF Next, StepOf
<1>2. RecoverInv => Recoverable
  <2> SUFFICES ASSUME RecoverInv, ~overlapped, NEW i \in DOMAIN disk, disk[i].kind = "rec",
                      ~(disk[i].key = FirstKey /\ keyFile = Short)
               PROVE  Reads(keyFile, i)
    BY DEF Recoverable
  <2>1. disk \in Seq(Item) /\ OneLayout /\ disk[i].key = keyFile
    BY DEF RecoverInv, RecoverTypes, Solo, KeyOfRecords
  <2>2. \A j \in 2..i : j \in DOMAIN disk /\ j # 1
    BY <2>1
  <2>3. \A j \in 2..i : disk[j].kind # "hdr"
    BY <2>1, <2>2 DEF OneLayout
  <2> QED BY <2>1, <2>3 DEF OneLayout, Reads
<1> QED BY <1>1, <1>2, RecoverInit, PTL DEF Spec
=============================================================================
