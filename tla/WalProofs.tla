----------------------------- MODULE WalProofs -----------------------------
(***************************************************************************)
(* Proofs about module Wal, for every value of its bounds: the type        *)
(* invariant, the order of the sequence numbers that replay returns, the   *)
(* durability of acknowledged records in an undamaged file, and the        *)
(* absence of rolled-back records.                                         *)
(***************************************************************************)
EXTENDS Wal, SequenceTheorems, TLAPS

-----------------------------------------------------------------------------
(***************************************************************************)
(* The inductive invariant.                                                *)
(***************************************************************************)

\* The header is written at the start of the file only, and the buffer holds
\* whole records.
Shape ==
  /\ \A i \in DOMAIN disk :
       /\ i > 1 => disk[i].kind \in {"rec", "torn"}
       /\ disk[i].kind \notin {"rec", "torn"} => disk[i].fmt = "v3"
  /\ \A b \in DOMAIN buffer : buffer[b].kind = "rec"

\* Outside a transaction nothing is buffered, and no transaction outlives its
\* process.
Txn ==
  /\ ~active => buffer = <<>> /\ ~tried
  /\ ~up => ~active

\* Identities: buffered records are neither in the file (before a commit has
\* been tried) nor among the discarded ones.
Fresh ==
  /\ \A i \in DOMAIN disk : disk[i].id < nextId /\ disk[i].id \notin discarded
  /\ \A b \in DOMAIN buffer :
       /\ buffer[b].id \in 1..(nextId - 1)
       /\ buffer[b].id \notin discarded
       /\ ~tried => \A i \in DOMAIN disk : disk[i].id # buffer[b].id
  /\ discarded \subseteq 1..(nextId - 1)

\* Everything in a file, and everything about to be written to it, has the
\* layout that the start of the file announces.
LayoutOf(f) ==
  /\ \A i \in DOMAIN disk : disk[i].fmt = f
  /\ \A b \in DOMAIN buffer : buffer[b].fmt = f

Layout ==
  /\ (up /\ ~v3 /\ ~legacy) => buffer = <<>>
  /\ (up /\ disk = <<>>) => ~legacy /\ \A b \in DOMAIN buffer : buffer[b].fmt # "v2"
  /\ (disk # <<>> /\ disk[1].kind = "hdr") =>
       LayoutOf("v3") /\ (up => v3 /\ ~legacy /\ salt = "own")
  /\ (disk # <<>> /\ disk[1].fmt = "v2") =>
       disk[1].kind = "rec" /\ LayoutOf("v2") /\ (up => legacy)

AckedOnDisk ==
  \A a \in acked : \E i \in DOMAIN disk : disk[i].kind = "rec" /\ disk[i].id = a

\* Ahead of the first tear the file, then the buffer, are ordered by LSN.
Order ==
  ~retried =>
    /\ \A i, j \in Sure(disk) : i < j => disk[i].lsn < disk[j].lsn
    /\ up => \A i \in Sure(disk) : disk[i].lsn <= lsn
    /\ ~tried => \A i \in Sure(disk), b \in DOMAIN buffer : disk[i].lsn < buffer[b].lsn

BufferOrder ==
  /\ \A a, b \in DOMAIN buffer : a < b => buffer[a].lsn < buffer[b].lsn
  /\ \A b \in DOMAIN buffer : buffer[b].lsn <= lsn

Inv == TypeOK /\ Shape /\ Txn /\ Fresh /\ Layout /\ AckedOnDisk /\ BufferOrder /\ Order

-----------------------------------------------------------------------------
(***************************************************************************)
(* What a write, finished or interrupted, adds to the file.                *)
(***************************************************************************)

\* t is what some write of items left behind.
PartOf(t, items) ==
  /\ t \in Seq(Chunk)
  /\ Len(t) <= Len(items)
  /\ \A k \in DOMAIN t :
       /\ t[k].fmt = items[k].fmt /\ t[k].lsn = items[k].lsn /\ t[k].id = items[k].id
       /\ \/ t[k].kind = items[k].kind
          \/ Torn(t[k]) /\ (items[k].kind # "hdr" <=> t[k].kind = "torn")

\* A torn chunk keeps the layout, number and identity of the whole one (which
\* nothing can read any more).
LEMMA TornPartsType ==
  ASSUME NEW c \in Chunk, NEW p \in TornParts(c)
  PROVE  /\ p \in Chunk
         /\ p.fmt = c.fmt /\ p.lsn = c.lsn /\ p.id = c.id
         /\ Torn(p)
         /\ c.kind # "hdr" <=> p.kind = "torn"
BY DEF TornParts, Chunk, Torn

\* A finished write leaves all of its items.
LEMMA WholeWrite ==
  ASSUME NEW items \in Seq(Chunk)
  PROVE  PartOf(items, items)
BY DEF PartOf

\* An interrupted write (_write_disk, _start_v3) appends to the file, and what
\* it appends is a part of its items.
LEMMA InterruptedWrite ==
  ASSUME NEW d \in Seq(Chunk), NEW items \in Seq(Chunk), NEW e \in Interrupted(d, items)
  PROVE  \E t : PartOf(t, items) /\ e = d \o t
<1>1. CASE e \in {d \o SubSeq(items, 1, k) : k \in 0..Len(items)}
  <2>1. PICK k \in 0..Len(items) : e = d \o SubSeq(items, 1, k)
    BY <1>1
  <2>2. PartOf(SubSeq(items, 1, k), items)
    BY DEF PartOf
  <2> QED BY <2>1, <2>2
<1>2. CASE e \in UNION {{d \o Append(SubSeq(items, 1, k - 1), t) : t \in TornParts(items[k])} :
                         k \in 1..Len(items)}
  <2>0. PICK k \in 1..Len(items) :
          e \in {d \o Append(SubSeq(items, 1, k - 1), t) : t \in TornParts(items[k])}
    BY <1>2
  <2>1. PICK p \in TornParts(items[k]) : e = d \o Append(SubSeq(items, 1, k - 1), p)
    BY <2>0
  <2> DEFINE t == Append(SubSeq(items, 1, k - 1), p)
  <2>2. items[k] \in Chunk
    OBVIOUS
  <2>3. /\ p \in Chunk /\ p.fmt = items[k].fmt /\ p.lsn = items[k].lsn /\ p.id = items[k].id
        /\ Torn(p) /\ (items[k].kind # "hdr" <=> p.kind = "torn")
    BY <2>2, TornPartsType
  <2>4. t \in Seq(Chunk) /\ Len(t) = k
    BY <2>3
  <2>5. \A j \in 1..(k - 1) : t[j] = items[j]
    OBVIOUS
  <2>6. t[k] = p
    OBVIOUS
  <2>7. PartOf(t, items)
    BY <2>3, <2>4, <2>5, <2>6 DEF PartOf
  <2> QED BY <2>1, <2>7
<1> QED BY <1>1, <1>2 DEF Interrupted

\* The elements of a longer file.
LEMMA Concat ==
  ASSUME NEW d \in Seq(Chunk), NEW t \in Seq(Chunk)
  PROVE  /\ d \o t \in Seq(Chunk)
         /\ Len(d \o t) = Len(d) + Len(t)
         /\ DOMAIN (d \o t) = 1..(Len(d) + Len(t))
         /\ \A i \in DOMAIN d : i \in DOMAIN (d \o t) /\ (d \o t)[i] = d[i] /\ d[i] \in Chunk
         /\ \A i \in DOMAIN (d \o t) :
              i \notin DOMAIN d => /\ i - Len(d) \in DOMAIN t
                                  /\ (d \o t)[i] = t[i - Len(d)]
                                  /\ t[i - Len(d)] \in Chunk
OBVIOUS

\* Position i of the file d extended by t was readable before, or is new.
WasSure(d, t, i) == i \in Sure(d) /\ (d \o t)[i] = d[i]
NewlySure(d, t, i) ==
  /\ i \notin DOMAIN d
  /\ i - Len(d) \in DOMAIN t
  /\ (d \o t)[i] = t[i - Len(d)]
  /\ t[i - Len(d)].kind = "rec"

\* Appending to a file makes no record ahead of the end readable that was not
\* (a file whose format changes by it starts with a tear).
LEMMA SureConcat ==
  ASSUME NEW d \in Seq(Chunk), NEW t \in Seq(Chunk), NEW i \in Sure(d \o t)
  PROVE  WasSure(d, t, i) \/ NewlySure(d, t, i)
<1> DEFINE e == d \o t
<1>1. i \in DOMAIN e /\ Opens(e, i) /\ Intact(e, i)
  BY DEF Sure
<1>2. CASE i \notin DOMAIN d
  BY <1>1, <1>2, Concat DEF Opens, NewlySure
<1>3. CASE i \in DOMAIN d
  <2>1. e[i] = d[i] /\ 1 \in DOMAIN d /\ e[1] = d[1] /\ d # <<>> /\ i \in Nat /\ i >= 1
    BY <1>3, Concat
  <2>2. e # <<>>
    BY <2>1, Concat
  <2>3. \A j \in 1..i : e[j] = d[j]
    BY <1>3, Concat
  <2>4. Intact(d, i)
    BY <1>1, <2>3 DEF Intact
  <2>5. ~Torn(e[1])
    BY <1>1, <2>1 DEF Intact
  <2>6. FileFormat(e) = FileFormat(d)
    BY <2>1, <2>2, <2>5 DEF FileFormat, Torn
  <2>7. Opens(d, i)
    BY <1>1, <2>1, <2>6 DEF Opens
  <2> QED BY <1>3, <2>1, <2>4, <2>7 DEF Sure, WasSure
<1> QED BY <1>2, <1>3

\* A file stays ordered when what is appended is ordered and above it.
LEMMA OrderedConcat ==
  ASSUME NEW d \in Seq(Chunk), NEW t \in Seq(Chunk),
         \A i, j \in Sure(d) : i < j => d[i].lsn < d[j].lsn,
         \A k, l \in DOMAIN t : (k < l /\ t[k].kind = "rec" /\ t[l].kind = "rec")
                                 => t[k].lsn < t[l].lsn,
         \A i \in Sure(d), k \in DOMAIN t : t[k].kind = "rec" => d[i].lsn < t[k].lsn
  PROVE  \A i, j \in Sure(d \o t) : i < j => (d \o t)[i].lsn < (d \o t)[j].lsn
<1> SUFFICES ASSUME NEW i \in Sure(d \o t), NEW j \in Sure(d \o t), i < j
             PROVE  (d \o t)[i].lsn < (d \o t)[j].lsn
  OBVIOUS
<1>0. i \in Nat /\ j \in Nat /\ Sure(d) \subseteq DOMAIN d /\ DOMAIN d = 1..Len(d) /\ Len(d) \in Nat /\ i >= 1
  BY Concat DEF Sure
<1>1. (WasSure(d, t, i) \/ NewlySure(d, t, i)) /\ (WasSure(d, t, j) \/ NewlySure(d, t, j))
  BY SureConcat, Zenon
<1>2. CASE WasSure(d, t, i) /\ WasSure(d, t, j)
  BY <1>2 DEF WasSure
<1>3. CASE WasSure(d, t, i) /\ NewlySure(d, t, j)
  BY <1>3 DEF WasSure, NewlySure
<1>4. CASE NewlySure(d, t, i) /\ NewlySure(d, t, j)
  BY <1>0, <1>4 DEF NewlySure
<1>5. ~(NewlySure(d, t, i) /\ WasSure(d, t, j))
  BY <1>0 DEF WasSure, NewlySure
<1> QED BY <1>1, <1>2, <1>3, <1>4, <1>5

-----------------------------------------------------------------------------
(***************************************************************************)
(* What the steps of append and of commit add to the file.                 *)
(***************************************************************************)
AppendTail(t) ==
  /\ t \in Seq(Chunk)
  /\ \A k \in DOMAIN t :
       \/ /\ k = 1 /\ NeedsHeader
          /\ t[k].kind \in {"hdr", "thdr", "thdr4"}
          /\ t[k].fmt = "v3" /\ t[k].id = 0
       \/ /\ k = (IF NeedsHeader THEN 2 ELSE 1)
          /\ t[k].kind \in {"rec", "torn"}
          /\ t[k].fmt = Sealed_format /\ t[k].lsn = lsn + 1 /\ t[k].id = nextId

CommitTail(t) ==
  /\ t \in Seq(Chunk)
  /\ Len(t) <= Len(buffer)
  /\ \A k \in DOMAIN t :
       /\ t[k].kind \in {"rec", "torn"}
       /\ t[k].fmt = buffer[k].fmt /\ t[k].lsn = buffer[k].lsn /\ t[k].id = buffer[k].id

\* The chunks append hands to the disk are well formed.
LEMMA AppendItems ==
  ASSUME TypeOK
  PROVE  /\ HeaderWrite \in Seq(Chunk)
         /\ NextRecord \in Chunk /\ <<NextRecord>> \in Seq(Chunk)
         /\ disk \o HeaderWrite \in Seq(Chunk)
         /\ AppendTail(HeaderWrite)
         /\ AppendTail(HeaderWrite \o <<NextRecord>>)
<1>0. Header \in Chunk
  BY DEF Header, Chunk, Formats
<1>1. HeaderWrite \in Seq(Chunk)
  BY <1>0 DEF HeaderWrite
<1>2. NextRecord \in Chunk
  BY DEF TypeOK, NextRecord, Record, Chunk, Formats, Sealed_format
<1>3. AppendTail(HeaderWrite)
  BY <1>1 DEF AppendTail, HeaderWrite, Header
<1>4. AppendTail(HeaderWrite \o <<NextRecord>>)
  BY <1>1, <1>2 DEF AppendTail, HeaderWrite, Header, NextRecord, Record
<1> QED BY <1>1, <1>2, <1>3, <1>4 DEF TypeOK

\* Every part of what append writes is an AppendTail.
LEMMA AppendParts ==
  ASSUME TypeOK, disk' \in AppendInterrupted
  PROVE  \E t : AppendTail(t) /\ disk' = disk \o t
<1> USE AppendItems
<1>1. CASE NeedsHeader /\ disk' \in Interrupted(disk, HeaderWrite)
  <2>1. PICK t : PartOf(t, HeaderWrite) /\ disk' = disk \o t
    BY <1>1, InterruptedWrite DEF TypeOK
  <2>2. AppendTail(t)
    BY <1>1, <2>1 DEF PartOf, AppendTail, HeaderWrite, Header, Torn
  <2> QED BY <2>1, <2>2
<1>2. CASE disk' \in Interrupted(disk \o HeaderWrite, <<NextRecord>>)
  <2>1. PICK t : PartOf(t, <<NextRecord>>) /\ disk' = (disk \o HeaderWrite) \o t
    BY <1>2, InterruptedWrite
  <2>2. disk' = disk \o (HeaderWrite \o t)
    <3>1. disk \in Seq(Chunk) /\ HeaderWrite \in Seq(Chunk) /\ t \in Seq(Chunk)
      BY <2>1 DEF TypeOK, PartOf
    <3>2. (disk \o HeaderWrite) \o t = disk \o (HeaderWrite \o t)
      BY ONLY <3>1, ConcatAssociative
    <3> QED BY <2>1, <3>2
  <2>3. AppendTail(HeaderWrite \o t)
    BY <2>1 DEF PartOf, AppendTail, HeaderWrite, Header, NextRecord, Record, Torn
  <2> QED BY <2>2, <2>3
<1> QED BY <1>1, <1>2 DEF AppendInterrupted

\* Every part of what commit writes is a CommitTail.
LEMMA CommitParts ==
  ASSUME TypeOK, Shape, disk' \in Interrupted(disk, buffer)
  PROVE  \E t : CommitTail(t) /\ disk' = disk \o t
<1>1. PICK t : PartOf(t, buffer) /\ disk' = disk \o t
  BY InterruptedWrite DEF TypeOK
<1>2. CommitTail(t)
  <2>1. t \in Seq(Chunk) /\ buffer \in Seq(Chunk) /\ Len(t) <= Len(buffer)
    BY <1>1 DEF PartOf, TypeOK
  <2>2. ASSUME NEW k \in DOMAIN t
        PROVE  /\ t[k].kind \in {"rec", "torn"}
               /\ t[k].fmt = buffer[k].fmt /\ t[k].lsn = buffer[k].lsn /\ t[k].id = buffer[k].id
    <3>1. k \in DOMAIN buffer
      BY <2>1
    <3>2. buffer[k].kind = "rec"
      BY <3>1 DEF Shape
    <3> QED BY <1>1, <3>2 DEF PartOf
  <2> QED BY <2>1, <2>2 DEF CommitTail
<1> QED BY <1>1, <1>2

-----------------------------------------------------------------------------
(***************************************************************************)
(* The invariant holds initially.                                          *)
(***************************************************************************)
\* An empty file, or one of the older version, read by nobody yet.
LEMMA InitInv == Init => Inv
<1> SUFFICES ASSUME Init PROVE Inv
  OBVIOUS
<1>1. PICK n \in 0..MaxLegacy :
        /\ disk = [i \in 1..n |-> Record("v2", i, i)]
        /\ nextId = n + 1
        /\ acked = 1..n
  BY DEF Init
<1>2. /\ up = FALSE /\ lsn = 0 /\ v3 = FALSE /\ legacy = FALSE /\ salt = "none"
      /\ active = FALSE /\ buffer = <<>> /\ batches = {} /\ discarded = {}
      /\ tried = FALSE /\ retried = FALSE /\ faults = 0
  BY DEF Init
<1>3. n \in Nat /\ DOMAIN disk = 1..n /\ Len(disk) = n
  BY <1>1, BoundsAssumption
<1>4. \A i \in 1..n : /\ disk[i] \in Chunk /\ disk[i].kind = "rec" /\ disk[i].fmt = "v2"
                      /\ disk[i].lsn = i /\ disk[i].id = i
  BY <1>1, <1>3 DEF Record, Chunk, Formats
<1>5. disk \in Seq(Chunk)
  BY <1>1, <1>3, <1>4
<1>6. TypeOK
  <2>1. nextId \in Nat \ {0} /\ faults \in 0..MaxFaults /\ acked \subseteq Nat
    BY <1>1, <1>2, <1>3, BoundsAssumption
  <2>2. batches \subseteq SUBSET Nat /\ discarded \subseteq Nat
    BY <1>2
  <2>3. lsn \in Nat /\ buffer \in Seq(Chunk) /\ salt \in Salts
    BY <1>2 DEF Salts
  <2> QED BY <1>2, <1>5, <2>1, <2>2, <2>3 DEF TypeOK
<1>7. Shape /\ Txn /\ BufferOrder
  BY <1>2, <1>3, <1>4 DEF Shape, Txn, BufferOrder
<1>8. Fresh
  BY <1>1, <1>2, <1>3, <1>4 DEF Fresh
<1>9. Layout
  BY <1>2, <1>3, <1>4, <1>5 DEF Layout, LayoutOf
<1>10. AckedOnDisk
  BY <1>1, <1>3, <1>4 DEF AckedOnDisk
<1>11. Order
  BY <1>2, <1>3, <1>4 DEF Order, Sure
<1> QED BY <1>6, <1>7, <1>8, <1>9, <1>10, <1>11 DEF Inv

-----------------------------------------------------------------------------
(***************************************************************************)
(* The steps that leave the file alone.                                    *)
(***************************************************************************)

\* Reopening: the recovered number is at least every LSN ahead of the first
\* tear, and the flags agree with the start of the file.
LEMMA OpenInv == ASSUME Inv, Open PROVE Inv'
<1> USE DEF Inv
<1>1. /\ disk' = disk /\ buffer' = <<>> /\ active' = FALSE /\ up' = TRUE /\ up = FALSE
      /\ nextId' = nextId /\ acked' = acked /\ batches' = batches /\ discarded' = discarded
      /\ tried' = tried /\ retried' = retried /\ faults' = faults
  BY DEF Open, ghosts, TypeOK
<1>2. ~active /\ ~tried /\ buffer = <<>>
  BY <1>1 DEF Txn
<1>3. PICK S \in Replays(disk) : \E n \in LsnsOf(disk, S) \cup {0} :
        (\A m \in LsnsOf(disk, S) : m <= n) /\ lsn' = n
  BY DEF Open, InitLsn
<1>4. Sure(disk) \subseteq S /\ S \subseteq DOMAIN disk
  BY <1>3 DEF Replays, Sure, Chance
<1>5. lsn' \in Nat /\ \A i \in Sure(disk) : disk[i].lsn <= lsn'
  <2>1. \A i \in DOMAIN disk : disk[i].lsn \in Nat
    <3>1. \A i \in DOMAIN disk : disk[i] \in Chunk
      BY DEF TypeOK
    <3> QED BY <3>1 DEF Chunk
  <2> QED BY <1>3, <1>4, <2>1 DEF LsnsOf
<1>6. TypeOK'
  <2>1. v3' \in BOOLEAN
    BY DEF Open, LoadHeader
  <2>3. legacy' \in BOOLEAN
    BY DEF Open, LoadHeader
  <2>2. salt' \in Salts
    BY DEF Open, LoadHeader, SaltOf, Salts
  <2>4. buffer' \in Seq(Chunk)
    BY <1>1
  <2> QED BY <1>1, <1>5, <2>1, <2>2, <2>3, <2>4, Zenon DEF TypeOK
<1>7. Shape' /\ Txn' /\ BufferOrder'
  BY <1>1, <1>2 DEF Shape, Txn, BufferOrder
<1>8. Fresh'
  BY <1>1 DEF Fresh
<1>9. Layout'
  <2>1. disk = <<>> => ~legacy'
    BY DEF Open, LoadHeader, FileFormat, SaltOf
  <2>2. disk # <<>> /\ disk[1].kind = "hdr" => v3' /\ ~legacy' /\ salt' = "own"
    BY DEF Open, LoadHeader, FileFormat, SaltOf
  <2>3. disk # <<>> /\ disk[1].fmt = "v2" => legacy'
    <3> HAVE disk # <<>> /\ disk[1].fmt = "v2"
    <3>3. disk[1].kind = "rec"
      BY DEF Layout
    <3>4. FileFormat(disk) = "v2"
      BY <3>3 DEF FileFormat
    <3> QED BY <3>3, <3>4 DEF Open, LoadHeader, Torn
  <2> QED BY <1>1, <1>2, <2>1, <2>2, <2>3 DEF Layout, LayoutOf
<1>10. AckedOnDisk'
  BY <1>1 DEF AckedOnDisk
<1>11. Order'
  BY <1>1, <1>2, <1>5 DEF Order
<1> QED BY <1>6, <1>7, <1>8, <1>9, <1>10, <1>11

\* begin, rollback and a crash between operations: the buffer is dropped, and
\* what it held is not in the file.
LEMMA DropInv ==
  ASSUME Inv, Begin \/ Rollback \/ Crash
  PROVE  Inv'
<1> USE DEF Inv
<1>1. /\ disk' = disk /\ nextId' = nextId /\ acked' = acked /\ batches' = batches
      /\ retried' = retried /\ faults' = faults
      /\ buffer' = <<>> /\ tried' = FALSE /\ Discard
  BY DEF Begin, Rollback, Crash, Dies
<1>2. \/ active' = TRUE /\ up' = TRUE
      \/ active' = FALSE /\ up' = TRUE
      \/ active' = FALSE /\ up' = FALSE
  BY DEF Begin, Rollback, Crash, Dies, TypeOK
<1>3. \/ up' = TRUE /\ up = TRUE /\ lsn' = lsn /\ v3' = v3 /\ legacy' = legacy /\ salt' = salt
      \/ up' = FALSE /\ lsn' = 0 /\ v3' = FALSE /\ legacy' = FALSE /\ salt' = "none"
  BY DEF Begin, Rollback, Crash, Dies, TypeOK
<1>4. \/ discarded' = discarded
      \/ ~tried /\ discarded' = discarded \cup IdsOf(buffer)
  BY <1>1 DEF Discard
<1>5. \A x \in IdsOf(buffer) : /\ x \in 1..(nextId - 1)
                               /\ ~tried => \A i \in DOMAIN disk : disk[i].id # x
  BY DEF Fresh, IdsOf
<1>5a. \A x \in discarded' : x \in discarded \/ (~tried /\ x \in IdsOf(buffer))
  BY <1>4
<1>5b. \A x \in discarded' : x \in 1..(nextId - 1)
  BY <1>5, <1>5a, Zenon DEF Fresh
<1>6. TypeOK'
  <2>1. lsn' \in Nat /\ salt' \in Salts
    BY <1>3 DEF TypeOK, Salts
  <2>2. v3' \in BOOLEAN /\ legacy' \in BOOLEAN /\ up' \in BOOLEAN /\ active' \in BOOLEAN
    BY <1>2, <1>3, Zenon DEF TypeOK
  <2>3. \A x \in discarded' : x \in Nat
    <3>1. nextId \in Nat
      BY DEF TypeOK
    <3> QED BY <3>1, <1>5b
  <2>4. buffer' \in Seq(Chunk)
    BY <1>1
  <2>5. tried' \in BOOLEAN
    BY <1>1
  <2> QED BY <1>1, <2>1, <2>2, <2>3, <2>4, <2>5, Zenon DEF TypeOK
<1>7. Shape' /\ BufferOrder'
  BY <1>1 DEF Shape, BufferOrder
<1>8. Txn'
  BY <1>1, <1>2 DEF Txn
<1>9. Fresh'
  <2>1. \A i \in DOMAIN disk : disk[i].id \notin discarded'
    BY <1>5a, <1>5, Zenon DEF Fresh
  <2> QED BY <1>1, <1>5b, <2>1 DEF Fresh
<1>10. Layout'
  BY <1>1, <1>3 DEF Layout, LayoutOf
<1>11. AckedOnDisk'
  BY <1>1 DEF AckedOnDisk
<1>12. Order'
  BY <1>1, <1>3 DEF Order
<1> QED BY <1>6, <1>7, <1>8, <1>9, <1>10, <1>11, <1>12

\* replay on an open log only adopts the salt of the file.
LEMMA ReplayInv == ASSUME Inv, Replay PROVE Inv'
<1> USE DEF Inv
<1>1. /\ disk' = disk /\ up' = up /\ lsn' = lsn /\ legacy' = legacy /\ active' = active
      /\ buffer' = buffer /\ nextId' = nextId /\ acked' = acked /\ batches' = batches
      /\ discarded' = discarded /\ tried' = tried /\ retried' = retried /\ faults' = faults
      /\ v3' = TRUE
  BY DEF Replay, ghosts
<1>2. TypeOK'
  <2>1. salt' \in Salts
    BY DEF Replay, SaltOf, Salts
  <2>2. v3' \in BOOLEAN
    BY <1>1
  <2> QED BY <1>1, <2>1, <2>2, Zenon DEF TypeOK
<1>3. Shape' /\ Txn' /\ BufferOrder'
  BY <1>1 DEF Shape, Txn, BufferOrder
<1>4. Fresh' /\ AckedOnDisk' /\ Order'
  BY <1>1 DEF Fresh, AckedOnDisk, Order
<1>5. Layout'
  <2>1. disk # <<>> /\ disk[1].kind = "hdr" => salt' = "own"
    BY DEF Replay, FileFormat, SaltOf
  <2> QED BY <1>1, <2>1 DEF Layout, LayoutOf
<1> QED BY <1>2, <1>3, <1>4, <1>5

-----------------------------------------------------------------------------
(***************************************************************************)
(* The steps of append.                                                    *)
(***************************************************************************)

\* What the layout of the file says of the record append is about to seal.
LEMMA SealedLayout ==
  ASSUME Inv, up
  PROVE  /\ NeedsHeader => /\ buffer = <<>> /\ Sealed_v3 /\ ~Sealed_legacy
                           /\ Sealed_salt = "own" /\ Sealed_format = "v3"
         /\ (disk = <<>> /\ ~NeedsHeader) => Sealed_format # "v2" /\ ~Sealed_legacy
         /\ (disk # <<>> /\ disk[1].kind = "hdr") =>
              Sealed_v3 /\ ~Sealed_legacy /\ Sealed_salt = "own" /\ Sealed_format = "v3"
         /\ (disk # <<>> /\ disk[1].fmt = "v2") => Sealed_legacy /\ Sealed_format = "v2"
         /\ Sealed_v3 \/ Sealed_legacy
<1>1. CASE disk = <<>>
  BY <1>1 DEF Inv, Layout, NeedsHeader, Sealed_v3, Sealed_legacy, Sealed_salt, Sealed_format
<1>2. CASE disk # <<>>
  BY <1>2 DEF Inv, Layout, NeedsHeader, Sealed_v3, Sealed_legacy, Sealed_salt, Sealed_format
<1> QED BY <1>1, <1>2

\* The file after any append, finished or not: its chunks ...
LEMMA AppendShape ==
  ASSUME Inv, NEW t, AppendTail(t), NEW e, e = disk \o t
  PROVE  /\ e \in Seq(Chunk)
         /\ \A i \in DOMAIN disk : i \in DOMAIN e /\ e[i] = disk[i]
         /\ \A i \in DOMAIN e :
              /\ i > 1 => e[i].kind \in {"rec", "torn"}
              /\ e[i].kind \notin {"rec", "torn"} => e[i].fmt = "v3"
              /\ (i \in DOMAIN disk /\ e[i] = disk[i]) \/ e[i].id \in {0, nextId}
<1> USE DEF Inv
<1>1. disk \in Seq(Chunk) /\ t \in Seq(Chunk) /\ lsn \in Nat /\ nextId \in Nat
  BY DEF TypeOK, AppendTail
<1>2. /\ e \in Seq(Chunk)
      /\ DOMAIN e = 1..(Len(disk) + Len(t))
      /\ \A i \in DOMAIN disk : i \in DOMAIN e /\ e[i] = disk[i]
      /\ \A i \in DOMAIN e :
           i \notin DOMAIN disk => i - Len(disk) \in DOMAIN t /\ e[i] = t[i - Len(disk)]
  BY <1>1, Concat
<1>3. NeedsHeader => Len(disk) = 0
  BY DEF NeedsHeader
<1>4. ASSUME NEW i \in DOMAIN e
      PROVE  /\ i > 1 => e[i].kind \in {"rec", "torn"}
             /\ e[i].kind \notin {"rec", "torn"} => e[i].fmt = "v3"
             /\ (i \in DOMAIN disk /\ e[i] = disk[i]) \/ e[i].id \in {0, nextId}
  <2>1. CASE i \in DOMAIN disk
    BY <1>2, <2>1 DEF Shape
  <2>2. CASE i \notin DOMAIN disk
    BY <1>1, <1>2, <1>3, <2>2 DEF AppendTail
  <2> QED BY <2>1, <2>2
<1> QED BY <1>2, <1>4

\* ... its layout ...
AppendedLayout(e) ==
  /\ (e # <<>> /\ e[1].kind = "hdr") =>
       /\ \A i \in DOMAIN e : e[i].fmt = "v3"
       /\ \A b \in DOMAIN buffer : buffer[b].fmt = "v3"
       /\ Sealed_v3 /\ ~Sealed_legacy /\ Sealed_salt = "own" /\ Sealed_format = "v3"
  /\ (e # <<>> /\ e[1].fmt = "v2") =>
       /\ \A i \in DOMAIN e : e[i].fmt = "v2"
       /\ \A b \in DOMAIN buffer : buffer[b].fmt = "v2"
       /\ e[1].kind = "rec" /\ Sealed_legacy /\ Sealed_format = "v2"
  /\ e = <<>> => disk = <<>>

\* ... their layouts ...
LEMMA AppendLayout ==
  ASSUME Inv, up, NEW t, AppendTail(t), NEW e, e = disk \o t
  PROVE  AppendedLayout(e)
<1> USE DEF Inv, AppendedLayout
<1>1. disk \in Seq(Chunk) /\ t \in Seq(Chunk)
  BY DEF TypeOK, AppendTail
<1>2. /\ e \in Seq(Chunk)
      /\ DOMAIN e = 1..(Len(disk) + Len(t))
      /\ \A i \in DOMAIN disk : i \in DOMAIN e /\ e[i] = disk[i]
      /\ \A i \in DOMAIN e :
           i \notin DOMAIN disk => i - Len(disk) \in DOMAIN t /\ e[i] = t[i - Len(disk)]
  BY <1>1, Concat
<1>3. e # <<>> => 1 \in DOMAIN e
  BY <1>2
<1>4. CASE NeedsHeader
  <2>1. disk = <<>> /\ e = t /\ buffer = <<>>
    BY <1>1, <1>4, SealedLayout DEF NeedsHeader
  <2>2. \A i \in DOMAIN e : e[i].fmt = "v3"
    BY <1>4, <2>1, SealedLayout DEF AppendTail
  <2> QED BY <1>3, <1>4, <2>1, <2>2, SealedLayout
<1>5. CASE disk = <<>> /\ ~NeedsHeader
  <2>1. e = t
    BY <1>1, <1>5
  <2>2. \A i \in DOMAIN e : e[i].kind # "hdr" /\ e[i].fmt # "v2"
    BY <1>5, <2>1, SealedLayout DEF AppendTail
  <2> QED BY <1>3, <1>5, <2>2
<1>6. CASE disk # <<>>
  <2>1. 1 \in DOMAIN disk /\ e[1] = disk[1] /\ e # <<>>
    BY <1>1, <1>2, <1>6
  <2>2. ~NeedsHeader
    BY <1>6 DEF NeedsHeader
  <2>3. \A i \in DOMAIN e : i \notin DOMAIN disk => e[i].fmt = Sealed_format
    BY <1>2, <2>2 DEF AppendTail
  <2>4. CASE disk[1].kind = "hdr"
    <3>1. LayoutOf("v3") /\ Sealed_v3 /\ ~Sealed_legacy /\ Sealed_salt = "own" /\ Sealed_format = "v3"
      BY <1>6, <2>4, SealedLayout DEF Layout
    <3>2. disk[1].fmt = "v3"
      BY <2>1, <3>1 DEF LayoutOf
    <3> QED BY <1>2, <2>1, <2>3, <3>1, <3>2 DEF LayoutOf
  <2>5. CASE disk[1].fmt = "v2"
    <3>1. disk[1].kind = "rec" /\ LayoutOf("v2") /\ Sealed_legacy /\ Sealed_format = "v2"
      BY <1>6, <2>5, SealedLayout DEF Layout
    <3> QED BY <1>2, <2>1, <2>3, <3>1 DEF LayoutOf
  <2> QED BY <2>1, <2>4, <2>5
<1> QED BY <1>4, <1>5, <1>6

\* ... and the order of its sequence numbers.
LEMMA AppendOrder ==
  ASSUME Inv, up, NEW t, AppendTail(t), NEW e, e = disk \o t
  PROVE  /\ \A i \in Sure(e) : \/ i \in Sure(disk) /\ e[i] = disk[i]
                               \/ e[i].lsn = lsn + 1
         /\ ~retried => \A i, j \in Sure(e) : i < j => e[i].lsn < e[j].lsn
<1> USE DEF Inv
<1>1. disk \in Seq(Chunk) /\ t \in Seq(Chunk) /\ lsn \in Nat
  BY DEF TypeOK, AppendTail
<1>2. \A k \in DOMAIN t : t[k].kind = "rec" =>
        t[k].lsn = lsn + 1 /\ k = (IF NeedsHeader THEN 2 ELSE 1)
  BY DEF AppendTail
<1>3. ASSUME NEW i \in Sure(e)
      PROVE  (i \in Sure(disk) /\ e[i] = disk[i]) \/ e[i].lsn = lsn + 1
  <2>1. WasSure(disk, t, i) \/ NewlySure(disk, t, i)
    BY <1>1, SureConcat, Zenon
  <2> QED BY <1>2, <2>1 DEF WasSure, NewlySure
<1>4. ASSUME ~retried
      PROVE  \A i, j \in Sure(e) : i < j => e[i].lsn < e[j].lsn
  <2>1. \A i, j \in Sure(disk) : i < j => disk[i].lsn < disk[j].lsn
    BY <1>4 DEF Order
  <2>2. \A i \in Sure(disk) : disk[i].lsn <= lsn /\ disk[i].lsn \in Nat
    <3>1. \A i \in DOMAIN disk : disk[i] \in Chunk
      BY <1>1
    <3> QED BY <1>4, <3>1 DEF Order, Sure, Chunk
  <2>3. \A k, l \in DOMAIN t : (k < l /\ t[k].kind = "rec" /\ t[l].kind = "rec")
                                 => t[k].lsn < t[l].lsn
    BY <1>1, <1>2
  <2>4. \A i \in Sure(disk), k \in DOMAIN t : t[k].kind = "rec" => disk[i].lsn < t[k].lsn
    BY <1>1, <1>2, <2>2
  <2> QED BY <1>1, <2>1, <2>3, <2>4, OrderedConcat
<1> QED BY <1>3, <1>4

\* The identities in the file after any append.
LEMMA AppendIds ==
  ASSUME Inv, NEW t, AppendTail(t), NEW e, e = disk \o t
  PROVE  \A i \in DOMAIN e : /\ e[i].id < nextId + 1
                             /\ e[i].id \notin discarded
                             /\ e[i].id \in IdsOf(disk) \cup {0, nextId}
<1> USE DEF Inv
<1>1. nextId \in Nat /\ nextId > 0
  BY DEF TypeOK
<1>2. nextId \notin discarded /\ 0 \notin discarded
  BY <1>1 DEF Fresh
<1> SUFFICES ASSUME NEW i \in DOMAIN e
             PROVE  /\ e[i].id < nextId + 1
                    /\ e[i].id \notin discarded
                    /\ e[i].id \in IdsOf(disk) \cup {0, nextId}
  OBVIOUS
<1>3. (i \in DOMAIN disk /\ e[i] = disk[i]) \/ e[i].id \in {0, nextId}
  BY AppendShape
<1>4. CASE i \in DOMAIN disk /\ e[i] = disk[i]
  <2>1. disk[i] \in Chunk
    BY <1>4 DEF TypeOK
  <2>2. disk[i].id \in Nat
    BY <2>1 DEF Chunk
  <2> QED BY <1>1, <1>4, <2>2 DEF Fresh, IdsOf
<1>5. CASE e[i].id \in {0, nextId}
  BY <1>1, <1>2, <1>5
<1> QED BY <1>3, <1>4, <1>5

\* The parts of the type invariant the steps below need.
LEMMA Types ==
  ASSUME TypeOK
  PROVE  /\ disk \in Seq(Chunk) /\ buffer \in Seq(Chunk)
         /\ lsn \in Nat /\ nextId \in Nat /\ nextId > 0
         /\ \A x \in acked : x \in Nat
         /\ \A i \in DOMAIN disk : disk[i].lsn \in Nat /\ disk[i].id \in Nat
         /\ \A b \in DOMAIN buffer : buffer[b].lsn \in Nat /\ buffer[b].id \in Nat
         /\ Sure(disk) \subseteq DOMAIN disk
<1>1. disk \in Seq(Chunk) /\ buffer \in Seq(Chunk)
  BY DEF TypeOK
<1>2. (\A i \in DOMAIN disk : disk[i] \in Chunk) /\ (\A b \in DOMAIN buffer : buffer[b] \in Chunk)
  BY <1>1
<1>3. lsn \in Nat /\ nextId \in Nat /\ nextId > 0
  BY DEF TypeOK
<1>4. \A x \in acked : x \in Nat
  BY Zenon DEF TypeOK
<1> QED BY <1>1, <1>2, <1>3, <1>4 DEF Chunk, Sure

\* Every append that leaves the process alive changes the attributes alike.
AppendFrame ==
  /\ up = TRUE /\ up' = up /\ active' = active /\ discarded' = discarded
  /\ batches' = batches /\ tried' = tried /\ retried' = retried
  /\ nextId' = nextId + 1 /\ lsn' = lsn + 1
  /\ v3' = Sealed_v3 /\ legacy' = Sealed_legacy /\ salt' = Sealed_salt

\* Such an append keeps the type invariant if it does of the file and the buffer.
LEMMA AppendFrameType ==
  ASSUME Inv, AppendFrame, disk' \in Seq(Chunk), buffer' \in Seq(Chunk), acked' \subseteq Nat,
         faults' \in 0..MaxFaults
  PROVE  TypeOK'
<1> USE DEF Inv, AppendFrame
<1>1. v3' \in BOOLEAN
  BY DEF Sealed_v3, NeedsHeader, TypeOK
<1>2. legacy' \in BOOLEAN
  BY DEF Sealed_legacy, TypeOK
<1>3. salt' \in Salts
  BY DEF Sealed_salt, Salts, TypeOK
<1>4. lsn' \in Nat /\ nextId' \in Nat \ {0}
  BY DEF TypeOK
<1> QED BY <1>1, <1>2, <1>3, <1>4, Zenon DEF TypeOK

\* append that returns or raises outside a transaction, and append in a
\* transaction that raises: the buffer is what it was.
LEMMA AppendFileInv ==
  ASSUME Inv, AppendFrame, NEW t, AppendTail(t), disk' = disk \o t, buffer' = buffer,
         faults' \in 0..MaxFaults,
         \/ acked' = acked
         \/ /\ acked' = acked \cup {nextId}
            /\ \E i \in DOMAIN disk' : disk'[i].kind = "rec" /\ disk'[i].id = nextId,
         tried \/ ~active \/ \A k \in DOMAIN t : t[k].id = 0
  PROVE  Inv'
<1> USE DEF Inv
<1>1. /\ disk \in Seq(Chunk) /\ buffer \in Seq(Chunk) /\ lsn \in Nat
      /\ nextId \in Nat /\ nextId > 0 /\ up
  BY DEF TypeOK, AppendFrame
<1>2. /\ disk' \in Seq(Chunk)
      /\ \A i \in DOMAIN disk : i \in DOMAIN disk' /\ disk'[i] = disk[i]
      /\ \A i \in DOMAIN disk' :
           /\ i > 1 => disk'[i].kind \in {"rec", "torn"}
           /\ disk'[i].kind \notin {"rec", "torn"} => disk'[i].fmt = "v3"
           /\ (i \in DOMAIN disk /\ disk'[i] = disk[i]) \/ disk'[i].id \in {0, nextId}
  BY AppendShape
<1>3. TypeOK'
  <2>1. \A x \in acked' : x \in Nat
    BY Types
  <2> QED BY <1>1, <1>2, <2>1, AppendFrameType
<1>4. Shape'
  BY <1>2 DEF Shape
<1>5. Txn'
  BY DEF Txn, AppendFrame
<1>6. Fresh'
  <2>1. \A i \in DOMAIN disk' : disk'[i].id < nextId' /\ disk'[i].id \notin discarded'
    BY AppendIds DEF AppendFrame
  <2>2. ASSUME NEW b \in DOMAIN buffer
        PROVE  /\ buffer[b].id \in 1..(nextId' - 1)
               /\ buffer[b].id \notin discarded'
    BY <1>1 DEF Fresh, AppendFrame
  <2>3. ASSUME NEW b \in DOMAIN buffer, ~tried, NEW i \in DOMAIN disk'
        PROVE  disk'[i].id # buffer[b].id
    <3>1. active
      BY <2>3 DEF Txn
    <3>2. (i \in DOMAIN disk /\ disk'[i] = disk[i]) \/ disk'[i].id = 0
      <4>1. t \in Seq(Chunk) /\ \A k \in DOMAIN t : t[k].id = 0
        BY <2>3, <3>1 DEF AppendTail
      <4>2. i \notin DOMAIN disk => i - Len(disk) \in DOMAIN t /\ disk'[i] = t[i - Len(disk)]
        BY <1>1, <2>3, <4>1, Concat
      <4> QED BY <1>2, <4>1, <4>2
    <3> QED BY <1>1, <2>3, <3>2 DEF Fresh
  <2>4. discarded' \subseteq 1..(nextId' - 1)
    BY <1>1 DEF Fresh, AppendFrame
  <2> QED BY <2>1, <2>2, <2>3, <2>4 DEF Fresh, AppendFrame
<1>7. Layout'
  <2>0. AppendedLayout(disk')
    BY <1>1, AppendLayout
  <2>1. Sealed_v3 \/ Sealed_legacy
    BY <1>1, SealedLayout
  <2>2. disk' = <<>> => disk = <<>> /\ ~Sealed_legacy
    BY <1>1, <2>0, SealedLayout, Zenon DEF AppendedLayout
  <2>3. (disk' # <<>> /\ disk'[1].kind = "hdr") =>
              /\ \A i \in DOMAIN disk' : disk'[i].fmt = "v3"
              /\ \A b \in DOMAIN buffer : buffer[b].fmt = "v3"
              /\ Sealed_v3 /\ ~Sealed_legacy /\ Sealed_salt = "own"
    BY <2>0, Zenon DEF AppendedLayout
  <2>4. (disk' # <<>> /\ disk'[1].fmt = "v2") =>
              /\ \A i \in DOMAIN disk' : disk'[i].fmt = "v2"
              /\ \A b \in DOMAIN buffer : buffer[b].fmt = "v2"
              /\ disk'[1].kind = "rec" /\ Sealed_legacy
    BY <2>0, Zenon DEF AppendedLayout
  <2> QED BY <1>1, <2>1, <2>2, <2>3, <2>4 DEF Layout, LayoutOf, AppendFrame
<1>8. AckedOnDisk'
  BY <1>2 DEF AckedOnDisk
<1>9. BufferOrder'
  BY Types DEF BufferOrder, AppendFrame
<1>10. Order'
  <2>1. /\ \A i \in Sure(disk') : \/ i \in Sure(disk) /\ disk'[i] = disk[i]
                                  \/ disk'[i].lsn = lsn + 1
        /\ ~retried => \A i, j \in Sure(disk') : i < j => disk'[i].lsn < disk'[j].lsn
    BY <1>1, AppendOrder
  <2>2. ~retried => \A i \in Sure(disk') : disk'[i].lsn <= lsn + 1
    <3> SUFFICES ASSUME ~retried, NEW i \in Sure(disk')
                 PROVE  disk'[i].lsn <= lsn + 1
      OBVIOUS
    <3>1. CASE i \in Sure(disk) /\ disk'[i] = disk[i]
      <4>1. disk[i].lsn <= lsn
        BY <1>1, <3>1 DEF Order
      <4>2. disk[i].lsn \in Nat
        BY <3>1, Types
      <4> QED BY <1>1, <3>1, <4>1, <4>2
    <3>2. CASE disk'[i].lsn = lsn + 1
      BY ONLY <1>1, <3>2
    <3> QED BY <2>1, <3>1, <3>2, Zenon
  <2>3. ASSUME ~retried, ~tried, NEW i \in Sure(disk'), NEW b \in DOMAIN buffer
        PROVE  disk'[i].lsn < buffer[b].lsn
    <3>1. active
      BY <2>3 DEF Txn
    <3>2. WasSure(disk, t, i) \/ NewlySure(disk, t, i)
      BY <1>1, SureConcat, Zenon DEF AppendTail
    <3>3. ~NewlySure(disk, t, i)
      <4>1. \A k \in DOMAIN t : t[k].id = 0
        BY <2>3, <3>1, Zenon
      <4>2. \A k \in DOMAIN t : t[k].kind # "rec"
        BY ONLY <1>1, <4>1, AppendTail(t) DEF AppendTail
      <4> QED BY <4>2 DEF NewlySure
    <3> QED BY <2>3, <3>2, <3>3 DEF WasSure, Order
  <2> QED BY <2>1, <2>2, <2>3 DEF Order, AppendFrame
<1> QED BY <1>3, <1>4, <1>5, <1>6, <1>7, <1>8, <1>9, <1>10

\* append in a transaction that returns: only the header, if it is due, goes to
\* the file, and the record joins the buffer.
LEMMA AppendBufferInv ==
  ASSUME Inv, AppendFrame, active, disk' = disk \o HeaderWrite,
         buffer' = Append(buffer, NextRecord), acked' = acked, faults' = faults
  PROVE  Inv'
<1>a. AppendTail(HeaderWrite) /\ up
  BY AppendItems, Zenon DEF Inv, AppendFrame
<1>0. AppendedLayout(disk')
  BY <1>a, AppendLayout, Zenon
<1> USE DEF Inv
<1>1. /\ disk \in Seq(Chunk) /\ buffer \in Seq(Chunk) /\ lsn \in Nat
      /\ nextId \in Nat /\ nextId > 0 /\ up
  BY DEF TypeOK, AppendFrame
<1>2. /\ HeaderWrite \in Seq(Chunk) /\ AppendTail(HeaderWrite) /\ NextRecord \in Chunk
      /\ \A k \in DOMAIN HeaderWrite : HeaderWrite[k].id = 0 /\ HeaderWrite[k].kind # "rec"
  BY AppendItems DEF HeaderWrite, Header
<1>3. /\ disk' \in Seq(Chunk)
      /\ \A i \in DOMAIN disk : i \in DOMAIN disk' /\ disk'[i] = disk[i]
      /\ \A i \in DOMAIN disk' :
           /\ i > 1 => disk'[i].kind \in {"rec", "torn"}
           /\ disk'[i].kind \notin {"rec", "torn"} => disk'[i].fmt = "v3"
  BY <1>2, AppendShape
<1>4. /\ buffer' \in Seq(Chunk) /\ DOMAIN buffer' = 1..(Len(buffer) + 1)
      /\ DOMAIN buffer = 1..Len(buffer) /\ Len(buffer) \in Nat
      /\ \A b \in DOMAIN buffer : buffer'[b] = buffer[b]
      /\ buffer'[Len(buffer) + 1] = NextRecord
  BY <1>1, <1>2
<1>5. /\ NextRecord.kind = "rec" /\ NextRecord.lsn = lsn + 1
      /\ NextRecord.id = nextId /\ NextRecord.fmt = Sealed_format
  BY DEF NextRecord, Record
<1>6. \A b \in DOMAIN buffer' : \/ b \in DOMAIN buffer /\ buffer'[b] = buffer[b]
                                \/ b = Len(buffer) + 1 /\ buffer'[b] = NextRecord
  BY ONLY <1>4
<1>7. TypeOK'
  <2>1. \A x \in acked' : x \in Nat
    BY Types
  <2>2. faults' \in 0..MaxFaults
    BY DEF TypeOK
  <2> QED BY <1>3, <1>4, <2>1, <2>2, AppendFrameType
<1>8. Shape'
  BY <1>3, <1>5, <1>6 DEF Shape
<1>9. Txn'
  BY DEF Txn, AppendFrame
<1>10. Fresh'
  <2>1. \A i \in DOMAIN disk' : disk'[i].id < nextId' /\ disk'[i].id \notin discarded'
    BY <1>2, AppendIds DEF AppendFrame
  <2>2. discarded' \subseteq 1..(nextId' - 1)
    BY <1>1 DEF Fresh, AppendFrame
  <2>3. ASSUME NEW i \in DOMAIN disk'
        PROVE  (i \in DOMAIN disk /\ disk'[i] = disk[i]) \/ disk'[i].id = 0
    BY <1>1, <1>2, Concat
  <2>4. ASSUME NEW b \in DOMAIN buffer'
        PROVE  /\ buffer'[b].id \in 1..(nextId' - 1)
               /\ buffer'[b].id \notin discarded'
               /\ ~tried => \A i \in DOMAIN disk' : disk'[i].id # buffer'[b].id
    <3>1. CASE b \in DOMAIN buffer /\ buffer'[b] = buffer[b]
      BY <1>1, <2>3, <3>1 DEF Fresh, AppendFrame
    <3>2. CASE buffer'[b] = NextRecord
      <4>1. nextId \notin discarded
        BY <1>1 DEF Fresh
      <4>2. \A i \in DOMAIN disk' : disk'[i].id # nextId
        BY <1>1, <2>3, Types DEF Fresh
      <4> QED BY <1>1, <1>5, <3>2, <4>1, <4>2 DEF AppendFrame
    <3> QED BY <1>6, <3>1, <3>2
  <2> QED BY <2>1, <2>2, <2>4 DEF Fresh, AppendFrame
<1>11. Layout'
  <2>1. Sealed_v3 \/ Sealed_legacy
    BY <1>1, SealedLayout
  <2>2. disk' = <<>> => ~Sealed_legacy /\ Sealed_format # "v2" /\ disk = <<>>
    <3>1. disk' = <<>> => disk = <<>> /\ HeaderWrite = <<>>
      <4>1. Len(disk') = Len(disk) + Len(HeaderWrite) /\ disk' \in Seq(Chunk)
        BY <1>1, <1>2, Concat
      <4> QED BY ONLY <1>1, <1>2, <4>1
    <3>2. HeaderWrite = <<>> => ~NeedsHeader
      BY DEF HeaderWrite
    <3> QED BY <1>1, <3>1, <3>2, SealedLayout
  <2>3. \A f : (\A b \in DOMAIN buffer : buffer[b].fmt = f) /\ Sealed_format = f
                 => \A b \in DOMAIN buffer' : buffer'[b].fmt = f
    BY ONLY <1>5, <1>6
  <2>4. disk' = <<>> => \A b \in DOMAIN buffer' : buffer'[b].fmt # "v2"
    BY <1>1, <1>5, <1>6, <2>2 DEF Layout
  <2> QED BY <1>1, <2>1, <2>2, <2>3, <2>4, <1>0 DEF Layout, LayoutOf, AppendFrame, AppendedLayout
<1>12. AckedOnDisk'
  BY <1>3 DEF AckedOnDisk
<1>13. BufferOrder'
  BY <1>4, <1>5, <1>6, Types DEF BufferOrder, AppendFrame
<1>14. Order'
  <2>1. ASSUME NEW i \in Sure(disk')
        PROVE  i \in Sure(disk) /\ disk'[i] = disk[i]
    <3>1. WasSure(disk, HeaderWrite, i) \/ NewlySure(disk, HeaderWrite, i)
      BY <1>1, <1>2, SureConcat, Zenon
    <3> QED BY <1>2, <3>1 DEF WasSure, NewlySure
  <2>2. ASSUME ~retried, NEW i \in Sure(disk')
        PROVE  disk'[i].lsn \in Nat /\ disk'[i].lsn <= lsn
    <3>1. disk[i].lsn <= lsn
      BY <1>1, <2>1, <2>2 DEF Order
    <3> QED BY <2>1, <3>1, Types
  <2>3. ASSUME ~retried, ~tried, NEW i \in Sure(disk'), NEW b \in DOMAIN buffer'
        PROVE  disk'[i].lsn < buffer'[b].lsn
    <3>1. CASE b \in DOMAIN buffer /\ buffer'[b] = buffer[b]
      BY <2>1, <2>3, <3>1 DEF Order
    <3>2. CASE buffer'[b] = NextRecord
      <4>1. disk'[i].lsn \in Nat /\ disk'[i].lsn <= lsn
        BY <2>2, <2>3, Zenon
      <4> QED BY ONLY <1>1, <1>5, <3>2, <4>1
    <3> QED BY <1>6, <3>1, <3>2
  <2>4. ASSUME ~retried, NEW i \in Sure(disk'), NEW j \in Sure(disk'), i < j
        PROVE  disk'[i].lsn < disk'[j].lsn
    BY <2>1, <2>4 DEF Order
  <2>5. ASSUME ~retried, NEW i \in Sure(disk')
        PROVE  disk'[i].lsn <= lsn + 1
    <3>1. disk'[i].lsn \in Nat /\ disk'[i].lsn <= lsn
      BY <2>2, <2>5, Zenon
    <3> QED BY ONLY <1>1, <3>1
  <2> QED BY <2>3, <2>4, <2>5 DEF Order, AppendFrame
<1> QED BY <1>7, <1>8, <1>9, <1>10, <1>11, <1>12, <1>13, <1>14

\* append() that returns.
LEMMA AppendRecordInv == ASSUME Inv, AppendRecord PROVE Inv'
<1>1. AppendFrame /\ faults' = faults
  <2>1. up = TRUE
    BY DEF AppendRecord, TakeLsn, Inv, TypeOK
  <2> QED BY <2>1, Zenon DEF AppendRecord, TakeLsn, AppendFrame
<1>2. CASE active /\ disk' = disk \o HeaderWrite /\ buffer' = Append(buffer, NextRecord) /\ acked' = acked
  BY <1>1, <1>2, AppendBufferInv
<1>3. CASE /\ ~active
           /\ disk' = (disk \o HeaderWrite) \o <<NextRecord>>
           /\ acked' = acked \cup {nextId}
           /\ buffer' = buffer
  <2> DEFINE t == HeaderWrite \o <<NextRecord>>
  <2>1. /\ disk \in Seq(Chunk) /\ HeaderWrite \in Seq(Chunk) /\ <<NextRecord>> \in Seq(Chunk)
        /\ disk \o HeaderWrite \in Seq(Chunk)
    BY AppendItems, Types, Zenon DEF Inv
  <2>2. AppendTail(t)
    BY AppendItems, Zenon DEF Inv
  <2>3. disk' = disk \o t
    <3>1. (disk \o HeaderWrite) \o <<NextRecord>> = disk \o (HeaderWrite \o <<NextRecord>>)
      BY ONLY <2>1, ConcatAssociative
    <3> QED BY <1>3, <3>1, Zenon
  <2>4. \E i \in DOMAIN disk' : disk'[i].kind = "rec" /\ disk'[i].id = nextId
    <3>1. /\ Len(disk \o HeaderWrite) + 1 \in DOMAIN disk'
          /\ disk'[Len(disk \o HeaderWrite) + 1] = NextRecord
      BY ONLY <1>3, <2>1
    <3> QED BY <3>1 DEF NextRecord, Record
  <2>5. faults' \in 0..MaxFaults
    BY <1>1 DEF Inv, TypeOK
  <2> HIDE DEF t
  <2> QED BY <1>1, <1>3, <2>2, <2>3, <2>4, <2>5, AppendFileInv, Zenon
<1> QED BY <1>2, <1>3, Zenon DEF AppendRecord

\* append() that raises.
LEMMA AppendRaisesInv == ASSUME Inv, AppendRaises PROVE Inv'
<1>1. AppendFrame /\ buffer' = buffer /\ acked' = acked
  <2>1. up = TRUE
    BY DEF AppendRaises, TakeLsn, Inv, TypeOK
  <2> QED BY <2>1, Zenon DEF AppendRaises, TakeLsn, AppendFrame
<1>2. faults' \in 0..MaxFaults
  BY BoundsAssumption DEF AppendRaises, Fault, Inv, TypeOK
<1>3. TypeOK /\ disk' \in AppendInterrupted
  BY Zenon DEF AppendRaises, Inv
<1>4. PICK t : AppendTail(t) /\ disk' = disk \o t
              /\ (~active \/ \A k \in DOMAIN t : t[k].id = 0)
  <2>1. CASE ~active
    BY <1>3, <2>1, AppendParts, Zenon
  <2>2. CASE active
    <3>1. NeedsHeader /\ disk' \in Interrupted(disk, HeaderWrite)
      BY <1>3, <2>2, Zenon DEF AppendInterrupted
    <3>2. disk \in Seq(Chunk) /\ HeaderWrite \in Seq(Chunk)
      BY <1>3, Types, AppendItems, Zenon
    <3>3. PICK t : PartOf(t, HeaderWrite) /\ disk' = disk \o t
      BY <3>1, <3>2, InterruptedWrite, Zenon
    <3>4. AppendTail(t) /\ \A k \in DOMAIN t : t[k].id = 0
      BY <3>1, <3>2, <3>3 DEF PartOf, AppendTail, HeaderWrite, Header, Torn
    <3> QED BY <3>3, <3>4
  <2> QED BY <2>1, <2>2
<1> QED BY <1>1, <1>2, <1>4, AppendFileInv, Zenon

-----------------------------------------------------------------------------
(***************************************************************************)
(* The steps in which the process dies while it writes, and those of       *)
(* commit.                                                                 *)
(***************************************************************************)

\* What a file must satisfy for the invariant to hold once nobody has it open.
SoundFile(d, n, gone) ==
  /\ d \in Seq(Chunk)
  /\ \A i \in DOMAIN disk : i \in DOMAIN d /\ d[i] = disk[i]
  /\ \A i \in DOMAIN d :
       /\ i > 1 => d[i].kind \in {"rec", "torn"}
       /\ d[i].kind \notin {"rec", "torn"} => d[i].fmt = "v3"
       /\ d[i].id < n
       /\ d[i].id \notin gone
  /\ (d # <<>> /\ d[1].kind = "hdr") => \A i \in DOMAIN d : d[i].fmt = "v3"
  /\ (d # <<>> /\ d[1].fmt = "v2") => d[1].kind = "rec" /\ \A i \in DOMAIN d : d[i].fmt = "v2"

\* A process that dies leaves the invariant in place if it leaves a sound file.
LEMMA DownInv ==
  ASSUME Inv,
         up' = FALSE, lsn' = 0, v3' = FALSE, legacy' = FALSE, salt' = "none",
         active' = FALSE, buffer' = <<>>, tried' = FALSE, acked' = acked,
         nextId' \in Nat \ {0}, faults' \in 0..MaxFaults,
         batches' \subseteq SUBSET Nat, retried' \in BOOLEAN,
         discarded' \subseteq 1..(nextId' - 1),
         SoundFile(disk', nextId', discarded'),
         ~retried' => \A i, j \in Sure(disk') : i < j => disk'[i].lsn < disk'[j].lsn
  PROVE  Inv'
<1>1. disk' \in Seq(Chunk) /\ \A i \in DOMAIN disk : i \in DOMAIN disk' /\ disk'[i] = disk[i]
  BY DEF SoundFile
<1>2. TypeOK'
  <2>1. acked' \subseteq Nat
    BY Zenon DEF Inv, TypeOK
  <2>2. discarded' \subseteq Nat
    <3>1. \A x \in 1..(nextId' - 1) : x \in Nat
      BY ONLY nextId' \in Nat \ {0}
    <3> QED BY <3>1, Zenon
  <2>3. lsn' \in Nat /\ buffer' \in Seq(Chunk) /\ salt' \in Salts
    BY DEF Salts
  <2>4. up' \in BOOLEAN /\ v3' \in BOOLEAN /\ legacy' \in BOOLEAN /\ active' \in BOOLEAN
        /\ tried' \in BOOLEAN
    BY Zenon
  <2> QED BY <1>1, <2>1, <2>2, <2>3, <2>4, Zenon DEF TypeOK
<1>3. Shape' /\ Txn' /\ BufferOrder'
  BY DEF SoundFile, Shape, Txn, BufferOrder
<1>4. Fresh'
  <2>1. \A b \in DOMAIN buffer' : FALSE
    BY ONLY buffer' = <<>>
  <2> QED BY <2>1, Zenon DEF SoundFile, Fresh
<1>5. Layout'
  BY DEF SoundFile, Layout, LayoutOf
<1>6. AckedOnDisk'
  BY <1>1 DEF Inv, AckedOnDisk
<1>7. Order'
  BY DEF Order
<1> QED BY <1>2, <1>3, <1>4, <1>5, <1>6, <1>7 DEF Inv

\* The process dies while append() writes.
LEMMA AppendDiesInv == ASSUME Inv, AppendDies PROVE Inv'
<1>1. /\ up' = FALSE /\ lsn' = 0 /\ v3' = FALSE /\ legacy' = FALSE /\ salt' = "none"
      /\ active' = FALSE /\ buffer' = <<>> /\ tried' = FALSE /\ acked' = acked
      /\ batches' = batches /\ retried' = retried /\ nextId' = nextId + 1
  BY DEF AppendDies, Dies
<1>2. TypeOK /\ up /\ disk' \in AppendInterrupted /\ Discard
  BY Zenon DEF AppendDies, Dies, Inv
<1>3. PICK t : AppendTail(t) /\ disk' = disk \o t
  BY <1>2, AppendParts, Zenon
<1>4. faults' \in 0..MaxFaults
  BY <1>2, BoundsAssumption DEF AppendDies, Fault, TypeOK
<1>5. nextId' \in Nat \ {0} /\ nextId \in Nat /\ nextId > 0
  BY <1>1, <1>2, Types
<1>6. batches' \subseteq SUBSET Nat /\ retried' \in BOOLEAN
  BY <1>1, <1>2, Zenon DEF TypeOK
<1>7. \A x \in discarded' : x \in discarded \/ (~tried /\ \E b \in DOMAIN buffer : x = buffer[b].id)
  BY <1>2 DEF Discard, IdsOf
<1>8. discarded' \subseteq 1..(nextId' - 1)
  <2>1. \A x \in discarded : x \in 1..(nextId - 1)
    BY DEF Inv, Fresh
  <2>2. \A b \in DOMAIN buffer : buffer[b].id \in 1..(nextId - 1)
    BY DEF Inv, Fresh
  <2> QED BY <1>1, <1>5, <1>7, <2>1, <2>2
<1>9. \A i \in DOMAIN disk' : disk'[i].id < nextId' /\ disk'[i].id \notin discarded'
  <2> SUFFICES ASSUME NEW i \in DOMAIN disk'
               PROVE  disk'[i].id < nextId' /\ disk'[i].id \notin discarded'
    OBVIOUS
  <2>1. /\ disk'[i].id < nextId + 1 /\ disk'[i].id \notin discarded
        /\ disk'[i].id \in IdsOf(disk) \cup {0, nextId}
    BY <1>3, AppendIds, Zenon
  <2>2. ~tried => \A b \in DOMAIN buffer : disk'[i].id # buffer[b].id
    BY <1>5, <2>1 DEF Inv, Fresh, IdsOf
  <2> QED BY <1>1, <1>7, <2>1, <2>2
<1>10. SoundFile(disk', nextId', discarded')
  <2>1. AppendedLayout(disk')
    BY <1>2, <1>3, AppendLayout, Zenon
  <2>2. /\ disk' \in Seq(Chunk)
        /\ \A i \in DOMAIN disk : i \in DOMAIN disk' /\ disk'[i] = disk[i]
        /\ \A i \in DOMAIN disk' :
             /\ i > 1 => disk'[i].kind \in {"rec", "torn"}
             /\ disk'[i].kind \notin {"rec", "torn"} => disk'[i].fmt = "v3"
    BY <1>3, AppendShape
  <2> QED BY <1>9, <2>1, <2>2 DEF SoundFile, AppendedLayout
<1>11. ~retried' => \A i, j \in Sure(disk') : i < j => disk'[i].lsn < disk'[j].lsn
  BY <1>1, <1>2, <1>3, AppendOrder
<1> QED BY <1>1, <1>4, <1>5, <1>6, <1>8, <1>10, <1>11, DownInv, Zenon

\* The file after any commit, finished or not.
LEMMA CommitFile ==
  ASSUME Inv, up, active, NEW t, CommitTail(t), NEW e, e = disk \o t
  PROVE  SoundFile(e, nextId, discarded)
<1>1. /\ disk \in Seq(Chunk) /\ buffer \in Seq(Chunk) /\ nextId \in Nat
      /\ t \in Seq(Chunk) /\ Len(t) <= Len(buffer)
  BY Types DEF Inv, CommitTail
<1>2. /\ e \in Seq(Chunk)
      /\ DOMAIN e = 1..(Len(disk) + Len(t))
      /\ \A i \in DOMAIN disk : i \in DOMAIN e /\ e[i] = disk[i]
      /\ \A i \in DOMAIN e :
           i \notin DOMAIN disk => i - Len(disk) \in DOMAIN t /\ e[i] = t[i - Len(disk)]
  BY <1>1, Concat
<1>3. \A k \in DOMAIN t :
        /\ k \in DOMAIN buffer
        /\ t[k].kind \in {"rec", "torn"} /\ t[k].fmt = buffer[k].fmt
        /\ t[k].id = buffer[k].id
  BY <1>1 DEF CommitTail
<1>4. ASSUME NEW i \in DOMAIN e
      PROVE  \/ i \in DOMAIN disk /\ e[i] = disk[i]
             \/ /\ i \notin DOMAIN disk
                /\ e[i].kind \in {"rec", "torn"}
                /\ \E b \in DOMAIN buffer : e[i].fmt = buffer[b].fmt /\ e[i].id = buffer[b].id
  BY <1>2, <1>3
<1>5. ASSUME NEW i \in DOMAIN e
      PROVE  /\ i > 1 => e[i].kind \in {"rec", "torn"}
             /\ e[i].kind \notin {"rec", "torn"} => e[i].fmt = "v3"
             /\ e[i].id < nextId
             /\ e[i].id \notin discarded
  <2>1. CASE i \in DOMAIN disk /\ e[i] = disk[i]
    BY <2>1 DEF Inv, Shape, Fresh
  <2>2. CASE /\ i \notin DOMAIN disk
             /\ e[i].kind \in {"rec", "torn"}
             /\ \E b \in DOMAIN buffer : e[i].fmt = buffer[b].fmt /\ e[i].id = buffer[b].id
    <3>1. \A b \in DOMAIN buffer : buffer[b].id \in 1..(nextId - 1) /\ buffer[b].id \notin discarded
      BY Zenon DEF Inv, Fresh
    <3> QED BY ONLY <1>1, <2>2, <3>1
  <2> QED BY <1>4, <2>1, <2>2
<1>6. e # <<>> => 1 \in DOMAIN e
  BY <1>2
<1>7. (e # <<>> /\ e[1].kind = "hdr") => \A i \in DOMAIN e : e[i].fmt = "v3"
  <2> SUFFICES ASSUME e # <<>>, e[1].kind = "hdr" PROVE \A i \in DOMAIN e : e[i].fmt = "v3"
    OBVIOUS
  <2>1. 1 \in DOMAIN disk /\ e[1] = disk[1]
    BY <1>4, <1>6
  <2>2. LayoutOf("v3")
    BY <2>1 DEF Inv, Layout
  <2> QED BY <1>4, <2>2 DEF LayoutOf
<1>8. (e # <<>> /\ e[1].fmt = "v2") => e[1].kind = "rec" /\ \A i \in DOMAIN e : e[i].fmt = "v2"
  <2> SUFFICES ASSUME e # <<>>, e[1].fmt = "v2"
               PROVE  e[1].kind = "rec" /\ \A i \in DOMAIN e : e[i].fmt = "v2"
    OBVIOUS
  <2>1. 1 \in DOMAIN disk /\ e[1] = disk[1]
    <3>1. disk = <<>> => \A b \in DOMAIN buffer : buffer[b].fmt # "v2"
      BY DEF Inv, Layout
    <3>2. disk # <<>> => 1 \in DOMAIN disk
      BY <1>1
    <3> QED BY <1>2, <1>4, <1>6, <3>1, <3>2
  <2>2. disk[1].kind = "rec" /\ LayoutOf("v2")
    BY <2>1 DEF Inv, Layout
  <2> QED BY <1>4, <2>1, <2>2 DEF LayoutOf
<1> QED BY <1>2, <1>5, <1>7, <1>8 DEF SoundFile

\* A commit that is not a second try keeps the file in order.
LEMMA CommitOrder ==
  ASSUME Inv, up, active, NEW t, CommitTail(t), NEW e, e = disk \o t, ~(retried \/ tried)
  PROVE  /\ \A i, j \in Sure(e) : i < j => e[i].lsn < e[j].lsn
         /\ \A i \in Sure(e) : e[i].lsn <= lsn
<1>1. /\ disk \in Seq(Chunk) /\ buffer \in Seq(Chunk) /\ lsn \in Nat
      /\ t \in Seq(Chunk) /\ Len(t) <= Len(buffer)
  BY Types DEF Inv, CommitTail
<1>2. \A k \in DOMAIN t : k \in DOMAIN buffer /\ t[k].lsn = buffer[k].lsn
  BY <1>1 DEF CommitTail
<1>3. \A i, j \in Sure(disk) : i < j => disk[i].lsn < disk[j].lsn
  BY DEF Inv, Order
<1>4. \A k, l \in DOMAIN t : (k < l /\ t[k].kind = "rec" /\ t[l].kind = "rec")
                               => t[k].lsn < t[l].lsn
  BY <1>2 DEF Inv, BufferOrder
<1>5. \A i \in Sure(disk), k \in DOMAIN t : t[k].kind = "rec" => disk[i].lsn < t[k].lsn
  BY <1>2 DEF Inv, Order
<1>6. \A i, j \in Sure(e) : i < j => e[i].lsn < e[j].lsn
  BY <1>1, <1>3, <1>4, <1>5, OrderedConcat
<1>7. ASSUME NEW i \in Sure(e) PROVE e[i].lsn <= lsn
  <2>1. WasSure(disk, t, i) \/ NewlySure(disk, t, i)
    BY <1>1, SureConcat, Zenon
  <2>2. CASE WasSure(disk, t, i)
    BY <2>2 DEF WasSure, Inv, Order
  <2>3. CASE NewlySure(disk, t, i)
    BY <1>2, <2>3 DEF NewlySure, Inv, BufferOrder
  <2> QED BY <2>1, <2>2, <2>3
<1> QED BY <1>6, <1>7

\* The records handed to a commit.
LEMMA CommitBatch ==
  ASSUME Inv, StartCommit
  PROVE  /\ up = TRUE /\ active = TRUE
         /\ \A x \in IdsOf(buffer) : x \in Nat
         /\ batches' \subseteq SUBSET Nat
         /\ retried' \in BOOLEAN
<1>1. up = TRUE
  BY DEF StartCommit, Inv, TypeOK
<1>2. active = TRUE
  BY DEF StartCommit, Inv, TypeOK
<1>3. \A x \in IdsOf(buffer) : x \in Nat
  BY Types DEF IdsOf, Inv
<1>4. batches' \subseteq SUBSET Nat
  <2>1. IdsOf(buffer) \in SUBSET Nat
    BY <1>3, Zenon
  <2>2. batches \subseteq SUBSET Nat
    BY Zenon DEF Inv, TypeOK
  <2>3. batches' = batches \cup {IdsOf(buffer)}
    BY Zenon DEF StartCommit
  <2> QED BY <2>1, <2>2, <2>3, Zenon
<1>5. retried' \in BOOLEAN
  BY DEF StartCommit
<1> QED BY <1>1, <1>2, <1>3, <1>4, <1>5, Zenon

\* The process dies while commit() writes.
LEMMA CommitDiesInv == ASSUME Inv, CommitDies PROVE Inv'
<1>1. /\ up' = FALSE /\ lsn' = 0 /\ v3' = FALSE /\ legacy' = FALSE /\ salt' = "none"
      /\ active' = FALSE /\ buffer' = <<>> /\ tried' = FALSE /\ acked' = acked
      /\ nextId' = nextId /\ discarded' = discarded /\ retried' = (retried \/ tried)
  BY DEF CommitDies, StartCommit
<1>2. /\ up /\ active /\ TypeOK /\ Shape /\ disk' \in Interrupted(disk, buffer)
      /\ batches' \subseteq SUBSET Nat /\ retried' \in BOOLEAN
  BY CommitBatch, Zenon DEF CommitDies, Inv
<1>3. PICK t : CommitTail(t) /\ disk' = disk \o t
  BY <1>2, CommitParts, Zenon
<1>4. faults' \in 0..MaxFaults
  BY <1>2, BoundsAssumption DEF CommitDies, Fault, TypeOK
<1>5. nextId' \in Nat \ {0} /\ discarded' \subseteq 1..(nextId' - 1)
  BY <1>1, <1>2, Zenon DEF TypeOK, Inv, Fresh
<1>6. SoundFile(disk', nextId', discarded')
  BY <1>1, <1>2, <1>3, CommitFile, Zenon
<1>7. ~retried' => \A i, j \in Sure(disk') : i < j => disk'[i].lsn < disk'[j].lsn
  BY <1>1, <1>2, <1>3, CommitOrder
<1> QED BY <1>1, <1>2, <1>4, <1>5, <1>6, <1>7, DownInv, Zenon

\* A commit that leaves the process alive: what the file says of the attributes.
LEMMA CommitLayout ==
  ASSUME Inv, up, active, NEW t, CommitTail(t), NEW e, e = disk \o t
  PROVE  /\ e = <<>> => disk = <<>> /\ ~legacy
         /\ (e # <<>> /\ e[1].kind = "hdr") =>
              /\ v3 /\ ~legacy /\ salt = "own"
              /\ \A b \in DOMAIN buffer : buffer[b].fmt = "v3"
         /\ (e # <<>> /\ e[1].fmt = "v2") =>
              legacy /\ \A b \in DOMAIN buffer : buffer[b].fmt = "v2"
<1>1. /\ disk \in Seq(Chunk) /\ buffer \in Seq(Chunk)
      /\ t \in Seq(Chunk) /\ Len(t) <= Len(buffer)
  BY Types DEF Inv, CommitTail
<1>2. CASE disk = <<>>
  <2>1. e = t
    BY <1>1, <1>2
  <2>2. \A k \in DOMAIN t : t[k].kind # "hdr" /\ t[k].fmt # "v2"
    BY <1>1, <1>2 DEF CommitTail, Inv, Layout
  <2>3. t # <<>> => 1 \in DOMAIN t
    BY <1>1
  <2> QED BY <1>2, <2>1, <2>2, <2>3 DEF Inv, Layout
<1>3. CASE disk # <<>>
  <2>1. e # <<>> /\ e[1] = disk[1]
    BY <1>1, <1>3, Concat
  <2> QED BY <1>3, <2>1 DEF Inv, Layout, LayoutOf
<1> QED BY <1>2, <1>3

\* commit() that returns: the records are in the file, and the buffer is empty.
LEMMA CommitTxnInv == ASSUME Inv, CommitTxn PROVE Inv'
<1>1. /\ up' = up /\ lsn' = lsn /\ v3' = v3 /\ legacy' = legacy /\ salt' = salt
      /\ active' = FALSE /\ buffer' = <<>> /\ tried' = FALSE
      /\ acked' = acked \cup IdsOf(buffer) /\ disk' = disk \o buffer
      /\ nextId' = nextId /\ discarded' = discarded /\ faults' = faults
      /\ retried' = (retried \/ tried)
  BY DEF CommitTxn, StartCommit
<1>2. /\ up /\ active /\ TypeOK /\ Shape
      /\ batches' \subseteq SUBSET Nat /\ retried' \in BOOLEAN
      /\ \A x \in IdsOf(buffer) : x \in Nat
  BY CommitBatch, Zenon DEF CommitTxn, Inv
<1>3. disk \in Seq(Chunk) /\ buffer \in Seq(Chunk)
  BY <1>2, Types
<1>4. CommitTail(buffer)
  BY <1>2, <1>3 DEF CommitTail, Shape
<1>5. SoundFile(disk', nextId', discarded')
  BY <1>1, <1>2, <1>4, CommitFile, Zenon
<1>6. TypeOK'
  <2>1. \A x \in acked' : x \in Nat
    BY <1>1, <1>2, Types
  <2>2. acked' \subseteq Nat
    BY <2>1, Zenon
  <2>3. disk' \in Seq(Chunk) /\ buffer' \in Seq(Chunk)
    BY <1>1, <1>5 DEF SoundFile
  <2>4. active' \in BOOLEAN /\ tried' \in BOOLEAN
    BY <1>1, Zenon
  <2> QED BY <1>1, <1>2, <2>2, <2>3, <2>4, Zenon DEF TypeOK
<1>7. \A b \in DOMAIN buffer' : FALSE
  BY ONLY <1>1
<1>8. Shape'
  BY <1>5, <1>7 DEF SoundFile, Shape
<1>9. Txn' /\ BufferOrder'
  BY <1>1, <1>2, <1>7 DEF Txn, BufferOrder
<1>10. Fresh'
  <2>1. discarded' \subseteq 1..(nextId' - 1)
    BY <1>1, Zenon DEF Inv, Fresh
  <2> QED BY <1>5, <1>7, <2>1, Zenon DEF SoundFile, Fresh
<1>11. Layout'
  <2>1. /\ disk' = <<>> => ~legacy
        /\ (disk' # <<>> /\ disk'[1].kind = "hdr") => v3 /\ ~legacy /\ salt = "own"
        /\ (disk' # <<>> /\ disk'[1].fmt = "v2") => legacy
    BY <1>1, <1>2, <1>4, CommitLayout
  <2> QED BY <1>1, <1>5, <1>7, <2>1 DEF SoundFile, Layout, LayoutOf
<1>12. AckedOnDisk'
  <2>1. ASSUME NEW b \in DOMAIN buffer
        PROVE  \E i \in DOMAIN disk' : disk'[i].kind = "rec" /\ disk'[i].id = buffer[b].id
    <3>1. Len(disk) + b \in DOMAIN disk' /\ disk'[Len(disk) + b] = buffer[b]
      BY ONLY <1>1, <1>3, b \in DOMAIN buffer
    <3>2. buffer[b].kind = "rec"
      BY <1>2, Zenon DEF Shape
    <3> QED BY ONLY <3>1, <3>2
  <2>2. \A i \in DOMAIN disk : i \in DOMAIN disk' /\ disk'[i] = disk[i]
    BY <1>5 DEF SoundFile
  <2>3. \A x \in acked : \E i \in DOMAIN disk' : disk'[i].kind = "rec" /\ disk'[i].id = x
    BY <2>2, Zenon DEF Inv, AckedOnDisk
  <2>4. \A x \in IdsOf(buffer) : \E i \in DOMAIN disk' : disk'[i].kind = "rec" /\ disk'[i].id = x
    BY <2>1, Zenon DEF IdsOf
  <2> QED BY <1>1, <2>3, <2>4, Zenon DEF AckedOnDisk
<1>13. Order'
  <2>1. ~retried' => /\ \A i, j \in Sure(disk') : i < j => disk'[i].lsn < disk'[j].lsn
                     /\ \A i \in Sure(disk') : disk'[i].lsn <= lsn
    BY <1>1, <1>2, <1>4, CommitOrder
  <2> QED BY <1>1, <1>7, <2>1 DEF Order
<1> QED BY <1>6, <1>8, <1>9, <1>10, <1>11, <1>12, <1>13 DEF Inv

\* commit() that raises: the transaction stays as it was.
LEMMA CommitRaisesInv == ASSUME Inv, CommitRaises PROVE Inv'
<1>1. /\ up' = up /\ lsn' = lsn /\ v3' = v3 /\ legacy' = legacy /\ salt' = salt
      /\ active' = active /\ buffer' = buffer /\ tried' = TRUE /\ acked' = acked
      /\ nextId' = nextId /\ discarded' = discarded /\ retried' = (retried \/ tried)
  BY DEF CommitRaises, StartCommit, memory
<1>2. /\ up /\ active /\ TypeOK /\ Shape /\ disk' \in Interrupted(disk, buffer)
      /\ batches' \subseteq SUBSET Nat /\ retried' \in BOOLEAN
  BY CommitBatch, Zenon DEF CommitRaises, Inv
<1>3. PICK t : CommitTail(t) /\ disk' = disk \o t
  BY <1>2, CommitParts, Zenon
<1>4. faults' \in 0..MaxFaults
  BY <1>2, BoundsAssumption DEF CommitRaises, Fault, TypeOK
<1>5. SoundFile(disk', nextId', discarded')
  BY <1>1, <1>2, <1>3, CommitFile, Zenon
<1>6. TypeOK'
  <2>1. disk' \in Seq(Chunk)
    BY <1>5 DEF SoundFile
  <2>2. tried' \in BOOLEAN
    BY <1>1, Zenon
  <2> QED BY <1>1, <1>2, <1>4, <2>1, <2>2, Zenon DEF TypeOK
<1>7. Shape' /\ Txn' /\ BufferOrder'
  <2>1. Shape'
    BY <1>1, <1>2, <1>5 DEF SoundFile, Shape
  <2> QED BY <1>1, <1>2, <2>1 DEF Inv, Txn, BufferOrder
<1>8. Fresh'
  BY <1>1, <1>5, Zenon DEF SoundFile, Fresh, Inv
<1>9. Layout'
  <2>1. /\ disk' = <<>> => disk = <<>> /\ ~legacy
        /\ (disk' # <<>> /\ disk'[1].kind = "hdr") =>
             /\ v3 /\ ~legacy /\ salt = "own"
             /\ \A b \in DOMAIN buffer : buffer[b].fmt = "v3"
        /\ (disk' # <<>> /\ disk'[1].fmt = "v2") =>
             legacy /\ \A b \in DOMAIN buffer : buffer[b].fmt = "v2"
    BY <1>2, <1>3, CommitLayout
  <2>2. disk' = <<>> => \A b \in DOMAIN buffer : buffer[b].fmt # "v2"
    BY <1>2, <2>1 DEF Inv, Layout
  <2>3. (~v3 /\ ~legacy) => buffer = <<>>
    BY <1>2 DEF Inv, Layout
  <2> QED BY <1>1, <1>5, <2>1, <2>2, <2>3 DEF SoundFile, Layout, LayoutOf
<1>10. AckedOnDisk'
  BY <1>1, <1>5 DEF SoundFile, Inv, AckedOnDisk
<1>11. Order'
  <2>1. ~retried' => /\ \A i, j \in Sure(disk') : i < j => disk'[i].lsn < disk'[j].lsn
                     /\ \A i \in Sure(disk') : disk'[i].lsn <= lsn
    BY <1>1, <1>2, <1>3, CommitOrder
  <2> QED BY <1>1, <2>1 DEF Order
<1> QED BY <1>6, <1>7, <1>8, <1>9, <1>10, <1>11 DEF Inv

-----------------------------------------------------------------------------
(***************************************************************************)
(* The theorems.                                                           *)
(***************************************************************************)

\* Steps that change nothing.
LEMMA StutterInv == ASSUME Inv, UNCHANGED vars PROVE Inv'
<1>1. /\ disk' = disk /\ up' = up /\ lsn' = lsn /\ v3' = v3 /\ legacy' = legacy
      /\ salt' = salt /\ active' = active /\ buffer' = buffer /\ nextId' = nextId
      /\ acked' = acked /\ batches' = batches /\ discarded' = discarded
      /\ tried' = tried /\ retried' = retried /\ faults' = faults
  BY DEF vars, memory, ghosts
<1>2. TypeOK'
  BY <1>1, Zenon DEF Inv, TypeOK
<1>3. Shape'
  BY <1>1, Zenon DEF Inv, Shape
<1>4. Txn'
  BY <1>1, Zenon DEF Inv, Txn
<1>5. Fresh'
  BY <1>1, Zenon DEF Inv, Fresh
<1>6. AckedOnDisk'
  BY <1>1, Zenon DEF Inv, AckedOnDisk
<1>7. Layout'
  BY <1>1, Zenon DEF Inv, Layout, LayoutOf
<1>8. BufferOrder' /\ Order'
  BY <1>1, Zenon DEF Inv, BufferOrder, Order
<1> QED BY <1>2, <1>3, <1>4, <1>5, <1>6, <1>7, <1>8 DEF Inv

\* The inductive invariant holds in every state the log and its file reach,
\* whatever the bounds.
THEOREM Invariance == Spec => []Inv
<1>1. Init => Inv
  BY InitInv
<1>2. Inv /\ [Next]_vars => Inv'
  <2> SUFFICES ASSUME Inv, [Next]_vars PROVE Inv'
    OBVIOUS
  <2>1. CASE Open         BY <2>1, OpenInv
  <2>2. CASE Begin        BY <2>2, DropInv
  <2>3. CASE AppendRecord BY <2>3, AppendRecordInv
  <2>4. CASE AppendRaises BY <2>4, AppendRaisesInv
  <2>5. CASE AppendDies   BY <2>5, AppendDiesInv
  <2>6. CASE CommitTxn    BY <2>6, CommitTxnInv
  <2>7. CASE CommitRaises BY <2>7, CommitRaisesInv
  <2>8. CASE CommitDies   BY <2>8, CommitDiesInv
  <2>9. CASE Rollback     BY <2>9, DropInv
  <2>10. CASE Replay      BY <2>10, ReplayInv
  <2>11. CASE Crash       BY <2>11, DropInv
  <2>12. CASE UNCHANGED vars BY <2>12, StutterInv
  <2> QED BY <2>1, <2>2, <2>3, <2>4, <2>5, <2>6, <2>7, <2>8, <2>9, <2>10, <2>11, <2>12 DEF Next
<1> QED BY <1>1, <1>2, PTL DEF Spec

\* Type correctness of core/wal.py's attributes, its file and the history.
THEOREM TypeCorrect == Spec => []TypeOK
<1>1. Inv => TypeOK
  BY DEF Inv
<1> QED BY <1>1, Invariance, PTL

\* What replay returns from ahead of the first tear is in the order of its
\* sequence numbers, and an open log is never behind it (_init_lsn, append,
\* commit), unless a transaction was committed again after its commit raised.
THEOREM ReplayIsOrdered == Spec => []ReplayOrdered
<1>1. Inv => ReplayOrdered
  BY DEF Inv, Order, ReplayOrdered
<1> QED BY <1>1, Invariance, PTL

\* In an undamaged file replay returns every acknowledged record: the layouts
\* of _encrypt, _encrypt_v2 and _load_v3_header never meet in one file.
THEOREM AcknowledgedIsDurable == Spec => []AckedDurable
<1>1. Inv => AckedDurable
  <2> SUFFICES ASSUME Inv, Undamaged(disk), NEW a \in acked
               PROVE  a \in IdsAt(disk, Sure(disk))
    BY DEF AckedDurable
  <2>1. PICK i \in DOMAIN disk : disk[i].kind = "rec" /\ disk[i].id = a
    BY DEF Inv, AckedOnDisk
  <2>2. disk \in Seq(Chunk) /\ disk # <<>> /\ \A j \in DOMAIN disk : ~Torn(disk[j])
    BY Types DEF Undamaged, Inv
  <2>3. FileFormat(disk) = disk[i].fmt
    <3>1. CASE disk[1].kind = "hdr"
      BY <2>2, <3>1 DEF FileFormat, Inv, Layout, LayoutOf
    <3>2. CASE disk[1].kind # "hdr" /\ disk[1].fmt = "v2"
      BY <2>2, <3>2 DEF FileFormat, Inv, Layout, LayoutOf
    <3> QED BY <3>1, <3>2 DEF Undamaged
  <2>4. Intact(disk, i)
    BY <2>2 DEF Intact
  <2>5. i \in Sure(disk)
    BY <2>1, <2>3, <2>4 DEF Sure, Opens
  <2> QED BY <2>1, <2>5 DEF IdsAt
<1> QED BY <1>1, Invariance, PTL

\* What begin, rollback or a crash dropped from the buffer is never in the file.
THEOREM RolledBackIsAbsent == Spec => []DiscardedAbsent
<1>1. Inv => DiscardedAbsent
  BY DEF Inv, Fresh, DiscardedAbsent, IdsOf
<1> QED BY <1>1, Invariance, PTL
=============================================================================
