-------------------------------- MODULE Wal --------------------------------
(***************************************************************************)
(* core/wal.py: the encrypted transactional write-ahead log, one process,  *)
(* any number of threads.                                                  *)
(*                                                                         *)
(* Every public method of TransactionalWAL holds self._lock from its first *)
(* to its last statement, so the interleavings of threads are exactly the  *)
(* sequences of whole operations.  What is not atomic is the disk: a       *)
(* process may die, and a write or an fsync may raise, in the middle of    *)
(* any operation that writes, leaving a prefix of the bytes behind.        *)
(*                                                                         *)
(* The log file is a sequence of chunks.  A chunk stands for the bytes of  *)
(* one write that belong together: the 20-byte v3 file header, one record  *)
(* (4-byte length, then the sealed payload), or the torn part of either.   *)
(* Keys are fixed here (module WalKey is about how they are chosen), so a  *)
(* sealed payload is what its layout and salt are: "v3" under the salt of  *)
(* the file header, "v3g" under the garbage a torn header yields, "v2".    *)
(***************************************************************************)
EXTENDS Integers, Sequences

CONSTANTS MaxAppends,  \* bound on the records ever created
          MaxFaults,   \* bound on the writes that are interrupted
          WritesRaise, \* TRUE: an interrupted write may also raise in a process that lives on
          MaxLegacy    \* longest v2 log an older version may have left

ASSUME BoundsAssumption ==
  /\ MaxAppends \in Nat
  /\ MaxFaults \in Nat
  /\ WritesRaise \in BOOLEAN
  /\ MaxLegacy \in 0..MaxAppends

VARIABLES
  disk,     \* the log file
  up,       \* TRUE while a process has the log open
  lsn,      \* self._lsn
  v3,       \* self._v3
  legacy,   \* self._legacy
  salt,     \* self._salt: "none", "own" (drawn for this file) or "garbage"
  active,   \* self._active_txn
  buffer,   \* self._txn_buffer
  \* History, read by no operation:
  nextId,   \* identity of the next record
  acked,    \* records whose append or commit returned to the caller
  batches,  \* the sets of records handed to one commit
  discarded,\* records dropped by begin, rollback or a crash, never committed
  tried,    \* a commit of the present transaction has raised
  retried,  \* a transaction whose commit had raised was committed again
  faults    \* number of interrupted writes so far

memory == <<lsn, v3, legacy, salt, active, buffer>>
ghosts == <<nextId, acked, batches, discarded, tried, retried, faults>>
vars == <<disk, up, memory, ghosts>>

Formats == {"v2", "v3", "v3g"}
Salts == {"none", "own", "garbage"}

Record(f, n, i) == [kind |-> "rec", fmt |-> f, lsn |-> n, id |-> i]
Header == [kind |-> "hdr", fmt |-> "v3", lsn |-> 0, id |-> 0]

\* What an interrupted write may leave of a chunk.  A torn header that still
\* holds its four magic bytes ("thdr4") is told apart from a shorter one.
TornParts(c) == IF c.kind = "hdr" THEN {[c EXCEPT !.kind = "thdr"], [c EXCEPT !.kind = "thdr4"]}
                                  ELSE {[c EXCEPT !.kind = "torn"]}

Chunk == [kind : {"hdr", "thdr", "thdr4", "rec", "torn"},
          fmt : Formats, lsn : Nat, id : Nat]

Torn(c) == c.kind \in {"torn", "thdr", "thdr4"}

-----------------------------------------------------------------------------
(***************************************************************************)
(* Reading the file.                                                       *)
(***************************************************************************)

\* What replay and _load_v3_header take the file for.  A torn header followed
\* by anything makes 20 bytes that start with the magic: a v3 log whose salt
\* is whatever followed.
FileFormat(d) ==
  IF d = <<>> THEN "none"
  ELSE IF d[1].kind = "hdr" THEN "v3"
  ELSE IF d[1].kind = "thdr4" /\ Len(d) >= 2 THEN "v3g"
  ELSE "v2"

\* The salt such a file gives to the process that reads it.
SaltOf(f) == IF f = "v3" THEN "own" ELSE IF f = "v3g" THEN "garbage" ELSE "none"

Intact(d, i) == \A j \in 1..i : ~Torn(d[j])

Opens(d, i) == d[i].kind = "rec" /\ d[i].fmt = FileFormat(d)

\* The records replay returns in every case: ahead of the first tear the
\* length prefixes lead from record to record, and a record that does not
\* decrypt is skipped.
Sure(d) == {i \in DOMAIN d : Opens(d, i) /\ Intact(d, i)}

\* Behind a tear the parser reads ciphertext as a length.  It nearly always
\* stops there; it may also swallow bytes until it meets the start of a later
\* record.  The record right behind a tear is always swallowed, and a file
\* that starts with fewer than four bytes of the header is never parsed (its
\* first length exceeds _MAX_RECORD_BYTES whatever follows).
Chance(d) == {i \in DOMAIN d : /\ Opens(d, i)
                               /\ ~Intact(d, i)
                               /\ d[1].kind # "thdr"
                               /\ ~Torn(d[i - 1])}

Replays(d) == {Sure(d) \cup S : S \in SUBSET Chance(d)}

LsnsOf(d, S) == {d[i].lsn : i \in S}
IdsOf(s) == {s[i].id : i \in DOMAIN s}
IdsAt(d, S) == {d[i].id : i \in S}

-----------------------------------------------------------------------------
(***************************************************************************)
(* Writing the file.                                                       *)
(***************************************************************************)

\* Everything a write of the chunks in items may leave behind when it raises
\* or the process dies in it: any number of whole chunks (all of them when
\* only the fsync failed), then perhaps a part of the next one.
Interrupted(d, items) ==
  {d \o SubSeq(items, 1, k) : k \in 0..Len(items)} \cup
  UNION {{d \o Append(SubSeq(items, 1, k - 1), t) : t \in TornParts(items[k])} :
           k \in 1..Len(items)}

\* _encrypt: which layout the next record gets, and what it does on the way.
NeedsHeader == ~legacy /\ ~v3 /\ disk = <<>>
Sealed_legacy == legacy \/ (~v3 /\ disk # <<>>)
Sealed_v3 == v3 \/ NeedsHeader
Sealed_salt == IF NeedsHeader THEN "own" ELSE salt
Sealed_format == IF Sealed_legacy THEN "v2"
                 ELSE IF Sealed_salt = "own" THEN "v3" ELSE "v3g"

HeaderWrite == IF NeedsHeader THEN <<Header>> ELSE <<>>
NextRecord == Record(Sealed_format, lsn + 1, nextId)

\* The disk images an append may be interrupted with: in _start_v3, or in
\* _write_disk, which runs only outside a transaction.
AppendInterrupted ==
  (IF NeedsHeader THEN Interrupted(disk, HeaderWrite) ELSE {}) \cup
  (IF active THEN {} ELSE Interrupted(disk \o HeaderWrite, <<NextRecord>>))

-----------------------------------------------------------------------------
Init ==
  \E n \in 0..MaxLegacy :
    /\ disk = [i \in 1..n |-> Record("v2", i, i)]
    /\ nextId = n + 1
    /\ acked = 1..n
    /\ up = FALSE
    /\ lsn = 0
    /\ v3 = FALSE /\ legacy = FALSE /\ salt = "none"
    /\ active = FALSE /\ buffer = <<>>
    /\ batches = {} /\ discarded = {}
    /\ tried = FALSE /\ retried = FALSE
    /\ faults = 0

\* A record leaves the buffer without any commit having been attempted.
Discard == discarded' = IF tried THEN discarded ELSE discarded \cup IdsOf(buffer)

\* The process is gone, and with it everything but the file.
Dies ==
  /\ up' = FALSE
  /\ lsn' = 0 /\ v3' = FALSE /\ legacy' = FALSE /\ salt' = "none"
  /\ active' = FALSE /\ buffer' = <<>> /\ tried' = FALSE
  /\ Discard

Fault == faults < MaxFaults /\ faults' = faults + 1

\* Faulty variants of the definitions below, one plausible mistake each, with
\* which the properties at the end of this module are shown to be violated.

\* The sequence number restarts at zero in every process.
Faulty_InitLsn == lsn' = 0

\* The recovered number is taken for the next one to issue.
Faulty_InitLsn_OffByOne ==
  \E S \in Replays(disk) : \E n \in LsnsOf(disk, S) \cup {0} :
    /\ \A m \in LsnsOf(disk, S) : m <= n
    /\ lsn' = n - 1

\* The legacy flag is set whatever the first bytes of the file are.
Faulty_LoadHeader ==
  /\ v3' = (FileFormat(disk) = "v3")
  /\ salt' = IF FileFormat(disk) = "v3" THEN "own" ELSE "none"
  /\ legacy' = (disk # <<>>)

\* rollback() leaves the transaction open.
Faulty_Rollback_NoReset ==
  /\ up
  /\ discarded' = discarded \cup IdsOf(buffer)
  /\ UNCHANGED <<disk, up, memory, nextId, acked, batches, tried, retried, faults>>

\* _load_v3_header (replay, which _init_lsn calls, sets the same attributes).
LoadHeader ==
  /\ v3' = (FileFormat(disk) \in {"v3", "v3g"})
  /\ salt' = SaltOf(FileFormat(disk))
  /\ legacy' = (FileFormat(disk) = "v2" /\ ~(Len(disk) = 1 /\ Torn(disk[1])))

\* _init_lsn: the greatest LSN that replay returns.
InitLsn ==
  \E S \in Replays(disk) : \E n \in LsnsOf(disk, S) \cup {0} :
    /\ \A m \in LsnsOf(disk, S) : m <= n
    /\ lsn' = n

\* __init__
Open ==
  /\ ~up
  /\ up' = TRUE
  /\ LoadHeader
  /\ active' = FALSE /\ buffer' = <<>>
  /\ InitLsn
  /\ UNCHANGED <<disk, ghosts>>

\* begin(): also when a transaction is open, whose records are then dropped.
Begin ==
  /\ up
  /\ active' = TRUE
  /\ buffer' = <<>>
  /\ tried' = FALSE
  /\ Discard
  /\ UNCHANGED <<disk, up, lsn, v3, legacy, salt, nextId, acked, batches, retried, faults>>

\* What append does before it writes its record, whether it returns or raises.
TakeLsn ==
  /\ up
  /\ nextId <= MaxAppends
  /\ nextId' = nextId + 1
  /\ lsn' = lsn + 1
  /\ v3' = Sealed_v3 /\ legacy' = Sealed_legacy /\ salt' = Sealed_salt

\* append() that returns.
AppendRecord ==
  /\ TakeLsn
  /\ \/ /\ active
        /\ disk' = disk \o HeaderWrite
        /\ buffer' = Append(buffer, NextRecord)
        /\ UNCHANGED acked
     \/ /\ ~active
        /\ disk' = (disk \o HeaderWrite) \o <<NextRecord>>
        /\ acked' = acked \cup {nextId}
        /\ UNCHANGED buffer
  /\ UNCHANGED <<up, active, batches, discarded, tried, retried, faults>>

\* append() whose header write or record write raises.  The sequence number is
\* spent, and _start_v3 has set _v3 before it touched the file.
AppendRaises ==
  /\ WritesRaise
  /\ TakeLsn
  /\ disk' \in AppendInterrupted
  /\ Fault
  /\ UNCHANGED <<up, active, buffer, acked, batches, discarded, tried, retried>>

\* The process dies while append() writes.
AppendDies ==
  /\ up
  /\ nextId <= MaxAppends
  /\ nextId' = nextId + 1
  /\ disk' \in AppendInterrupted
  /\ Fault
  /\ Dies
  /\ UNCHANGED <<acked, batches, retried>>

\* commit() is a no-op outside a transaction.  What it does in one, up to the
\* outcome of the write:
StartCommit ==
  /\ up
  /\ active
  /\ batches' = batches \cup {IdsOf(buffer)}
  /\ retried' = (retried \/ tried)

CommitTxn ==
  /\ StartCommit
  /\ disk' = disk \o buffer
  /\ acked' = acked \cup IdsOf(buffer)
  /\ active' = FALSE
  /\ buffer' = <<>>
  /\ tried' = FALSE
  /\ UNCHANGED <<up, lsn, v3, legacy, salt, nextId, discarded, faults>>

\* commit() raises out of _write_disk: the transaction stays open.
CommitRaises ==
  /\ WritesRaise
  /\ StartCommit
  /\ disk' \in Interrupted(disk, buffer)
  /\ Fault
  /\ tried' = TRUE
  /\ UNCHANGED <<up, memory, nextId, acked, discarded>>

CommitDies ==
  /\ StartCommit
  /\ disk' \in Interrupted(disk, buffer)
  /\ Fault
  /\ up' = FALSE
  /\ lsn' = 0 /\ v3' = FALSE /\ legacy' = FALSE /\ salt' = "none"
  /\ active' = FALSE /\ buffer' = <<>> /\ tried' = FALSE
  /\ UNCHANGED <<nextId, acked, discarded>>

Rollback ==
  /\ up
  /\ active' = FALSE
  /\ buffer' = <<>>
  /\ tried' = FALSE
  /\ Discard
  /\ UNCHANGED <<disk, up, lsn, v3, legacy, salt, nextId, acked, batches, retried, faults>>

\* replay() on an open log adopts the salt it finds in the file.
Replay ==
  /\ up
  /\ FileFormat(disk) \in {"v3", "v3g"}
  /\ v3' = TRUE
  /\ salt' = SaltOf(FileFormat(disk))
  /\ UNCHANGED <<disk, up, lsn, legacy, active, buffer, ghosts>>

\* The process stops, or is killed, between two operations.
Crash ==
  /\ up
  /\ Dies
  /\ UNCHANGED <<disk, nextId, acked, batches, retried, faults>>

Next ==
  \/ Open \/ Begin
  \/ AppendRecord \/ AppendRaises \/ AppendDies
  \/ CommitTxn \/ CommitRaises \/ CommitDies
  \/ Rollback \/ Replay \/ Crash

Spec == Init /\ [][Next]_vars
-----------------------------------------------------------------------------
(***************************************************************************)
(* What the log promises.                                                  *)
(***************************************************************************)

\* The values the instance attributes, the file and the history may take.
TypeOK ==
  /\ disk \in Seq(Chunk)
  /\ up \in BOOLEAN
  /\ lsn \in Nat
  /\ v3 \in BOOLEAN /\ legacy \in BOOLEAN /\ salt \in Salts
  /\ active \in BOOLEAN
  /\ buffer \in Seq(Chunk)
  /\ nextId \in Nat \ {0}
  /\ acked \subseteq Nat /\ discarded \subseteq Nat
  /\ batches \subseteq SUBSET Nat
  /\ tried \in BOOLEAN /\ retried \in BOOLEAN
  /\ faults \in 0..MaxFaults

\* "Log sequence numbers" order the log: the records that replay returns from
\* ahead of the first tear carry strictly increasing LSNs, across any number
\* of rollbacks, failed writes, crashes and reopenings, and the open log never
\* goes back below one of them (so _init_lsn never reissues a number that is
\* readable).  The one way to break it is to commit a transaction again whose
\* commit has already raised.
ReplayOrdered ==
  ~retried =>
    /\ \A i, j \in Sure(disk) : i < j => disk[i].lsn < disk[j].lsn
    /\ up => \A i \in Sure(disk) : disk[i].lsn <= lsn

\* No write has left a part of a chunk, and the file starts with a whole v3
\* header or is a log of the older version.
Undamaged(d) ==
  /\ d # <<>>
  /\ \A i \in DOMAIN d : ~Torn(d[i])
  /\ d[1].kind = "hdr" \/ d[1].fmt = "v2"

\* Durability: in an undamaged file, whatever sequence of transactions, failed
\* writes, crashes and reopenings produced it, replay returns every record
\* whose append or commit has returned.  It needs one file never to mix the v2
\* and v3 layouts (_encrypt, _load_v3_header).
AckedDurable ==
  Undamaged(disk) => acked \subseteq IdsAt(disk, Sure(disk))

\* Rollback: a record that begin, rollback or a crash dropped from the
\* transaction buffer before any commit is never found in the file.
DiscardedAbsent == discarded \cap IdsOf(disk) = {}

\* core/wal.py line 7, "Automatic crash recovery": in a log with a whole header,
\* what was acknowledged is returned by every replay, also when an earlier write
\* was cut short by the death of its process and others came after the restart.
CrashRecovery ==
  (disk # <<>> /\ disk[1].kind = "hdr") =>
    \A S \in Replays(disk) : acked \subseteq IdsAt(disk, S)
=============================================================================
