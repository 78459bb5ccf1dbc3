------------------------------- MODULE WalKey -------------------------------
(***************************************************************************)
(* core/wal.py: how the processes that open one log come by its master key *)
(* and its record layout.                                                  *)
(*                                                                         *)
(* Module Wal is about one process and its interrupted writes.  Here       *)
(* several processes open the same log, nothing is torn, and a step is one *)
(* system call on the key file or on the log, so that their interleavings  *)
(* are those of separate processes (threading.Lock does not reach across). *)
(* A master key or a salt is a number that is drawn once; 0 is "none".     *)
(* The key comes from the key file; a key passed as an argument or through *)
(* the environment is never created, so nothing can go wrong with it here. *)
(***************************************************************************)
EXTENDS Integers, Sequences, FiniteSets

CONSTANTS Procs,       \* the processes
          MaxRecords,  \* bound on the length of the log
          MaxCrashes   \* bound on the processes that stop

ASSUME KeyBounds ==
  /\ MaxRecords \in Nat
  /\ MaxCrashes \in Nat

VARIABLES
  keyFile,  \* 0: absent; Short: fewer than MIN_KEY_BYTES; else the key in it
  disk,     \* the log: headers [kind |-> "hdr", salt], records [kind |-> "rec", ...]
  pc,       \* where each process is in __init__ or append
  key,      \* self._key of each process
  v3, legacy, salt,  \* the attributes of the same names
  \* History, read by no operation:
  drawn,    \* os.urandom results so far
  replaced, \* some process has replaced an unusable key file
  overlapped, \* a process was started while another had not ended
  crashes

memory == <<key, v3, legacy, salt>>
vars == <<keyFile, disk, pc, memory, drawn, replaced, overlapped, crashes>>

Short == -1
Usable(k) == k > 0

Opening == {"create", "write", "adopt", "read", "unusable", "replace", "keyed", "loaded"}
Holding == {"keyed", "loaded", "open", "header", "record"}
Places == Opening \cup Holding \cup {"down", "refused"}

\* The key and the salt of the log that is there at first, if one is.
FirstKey == 1
FirstSalt == 1

HeaderOf(s) == [kind |-> "hdr", key |-> 0, fmt |-> "v3", salt |-> s]
RecordOf(k, f, s) == [kind |-> "rec", key |-> k, fmt |-> f, salt |-> s]

HasHeader == disk # <<>> /\ disk[1].kind = "hdr"

\* replay() in a process that holds key k returns the record at position i of
\* the log: a header in the middle stops the parser (its magic is no length).
Reads(k, i) ==
  /\ disk[i].kind = "rec"
  /\ disk[i].key = k
  /\ \A j \in 2..i : disk[j].kind # "hdr"
  /\ IF HasHeader THEN disk[i].fmt = "v3" /\ disk[i].salt = disk[1].salt
                  ELSE disk[i].fmt = "v2"

-----------------------------------------------------------------------------
\* Either there is no log yet, with or without a key file cut short, or there
\* is a log, of this version or the older one, whose key is in place or damaged.
Init ==
  /\ \/ disk = <<>> /\ keyFile \in {0, Short}
     \/ disk = <<HeaderOf(FirstSalt), RecordOf(FirstKey, "v3", FirstSalt)>>
        /\ keyFile \in {FirstKey, Short}
     \/ disk = <<RecordOf(FirstKey, "v2", 0)>> /\ keyFile = FirstKey
  /\ pc = [p \in Procs |-> "down"]
  /\ key = [p \in Procs |-> 0]
  /\ v3 = [p \in Procs |-> FALSE]
  /\ legacy = [p \in Procs |-> FALSE]
  /\ salt = [p \in Procs |-> 0]
  /\ drawn = 1
  /\ replaced = FALSE /\ overlapped = FALSE
  /\ crashes = 0

Goto(p, place) == pc' = [pc EXCEPT ![p] = place]

\* _load_or_create_key: key_path.exists()
Start(p) ==
  /\ pc[p] = "down"
  /\ Goto(p, IF keyFile = 0 THEN "create" ELSE "read")
  /\ overlapped' = (overlapped \/ \E q \in Procs : pc[q] \notin {"down", "refused"})
  /\ UNCHANGED <<keyFile, disk, memory, drawn, replaced, crashes>>

\* Faulty variants, one plausible mistake each.

\* The key file is created without O_EXCL.
Faulty_CreateKey(p) ==
  /\ pc[p] = "create"
  /\ keyFile' = Short
  /\ Goto(p, "write")
  /\ UNCHANGED <<disk, memory, drawn, replaced, overlapped, crashes>>

\* The key is drawn but never stored, as in the version the class comment
\* describes.
Faulty_WriteKey(p) ==
  /\ pc[p] = "write"
  /\ drawn' = drawn + 1
  /\ key' = [key EXCEPT ![p] = drawn + 1]
  /\ Goto(p, "keyed")
  /\ UNCHANGED <<keyFile, disk, v3, legacy, salt, replaced, overlapped, crashes>>

\* _write_key(exclusive=True): open("xb") creates the file empty, or raises
\* FileExistsError.
CreateKey(p) ==
  /\ pc[p] = "create"
  /\ \/ keyFile = 0 /\ keyFile' = Short /\ Goto(p, "write")
     \/ keyFile # 0 /\ UNCHANGED keyFile /\ Goto(p, "adopt")
  /\ UNCHANGED <<disk, memory, drawn, replaced, overlapped, crashes>>

\* _write_key: the 32 bytes reach the file when it is closed.
WriteKey(p) ==
  /\ pc[p] = "write"
  /\ drawn' = drawn + 1
  /\ key' = [key EXCEPT ![p] = drawn + 1]
  /\ keyFile' = drawn + 1
  /\ Goto(p, "keyed")
  /\ UNCHANGED <<disk, v3, legacy, salt, replaced, overlapped, crashes>>

\* _adopt_concurrent_key
AdoptKey(p) ==
  /\ pc[p] = "adopt"
  /\ \/ Usable(keyFile) /\ key' = [key EXCEPT ![p] = keyFile] /\ Goto(p, "keyed")
     \/ ~Usable(keyFile) /\ UNCHANGED key /\ Goto(p, "refused")
  /\ UNCHANGED <<keyFile, disk, v3, legacy, salt, drawn, replaced, overlapped, crashes>>

\* The key file exists: read_bytes() and the test of its length.
ReadKey(p) ==
  /\ pc[p] = "read"
  /\ \/ Usable(keyFile) /\ key' = [key EXCEPT ![p] = keyFile] /\ Goto(p, "keyed")
     \/ ~Usable(keyFile) /\ UNCHANGED key /\ Goto(p, "unusable")
  /\ UNCHANGED <<keyFile, disk, v3, legacy, salt, drawn, replaced, overlapped, crashes>>

\* "Refusing to mint a new key" over a log that holds records.
JudgeUnusable(p) ==
  /\ pc[p] = "unusable"
  /\ Goto(p, IF disk # <<>> THEN "refused" ELSE "replace")
  /\ UNCHANGED <<keyFile, disk, memory, drawn, replaced, overlapped, crashes>>

\* _write_key(exclusive=False): open("wb") truncates the file.
ReplaceKey(p) ==
  /\ pc[p] = "replace"
  /\ keyFile' = Short
  /\ replaced' = TRUE
  /\ Goto(p, "write")
  /\ UNCHANGED <<disk, memory, drawn, overlapped, crashes>>

\* _load_v3_header.  (A file that is not empty is longer than its header.)
LoadHeader(p) ==
  /\ pc[p] = "keyed"
  /\ v3' = [v3 EXCEPT ![p] = HasHeader]
  /\ salt' = [salt EXCEPT ![p] = IF HasHeader THEN disk[1].salt ELSE 0]
  /\ legacy' = [legacy EXCEPT ![p] = disk # <<>> /\ ~HasHeader]
  /\ Goto(p, "loaded")
  /\ UNCHANGED <<keyFile, disk, key, drawn, replaced, overlapped, crashes>>

\* replay(), called by _init_lsn ("loaded") and by the owner of the log.
Replay(p) ==
  /\ pc[p] \in {"loaded", "open"}
  /\ \/ /\ HasHeader
        /\ v3' = [v3 EXCEPT ![p] = TRUE]
        /\ salt' = [salt EXCEPT ![p] = disk[1].salt]
     \/ /\ ~HasHeader
        /\ UNCHANGED <<v3, salt>>
  /\ Goto(p, "open")
  /\ UNCHANGED <<keyFile, disk, key, legacy, drawn, replaced, overlapped, crashes>>

\* append -> _encrypt: which layout, from the flags or from st_size.
ChooseLayout(p) ==
  /\ pc[p] = "open"
  /\ Len(disk) < MaxRecords
  /\ \/ /\ legacy[p] \/ v3[p]
        /\ UNCHANGED legacy
        /\ Goto(p, "record")
     \/ /\ ~legacy[p] /\ ~v3[p] /\ disk # <<>>
        /\ legacy' = [legacy EXCEPT ![p] = TRUE]
        /\ Goto(p, "record")
     \/ /\ ~legacy[p] /\ ~v3[p] /\ disk = <<>>
        /\ UNCHANGED legacy
        /\ Goto(p, "header")
  /\ UNCHANGED <<keyFile, disk, key, v3, salt, drawn, replaced, overlapped, crashes>>

\* _start_v3
StartV3(p) ==
  /\ pc[p] = "header"
  /\ drawn' = drawn + 1
  /\ salt' = [salt EXCEPT ![p] = drawn + 1]
  /\ v3' = [v3 EXCEPT ![p] = TRUE]
  /\ disk' = Append(disk, HeaderOf(drawn + 1))
  /\ Goto(p, "record")
  /\ UNCHANGED <<keyFile, key, legacy, replaced, overlapped, crashes>>

\* _write_disk, outside a transaction
WriteRecord(p) ==
  /\ pc[p] = "record"
  /\ disk' = Append(disk, IF legacy[p] THEN RecordOf(key[p], "v2", 0)
                                     ELSE RecordOf(key[p], "v3", salt[p]))
  /\ Goto(p, "open")
  /\ UNCHANGED <<keyFile, memory, drawn, replaced, overlapped, crashes>>

\* The process stops, is killed, or ends after the constructor raised.
Stop(p) ==
  /\ pc[p] # "down"
  /\ crashes < MaxCrashes
  /\ crashes' = crashes + 1
  /\ Goto(p, "down")
  /\ key' = [key EXCEPT ![p] = 0]
  /\ v3' = [v3 EXCEPT ![p] = FALSE]
  /\ legacy' = [legacy EXCEPT ![p] = FALSE]
  /\ salt' = [salt EXCEPT ![p] = 0]
  /\ UNCHANGED <<keyFile, disk, drawn, replaced, overlapped>>

Next == \E p \in Procs :
  \/ Start(p) \/ CreateKey(p) \/ WriteKey(p) \/ AdoptKey(p) \/ ReadKey(p)
  \/ JudgeUnusable(p) \/ ReplaceKey(p) \/ LoadHeader(p) \/ Replay(p)
  \/ ChooseLayout(p) \/ StartV3(p) \/ WriteRecord(p) \/ Stop(p)

Spec == Init /\ [][Next]_vars
-----------------------------------------------------------------------------
Item == [kind : {"hdr", "rec"}, key : Nat, fmt : {"v2", "v3"}, salt : Nat]

\* The exclusive creation of the key file works across processes: however they
\* interleave and wherever they stop, all that hold a key hold the one in the
\* key file, unless one of them has replaced an unusable key file.
OneKey ==
  ~replaced => \A p \in Procs : pc[p] \in Holding => key[p] = keyFile

\* "The key file is what makes the log recoverable": as long as one process at a
\* time has the log open, wherever it stops, every record a process has written
\* is returned to the process that opens the log next (if the log was there at
\* first and its key file had been damaged, nothing can recover it).
Recoverable ==
  ~overlapped => \A i \in DOMAIN disk :
    (disk[i].kind = "rec" /\ ~(disk[i].key = FirstKey /\ keyFile = Short)) => Reads(keyFile, i)
=============================================================================
