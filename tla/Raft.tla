-------------------------------- MODULE Raft --------------------------------
(***************************************************************************)
(* core/consensus/raft.go: HandleAppendEntries, the requests of the        *)
(* leaders of several terms as one node receives them - late, again, in    *)
(* any order, or never.                                                    *)
(*                                                                         *)
(* There is no sender in the repository: a request is what a leader of     *)
(* Raft may send, a piece of its log.  An entry is its term; the entry     *)
(* with Go's index i is at place i + 1 here.  VotedFor is read by nobody.  *)
(***************************************************************************)
EXTENDS Integers, Sequences

CONSTANT LeaderLogs  \* term -> the log of the leader of that term

ASSUME LogsAreOfTerms == \A t \in DOMAIN LeaderLogs : LeaderLogs[t] \in Seq(Nat)

\* An entry that two logs have in common has the same entries before it.
Agree(l, m) ==
  \A i \in DOMAIN l \cap DOMAIN m : l[i] = m[i] => \A j \in 1..i : l[j] = m[j]

\* What Raft promises of the logs of its leaders
ASSUME LeadersAgree == \A t, u \in DOMAIN LeaderLogs : Agree(LeaderLogs[t], LeaderLogs[u])

VARIABLES
  role, currentTerm, log, commitIndex,
  gap   \* history: entries from behind the end of the log were taken

raftVars == <<role, currentTerm, log, commitIndex, gap>>

\* What the leader of `term` may send: its entries from..to, the term of the one
\* before them, and how far it has committed.
AppendEntriesArgs(term) ==
  LET l == LeaderLogs[term]
  IN  {[term |-> term, prevLogIndex |-> from - 2, prevLogTerm |-> IF from = 1 THEN 0 ELSE l[from - 1],
        entries |-> SubSeq(l, from, to), leaderCommit |-> commit - 1] : from, commit \in 1..Len(l), to \in 0..Len(l)}

\* Faulty variant: what follows the entry that differs stays.
Faulty_Replace(l, i, entry) == [l EXCEPT ![i] = entry]

\* The log is cut at an entry that differs.
Replace(l, i, entry) == Append(SubSeq(l, 1, i - 1), entry)

\* One entry, at place `i` or behind the end
Place(l, i, entry) ==
  IF i > Len(l) THEN Append(l, entry) ELSE IF l[i] = entry THEN l ELSE Replace(l, i, entry)

\* Log replication: one entry after the other, the first at place `i`.
Replicate(l, i, entries) ==
  LET after[n \in 0..Len(entries)] == IF n = 0 THEN l ELSE Place(after[n - 1], i + n - 1, entries[n])
  IN  after[Len(entries)]

\* The log matching check, which a request from behind the end passes.
Matches(args) == args.prevLogIndex + 1 \in DOMAIN log => log[args.prevLogIndex + 1] = args.prevLogTerm

HandleAppendEntries(args) ==
  /\ args.term >= currentTerm
  /\ currentTerm' = args.term /\ role' = "FOLLOWER"
  /\ IF ~Matches(args) THEN UNCHANGED <<log, commitIndex, gap>>
     ELSE /\ log' = Replicate(log, args.prevLogIndex + 2, args.entries)
          /\ commitIndex' = IF args.leaderCommit <= commitIndex THEN commitIndex
                            ELSE IF args.leaderCommit < Len(log') THEN args.leaderCommit ELSE Len(log') - 1
          /\ gap' = (gap \/ (args.prevLogIndex + 1 > Len(log) /\ args.entries # <<>>))

\* The node of main()
RaftInit == role = "LEADER" /\ currentTerm = 1 /\ log = <<1>> /\ commitIndex = 0 /\ gap = FALSE

RaftNext == \E term \in DOMAIN LeaderLogs : \E args \in AppendEntriesArgs(term) : HandleAppendEntries(args)

RaftSpec == RaftInit /\ [][RaftNext]_raftVars

-----------------------------------------------------------------------------
\* Whatever requests were lost, repeated or overtaken by others: an entry the
\* node has in common with a leader has the same entries before it, as long as
\* the node took none from behind the end of its log (HandleAppendEntries,
\* "Log matching check" and "Log replication").
LogMatching == ~gap => \A t \in DOMAIN LeaderLogs : Agree(log, LeaderLogs[t])
=============================================================================
