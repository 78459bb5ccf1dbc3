------------------------------ MODULE Matcher ------------------------------
(***************************************************************************)
(* engine/pattern_matcher.py, the registry of patterns; the Python search  *)
(* of core/accel.py; and the way through a signature file, written by      *)
(* _c_match of accel and read by core/c_core_bridge.py as the C core does. *)
(*                                                                         *)
(* A text is a sequence of characters; what fold_ascii makes of one is     *)
(* given by FoldAscii, its bytes by Width.  Names that _c_match made up    *)
(* ("s0", ...) are one character here.  The nodes of the automaton are the *)
(* texts that lead to them.                                                *)
(***************************************************************************)
EXTENDS Integers, Sequences, SequencesExt, FiniteSets, FiniteSetsExt, Functions

CONSTANTS Chars,       \* the characters
          FoldAscii,   \* character -> the character fold_ascii makes of it
          Width,       \* character -> its bytes in UTF-8
          Patterns,    \* what is registered
          Lower,       \* pattern -> what str.lower makes of it
          Made,        \* the names that _c_match makes up
          MaxPatterns, \* bound on the patterns of one registry
          Texts        \* what is searched

Blanks == {" ", "\t"}
Breaks == {"\n", "\r"}

ASSUME MatcherAssumption ==
  /\ Patterns \subseteq Seq(Chars) /\ IsFiniteSet(Patterns) /\ Texts \subseteq Seq(Chars)
  /\ FoldAscii \in [Chars -> Chars] /\ Width \in [Chars -> 1..4]
  /\ \A c \in Chars : Width[FoldAscii[c]] = Width[c]
  /\ Lower \in [Patterns -> Seq(Chars)] /\ \A p \in Patterns : Lower[p] = <<>> <=> p = <<>>
  /\ Made \in Seq(Chars) /\ IsInjective(Made)
  /\ \A i \in DOMAIN Made : Made[i] \notin Blanks \cup Breaks \cup {"#"}
  /\ MaxPatterns \in 0..Len(Made)

VARIABLES
  outputs,   \* node -> its outputs
  built,     \* the failure links are up to date
  added      \* history: the patterns registered

matcherVars == <<outputs, built, added>>

Map(f, s) == [i \in DOMAIN s |-> f[s[i]]]

-----------------------------------------------------------------------------
(***************************************************************************)
(* AhoCorasickMatcher                                                      *)
(***************************************************************************)
\* add_pattern
Add(outs, p) ==
  LET end == Lower[p]
  IN  [x \in DOMAIN outs \cup Prefixes(end) |->
         (IF x \in DOMAIN outs THEN outs[x] ELSE {}) \cup (IF x = end THEN {p} ELSE {})]

AddAll(outs, ps) ==
  LET s == SetToSeq(ps)
      upTo[n \in 0..Len(s)] == IF n = 0 THEN outs ELSE Add(upTo[n - 1], s[n])
  IN  upTo[Len(s)]

\* The loop over failure links: back from y until it can be gone on with by c,
\* which is at the root at the latest.
StepBack(link, y, c) == IF Append(y, c) \in DOMAIN link THEN y ELSE link[y]
GoOn(link, y, c) == IF Append(y, c) \in DOMAIN link THEN Append(y, c) ELSE <<>>

Follow(link, y, c) ==
  LET back[k \in 0..Len(y)] == IF k = 0 THEN y ELSE StepBack(link, back[k - 1], c)
  IN  GoOn(link, back[Len(y)], c)

\* Faulty variant: the outputs are taken over before the link is set.
Faulty_Level(st, n) ==
  LET link == [x \in DOMAIN st.link |-> IF n > 1 /\ Len(x) = n THEN Follow(st.link, st.link[Front(x)], Last(x)) ELSE st.link[x]]
  IN  [link |-> link, outs |-> [x \in DOMAIN link |-> IF n > 1 /\ Len(x) = n THEN st.outs[x] \cup st.outs[st.link[x]] ELSE st.outs[x]]]

\* The nodes of one depth: the link of each, and its outputs.
Level(st, n) ==
  LET link == [x \in DOMAIN st.link |-> IF n > 1 /\ Len(x) = n THEN Follow(st.link, st.link[Front(x)], Last(x)) ELSE st.link[x]]
  IN  [link |-> link, outs |-> [x \in DOMAIN link |-> IF n > 1 /\ Len(x) = n THEN st.outs[x] \cup st.outs[link[x]] ELSE st.outs[x]]]

\* build_failure_links: breadth first, so one depth after the other.
Depth(nodes_) == Max({Len(x) : x \in nodes_})

Built(outs) ==
  LET st[n \in 0..Depth(DOMAIN outs)] ==
        IF n = 0 THEN [link |-> [x \in DOMAIN outs |-> <<>>], outs |-> outs] ELSE Level(st[n - 1], n)
  IN  st[Depth(DOMAIN outs)].outs

AddPattern(p) ==
  /\ outputs' = Add(outputs, p)
  /\ built' = FALSE /\ added' = added \cup {p}

\* load_defaults, load_from_json
Load(ps) ==
  /\ outputs' = Built(AddAll(outputs, ps))
  /\ built' = TRUE /\ added' = added \cup ps

\* An entry of the file that is not a text: what came before it stays, and the
\* links are left as they were.
LoadRaises(ps) ==
  /\ outputs' = AddAll(outputs, ps)
  /\ built' = FALSE /\ added' = added \cup ps

\* all_patterns
AllPatterns == UNION Range(outputs)

MatcherInit == outputs = [x \in {<<>>} |-> {}] /\ built = FALSE /\ added = {}

MatcherNext ==
  \E ps \in SUBSET Patterns :
    /\ Cardinality(added \cup ps) <= MaxPatterns
    /\ Load(ps) \/ LoadRaises(ps) \/ \E p \in ps : AddPattern(p)

MatcherSpec == MatcherInit /\ [][MatcherNext]_matcherVars

-----------------------------------------------------------------------------
(***************************************************************************)
(* The search                                                              *)
(***************************************************************************)
OccursAt(t, p, k) == k + Len(p) - 1 <= Len(t) /\ SubSeq(t, k, k + Len(p) - 1) = p

\* Faulty variant: the search goes on behind what it found.
Faulty_NextStart(p, k) == k + Len(p)

NextStart(p, k) == k + 1

Look(st, t, p, k) ==
  IF k >= st.from /\ OccursAt(t, p, k) THEN [found |-> st.found \cup {k}, from |-> NextStart(p, k)] ELSE st

\* find_all_occurrences
FindAll(t, p) ==
  LET st[k \in 0..Len(t)] == IF k = 0 THEN [found |-> {}, from |-> 1] ELSE Look(st[k - 1], t, p, k)
  IN  st[Len(t)].found

\* byte_offset
ByteOffset(t, k) ==
  LET sum[i \in 0..(k - 1)] == IF i = 0 THEN 0 ELSE sum[i - 1] + Width[t[i]]
  IN  sum[k - 1]

\* What both fallbacks do with one pattern
Hits(t, name, p) ==
  LET folded == Map(FoldAscii, t)
  IN  IF p = <<>> THEN {} ELSE {<<name, ByteOffset(folded, k)>> : k \in FindAll(folded, Map(FoldAscii, p))}

\* _python_match, _normalise
PythonMatch(t, ps) == UNION {Hits(t, p, p) : p \in Range(ps)}

\* The file of _c_match: name, tab and pattern of each, on a line
LineFor(i, p) == <<Made[i], "\t">> \o p \o <<"\n">>

FileOf(ps) ==
  LET upTo[n \in 0..Len(ps)] == IF n = 0 THEN <<>> ELSE upTo[n - 1] \o LineFor(n, ps[n])
  IN  upTo[Len(ps)]

\* What is between one break, or end of the file, and the next.
LinesOf(file) ==
  LET cuts == {0, Len(file) + 1} \cup {i \in DOMAIN file : file[i] \in Breaks}
      next == {x \in cuts \X cuts : x[1] < x[2] /\ \A i \in cuts : i <= x[1] \/ x[2] <= i}
  IN  {SubSeq(file, x[1] + 1, x[2] - 1) : x \in next}

Strip(l) ==
  LET Inside(c) == c \notin Blanks
  IN  IF SelectInSeq(l, Inside) = 0 THEN <<>> ELSE SubSeq(l, SelectInSeq(l, Inside), SelectLastInSeq(l, Inside))

\* One line: a name and a pattern, or one text that is both
PairOf(l) ==
  LET tab == SelectInSeq(l, LAMBDA c : c = "\t")
  IN  IF tab > 0 THEN <<SubSeq(l, 1, tab - 1), SubSeq(l, tab + 1, Len(l))>> ELSE <<l, l>>

\* _load_signatures, a pair once
LoadSignatures(file) ==
  {PairOf(l) : l \in {x \in {Strip(y) : y \in LinesOf(file)} : x # <<>> /\ x[1] # "#"}}

\* _c_match, by way of _python_fallback: what was made up is translated back.
FileMatch(t, ps) ==
  {LET i == SelectInSeq(Made, LAMBDA n : <<n>> = hit[1]) IN <<IF i \in DOMAIN ps THEN ps[i] ELSE hit[1], hit[2]>> :
     hit \in UNION {Hits(t, pair[1], pair[2]) : pair \in LoadSignatures(FileOf(ps))}}

-----------------------------------------------------------------------------
(***************************************************************************)
(* Properties                                                              *)
(***************************************************************************)
\* However often and in whatever pieces patterns are loaded, failed loads among
\* them: the registry lists every pattern, and once the links are built, the
\* outputs of a node are the patterns that a text ends with there
\* (add_pattern, build_failure_links, all_patterns).
OutputsAreSuffixes ==
  /\ AllPatterns = added
  /\ built => \A x \in DOMAIN outputs : outputs[x] \ {<<>>} = {p \in added \ {<<>>} : IsSuffix(Lower[p], x)}

\* A pattern that survives the signature file
Plain(p) == p # <<>> /\ Last(p) \notin Blanks /\ \A i \in DOMAIN p : p[i] \notin Breaks

Same(t, p, k) == k + Len(p) - 1 <= Len(t) /\ \A i \in DOMAIN p : FoldAscii[t[k + i - 1]] = FoldAscii[p[i]]
BytesBefore(t, k) == Cardinality({x \in (1..(k - 1)) \X (1..4) : x[2] <= Width[t[x[1]]]})
Occurrences(t, ps) ==
  UNION {{<<p, BytesBefore(t, k)>> : k \in {j \in DOMAIN t : Same(t, p, j)}} : p \in ps \ {<<>>}}

\* The search in Python reports every place of every pattern, overlapping ones
\* too, by its bytes and with the case of ASCII letters alone ignored; and the
\* way through the file reports the same, as long as every pattern survives it
\* ("the same answer whether the C core, the Rust core or the Python fallback
\* served it").
MatchersAgree ==
  LET ps == SetToSeq(AllPatterns)
  IN  ps # <<>> => \A t \in Texts :
        LET right == Occurrences(t, AllPatterns)
        IN  /\ PythonMatch(t, ps) = right
            /\ (\A p \in AllPatterns : Plain(p)) => FileMatch(t, ps) = right
=============================================================================
