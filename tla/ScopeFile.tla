------------------------------ MODULE ScopeFile ------------------------------
(***************************************************************************)
(* core/scope.py: the scope file, read line by line by _parse_scope_yaml,  *)
(* checked by _validate_document, and the ScopeEnforcer made from it.      *)
(*                                                                         *)
(* A line is its indentation and what it holds: "scope:", another key with *)
(* its colon, "sub: value", "- value" (whose value has no colon), or none  *)
(* of these.  A value is how it is written (form) and the text or number   *)
(* it stands for; a name is the sequence of its characters.  Blank lines   *)
(* and whole-line comments are "blank".  A file in JSON is left out.  The  *)
(* properties compare the reader with the files that its docstring and the *)
(* shipped config/scope.yaml describe, and with what those files say.      *)
(***************************************************************************)
EXTENDS Integers, Sequences, SequencesExt, FiniteSets

CONSTANTS Lines,      \* the lines a file is made of
          MaxLines,   \* bound on the lines of a file
          Targets,    \* names that the enforcer is asked about
          Addresses,  \* addresses that the enforcer is asked about
          Networks    \* the text of a network -> its addresses

ASSUME ScopeAssumption ==
  /\ MaxLines \in Nat
  /\ \A l \in Lines : l.token.text \in Seq(STRING)
  /\ Targets \subseteq Seq(STRING)
  /\ \A x \in DOMAIN Networks : Networks[x] \subseteq Addresses

Keys == {"domains", "cidrs", "ports", "rate_limit"}
Dot == "."

Token(form, text, n) == [form |-> form, text |-> text, n |-> n]
Blank == [indent |-> 0, kind |-> "blank", key |-> "", token |-> Token("empty", <<>>, 0)]
Line(i, k, word, token) == [indent |-> i, kind |-> k, key |-> word, token |-> token]

VARIABLES
  lines,     \* what was read of the file
  seenScope, current,   \* seen_scope; current, "" for None
  body,      \* body: key -> the values below it, for rate_limit <<sub, value>>
  outcome,   \* "reading", "ScopeError", "ValueError", "accepted"
  config     \* the ScopeEnforcer: its domains, networks and ports

scopeVars == <<lines, seenScope, current, body, outcome, config>>

-----------------------------------------------------------------------------
(***************************************************************************)
(* The reader                                                              *)
(***************************************************************************)
Text(s) == [type |-> "str", text |-> s, n |-> 0]
IntOf(n) == [type |-> "int", text |-> <<>>, n |-> n]
Unreadable(error) == [type |-> error, text |-> <<>>, n |-> 0]

\* _scalar takes what is between the first character and the last of a value that
\* begins and ends with the same quote: when a comment behind it ends with that
\* quote, too ("quote_in_comment"), the comment becomes part of the text.
Swallowed == <<"comment">>
TextTaken(token) == IF token.form = "quote_in_comment" THEN token.text \o Swallowed ELSE token.text

\* _scalar: a number with a fraction stays text, and a comment is not looked
\* for behind a quoted value.
Scalar(token) ==
  CASE token.form \in {"quoted", "quote_in_comment", "word", "word_comment", "fraction"} -> Text(TextTaken(token))
    [] token.form \in {"int", "int_comment"} -> IntOf(token.n)
    [] token.form = "two_signs" -> Unreadable("ValueError")
    [] OTHER -> Unreadable("ScopeError")  \* empty, or a quote without its end

Readable(value) == value.type \in {"str", "int"}

Fails(error) == outcome' = error /\ UNCHANGED <<seenScope, current, body, config>>

\* Faulty variant: a key may come twice, and starts afresh.
Faulty_OpensKey(l) == l.kind = "key" /\ l.indent = 2 /\ l.key \in Keys

OpensKey(l) == l.kind = "key" /\ l.indent = 2 /\ l.key \in Keys \ DOMAIN body

AddsItem(l) == l.kind = "item" /\ l.indent = 4 /\ current \in DOMAIN body \ {"rate_limit"}

\* A line of the mapping below rate_limit
AddsPair(l) ==
  /\ l.kind = "pair" /\ l.indent = 4 /\ current = "rate_limit"
  /\ \A i \in DOMAIN body[current] : body[current][i][1] # l.key

Put(k, v) == body' = [x \in DOMAIN body \cup {k} |-> IF x = k THEN v ELSE body[x]]

\* Another line
ReadLine(l) ==
  /\ outcome = "reading" /\ Len(lines) < MaxLines
  /\ lines' = Append(lines, l)
  /\ LET value == Scalar(l.token)
     IN  \/ l.kind = "blank" /\ UNCHANGED <<seenScope, current, body, outcome, config>>
         \/ /\ l.kind = "scope" /\ l.indent = 0
            /\ IF seenScope THEN Fails("ScopeError")
               ELSE seenScope' = TRUE /\ UNCHANGED <<current, body, outcome, config>>
         \/ /\ seenScope /\ OpensKey(l)
            /\ current' = l.key /\ Put(l.key, <<>>)
            /\ UNCHANGED <<seenScope, outcome, config>>
         \/ /\ seenScope /\ (AddsItem(l) \/ AddsPair(l)) /\ Readable(value)
            /\ Put(current, Append(body[current], IF AddsItem(l) THEN value ELSE <<l.key, value>>))
            /\ UNCHANGED <<seenScope, current, outcome, config>>
         \/ /\ seenScope /\ (AddsItem(l) \/ AddsPair(l)) /\ ~Readable(value)
            /\ Fails(value.type)
         \/ /\ l.kind # "blank" /\ ~(l.kind = "scope" /\ l.indent = 0)
            /\ ~(seenScope /\ (OpensKey(l) \/ AddsItem(l) \/ AddsPair(l)))
            /\ Fails("ScopeError")

-----------------------------------------------------------------------------
(***************************************************************************)
(* _validate_document and ScopeEnforcer                                    *)
(***************************************************************************)
Below(k) == IF k \in DOMAIN body THEN body[k] ELSE <<>>

\* _strings: "" and "*" are no names
TooWide == {<<>>, <<"*">>}
Strings(values) == \A i \in DOMAIN values : values[i].type = "str" /\ values[i].text \notin TooWide
\* _ports
PortRange == 1..65535
Ports(values) == \A i \in DOMAIN values : values[i].type = "int" /\ values[i].n \in PortRange
Rates(pairs) == \A i \in DOMAIN pairs : pairs[i][2].type = "int" /\ pairs[i][2].n >= 0

Valid == Strings(Below("domains")) /\ Strings(Below("cidrs")) /\ Ports(Below("ports")) /\ Rates(Below("rate_limit"))

\* .rstrip(".")
TrimDots(name) ==
  SubSeq(name, 1, CHOOSE n \in 0..Len(name) : (n > 0 => name[n] # Dot) /\ \A i \in (n + 1)..Len(name) : name[i] = Dot)

TextsOf(values) == {values[i].text : i \in DOMAIN values}
NumbersOf(values) == {values[i].n : i \in DOMAIN values}
NoConfig == [domains |-> {}, networks |-> {}, ports |-> {}]

\* The end of the file
EndOfFile ==
  /\ outcome = "reading"
  /\ \/ /\ ~(seenScope /\ Valid)
        /\ outcome' = "ScopeError" /\ UNCHANGED config
     \/ /\ seenScope /\ Valid /\ ~(TextsOf(Below("cidrs")) \subseteq DOMAIN Networks)
        /\ outcome' = "ValueError" /\ UNCHANGED config
     \/ /\ seenScope /\ Valid /\ TextsOf(Below("cidrs")) \subseteq DOMAIN Networks
        /\ outcome' = "accepted"
        /\ config' = [domains |-> {TrimDots(d) : d \in TextsOf(Below("domains"))},
                      networks |-> TextsOf(Below("cidrs")),
                      ports |-> NumbersOf(Below("ports"))]
  /\ UNCHANGED <<lines, seenScope, current, body>>

\* Faulty variant: the name ends with a domain, anywhere in a label.
Faulty_Under(name, d) == IsSuffix(d, name)

Under(name, d) == name = d \/ IsSuffix(<<Dot>> \o d, name)

\* is_target_allowed, for a name and for an address
NameAllowed(target) == LET name == TrimDots(target) IN name # <<>> /\ \E d \in config.domains : Under(name, d)
AddressAllowed(a) == \E x \in config.networks : a \in Networks[x]
\* check_ports, for one port
PortAllowed(p) == config.ports = {} \/ p \in config.ports

ScopeInit ==
  /\ lines = <<>> /\ seenScope = FALSE /\ current = "" /\ body = <<>>
  /\ outcome = "reading" /\ config = NoConfig

ScopeNext == EndOfFile \/ \E l \in Lines : ReadLine(l)

ScopeSpec == ScopeInit /\ [][ScopeNext]_scopeVars

-----------------------------------------------------------------------------
(***************************************************************************)
(* Properties                                                              *)
(***************************************************************************)
\* The lines that say something, and those of them that are below a key, with
\* no other key between.
Written == {i \in DOMAIN lines : lines[i].kind # "blank"}
EntriesOf(k) ==
  {i \in Written : /\ lines[i].kind # "key"
                   /\ \E j \in 1..(i - 1) : /\ lines[j].kind = "key" /\ lines[j].key = k
                                            /\ \A m \in (j + 1)..(i - 1) : lines[m].kind # "key"}

\* The shape that the docstring of _parse_scope_yaml gives: "scope:" first and
\* once, known keys once each, two spaces in, list items or pairs four spaces in
\* below the key they belong to.
MayFollow(i) ==
  \/ /\ lines[i].kind = "key" /\ lines[i].indent = 2 /\ lines[i].key \in Keys
     /\ \A j \in 1..(i - 1) : lines[j].kind = "key" => lines[j].key # lines[i].key
  \/ /\ lines[i].kind = "item" /\ lines[i].indent = 4
     /\ \E k \in Keys \ {"rate_limit"} : i \in EntriesOf(k)
  \/ /\ lines[i].kind = "pair" /\ lines[i].indent = 4 /\ i \in EntriesOf("rate_limit")
     /\ \A j \in EntriesOf("rate_limit") : j < i => lines[j].key # lines[i].key
InSubset ==
  \E first \in Written : /\ lines[first].kind = "scope" /\ lines[first].indent = 0
                         /\ \A i \in Written \ {first} : first < i /\ MayFollow(i)

\* The values that it gives: "quoting is optional, and comments start at `#` on
\* their own line or after a value"; and the rates may be fractions, as
\* timeout_seconds in the shipped config/scope.yaml is.
Names == {"quoted", "quote_comment", "quote_in_comment", "word", "word_comment", "fraction"}
WholeNumbers == {"int", "int_comment"}
Rate(token) == token.form = "fraction" \/ (token.form \in WholeNumbers /\ token.n >= 0)

\* A documented file, each value of the type that its key needs.
Documented ==
  /\ InSubset
  /\ \A i \in EntriesOf("domains") \cup EntriesOf("cidrs") :
       lines[i].token.form \in Names /\ lines[i].token.text \notin TooWide
  /\ \A i \in EntriesOf("cidrs") : lines[i].token.text \in DOMAIN Networks
  /\ \A i \in EntriesOf("ports") : lines[i].token.form \in WholeNumbers /\ lines[i].token.n \in PortRange
  /\ \A i \in EntriesOf("rate_limit") : Rate(lines[i].token)

\* Every documented file is accepted ("the small YAML subset the project ships
\* and documents").
AcceptsTheDocumented == outcome \in {"ScopeError", "ValueError"} => ~Documented

\* What the reader rejects all the same: a comment after a quoted value, and a
\* fraction where a number is needed.
Rejected(i) ==
  \/ lines[i].token.form = "quote_comment"
  \/ lines[i].token.form = "fraction" /\ i \in EntriesOf("rate_limit")

\* No comment after a quoted value ends with that quote.
NoneSwallowed == \A i \in DOMAIN lines : lines[i].token.form # "quote_in_comment"

\* But for a comment after a quoted value and a fraction, the reader accepts a
\* file exactly if it is documented ("accepted shape, and nothing else"), and what
\* it then holds is what stands below each key in the file.  (A comment that
\* ends with the quote of the value before it is taken for a part of the value.)
ReadsTheSubset ==
  NoneSwallowed =>
    /\ outcome = "accepted" <=> outcome # "reading" /\ Documented /\ \A k \in Keys : \A i \in EntriesOf(k) : ~Rejected(i)
    /\ outcome = "accepted" =>
         config = [domains |-> {TrimDots(lines[i].token.text) : i \in EntriesOf("domains")},
                   networks |-> {lines[i].token.text : i \in EntriesOf("cidrs")},
                   ports |-> {lines[i].token.n : i \in EntriesOf("ports")}]

\* Whatever is in the file, the enforcer made from it allows a target only if
\* a line below the right key, as _scalar takes it, names the target or a domain
\* above it, label by label, or a network around it; and if ports are named,
\* only those.
AllowsOnlyWhatIsWritten ==
  /\ \A target \in Targets : NameAllowed(target) =>
       \E i \in EntriesOf("domains") :
         LET d == TrimDots(TextTaken(lines[i].token))
             n == TrimDots(target)
         IN  n = d \/ (Len(n) > Len(d) /\ n[Len(n) - Len(d)] = Dot /\ SubSeq(n, Len(n) - Len(d) + 1, Len(n)) = d)
  /\ \A a \in Addresses : AddressAllowed(a) => \E i \in EntriesOf("cidrs") : a \in Networks[TextTaken(lines[i].token)]
  /\ outcome = "accepted" => \A i \in EntriesOf("ports") :
       PortAllowed(lines[i].token.n) /\ \A p \in {lines[i].token.n - 1, lines[i].token.n + 1} :
         PortAllowed(p) => \E j \in EntriesOf("ports") : lines[j].token.n = p
=============================================================================
