---------------------------- MODULE MCFunctions ----------------------------
(* One run of the small modules: what the code makes of one input, the      *)
(* runners, and the processes that open one log.  They share nothing: a     *)
(* behaviour is one of one of them, while the others stay where they began. *)
EXTENDS GoPorts, ScopeFile, AssetGraph, Matcher, Raft, Runners, WalKey, TLC

\* Port arguments: numbers on both sides of the ends of the port space.
Numbers == {0, 2, 4, 6}
SomeTokens == {Junk} \cup {Number(n) : n \in Numbers} \cup {RangeOf(a, b) : a, b \in Numbers}
SomeArguments == {Preset("common"), Preset("all")}
                   \cup {Tokens(s) : s \in BoundedSeq(SomeTokens, 3) \ {<<>>}}
Common == <<2, 4>>

\* Scope files: right and wrong lines of every kind.
NoToken == Token("empty", <<>>, 0)
NameB == Token("word", <<"b">>, 0)
Items == {NameB, NoToken, Token("quoted", <<"*">>, 0), Token("quoted", <<"a", ".">>, 0),
          Token("quoted", <<".">>, 0), Token("quote_comment", <<"b">>, 0), Token("quote_in_comment", <<"b">>, 0), Token("word", <<"n">>, 0),
          Token("int", <<>>, 80), Token("int_comment", <<>>, 65536), Token("two_signs", <<>>, 0)}
SomeLines ==
  {Blank, Line(0, "scope", "", NoToken), Line(0, "key", "domains", NoToken), Line(4, "key", "domains", NoToken)}
    \cup {Line(2, "key", k, NoToken) : k \in Keys \cup {"owner"}}
    \cup {Line(4, "item", "", token) : token \in Items} \cup {Line(2, "item", "", NameB)}
    \cup {Line(4, "pair", "x", Token("int", <<>>, 0)), Line(4, "pair", "x", Token("fraction", <<"2">>, 0)),
          Line(4, "text", "", NoToken)}
Net == (<<"n">> :> {1})
SomeTargets == {<<"b">>, <<"a", ".", "b">>, <<"a", "b">>, <<"b", ".", "a">>, <<"b", ".">>, <<"a">>, <<".">>, <<>>}

\* Graphs: a diamond with a chord and a loop, and two nodes of equal cost.
FourCosts == [n \in 1..4 |-> IF n \in {2, 3} THEN 4 ELSE 2]
SomeLinks == {<<1, 2>>, <<3, 1>>, <<2, 4>>, <<3, 4>>, <<2, 3>>, <<4, 4>>}
EndToEnd == {<<1, 4>>}

\* Patterns that overlap, differ in case, are wider than a byte, or do not
\* survive the signature file; texts with all of it.
SomeNames == <<"s0", "s1", "s2">>
Alphabet == {"a", "A", "u", "U", " ", "\t", "\n", "\r", "#"} \cup ToSet(SomeNames)
Ascii == [c \in Alphabet |-> IF c = "A" THEN "a" ELSE c]
Bytes == [c \in Alphabet |-> IF c \in {"u", "U"} \cup ToSet(SomeNames) THEN 2 ELSE 1]
SomePatterns == {<<>>, <<"a">>, <<"A", "a">>, <<"u", "a">>, <<"U", "a">>, <<" ", "a">>, <<"a", " ">>,
                 <<"a", "\t", "a">>, <<"a", "a", "a">>}
LowerCase == [p \in SomePatterns |-> [i \in DOMAIN p |-> IF p[i] = "U" THEN "u" ELSE Ascii[p[i]]]]
SomeTexts == BoundedSeq({"a", "A", "U", " "}, 4) \cup BoundedSeq({"a", "\t", "s0"}, 3)

\* Leaders that go on from different places of each other's logs.
SomeLogs == <<<<1, 1, 1>>, <<1, 2, 2>>, <<1, 1, 3, 3>>, <<1, 2, 2, 4>>>>

\* Processes are alike.
ProcSymmetry == Permutations(Procs)

functionVars == <<portsVars, scopeVars, graphVars, matcherVars, raftVars, runnerVars>>
PortsAtRest == arg = Preset("common") /\ ports = Unparsed
FunctionsAtRest == PortsAtRest /\ ScopeInit /\ GraphInit /\ MatcherInit /\ RaftInit /\ RunnersInit
LogAtRest == Init /\ disk = <<>> /\ keyFile = 0

FunctionsInit ==
  /\ PortsInit /\ ScopeInit /\ GraphInit /\ MatcherInit /\ RaftInit /\ RunnersInit /\ Init
  /\ LogAtRest \/ PortsAtRest

FunctionsNext ==
  \/ /\ LogAtRest
     /\ \/ /\ ScopeInit /\ GraphInit /\ MatcherInit /\ RaftInit /\ RunnersInit /\ PortsNext
           /\ UNCHANGED <<scopeVars, graphVars, matcherVars, raftVars, runnerVars>>
        \/ /\ PortsAtRest /\ GraphInit /\ MatcherInit /\ RaftInit /\ RunnersInit /\ ScopeNext
           /\ UNCHANGED <<portsVars, graphVars, matcherVars, raftVars, runnerVars>>
        \/ /\ PortsAtRest /\ ScopeInit /\ MatcherInit /\ RaftInit /\ RunnersInit /\ GraphNext
           /\ UNCHANGED <<portsVars, scopeVars, matcherVars, raftVars, runnerVars>>
        \/ /\ PortsAtRest /\ ScopeInit /\ GraphInit /\ RaftInit /\ RunnersInit /\ MatcherNext
           /\ UNCHANGED <<portsVars, scopeVars, graphVars, raftVars, runnerVars>>
        \/ /\ PortsAtRest /\ ScopeInit /\ GraphInit /\ MatcherInit /\ RunnersInit /\ RaftNext
           /\ UNCHANGED <<portsVars, scopeVars, graphVars, matcherVars, runnerVars>>
        \/ /\ PortsAtRest /\ ScopeInit /\ GraphInit /\ MatcherInit /\ RaftInit /\ RunnersNext
           /\ UNCHANGED <<portsVars, scopeVars, graphVars, matcherVars, raftVars>>
     /\ UNCHANGED vars
  \/ FunctionsAtRest /\ Next /\ UNCHANGED functionVars
=============================================================================
