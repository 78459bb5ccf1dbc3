------------------------------ MODULE GoPorts ------------------------------
(***************************************************************************)
(* transport/goscan/goscan.go: which ports a port argument stands for.     *)
(*                                                                         *)
(* An argument is a named preset, or the tokens between its commas.  A     *)
(* token is a number, a range of two numbers, or "junk", whatever else     *)
(* (nothing at all included).                                              *)
(***************************************************************************)
EXTENDS Integers, Sequences, SequencesExt, Functions

CONSTANTS MaxPort,      \* 65535
          commonPorts,  \* the default sweep
          Arguments     \* the arguments to parse

PortTokens == [kind : {"junk", "number", "range"}, lo : Int, hi : Int]

ASSUME PortsAssumption ==
  /\ MaxPort \in Nat \ {0}
  /\ commonPorts \in Seq(1..MaxPort) /\ commonPorts # <<>>
  /\ \A a \in Arguments :
       /\ a.tokens \in Seq(PortTokens) /\ a.preset \in {"common", "all", "no"}
       /\ a.preset = "no" <=> a.tokens # <<>>
       /\ \A k \in DOMAIN a.tokens : a.tokens[k].kind = "number" => a.tokens[k].lo = a.tokens[k].hi

Junk == [kind |-> "junk", lo |-> 0, hi |-> 0]
Number(n) == [kind |-> "number", lo |-> n, hi |-> n]
RangeOf(a, b) == [kind |-> "range", lo |-> a, hi |-> b]

Preset(name) == [preset |-> name, tokens |-> <<>>]
Tokens(toks) == [preset |-> "no", tokens |-> toks]

VARIABLES arg,   \* the argument of goscan
          ports  \* what parsePorts makes of it

portsVars == <<arg, ports>>

-----------------------------------------------------------------------------
validPort(p) == p >= 1 /\ p <= MaxPort

Once(s, p) == IF p \in Range(s) THEN s ELSE Append(s, p)

\* First-seen order.
dedupePorts(s) ==
  LET out[n \in 0..Len(s)] == IF n = 0 THEN <<>> ELSE Once(out[n - 1], s[n])
  IN  out[Len(s)]

\* The numbers from lo to hi, clamped to what is a port.
Expand(lo, hi) ==
  LET from == IF lo < 1 THEN 1 ELSE lo
      to == IF hi > MaxPort THEN MaxPort ELSE hi
  IN  IF from > to THEN <<>> ELSE [k \in 1..(to - from + 1) |-> from + k - 1]

\* Faulty variant: one number more than the range has.
Faulty_parsePortToken(t) ==
  [ports |-> IF t.kind = "junk" \/ t.lo > t.hi THEN <<>> ELSE Expand(t.lo, t.hi + 1),
   recognized |-> t.kind = "range"]

\* The ports of one token, and whether it is a specification of ports at all.
parsePortToken(t) ==
  [ports |-> CASE t.kind = "number" /\ validPort(t.lo) -> <<t.lo>>
               [] t.kind = "range" /\ t.lo <= t.hi -> Expand(t.lo, t.hi)
               [] OTHER -> <<>>,
   recognized |-> (t.kind = "number" /\ validPort(t.lo)) \/ t.kind = "range"]

\* The ports of all tokens, one token after the other.
Expanded(tokens) ==
  LET upTo[n \in 0..Len(tokens)] == IF n = 0 THEN <<>> ELSE upTo[n - 1] \o parsePortToken(tokens[n]).ports
  IN  upTo[Len(tokens)]

parsePorts(a) ==
  LET expanded == Expanded(a.tokens)
  IN  CASE a.preset = "common" -> commonPorts
        [] a.preset = "all" -> Expand(1, MaxPort)
        [] a.preset = "no" /\ Len(a.tokens) >= 2 ->
             IF expanded # <<>> THEN dedupePorts(expanded) ELSE commonPorts
        [] a.preset = "no" /\ Len(a.tokens) = 1 ->
             IF parsePortToken(a.tokens[1]).recognized THEN parsePortToken(a.tokens[1]).ports ELSE commonPorts

-----------------------------------------------------------------------------
Unparsed == <<0>>

PortsInit ==
  /\ arg \in Arguments
  /\ ports = Unparsed

Parse ==
  /\ ports = Unparsed
  /\ ports' = parsePorts(arg)
  /\ UNCHANGED arg

PortsNext == Parse

PortsSpec == PortsInit /\ [][PortsNext]_portsVars
-----------------------------------------------------------------------------
Parsed == ports # Unparsed

\* Ports that a token names, by the meaning of numbers and ranges alone.
Named(t) == {p \in 1..MaxPort : t.kind # "junk" /\ t.lo <= p /\ p <= t.hi}

FirstToken(p) == CHOOSE k \in DOMAIN arg.tokens :
                   p \in Named(arg.tokens[k]) /\ \A j \in 1..(k - 1) : p \notin Named(arg.tokens[j])

\* An argument that names a port is swept for exactly the ports it names, in the
\* order in which they are first named, once each ("80,80,443" and overlapping
\* ranges would double-count a port): no token spoils another.
SweepsWhatIsNamed ==
  LET asked == UNION {Named(arg.tokens[k]) : k \in DOMAIN arg.tokens} IN
  (Parsed /\ asked # {}) =>
    /\ Range(ports) = asked
    /\ \A i, j \in DOMAIN ports : i < j =>
         \/ FirstToken(ports[i]) < FirstToken(ports[j])
         \/ FirstToken(ports[i]) = FirstToken(ports[j]) /\ ports[i] < ports[j]
=============================================================================
